-------------------------- MODULE CompletionsProofs --------------------------
(***************************************************************************)
(* What requests that ask the models leave on record: every completion is  *)
(* billed as it was made, and every evaluation adds up, for every value of *)
(* the constants.                                                          *)
(***************************************************************************)
EXTENDS PlatformProofs

Asking == {"strategy", "evaluate"}
AskingAreas == {"knowledge", "evals"}
BillTables == {"ai_runs", "usage_records"}
Meters == {"tokens", "agent_runs"}

(***************************************************************************)
(* Calls that the bill is made of.                                         *)
(***************************************************************************)
\* From the call after the m-th on, a sequence leaves the bill alone.
OffBillAfter(s, m) ==
  /\ IsSequence(s) /\ m \in 0 .. Len(s)
  /\ \A i \in DOMAIN s : i > m => s[i].table \notin BillTables

NoBill(s) == OffBillAfter(s, 0)

Asked(c, j, agent, status) == Inserting("ai_runs", AiRunRow(c, j, agent, status))
Metering(c, j, meter) == Inserting("usage_records", MeterRow(c, j, meter))

\* What is left to record of the j-th call: all of it, both meters, or the last one.
OwesAll(c, s, j, status) ==
  /\ s[1] = Asked(c, j, s[1].row.agentId, status)
  /\ IF status = "completed"
     THEN /\ OffBillAfter(s, 3)
          /\ s[2] = Metering(c, j, "tokens") /\ s[3] = Metering(c, j, "agent_runs")
     ELSE OffBillAfter(s, 2) /\ s[2] = Metering(c, j, "agent_runs")
OwesBoth(c, s, j) ==
  /\ OffBillAfter(s, 2)
  /\ s[1] = Metering(c, j, "tokens") /\ s[2] = Metering(c, j, "agent_runs")
OwesLast(c, s, j) == OffBillAfter(s, 1) /\ s[1] = Metering(c, j, "agent_runs")

LEMMA NoBillNone == NoBill(<<>>)
<1>1. <<>> \in Seq({}) /\ 0 \in 0 .. Len(<<>>) /\ DOMAIN <<>> = {}
  OBVIOUS
<1>2. IsSequence(<<>>)
  BY <1>1, SequenceIs
<1> QED
  BY <1>1, <1>2 DEF NoBill, OffBillAfter

LEMMA NoBillOne ==
  ASSUME NEW k, k.table \notin BillTables
  PROVE  NoBill(<<k>>)
<1>1. <<k>> \in Seq({k}) /\ Len(<<k>>) = 1 /\ DOMAIN <<k>> = 1 .. 1 /\ <<k>>[1] = k
  OBVIOUS
<1>2. IsSequence(<<k>>)
  BY <1>1, SequenceIs
<1> QED
  BY <1>1, <1>2 DEF NoBill, OffBillAfter

LEMMA OffBillCat ==
  ASSUME NEW s, NEW t, NEW m, OffBillAfter(s, m), NoBill(t)
  PROVE  /\ OffBillAfter(s \o t, m) /\ Len(s \o t) = Len(s) + Len(t)
         /\ m >= 2 => (s \o t)[1] = s[1] /\ (s \o t)[2] = s[2]
         /\ m >= 3 => (s \o t)[3] = s[3]
<1> DEFINE S == {s[i] : i \in DOMAIN s} \cup {t[i] : i \in DOMAIN t}
           u == s \o t
<1>1. s \in Seq(S) /\ t \in Seq(S) /\ m \in 0 .. Len(s)
  BY DEF OffBillAfter, NoBill, IsSequence
<1>2. /\ \A i \in DOMAIN s : i > m => s[i].table \notin BillTables
      /\ \A i \in DOMAIN t : i > 0 => t[i].table \notin BillTables
  BY DEF OffBillAfter, NoBill
<1> HIDE DEF S
<1>3. /\ u \in Seq(S) /\ Len(u) = Len(s) + Len(t) /\ Len(s) \in Nat /\ Len(t) \in Nat
      /\ DOMAIN u = 1 .. Len(u) /\ DOMAIN s = 1 .. Len(s) /\ DOMAIN t = 1 .. Len(t)
  BY <1>1
<1>4. \A i \in DOMAIN u : \/ i \in DOMAIN s /\ u[i] = s[i]
                          \/ i - Len(s) \in DOMAIN t /\ u[i] = t[i - Len(s)]
  BY <1>1, <1>3
<1>5. \A i \in 1 .. m : u[i] = s[i]
  BY <1>1, <1>3
<1>6. IsSequence(u)
  BY <1>3, SequenceIs
<1>7. \A i \in DOMAIN t : i > 0
  BY <1>3
<1>8. \A i \in DOMAIN u : i > m => u[i].table \notin BillTables
  BY <1>2, <1>4, <1>7
<1>9. m \in 0 .. Len(u)
  BY <1>1, <1>3
<1> HIDE DEF u
<1>10. OffBillAfter(u, m)
  BY <1>6, <1>8, <1>9 DEF OffBillAfter
<1>11. (m >= 2 => u[1] = s[1] /\ u[2] = s[2]) /\ (m >= 3 => u[3] = s[3])
  BY <1>1, <1>5
<1> QED
  BY <1>3, <1>10, <1>11 DEF u

LEMMA NoBillCat ==
  ASSUME NEW s, NEW t, NoBill(s), NoBill(t)
  PROVE  NoBill(s \o t)
BY OffBillCat DEF NoBill

LEMMA NoBillTwo ==
  ASSUME NEW j, NEW k, j.table \notin BillTables, k.table \notin BillTables
  PROVE  NoBill(<<j, k>>)
<1>1. /\ <<j, k>> \in Seq({j, k}) /\ Len(<<j, k>>) = 2 /\ DOMAIN <<j, k>> = 1 .. 2
      /\ <<j, k>>[1] = j /\ <<j, k>>[2] = k
  OBVIOUS
<1>2. IsSequence(<<j, k>>)
  BY <1>1, SequenceIs
<1> QED
  BY <1>1, <1>2 DEF NoBill, OffBillAfter

LEMMA OffBillTail ==
  ASSUME NEW s, NEW m, OffBillAfter(s, m), s # <<>>
  PROVE  /\ Head(s) = s[1] /\ DOMAIN s = 1 .. Len(s) /\ Len(s) \in Nat \ {0}
         /\ m # 0 => OffBillAfter(Tail(s), m - 1)
         /\ m >= 2 => Tail(s)[1] = s[2]
         /\ m >= 3 => Tail(s)[2] = s[3]
         /\ m = 0 => NoBill(Tail(s)) /\ s[1].table \notin BillTables
         /\ Len(Tail(s)) = Len(s) - 1
<1> DEFINE t == Tail(s)
<1>1. IsSequence(s) /\ m \in 0 .. Len(s)
  BY DEF OffBillAfter
<1>2. /\ IsSequence(t) /\ Head(s) = s[1] /\ Len(s) \in Nat \ {0}
      /\ Len(t) = Len(s) - 1 /\ Len(t) \in Nat
      /\ \A i \in 1 .. Len(t) : t[i] = s[i + 1] /\ i + 1 \in 2 .. Len(s)
  BY <1>1, TailOf
<1>3. DOMAIN t = 1 .. Len(t) /\ DOMAIN s = 1 .. Len(s)
  BY <1>1, <1>2, SequenceSpan
<1> HIDE DEF t
<1>4. ASSUME NEW l \in Nat, m <= l + 1, NEW i \in DOMAIN t, i > l PROVE t[i].table \notin BillTables
  <2>1. i + 1 \in DOMAIN s /\ i + 1 > m /\ t[i] = s[i + 1]
    BY <1>1, <1>2, <1>3, <1>4
  <2> QED
    BY <2>1 DEF OffBillAfter
<1>5. m # 0 => OffBillAfter(t, m - 1)
  <2> SUFFICES ASSUME m # 0 PROVE OffBillAfter(t, m - 1)
    OBVIOUS
  <2>1. m - 1 \in Nat /\ m - 1 \in 0 .. Len(t) /\ m <= (m - 1) + 1
    BY <1>1, <1>2
  <2> QED
    BY <1>2, <1>4, <2>1 DEF OffBillAfter
<1>6. (m >= 2 => t[1] = s[2]) /\ (m >= 3 => t[2] = s[3])
  <2>1. \A i \in 1 .. m - 1 : t[i] = s[i + 1]
    BY <1>1, <1>2
  <2>2. m >= 2 => t[1] = s[1 + 1]
    BY <1>1, <1>2, <2>1
  <2>3. m >= 3 => t[2] = s[2 + 1]
    BY <1>1, <1>2, <2>1
  <2> QED
    BY <2>2, <2>3
<1>7. m = 0 => NoBill(t) /\ s[1].table \notin BillTables
  <2> SUFFICES ASSUME m = 0 PROVE NoBill(t) /\ s[1].table \notin BillTables
    OBVIOUS
  <2>1. NoBill(t)
    BY <1>2, <1>4 DEF NoBill, OffBillAfter
  <2>2. 1 \in DOMAIN s /\ 1 > m
    BY <1>2, <1>3
  <2> QED
    BY <2>1, <2>2 DEF OffBillAfter
<1> QED
  BY <1>2, <1>3, <1>5, <1>6, <1>7 DEF t

LEMMA OneMore ==
  ASSUME NEW S, NEW s \in Seq(S), NEW k \in S
  PROVE  /\ s \o <<k>> \in Seq(S) /\ Len(s \o <<k>>) = Len(s) + 1
         /\ (s \o <<k>>)[Len(s) + 1] = k /\ \A i \in 1 .. Len(s) : (s \o <<k>>)[i] = s[i]
OBVIOUS

\* The records that recordAiRun makes, with others after them.
LEMMA RecordIsOwed ==
  ASSUME NEW c, NEW j, NEW agent, NEW status, NEW more, NoBill(more)
  PROVE  /\ OwesAll(c, RecordAiRun(c, j, agent, status) \o more, j, status)
         /\ RecordAiRun(c, j, agent, status) \o more # <<>>
         /\ (RecordAiRun(c, j, agent, status) \o more)[1] = Asked(c, j, agent, status)
<1> DEFINE a == Asked(c, j, agent, status)
           t == Metering(c, j, "tokens")
           g == Metering(c, j, "agent_runs")
           r == RecordAiRun(c, j, agent, status)
<1>1. r = <<a>> \o (IF status = "completed" THEN <<t>> ELSE <<>>) \o <<g>>
  BY DEF RecordAiRun, Asked, Metering
<1>0. a = Asked(c, j, a.row.agentId, status)
  BY DEF Asked, Inserting, AiRunRow
<1> HIDE DEF a, t, g, r
<1> DEFINE S == {a, t, g}
<1>2. <<a>> \in Seq(S) /\ Len(<<a>>) = 1 /\ <<a>>[1] = a /\ t \in S /\ g \in S
  OBVIOUS
<1> HIDE DEF S
<1>3. CASE status = "completed"
  <2> DEFINE at == <<a>> \o <<t>>
  <2>1. r = at \o <<g>>
    BY <1>1, <1>3
  <2>2. at \in Seq(S) /\ Len(at) = 2 /\ at[1] = a /\ at[2] = t
    <3>1. /\ at \in Seq(S) /\ Len(at) = Len(<<a>>) + 1 /\ at[Len(<<a>>) + 1] = t
          /\ \A i \in 1 .. Len(<<a>>) : at[i] = <<a>>[i]
      BY <1>2, OneMore
    <3> QED
      BY <1>2, <3>1
  <2> HIDE DEF at
  <2>3. r \in Seq(S) /\ Len(r) = 3 /\ r[1] = a /\ r[2] = t /\ r[3] = g
    <3>1. /\ at \o <<g>> \in Seq(S) /\ Len(at \o <<g>>) = Len(at) + 1
          /\ (at \o <<g>>)[Len(at) + 1] = g
          /\ \A i \in 1 .. Len(at) : (at \o <<g>>)[i] = at[i]
      <4>1. g \in S /\ at \in Seq(S)
        BY <1>2, <2>2
      <4> QED
        BY ONLY <4>1, OneMore
    <3> QED
      BY <2>1, <2>2, <3>1
  <2>4. OffBillAfter(r, 3)
    BY <2>3, SequenceIs DEF OffBillAfter
  <2>5. /\ OffBillAfter(r \o more, 3)
        /\ (r \o more)[1] = r[1] /\ (r \o more)[2] = r[2] /\ (r \o more)[3] = r[3]
    <3>1. PICK m : m = 3
      OBVIOUS
    <3>2. OffBillAfter(r, m) /\ m >= 2 /\ m >= 3
      BY <2>4, <3>1
    <3>3. /\ OffBillAfter(r \o more, m) /\ (r \o more)[1] = r[1] /\ (r \o more)[2] = r[2]
          /\ (r \o more)[3] = r[3]
      BY <3>2, OffBillCat
    <3> QED
      BY <3>1, <3>3
  <2>6. Len(r \o more) # 0 /\ Len(<<>>) = 0
    BY <2>5 DEF OffBillAfter
  <2> QED
    BY <1>0, <1>3, <2>3, <2>5, <2>6 DEF OwesAll, a, t, g, r
<1>4. CASE status # "completed"
  <2>1. r = (<<a>> \o <<>>) \o <<g>> /\ <<a>> \o <<>> = <<a>>
    BY <1>1, <1>2, <1>4
  <2>2. r \in Seq(S) /\ Len(r) = 2 /\ r[1] = a /\ r[2] = g
    <3>1. /\ r \in Seq(S) /\ Len(r) = Len(<<a>>) + 1 /\ r[Len(<<a>>) + 1] = g
          /\ \A i \in 1 .. Len(<<a>>) : r[i] = <<a>>[i]
      BY <1>2, <2>1, OneMore
    <3> QED
      BY <1>2, <3>1
  <2>3. OffBillAfter(r, 2)
    BY <2>2, SequenceIs DEF OffBillAfter
  <2>4. OffBillAfter(r \o more, 2) /\ (r \o more)[1] = r[1] /\ (r \o more)[2] = r[2]
    <3>1. PICK m : m = 2
      OBVIOUS
    <3>2. OffBillAfter(r, m) /\ m >= 2
      BY <2>3, <3>1
    <3>3. OffBillAfter(r \o more, m) /\ (r \o more)[1] = r[1] /\ (r \o more)[2] = r[2]
      BY <3>2, OffBillCat
    <3> QED
      BY <3>1, <3>3
  <2>5. Len(r \o more) # 0 /\ Len(<<>>) = 0
    BY <2>4 DEF OffBillAfter
  <2> QED
    BY <1>0, <1>4, <2>2, <2>4, <2>5 DEF OwesAll, a, g, r
<1> QED
  BY <1>3, <1>4

\* One call after the other.
LEMMA OwedTail ==
  ASSUME NEW s, NEW m \in Nat, OffBillAfter(s, m + 1)
  PROVE  /\ s # <<>> /\ Head(s) = s[1] /\ OffBillAfter(Tail(s), m)
         /\ m >= 1 => Tail(s) # <<>> /\ Tail(s)[1] = s[2]
         /\ m >= 2 => Tail(s)[2] = s[3]
<1>1. m + 1 \in 0 .. Len(s) /\ Len(<<>>) = 0
  BY DEF OffBillAfter
<1>2. s # <<>>
  BY <1>1
<1>3. /\ Head(s) = s[1] /\ Len(s) \in Nat \ {0}
      /\ m + 1 # 0 => OffBillAfter(Tail(s), (m + 1) - 1)
      /\ m + 1 >= 2 => Tail(s)[1] = s[2]
      /\ m + 1 >= 3 => Tail(s)[2] = s[3]
      /\ Len(Tail(s)) = Len(s) - 1
  BY <1>2, OffBillTail
<1>4. m >= 1 => Len(Tail(s)) # 0
  BY <1>1, <1>3
<1>5. (m + 1) - 1 = m /\ m + 1 # 0 /\ (m >= 1 => m + 1 >= 2) /\ (m >= 2 => m + 1 >= 3)
  OBVIOUS
<1> QED
  BY <1>1, <1>2, <1>3, <1>4, <1>5

LEMMA OwedAll ==
  ASSUME NEW c, NEW s, NEW j, NEW status, OwesAll(c, s, j, status)
  PROVE  /\ s # <<>> /\ Tail(s) # <<>>
         /\ Head(s) = Asked(c, j, s[1].row.agentId, status)
         /\ IF status = "completed" THEN OwesBoth(c, Tail(s), j)
                                    ELSE OwesLast(c, Tail(s), j)
<1>1. CASE status = "completed"
  <2>1. /\ OffBillAfter(s, 3) /\ s[1] = Asked(c, j, s[1].row.agentId, status)
        /\ s[2] = Metering(c, j, "tokens") /\ s[3] = Metering(c, j, "agent_runs")
    BY <1>1 DEF OwesAll
  <2>2. /\ s # <<>> /\ Tail(s) # <<>> /\ Head(s) = s[1] /\ OffBillAfter(Tail(s), 2)
        /\ Tail(s)[1] = s[2] /\ Tail(s)[2] = s[3]
    <3>1. PICK m \in Nat : m = 2
      OBVIOUS
    <3>2. OffBillAfter(s, m + 1) /\ m >= 1 /\ m >= 2
      BY <2>1, <3>1
    <3>3. /\ s # <<>> /\ Head(s) = s[1] /\ OffBillAfter(Tail(s), m) /\ Tail(s) # <<>>
          /\ Tail(s)[1] = s[2] /\ Tail(s)[2] = s[3]
      BY OwedTail, <3>2
    <3> QED
      BY <3>1, <3>3
  <2> QED
    BY <1>1, <2>1, <2>2 DEF OwesBoth
<1>2. CASE status # "completed"
  <2>1. /\ OffBillAfter(s, 2) /\ s[1] = Asked(c, j, s[1].row.agentId, status)
        /\ s[2] = Metering(c, j, "agent_runs")
    BY <1>2 DEF OwesAll
  <2>2. /\ s # <<>> /\ Tail(s) # <<>> /\ Head(s) = s[1] /\ OffBillAfter(Tail(s), 1)
        /\ Tail(s)[1] = s[2]
    <3>1. PICK m \in Nat : m = 1
      OBVIOUS
    <3>2. OffBillAfter(s, m + 1) /\ m >= 1
      BY <2>1, <3>1
    <3>3. /\ s # <<>> /\ Head(s) = s[1] /\ OffBillAfter(Tail(s), m) /\ Tail(s) # <<>>
          /\ Tail(s)[1] = s[2]
      BY OwedTail, <3>2
    <3> QED
      BY <3>1, <3>3
  <2> QED
    BY <1>2, <2>1, <2>2 DEF OwesLast
<1> QED
  BY <1>1, <1>2

LEMMA OwedNext ==
  ASSUME NEW c, NEW s, NEW j
  PROVE  /\ OwesBoth(c, s, j) => /\ s # <<>> /\ Tail(s) # <<>>
                                 /\ Head(s) = Metering(c, j, "tokens")
                                 /\ OwesLast(c, Tail(s), j)
         /\ OwesLast(c, s, j) => /\ s # <<>> /\ Head(s) = Metering(c, j, "agent_runs")
                                 /\ NoBill(Tail(s))
         /\ NoBill(s) /\ s # <<>> => Head(s).table \notin BillTables /\ NoBill(Tail(s))
<1>1. ASSUME OwesBoth(c, s, j)
      PROVE  /\ s # <<>> /\ Tail(s) # <<>> /\ Head(s) = Metering(c, j, "tokens")
             /\ OwesLast(c, Tail(s), j)
  <2>1. /\ OffBillAfter(s, 2) /\ s[1] = Metering(c, j, "tokens")
        /\ s[2] = Metering(c, j, "agent_runs")
    BY <1>1 DEF OwesBoth
  <2>2. /\ s # <<>> /\ Tail(s) # <<>> /\ Head(s) = s[1] /\ OffBillAfter(Tail(s), 1)
        /\ Tail(s)[1] = s[2]
    <3>1. PICK m \in Nat : m = 1
      OBVIOUS
    <3>2. OffBillAfter(s, m + 1) /\ m >= 1
      BY <2>1, <3>1
    <3>3. /\ s # <<>> /\ Head(s) = s[1] /\ OffBillAfter(Tail(s), m) /\ Tail(s) # <<>>
          /\ Tail(s)[1] = s[2]
      BY OwedTail, <3>2
    <3> QED
      BY <3>1, <3>3
  <2> QED
    BY <2>1, <2>2 DEF OwesLast
<1>2. ASSUME OwesLast(c, s, j)
      PROVE  s # <<>> /\ Head(s) = Metering(c, j, "agent_runs") /\ NoBill(Tail(s))
  <2>1. OffBillAfter(s, 1) /\ s[1] = Metering(c, j, "agent_runs")
    BY <1>2 DEF OwesLast
  <2>2. s # <<>> /\ Head(s) = s[1] /\ OffBillAfter(Tail(s), 0)
    <3>1. OffBillAfter(s, 0 + 1)
      BY <2>1
    <3> QED
      BY OwedTail, <3>1
  <2> QED
    BY <2>1, <2>2 DEF NoBill
<1>3. ASSUME NoBill(s), s # <<>>
      PROVE  Head(s).table \notin BillTables /\ NoBill(Tail(s))
  BY <1>3, OffBillTail DEF NoBill
<1> QED
  BY <1>1, <1>2, <1>3

\* Calls of the bill are no calls off it.
LEMMA OwingIsBilled ==
  ASSUME NEW c, NEW s, NEW j,
         \/ \E status : OwesAll(c, s, j, status)
         \/ OwesBoth(c, s, j) \/ OwesLast(c, s, j)
  PROVE  ~NoBill(s)
<1>1. \A agent, status, meter : /\ Asked(c, j, agent, status).table \in BillTables
                                /\ Metering(c, j, meter).table \in BillTables
  BY DEF Asked, Metering, Inserting, BillTables
<1>2. PICK m \in {1, 2, 3} : OffBillAfter(s, m) /\ s[1].table \in BillTables
  BY <1>1 DEF OwesAll, OwesBoth, OwesLast
<1>3. IsSequence(s) /\ m \in 0 .. Len(s)
  BY <1>2 DEF OffBillAfter
<1>4. 1 \in DOMAIN s /\ 1 > 0
  BY <1>3, SequenceSpan
<1> QED
  BY <1>2, <1>4 DEF NoBill, OffBillAfter

-----------------------------------------------------------------------------
(***************************************************************************)
(* The bill: the inductive invariant.                                      *)
(***************************************************************************)
StrategyPC == {"strategy.probe", "strategy.find", "strategy.documents", "strategy.delete",
               "strategy.create", "strategy.complete", "strategy.add"}
AnsweringPC == {"run.answer", "run.judge"}

\* How many calls to a model a request has asked for; and the last of them.
Upto(c) ==
  IF "j" \notin DOMAIN loc[c] \/ pc[c] = "strategy.probe" THEN 0
  ELSE IF loc[c].op = "strategy" THEN loc[c].j + 1 ELSE loc[c].j
Call(c) == Upto(c) - 1

\* Of the request's calls, no more than the first j are on record.
Fresh(c, j) == \A r \in db["ai_runs"] : r.id[1] = Number(c) => r.id[2] < j

HasRun(c, status) ==
  \E r \in db["ai_runs"] : r.id = <<Number(c), Call(c)>> /\ r.status = status
HasMeter(c, meter) == \E u \in db["usage_records"] : u.id = <<Number(c), Call(c), meter>>
OrgKnown(c) ==
  postgres /\ loc[c].org # None => \E o \in db["organizations"] : o.id = loc[c].org

\* What is left to record is not on record, and what is not left to record is.
BillCalls(c) ==
  LET s == loc[c].calls
  IN  \/ NoBill(s)
      \/ /\ Call(c) \in Nat
         /\ \/ /\ OwesBoth(c, s, Call(c)) /\ OrgKnown(c) /\ HasRun(c, "completed")
               /\ ~HasMeter(c, "tokens") /\ ~HasMeter(c, "agent_runs")
            \/ /\ OwesLast(c, s, Call(c)) /\ OrgKnown(c) /\ ~HasMeter(c, "agent_runs")
               /\ \E status \in Outcome :
                     HasRun(c, status) /\ (status = "completed" => HasMeter(c, "tokens"))
            \/ \E status \in Outcome : OwesAll(c, s, Call(c), status) /\ Fresh(c, Call(c))

\* What a request holds where it asks a model.
Placed(c, point) ==
  /\ point \in StrategyPC => loc[c].op = "strategy" /\ "j" \in DOMAIN loc[c]
  /\ point \in {"run.suite", "run.cases"} =>
        loc[c].op = "evaluate" /\ "j" \notin DOMAIN loc[c]
  /\ point \in AnsweringPC => loc[c].op = "evaluate" /\ "j" \in DOMAIN loc[c]

BillRequest(c) ==
  /\ {"op", "n", "org"} \subseteq DOMAIN loc[c] /\ Number(c) \in 1 .. served
  /\ "j" \in DOMAIN loc[c] => loc[c].op \in Asking /\ loc[c].j \in Nat
  /\ Placed(c, pc[c]) /\ Fresh(c, Upto(c))
  /\ pc[c] = "strategy.probe" => loc[c].j = 0
  /\ pc[c] = "calling" => /\ {"calls", "next"} \subseteq DOMAIN loc[c]
                          /\ loc[c].next # "strategy.probe"
                          /\ Placed(c, loc[c].next) /\ BillCalls(c)

BillRequests ==
  /\ DOMAIN pc = Clients /\ DOMAIN loc = Clients /\ served \in Nat
  /\ \A c \in Clients : InFlight(c) => BillRequest(c)
  /\ \A c, d \in Clients : InFlight(c) /\ InFlight(d) /\ Number(c) = Number(d) => c = d

\* The rows of the bill: each meter is of a call on record.
BillRows ==
  /\ BillTables \cup {"organizations"} \subseteq DOMAIN db
  /\ \A r \in db["ai_runs"] :
        /\ IsRecord(r) /\ r.id = <<r.id[1], r.id[2]>> /\ r.status \in Outcome
        /\ r.id[1] \in 1 .. served /\ r.id[2] \in Nat
  /\ \A r, s \in db["ai_runs"] : r.id = s.id => r = s
  /\ \A u \in db["usage_records"] :
        /\ IsRecord(u) /\ u.meter \in Meters
        /\ \E r \in db["ai_runs"] : /\ u.id = <<r.id[1], r.id[2], u.meter>>
                                    /\ u.meter = "tokens" => r.status = "completed"
  /\ \A u, v \in db["usage_records"] : u.id = v.id => u = v

\* The meters of a call: on record, or owed by the request that is at it.
HasMeters(r) ==
  \A meter \in Meters : meter = "agent_runs" \/ r.status = "completed" =>
     \E u \in db["usage_records"] : u.id = <<r.id[1], r.id[2], meter>>
Owing(c) == pc[c] = "calling" /\ ~NoBill(loc[c].calls)

Balanced ==
  \/ cuts \cap Asking # {}
  \/ \A r \in db["ai_runs"] :
        HasMeters(r) \/ \E c \in Clients : Owing(c) /\ r.id = <<Number(c), Call(c)>>

BillInv ==
  /\ area \in AskingAreas <=> "ai_runs" \in DOMAIN db
  /\ area \in AskingAreas <=> "usage_records" \in DOMAIN db
  /\ area \in AskingAreas => BillRequests /\ BillRows /\ Balanced

-----------------------------------------------------------------------------
(***************************************************************************)
(* The bill: what happens in the areas.                                    *)
(***************************************************************************)
LEMMA BillFrame ==
  ASSUME [Next]_vars, area \in AskingAreas
  PROVE  \/ UNCHANGED requestVars
         \/ \E c \in Clients :
               \/ KnowledgeSubmit(c) \/ EvalsSubmit(c) \/ KnowledgeStep(c) \/ EvalsStep(c)
               \/ StoreCall(c) \/ CutOff(c)
<1>0. area \in {"knowledge", "evals"}
  BY DEF AskingAreas
<1>1. CASE UNCHANGED vars
  BY <1>1 DEF vars
<1>2. CASE Environment
  BY <1>0, <1>2 DEF Environment, LockExpires, WindowPasses, DayPasses, Restart
<1>3. ASSUME NEW c \in Clients, Submit(c) PROVE KnowledgeSubmit(c) \/ EvalsSubmit(c)
  BY <1>0, <1>3 DEF Submit, AccountsSubmit, IntakeSubmit, AgentsSubmit, NightlySubmit,
      WorkspaceSubmit, SystemsSubmit, Calls
<1>4. ASSUME NEW c \in Clients, Step(c)
      PROVE  KnowledgeStep(c) \/ EvalsStep(c) \/ StoreCall(c) \/ CutOff(c)
  BY <1>0, <1>4 DEF Step, AccountsStep, IntakeStep, AgentsStep, NightlyStep, WorkspaceStep,
      SystemsStep, StoresStep
<1> QED
  BY <1>1, <1>2, <1>3, <1>4 DEF Next

LEMMA BillReferences ==
  /\ \A ref \in References :
        /\ ref.child = "usage_records"
              => ref.field = "organizationId" /\ ref.parent = "organizations"
        /\ ref.child = "ai_runs" => ref.parent \in {"organizations", "agents", "agent_runs"}
  /\ \E ref \in References : /\ ref.child = "ai_runs" /\ ref.field = "organizationId"
                             /\ ref.parent = "organizations"
  /\ UniqueKeys("usage_records") = {}
<1> DEFINE Fits(refs) == \A ref \in refs :
             /\ ref.child = "usage_records"
                   => ref.field = "organizationId" /\ ref.parent = "organizations"
             /\ ref.child = "ai_runs"
                   => ref.parent \in {"organizations", "agents", "agent_runs"}
<1>1. \A S : Fits(Tenants(S))
  BY DEF Tenants, Refers
<1>2. Fits(IdentityRefs)
  BY <1>1 DEF IdentityRefs, Refers
<1>3. Fits(CommercialRefs)
  BY <1>1 DEF CommercialRefs, Refers
<1>4. Fits(SystemRefs)
  BY <1>1 DEF SystemRefs, Refers
<1>5. Fits(KnowledgeRefs)
  BY <1>1 DEF KnowledgeRefs, Refers
<1>6. Fits(EngineRefs)
  BY <1>1 DEF EngineRefs, Refers
<1>7. Fits(RecordRefs)
  BY <1>1 DEF RecordRefs
<1>8. Fits(AiRefs)
  BY <1>1 DEF AiRefs, Refers
<1>9. Fits(AuditRefs)
  BY DEF AuditRefs, Refers
<1>10. Fits(References)
  BY <1>2, <1>3, <1>4, <1>5, <1>6, <1>7, <1>8, <1>9 DEF References
<1>11. Refers("ai_runs", "organizationId", "organizations", "Cascade") \in References
  BY DEF References, AiRefs, Tenants
<1>12. UniqueKeys("usage_records") = {}
  BY DEF UniqueKeys, Unique
<1> QED
  BY <1>10, <1>11, <1>12 DEF Refers

\* The call at hand, and what it does to the rows.
LEMMA CallAtHand ==
  ASSUME CallsInv, NEW c \in Clients, StoreCall(c), NEW k, k = Head(loc[c].calls)
  PROVE  /\ pc[c] = "calling" /\ Own(k) /\ {"calls", "next"} \subseteq DOMAIN loc[c]
         /\ UNCHANGED <<postgres, area, served, cuts>>
         /\ \/ Respond(c) /\ db' = db /\ (Refused(k) \/ FindsNothing(k))
            \/ /\ ~Refused(k) /\ ~FindsNothing(k)
               /\ \/ k.call = "insert" /\ db' = InsertRow(k.table, k.row)
                  \/ k.call \in {"update", "change"} /\ db' = UpdateRow(k.table, k.id, k.row)
                  \/ k.call = "upsert" /\ db' = UpsertRow(k.table, k.row)
                  \/ /\ k.call \notin {"insert", "update", "change", "upsert"}
                     /\ db' = RemoveRow(k.table, k.id)
               /\ \/ /\ Tail(loc[c].calls) # <<>>
                     /\ Goto(c, "calling", [calls |-> Tail(loc[c].calls)])
                  \/ Tail(loc[c].calls) = <<>> /\ loc[c].next = "idle" /\ Respond(c)
                  \/ /\ Tail(loc[c].calls) = <<>> /\ loc[c].next # "idle"
                     /\ Goto(c, loc[c].next, Nothing)
<1>1. pc[c] = "calling" /\ UNCHANGED <<postgres, area, served, cuts>>
  BY DEF StoreCall, At, history
<1>2. {"calls", "next"} \subseteq DOMAIN loc[c] /\ loc[c].calls # <<>> /\ OwnCalls(loc[c].calls)
  BY <1>1 DEF CallsInv
<1>3. Own(k)
  <2>1. /\ IsSequence(loc[c].calls) /\ k = loc[c].calls[1]
        /\ DOMAIN loc[c].calls = 1 .. Len(loc[c].calls) /\ Len(loc[c].calls) \in Nat \ {0}
    BY <1>2, TailOf, SequenceSpan DEF OwnCalls
  <2>2. 1 \in DOMAIN loc[c].calls
    BY <2>1
  <2> QED
    BY <1>2, <2>1, <2>2 DEF OwnCalls
<1>4. CASE Refused(k) \/ FindsNothing(k)
  BY <1>1, <1>2, <1>3, <1>4 DEF StoreCall
<1>5. CASE ~Refused(k) /\ ~FindsNothing(k)
  <2>1. \/ k.call = "insert" /\ db' = InsertRow(k.table, k.row)
        \/ k.call \in {"update", "change"} /\ db' = UpdateRow(k.table, k.id, k.row)
        \/ k.call = "upsert" /\ db' = UpsertRow(k.table, k.row)
        \/ /\ k.call \notin {"insert", "update", "change", "upsert"}
           /\ db' = RemoveRow(k.table, k.id)
    BY <1>5 DEF StoreCall
  <2>2. \/ /\ Tail(loc[c].calls) # <<>>
           /\ Goto(c, "calling", [calls |-> Tail(loc[c].calls)])
        \/ Tail(loc[c].calls) = <<>> /\ loc[c].next = "idle" /\ Respond(c)
        \/ /\ Tail(loc[c].calls) = <<>> /\ loc[c].next # "idle"
           /\ Goto(c, loc[c].next, Nothing)
    BY <1>5 DEF StoreCall
  <2> QED
    BY <1>1, <1>2, <1>3, <1>5, <2>1, <2>2
<1> QED
  BY <1>4, <1>5

\* A call off the bill leaves it alone.
LEMMA OffBillCallKeeps ==
  ASSUME CallsInv, BillRows, area \in AskingAreas, NEW c \in Clients, StoreCall(c),
         Head(loc[c].calls).table \notin BillTables, NEW t \in BillTables
  PROVE  db'[t] = db[t]
<1>1. PICK k : k = Head(loc[c].calls)
  OBVIOUS
<1>2. /\ Own(k) /\ k.table # t
      /\ \/ db' = db
         \/ db' = InsertRow(k.table, k.row)
         \/ db' = UpdateRow(k.table, k.id, k.row)
         \/ db' = UpsertRow(k.table, k.row)
         \/ /\ k.call \notin {"insert", "update", "change", "upsert"}
            /\ db' = RemoveRow(k.table, k.id)
  BY <1>1, CallAtHand
<1>3. ASSUME k.call \notin {"insert", "update", "change", "upsert"}
      PROVE  RemoveRow(k.table, k.id)[t] = db[t]
  <2>1. /\ t \in DOMAIN db /\ \A r \in db[t] : IsRecord(r)
        /\ t \in {"ai_runs", "usage_records"}
    BY DEF BillRows, BillTables
  <2>2. /\ RemovesOf(area) \subseteq {"knowledge_sources", "documents", "document_chunks", "eval_cases"}
    BY DEF RemovesOf, AskingAreas
  <2>3. \A ref \in References : ref.child = t => ref.parent \notin RemovesOf(area)
    BY <2>1, <2>2, BillReferences
  <2>4. k.table \in RemovesOf(area) /\ t \in DOMAIN db \ RemovesOf(area)
    BY <1>2, <1>3, <2>1, <2>2 DEF Own
  <2> QED
    BY <2>1, <2>3, <2>4, RemovalLeaves
<1>4. CASE \/ db' = db
           \/ db' = InsertRow(k.table, k.row)
           \/ db' = UpdateRow(k.table, k.id, k.row)
           \/ db' = UpsertRow(k.table, k.row)
  <2>1. \A rows : [db EXCEPT ![k.table] = rows][t] = db[t]
    BY <1>2
  <2>2. /\ InsertRow(k.table, k.row)[t] = db[t]
        /\ UpdateRow(k.table, k.id, k.row)[t] = db[t]
        /\ UpsertRow(k.table, k.row)[t] = db[t]
    BY <2>1 DEF InsertRow, UpdateRow, UpsertRow
  <2> QED
    BY <1>4, <2>2
<1>5. CASE /\ k.call \notin {"insert", "update", "change", "upsert"}
           /\ db' = RemoveRow(k.table, k.id)
  BY <1>3, <1>5
<1> QED
  BY <1>2, <1>4, <1>5

LEMMA OrganizationsStay ==
  ASSUME CallsInv, area \in AskingAreas, "organizations" \in DOMAIN db, [Next]_vars
  PROVE  db'["organizations"] = db["organizations"]
<1>1. "organizations" \notin WritesOf(area)
  BY DEF WritesOf, AskingAreas
<1> QED
  BY <1>1, AreasApart

-----------------------------------------------------------------------------
\* What is on record stays, and what is added is of the request with the number.
RowsGrow(n) ==
  /\ BillTables \cup {"organizations"} \subseteq DOMAIN db
  /\ DOMAIN db' = DOMAIN db /\ db'["organizations"] = db["organizations"]
  /\ \A t \in BillTables : /\ db[t] \subseteq db'[t]
                           /\ \A r \in db'[t] : r \in db[t] \/ r.id[1] = n

LEMMA BillRequestStays ==
  ASSUME NEW d, BillRequest(d), pc'[d] = pc[d], loc'[d] = loc[d], UNCHANGED postgres,
         served \in Nat, served' \in Nat, served <= served',
         NEW n, n # Number(d), RowsGrow(n)
  PROVE  /\ BillRequest(d)' /\ Number(d)' = Number(d) /\ Call(d)' = Call(d)
         /\ Owing(d)' <=> Owing(d)
<1>1. Number(d)' = Number(d) /\ Upto(d)' = Upto(d) /\ Call(d)' = Call(d)
  BY DEF Number, Upto, Call
<1>2. Owing(d)' <=> Owing(d)
  BY DEF Owing
<1>3. /\ {"ai_runs", "usage_records"} \subseteq BillTables
      /\ \A r \in db'["ai_runs"] : r.id[1] = Number(d) => r \in db["ai_runs"]
      /\ \A u \in db'["usage_records"] : u.id[1] = Number(d) => u \in db["usage_records"]
      /\ db["ai_runs"] \subseteq db'["ai_runs"] /\ db["usage_records"] \subseteq db'["usage_records"]
  BY DEF RowsGrow, BillTables
<1> HIDE DEF Number, Call, Upto
<1>4. \A j : Fresh(d, j) => Fresh(d, j)'
  BY <1>1, <1>3 DEF Fresh
<1>5. \A status : HasRun(d, status) => HasRun(d, status)'
  BY <1>1, <1>3 DEF HasRun
<1>6. \A meter : HasMeter(d, meter)' <=> HasMeter(d, meter)
  BY <1>1, <1>3 DEF HasMeter
<1>7. OrgKnown(d) => OrgKnown(d)'
  BY DEF OrgKnown, RowsGrow
<1>8. \A s, j, status : /\ OwesAll(d, s, j, status)' <=> OwesAll(d, s, j, status)
                        /\ OwesBoth(d, s, j)' <=> OwesBoth(d, s, j)
                        /\ OwesLast(d, s, j)' <=> OwesLast(d, s, j)
                        /\ NoBill(s)' <=> NoBill(s)
  BY <1>1 DEF OwesAll, OwesBoth, OwesLast, Asked, Metering, AiRunRow, MeterRow
<1>9. \A p : Placed(d, p)' <=> Placed(d, p)
  BY DEF Placed
<1>10. BillCalls(d) => BillCalls(d)'
  BY <1>1, <1>4, <1>5, <1>6, <1>7, <1>8 DEF BillCalls
<1>11. \A m \in 1 .. served : m \in 1 .. served'
  OBVIOUS
<1>12. BillRequest(d)'
  BY <1>1, <1>4, <1>9, <1>10, <1>11 DEF BillRequest
<1> QED
  BY <1>1, <1>2, <1>12

\* A request that is at its new point what that point needs leaves the others as they are.
LEMMA BillRequestsStay ==
  ASSUME BillRequests, NEW c \in Clients, NEW where,
         pc' = [pc EXCEPT ![c] = where], DOMAIN loc' = Clients,
         \A d \in Clients \ {c} : loc'[d] = loc[d],
         UNCHANGED postgres, served' \in Nat, served <= served',
         NEW n, RowsGrow(n), \A d \in Clients \ {c} : InFlight(d) => Number(d) # n,
         where # "idle" => BillRequest(c)' /\ Number(c)' = n
  PROVE  /\ BillRequests'
         /\ \A d \in Clients \ {c} : InFlight(d) =>
               /\ Number(d)' = Number(d) /\ Call(d)' = Call(d) /\ (Owing(d)' <=> Owing(d))
<1>1. DOMAIN pc' = Clients /\ pc'[c] = where /\ \A d \in Clients \ {c} : pc'[d] = pc[d]
  BY DEF BillRequests
<1>2. ASSUME NEW d \in Clients \ {c}, InFlight(d)
      PROVE  /\ BillRequest(d)' /\ Number(d)' = Number(d) /\ Call(d)' = Call(d)
             /\ Owing(d)' <=> Owing(d)
  BY <1>1, <1>2, BillRequestStays DEF BillRequests
<1>3. \A d \in Clients \ {c} : InFlight(d)' <=> InFlight(d)
  BY <1>1 DEF InFlight
<1>4. InFlight(c)' => BillRequest(c)' /\ Number(c)' = n
  BY <1>1 DEF InFlight
<1>5. \A d \in Clients : InFlight(d)' => BillRequest(d)'
  BY <1>2, <1>3, <1>4
<1>6. ASSUME NEW d \in Clients, NEW e \in Clients, InFlight(d)', InFlight(e)',
             Number(d)' = Number(e)'
      PROVE  d = e
  <2>1. CASE d # c /\ e # c
    BY <1>2, <1>3, <1>6, <2>1 DEF BillRequests
  <2>2. CASE d = c /\ e # c
    BY <1>2, <1>3, <1>4, <1>6, <2>2
  <2>3. CASE d # c /\ e = c
    BY <1>2, <1>3, <1>4, <1>6, <2>3
  <2> QED
    BY <2>1, <2>2, <2>3
<1>7. BillRequests'
  BY <1>1, <1>5, <1>6 DEF BillRequests
<1> QED
  BY <1>2, <1>7

\* The rows stay, and nobody stops who owes some, unless it is known.
LEMMA BillStays ==
  ASSUME BillRequests, BillRows, Balanced, NEW c \in Clients,
         UNCHANGED db, served' \in Nat, served <= served', cuts \subseteq cuts',
         Owing(c) => cuts' \cap Asking # {},
         \A d \in Clients \ {c} : InFlight(d) =>
            Number(d)' = Number(d) /\ Call(d)' = Call(d) /\ (Owing(d)' <=> Owing(d))
  PROVE  BillRows' /\ Balanced'
<1>1. served \in Nat /\ \A m \in 1 .. served : m \in 1 .. served'
  BY DEF BillRequests
<1>2. BillRows'
  BY <1>1 DEF BillRows, IsRecord
<1>3. Balanced'
  <2>1. CASE cuts' \cap Asking # {}
    BY <2>1 DEF Balanced
  <2>2. CASE ~(cuts' \cap Asking # {})
    <3>1. ~Owing(c) /\ ~(cuts \cap Asking # {})
      BY <2>2
    <3>2. \A d : Owing(d) => InFlight(d)
      BY DEF Owing, InFlight
    <3>3. \A r : HasMeters(r)' <=> HasMeters(r)
      BY DEF HasMeters
    <3> QED
      BY <3>1, <3>2, <3>3 DEF Balanced
  <2> QED
    BY <2>1, <2>2
<1> QED
  BY <1>2, <1>3

-----------------------------------------------------------------------------
\* A request that is not making calls goes on.
LEMMA BillGoesOn ==
  ASSUME BillRequests, BillRows, Balanced, NEW c \in Clients, InFlight(c), pc[c] # "calling",
         NEW where, NEW locals, Goto(c, where, locals),
         DOMAIN locals \cap {"op", "n", "org"} = {}, "organizations" \in DOMAIN db,
         UNCHANGED <<postgres, db, served, cuts>>,
         BillRequest(c)'
  PROVE  BillRequests' /\ BillRows' /\ Balanced'
<1>1. DOMAIN pc = Clients /\ DOMAIN loc = Clients /\ served \in Nat /\ BillRequest(c)
  BY DEF BillRequests
<1>2. /\ pc' = [pc EXCEPT ![c] = where] /\ DOMAIN loc' = Clients
      /\ \A f \in DOMAIN loc[c] : f \notin DOMAIN locals => loc'[c][f] = loc[c][f]
      /\ \A d \in Clients \ {c} : loc'[d] = loc[d]
  BY <1>1, RequestGoesOn
<1>3. Number(c)' = Number(c)
  BY <1>1, <1>2 DEF BillRequest, Number
<1>4. RowsGrow(Number(c))
  BY DEF RowsGrow, BillRows
<1>5. \A d \in Clients \ {c} : InFlight(d) => Number(d) # Number(c)
  BY DEF BillRequests
<1>6. served' \in Nat /\ served <= served' /\ cuts \subseteq cuts'
  BY <1>1
<1>7. /\ BillRequests'
      /\ \A d \in Clients \ {c} : InFlight(d) =>
            Number(d)' = Number(d) /\ Call(d)' = Call(d) /\ (Owing(d)' <=> Owing(d))
  BY <1>2, <1>3, <1>4, <1>5, <1>6, BillRequestsStay
<1>8. BillRows' /\ Balanced'
  BY <1>6, <1>7, BillStays DEF Owing
<1> QED
  BY <1>7, <1>8

LEMMA BillAnswers ==
  ASSUME BillRequests, BillRows, Balanced, NEW c \in Clients, InFlight(c), Respond(c),
         UNCHANGED <<postgres, db, served>>, cuts \subseteq cuts',
         Owing(c) => cuts' \cap Asking # {}
  PROVE  BillRequests' /\ BillRows' /\ Balanced'
<1>1. served \in Nat /\ served' \in Nat /\ served <= served'
  BY DEF BillRequests
<1>2. /\ pc' = [pc EXCEPT ![c] = "idle"] /\ DOMAIN loc' = Clients
      /\ \A d \in Clients \ {c} : loc'[d] = loc[d]
  BY DEF Respond, BillRequests
<1>3. RowsGrow(Number(c))
  BY DEF RowsGrow, BillRows
<1>4. \A d \in Clients \ {c} : InFlight(d) => Number(d) # Number(c)
  BY DEF BillRequests
<1>5. PICK where, n : where = "idle" /\ n = Number(c)
  OBVIOUS
<1>6. /\ BillRequests'
      /\ \A d \in Clients \ {c} : InFlight(d) =>
            Number(d)' = Number(d) /\ Call(d)' = Call(d) /\ (Owing(d)' <=> Owing(d))
  BY <1>1, <1>2, <1>3, <1>4, <1>5, BillRequestsStay
<1>7. BillRows' /\ Balanced'
  BY <1>1, <1>6, BillStays
<1> QED
  BY <1>6, <1>7

\* How it goes on when it asks no model: with calls off the bill or none.
Quietly(c) ==
  \/ Respond(c)
  \/ \E where, locals :
        /\ Goto(c, where, locals) /\ DOMAIN locals \cap {"op", "n", "org", "j"} = {}
        /\ where # "strategy.probe" /\ Placed(c, where)
        /\ where = "calling" => /\ {"calls", "next"} \subseteq DOMAIN locals
                                /\ NoBill(locals["calls"])
                                /\ locals["next"] # "strategy.probe"
                                /\ Placed(c, locals["next"])

LEMMA QuietKeeps ==
  ASSUME BillRequests, BillRows, Balanced, NEW c \in Clients, InFlight(c), pc[c] # "calling",
         Quietly(c), UNCHANGED <<postgres, db, served, cuts>>
  PROVE  BillRequests' /\ BillRows' /\ Balanced'
<1>0. "organizations" \in DOMAIN db /\ "ai_runs" \in DOMAIN db
  BY DEF BillRows, BillTables
<1>1. CASE Respond(c)
  BY <1>1, BillAnswers DEF Owing
<1>2. ASSUME NEW where, NEW locals, Goto(c, where, locals),
             DOMAIN locals \cap {"op", "n", "org", "j"} = {},
             where # "strategy.probe", Placed(c, where),
             where = "calling" => /\ {"calls", "next"} \subseteq DOMAIN locals
                                  /\ NoBill(locals["calls"])
                                  /\ locals["next"] # "strategy.probe"
                                  /\ Placed(c, locals["next"])
      PROVE  BillRequests' /\ BillRows' /\ Balanced'
  <2>1. DOMAIN pc = Clients /\ DOMAIN loc = Clients /\ served \in Nat /\ BillRequest(c)
    BY DEF BillRequests
  <2>2. /\ pc' = [pc EXCEPT ![c] = where] /\ DOMAIN loc' = Clients
        /\ DOMAIN loc'[c] = DOMAIN locals \cup DOMAIN loc[c]
        /\ \A f \in DOMAIN locals : loc'[c][f] = locals[f]
        /\ \A f \in DOMAIN loc[c] : f \notin DOMAIN locals => loc'[c][f] = loc[c][f]
    BY <1>2, <2>1, RequestGoesOn
  <2>3. pc'[c] = where
    BY <2>1, <2>2
  <2>4. /\ {"op", "n", "org"} \subseteq DOMAIN loc[c]
        /\ loc'[c].op = loc[c].op /\ loc'[c].n = loc[c].n /\ loc'[c].org = loc[c].org
        /\ "j" \in DOMAIN loc'[c] <=> "j" \in DOMAIN loc[c]
        /\ "j" \in DOMAIN loc[c] => loc'[c].j = loc[c].j
    BY <1>2, <2>1, <2>2 DEF BillRequest
  <2>5. Number(c)' = Number(c) /\ (\A p : Placed(c, p)' <=> Placed(c, p))
    BY <2>4 DEF Number, Placed
  <2>6. Fresh(c, Upto(c))'
    <3>1. \A r \in db["ai_runs"] : r.id[1] = Number(c) => r.id[2] < Upto(c) /\ r.id[2] \in Nat
      BY <2>1 DEF BillRequest, Fresh, BillRows
    <3>2. CASE Upto(c)' = Upto(c)
      BY <2>5, <3>1, <3>2 DEF Fresh
    <3>3. CASE Upto(c) = 0
      BY <2>5, <3>1, <3>3 DEF Fresh
    <3>4. pc[c] = "strategy.probe" => Upto(c) = 0
      BY DEF Upto
    <3>5. pc[c] # "strategy.probe" => Upto(c)' = Upto(c)
      BY <1>2, <2>3, <2>4 DEF Upto
    <3> QED
      BY <3>2, <3>3, <3>4, <3>5
  <2>7. where = "calling" => /\ {"calls", "next"} \subseteq DOMAIN loc'[c]
                             /\ NoBill(loc'[c].calls)
                             /\ loc'[c].next # "strategy.probe" /\ Placed(c, loc'[c].next)
    BY <1>2, <2>2
  <2>8. BillRequest(c)'
    <3>1. \A s : NoBill(s)' <=> NoBill(s)
      BY DEF NoBill, OffBillAfter, IsSequence
    <3>2. where = "calling" => BillCalls(c)'
      BY <2>7, <3>1 DEF BillCalls
    <3>3. {"op", "n", "org"} \subseteq DOMAIN loc'[c] /\ Number(c)' \in 1 .. served'
      BY <2>1, <2>2, <2>5 DEF BillRequest
    <3>4. "j" \in DOMAIN loc'[c] => loc'[c].op \in Asking /\ loc'[c].j \in Nat
      BY <2>1, <2>4 DEF BillRequest
    <3> QED
      BY <1>2, <2>3, <2>5, <2>6, <2>7, <3>2, <3>3, <3>4 DEF BillRequest
  <2> QED
    BY <1>0, <1>2, <2>8, BillGoesOn
<1> QED
  BY <1>1, <1>2 DEF Quietly

\* How it goes on when it asks one.
LEMMA AskingKeeps ==
  ASSUME BillRequests, BillRows, Balanced, NEW c \in Clients, InFlight(c), pc[c] # "calling",
         UNCHANGED <<postgres, db, served, cuts>>, NEW locals, Goto(c, "calling", locals),
         DOMAIN locals \cap {"op", "n", "org"} = {}, {"calls", "next"} \subseteq DOMAIN locals,
         "j" \in DOMAIN loc[c],
         NEW j \in Nat, j = IF "j" \in DOMAIN locals THEN locals["j"] ELSE loc[c].j,
         Upto(c) = IF loc[c].op = "strategy" THEN j ELSE j - 1,
         NEW status \in Outcome, OwesAll(c, locals["calls"], Upto(c), status),
         locals["next"] # "strategy.probe",
         locals["next"] \in StrategyPC => loc[c].op = "strategy",
         locals["next"] \in AnsweringPC => loc[c].op = "evaluate",
         locals["next"] \notin {"run.suite", "run.cases"}
  PROVE  BillRequests' /\ BillRows' /\ Balanced'
<1>0. "organizations" \in DOMAIN db /\ "ai_runs" \in DOMAIN db
  BY DEF BillRows, BillTables
<1>1. DOMAIN pc = Clients /\ DOMAIN loc = Clients /\ served \in Nat /\ BillRequest(c)
  BY DEF BillRequests
<1>2. /\ pc' = [pc EXCEPT ![c] = "calling"] /\ DOMAIN loc' = Clients
      /\ DOMAIN loc'[c] = DOMAIN locals \cup DOMAIN loc[c]
      /\ \A f \in DOMAIN locals : loc'[c][f] = locals[f]
      /\ \A f \in DOMAIN loc[c] : f \notin DOMAIN locals => loc'[c][f] = loc[c][f]
  BY <1>1, RequestGoesOn
<1>3. pc'[c] = "calling"
  BY <1>1, <1>2
<1>4. /\ {"op", "n", "org", "j"} \subseteq DOMAIN loc[c]
      /\ {"op", "n", "org", "j", "calls", "next"} \subseteq DOMAIN loc'[c]
      /\ loc'[c].op = loc[c].op /\ loc'[c].n = loc[c].n /\ loc'[c].org = loc[c].org
      /\ loc'[c].j = j /\ loc[c].op \in Asking
      /\ loc'[c].calls = locals["calls"] /\ loc'[c].next = locals["next"]
  BY <1>1, <1>2 DEF BillRequest
<1>5. Number(c)' = Number(c)
  BY <1>4 DEF Number
<1>6. Upto(c)' = Upto(c) + 1 /\ Upto(c) \in Nat
  <2>1. Upto(c)' = IF loc'[c].op = "strategy" THEN loc'[c].j + 1 ELSE loc'[c].j
    BY <1>3, <1>4 DEF Upto
  <2>2. Upto(c) \in Nat
    BY <1>1, <1>4 DEF BillRequest, Upto
  <2> HIDE DEF Upto
  <2> QED
    BY <1>4, <2>1, <2>2
<1>7. Call(c)' = Upto(c)
  BY <1>6 DEF Call
<1>8. /\ Fresh(c, Upto(c)) /\ Fresh(c, Upto(c))' /\ Fresh(c, Call(c))'
  <2>1. \A r \in db["ai_runs"] : r.id[1] = Number(c) => r.id[2] < Upto(c) /\ r.id[2] \in Nat
    BY <1>1 DEF BillRequest, Fresh, BillRows
  <2> HIDE DEF Upto, Call
  <2>2. \A r \in db["ai_runs"] : r.id[1] = Number(c) => r.id[2] < Upto(c) + 1
    BY <1>6, <2>1
  <2> QED
    BY <1>5, <1>6, <1>7, <2>1, <2>2 DEF Fresh
<1>9. PICK s : s = loc'[c].calls /\ OwesAll(c, s, Upto(c), status)
  BY <1>4
<1>10. BillCalls(c)'
  <2>1. PICK i \in Nat : i = Upto(c) /\ i = Call(c)'
    BY <1>6, <1>7
  <2>2. OwesAll(c, s, i, status)
    BY <1>9, <2>1
  <2>3. Asked(c, i, s[1].row.agentId, status)' = Asked(c, i, s[1].row.agentId, status)
    BY <1>4, <1>5 DEF Asked, AiRunRow
  <2>4. \A meter : Metering(c, i, meter)' = Metering(c, i, meter)
    BY <1>4, <1>5 DEF Metering, MeterRow
  <2>5. OwesAll(c, s, i, status)'
    BY <2>2, <2>3, <2>4 DEF OwesAll
  <2>6. Fresh(c, i)'
    BY <1>8, <2>1 DEF Fresh
  <2>7. Call(c)' \in Nat /\ Call(c)' = i /\ loc'[c].calls = s
    BY <1>9, <2>1
  <2> HIDE DEF Call, Fresh, OwesAll, OwesBoth, OwesLast, NoBill, OrgKnown, HasRun, HasMeter
  <2> QED
    BY <2>5, <2>6, <2>7 DEF BillCalls
<1>11. PICK next : next = locals["next"] /\ loc'[c].next = next
  BY <1>4
<1>12. Placed(c, "calling")' /\ Placed(c, next)'
  BY <1>4, <1>11 DEF Placed, StrategyPC, AnsweringPC
<1>13. BillRequest(c)'
  <2>1. Number(c)' \in 1 .. served'
    BY <1>1, <1>5 DEF BillRequest
  <2> HIDE DEF Number, BillCalls, Placed, Fresh, Upto
  <2> QED
    BY <1>3, <1>4, <1>8, <1>10, <1>11, <1>12, <2>1 DEF BillRequest
<1> QED
  BY <1>0, <1>13, BillGoesOn

\* A run starts to count its calls.
Begins(c) ==
  /\ pc[c] = "run.cases"
  /\ \E locals :
        /\ Goto(c, "calling", locals) /\ DOMAIN locals \cap {"op", "n", "org"} = {}
        /\ {"calls", "next", "j"} \subseteq DOMAIN locals /\ locals["j"] = 0
        /\ NoBill(locals["calls"]) /\ locals["next"] \in AnsweringPC

\* The provider is sent nothing but texts to embed.
Embedded(a) == a.kind = "embedding" /\ \E n, j : a.id = <<n, j, "embedding">>
Unasked == \E texts : asked' = asked \cup texts /\ \A a \in texts : Embedded(a)

\* The provider is sent the request's next call, whose records are to be made.
Asks(c) ==
  \E locals, agent : \E j \in Nat, status \in Outcome :
     /\ Goto(c, "calling", locals) /\ DOMAIN locals \cap {"op", "n", "org"} = {}
     /\ {"calls", "next"} \subseteq DOMAIN locals /\ "j" \in DOMAIN loc[c]
     /\ j = IF "j" \in DOMAIN locals THEN locals["j"] ELSE loc[c].j
     /\ Upto(c) = IF loc[c].op = "strategy" THEN j ELSE j - 1
     /\ OwesAll(c, locals["calls"], Upto(c), status)
     /\ locals["calls"][1] = Asked(c, Upto(c), agent, status)
     /\ locals["next"] \notin {"strategy.probe", "run.suite", "run.cases"}
     /\ locals["next"] \in StrategyPC => loc[c].op = "strategy"
     /\ locals["next"] \in AnsweringPC => loc[c].op = "evaluate"
     /\ Ask(c, Upto(c), status)
     /\ IF area = "knowledge" THEN agent = None ELSE locals["next"] \in AnsweringPC

Proceeds(c) == (Unasked /\ (Quietly(c) \/ Begins(c))) \/ Asks(c)

LEMMA NothingAsked == UNCHANGED aiVars => Unasked
<1> SUFFICES ASSUME asked' = asked PROVE Unasked
  BY DEF aiVars
<1>1. PICK texts : texts = {}
  OBVIOUS
<1>2. asked' = asked \cup texts /\ \A a \in texts : Embedded(a)
  BY <1>1
<1> QED
  BY <1>2 DEF Unasked

LEMMA OnlyEmbedded ==
  ASSUME NEW c, NEW calls, NEW texts, Embed(c, calls, texts) PROVE Unasked
<1>1. PICK more : /\ more = IF provider = "embeds" /\ texts > 0
                            THEN {Embedding(c, j) : j \in calls} ELSE {}
                  /\ asked' = asked \cup more
  BY DEF Embed
<1>2. \A j : Embedded(Embedding(c, j))
  BY DEF Embedded, Embedding
<1>3. \A a \in more : Embedded(a)
  BY <1>1, <1>2
<1> QED
  BY <1>1, <1>3 DEF Unasked

-----------------------------------------------------------------------------
(***************************************************************************)
(* The bill: what requests do next.                                        *)
(***************************************************************************)
LEMMA AddingIsOffBill ==
  ASSUME NEW source, NEW document, NEW chunks \in Chunks
  PROVE  NoBill(AddingDocument(source, document, chunks))
<1> DEFINE first == [i \in 1 .. chunks |->
                       Inserting("document_chunks", ChunkRow(document, i))]
           S == {Inserting("document_chunks", ChunkRow(document, i)) : i \in 1 .. chunks}
<1>1. chunks \in Nat
  BY KnowledgeAssumption
<1>2. first \in Seq(S) /\ DOMAIN first = 1 .. chunks
  BY <1>1
<1>3. \A i \in 1 .. chunks : first[i].table \notin BillTables
  BY DEF Inserting, BillTables
<1> HIDE DEF first, S
<1>4. NoBill(first)
  BY <1>2, <1>3, SequenceIs, SequenceSpan DEF NoBill, OffBillAfter
<1>5. ASSUME NEW row PROVE NoBill(<<Inserting("documents", row)>>)
  BY NoBillOne DEF Inserting, BillTables
<1> QED
  BY <1>4, <1>5, NoBillCat DEF AddingDocument, first

LEMMA RemovingIsOffBill ==
  ASSUME CallsInv, area = "knowledge", NEW document
  PROVE  NoBill(RemovingDocument(document, ChunkList(document)))
<1> DEFINE chunks == ChunkList(document)
           first == [i \in DOMAIN chunks |-> Removing("document_chunks", chunks[i])]
<1>1. PICK n \in Nat : DOMAIN chunks = 1 .. n
  BY ChunksAreListed
<1> DEFINE S == {Removing("document_chunks", chunks[i]) : i \in 1 .. n}
<1> HIDE DEF chunks
<1>2. first \in Seq(S) /\ DOMAIN first = 1 .. n
  BY <1>1
<1>3. \A i \in 1 .. n : first[i].table \notin BillTables
  BY <1>1 DEF Removing, BillTables
<1> HIDE DEF first, S
<1>4. NoBill(first)
  BY <1>2, <1>3, SequenceIs, SequenceSpan DEF NoBill, OffBillAfter
<1>5. NoBill(<<Removing("documents", document)>>)
  BY NoBillOne DEF Removing, BillTables
<1> QED
  BY <1>4, <1>5, NoBillCat DEF RemovingDocument, first, chunks

LEMMA GoingQuietly ==
  ASSUME NEW c, NEW where, NEW locals, Goto(c, where, locals),
         DOMAIN locals \cap {"op", "n", "org", "j"} = {},
         where \notin {"calling", "strategy.probe"}, Placed(c, where)
  PROVE  Quietly(c)
BY DEF Quietly

LEMMA MakingQuietly ==
  ASSUME NEW c, NEW locals, Goto(c, "calling", locals),
         DOMAIN locals \cap {"op", "n", "org", "j"} = {},
         {"calls", "next"} \subseteq DOMAIN locals,
         NEW calls, NEW next, locals["calls"] = calls, locals["next"] = next,
         NoBill(calls), next # "strategy.probe", Placed(c, next)
  PROVE  Quietly(c)
<1>1. Placed(c, "calling")
  BY DEF Placed, StrategyPC, AnsweringPC
<1>2. NoBill(locals["calls"]) /\ locals["next"] # "strategy.probe" /\ Placed(c, locals["next"])
  OBVIOUS
<1> QED
  BY <1>1, <1>2 DEF Quietly

LEMMA CallingQuietly ==
  ASSUME NEW c, NEW calls, NEW next, Calling(c, calls, next), NoBill(calls),
         next \notin {"calling", "strategy.probe"}, Placed(c, next)
  PROVE  Quietly(c)
<1>1. CASE calls = <<>> /\ next = "idle"
  BY <1>1 DEF Calling, Quietly
<1>2. CASE calls = <<>> /\ next # "idle"
  <2>1. Goto(c, next, Nothing) /\ DOMAIN Nothing = {"calls"}
    BY <1>2 DEF Calling, Nothing
  <2> QED
    BY <2>1, GoingQuietly
<1>3. CASE calls # <<>>
  <2>1. PICK locals : locals = [calls |-> calls, next |-> next]
    OBVIOUS
  <2>2. /\ DOMAIN locals = {"calls", "next"}
        /\ locals["calls"] = calls /\ locals["next"] = next
    BY <2>1
  <2>3. Goto(c, "calling", locals)
    BY <1>3, <2>1 DEF Calling
  <2> QED
    BY <2>2, <2>3, MakingQuietly
<1> QED
  BY <1>1, <1>2, <1>3

\* Records off the bill.
LEMMA OffBillKinds ==
  ASSUME NEW t, t \notin BillTables
  PROVE  /\ \A row : NoBill(<<Inserting(t, row)>>)
         /\ \A id, patch : NoBill(<<Updating(t, id, patch)>>)
         /\ \A id : NoBill(<<Removing(t, id)>>)
BY NoBillOne DEF Inserting, Updating, Removing

LEMMA ReportsAreOffBill ==
  /\ \A c, action, about : NoBill(<<Auditing(c, action, about)>>)
  /\ \A c, user : NoBill(<<Notifying(c, user)>>)
  /\ \A c, user, action, about : NoBill(<<Notifying(c, user), Auditing(c, action, about)>>)
<1>1. /\ \A c, action, about : Auditing(c, action, about).table \notin BillTables
      /\ \A c, user : Notifying(c, user).table \notin BillTables
  BY DEF Auditing, Notifying, Inserting, BillTables
<1> QED
  BY <1>1, NoBillOne, NoBillTwo

LEMMA PlacedAnywhere ==
  ASSUME NEW c, NEW p, p \notin StrategyPC \cup AnsweringPC \cup {"run.suite", "run.cases"}
  PROVE  Placed(c, p)
BY DEF Placed

LEMMA StrategyPlaced ==
  ASSUME NEW c, BillRequest(c), pc[c] \in StrategyPC, NEW p \in StrategyPC \cup {"idle"}
  PROVE  /\ Placed(c, p) /\ loc[c].op = "strategy" /\ "j" \in DOMAIN loc[c] /\ loc[c].j \in Nat
         /\ Upto(c) = IF pc[c] = "strategy.probe" THEN 0 ELSE loc[c].j + 1
BY DEF BillRequest, Placed, StrategyPC, AnsweringPC, Upto

LEMMA RecordAlone ==
  ASSUME NEW c, NEW j, NEW agent, NEW status
  PROVE  /\ OwesAll(c, RecordAiRun(c, j, agent, status), j, status)
         /\ RecordAiRun(c, j, agent, status) # <<>>
         /\ RecordAiRun(c, j, agent, status)[1] = Asked(c, j, agent, status)
<1> DEFINE a == Asked(c, j, agent, status)
           t == Metering(c, j, "tokens")
           g == Metering(c, j, "agent_runs")
           r == RecordAiRun(c, j, agent, status)
<1>1. r = <<a>> \o (IF status = "completed" THEN <<t>> ELSE <<>>) \o <<g>>
  BY DEF RecordAiRun, Asked, Metering
<1> HIDE DEF a, t, g, r
<1> DEFINE S == {a, t, g}
<1>2. <<a>> \in Seq(S) /\ <<t>> \in Seq(S) /\ <<g>> \in Seq(S) /\ <<>> \in Seq(S)
  OBVIOUS
<1> HIDE DEF S
<1>3. \A u, v : u \in Seq(S) /\ v \in Seq(S) => u \o v \in Seq(S)
  OBVIOUS
<1>4. r \in Seq(S)
  BY <1>1, <1>2, <1>3
<1>5. r \o <<>> = r
  BY <1>4
<1> QED
  BY <1>5, NoBillNone, RecordIsOwed DEF r

LEMMA KnowledgeStepProceeds ==
  ASSUME CallsInv, BillRequests, NEW c \in Clients, KnowledgeStep(c)
  PROVE  /\ Proceeds(c) /\ InFlight(c) /\ pc[c] # "calling"
         /\ UNCHANGED <<postgres, area, db, served, cuts>>
<1>0. /\ InFlight(c) /\ pc[c] # "calling"
      /\ UNCHANGED <<postgres, area, db, served, cuts>> /\ area = "knowledge"
  BY DEF KnowledgeStep, InsertSource, AddDocument, Retrieve, ReadDocument, RemoveDocument, Probe,
     FindStrategySource, ListDocuments, DeleteSource, CreateStrategySource, CompleteDocument,
     AddStrategyDocument, At, history, InFlight
<1> SUFFICES Proceeds(c)
  BY <1>0
<1>1. CASE InsertSource(c) \/ AddDocument(c) \/ ReadDocument(c) \/ RemoveDocument(c)
  <2>1. Unasked
    BY <1>1, NothingAsked, OnlyEmbedded
       DEF InsertSource, AddDocument, ReadDocument, RemoveDocument
  <2>2. /\ Placed(c, "idle") /\ Placed(c, "document.chunks")
        /\ "idle" \notin {"calling", "strategy.probe"}
    BY PlacedAnywhere DEF StrategyPC, AnsweringPC
  <2>3. ASSUME NEW calls, Calling(c, calls, "idle"), NoBill(calls) PROVE Quietly(c)
    BY <2>2, <2>3, CallingQuietly
  <2>4. CASE InsertSource(c)
    <3>1. PICK source, logged :
            /\ source = NewSource(c, FormName)
            /\ logged = Auditing(c, "knowledge.source_created", Number(c))
            /\ Calling(c, <<source, logged>>, "idle")
      BY <2>4 DEF InsertSource
    <3>2. source.table \notin BillTables /\ logged.table \notin BillTables
      BY <3>1 DEF NewSource, Auditing, Inserting, BillTables
    <3>3. Quietly(c)
      BY <2>3, <3>1, <3>2, NoBillTwo
    <3> QED
      BY <2>1, <3>3 DEF Proceeds
  <2>5. CASE AddDocument(c)
    <3>1. ASSUME NEW chunks \in Chunks, NEW logged,
                 \/ logged = <<>>
                 \/ logged = <<Auditing(c, "knowledge.document_added", Number(c))>>,
                 Calling(c, AddingDocument(loc[c].source, 10 * Number(c), chunks) \o logged,
                         "idle")
          PROVE  Quietly(c)
      <4>1. NoBill(AddingDocument(loc[c].source, 10 * Number(c), chunks))
        BY AddingIsOffBill
      <4>2. NoBill(logged)
        BY <3>1, NoBillNone, ReportsAreOffBill
      <4> QED
        BY <2>3, <3>1, <4>1, <4>2, NoBillCat
    <3>2. Respond(c) => Quietly(c)
      BY DEF Quietly
    <3>3. Quietly(c)
      BY <2>5, <3>1, <3>2 DEF AddDocument
    <3> QED
      BY <2>1, <3>3 DEF Proceeds
  <2>6. CASE ReadDocument(c)
    <3>1. \/ Respond(c)
          \/ Goto(c, "document.chunks", Nothing) /\ DOMAIN Nothing = {"calls"}
      BY <2>6 DEF ReadDocument, Nothing
    <3>2. Quietly(c)
      BY <2>2, <3>1, GoingQuietly DEF Quietly
    <3> QED
      BY <2>1, <3>2 DEF Proceeds
  <2>7. CASE RemoveDocument(c)
    <3>1. area = "knowledge"
      BY DEF KnowledgeStep
    <3>2. Quietly(c)
      BY <2>3, <2>7, <3>1, RemovingIsOffBill DEF RemoveDocument
    <3> QED
      BY <2>1, <3>2 DEF Proceeds
  <2> QED
    BY <1>1, <2>4, <2>5, <2>6, <2>7
<1>2. CASE \/ Probe(c) \/ FindStrategySource(c) \/ ListDocuments(c) \/ DeleteSource(c)
           \/ CreateStrategySource(c) \/ CompleteDocument(c) \/ AddStrategyDocument(c)
  <2>1. pc[c] \in StrategyPC
    BY <1>2 DEF Probe, FindStrategySource, ListDocuments, DeleteSource, CreateStrategySource,
       CompleteDocument, AddStrategyDocument, At, StrategyPC
  <2>2. InFlight(c) /\ BillRequest(c)
    BY <1>0 DEF BillRequests
  <2>3. /\ \A p \in StrategyPC \cup {"idle"} : Placed(c, p)
        /\ loc[c].op = "strategy" /\ "j" \in DOMAIN loc[c] /\ loc[c].j \in Nat
        /\ Upto(c) = IF pc[c] = "strategy.probe" THEN 0 ELSE loc[c].j + 1
    BY <2>1, <2>2, StrategyPlaced
  <2>4. Quietly(c) /\ Unasked => Proceeds(c)
    BY DEF Proceeds
  <2>5. ASSUME NEW where \in StrategyPC \ {"strategy.probe"}, NEW locals,
               Goto(c, where, locals), DOMAIN locals \cap {"op", "n", "org", "j"} = {}
        PROVE  Quietly(c)
    BY <2>3, <2>5, GoingQuietly DEF StrategyPC
  <2>6. ASSUME NEW next \in (StrategyPC \cup {"idle"}) \ {"strategy.probe"}, NEW calls,
               Calling(c, calls, next), NoBill(calls)
        PROVE  Quietly(c)
    BY <2>3, <2>6, CallingQuietly DEF StrategyPC
  <2>7. DOMAIN Nothing = {"calls"}
    BY DEF Nothing
  <2>8. Calling(c, <<StrategyLogged(c)>>, "idle") => Quietly(c)
    BY <2>6, ReportsAreOffBill DEF StrategyLogged, StrategyPC
  <2>16. FindStrategySource(c) \/ ListDocuments(c) \/ DeleteSource(c) \/ CreateStrategySource(c)
           => Unasked
    BY NothingAsked DEF FindStrategySource, ListDocuments, DeleteSource, CreateStrategySource
  <2>17. AddStrategyDocument(c) => Unasked
    BY NothingAsked, OnlyEmbedded DEF AddStrategyDocument
  <2>9. CASE FindStrategySource(c)
    <3>1. ASSUME NEW s, Goto(c, "strategy.documents", [source |-> s.id]) PROVE Quietly(c)
      BY <2>5, <3>1 DEF StrategyPC
    <3>2. Goto(c, "strategy.create", Nothing) => Quietly(c)
      BY <2>5, <2>7 DEF StrategyPC
    <3> QED
      BY <2>4, <2>9, <2>16, <3>1, <3>2 DEF FindStrategySource
  <2>10. CASE ListDocuments(c)
    <3>1. ASSUME NEW docs, Goto(c, "strategy.delete", [docs |-> docs]) PROVE Quietly(c)
      BY <2>5, <3>1 DEF StrategyPC
    <3>2. Goto(c, "strategy.create", Nothing) => Quietly(c)
      BY <2>5, <2>7 DEF StrategyPC
    <3> QED
      BY <2>4, <2>10, <2>16, <3>1, <3>2 DEF ListDocuments
  <2>11. CASE DeleteSource(c)
    <3>1. ASSUME NEW docs, NEW d,
                 Goto(c, "calling", [docs |-> docs, next |-> "strategy.delete",
                                     calls |-> RemovingDocument(d, ChunkList(d))])
          PROVE  Quietly(c)
      <4>1. PICK calls : calls = RemovingDocument(d, ChunkList(d)) /\ NoBill(calls)
        BY RemovingIsOffBill DEF KnowledgeStep
      <4>2. PICK locals : locals = [docs |-> docs, next |-> "strategy.delete", calls |-> calls]
        OBVIOUS
      <4>3. /\ DOMAIN locals = {"docs", "next", "calls"}
            /\ locals["calls"] = calls /\ locals["next"] = "strategy.delete"
        BY <4>2
      <4>4. Goto(c, "calling", locals)
        BY <3>1, <4>1, <4>2
      <4>5. Placed(c, "strategy.delete")
        BY <2>3 DEF StrategyPC
      <4> QED
        BY <4>1, <4>3, <4>4, <4>5, MakingQuietly
    <3>2. Calling(c, <<Removing("knowledge_sources", loc[c].source)>>, "strategy.create")
            => Quietly(c)
      BY <2>6, OffBillKinds DEF StrategyPC, BillTables
    <3> QED
      BY <2>4, <2>11, <2>16, <3>1, <3>2 DEF DeleteSource
  <2>12. CASE CreateStrategySource(c)
    <3>1. PICK marking \in {<<>>, <<Updating("knowledge_sources", Number(c), [kind |-> "web"])>>} :
             Goto(c, "calling",
                  [source |-> Number(c), next |-> "strategy.complete",
                   calls |-> <<NewSource(c, StrategyName(loc[c].business))>> \o marking])
      BY <2>12 DEF CreateStrategySource
    <3>2. PICK calls : calls = <<NewSource(c, StrategyName(loc[c].business))>> \o marking
      OBVIOUS
    <3>3. NoBill(calls)
      <4>1. NoBill(<<NewSource(c, StrategyName(loc[c].business))>>) /\ NoBill(marking)
        BY <3>1, NoBillNone, OffBillKinds DEF NewSource, BillTables
      <4> QED
        BY <3>2, <4>1, NoBillCat
    <3>4. PICK locals : locals = [source |-> Number(c), next |-> "strategy.complete",
                                  calls |-> calls]
      OBVIOUS
    <3>5. /\ DOMAIN locals = {"source", "next", "calls"}
          /\ locals["calls"] = calls /\ locals["next"] = "strategy.complete"
      BY <3>4
    <3>6. Goto(c, "calling", locals)
      BY <3>1, <3>2, <3>4
    <3>7. Placed(c, "strategy.complete")
      BY <2>3 DEF StrategyPC
    <3> QED
      BY <2>4, <2>12, <2>16, <3>3, <3>5, <3>6, <3>7, MakingQuietly
  <2>13. CASE AddStrategyDocument(c)
    <3>1. ASSUME NEW document, NEW chunks \in Chunks,
                 Calling(c, AddingDocument(loc[c].source, document, chunks),
                         "strategy.complete")
          PROVE  Quietly(c)
      BY <2>6, <3>1, AddingIsOffBill DEF StrategyPC
    <3>2. Goto(c, "strategy.complete", Nothing) => Quietly(c)
      BY <2>5, <2>7 DEF StrategyPC
    <3> QED
      BY <2>4, <2>13, <2>17, <3>1, <3>2 DEF AddStrategyDocument
  <2>14. CASE Probe(c)
    <3>1. pc[c] = "strategy.probe" /\ Upto(c) = 0
      BY <2>3, <2>14 DEF Probe, At
    <3>2. CASE Calling(c, <<StrategyLogged(c)>>, "idle") /\ UNCHANGED aiVars
      BY <2>4, <2>8, <3>2, NothingAsked
    <3>3. ASSUME NEW status \in Outcome, Ask(c, 0, status),
                 Calling(c, RecordAiRun(c, 0, None, status), "strategy.find")
          PROVE  Asks(c)
      <4>1. PICK calls : /\ calls = RecordAiRun(c, 0, None, status)
                         /\ OwesAll(c, calls, 0, status) /\ calls # <<>>
                         /\ calls[1] = Asked(c, 0, None, status)
        BY RecordAlone
      <4>2. PICK locals : locals = [calls |-> calls, next |-> "strategy.find"]
        OBVIOUS
      <4>3. /\ DOMAIN locals = {"calls", "next"}
            /\ locals["calls"] = calls /\ locals["next"] = "strategy.find"
        BY <4>2
      <4>4. Goto(c, "calling", locals)
        BY <3>3, <4>1, <4>2 DEF Calling
      <4>5. PICK j \in Nat : j = 0 /\ j = loc[c].j
        BY <2>2, <3>1 DEF BillRequest
      <4>6. locals["next"] \notin AnsweringPC \cup {"strategy.probe", "run.suite", "run.cases"}
        BY <4>3 DEF AnsweringPC
      <4> HIDE DEF Ask, Upto, OwesAll, Asked, Goto
      <4> QED
        BY <1>0, <2>3, <3>1, <3>3, <4>1, <4>3, <4>4, <4>5, <4>6 DEF Asks
    <3> QED
      BY <2>14, <3>2, <3>3 DEF Probe, RunAgentCompletion, Proceeds
  <2>15. CASE CompleteDocument(c)
    <3>1. pc[c] # "strategy.probe" /\ Upto(c) = loc[c].j + 1
      BY <2>3, <2>15 DEF CompleteDocument, At
    <3>2. CASE Calling(c, <<StrategyLogged(c)>>, "idle") /\ UNCHANGED aiVars
      BY <2>4, <2>8, <3>2, NothingAsked
    <3>3. ASSUME NEW status \in Outcome, NEW j, j = loc[c].j + 1, NEW next,
                 next \in {"strategy.add", "strategy.complete"}, Ask(c, j, status),
                 Goto(c, "calling", [j |-> j, calls |-> RecordAiRun(c, j, None, status),
                                     next |-> next])
          PROVE  Asks(c)
      <4>1. PICK calls : /\ calls = RecordAiRun(c, j, None, status)
                         /\ OwesAll(c, calls, j, status)
                         /\ calls[1] = Asked(c, j, None, status)
        BY RecordAlone
      <4>2. PICK locals : locals = [j |-> j, calls |-> calls, next |-> next]
        OBVIOUS
      <4>3. /\ DOMAIN locals = {"j", "calls", "next"}
            /\ locals["j"] = j /\ locals["calls"] = calls /\ locals["next"] = next
        BY <4>2
      <4>4. Goto(c, "calling", locals)
        BY <3>3, <4>1, <4>2
      <4>5. locals["next"] \notin AnsweringPC \cup {"strategy.probe", "run.suite", "run.cases"}
        BY <3>3, <4>3 DEF AnsweringPC
      <4>6. j \in Nat /\ Upto(c) = j
        BY <2>3, <3>1, <3>3
      <4> HIDE DEF Ask, Upto, OwesAll, Asked, Goto
      <4> QED
        BY <1>0, <2>3, <3>3, <4>1, <4>3, <4>4, <4>5, <4>6 DEF Asks
    <3>4. ASSUME NEW status \in Outcome, Ask(c, loc[c].j + 1, status),
                 Goto(c, "calling",
                      [j |-> loc[c].j + 1,
                       calls |-> RecordAiRun(c, loc[c].j + 1, None, status),
                       next |-> IF status = "completed" THEN "strategy.add"
                                                        ELSE "strategy.complete"])
          PROVE  Asks(c)
      BY <3>3, <3>4
    <3> QED
      BY <2>15, <3>2, <3>4 DEF CompleteDocument, Proceeds
  <2> QED
    BY <1>2, <2>9, <2>10, <2>11, <2>12, <2>13, <2>14, <2>15
<1>3. CASE Retrieve(c)
  <2>1. Unasked /\ Quietly(c)
    BY <1>3, OnlyEmbedded DEF Retrieve, Quietly
  <2> QED
    BY <2>1 DEF Proceeds
<1> QED
  BY <1>0, <1>1, <1>2, <1>3 DEF KnowledgeStep

LEMMA AnsweringPlaced ==
  ASSUME NEW c, BillRequest(c), pc[c] \in AnsweringPC, NEW p \in AnsweringPC \cup {"idle"}
  PROVE  /\ Placed(c, p) /\ loc[c].op = "evaluate" /\ "j" \in DOMAIN loc[c] /\ loc[c].j \in Nat
         /\ Upto(c) = loc[c].j
BY DEF BillRequest, Placed, StrategyPC, AnsweringPC, Upto

\* A run starts to count its calls.
LEMMA RunStarts ==
  ASSUME BillRequests, BillRows, Balanced, NEW c \in Clients, pc[c] = "run.cases",
         UNCHANGED <<postgres, db, served, cuts>>, NEW locals, Goto(c, "calling", locals),
         DOMAIN locals \cap {"op", "n", "org"} = {},
         {"calls", "next", "j"} \subseteq DOMAIN locals, locals["j"] = 0,
         NEW calls, locals["calls"] = calls, NoBill(calls),
         NEW next \in AnsweringPC, locals["next"] = next
  PROVE  BillRequests' /\ BillRows' /\ Balanced'
<1>0. InFlight(c) /\ pc[c] # "calling" /\ "organizations" \in DOMAIN db /\ "ai_runs" \in DOMAIN db
  BY DEF InFlight, BillRows, BillTables
<1>1. DOMAIN pc = Clients /\ DOMAIN loc = Clients /\ served \in Nat /\ BillRequest(c)
  BY <1>0 DEF BillRequests
<1>2. /\ pc' = [pc EXCEPT ![c] = "calling"] /\ DOMAIN loc' = Clients
      /\ DOMAIN loc'[c] = DOMAIN locals \cup DOMAIN loc[c]
      /\ \A f \in DOMAIN locals : loc'[c][f] = locals[f]
      /\ \A f \in DOMAIN loc[c] : f \notin DOMAIN locals => loc'[c][f] = loc[c][f]
  BY <1>1, RequestGoesOn
<1>3. pc'[c] = "calling"
  BY <1>1, <1>2
<1>4. loc[c].op = "evaluate" /\ "j" \notin DOMAIN loc[c]
  BY <1>1 DEF BillRequest, Placed
<1>5. /\ {"op", "n", "org"} \subseteq DOMAIN loc[c]
      /\ {"op", "n", "org", "j", "calls", "next"} \subseteq DOMAIN loc'[c]
      /\ loc'[c].op = loc[c].op /\ loc'[c].n = loc[c].n /\ loc'[c].org = loc[c].org
      /\ loc'[c].j = 0 /\ loc'[c].calls = calls /\ loc'[c].next = next
  BY <1>1, <1>2 DEF BillRequest
<1>6. Number(c)' = Number(c)
  BY <1>5 DEF Number
<1>7. Upto(c)' = 0 /\ Upto(c) = 0
  BY <1>3, <1>4, <1>5 DEF Upto
<1>8. Fresh(c, Upto(c))'
  BY <1>1, <1>6, <1>7 DEF BillRequest, Fresh
<1>9. BillCalls(c)'
  <2>1. NoBill(calls)'
    BY DEF NoBill, OffBillAfter, IsSequence
  <2> QED
    BY <1>5, <2>1 DEF BillCalls
<1>10. next \notin StrategyPC \cup {"run.suite", "run.cases"} /\ next # "strategy.probe"
  BY DEF AnsweringPC, StrategyPC
<1>11. Placed(c, "calling")' /\ Placed(c, next)'
  BY <1>4, <1>5, <1>10 DEF Placed, StrategyPC, AnsweringPC
<1>12. BillRequest(c)'
  <2>1. Number(c)' \in 1 .. served'
    BY <1>1, <1>6 DEF BillRequest
  <2>2. loc'[c].op \in Asking /\ loc'[c].j \in Nat
    BY <1>4, <1>5 DEF Asking
  <2> HIDE DEF Number, BillCalls, Placed, Fresh, Upto
  <2> QED
    BY <1>3, <1>5, <1>8, <1>9, <1>10, <1>11, <2>1, <2>2 DEF BillRequest
<1> QED
  BY <1>0, <1>12, BillGoesOn

LEMMA AnsweringAsks ==
  ASSUME BillRequests, NEW c \in Clients, pc[c] \in AnsweringPC, area = "evals",
         NEW locals, Goto(c, "calling", locals),
         DOMAIN locals \cap {"op", "n", "org"} = {},
         {"calls", "next", "j"} \subseteq DOMAIN locals, locals["j"] = loc[c].j + 1,
         NEW calls, locals["calls"] = calls, NEW status \in Outcome,
         OwesAll(c, calls, loc[c].j, status),
         NEW agent, calls[1] = Asked(c, loc[c].j, agent, status), Ask(c, loc[c].j, status),
         NEW next \in AnsweringPC, locals["next"] = next
  PROVE  Asks(c)
<1>1. InFlight(c) /\ pc[c] # "calling" /\ BillRequest(c)
  BY DEF InFlight, BillRequests, AnsweringPC
<1>2. /\ loc[c].op = "evaluate" /\ "j" \in DOMAIN loc[c] /\ loc[c].j \in Nat
      /\ Upto(c) = loc[c].j
  BY <1>1, AnsweringPlaced
<1>3. PICK j \in Nat : j = loc[c].j + 1
  BY <1>2
<1>4. j = locals["j"] /\ Upto(c) = j - 1
  BY <1>2, <1>3
<1>5. next \notin StrategyPC \cup {"run.suite", "run.cases"} /\ next # "strategy.probe"
  BY DEF AnsweringPC, StrategyPC
<1>6. /\ j = IF "j" \in DOMAIN locals THEN locals["j"] ELSE loc[c].j
      /\ Upto(c) = IF loc[c].op = "strategy" THEN j ELSE j - 1
      /\ OwesAll(c, locals["calls"], Upto(c), status)
      /\ locals["calls"][1] = Asked(c, Upto(c), agent, status) /\ Ask(c, Upto(c), status)
  BY <1>2, <1>4
<1> HIDE DEF Ask, Upto, OwesAll, Asked, Goto
<1> QED
  BY <1>2, <1>5, <1>6 DEF Asks

LEMMA ScoreAsks ==
  ASSUME BillRequests, NEW c \in Clients, pc[c] \in AnsweringPC, area = "evals",
         NEW agent, NEW status \in Outcome, Ask(c, loc[c].j, status),
         NEW result, Score(c, RecordAiRun(c, loc[c].j, agent, status), result)
  PROVE  Asks(c)
<1>1. PICK row : row = [id |-> <<Number(c), CaseAt(c)>>, runId |-> Number(c), result |-> result]
  OBVIOUS
<1>2. PICK calls :
         calls = RecordAiRun(c, loc[c].j, agent, status) \o <<Inserting("eval_results", row)>>
  OBVIOUS
<1>3. OwesAll(c, calls, loc[c].j, status) /\ calls[1] = Asked(c, loc[c].j, agent, status)
  <2>1. NoBill(<<Inserting("eval_results", row)>>)
    BY OffBillKinds DEF BillTables
  <2> QED
    BY <1>2, <2>1, RecordIsOwed
<1>4. PICK cases, passed, failed, j :
         /\ j = loc[c].j + 1
         /\ Goto(c, "calling", [cases |-> cases, passed |-> passed, failed |-> failed,
                                calls |-> calls, next |-> "run.answer", j |-> j])
  BY <1>1, <1>2 DEF Score
<1>5. PICK locals : locals = [cases |-> cases, passed |-> passed, failed |-> failed,
                              calls |-> calls, next |-> "run.answer", j |-> j]
  OBVIOUS
<1>6. /\ DOMAIN locals = {"cases", "passed", "failed", "calls", "next", "j"}
      /\ locals["calls"] = calls /\ locals["next"] = "run.answer" /\ locals["j"] = j
  BY <1>5
<1>7. Goto(c, "calling", locals) /\ "run.answer" \in AnsweringPC
  BY <1>4, <1>5 DEF AnsweringPC
<1> QED
  BY <1>3, <1>4, <1>6, <1>7, AnsweringAsks

LEMMA EvalsStepProceeds ==
  ASSUME CallsInv, BillRequests, NEW c \in Clients, EvalsStep(c)
  PROVE  /\ Proceeds(c) /\ InFlight(c) /\ pc[c] # "calling"
         /\ UNCHANGED <<postgres, area, db, served, cuts>>
<1>1. /\ pc[c] \in {"suite.agent", "case.add", "case.suite", "case.remove"} \cup
                    {"run.suite", "run.cases", "run.answer", "run.judge"}
      /\ UNCHANGED <<postgres, area, db, served, cuts>> /\ area = "evals"
  BY DEF EvalsStep, CheckSuiteAgent, InsertCase, ReadCaseSuite, RemoveCase, ReadSuite,
     StartRun, Answer, Judge, FinishRun, At, history
<1>2. InFlight(c) /\ pc[c] # "calling" /\ BillRequest(c)
  BY <1>1 DEF InFlight, BillRequests
<1> SUFFICES Proceeds(c)
  BY <1>1, <1>2
<1>3. /\ Quietly(c) /\ Unasked => Proceeds(c)
      /\ (\/ CheckSuiteAgent(c) \/ InsertCase(c) \/ ReadCaseSuite(c) \/ RemoveCase(c)
          \/ ReadSuite(c) \/ StartRun(c) \/ FinishRun(c)) => Unasked
  BY NothingAsked DEF Proceeds, CheckSuiteAgent, InsertCase, ReadCaseSuite, RemoveCase,
     ReadSuite, StartRun, FinishRun
<1>4. /\ Placed(c, "idle") /\ Placed(c, "case.remove")
      /\ "idle" \notin {"calling", "strategy.probe"}
  BY PlacedAnywhere DEF StrategyPC, AnsweringPC
<1>5. ASSUME NEW calls, Calling(c, calls, "idle"), NoBill(calls) PROVE Quietly(c)
  BY <1>4, <1>5, CallingQuietly
<1>6. Respond(c) => Quietly(c)
  BY DEF Quietly
<1>7. CASE CheckSuiteAgent(c)
  <2>1. NoBill(<<NewSuite(c), Auditing(c, "eval.suite_created", Number(c))>>)
    BY NoBillTwo DEF NewSuite, Auditing, Inserting, BillTables
  <2> QED
    BY <1>3, <1>5, <1>6, <1>7, <2>1 DEF CheckSuiteAgent
<1>8. CASE InsertCase(c)
  <2>1. PICK j, k : /\ j = Inserting("eval_cases", [id |-> Number(c), suiteId |-> loc[c].suite])
                    /\ k = Updating("eval_suites", loc[c].suite, [touchedBy |-> Number(c)])
    OBVIOUS
  <2>2. NoBill(<<j, k>>)
    BY <2>1, NoBillTwo DEF Inserting, Updating, BillTables
  <2>3. Respond(c) \/ Calling(c, <<j, k>>, "idle")
    BY <1>8, <2>1 DEF InsertCase
  <2> QED
    BY <1>3, <1>5, <1>6, <1>8, <2>2, <2>3
<1>9. CASE ReadCaseSuite(c)
  <2>1. Respond(c) \/ (Goto(c, "case.remove", Nothing) /\ DOMAIN Nothing = {"calls"})
    BY <1>9 DEF ReadCaseSuite, Nothing
  <2> QED
    BY <1>3, <1>4, <1>6, <1>9, <2>1, GoingQuietly
<1>10. CASE RemoveCase(c)
  <2>1. Calling(c, <<Removing("eval_cases", loc[c].case)>>, "idle") \/ Calling(c, <<>>, "idle")
    BY <1>10 DEF RemoveCase
  <2> QED
    BY <1>3, <1>5, <1>10, <2>1, NoBillNone, OffBillKinds DEF BillTables
<1>11. CASE ReadSuite(c)
  <2>1. pc[c] = "run.suite"
    BY <1>11 DEF ReadSuite, At
  <2>2. Placed(c, "run.cases")
    BY <1>2, <2>1 DEF BillRequest, Placed, StrategyPC, AnsweringPC
  <2>3. ASSUME NEW s, Goto(c, "run.cases", [scorer |-> s.scorer, agent |-> s.agentId])
        PROVE  Quietly(c)
    BY <2>2, <2>3, GoingQuietly
  <2> QED
    BY <1>3, <1>6, <1>11, <2>3 DEF ReadSuite
<1>12. ASSUME NEW row PROVE NoBill(<<Inserting("eval_runs", row)>>)
  BY OffBillKinds DEF BillTables
<1>13. NoBill(SuiteRunReported(c))
  BY ReportsAreOffBill DEF SuiteRunReported
<1>14. CASE StartRun(c)
  <2>1. pc[c] = "run.cases"
    BY <1>14 DEF StartRun, At
  <2>2. ASSUME NEW total, Calling(c, <<NewRun(c, "blocked", total, TRUE)>> \o SuiteRunReported(c), "idle")
        PROVE  Quietly(c)
    BY <1>5, <1>12, <1>13, <2>2, NoBillCat DEF NewRun
  <2>3. ASSUME NEW cases, NEW total,
               Goto(c, "calling",
                     [cases |-> cases, passed |-> 0, failed |-> 0, j |-> 0,
                      calls |-> <<NewRun(c, "completed", total, FALSE)>>,
                      next |-> "run.answer"])
        PROVE  Begins(c)
    <3>1. PICK calls : calls = <<NewRun(c, "completed", total, FALSE)>>
      OBVIOUS
    <3>2. NoBill(calls)
      BY <1>12, <3>1 DEF NewRun
    <3>3. PICK locals : locals = [cases |-> cases, passed |-> 0, failed |-> 0, j |-> 0,
                                  calls |-> calls, next |-> "run.answer"]
      OBVIOUS
    <3>4. /\ DOMAIN locals = {"cases", "passed", "failed", "j", "calls", "next"}
          /\ locals["calls"] = calls /\ locals["next"] = "run.answer" /\ locals["j"] = 0
      BY <3>3
    <3>5. Goto(c, "calling", locals) /\ "run.answer" \in AnsweringPC
      BY <2>3, <3>1, <3>3 DEF AnsweringPC
    <3> QED
      BY <2>1, <3>2, <3>4, <3>5 DEF Begins
  <2> QED
    BY <1>3, <1>14, <2>2, <2>3 DEF StartRun, Proceeds
<1>15. CASE Answer(c)
  <2>1. pc[c] \in AnsweringPC
    BY <1>15 DEF Answer, At, AnsweringPC
  <2>2. ASSUME Goto(c, "calling",
                  [calls |-> RecordAiRun(c, loc[c].j, loc[c].agent, "completed"),
                   next |-> "run.judge", j |-> loc[c].j + 1]),
               Ask(c, loc[c].j, "completed")
        PROVE  Asks(c)
    <3>1. PICK calls, j : /\ calls = RecordAiRun(c, loc[c].j, loc[c].agent, "completed")
                          /\ j = loc[c].j + 1 /\ OwesAll(c, calls, loc[c].j, "completed")
                          /\ calls[1] = Asked(c, loc[c].j, loc[c].agent, "completed")
      BY RecordAlone
    <3>2. PICK locals : locals = [calls |-> calls, next |-> "run.judge", j |-> j]
      OBVIOUS
    <3>3. /\ DOMAIN locals = {"calls", "next", "j"}
          /\ locals["calls"] = calls /\ locals["next"] = "run.judge" /\ locals["j"] = j
      BY <3>2
    <3>4. /\ Goto(c, "calling", locals) /\ "run.judge" \in AnsweringPC
          /\ "completed" \in Outcome
      BY <2>2, <3>1, <3>2 DEF AnsweringPC, Outcome
    <3> QED
      BY <1>1, <2>1, <2>2, <3>1, <3>3, <3>4, AnsweringAsks
  <2>3. "failed" \in Outcome /\ "completed" \in Outcome
    BY DEF Outcome
  <2> QED
    BY <1>1, <1>15, <2>1, <2>2, <2>3, ScoreAsks DEF Answer, Proceeds
<1>16. CASE Judge(c)
  <2>1. pc[c] \in AnsweringPC /\ "failed" \in Outcome /\ "completed" \in Outcome
    BY <1>16 DEF Judge, At, AnsweringPC, Outcome
  <2> QED
    BY <1>1, <1>16, <2>1, ScoreAsks DEF Judge, Proceeds
<1>17. CASE FinishRun(c)
  <2>1. PICK patch : Calling(c, <<Updating("eval_runs", Number(c), patch)>>
                                \o SuiteRunReported(c), "idle")
    BY <1>17 DEF FinishRun
  <2>2. NoBill(<<Updating("eval_runs", Number(c), patch)>> \o SuiteRunReported(c))
    BY <1>13, NoBillCat, OffBillKinds DEF BillTables
  <2> QED
    BY <1>3, <1>5, <1>17, <2>1, <2>2
<1> QED
  BY <1>1, <1>2, <1>7, <1>8, <1>9, <1>10, <1>11, <1>14, <1>15, <1>16, <1>17 DEF EvalsStep

LEMMA ProceedsBills ==
  ASSUME BillRequests, BillRows, Balanced, NEW c \in Clients, InFlight(c), pc[c] # "calling",
         Proceeds(c), UNCHANGED <<postgres, db, served, cuts>>
  PROVE  BillRequests' /\ BillRows' /\ Balanced'
<1>1. CASE Quietly(c)
  BY <1>1, QuietKeeps
<1>2. CASE Begins(c)
  <2>1. PICK locals :
           /\ Goto(c, "calling", locals) /\ DOMAIN locals \cap {"op", "n", "org"} = {}
           /\ {"calls", "next", "j"} \subseteq DOMAIN locals /\ locals["j"] = 0
           /\ NoBill(locals["calls"]) /\ locals["next"] \in AnsweringPC
    BY <1>2 DEF Begins
  <2> QED
    BY <1>2, <2>1, RunStarts DEF Begins
<1>3. CASE Asks(c)
  BY <1>3, AskingKeeps DEF Asks
<1> QED
  BY <1>1, <1>2, <1>3 DEF Proceeds

-----------------------------------------------------------------------------
(***************************************************************************)
(* The bill: requests come in, and end.                                    *)
(***************************************************************************)
LEMMA BillArrives ==
  ASSUME BillRequests, BillRows, Balanced, NEW c \in Clients, NEW where, NEW locals,
         {"op", "org"} \subseteq DOMAIN locals, "n" \notin DOMAIN locals,
         Accept(c, where, locals), UNCHANGED db,
         where \notin {"idle", "calling", "run.cases"} \cup AnsweringPC,
         where = "run.suite" => locals.op = "evaluate",
         where \in StrategyPC \/ "j" \in DOMAIN locals =>
            where = "strategy.probe" /\ locals.op = "strategy" /\ "j" \in DOMAIN locals /\ locals.j = 0
  PROVE  BillRequests' /\ BillRows' /\ Balanced'
<1>1. PICK number : number = [n |-> served + 1]
  OBVIOUS
<1>2. DOMAIN number = {"n"} /\ number["n"] = served + 1
  BY <1>1
<1>3. /\ DOMAIN Over(locals, number) = DOMAIN locals \cup DOMAIN number
      /\ \A f \in DOMAIN locals : Over(locals, number)[f] = locals[f]
      /\ \A f \in DOMAIN number : f \notin DOMAIN locals => Over(locals, number)[f] = number[f]
  BY ZenonT(30), Overwritten
<1>4. DOMAIN pc = Clients /\ DOMAIN loc = Clients /\ served \in Nat
  BY DEF BillRequests
<1>5. /\ pc' = [pc EXCEPT ![c] = where] /\ DOMAIN loc' = Clients /\ pc[c] = "idle"
      /\ loc'[c] = Over(locals, number) /\ UNCHANGED <<postgres, cuts>>
      /\ \A d \in Clients \ {c} : loc'[d] = loc[d]
      /\ served' = served + 1
  BY <1>1, <1>4 DEF Accept
<1>6. pc'[c] = where
  BY <1>4, <1>5
<1>7. /\ DOMAIN loc'[c] = DOMAIN locals \cup {"n"} /\ loc'[c].n = served + 1
      /\ \A f \in DOMAIN locals : loc'[c][f] = locals[f]
  BY <1>2, <1>3, <1>5
<1>8. Number(c)' = served + 1
  BY <1>7 DEF Number
<1>9. "j" \in DOMAIN loc'[c] <=> "j" \in DOMAIN locals
  BY <1>7
<1>10. Upto(c)' = 0
  BY <1>6, <1>9 DEF Upto
<1>11. Fresh(c, Upto(c))'
  <2>1. \A r \in db["ai_runs"] : r.id[1] # served + 1
    BY <1>4 DEF BillRows
  <2> QED
    BY <1>8, <2>1 DEF Fresh
<1>12. Placed(c, where)'
  <2>1. loc'[c].op = locals.op
    BY <1>7
  <2>2. where \in StrategyPC => loc'[c].op = "strategy" /\ "j" \in DOMAIN loc'[c]
    BY <1>9, <2>1
  <2>3. where \in {"run.suite", "run.cases"} =>
           loc'[c].op = "evaluate" /\ "j" \notin DOMAIN loc'[c]
    BY <1>9, <2>1
  <2>4. where \notin AnsweringPC
    OBVIOUS
  <2> QED
    BY <2>2, <2>3, <2>4 DEF Placed
<1>13. BillRequest(c)'
  <2>1. {"op", "n", "org"} \subseteq DOMAIN loc'[c]
    BY <1>7
  <2>2. Number(c)' \in 1 .. served'
    BY <1>4, <1>5, <1>8
  <2>3. "j" \in DOMAIN loc'[c] => loc'[c].op \in Asking /\ loc'[c].j = 0
    BY <1>7, <1>9 DEF Asking
  <2>4. where = "strategy.probe" => "j" \in DOMAIN loc'[c]
    BY <1>9 DEF StrategyPC
  <2>5. where # "calling"
    OBVIOUS
  <2> HIDE DEF Number, BillCalls, Placed, Fresh, Upto
  <2> QED
    BY <1>6, <1>11, <1>12, <2>1, <2>2, <2>3, <2>4, <2>5 DEF BillRequest
<1>14. RowsGrow(served + 1)
  BY <1>5 DEF RowsGrow, BillRows
<1>15. \A d \in Clients \ {c} : InFlight(d) => Number(d) # served + 1
  BY <1>4 DEF BillRequests, BillRequest
<1>16. served' \in Nat /\ served <= served' /\ cuts \subseteq cuts'
  BY <1>4, <1>5
<1>17. PICK n : n = served + 1
  OBVIOUS
<1>18. /\ BillRequests'
       /\ \A d \in Clients \ {c} : InFlight(d) =>
             Number(d)' = Number(d) /\ Call(d)' = Call(d) /\ (Owing(d)' <=> Owing(d))
  BY <1>5, <1>8, <1>13, <1>14, <1>15, <1>16, <1>17, BillRequestsStay
<1>19. BillRows' /\ Balanced'
  BY <1>5, <1>16, <1>18, BillStays DEF Owing
<1> QED
  BY <1>18, <1>19

LEMMA BillArrivesFrom ==
  ASSUME BillRequests, BillRows, Balanced, NEW c \in Clients, NEW m, NEW where, NEW locals,
         "op" \in DOMAIN locals, {"n", "org", "user"} \cap DOMAIN locals = {},
         AcceptFrom(m, c, where, locals), UNCHANGED db,
         where \notin {"idle", "calling", "run.cases"} \cup AnsweringPC,
         where = "run.suite" => locals.op = "evaluate",
         where \in StrategyPC \/ "j" \in DOMAIN locals =>
            where = "strategy.probe" /\ locals.op = "strategy" /\ "j" \in DOMAIN locals /\ locals.j = 0
  PROVE  BillRequests' /\ BillRows' /\ Balanced'
<1>1. PICK caller : caller = [org |-> m.organizationId, user |-> m.userId]
  OBVIOUS
<1>2. DOMAIN caller = {"org", "user"}
  BY <1>1
<1>3. PICK all : all = Over(locals, caller)
  OBVIOUS
<1>4. DOMAIN all = DOMAIN locals \cup DOMAIN caller /\ \A f \in DOMAIN locals : all[f] = locals[f]
  <2>1. /\ DOMAIN Over(locals, caller) = DOMAIN locals \cup DOMAIN caller
        /\ \A f \in DOMAIN locals : Over(locals, caller)[f] = locals[f]
    BY Overwritten
  <2> QED
    BY <1>3, <2>1
<1>5. Accept(c, where, all)
  BY <1>1, <1>3 DEF AcceptFrom
<1>6. /\ {"op", "org"} \subseteq DOMAIN all /\ "n" \notin DOMAIN all /\ all.op = locals.op
      /\ "j" \in DOMAIN all <=> "j" \in DOMAIN locals
      /\ "j" \in DOMAIN all => all.j = locals.j
  BY <1>2, <1>4
<1> QED
  BY <1>5, <1>6, BillArrives

LEMMA SubmitBills ==
  ASSUME BillRequests, BillRows, Balanced, NEW c \in Clients,
         KnowledgeSubmit(c) \/ EvalsSubmit(c)
  PROVE  BillRequests' /\ BillRows' /\ Balanced'
<1>1. UNCHANGED db
  BY SubmitsLeave
<1>2. \A where \in {"source.create", "document.source", "document.read", "knowledge.retrieve",
                    "suite.agent", "case.add", "case.suite"} :
         where \notin {"idle", "calling", "run.cases", "run.suite"} \cup AnsweringPC \cup StrategyPC
  BY DEF AnsweringPC, StrategyPC
<1>3. ASSUME NEW where \in {"source.create", "document.source", "document.read",
                            "knowledge.retrieve", "suite.agent", "case.add", "case.suite"},
             NEW m, NEW locals, "op" \in DOMAIN locals,
             {"n", "org", "user", "j"} \cap DOMAIN locals = {},
             AcceptFrom(m, c, where, locals)
      PROVE  BillRequests' /\ BillRows' /\ Balanced'
  BY <1>1, <1>2, <1>3, BillArrivesFrom
<1>4. CASE CreateSource(c)
  BY <1>3, <1>4 DEF CreateSource
<1>5. CASE PasteDocument(c)
  <2>1. ASSUME NEW m, NEW s,
               AcceptFrom(m, c, "document.source", [op |-> "addDocument", source |-> s.id, logged |-> TRUE])
        PROVE  BillRequests' /\ BillRows' /\ Balanced'
    BY <1>3, <2>1
  <2> QED
    BY <1>5, <2>1 DEF PasteDocument
<1>6. CASE KnowledgeWrite(c)
  <2>1. PICK o, s :
            Accept(c, "document.source",
                  [op |-> "addDocument", org |-> o, source |-> s, logged |-> FALSE])
    BY <1>6 DEF KnowledgeWrite
  <2>2. PICK locals : locals = [op |-> "addDocument", org |-> o, source |-> s, logged |-> FALSE]
    OBVIOUS
  <2>3. DOMAIN locals = {"op", "org", "source", "logged"} /\ Accept(c, "document.source", locals)
    BY <2>1, <2>2
  <2> QED
    BY <1>1, <1>2, <2>3, BillArrives
<1>7. CASE DeleteDocument(c)
  <2>1. ASSUME NEW m, NEW s, NEW d,
               AcceptFrom(m, c, "document.read",
                      [op |-> "deleteDocument", source |-> s, document |-> d])
        PROVE  BillRequests' /\ BillRows' /\ Balanced'
    BY <1>3, <2>1
  <2> QED
    BY <1>7, <2>1 DEF DeleteDocument
<1>13. CASE AskKnowledge(c)
  <2>1. ASSUME NEW m, NEW s,
               AcceptFrom(m, c, "knowledge.retrieve", [op |-> "retrieve", source |-> s])
        PROVE  BillRequests' /\ BillRows' /\ Balanced'
    BY <1>3, <2>1
  <2> QED
    BY <1>13, <2>1 DEF AskKnowledge
<1>8. CASE GenerateStrategy(c)
  <2>1. PICK m, b : AcceptFrom(m, c, "strategy.probe",
                      [op |-> "strategy", business |-> b, docs |-> {}, j |-> 0])
    BY <1>8 DEF GenerateStrategy
  <2>2. PICK locals : locals = [op |-> "strategy", business |-> b, docs |-> {}, j |-> 0]
    OBVIOUS
  <2>3. /\ DOMAIN locals = {"op", "business", "docs", "j"} /\ locals.op = "strategy"
        /\ locals.j = 0 /\ AcceptFrom(m, c, "strategy.probe", locals)
    BY <2>1, <2>2
  <2>4. "strategy.probe" \notin {"idle", "calling", "run.cases"} \cup AnsweringPC
    BY DEF AnsweringPC
  <2> QED
    BY <1>1, <2>3, <2>4, BillArrivesFrom
<1>9. CASE CreateSuite(c)
  <2>1. ASSUME NEW m, NEW a,
               AcceptFrom(m, c, "suite.agent", [op |-> "createSuite", agent |-> a])
        PROVE  BillRequests' /\ BillRows' /\ Balanced'
    BY <1>3, <2>1
  <2> QED
    BY <1>9, <2>1 DEF CreateSuite
<1>10. CASE AddCase(c)
  <2>1. ASSUME NEW m, NEW s, AcceptFrom(m, c, "case.add", [op |-> "addCase", suite |-> s])
        PROVE  BillRequests' /\ BillRows' /\ Balanced'
    BY <1>3, <2>1
  <2> QED
    BY <1>10, <2>1 DEF AddCase
<1>11. CASE DeleteCase(c)
  <2>1. ASSUME NEW m, NEW s, NEW k,
               AcceptFrom(m, c, "case.suite", [op |-> "deleteCase", suite |-> s, case |-> k])
        PROVE  BillRequests' /\ BillRows' /\ Balanced'
    BY <1>3, <2>1
  <2> QED
    BY <1>11, <2>1 DEF DeleteCase
<1>12. CASE RunSuite(c)
  <2>1. PICK m, s : AcceptFrom(m, c, "run.suite", [op |-> "evaluate", suite |-> s])
    BY <1>12 DEF RunSuite
  <2>2. PICK locals : locals = [op |-> "evaluate", suite |-> s]
    OBVIOUS
  <2>3. /\ DOMAIN locals = {"op", "suite"} /\ locals.op = "evaluate"
        /\ AcceptFrom(m, c, "run.suite", locals)
    BY <2>1, <2>2
  <2>4. "run.suite" \notin {"idle", "calling", "run.cases"} \cup AnsweringPC \cup StrategyPC
    BY DEF AnsweringPC, StrategyPC
  <2> QED
    BY <1>1, <2>3, <2>4, BillArrivesFrom
<1> QED
  BY <1>4, <1>5, <1>6, <1>7, <1>8, <1>9, <1>10, <1>11, <1>12, <1>13
     DEF KnowledgeSubmit, EvalsSubmit

LEMMA CutBills ==
  ASSUME BillRequests, BillRows, Balanced, NEW c \in Clients, CutOff(c)
  PROVE  BillRequests' /\ BillRows' /\ Balanced'
<1>1. /\ InFlight(c) /\ Respond(c) /\ UNCHANGED <<postgres, db, served>>
      /\ cuts' = cuts \cup {loc[c].op}
  BY DEF CutOff
<1>2. BillRequest(c)
  BY <1>1 DEF BillRequests
<1>3. ASSUME Owing(c) PROVE cuts' \cap Asking # {}
  <2>1. Call(c) \in Nat
    BY <1>2, <1>3 DEF Owing, BillRequest, BillCalls
  <2>2. "j" \in DOMAIN loc[c]
    BY <2>1 DEF Call, Upto
  <2> QED
    BY <1>1, <1>2, <2>2 DEF BillRequest
<1> QED
  BY <1>1, <1>3, BillAnswers

-----------------------------------------------------------------------------
(***************************************************************************)
(* The bill: store calls.                                                  *)
(***************************************************************************)
\* A call was made: the request has the rest of them left, or is through with them.
CallMade(c, rest) ==
  \/ rest # <<>> /\ Goto(c, "calling", [calls |-> rest])
  \/ rest = <<>> /\ loc[c].next = "idle" /\ Respond(c)
  \/ rest = <<>> /\ loc[c].next # "idle" /\ Goto(c, loc[c].next, Nothing)

LEMMA CallMadeLeaves ==
  ASSUME CallsInv, BillRequests, NEW c \in Clients, pc[c] = "calling", NEW rest, CallMade(c, rest)
  PROVE  /\ \E where : pc' = [pc EXCEPT ![c] = where]
         /\ DOMAIN loc' = Clients /\ \A d \in Clients \ {c} : loc'[d] = loc[d]
         /\ pc'[c] = IF rest # <<>> THEN "calling" ELSE loc[c].next
         /\ rest # <<>> => pc'[c] = "calling" /\ loc'[c].calls = rest
         /\ rest = <<>> => pc'[c] # "calling"
         /\ pc'[c] # "idle" => /\ DOMAIN loc'[c] = DOMAIN loc[c]
                               /\ \A f \in DOMAIN loc[c] \ {"calls"} : loc'[c][f] = loc[c][f]
                               /\ Number(c)' = Number(c) /\ Upto(c)' = Upto(c)
                               /\ Call(c)' = Call(c)
<1>1. DOMAIN pc = Clients /\ DOMAIN loc = Clients /\ BillRequest(c)
  BY DEF BillRequests, InFlight
<1>2. /\ {"op", "n", "org", "calls", "next"} \subseteq DOMAIN loc[c]
      /\ loc[c].next \notin {"calling", "strategy.probe"}
  BY <1>1 DEF BillRequest, CallsInv
<1>3. CASE rest = <<>> /\ Respond(c) /\ loc[c].next = "idle"
  BY <1>1, <1>2, <1>3 DEF Respond
<1>4. ASSUME NEW where \in {"calling", loc[c].next}, NEW locals, DOMAIN locals = {"calls"},
             Goto(c, where, locals)
      PROVE  /\ pc' = [pc EXCEPT ![c] = where] /\ pc'[c] = where
             /\ DOMAIN loc' = Clients /\ \A d \in Clients \ {c} : loc'[d] = loc[d]
             /\ DOMAIN loc'[c] = DOMAIN loc[c] /\ loc'[c].calls = locals.calls
             /\ \A f \in DOMAIN loc[c] \ {"calls"} : loc'[c][f] = loc[c][f]
             /\ Number(c)' = Number(c) /\ Upto(c)' = Upto(c) /\ Call(c)' = Call(c)
  <2>1. /\ pc' = [pc EXCEPT ![c] = where] /\ DOMAIN loc' = Clients
        /\ DOMAIN loc'[c] = DOMAIN locals \cup DOMAIN loc[c]
        /\ \A f \in DOMAIN locals : loc'[c][f] = locals[f]
        /\ \A f \in DOMAIN loc[c] : f \notin DOMAIN locals => loc'[c][f] = loc[c][f]
        /\ \A d \in Clients \ {c} : loc'[d] = loc[d]
    BY <1>1, <1>4, RequestGoesOn
  <2>2. pc'[c] = where /\ where # "strategy.probe"
    BY <1>1, <1>2, <1>4, <2>1
  <2>3. DOMAIN loc'[c] = DOMAIN loc[c]
    BY <1>2, <1>4, <2>1
  <2>4. loc'[c].op = loc[c].op /\ loc'[c].n = loc[c].n /\ ("j" \in DOMAIN loc[c] => loc'[c].j = loc[c].j)
    BY <1>2, <1>4, <2>1
  <2>5. Number(c)' = Number(c) /\ Upto(c)' = Upto(c)
    BY <2>2, <2>3, <2>4 DEF Number, Upto
  <2>6. Call(c)' = Call(c)
    BY <2>5 DEF Call
  <2> HIDE DEF Number, Upto, Call
  <2> QED
    BY <1>4, <2>1, <2>2, <2>3, <2>5, <2>6
<1>5. CASE rest # <<>> /\ Goto(c, "calling", [calls |-> rest])
  <2>1. PICK locals : locals = [calls |-> rest]
    OBVIOUS
  <2>2. DOMAIN locals = {"calls"} /\ locals.calls = rest
    BY <2>1
  <2> HIDE DEF Number, Upto, Call
  <2> QED
    BY <1>4, <1>5, <2>1, <2>2
<1>6. CASE rest = <<>> /\ loc[c].next # "idle" /\ Goto(c, loc[c].next, Nothing)
  <2>1. DOMAIN Nothing = {"calls"}
    BY DEF Nothing
  <2> HIDE DEF Number, Upto, Call, Nothing
  <2> QED
    BY <1>2, <1>4, <1>6, <2>1
<1> QED
  BY <1>3, <1>5, <1>6 DEF CallMade

LEMMA CallMadeBills ==
  ASSUME CallsInv, BillRequests, NEW c \in Clients, pc[c] = "calling", NEW rest, CallMade(c, rest),
         UNCHANGED <<postgres, served>>, RowsGrow(Number(c)),
         \A r \in db'["ai_runs"] : r.id[1] = Number(c) => r.id[2] < Upto(c),
         rest # <<>> => BillCalls(c)'
  PROVE  /\ BillRequests'
         /\ \A d \in Clients \ {c} : InFlight(d) =>
               Number(d)' = Number(d) /\ Call(d)' = Call(d) /\ (Owing(d)' <=> Owing(d))
<1>1. InFlight(c) /\ DOMAIN pc = Clients /\ DOMAIN loc = Clients /\ BillRequest(c) /\ served \in Nat
  BY DEF BillRequests, InFlight
<1>2. /\ {"op", "n", "org", "calls", "next"} \subseteq DOMAIN loc[c]
      /\ loc[c].next # "strategy.probe" /\ Placed(c, loc[c].next)
  BY <1>1 DEF BillRequest, CallsInv
<1>3. PICK where : pc' = [pc EXCEPT ![c] = where]
  BY CallMadeLeaves
<1>4. pc'[c] = where
  BY <1>1, <1>3
<1>5. /\ DOMAIN loc' = Clients /\ \A d \in Clients \ {c} : loc'[d] = loc[d]
      /\ pc'[c] = IF rest # <<>> THEN "calling" ELSE loc[c].next
      /\ rest = <<>> => pc'[c] # "calling"
      /\ pc'[c] # "idle" => /\ DOMAIN loc'[c] = DOMAIN loc[c]
                            /\ \A f \in DOMAIN loc[c] \ {"calls"} : loc'[c][f] = loc[c][f]
                            /\ Number(c)' = Number(c) /\ Upto(c)' = Upto(c)
  BY CallMadeLeaves
<1>6. ASSUME where # "idle" PROVE BillRequest(c)' /\ Number(c)' = Number(c)
  <2>1. /\ loc'[c].op = loc[c].op /\ loc'[c].next = loc[c].next
        /\ "j" \in DOMAIN loc'[c] <=> "j" \in DOMAIN loc[c]
        /\ "j" \in DOMAIN loc[c] => loc'[c].j = loc[c].j
        /\ {"op", "n", "org", "calls", "next"} \subseteq DOMAIN loc'[c]
    BY <1>2, <1>4, <1>5, <1>6
  <2>2. Number(c)' = Number(c) /\ Upto(c)' = Upto(c)
    BY <1>4, <1>5, <1>6
  <2>3. \A p : Placed(c, p)' <=> Placed(c, p)
    BY <2>1 DEF Placed
  <2>4. Placed(c, "calling")
    BY DEF Placed, StrategyPC, AnsweringPC
  <2>5. Fresh(c, Upto(c))'
    BY <2>2 DEF Fresh
  <2>6. Number(c)' \in 1 .. served' /\ ("j" \in DOMAIN loc'[c] => loc'[c].op \in Asking /\ loc'[c].j \in Nat)
    BY <1>1, <2>1, <2>2 DEF BillRequest
  <2>7. where # "strategy.probe" /\ Placed(c, where)'
    BY <1>2, <1>4, <1>5, <2>3, <2>4
  <2>8. PICK next : next = loc[c].next /\ loc'[c].next = next
    BY <2>1
  <2>9. Placed(c, next)' /\ next # "strategy.probe"
    BY <1>2, <2>3, <2>8
  <2>10. pc'[c] = "calling" => BillCalls(c)'
    BY <1>5
  <2> HIDE DEF Number, BillCalls, Placed, Fresh, Upto
  <2>11. BillRequest(c)'
    BY <1>4, <2>1, <2>5, <2>6, <2>7, <2>8, <2>9, <2>10 DEF BillRequest
  <2> QED
    BY <2>2, <2>11
<1>7. \A d \in Clients \ {c} : InFlight(d) => Number(d) # Number(c)
  BY <1>1 DEF BillRequests
<1>8. PICK n : n = Number(c)
  OBVIOUS
<1>9. served' \in Nat /\ served <= served' /\ RowsGrow(n)
  BY <1>1, <1>8
<1>10. /\ where # "idle" => BillRequest(c)' /\ Number(c)' = n
       /\ \A d \in Clients \ {c} : InFlight(d) => Number(d) # n
  BY <1>6, <1>7, <1>8
<1> QED
  BY <1>3, <1>5, <1>9, <1>10, BillRequestsStay

\* A request that has none of the next call's records on record may stop before it.
LEMMA BillEndsBefore ==
  ASSUME BillRequests, BillRows, Balanced, NEW c \in Clients, InFlight(c), Respond(c),
         UNCHANGED <<postgres, db, served, cuts>>, Fresh(c, Call(c)), Call(c) \in Nat
  PROVE  BillRequests' /\ BillRows' /\ Balanced'
<1>1. served \in Nat /\ served' \in Nat /\ served <= served'
  BY DEF BillRequests
<1>2. /\ pc' = [pc EXCEPT ![c] = "idle"] /\ DOMAIN loc' = Clients
      /\ \A d \in Clients \ {c} : loc'[d] = loc[d]
  BY DEF Respond, BillRequests
<1>3. RowsGrow(Number(c))
  BY DEF RowsGrow, BillRows
<1>4. \A d \in Clients \ {c} : InFlight(d) => Number(d) # Number(c)
  BY DEF BillRequests
<1>5. PICK where, n : where = "idle" /\ n = Number(c)
  OBVIOUS
<1>6. /\ BillRequests'
      /\ \A d \in Clients \ {c} : InFlight(d) =>
            Number(d)' = Number(d) /\ Call(d)' = Call(d) /\ (Owing(d)' <=> Owing(d))
  BY <1>1, <1>2, <1>3, <1>4, <1>5, BillRequestsStay
<1>7. BillRows'
  BY DEF BillRows, IsRecord
<1>8. Balanced'
  <2>1. \A r \in db["ai_runs"] : r.id # <<Number(c), Call(c)>>
    <3> HIDE DEF Number, Call
    <3>1. ASSUME NEW r \in db["ai_runs"], r.id = <<Number(c), Call(c)>> PROVE FALSE
      BY <3>1 DEF Fresh
    <3> QED
      BY <3>1
  <2>2. \A d : Owing(d) => InFlight(d)
    BY DEF Owing, InFlight
  <2>3. \A r : HasMeters(r)' <=> HasMeters(r)
    BY DEF HasMeters
  <2> HIDE DEF Number, Call, Owing, HasMeters, InFlight
  <2> QED
    BY <1>6, <2>1, <2>2, <2>3 DEF Balanced
<1> QED
  BY <1>6, <1>7, <1>8

\* A call off the bill.
LEMMA OffBillCallBills ==
  ASSUME CallsInv, BillRequests, BillRows, Balanced, area \in AskingAreas, NEW c \in Clients,
         StoreCall(c), NoBill(loc[c].calls),
         DOMAIN db' = DOMAIN db, db'["organizations"] = db["organizations"]
  PROVE  BillRequests' /\ BillRows' /\ Balanced'
<1>1. PICK k, rest : k = Head(loc[c].calls) /\ rest = Tail(loc[c].calls)
  OBVIOUS
<1>2. /\ pc[c] = "calling" /\ UNCHANGED <<postgres, served, cuts>>
      /\ (Respond(c) /\ db' = db) \/ CallMade(c, rest)
  BY <1>1, CallAtHand DEF CallMade
<1>3. InFlight(c) /\ loc[c].calls # <<>>
  BY <1>2 DEF InFlight, CallsInv
<1>4. k.table \notin BillTables /\ NoBill(rest)
  BY <1>1, <1>3, OwedNext
<1>5. db'["ai_runs"] = db["ai_runs"] /\ db'["usage_records"] = db["usage_records"]
  BY <1>1, <1>4, OffBillCallKeeps DEF BillTables
<1>6. CASE Respond(c) /\ db' = db
  BY <1>2, <1>3, <1>6, BillAnswers DEF Owing
<1>7. CASE CallMade(c, rest)
  <2>1. BillRequest(c)
    BY <1>3 DEF BillRequests
  <2>2. RowsGrow(Number(c))
    BY <1>5 DEF RowsGrow, BillRows, BillTables
  <2>3. \A r \in db'["ai_runs"] : r.id[1] = Number(c) => r.id[2] < Upto(c)
    BY <1>5, <2>1 DEF BillRequest, Fresh
  <2>4. rest # <<>> => pc'[c] = "calling" /\ loc'[c].calls = rest
    BY <1>2, <1>7, CallMadeLeaves
  <2>5. NoBill(rest)'
    BY <1>4 DEF NoBill, OffBillAfter, IsSequence
  <2>6. rest # <<>> => BillCalls(c)'
    BY <2>4, <2>5 DEF BillCalls
  <2>7. /\ BillRequests'
        /\ \A d \in Clients \ {c} : InFlight(d) =>
              Number(d)' = Number(d) /\ Call(d)' = Call(d) /\ (Owing(d)' <=> Owing(d))
    BY <1>2, <1>7, <2>2, <2>3, <2>6, CallMadeBills
  <2>8. BillRows'
    BY <1>2, <1>5 DEF BillRows, IsRecord
  <2>9. Balanced'
    <3>1. ~Owing(c)
      BY DEF Owing
    <3>2. \A d : Owing(d) => InFlight(d)
      BY DEF Owing, InFlight
    <3>3. \A r : HasMeters(r)' <=> HasMeters(r)
      BY <1>5 DEF HasMeters
    <3> HIDE DEF Number, Call, Owing, HasMeters, InFlight
    <3> QED
      BY <1>2, <1>5, <2>7, <3>1, <3>2, <3>3 DEF Balanced
  <2> QED
    BY <2>7, <2>8, <2>9
<1> QED
  BY <1>2, <1>6, <1>7

\* A meter's row is not refused.
LEMMA MeterIsTaken ==
  ASSUME BillRows, NEW c, OrgKnown(c), NEW meter, ~HasMeter(c, meter)
  PROVE  /\ ~Refused(Metering(c, Call(c), meter))
         /\ ~FindsNothing(Metering(c, Call(c), meter))
         /\ Metering(c, Call(c), meter).call = "insert"
         /\ Metering(c, Call(c), meter).table = "usage_records"
         /\ Metering(c, Call(c), meter).row = MeterRow(c, Call(c), meter)
<1>1. PICK k, row, i : /\ k = Metering(c, i, meter) /\ row = MeterRow(c, i, meter)
                       /\ i = Call(c)
  OBVIOUS
<1>2. /\ k.call = "insert" /\ k.table = "usage_records" /\ k.row = row
      /\ row.id = <<Number(c), i, meter>> /\ row.organizationId = loc[c].org
  BY <1>1 DEF Metering, Inserting, MeterRow
<1>3. ~Duplicates("usage_records", row)
  <2>1. \A r \in db["usage_records"] : r.id # row.id
    BY <1>1, <1>2 DEF HasMeter
  <2> QED
    BY <2>1, BillReferences DEF Duplicates
<1>4. postgres => ~RefersToNothing("usage_records", row)
  <2>1. ASSUME postgres, NEW ref \in References, RefersTo("usage_records", row, ref),
               row[ref.field] # None
        PROVE  ById(ref.parent, row[ref.field]) # {}
    <3>1. ref.field = "organizationId" /\ ref.parent = "organizations"
      BY <2>1, BillReferences DEF RefersTo
    <3>2. row[ref.field] = loc[c].org
      BY <1>2, <3>1
    <3>3. PICK o \in db["organizations"] : o.id = loc[c].org
      BY <2>1, <3>2 DEF OrgKnown
    <3>4. "organizations" \in DOMAIN db
      BY DEF BillRows
    <3> QED
      BY <3>1, <3>2, <3>3, <3>4 DEF ById, Table
  <2> QED
    BY <2>1 DEF RefersToNothing
<1>5. ~Refused(k) /\ ~FindsNothing(k)
  BY <1>2, <1>3, <1>4 DEF Refused, FindsNothing
<1> QED
  BY <1>1, <1>2, <1>5

\* A call whose row was taken is of an organization on record.
LEMMA OrgIsKnown ==
  ASSUME BillRows, NEW c, NEW agent, NEW status, ~Refused(Asked(c, Call(c), agent, status))
  PROVE  OrgKnown(c)
<1>1. PICK k, row : /\ k = Asked(c, Call(c), agent, status)
                    /\ row = AiRunRow(c, Call(c), agent, status)
  OBVIOUS
<1>2. /\ k.call = "insert" /\ k.table = "ai_runs" /\ k.row = row
      /\ row.organizationId = loc[c].org /\ "organizationId" \in DOMAIN row
  BY <1>1 DEF Asked, Inserting, AiRunRow
<1>3. SUFFICES ASSUME postgres, loc[c].org # None PROVE \E o \in db["organizations"] : o.id = loc[c].org
  BY DEF OrgKnown
<1>4. ~RefersToNothing("ai_runs", row)
  BY <1>1, <1>2, <1>3 DEF Refused
<1>5. PICK ref \in References : /\ ref.child = "ai_runs" /\ ref.field = "organizationId"
                                /\ ref.parent = "organizations"
  BY BillReferences
<1>6. "organizations" \in DOMAIN db
  BY DEF BillRows
<1>7. RefersTo("ai_runs", row, ref) /\ row[ref.field] = loc[c].org
  BY <1>2, <1>5, <1>6 DEF RefersTo
<1>8. ById("organizations", loc[c].org) # {}
  BY <1>3, <1>4, <1>5, <1>7 DEF RefersToNothing
<1> QED
  BY <1>6, <1>8 DEF ById, Table

\* The balance is kept, when the request's last call is.
LEMMA BalanceGrows ==
  ASSUME BillRequests, Balanced, NEW c \in Clients, UNCHANGED cuts,
         \A d \in Clients \ {c} : InFlight(d) =>
            Number(d)' = Number(d) /\ Call(d)' = Call(d) /\ (Owing(d)' <=> Owing(d)),
         db["usage_records"] \subseteq db'["usage_records"],
         NEW id, Owing(c) => id = <<Number(c), Call(c)>>,
         Owing(c)' => id = <<Number(c)', Call(c)'>>,
         \A r \in db'["ai_runs"] : r \in db["ai_runs"] \/ r.id = id,
         \A r \in db'["ai_runs"] : r.id = id => Owing(c)' \/ HasMeters(r)'
  PROVE  Balanced'
<1>1. \A r : HasMeters(r) => HasMeters(r)'
  BY DEF HasMeters
<1>2. \A d : Owing(d) => InFlight(d)
  BY DEF Owing, InFlight
<1>3. CASE cuts \cap Asking # {}
  BY <1>3 DEF Balanced
<1>4. CASE ~(cuts \cap Asking # {})
  <2>1. ASSUME NEW r \in db'["ai_runs"]
        PROVE  HasMeters(r)' \/ \E d \in Clients : Owing(d)' /\ r.id = <<Number(d)', Call(d)'>>
    <3>1. CASE r.id = id
      BY <2>1, <3>1
    <3>2. CASE r.id # id
      <4>1. r \in db["ai_runs"]
        BY <2>1, <3>2
      <4>2. HasMeters(r) \/ \E d \in Clients : Owing(d) /\ r.id = <<Number(d), Call(d)>>
        BY <1>4, <4>1 DEF Balanced
      <4>3. ASSUME NEW d \in Clients, Owing(d), r.id = <<Number(d), Call(d)>>
            PROVE  \E e \in Clients : Owing(e)' /\ r.id = <<Number(e)', Call(e)'>>
        BY <1>2, <3>2, <4>3
      <4> QED
        BY <1>1, <4>2, <4>3
    <3> QED
      BY <3>1, <3>2
  <2> QED
    BY <2>1 DEF Balanced
<1> QED
  BY <1>3, <1>4

\* A call to a model is put on record, or its request is refused.
LEMMA AskedCallBills ==
  ASSUME CallsInv, BillRequests, BillRows, Balanced, NEW c \in Clients, StoreCall(c),
         NEW status \in Outcome, OwesAll(c, loc[c].calls, Call(c), status), Fresh(c, Call(c)),
         Call(c) \in Nat
  PROVE  BillRequests' /\ BillRows' /\ Balanced'
<1>1. PICK k, rest, i, n : /\ k = Head(loc[c].calls) /\ rest = Tail(loc[c].calls)
                           /\ i = Call(c) /\ n = Number(c)
  OBVIOUS
<1>2. pc[c] = "calling"
  BY CallAtHand
<1>3. InFlight(c) /\ BillRequest(c) /\ n \in 1 .. served /\ served \in Nat /\ i \in Nat
  BY <1>1, <1>2 DEF InFlight, BillRequests, BillRequest
<1>4. /\ rest # <<>> /\ k = Asked(c, i, loc[c].calls[1].row.agentId, status)
      /\ IF status = "completed" THEN OwesBoth(c, rest, i) ELSE OwesLast(c, rest, i)
  <2>1. PICK s : s = loc[c].calls /\ OwesAll(c, s, i, status)
    BY <1>1
  <2>2. /\ Tail(s) # <<>> /\ Head(s) = Asked(c, i, s[1].row.agentId, status)
        /\ IF status = "completed" THEN OwesBoth(c, Tail(s), i) ELSE OwesLast(c, Tail(s), i)
    BY <2>1, OwedAll
  <2> QED
    BY <1>1, <2>1, <2>2
<1>5. PICK agent, row : /\ agent = loc[c].calls[1].row.agentId
                        /\ k = Asked(c, i, agent, status)
                        /\ row = AiRunRow(c, i, agent, status)
  BY <1>4
<1>6. /\ k.call = "insert" /\ k.table = "ai_runs" /\ k.row = row /\ row.id = <<n, i>>
      /\ row.status = status /\ IsRecord(row)
  BY <1>1, <1>5 DEF Asked, Inserting, AiRunRow, IsRecord
<1>7. /\ UNCHANGED <<postgres, served, cuts>>
      /\ \/ Respond(c) /\ db' = db
         \/ ~Refused(k) /\ db' = InsertRow("ai_runs", row) /\ CallMade(c, rest)
  BY <1>1, <1>6, CallAtHand DEF CallMade
<1>8. CASE Respond(c) /\ db' = db
  BY <1>3, <1>7, <1>8, BillEndsBefore
<1>9. CASE ~Refused(k) /\ db' = InsertRow("ai_runs", row) /\ CallMade(c, rest)
  <2>1. /\ DOMAIN db' = DOMAIN db /\ db'["ai_runs"] = db["ai_runs"] \cup {row}
        /\ db'["usage_records"] = db["usage_records"]
        /\ db'["organizations"] = db["organizations"]
    BY <1>9, InsertsAdd DEF BillRows, BillTables
  <2>2. RowsGrow(Number(c))
    <3>1. row.id[1] = Number(c)
      BY <1>1, <1>6
    <3> QED
      BY <2>1, <3>1 DEF RowsGrow, BillRows, BillTables
  <2>3. Upto(c) = i + 1 /\ Upto(c) \in Nat
    <3>1. "j" \in DOMAIN loc[c] => loc[c].j \in Nat
      BY <1>3 DEF BillRequest
    <3>2. Upto(c) \in Nat
      BY <3>1 DEF Upto
    <3> QED
      BY <1>1, <3>2 DEF Call
  <2>4. \A r \in db'["ai_runs"] : r.id[1] = Number(c) => r.id[2] < Upto(c)
    <3>1. \A r \in db["ai_runs"] : r.id[1] = Number(c) => r.id[2] < Upto(c)
      BY <1>3 DEF BillRequest, Fresh
    <3>2. row.id[2] < Upto(c)
      BY <1>3, <1>6, <2>3
    <3> QED
      BY <2>1, <3>1, <3>2
  <2>5. /\ pc'[c] = "calling" /\ loc'[c].calls = rest
        /\ \A f \in DOMAIN loc[c] \ {"calls"} : loc'[c][f] = loc[c][f]
        /\ Number(c)' = n /\ Call(c)' = i
    BY <1>1, <1>2, <1>4, <1>9, CallMadeLeaves
  <2>6. loc'[c].org = loc[c].org
    BY <1>3, <2>5 DEF BillRequest
  <2>7. OrgKnown(c)'
    <3>1. OrgKnown(c)
      BY <1>1, <1>5, <1>9, OrgIsKnown
    <3> QED
      BY <1>7, <2>1, <2>6, <3>1 DEF OrgKnown
  <2>8. HasRun(c, status)'
    BY <1>6, <2>1, <2>5 DEF HasRun
  <2>9. \A meter : ~HasMeter(c, meter)'
    <3>1. ASSUME NEW meter, NEW u \in db["usage_records"], u.id = <<n, i, meter>> PROVE FALSE
      <4>1. PICK r \in db["ai_runs"] : u.id = <<r.id[1], r.id[2], u.meter>>
        BY <3>1 DEF BillRows
      <4>2. r.id[1] = n /\ r.id[2] = i
        BY <3>1, <4>1
      <4> QED
        BY <1>1, <1>3, <4>2 DEF Fresh
    <3> QED
      BY <2>1, <2>5, <3>1 DEF HasMeter
  <2>10. /\ OwesBoth(c, rest, i)' <=> OwesBoth(c, rest, i)
         /\ OwesLast(c, rest, i)' <=> OwesLast(c, rest, i)
    <3>1. \A meter : Metering(c, i, meter)' = Metering(c, i, meter)
      BY <1>1, <2>5, <2>6 DEF Metering, MeterRow
    <3>2. \A m : OffBillAfter(rest, m)' <=> OffBillAfter(rest, m)
      BY DEF OffBillAfter, IsSequence
    <3> QED
      BY <3>1, <3>2 DEF OwesBoth, OwesLast
  <2>11. BillCalls(c)'
    <3>1. CASE status = "completed"
      BY <1>3, <1>4, <2>5, <2>7, <2>8, <2>9, <2>10, <3>1 DEF BillCalls
    <3>2. CASE status # "completed"
      BY <1>3, <1>4, <2>5, <2>7, <2>8, <2>9, <2>10, <3>2 DEF BillCalls
    <3> QED
      BY <3>1, <3>2
  <2>12. /\ BillRequests'
         /\ \A d \in Clients \ {c} : InFlight(d) =>
               Number(d)' = Number(d) /\ Call(d)' = Call(d) /\ (Owing(d)' <=> Owing(d))
    BY <1>2, <1>7, <1>9, <2>2, <2>4, <2>11, CallMadeBills
  <2>13. BillRows'
    <3>1. \A r \in db["ai_runs"] : r.id # row.id
      BY <1>1, <1>3, <1>6 DEF Fresh
    <3>2. /\ row.id = <<row.id[1], row.id[2]>> /\ row.id[1] \in 1 .. served /\ row.id[2] \in Nat
      BY <1>3, <1>6
    <3>4. \A r \in db'["ai_runs"] :
            /\ IsRecord(r) /\ r.id = <<r.id[1], r.id[2]>> /\ r.status \in Outcome
            /\ r.id[1] \in 1 .. served' /\ r.id[2] \in Nat
      BY <1>6, <1>7, <2>1, <3>2 DEF BillRows
    <3>5. \A r, s \in db'["ai_runs"] : r.id = s.id => r = s
      BY <2>1, <3>1 DEF BillRows
    <3>6. \A u \in db'["usage_records"] :
             /\ IsRecord(u) /\ u.meter \in Meters
             /\ \E r \in db'["ai_runs"] : /\ u.id = <<r.id[1], r.id[2], u.meter>>
                                          /\ u.meter = "tokens" => r.status = "completed"
      BY <2>1 DEF BillRows
    <3>7. \A u, v \in db'["usage_records"] : u.id = v.id => u = v
      BY <2>1 DEF BillRows
    <3>8. BillTables \cup {"organizations"} \subseteq DOMAIN db'
      BY <2>1 DEF BillRows
    <3>9. \A r : IsRecord(r)' <=> IsRecord(r)
      BY DEF IsRecord
    <3> QED
      BY ONLY <3>4, <3>5, <3>6, <3>7, <3>8, <3>9 DEF BillRows
  <2>14. Owing(c)'
    <3>1. ~NoBill(rest)
      BY <1>4, OwingIsBilled
    <3>2. ~NoBill(rest)'
      BY <3>1 DEF NoBill, OffBillAfter, IsSequence
    <3> QED
      BY <2>5, <3>2 DEF Owing
  <2>15. Balanced'
    <3>1. PICK id : id = <<n, i>>
      OBVIOUS
    <3> QED
      BY <1>1, <1>6, <1>7, <2>1, <2>5, <2>12, <2>14, <3>1, BalanceGrows
  <2> QED
    BY <2>12, <2>13, <2>15
<1> QED
  BY <1>7, <1>8, <1>9

\* A call on record is metered.
LEMMA MeterCallBills ==
  ASSUME CallsInv, BillRequests, BillRows, Balanced, NEW c \in Clients, StoreCall(c),
         Call(c) \in Nat, OrgKnown(c),
         NEW meter \in Meters, NEW status \in Outcome, HasRun(c, status), ~HasMeter(c, meter),
         NEW rest, rest = Tail(loc[c].calls),
         Head(loc[c].calls) = Metering(c, Call(c), meter),
         \/ /\ meter = "tokens" /\ status = "completed"
            /\ rest # <<>> /\ OwesLast(c, rest, Call(c)) /\ ~HasMeter(c, "agent_runs")
         \/ /\ meter = "agent_runs" /\ NoBill(rest)
            /\ status = "completed" => HasMeter(c, "tokens")
  PROVE  BillRequests' /\ BillRows' /\ Balanced'
<1>1. PICK k, i, n, row : /\ k = Head(loc[c].calls) /\ i = Call(c) /\ n = Number(c)
                          /\ row = MeterRow(c, i, meter)
  OBVIOUS
<1>2. pc[c] = "calling"
  BY CallAtHand
<1>3. InFlight(c) /\ BillRequest(c) /\ n \in 1 .. served /\ served \in Nat /\ i \in Nat
  BY <1>1, <1>2 DEF InFlight, BillRequests, BillRequest
<1>4. /\ k.call = "insert" /\ k.table = "usage_records" /\ k.row = row
      /\ ~Refused(k) /\ ~FindsNothing(k)
  BY <1>1, MeterIsTaken
<1>5. row.id = <<n, i, meter>> /\ row.meter = meter /\ IsRecord(row) /\ row.id[1] = n
  BY <1>1 DEF MeterRow, IsRecord
<1>6. UNCHANGED <<postgres, served, cuts>> /\ db' = InsertRow("usage_records", row) /\ CallMade(c, rest)
  BY <1>1, <1>4, CallAtHand DEF CallMade
<1>7. /\ DOMAIN db' = DOMAIN db /\ db'["ai_runs"] = db["ai_runs"]
      /\ db'["usage_records"] = db["usage_records"] \cup {row}
      /\ db'["organizations"] = db["organizations"]
  BY <1>6, InsertsAdd DEF BillRows, BillTables
<1>8. RowsGrow(Number(c))
  BY <1>1, <1>5, <1>7 DEF RowsGrow, BillRows, BillTables
<1>9. \A r \in db'["ai_runs"] : r.id[1] = Number(c) => r.id[2] < Upto(c)
  BY <1>3, <1>7 DEF BillRequest, Fresh
<1>10. rest # <<>> => /\ pc'[c] = "calling" /\ loc'[c].calls = rest
                      /\ \A f \in DOMAIN loc[c] \ {"calls"} : loc'[c][f] = loc[c][f]
                      /\ Number(c)' = n /\ Call(c)' = i
  BY <1>1, <1>2, <1>6, CallMadeLeaves
<1>11. ASSUME rest # <<>>, meter = "tokens" PROVE BillCalls(c)' /\ Owing(c)'
  <2>1. status = "completed" /\ OwesLast(c, rest, i) /\ ~HasMeter(c, "agent_runs")
    BY <1>1, <1>11
  <2>2. loc'[c].org = loc[c].org
    BY <1>3, <1>10, <1>11 DEF BillRequest
  <2>3. OrgKnown(c)'
    BY <1>6, <1>7, <2>2 DEF OrgKnown
  <2>4. HasRun(c, "completed")'
    BY <1>1, <1>7, <1>10, <1>11, <2>1 DEF HasRun
  <2>5. HasMeter(c, "tokens")'
    BY <1>5, <1>7, <1>10, <1>11 DEF HasMeter
  <2>6. ~HasMeter(c, "agent_runs")'
    <3>1. ASSUME NEW u \in db'["usage_records"], u.id = <<n, i, "agent_runs">> PROVE FALSE
      <4>1. u # row
        BY <1>5, <1>11, <3>1
      <4> QED
        BY <1>1, <1>7, <2>1, <3>1, <4>1 DEF HasMeter
    <3> QED
      BY <1>10, <1>11, <3>1 DEF HasMeter
  <2>7. OwesLast(c, rest, i)'
    <3>1. Metering(c, i, "agent_runs")' = Metering(c, i, "agent_runs")
      BY <1>1, <1>10, <1>11, <2>2 DEF Metering, MeterRow
    <3>2. \A m : OffBillAfter(rest, m)' <=> OffBillAfter(rest, m)
      BY DEF OffBillAfter, IsSequence
    <3> QED
      BY <2>1, <3>1, <3>2 DEF OwesLast
  <2>8. BillCalls(c)'
    BY <1>3, <1>10, <1>11, <2>3, <2>4, <2>5, <2>6, <2>7 DEF BillCalls, Outcome
  <2>9. Owing(c)'
    <3>1. ~NoBill(rest)
      BY <2>1, OwingIsBilled
    <3>2. ~NoBill(rest)'
      BY <3>1 DEF NoBill, OffBillAfter, IsSequence
    <3> QED
      BY <1>10, <1>11, <3>2 DEF Owing
  <2> QED
    BY <2>8, <2>9
<1>12. ASSUME rest # <<>>, meter = "agent_runs" PROVE BillCalls(c)'
  <2>1. NoBill(rest)'
    BY <1>12 DEF NoBill, OffBillAfter, IsSequence
  <2> QED
    BY <1>10, <1>12, <2>1 DEF BillCalls
<1>13. /\ BillRequests'
       /\ \A d \in Clients \ {c} : InFlight(d) =>
             Number(d)' = Number(d) /\ Call(d)' = Call(d) /\ (Owing(d)' <=> Owing(d))
  <2>1. rest # <<>> => BillCalls(c)'
    BY <1>11, <1>12
  <2> QED
    BY <1>2, <1>6, <1>8, <1>9, <2>1, CallMadeBills
<1>14. PICK run \in db["ai_runs"] : run.id = <<n, i>> /\ run.status = status
  BY <1>1 DEF HasRun
<1>15. BillRows'
  <2>1. \A u \in db["usage_records"] : u.id # row.id
    BY <1>1, <1>5 DEF HasMeter
  <2>2. /\ row.meter \in Meters /\ run.id[1] = n /\ run.id[2] = i
        /\ row.id = <<run.id[1], run.id[2], row.meter>>
        /\ row.meter = "tokens" => run.status = "completed"
    BY <1>5, <1>14
  <2>3. \A r \in db'["ai_runs"] :
          /\ IsRecord(r) /\ r.id = <<r.id[1], r.id[2]>> /\ r.status \in Outcome
          /\ r.id[1] \in 1 .. served' /\ r.id[2] \in Nat
    BY <1>6, <1>7 DEF BillRows
  <2>4. \A r, s \in db'["ai_runs"] : r.id = s.id => r = s
    BY <1>7 DEF BillRows
  <2>5. \A u \in db'["usage_records"] :
           /\ IsRecord(u) /\ u.meter \in Meters
           /\ \E r \in db'["ai_runs"] : /\ u.id = <<r.id[1], r.id[2], u.meter>>
                                        /\ u.meter = "tokens" => r.status = "completed"
    BY <1>5, <1>7, <2>2 DEF BillRows
  <2>6. \A u, v \in db'["usage_records"] : u.id = v.id => u = v
    BY <1>7, <2>1 DEF BillRows
  <2>7. BillTables \cup {"organizations"} \subseteq DOMAIN db'
    BY <1>7 DEF BillRows
  <2>8. \A r : IsRecord(r)' <=> IsRecord(r)
    BY DEF IsRecord
  <2> QED
    BY ONLY <2>3, <2>4, <2>5, <2>6, <2>7, <2>8 DEF BillRows
<1>16. Balanced'
  <2>1. PICK id : id = <<n, i>>
    OBVIOUS
  <2>2. Owing(c)' => id = <<Number(c)', Call(c)'>>
    <3>1. rest = <<>> => ~Owing(c)'
      BY <1>2, <1>6, CallMadeLeaves DEF Owing
    <3> QED
      BY <1>10, <2>1, <3>1
  <2>3. ASSUME NEW r \in db'["ai_runs"], r.id = id, meter = "agent_runs" PROVE HasMeters(r)'
    <3>1. r = run
      BY <1>7, <1>14, <2>1, <2>3 DEF BillRows
    <3>2. run.id[1] = n /\ run.id[2] = i
      BY <1>14
    <3>3. \E u \in db'["usage_records"] : u.id = <<n, i, "agent_runs">>
      BY <1>5, <1>7, <2>3
    <3>4. status = "completed" => \E u \in db'["usage_records"] : u.id = <<n, i, "tokens">>
      BY <1>1, <1>7, <2>3 DEF HasMeter
    <3> QED
      BY <1>14, <3>1, <3>2, <3>3, <3>4 DEF HasMeters, Meters
  <2>4. \A r \in db'["ai_runs"] : r.id = id => Owing(c)' \/ HasMeters(r)'
    BY <1>11, <2>3
  <2>5. Owing(c) => id = <<Number(c), Call(c)>>
    BY <1>1, <2>1
  <2>6. /\ db["usage_records"] \subseteq db'["usage_records"] /\ UNCHANGED cuts
        /\ \A r \in db'["ai_runs"] : r \in db["ai_runs"] \/ r.id = id
    BY <1>6, <1>7
  <2> HIDE DEF Number, Call, Owing, HasMeters, InFlight
  <2> QED
    BY <1>13, <2>2, <2>4, <2>5, <2>6, BalanceGrows
<1> QED
  BY <1>13, <1>15, <1>16

LEMMA StoreCallBills ==
  ASSUME CallsInv, BillRequests, BillRows, Balanced, area \in AskingAreas, NEW c \in Clients,
         StoreCall(c), DOMAIN db' = DOMAIN db, db'["organizations"] = db["organizations"]
  PROVE  BillRequests' /\ BillRows' /\ Balanced'
<1>1. pc[c] = "calling"
  BY CallAtHand
<1>2. BillCalls(c)
  BY <1>1 DEF BillRequests, BillRequest, InFlight
<1>3. PICK s, i, rest : s = loc[c].calls /\ i = Call(c) /\ rest = Tail(s)
  OBVIOUS
<1>4. CASE NoBill(s)
  BY <1>3, <1>4, OffBillCallBills
<1>5. ASSUME i \in Nat, OwesBoth(c, s, i), OrgKnown(c), HasRun(c, "completed"),
             ~HasMeter(c, "tokens"), ~HasMeter(c, "agent_runs")
      PROVE  BillRequests' /\ BillRows' /\ Balanced'
  <2>1. PICK meter \in Meters, status \in Outcome : meter = "tokens" /\ status = "completed"
    BY DEF Meters, Outcome
  <2>2. Head(s) = Metering(c, i, meter) /\ rest # <<>> /\ OwesLast(c, rest, i)
    BY <1>3, <1>5, <2>1, OwedNext
  <2> HIDE DEF Call, Number
  <2> QED
    BY <1>3, <1>5, <2>1, <2>2, MeterCallBills
<1>6. ASSUME i \in Nat, OwesLast(c, s, i), OrgKnown(c), ~HasMeter(c, "agent_runs"),
             NEW status \in Outcome, HasRun(c, status),
             status = "completed" => HasMeter(c, "tokens")
      PROVE  BillRequests' /\ BillRows' /\ Balanced'
  <2>1. PICK meter \in Meters : meter = "agent_runs"
    BY DEF Meters
  <2>2. Head(s) = Metering(c, i, meter) /\ NoBill(rest)
    BY <1>3, <1>6, <2>1, OwedNext
  <2> HIDE DEF Call, Number
  <2> QED
    BY <1>3, <1>6, <2>1, <2>2, MeterCallBills
<1>7. ASSUME i \in Nat, NEW status \in Outcome, OwesAll(c, s, i, status), Fresh(c, i)
      PROVE  BillRequests' /\ BillRows' /\ Balanced'
  BY <1>3, <1>7, AskedCallBills
<1> QED
  BY <1>2, <1>3, <1>4, <1>5, <1>6, <1>7 DEF BillCalls

-----------------------------------------------------------------------------
(***************************************************************************)
(* The bill: the inductive invariant holds.                                *)
(***************************************************************************)
LEMMA BillInitially == Init => BillInv
<1> SUFFICES ASSUME Init PROVE BillInv
  OBVIOUS
<1>1. PICK a \in Areas : \E seed \in Seeds[a] : RequestsInit(a, seed.rows)
  BY DEF Init
<1>2. PICK seed \in Seeds[a] : RequestsInit(a, seed.rows)
  BY <1>1
<1>3. /\ area = a /\ db = seed.rows /\ served = 0
      /\ pc = [c \in Clients |-> "idle"] /\ loc = [c \in Clients |-> Empty]
  BY <1>2 DEF RequestsInit
<1>4. CompletionsFit(area, db) /\ PeopleFit(db)
  BY <1>2, <1>3, PlatformAssumption
<1>5. /\ area \in AskingAreas <=> "ai_runs" \in DOMAIN db
      /\ area \in AskingAreas <=> "usage_records" \in DOMAIN db
      /\ area \in AskingAreas => db["ai_runs"] = {} /\ db["usage_records"] = {}
  BY <1>4 DEF CompletionsFit, AskingAreas
<1>6. "organizations" \in DOMAIN db
  BY <1>4 DEF PeopleFit
<1>7. BillRequests
  BY <1>3 DEF BillRequests, InFlight
<1>8. area \in AskingAreas => BillRows /\ Balanced
  BY <1>5, <1>6 DEF BillRows, Balanced, BillTables
<1> QED
  BY <1>5, <1>7, <1>8 DEF BillInv

LEMMA BillKept == BillInv /\ CallsInv /\ [Next]_vars => BillInv'
<1> SUFFICES ASSUME BillInv, CallsInv, [Next]_vars PROVE BillInv'
  OBVIOUS
<1>1. UNCHANGED area /\ DOMAIN db' = DOMAIN db
  BY Frame, TablesStay
<1>2. CASE area \notin AskingAreas
  BY <1>1, <1>2 DEF BillInv
<1>3. CASE area \in AskingAreas
  <2>1. BillRequests /\ BillRows /\ Balanced
    BY <1>3 DEF BillInv
  <2>2. "organizations" \in DOMAIN db
    BY <2>1 DEF BillRows
  <2>3. db'["organizations"] = db["organizations"]
    BY <1>3, <2>2, OrganizationsStay
  <2>4. CASE UNCHANGED requestVars
    <3>1. UNCHANGED <<postgres, db, pc, loc, served, cuts>>
      BY <2>4 DEF requestVars
    <3>2. \A c : /\ Number(c)' = Number(c) /\ Call(c)' = Call(c) /\ Upto(c)' = Upto(c)
                 /\ Owing(c)' <=> Owing(c)
      BY <3>1 DEF Number, Call, Upto, Owing, NoBill, OffBillAfter, IsSequence
    <3>3. BillRequests'
      <4>1. PICK n : n = 0
        OBVIOUS
      <4>2. RowsGrow(n)
        BY <1>1, <2>1, <3>1 DEF RowsGrow, BillRows, BillTables
      <4>3. served \in Nat /\ served' \in Nat /\ served <= served'
        BY <2>1, <3>1 DEF BillRequests
      <4>4. \A c \in Clients : InFlight(c) => Number(c) # n
        BY <2>1, <4>1 DEF BillRequests, BillRequest
      <4>5. \A c \in Clients : InFlight(c) => BillRequest(c)'
        BY <2>1, <3>1, <4>2, <4>3, <4>4, BillRequestStays DEF BillRequests
      <4>6. \A c : InFlight(c)' <=> InFlight(c)
        BY <3>1 DEF InFlight
      <4> HIDE DEF BillRequest, Number, InFlight
      <4> QED
        BY <2>1, <3>1, <3>2, <4>5, <4>6 DEF BillRequests
    <3>4. BillRows'
      BY <2>1, <3>1 DEF BillRows, IsRecord
    <3>5. Balanced'
      <4>1. \A r : HasMeters(r)' <=> HasMeters(r)
        BY <3>1 DEF HasMeters
      <4> QED
        BY <2>1, <3>1, <3>2, <4>1 DEF Balanced
    <3> QED
      BY <1>1, <1>3, <3>3, <3>4, <3>5 DEF BillInv
  <2>5. ASSUME NEW c \in Clients,
               \/ KnowledgeSubmit(c) \/ EvalsSubmit(c) \/ KnowledgeStep(c) \/ EvalsStep(c)
               \/ StoreCall(c) \/ CutOff(c)
        PROVE  BillRequests' /\ BillRows' /\ Balanced'
    BY <1>1, <1>3, <2>1, <2>3, <2>5, SubmitBills, KnowledgeStepProceeds, EvalsStepProceeds,
       ProceedsBills, StoreCallBills, CutBills
  <2>6. BillRequests' /\ BillRows' /\ Balanced' => BillInv'
    BY <1>1, <1>3 DEF BillInv
  <2> QED
    BY <1>3, <2>4, <2>5, <2>6, BillFrame
<1> QED
  BY <1>2, <1>3

\* A meter has as many rows as there are runs with one of its rows each.
LEMMA MetersCount ==
  ASSUME BillRows, IsFiniteSet(db["usage_records"]), NEW meter,
         NEW used, used = {u \in db["usage_records"] : u.meter = meter},
         NEW runs \in SUBSET db["ai_runs"],
         \A u \in used : \E r \in runs : u.id = <<r.id[1], r.id[2], meter>>,
         \A r \in runs : \E u \in used : u.id = <<r.id[1], r.id[2], meter>>
  PROVE  Cardinality(used) = Cardinality(runs)
<1>1. PICK f : f = [u \in used |-> CHOOSE r \in runs : u.id = <<r.id[1], r.id[2], meter>>]
  OBVIOUS
<1>2. \A u \in used : f[u] \in runs /\ u.id = <<f[u].id[1], f[u].id[2], meter>>
  BY <1>1
<1>3. f \in [used -> runs]
  BY <1>1, <1>2
<1>4. ASSUME NEW u \in used, NEW v \in used, f[u] = f[v] PROVE u = v
  <2>1. u.id = v.id
    BY <1>2, <1>4
  <2> QED
    BY <2>1 DEF BillRows
<1>5. ASSUME NEW r \in runs PROVE \E u \in used : f[u] = r
  <2>1. PICK u \in used : u.id = <<r.id[1], r.id[2], meter>>
    OBVIOUS
  <2>2. f[u].id[1] = r.id[1] /\ f[u].id[2] = r.id[2]
    BY <1>2, <2>1
  <2>3. r.id = <<r.id[1], r.id[2]>> /\ f[u].id = <<f[u].id[1], f[u].id[2]>>
    BY <1>2 DEF BillRows
  <2>4. f[u].id = r.id
    BY <2>2, <2>3
  <2> QED
    BY <1>2, <2>4 DEF BillRows
<1>6. f \in Bijection(used, runs)
  BY <1>3, <1>4, <1>5 DEF Bijection, Injection, Surjection, IsInjective
<1>7. IsFiniteSet(used)
  BY FS_Subset
<1> QED
  BY <1>6, <1>7, FS_Bijection DEF ExistsBijection

\* Where no request is recording, no call is owed for.
LEMMA OwedIsRecording ==
  ASSUME BillRequests, Recording = {}, NEW c \in Clients PROVE ~Owing(c)
<1> SUFFICES ASSUME Owing(c) PROVE FALSE
  OBVIOUS
<1>1. pc[c] = "calling" /\ BillCalls(c)
  BY DEF Owing, BillRequests, BillRequest, InFlight
<1>2. PICK s : s = loc[c].calls
  OBVIOUS
<1>3. \E j, status : OwesAll(c, s, j, status) \/ OwesBoth(c, s, j) \/ OwesLast(c, s, j)
  BY <1>1, <1>2 DEF BillCalls, Owing
<1>4. PICK i \in {1, 2, 3} : OffBillAfter(s, i) /\ s[i].table = "usage_records"
  <2>1. \A j, meter : Metering(c, j, meter).table = "usage_records"
    BY DEF Metering, Inserting
  <2> QED
    BY <1>3, <2>1 DEF OwesAll, OwesBoth, OwesLast
<1>5. i \in DOMAIN s
  <2>1. IsSequence(s) /\ i \in 0 .. Len(s)
    BY <1>4 DEF OffBillAfter
  <2> QED
    BY <2>1, SequenceSpan
<1> QED
  BY <1>1, <1>2, <1>4, <1>5 DEF Recording

-----------------------------------------------------------------------------
(***************************************************************************)
(* Evaluations: the calls that write runs and results.                     *)
(***************************************************************************)
RunTables == {"eval_runs", "eval_results"}

KnownAgent(a) == a = None \/ \E r \in db["agents"] : r.id = a

\* Calls that write no run and no result.
OffRuns(s) == IsSequence(s) /\ \A i \in DOMAIN s : s[i].table \notin RunTables

\* Calls by which a case is answered: the model call's records, and perhaps a result.
Scoring(s) ==
  /\ IsSequence(s)
  /\ \A i \in DOMAIN s :
        /\ s[i].table \in BillTables \cup {"eval_results"}
        /\ s[i].table = "ai_runs" => KnownAgent(s[i].row.agentId)
        /\ s[i].table = "eval_results" =>
              i = Len(s) /\ s[i].call = "insert" /\ IsRecord(s[i].row)

\* The result that is still to be put on record.
PendingIn(s) ==
  IF Len(s) # 0 /\ s[Len(s)].table = "eval_results" THEN {s[Len(s)].row} ELSE {}

LEMMA OffRunsTwo ==
  ASSUME NEW k, NEW l, k.table \notin RunTables, l.table \notin RunTables
  PROVE  OffRuns(<<k>>) /\ OffRuns(<<k, l>>)
<1>1. <<k>> \in Seq({k, l}) /\ <<k, l>> \in Seq({k, l})
  OBVIOUS
<1>2. IsSequence(<<k>>) /\ IsSequence(<<k, l>>)
  BY <1>1, SequenceIs
<1>3. /\ \A i \in DOMAIN <<k>> : <<k>>[i] = k
      /\ \A i \in DOMAIN <<k, l>> : <<k, l>>[i] \in {k, l}
  OBVIOUS
<1> QED
  BY <1>2, <1>3 DEF OffRuns

LEMMA OffRunsAfter ==
  ASSUME NEW k, NEW l, NEW m, l.table \notin RunTables, m.table \notin RunTables
  PROVE  /\ (<<k>> \o <<l, m>>) # <<>> /\ (<<k>> \o <<l, m>>)[1] = k
         /\ OffRuns(Tail(<<k>> \o <<l, m>>))
         /\ \A i \in DOMAIN (<<k>> \o <<l, m>>) : (<<k>> \o <<l, m>>)[i] \in {k, l, m}
<1>1. PICK s : s = <<k>> \o <<l, m>>
  OBVIOUS
<1>2. /\ s \in Seq({k, l, m}) /\ Len(s) = 3 /\ s[1] = k /\ s[2] = l /\ s[3] = m /\ s # <<>>
      /\ \A i \in DOMAIN s : s[i] \in {k, l, m}
  BY <1>1
<1>3. IsSequence(s)
  BY <1>2, SequenceIs
<1>4. PICK t : t = Tail(s)
  OBVIOUS
<1>5. /\ IsSequence(t) /\ Len(t) = Len(s) - 1
      /\ \A i \in 1 .. Len(t) : t[i] = s[i + 1]
  BY <1>2, <1>3, <1>4, TailOf
<1>6. DOMAIN t = 1 .. 2 /\ t[1] = l /\ t[2] = m
  <2>1. Len(t) = 2 /\ DOMAIN t = 1 .. Len(t)
    BY <1>2, <1>5, SequenceSpan
  <2> QED
    BY <1>2, <1>5, <2>1
<1>7. OffRuns(t)
  BY <1>5, <1>6 DEF OffRuns
<1> QED
  BY <1>1, <1>2, <1>4, <1>7

LEMMA OffRunsTail ==
  ASSUME NEW s, OffRuns(s), s # <<>>
  PROVE  Head(s).table \notin RunTables /\ OffRuns(Tail(s))
<1>1. /\ IsSequence(Tail(s)) /\ Head(s) = s[1] /\ Len(s) \in Nat \ {0}
      /\ Len(Tail(s)) = Len(s) - 1 /\ Len(Tail(s)) \in Nat
      /\ \A i \in 1 .. Len(Tail(s)) : Tail(s)[i] = s[i + 1] /\ i + 1 \in 2 .. Len(s)
  BY TailOf DEF OffRuns
<1>2. DOMAIN s = 1 .. Len(s) /\ DOMAIN Tail(s) = 1 .. Len(Tail(s))
  BY <1>1, SequenceSpan DEF OffRuns
<1>3. 1 \in DOMAIN s /\ \A i \in DOMAIN Tail(s) : i + 1 \in DOMAIN s
  BY <1>1, <1>2
<1> QED
  BY <1>1, <1>2, <1>3 DEF OffRuns

LEMMA RecordMakes ==
  ASSUME NEW c, NEW j, NEW agent, NEW status
  PROVE  RecordAiRun(c, j, agent, status)
            \in Seq({Asked(c, j, agent, status), Metering(c, j, "tokens"),
                     Metering(c, j, "agent_runs")})
<1> DEFINE a == Asked(c, j, agent, status)
           t == Metering(c, j, "tokens")
           g == Metering(c, j, "agent_runs")
           r == RecordAiRun(c, j, agent, status)
<1>1. r = <<a>> \o (IF status = "completed" THEN <<t>> ELSE <<>>) \o <<g>>
  BY DEF RecordAiRun, Asked, Metering
<1> HIDE DEF a, t, g, r
<1> DEFINE S == {a, t, g}
<1>2. <<a>> \in Seq(S) /\ <<t>> \in Seq(S) /\ <<g>> \in Seq(S) /\ <<>> \in Seq(S)
  OBVIOUS
<1> HIDE DEF S
<1>3. \A u, v : u \in Seq(S) /\ v \in Seq(S) => u \o v \in Seq(S)
  OBVIOUS
<1>4. r \in Seq(S)
  BY <1>1, <1>2, <1>3
<1> QED
  BY <1>4 DEF S, a, t, g, r

LEMMA RecordScores ==
  ASSUME NEW c, NEW j, NEW agent, NEW status, KnownAgent(agent), NEW row, IsRecord(row)
  PROVE  LET r == RecordAiRun(c, j, agent, status)
             s == r \o <<Inserting("eval_results", row)>>
         IN  /\ Scoring(r) /\ PendingIn(r) = {}
             /\ Scoring(s) /\ PendingIn(s) = {row} /\ s # <<>>
<1> DEFINE r == RecordAiRun(c, j, agent, status)
           k == Inserting("eval_results", row)
           made == {Asked(c, j, agent, status), Metering(c, j, "tokens"),
                    Metering(c, j, "agent_runs")}
           S == made \cup {k}
           s == r \o <<k>>
<1>1. r \in Seq(made)
  BY RecordMakes
<1>2. \A m \in made : /\ m.table \in BillTables
                      /\ m.table = "ai_runs" => m.row.agentId = agent
  BY DEF Asked, Metering, Inserting, AiRunRow, BillTables
<1>3. /\ k.table = "eval_results" /\ k.call = "insert" /\ k.row = row
      /\ "eval_results" \notin BillTables
  BY DEF Inserting, BillTables
<1>4. k \in S /\ made \subseteq S
  OBVIOUS
<1> HIDE DEF r, k, made, S
<1>5. r \in Seq(S) /\ DOMAIN r = 1 .. Len(r) /\ Len(r) \in Nat /\ \A i \in DOMAIN r : r[i] \in made
  BY <1>1, <1>4
<1>6. /\ s \in Seq(S) /\ Len(s) = Len(r) + 1
      /\ s[Len(r) + 1] = k /\ \A i \in 1 .. Len(r) : s[i] = r[i]
  BY <1>4, <1>5, OneMore
<1> HIDE DEF s
<1>7. DOMAIN s = 1 .. Len(s) /\ Len(s) \in Nat /\ Len(s) # 0 /\ Len(<<>>) = 0
  BY <1>5, <1>6
<1>8. IsSequence(r) /\ IsSequence(s)
  BY <1>5, <1>6, SequenceIs
<1>9. Scoring(r)
  BY <1>2, <1>3, <1>5, <1>8 DEF Scoring
<1>10. PendingIn(r) = {}
  <2>1. Len(r) # 0 => Len(r) \in DOMAIN r
    BY <1>5
  <2> QED
    BY <1>2, <1>3, <1>5, <2>1 DEF PendingIn
<1>11. Scoring(s)
  <2>1. ASSUME NEW i \in DOMAIN s
        PROVE  \/ i \in DOMAIN r /\ s[i] \in made
               \/ i = Len(s) /\ s[i] = k
    BY <1>5, <1>6, <1>7, <2>1
  <2> QED
    BY <1>2, <1>3, <1>8, <2>1 DEF Scoring
<1>12. PendingIn(s) = {row} /\ s # <<>>
  BY <1>3, <1>6, <1>7 DEF PendingIn
<1> QED
  BY <1>9, <1>10, <1>11, <1>12 DEF r, s, k

LEMMA ScoringTail ==
  ASSUME NEW s, Scoring(s), s # <<>>
  PROVE  /\ Scoring(Tail(s)) /\ Head(s) = s[1] /\ 1 \in DOMAIN s
         /\ Head(s).table \in BillTables \cup {"eval_results"}
         /\ Head(s).table # "eval_results" => PendingIn(Tail(s)) = PendingIn(s)
         /\ Head(s).table = "eval_results" =>
               Tail(s) = <<>> /\ PendingIn(s) = {Head(s).row} /\ PendingIn(Tail(s)) = {}
<1> DEFINE t == Tail(s)
<1>1. /\ IsSequence(t) /\ Head(s) = s[1] /\ Len(s) \in Nat \ {0}
      /\ Len(t) = Len(s) - 1 /\ Len(t) \in Nat
      /\ \A i \in 1 .. Len(t) : t[i] = s[i + 1] /\ i + 1 \in 2 .. Len(s)
  BY TailOf DEF Scoring
<1>2. DOMAIN s = 1 .. Len(s) /\ DOMAIN t = 1 .. Len(t)
  BY <1>1, SequenceSpan DEF Scoring
<1>3. 1 \in DOMAIN s /\ \A i \in DOMAIN t : i + 1 \in DOMAIN s /\ t[i] = s[i + 1]
  BY <1>1, <1>2
<1>4. Len(t) = 0 => t = <<>>
  BY <1>1, TailOf
<1> HIDE DEF t
<1>5. Scoring(t)
  <2>1. ASSUME NEW i \in DOMAIN t
        PROVE  i + 1 \in DOMAIN s /\ t[i] = s[i + 1] /\ (i + 1 = Len(s) => i = Len(t))
    BY <1>1, <1>2, <1>3
  <2> QED
    BY <1>1, <2>1 DEF Scoring
<1>6. Head(s).table \in BillTables \cup {"eval_results"}
  BY <1>1, <1>3 DEF Scoring
<1>7. Head(s).table # "eval_results" => PendingIn(t) = PendingIn(s)
  <2>1. CASE Len(t) = 0
    <3>1. Len(s) = 1
      BY <1>1, <2>1
    <3> QED
      BY <1>1, <2>1, <3>1 DEF PendingIn
  <2>2. CASE Len(t) # 0
    <3>1. t[Len(t)] = s[Len(s)]
      <4>1. Len(t) \in DOMAIN t /\ Len(t) + 1 = Len(s)
        BY <1>1, <1>2, <2>2
      <4> QED
        BY <1>3, <4>1
    <3> QED
      BY <1>1, <2>2, <3>1 DEF PendingIn
  <2> QED
    BY <2>1, <2>2
<1>8. ASSUME Head(s).table = "eval_results"
      PROVE  t = <<>> /\ PendingIn(s) = {Head(s).row} /\ PendingIn(t) = {}
  <2>1. Len(s) = 1
    BY <1>1, <1>3, <1>8 DEF Scoring
  <2>2. Len(t) = 0
    BY <1>1, <2>1
  <2>3. s[Len(s)] = Head(s) /\ Len(s) # 0
    <3>1. PICK n : n = Len(s)
      OBVIOUS
    <3> QED
      BY <1>1, <2>1, <3>1
  <2> QED
    BY <1>4, <1>8, <2>2, <2>3 DEF PendingIn
<1> QED
  BY <1>1, <1>3, <1>5, <1>6, <1>7, <1>8 DEF t

-----------------------------------------------------------------------------
(***************************************************************************)
(* Evaluations: the inductive invariant.                                   *)
(***************************************************************************)
\* A call that leaves the suites and the cases what they are.
SuiteCall(k) ==
  /\ k.table = "eval_suites" =>
        \/ /\ k.call = "insert" /\ IsRecord(k.row) /\ "agentId" \in DOMAIN k.row
           /\ KnownAgent(k.row.agentId)
        \/ k.call = "update" /\ "agentId" \notin DOMAIN k.row
  /\ k.table = "eval_cases" =>
        \/ k.call = "insert" /\ {"id", "suiteId"} \subseteq DOMAIN k.row /\ k.row.id \in Int
        \/ k.call = "remove"

Unrecorded(n) == (\A r \in db["eval_runs"] : r.id # n) /\ ResultsOf(n) = {}

Pending(c) ==
  IF pc[c] = "calling" /\ loc[c].next \in AnsweringPC THEN PendingIn(loc[c].calls) ELSE {}

\* What is on record of a run and what is about to be is what has been counted.
Tally(c) ==
  LET n == Number(c)
      all == ResultsOf(n) \cup Pending(c)
  IN  /\ Cardinality(all) = loc[c].passed + loc[c].failed
      /\ Cardinality({r \in all : r.result = "pass"}) = loc[c].passed
      /\ \A r \in all : r.runId = n /\ r.id = <<n, r.id[2]>> /\ r.id[2] \notin loc[c].cases
      /\ \A p \in Pending(c), r \in ResultsOf(n) : p.id # r.id

\* A request that knows its cases, and one that has a run on record for them.
InCases(c) ==
  /\ {"cases", "passed", "failed", "agent"} \subseteq DOMAIN loc[c]
  /\ IsFiniteSet(loc[c].cases) /\ loc[c].cases \subseteq Int
  /\ loc[c].passed \in Nat /\ loc[c].failed \in Nat /\ KnownAgent(loc[c].agent)

RunAtHand(c, r) ==
  /\ r.id = Number(c) /\ ~r.done /\ r.status = "completed" /\ r.total \in Nat \ {0}
  /\ r.total = loc[c].passed + loc[c].failed + Cardinality(loc[c].cases)

Answering(c) ==
  InCases(c) /\ OrgKnown(c) /\ Tally(c) /\ \E r \in db["eval_runs"] : RunAtHand(c, r)

Reporting(c) == loc[c].next = "idle" /\ OffRuns(loc[c].calls)

BlockedCalls(c) ==
  LET s == loc[c].calls
  IN  /\ loc[c].next = "idle" /\ Unrecorded(Number(c)) /\ OffRuns(Tail(s))
      /\ s[1] = NewRun(c, "blocked", s[1].row.total, TRUE)

StartCalls(c) ==
  LET s == loc[c].calls
  IN  /\ loc[c].next = "run.answer" /\ Unrecorded(Number(c)) /\ Tail(s) = <<>>
      /\ InCases(c) /\ loc[c].cases # {} /\ loc[c].passed = 0 /\ loc[c].failed = 0
      /\ s[1] = NewRun(c, "completed", Cardinality(loc[c].cases), FALSE)

CaseCalls(c) ==
  /\ loc[c].next \in AnsweringPC /\ Answering(c) /\ Scoring(loc[c].calls)
  /\ loc[c].next = "run.judge" => loc[c].cases # {}

FinishCalls(c) ==
  LET s == loc[c].calls
  IN  /\ loc[c].next = "idle" /\ Answering(c) /\ loc[c].cases = {} /\ OffRuns(Tail(s))
      /\ s[1] = Updating("eval_runs", Number(c),
                   [passed |-> loc[c].passed, failed |-> loc[c].failed, done |-> TRUE])

EvalCalls(c) ==
  /\ \A i \in DOMAIN loc[c].calls : SuiteCall(loc[c].calls[i])
  /\ Reporting(c) \/ BlockedCalls(c) \/ StartCalls(c) \/ CaseCalls(c) \/ FinishCalls(c)

EvalRequest(c) ==
  /\ pc[c] \in {"run.suite", "run.cases"} => "suite" \in DOMAIN loc[c] /\ Unrecorded(Number(c))
  /\ pc[c] = "run.cases" => "agent" \in DOMAIN loc[c] /\ KnownAgent(loc[c].agent)
  /\ pc[c] \in AnsweringPC => Answering(c)
  /\ pc[c] = "run.judge" => loc[c].cases # {}
  /\ pc[c] = "calling" => EvalCalls(c)

EvalRequests == \A c \in Clients : InFlight(c) => EvalRequest(c)

\* A request that has a run to bring to its end.
Working(c) ==
  /\ InFlight(c) /\ loc[c].op = "evaluate"
  /\ pc[c] \in AnsweringPC \/ (pc[c] = "calling" /\ ~Reporting(c))

EvalTables == {"eval_suites", "eval_cases", "eval_runs", "eval_results", "agents"}

EvalRows ==
  /\ EvalTables \subseteq DOMAIN db
  /\ \A s \in db["eval_suites"] : /\ IsRecord(s) /\ "agentId" \in DOMAIN s
                                  /\ KnownAgent(s.agentId)
  /\ \A k \in db["eval_cases"] : {"id", "suiteId"} \subseteq DOMAIN k /\ k.id \in Int
  /\ \A r \in db["eval_runs"] : /\ IsRecord(r) /\ {"id", "status", "total"} \subseteq DOMAIN r
                                /\ r.id \in 1 .. served
  /\ \A r, s \in db["eval_runs"] : r.id = s.id => r = s
  /\ \A r \in db["eval_results"] : /\ IsRecord(r) /\ r.runId \in 1 .. served
                                   /\ r.id = <<r.runId, r.id[2]>>

AddsUp(r) ==
  \/ r.status = "blocked" /\ ResultsOf(r.id) = {}
  \/ /\ r.total > 0
     /\ r.passed + r.failed = r.total
     /\ r.passed = Cardinality({s \in ResultsOf(r.id) : s.result = "pass"})
     /\ r.total = Cardinality(ResultsOf(r.id))

InHand(r) ==
  IF r.done THEN AddsUp(r)
  ELSE "evaluate" \in cuts \/ \E c \in Clients : Working(c) /\ Number(c) = r.id

EvalsInv ==
  /\ area = "evals" <=> "eval_runs" \in DOMAIN db
  /\ area = "evals" => EvalRows /\ EvalRequests /\ \A r \in db["eval_runs"] : InHand(r)

-----------------------------------------------------------------------------
(***************************************************************************)
(* Evaluations: what happens in the area.                                  *)
(***************************************************************************)
EvalsHold == EvalRows /\ EvalRequests /\ \A r \in db["eval_runs"] : InHand(r)

LEMMA EvalFrame ==
  ASSUME [Next]_vars, area = "evals"
  PROVE  \/ UNCHANGED requestVars
         \/ \E c \in Clients : EvalsSubmit(c) \/ EvalsStep(c) \/ StoreCall(c) \/ CutOff(c)
<1>1. area \in AskingAreas
  BY DEF AskingAreas
<1>2. \A c : ~KnowledgeSubmit(c) /\ ~KnowledgeStep(c)
  BY DEF KnowledgeSubmit, KnowledgeStep
<1> QED
  BY <1>1, <1>2, BillFrame

LEMMA EvalReferences ==
  /\ \A ref \in References :
        /\ ref.child = "ai_runs" =>
              \/ ref.field = "organizationId" /\ ref.parent = "organizations"
              \/ ref.field = "agentId" /\ ref.parent = "agents"
              \/ ref.field = "agentRunId"
        /\ ref.child = "eval_results" => ref.field = "runId" /\ ref.parent = "eval_runs"
        /\ ref.child = "eval_cases" => ref.field = "suiteId"
        /\ ref.child = "eval_runs" => ref.field \in {"organizationId", "suiteId"}
        /\ ref.parent # "eval_cases"
  /\ \E ref \in References : /\ ref.child = "eval_runs" /\ ref.field = "organizationId"
                             /\ ref.parent = "organizations"
  /\ UniqueKeys("ai_runs") = {} /\ UniqueKeys("eval_results") = {}
<1> DEFINE Fit(ref) ==
             /\ ref.child = "ai_runs" =>
                   \/ ref.field = "organizationId" /\ ref.parent = "organizations"
                   \/ ref.field = "agentId" /\ ref.parent = "agents"
                   \/ ref.field = "agentRunId"
             /\ ref.child = "eval_results" => ref.field = "runId" /\ ref.parent = "eval_runs"
             /\ ref.child = "eval_cases" => ref.field = "suiteId"
             /\ ref.child = "eval_runs" => ref.field \in {"organizationId", "suiteId"}
             /\ ref.parent # "eval_cases"
           Fits(refs) == \A ref \in refs : Fit(ref)
<1>1. ASSUME NEW S, "eval_results" \notin S, "eval_cases" \notin S PROVE Fits(Tenants(S))
  BY <1>1 DEF Tenants, Refers
<1>2. Fits(IdentityRefs)
  BY <1>1 DEF IdentityRefs, Refers
<1>3. Fits(CommercialRefs)
  BY <1>1 DEF CommercialRefs, Refers
<1>4. Fits(SystemRefs)
  BY <1>1 DEF SystemRefs, Refers
<1>5. Fits(KnowledgeRefs)
  BY <1>1 DEF KnowledgeRefs, Refers
<1>6. Fits(EngineRefs)
  BY <1>1 DEF EngineRefs, Refers
<1>7. Fits(RecordRefs)
  BY <1>1 DEF RecordRefs
<1>8. Fits(AiRefs)
  BY <1>1 DEF AiRefs, Refers
<1>9. Fits(AuditRefs)
  BY DEF AuditRefs, Refers
<1>10. Fits(References)
  BY <1>2, <1>3, <1>4, <1>5, <1>6, <1>7, <1>8, <1>9 DEF References
<1>11. Refers("eval_runs", "organizationId", "organizations", "Cascade") \in References
  BY DEF References, AiRefs, Tenants
<1>12. UniqueKeys("ai_runs") = {} /\ UniqueKeys("eval_results") = {}
  BY DEF UniqueKeys, Unique
<1> QED
  BY <1>10, <1>11, <1>12 DEF Refers

\* Only the run with the number, and its results, change.
RunsAround(n) ==
  /\ db'["agents"] = db["agents"] /\ db'["organizations"] = db["organizations"]
  /\ \A r : r.id # n => (r \in db'["eval_runs"] <=> r \in db["eval_runs"])
  /\ \A r : r.runId # n => (r \in db'["eval_results"] <=> r \in db["eval_results"])

LEMMA RunsAroundOthers ==
  ASSUME NEW n, RunsAround(n), NEW m, m # n
  PROVE  /\ ResultsOf(m)' = ResultsOf(m)
         /\ Unrecorded(m)' <=> Unrecorded(m)
         /\ \A r : r.id = m => (AddsUp(r)' <=> AddsUp(r))
<1>1. \A r : r.runId = m => (r \in db'["eval_results"] <=> r \in db["eval_results"])
  BY DEF RunsAround
<1>2. ResultsOf(m)' = ResultsOf(m)
  BY <1>1 DEF ResultsOf
<1>3. Unrecorded(m)' <=> Unrecorded(m)
  <2>1. \A r : r.id = m => (r \in db'["eval_runs"] <=> r \in db["eval_runs"])
    BY DEF RunsAround
  <2> QED
    BY <1>2, <2>1 DEF Unrecorded
<1>4. ASSUME NEW r, r.id = m PROVE AddsUp(r)' <=> AddsUp(r)
  BY <1>2, <1>4 DEF AddsUp
<1> QED
  BY <1>2, <1>3, <1>4

LEMMA EvalRequestStays ==
  ASSUME NEW d, EvalRequest(d), pc'[d] = pc[d], loc'[d] = loc[d], UNCHANGED postgres,
         NEW n, n # Number(d), RunsAround(n)
  PROVE  /\ EvalRequest(d)' /\ Number(d)' = Number(d)
         /\ Working(d)' <=> Working(d)
<1>1. Number(d)' = Number(d)
  BY DEF Number
<1>2. PICK m : m = Number(d) /\ m # n
  OBVIOUS
<1>3. /\ ResultsOf(m)' = ResultsOf(m)
      /\ Unrecorded(m)' <=> Unrecorded(m)
  BY <1>2, RunsAroundOthers
<1>4. \A a : KnownAgent(a)' <=> KnownAgent(a)
  BY DEF KnownAgent, RunsAround
<1>5. OrgKnown(d)' <=> OrgKnown(d)
  BY DEF OrgKnown, RunsAround
<1>6. \A s : (OffRuns(s)' <=> OffRuns(s)) /\ PendingIn(s)' = PendingIn(s)
  BY DEF OffRuns, IsSequence, PendingIn
<1>7. \A s : Scoring(s)' <=> Scoring(s)
  BY <1>4 DEF Scoring, IsSequence, IsRecord
<1>8. \A k : SuiteCall(k)' <=> SuiteCall(k)
  BY <1>4 DEF SuiteCall, IsRecord
<1>9. Pending(d)' = Pending(d)
  BY <1>6 DEF Pending
<1>10. InCases(d)' <=> InCases(d)
  BY <1>4 DEF InCases
<1>11. Tally(d)' <=> Tally(d)
  BY <1>1, <1>2, <1>3, <1>9 DEF Tally
<1>12. Answering(d)' <=> Answering(d)
  <2>1. \A r : RunAtHand(d, r)' <=> RunAtHand(d, r)
    BY <1>1 DEF RunAtHand
  <2>2. \A r : RunAtHand(d, r) => (r \in db'["eval_runs"] <=> r \in db["eval_runs"])
    BY <1>2 DEF RunAtHand, RunsAround
  <2> QED
    BY <1>5, <1>10, <1>11, <2>1, <2>2 DEF Answering
<1>13. \A status, total, done : NewRun(d, status, total, done)' = NewRun(d, status, total, done)
  BY <1>1 DEF NewRun
<1> HIDE DEF Number
<1>14. Reporting(d)' <=> Reporting(d)
  BY <1>6 DEF Reporting
<1>15. EvalCalls(d) => EvalCalls(d)'
  <2>1. BlockedCalls(d) => BlockedCalls(d)'
    BY <1>1, <1>2, <1>3, <1>6, <1>13 DEF BlockedCalls
  <2>2. StartCalls(d) => StartCalls(d)'
    BY <1>1, <1>2, <1>3, <1>10, <1>13 DEF StartCalls
  <2>3. CaseCalls(d) => CaseCalls(d)'
    BY <1>7, <1>12 DEF CaseCalls
  <2>4. FinishCalls(d) => FinishCalls(d)'
    BY <1>1, <1>6, <1>12 DEF FinishCalls
  <2> HIDE DEF BlockedCalls, StartCalls, CaseCalls, FinishCalls, Reporting, SuiteCall
  <2> QED
    BY <1>8, <1>14, <2>1, <2>2, <2>3, <2>4 DEF EvalCalls
<1>16. EvalRequest(d)'
  BY <1>1, <1>2, <1>3, <1>4, <1>12, <1>15 DEF EvalRequest
<1>17. Working(d)' <=> Working(d)
  BY <1>14 DEF Working, InFlight
<1> QED
  BY <1>1, <1>16, <1>17

LEMMA EvalRequestsStay ==
  ASSUME BillRequests, EvalRequests, NEW c \in Clients, NEW where,
         pc' = [pc EXCEPT ![c] = where], \A d \in Clients \ {c} : loc'[d] = loc[d],
         UNCHANGED postgres, NEW n, RunsAround(n),
         \A d \in Clients \ {c} : InFlight(d) => Number(d) # n,
         where # "idle" => EvalRequest(c)'
  PROVE  /\ EvalRequests'
         /\ \A d \in Clients \ {c} : Working(d) => Working(d)' /\ Number(d)' = Number(d)
<1>1. DOMAIN pc = Clients
  BY DEF BillRequests
<1>2. pc'[c] = where /\ \A d \in Clients \ {c} : pc'[d] = pc[d]
  BY <1>1
<1>3. ASSUME NEW d \in Clients \ {c}, InFlight(d)
      PROVE  /\ EvalRequest(d)' /\ Number(d)' = Number(d)
             /\ Working(d)' <=> Working(d)
  BY <1>2, <1>3, EvalRequestStays DEF EvalRequests
<1>4. \A d \in Clients \ {c} : InFlight(d)' <=> InFlight(d)
  BY <1>2 DEF InFlight
<1>5. InFlight(c)' => EvalRequest(c)'
  BY <1>2 DEF InFlight
<1>6. \A d : Working(d) => InFlight(d)
  BY DEF Working
<1> QED
  BY <1>3, <1>4, <1>5, <1>6 DEF EvalRequests

\* A step that leaves the rows as they are.
LEMMA EvalRowsStay ==
  ASSUME BillRequests, EvalsHold, NEW c \in Clients, NEW where,
         pc' = [pc EXCEPT ![c] = where], \A d \in Clients \ {c} : loc'[d] = loc[d],
         UNCHANGED <<postgres, db>>, served' \in Nat, served <= served', cuts \subseteq cuts',
         where # "idle" => EvalRequest(c)',
         \/ ~Working(c) \/ "evaluate" \in cuts' \/ (Working(c)' /\ Number(c)' = Number(c))
         \/ \A r \in db["eval_runs"] : r.id = Number(c) => r.done
  PROVE  EvalsHold'
<1>1. PICK n : n = 0
  OBVIOUS
<1>2. RunsAround(n)
  BY DEF RunsAround
<1>3. \A d \in Clients \ {c} : InFlight(d) => Number(d) # n
  BY <1>1 DEF BillRequests, BillRequest
<1>4. /\ EvalRequests'
      /\ \A d \in Clients \ {c} : Working(d) => Working(d)' /\ Number(d)' = Number(d)
  BY <1>2, <1>3, EvalRequestsStay DEF EvalsHold
<1>5. EvalRows'
  <2>1. served \in Nat /\ \A m \in 1 .. served : m \in 1 .. served'
    BY DEF BillRequests
  <2>2. \A a : KnownAgent(a)' <=> KnownAgent(a)
    BY DEF KnownAgent
  <2>3. \A r : IsRecord(r)' <=> IsRecord(r)
    BY DEF IsRecord
  <2> HIDE DEF IsRecord, KnownAgent
  <2> QED
    BY <2>1, <2>2, <2>3 DEF EvalsHold, EvalRows
<1>6. ASSUME NEW r \in db["eval_runs"] PROVE InHand(r)'
  <2>1. InHand(r)
    BY DEF EvalsHold
  <2>2. AddsUp(r)' <=> AddsUp(r)
    BY DEF AddsUp, ResultsOf
  <2>3. CASE r.done
    BY <2>1, <2>2, <2>3 DEF InHand
  <2>4. CASE ~r.done /\ "evaluate" \in cuts
    BY <2>4 DEF InHand
  <2>5. ASSUME ~r.done, NEW d \in Clients, Working(d), Number(d) = r.id
        PROVE  InHand(r)'
    BY <1>4, <2>5 DEF InHand
  <2> QED
    BY <2>1, <2>3, <2>4, <2>5 DEF InHand
<1> QED
  BY <1>4, <1>5, <1>6 DEF EvalsHold

-----------------------------------------------------------------------------
LEMMA SameForAgents ==
  ASSUME db'["agents"] = db["agents"]
  PROVE  /\ \A a : KnownAgent(a)' <=> KnownAgent(a)
         /\ \A k : SuiteCall(k)' <=> SuiteCall(k)
         /\ \A s : /\ OffRuns(s)' <=> OffRuns(s)
                   /\ Scoring(s)' <=> Scoring(s)
                   /\ PendingIn(s)' = PendingIn(s)
<1>1. \A a : KnownAgent(a)' <=> KnownAgent(a)
  BY DEF KnownAgent
<1>2. \A s : (OffRuns(s)' <=> OffRuns(s)) /\ PendingIn(s)' = PendingIn(s)
  BY DEF OffRuns, IsSequence, PendingIn
<1>3. \A s : Scoring(s)' <=> Scoring(s)
  BY <1>1 DEF Scoring, IsSequence, IsRecord
<1>4. \A k : SuiteCall(k)' <=> SuiteCall(k)
  BY <1>1 DEF SuiteCall, IsRecord
<1> QED
  BY <1>1, <1>2, <1>3, <1>4

LEMMA EvalGoesOn ==
  ASSUME BillRequests, EvalsHold, NEW c \in Clients, InFlight(c),
         NEW where, NEW locals, Goto(c, where, locals), "n" \notin DOMAIN locals,
         UNCHANGED <<postgres, db, served, cuts>>,
         EvalRequest(c)', ~Working(c) \/ Working(c)'
  PROVE  EvalsHold'
<1>1. DOMAIN pc = Clients /\ DOMAIN loc = Clients /\ served \in Nat /\ BillRequest(c)
  BY DEF BillRequests
<1>2. /\ pc' = [pc EXCEPT ![c] = where] /\ \A d \in Clients \ {c} : loc'[d] = loc[d]
      /\ \A f \in DOMAIN loc[c] : f \notin DOMAIN locals => loc'[c][f] = loc[c][f]
  BY <1>1, RequestGoesOn
<1>3. Number(c)' = Number(c)
  BY <1>1, <1>2 DEF BillRequest, Number
<1>4. served' \in Nat /\ served <= served' /\ cuts \subseteq cuts'
  BY <1>1
<1> QED
  BY <1>2, <1>3, <1>4, EvalRowsStay

LEMMA EvalAnswers ==
  ASSUME BillRequests, EvalsHold, NEW c \in Clients, InFlight(c), Respond(c),
         UNCHANGED <<postgres, db, served>>, cuts \subseteq cuts',
         \/ ~Working(c) \/ "evaluate" \in cuts'
         \/ \A r \in db["eval_runs"] : r.id = Number(c) => r.done
  PROVE  EvalsHold'
<1>1. served \in Nat /\ served' \in Nat /\ served <= served'
  BY DEF BillRequests
<1>2. /\ pc' = [pc EXCEPT ![c] = "idle"]
      /\ \A d \in Clients \ {c} : loc'[d] = loc[d]
  BY DEF Respond, BillRequests
<1>3. PICK where : where = "idle"
  OBVIOUS
<1> QED
  BY <1>1, <1>2, <1>3, EvalRowsStay

\* How a request goes on that has no run: to a point where it has none, or with calls that
\* write none.
EvalPoint(p) == p \notin {"idle", "calling", "run.suite", "run.cases"} \cup AnsweringPC

LEMMA EvalPasses ==
  ASSUME BillRequests, EvalsHold, NEW c \in Clients, InFlight(c), ~Working(c),
         UNCHANGED <<postgres, db, served, cuts>>,
         NEW where, NEW locals, Goto(c, where, locals), "n" \notin DOMAIN locals,
         EvalPoint(where)
  PROVE  EvalsHold'
<1>1. DOMAIN pc = Clients /\ DOMAIN loc = Clients
  BY DEF BillRequests
<1>2. pc'[c] = where
  BY <1>1 DEF Goto
<1>3. EvalRequest(c)'
  BY <1>2 DEF EvalRequest, EvalPoint, AnsweringPC
<1> QED
  BY <1>3, EvalGoesOn

LEMMA EvalReports ==
  ASSUME BillRequests, EvalsHold, NEW c \in Clients, InFlight(c), ~Working(c),
         UNCHANGED <<postgres, db, served, cuts>>,
         NEW calls, Calling(c, calls, "idle"), OffRuns(calls),
         \A i \in DOMAIN calls : SuiteCall(calls[i])
  PROVE  EvalsHold'
<1>1. DOMAIN pc = Clients /\ DOMAIN loc = Clients
  BY DEF BillRequests
<1>2. CASE Respond(c)
  BY <1>2, EvalAnswers
<1>3. CASE ~Respond(c)
  <2>1. PICK locals : locals = [calls |-> calls, next |-> "idle"]
    OBVIOUS
  <2>2. Goto(c, "calling", locals) /\ DOMAIN locals = {"calls", "next"}
        /\ locals["calls"] = calls /\ locals["next"] = "idle"
    BY <1>3, <2>1 DEF Calling
  <2>3. /\ pc' = [pc EXCEPT ![c] = "calling"]
        /\ \A f \in DOMAIN locals : loc'[c][f] = locals[f]
    BY <1>1, <2>2, RequestGoesOn
  <2>4. pc'[c] = "calling" /\ loc'[c].calls = calls /\ loc'[c].next = "idle"
    BY <1>1, <2>2, <2>3
  <2>5. OffRuns(calls)' /\ \A i \in DOMAIN calls : SuiteCall(calls[i])'
    BY SameForAgents
  <2>6. EvalCalls(c)'
    BY <2>4, <2>5 DEF EvalCalls, Reporting
  <2>7. EvalRequest(c)'
    BY <2>4, <2>6 DEF EvalRequest, AnsweringPC
  <2> QED
    BY <2>2, <2>7, EvalGoesOn
<1> QED
  BY <1>2, <1>3

\* A suite request arrives.
LEMMA EvalArrives ==
  ASSUME BillRequests, EvalsHold, NEW c \in Clients, NEW m, NEW where, NEW locals,
         "n" \notin DOMAIN locals, AcceptFrom(m, c, where, locals), UNCHANGED db,
         EvalPoint(where) \/ (where = "run.suite" /\ "suite" \in DOMAIN locals)
  PROVE  EvalsHold'
<1>1. PICK who : who = [org |-> m.organizationId, user |-> m.userId]
  OBVIOUS
<1>2. PICK all, number : all = Over(locals, who) /\ number = [n |-> served + 1]
  OBVIOUS
<1>3. DOMAIN who = {"org", "user"} /\ DOMAIN number = {"n"} /\ number["n"] = served + 1
  BY <1>1, <1>2
<1>4. DOMAIN Over(locals, who) = DOMAIN locals \cup DOMAIN who
  BY ZenonT(30), Overwritten
<1>5. "n" \notin DOMAIN all /\ DOMAIN locals \subseteq DOMAIN all
  BY <1>2, <1>3, <1>4
<1>6. /\ \A f \in DOMAIN number : f \notin DOMAIN all => Over(all, number)[f] = number[f]
      /\ DOMAIN Over(all, number) = DOMAIN all \cup DOMAIN number
  BY ZenonT(30), Overwritten
<1>7. DOMAIN pc = Clients /\ DOMAIN loc = Clients /\ served \in Nat
  BY DEF BillRequests
<1>8. /\ pc' = [pc EXCEPT ![c] = where] /\ pc[c] = "idle"
      /\ loc' = [loc EXCEPT ![c] = Over(all, number)] /\ UNCHANGED <<postgres, cuts>>
      /\ served' = served + 1
  BY <1>1, <1>2 DEF AcceptFrom, Accept
<1>9. pc'[c] = where /\ \A d \in Clients \ {c} : loc'[d] = loc[d]
  BY <1>7, <1>8
<1>10. Number(c)' = served + 1 /\ DOMAIN locals \subseteq DOMAIN loc'[c]
  <2>1. loc'[c] = Over(all, number)
    BY <1>7, <1>8
  <2>2. Over(all, number)["n"] = served + 1
    BY <1>3, <1>5, <1>6
  <2> QED
    BY <1>5, <1>6, <2>1, <2>2 DEF Number
<1>11. Unrecorded(served + 1)
  <2>1. \A k \in 1 .. served : k # served + 1
    BY <1>7
  <2> QED
    BY <2>1 DEF EvalsHold, EvalRows, Unrecorded, ResultsOf
<1>12. Unrecorded(Number(c))'
  BY <1>10, <1>11 DEF Unrecorded, ResultsOf
<1>13. EvalRequest(c)'
  BY <1>9, <1>10, <1>12 DEF EvalRequest, EvalPoint, AnsweringPC
<1>14. ~Working(c)
  BY <1>8 DEF Working, InFlight
<1>15. served' \in Nat /\ served <= served' /\ cuts \subseteq cuts'
  BY <1>7, <1>8
<1> QED
  BY <1>8, <1>9, <1>13, <1>14, <1>15, EvalRowsStay

LEMMA EvalsSubmitHolds ==
  ASSUME BillRequests, EvalsHold, NEW c \in Clients, EvalsSubmit(c)
  PROVE  EvalsHold'
<1>1. UNCHANGED db
  BY SubmitsLeave
<1>2. \A where \in {"suite.agent", "case.add", "case.suite"} : EvalPoint(where)
  BY DEF EvalPoint, AnsweringPC
<1>3. ASSUME NEW where \in {"suite.agent", "case.add", "case.suite", "run.suite"},
             NEW m, NEW locals, "n" \notin DOMAIN locals, AcceptFrom(m, c, where, locals),
             where = "run.suite" => "suite" \in DOMAIN locals
      PROVE  EvalsHold'
  BY <1>1, <1>2, <1>3, EvalArrives
<1>4. CASE CreateSuite(c)
  <2>1. ASSUME NEW m, NEW a,
               AcceptFrom(m, c, "suite.agent", [op |-> "createSuite", agent |-> a])
        PROVE  EvalsHold'
    BY <1>3, <2>1
  <2> QED
    BY <1>4, <2>1 DEF CreateSuite
<1>5. CASE AddCase(c)
  <2>1. ASSUME NEW m, NEW s, AcceptFrom(m, c, "case.add", [op |-> "addCase", suite |-> s])
        PROVE  EvalsHold'
    BY <1>3, <2>1
  <2> QED
    BY <1>5, <2>1 DEF AddCase
<1>6. CASE DeleteCase(c)
  <2>1. ASSUME NEW m, NEW s, NEW k,
               AcceptFrom(m, c, "case.suite", [op |-> "deleteCase", suite |-> s, case |-> k])
        PROVE  EvalsHold'
    BY <1>3, <2>1
  <2> QED
    BY <1>6, <2>1 DEF DeleteCase
<1>7. CASE RunSuite(c)
  <2>1. ASSUME NEW m, NEW s, AcceptFrom(m, c, "run.suite", [op |-> "evaluate", suite |-> s])
        PROVE  EvalsHold'
    BY <1>3, <2>1
  <2> QED
    BY <1>7, <2>1 DEF RunSuite
<1> QED
  BY <1>4, <1>5, <1>6, <1>7 DEF EvalsSubmit

LEMMA EvalCutHolds ==
  ASSUME BillRequests, EvalsHold, NEW c \in Clients, CutOff(c)
  PROVE  EvalsHold'
<1>1. /\ InFlight(c) /\ Respond(c) /\ UNCHANGED <<postgres, db, served>>
      /\ cuts' = cuts \cup {loc[c].op}
  BY DEF CutOff
<1>2. Working(c) => "evaluate" \in cuts'
  BY <1>1 DEF Working
<1> QED
  BY <1>1, <1>2, EvalAnswers

-----------------------------------------------------------------------------
(***************************************************************************)
(* Evaluations: what requests do next.                                     *)
(***************************************************************************)
\* Calls on other collections than the suites' and the runs'.
LEMMA ReportsAreOffRuns ==
  /\ \A k : k.table \notin {"eval_suites", "eval_cases"} => SuiteCall(k)
  /\ \A c, user : Notifying(c, user).table = "notifications"
  /\ \A c, action, about : Auditing(c, action, about).table = "audit_logs"
  /\ {"notifications", "audit_logs"} \cap (RunTables \cup {"eval_suites", "eval_cases"}) = {}
BY DEF SuiteCall, Notifying, Auditing, Inserting, RunTables

LEMMA OneMoreResult ==
  ASSUME NEW S, IsFiniteSet(S), NEW row, row \notin S
  PROVE  /\ Cardinality(S \cup {row}) = Cardinality(S) + 1
         /\ Cardinality({r \in S \cup {row} : r.result = "pass"})
               = Cardinality({r \in S : r.result = "pass"})
                    + (IF row.result = "pass" THEN 1 ELSE 0)
         /\ Cardinality(S) \in Nat /\ Cardinality({r \in S : r.result = "pass"}) \in Nat
<1>1. PICK P : P = {r \in S : r.result = "pass"}
  OBVIOUS
<1>2. IsFiniteSet(P) /\ row \notin P
  BY <1>1, FS_Subset
<1>3. /\ Cardinality(S \cup {row}) = Cardinality(S) + 1
      /\ Cardinality(P \cup {row}) = Cardinality(P) + 1
      /\ Cardinality(S) \in Nat /\ Cardinality(P) \in Nat
  BY <1>2, FS_AddElement, FS_CardinalityType
<1>4. CASE row.result = "pass"
  <2>1. {r \in S \cup {row} : r.result = "pass"} = P \cup {row}
    BY <1>1, <1>4
  <2> QED
    BY <1>1, <1>3, <1>4, <2>1
<1>5. CASE row.result # "pass"
  <2>1. {r \in S \cup {row} : r.result = "pass"} = P
    BY <1>1, <1>5
  <2>2. PICK one : one = (IF row.result = "pass" THEN 1 ELSE 0) /\ one = 0
    BY <1>5
  <2>3. Cardinality(P) = Cardinality(P) + one
    BY <1>3, <2>2
  <2> QED
    BY <1>1, <1>3, <2>1, <2>2, <2>3
<1> QED
  BY <1>4, <1>5

\* The case at hand is one of those that remain.
LEMMA CaseRemains ==
  ASSUME NEW c, InCases(c), loc[c].cases # {}
  PROVE  /\ CaseAt(c) \in loc[c].cases
         /\ IsFiniteSet(loc[c].cases \ {CaseAt(c)}) /\ loc[c].cases \ {CaseAt(c)} \subseteq Int
         /\ Cardinality(loc[c].cases \ {CaseAt(c)}) = Cardinality(loc[c].cases) - 1
         /\ Cardinality(loc[c].cases) \in Nat
<1>1. PICK S : S = loc[c].cases
  OBVIOUS
<1>2. IsFiniteSet(S) /\ S \subseteq Int /\ S # {}
  BY <1>1 DEF InCases
<1>3. \E k \in S : \A l \in S : k <= l
  BY <1>2, LeastOfNumbers DEF HasLeast
<1>4. PICK k : k = CaseAt(c)
  OBVIOUS
<1>5. k \in S
  BY <1>1, <1>3, <1>4 DEF CaseAt
<1>6. /\ IsFiniteSet(S \ {k}) /\ Cardinality(S \ {k}) = Cardinality(S) - 1
      /\ Cardinality(S) \in Nat
  BY <1>2, <1>5, FS_RemoveElement, FS_CardinalityType
<1> QED
  BY <1>1, <1>2, <1>4, <1>5, <1>6

\* A request with a run at hand goes on to calls by which a case is answered.
LEMMA EvalAnswering ==
  ASSUME CallsInv, BillRequests, EvalsHold, NEW c \in Clients, pc[c] \in AnsweringPC,
         UNCHANGED <<postgres, db, served, cuts>>, NEW locals, Goto(c, "calling", locals),
         DOMAIN locals \cap {"op", "n", "org", "agent"} = {},
         {"calls", "next"} \subseteq DOMAIN locals,
         NEW calls, calls = locals["calls"], NEW next \in AnsweringPC, next = locals["next"],
         Scoring(calls), next = "run.judge" => loc'[c].cases # {},
         InCases(c)' /\ Tally(c)' /\ \E r \in db["eval_runs"] : RunAtHand(c, r)'
  PROVE  EvalsHold'
<1>1. /\ DOMAIN pc = Clients /\ DOMAIN loc = Clients /\ served \in Nat /\ InFlight(c)
      /\ BillRequest(c) /\ EvalRequest(c)
  BY DEF BillRequests, EvalsHold, EvalRequests, InFlight, AnsweringPC
<1>2. /\ pc' = [pc EXCEPT ![c] = "calling"]
      /\ \A f \in DOMAIN locals : loc'[c][f] = locals[f]
      /\ \A f \in DOMAIN loc[c] : f \notin DOMAIN locals => loc'[c][f] = loc[c][f]
  BY <1>1, RequestGoesOn
<1>3. /\ pc'[c] = "calling" /\ loc'[c].calls = calls /\ loc'[c].next = next
      /\ loc'[c].op = loc[c].op /\ loc'[c].org = loc[c].org
  BY <1>1, <1>2 DEF BillRequest
<1>4. Answering(c)'
  <2>1. OrgKnown(c)
    BY <1>1 DEF EvalRequest, Answering
  <2>2. OrgKnown(c)'
    BY <1>3, <2>1 DEF OrgKnown
  <2> QED
    BY <2>2 DEF Answering
<1>5. Scoring(calls)' /\ \A i \in DOMAIN calls : SuiteCall(calls[i])'
  <2>1. \A i \in DOMAIN calls : SuiteCall(calls[i])
    BY ReportsAreOffRuns DEF Scoring, BillTables
  <2> QED
    BY <2>1, SameForAgents
<1>6. CaseCalls(c)'
  <2> HIDE DEF Answering, Scoring
  <2> QED
    BY <1>3, <1>4, <1>5 DEF CaseCalls
<1>7. EvalCalls(c)'
  <2> HIDE DEF CaseCalls, SuiteCall
  <2> QED
    BY <1>3, <1>5, <1>6 DEF EvalCalls
<1>8. EvalRequest(c)'
  BY <1>3, <1>7 DEF EvalRequest, AnsweringPC
<1>9. Working(c)'
  <2>1. loc[c].op = "evaluate"
    BY <1>1, AnsweringPlaced
  <2> QED
    BY <1>3, <2>1 DEF Working, Reporting, InFlight, AnsweringPC
<1>10. "n" \notin DOMAIN locals
  OBVIOUS
<1> QED
  BY <1>1, <1>8, <1>9, <1>10, EvalGoesOn

\* What is on record of a request's run, where no result is about to be.
LEMMA TallyOnRecord ==
  ASSUME CallsInv, EvalsHold, NEW c \in Clients, Answering(c), Pending(c) = {}
  PROVE  LET S == ResultsOf(Number(c))
         IN  /\ IsFiniteSet(S) /\ Cardinality(S) = loc[c].passed + loc[c].failed
             /\ Cardinality({r \in S : r.result = "pass"}) = loc[c].passed
             /\ \A r \in S : /\ r.runId = Number(c) /\ r.id = <<Number(c), r.id[2]>>
                             /\ r.id[2] \notin loc[c].cases
<1>1. PICK S : S = ResultsOf(Number(c))
  OBVIOUS
<1>2. ResultsOf(Number(c)) \cup Pending(c) = S
  BY <1>1
<1>3. Tally(c)
  BY DEF Answering
<1>4. IsFiniteSet(S)
  <2>1. "eval_results" \in DOMAIN db
    BY DEF EvalsHold, EvalRows, EvalTables
  <2>2. IsFiniteSet(db["eval_results"])
    BY <2>1 DEF CallsInv
  <2> QED
    BY <1>1, <2>2, FS_Subset DEF ResultsOf
<1> QED
  BY <1>1, <1>2, <1>3, <1>4 DEF Tally

LEMMA ScoreHolds ==
  ASSUME CallsInv, BillRequests, EvalsHold, NEW c \in Clients, pc[c] \in AnsweringPC,
         loc[c].cases # {}, UNCHANGED <<postgres, db, served, cuts>>,
         NEW agent, KnownAgent(agent), NEW status, NEW result,
         Score(c, RecordAiRun(c, loc[c].j, agent, status), result)
  PROVE  EvalsHold'
<1>1. PICK row : row = [id |-> <<Number(c), CaseAt(c)>>, runId |-> Number(c), result |-> result]
  OBVIOUS
<1>2. PICK n, k : /\ n = Number(c) /\ k = CaseAt(c) /\ row.id = <<n, k>> /\ row.id[2] = k
                  /\ row.runId = n /\ row.result = result /\ IsRecord(row)
  BY <1>1 DEF IsRecord
<1>3. PICK calls :
         calls = RecordAiRun(c, loc[c].j, agent, status) \o <<Inserting("eval_results", row)>>
  OBVIOUS
<1>4. Scoring(calls) /\ PendingIn(calls) = {row}
  BY <1>2, <1>3, RecordScores
<1>5. PICK cases, passed, failed, j :
         /\ cases = loc[c].cases \ {k}
         /\ passed = loc[c].passed + (IF result = "pass" THEN 1 ELSE 0)
         /\ failed = loc[c].failed + (IF result = "pass" THEN 0 ELSE 1)
         /\ Goto(c, "calling", [cases |-> cases, passed |-> passed, failed |-> failed,
                                calls |-> calls, next |-> "run.answer", j |-> j])
  BY <1>1, <1>2, <1>3 DEF Score
<1>6. PICK locals : locals = [cases |-> cases, passed |-> passed, failed |-> failed,
                              calls |-> calls, next |-> "run.answer", j |-> j]
  OBVIOUS
<1>7. /\ DOMAIN locals = {"cases", "passed", "failed", "calls", "next", "j"}
      /\ locals["calls"] = calls /\ locals["next"] = "run.answer"
      /\ locals["cases"] = cases /\ locals["passed"] = passed /\ locals["failed"] = failed
      /\ Goto(c, "calling", locals)
  BY <1>5, <1>6
<1>8. /\ DOMAIN pc = Clients /\ DOMAIN loc = Clients /\ BillRequest(c) /\ Answering(c)
      /\ pc[c] # "calling"
  BY DEF BillRequests, EvalsHold, EvalRequests, EvalRequest, InFlight, AnsweringPC
<1>9. /\ pc' = [pc EXCEPT ![c] = "calling"]
      /\ DOMAIN loc'[c] = DOMAIN locals \cup DOMAIN loc[c]
      /\ \A f \in DOMAIN locals : loc'[c][f] = locals[f]
      /\ \A f \in DOMAIN loc[c] : f \notin DOMAIN locals => loc'[c][f] = loc[c][f]
  BY <1>7, <1>8, RequestGoesOn
<1>10. InCases(c) /\ "agent" \in DOMAIN loc[c] /\ {"op", "n", "org"} \subseteq DOMAIN loc[c]
  BY <1>8 DEF Answering, InCases, BillRequest
<1>11. /\ {"cases", "passed", "failed", "agent"} \subseteq DOMAIN loc'[c]
       /\ loc'[c].cases = cases /\ loc'[c].passed = passed /\ loc'[c].failed = failed
       /\ loc'[c].agent = loc[c].agent /\ loc'[c].calls = calls /\ loc'[c].next = "run.answer"
       /\ Number(c)' = n /\ pc'[c] = "calling"
  <2>1. {"agent", "n"} \cap DOMAIN locals = {}
    BY <1>7
  <2>2. Number(c)' = n
    BY <1>2, <1>9, <1>10, <2>1 DEF Number
  <2> QED
    BY <1>7, <1>8, <1>9, <1>10, <2>1, <2>2
<1>12. /\ k \in loc[c].cases /\ IsFiniteSet(cases) /\ cases \subseteq Int
       /\ Cardinality(cases) = Cardinality(loc[c].cases) - 1 /\ Cardinality(loc[c].cases) \in Nat
       /\ k \notin cases /\ cases \subseteq loc[c].cases
  BY <1>2, <1>5, <1>10, CaseRemains
<1>13. /\ loc[c].passed \in Nat /\ loc[c].failed \in Nat /\ passed \in Nat /\ failed \in Nat
       /\ passed + failed = loc[c].passed + loc[c].failed + 1
  <2>1. loc[c].passed \in Nat /\ loc[c].failed \in Nat
    BY <1>10 DEF InCases
  <2>2. CASE result = "pass"
    BY <1>5, <2>1, <2>2
  <2>3. CASE result # "pass"
    <3>1. passed = loc[c].passed + 0 /\ failed = loc[c].failed + 1
      BY <1>5, <2>3
    <3> QED
      BY <2>1, <3>1
  <2> QED
    BY <2>2, <2>3
<1>14. InCases(c)'
  <2>1. KnownAgent(loc[c].agent)
    BY <1>10 DEF InCases
  <2>2. KnownAgent(loc[c].agent)'
    BY <1>11, <2>1 DEF KnownAgent
  <2> HIDE DEF KnownAgent
  <2> QED
    BY <1>11, <1>12, <1>13, <2>2 DEF InCases
<1>15. PICK S : S = ResultsOf(n)
  OBVIOUS
<1>16. /\ IsFiniteSet(S) /\ Cardinality(S) = loc[c].passed + loc[c].failed
       /\ Cardinality({r \in S : r.result = "pass"}) = loc[c].passed
       /\ \A r \in S : r.runId = n /\ r.id = <<n, r.id[2]>> /\ r.id[2] \notin loc[c].cases
  <2>1. Pending(c) = {}
    BY <1>8 DEF Pending
  <2> QED
    BY <1>2, <1>8, <1>15, <2>1, TallyOnRecord
<1>17. ResultsOf(n)' = S /\ Pending(c)' = {row}
  <2>1. ResultsOf(n)' = S
    BY <1>15 DEF ResultsOf
  <2>2. PendingIn(calls)' = {row}
    BY <1>4 DEF PendingIn
  <2> QED
    BY <1>11, <2>1, <2>2 DEF Pending, AnsweringPC
<1>18. row \notin S /\ \A r \in S : row.id # r.id
  <2>1. \A r \in S : r.id[2] # k
    BY <1>12, <1>16
  <2> QED
    BY <1>2, <2>1
<1>19. /\ Cardinality(S \cup {row}) = passed + failed
       /\ Cardinality({r \in S \cup {row} : r.result = "pass"}) = passed
  <2>1. PICK one : one = (IF row.result = "pass" THEN 1 ELSE 0)
    OBVIOUS
  <2>2. passed = loc[c].passed + one
    BY <1>2, <1>5, <2>1
  <2>3. /\ Cardinality(S \cup {row}) = Cardinality(S) + 1
        /\ Cardinality({r \in S \cup {row} : r.result = "pass"})
              = Cardinality({r \in S : r.result = "pass"}) + one
    BY <1>16, <1>18, <2>1, OneMoreResult
  <2> QED
    BY <1>13, <1>16, <2>2, <2>3
<1>20. \A r \in S \cup {row} : r.runId = n /\ r.id = <<n, r.id[2]>> /\ r.id[2] \notin cases
  BY <1>2, <1>12, <1>16
<1>21. Tally(c)'
  <2>1. (ResultsOf(Number(c)) \cup Pending(c))' = S \cup {row}
    BY <1>11, <1>17 DEF ResultsOf
  <2> HIDE DEF Number, ResultsOf, Pending
  <2> QED
    BY <1>11, <1>17, <1>18, <1>19, <1>20, <2>1 DEF Tally
<1>22. \E r \in db["eval_runs"] : RunAtHand(c, r)'
  <2>1. PICK r \in db["eval_runs"] : RunAtHand(c, r)
    BY <1>8 DEF Answering
  <2>2. r.total = passed + failed + Cardinality(cases)
    BY <1>12, <1>13, <2>1 DEF RunAtHand
  <2>3. RunAtHand(c, r)'
    BY <1>2, <1>11, <2>1, <2>2 DEF RunAtHand
  <2> QED
    BY <2>3
<1>23. PICK next \in AnsweringPC : next = "run.answer"
  BY DEF AnsweringPC
<1> QED
  BY <1>4, <1>7, <1>14, <1>21, <1>22, <1>23, EvalAnswering

\* An answer that the judge is to grade.
LEMMA AnswerForJudge ==
  ASSUME CallsInv, BillRequests, EvalsHold, NEW c \in Clients, pc[c] \in AnsweringPC,
         loc[c].cases # {}, UNCHANGED <<postgres, db, served, cuts>>,
         NEW agent, KnownAgent(agent), NEW status, NEW j,
         Goto(c, "calling", [calls |-> RecordAiRun(c, loc[c].j, agent, status),
                             next |-> "run.judge", j |-> j])
  PROVE  EvalsHold'
<1>1. PICK calls : calls = RecordAiRun(c, loc[c].j, agent, status)
  OBVIOUS
<1>2. Scoring(calls) /\ PendingIn(calls) = {}
  <2>1. PICK row : row = [id |-> 0]
    OBVIOUS
  <2>2. IsRecord(row)
    BY <2>1 DEF IsRecord
  <2> QED
    BY <1>1, <2>2, RecordScores
<1>3. PICK locals : locals = [calls |-> calls, next |-> "run.judge", j |-> j]
  OBVIOUS
<1>4. /\ DOMAIN locals = {"calls", "next", "j"}
      /\ locals["calls"] = calls /\ locals["next"] = "run.judge"
      /\ Goto(c, "calling", locals)
  BY <1>1, <1>3
<1>5. /\ DOMAIN pc = Clients /\ DOMAIN loc = Clients /\ BillRequest(c) /\ Answering(c)
      /\ pc[c] # "calling"
  BY DEF BillRequests, EvalsHold, EvalRequests, EvalRequest, InFlight, AnsweringPC
<1>6. /\ pc' = [pc EXCEPT ![c] = "calling"]
      /\ DOMAIN loc'[c] = DOMAIN locals \cup DOMAIN loc[c]
      /\ \A f \in DOMAIN locals : loc'[c][f] = locals[f]
      /\ \A f \in DOMAIN loc[c] : f \notin DOMAIN locals => loc'[c][f] = loc[c][f]
  BY <1>4, <1>5, RequestGoesOn
<1>7. InCases(c) /\ "n" \in DOMAIN loc[c]
  BY <1>5 DEF Answering, BillRequest
<1>8. /\ {"cases", "passed", "failed", "agent"} \subseteq DOMAIN loc'[c]
      /\ loc'[c].cases = loc[c].cases /\ loc'[c].passed = loc[c].passed
      /\ loc'[c].failed = loc[c].failed /\ loc'[c].agent = loc[c].agent
      /\ loc'[c].calls = calls /\ loc'[c].next = "run.judge"
      /\ Number(c)' = Number(c) /\ pc'[c] = "calling"
  <2>1. {"cases", "passed", "failed", "agent", "n"} \cap DOMAIN locals = {}
    BY <1>4
  <2>2. {"cases", "passed", "failed", "agent", "n"} \subseteq DOMAIN loc[c]
    BY <1>7 DEF InCases
  <2>3. Number(c)' = Number(c)
    BY <1>6, <2>1, <2>2 DEF Number
  <2> QED
    BY <1>4, <1>5, <1>6, <2>1, <2>2, <2>3
<1>9. InCases(c)'
  <2>1. KnownAgent(loc[c].agent)
    BY <1>7 DEF InCases
  <2>2. KnownAgent(loc[c].agent)'
    BY <1>8, <2>1 DEF KnownAgent
  <2> HIDE DEF KnownAgent
  <2> QED
    BY <1>7, <1>8, <2>2 DEF InCases
<1>10. ResultsOf(Number(c))' = ResultsOf(Number(c)) /\ Pending(c)' = Pending(c)
  <2>1. ResultsOf(Number(c))' = ResultsOf(Number(c))
    BY <1>8 DEF ResultsOf
  <2>2. PendingIn(calls)' = {}
    BY <1>2 DEF PendingIn
  <2> QED
    BY <1>5, <1>8, <2>1, <2>2 DEF Pending
<1>11. Tally(c)'
  <2>1. Tally(c)
    BY <1>5 DEF Answering
  <2> HIDE DEF Number, ResultsOf, Pending
  <2> QED
    BY <1>8, <1>10, <2>1 DEF Tally
<1>12. \E r \in db["eval_runs"] : RunAtHand(c, r)'
  <2>1. PICK r \in db["eval_runs"] : RunAtHand(c, r)
    BY <1>5 DEF Answering
  <2>2. RunAtHand(c, r)'
    BY <1>8, <2>1 DEF RunAtHand
  <2> QED
    BY <2>2
<1>13. PICK next \in AnsweringPC : next = "run.judge"
  BY DEF AnsweringPC
<1> QED
  BY <1>2, <1>4, <1>8, <1>9, <1>11, <1>12, <1>13, EvalAnswering

\* A run that has no answers to give.
LEMMA BlockedRunHolds ==
  ASSUME BillRequests, EvalsHold, NEW c \in Clients, pc[c] = "run.cases",
         UNCHANGED <<postgres, db, served, cuts>>, NEW total,
         Calling(c, <<NewRun(c, "blocked", total, TRUE)>> \o SuiteRunReported(c), "idle")
  PROVE  EvalsHold'
<1>1. /\ DOMAIN pc = Clients /\ DOMAIN loc = Clients /\ InFlight(c)
      /\ BillRequest(c) /\ EvalRequest(c)
  BY DEF BillRequests, EvalsHold, EvalRequests, InFlight
<1>2. PICK k, l, m : /\ k = NewRun(c, "blocked", total, TRUE)
                     /\ l = Notifying(c, None)
                     /\ m = Auditing(c, "eval.run_executed", Number(c))
  OBVIOUS
<1>3. PICK s : s = <<k>> \o <<l, m>>
  OBVIOUS
<1>4. Calling(c, s, "idle")
  BY <1>2, <1>3 DEF SuiteRunReported
<1>5. /\ l.table = "notifications" /\ m.table = "audit_logs" /\ k.table = "eval_runs"
      /\ k.row.total = total
  BY <1>2, ReportsAreOffRuns DEF NewRun, Inserting
<1>6. /\ s # <<>> /\ s[1] = k /\ OffRuns(Tail(s)) /\ \A i \in DOMAIN s : s[i] \in {k, l, m}
  BY <1>3, <1>5, OffRunsAfter DEF RunTables
<1>7. \A i \in DOMAIN s : SuiteCall(s[i])
  BY <1>5, <1>6, ReportsAreOffRuns
<1>8. PICK locals : locals = [calls |-> s, next |-> "idle"]
  OBVIOUS
<1>9. /\ DOMAIN locals = {"calls", "next"} /\ locals["calls"] = s /\ locals["next"] = "idle"
      /\ Goto(c, "calling", locals)
  BY <1>4, <1>6, <1>8 DEF Calling
<1>10. /\ pc' = [pc EXCEPT ![c] = "calling"]
       /\ \A f \in DOMAIN locals : loc'[c][f] = locals[f]
       /\ \A f \in DOMAIN loc[c] : f \notin DOMAIN locals => loc'[c][f] = loc[c][f]
  BY <1>1, <1>9, RequestGoesOn
<1>11. {"n", "org", "suite"} \subseteq DOMAIN loc[c] /\ Unrecorded(Number(c))
  BY <1>1 DEF BillRequest, EvalRequest
<1>12. /\ pc'[c] = "calling" /\ loc'[c].calls = s /\ loc'[c].next = "idle"
       /\ loc'[c].n = loc[c].n /\ loc'[c].org = loc[c].org /\ loc'[c].suite = loc[c].suite
  BY <1>1, <1>9, <1>10, <1>11
<1>13. Number(c)' = Number(c) /\ NewRun(c, "blocked", total, TRUE)' = k
  BY <1>2, <1>12 DEF Number, NewRun
<1>14. Unrecorded(Number(c))'
  BY <1>11, <1>13 DEF Unrecorded, ResultsOf
<1>15. BlockedCalls(c)'
  <2>1. OffRuns(Tail(s))'
    BY <1>6, SameForAgents
  <2>2. s[1] = NewRun(c, "blocked", total, TRUE)' /\ s[1].row.total = total
    BY <1>5, <1>6, <1>13
  <2> HIDE DEF Unrecorded, OffRuns, NewRun, Number
  <2> QED
    BY <1>12, <1>14, <2>1, <2>2 DEF BlockedCalls
<1>16. EvalCalls(c)'
  <2>1. \A i \in DOMAIN s : SuiteCall(s[i])'
    BY <1>7, SameForAgents
  <2> HIDE DEF BlockedCalls, SuiteCall
  <2> QED
    BY <1>12, <1>15, <2>1 DEF EvalCalls
<1>17. EvalRequest(c)' /\ ~Working(c) /\ "n" \notin DOMAIN locals
  BY <1>9, <1>12, <1>16 DEF EvalRequest, AnsweringPC, Working
<1> QED
  BY <1>1, <1>9, <1>17, EvalGoesOn

\* A run starts.
LEMMA StartedRunHolds ==
  ASSUME BillRequests, EvalsHold, NEW c \in Clients, pc[c] = "run.cases",
         UNCHANGED <<postgres, db, served, cuts>>,
         NEW cases, IsFiniteSet(cases), cases \subseteq Int, cases # {},
         Goto(c, "calling",
              [cases |-> cases, passed |-> 0, failed |-> 0, j |-> 0,
               calls |-> <<NewRun(c, "completed", Cardinality(cases), FALSE)>>,
               next |-> "run.answer"])
  PROVE  EvalsHold'
<1>1. /\ DOMAIN pc = Clients /\ DOMAIN loc = Clients /\ InFlight(c)
      /\ BillRequest(c) /\ EvalRequest(c)
  BY DEF BillRequests, EvalsHold, EvalRequests, InFlight
<1>2. PICK total, k, s : /\ total = Cardinality(cases) /\ k = NewRun(c, "completed", total, FALSE)
                         /\ s = <<k>>
  OBVIOUS
<1>3. PICK locals : locals = [cases |-> cases, passed |-> 0, failed |-> 0, j |-> 0,
                              calls |-> s, next |-> "run.answer"]
  OBVIOUS
<1>4. /\ DOMAIN locals = {"cases", "passed", "failed", "j", "calls", "next"}
      /\ locals["calls"] = s /\ locals["next"] = "run.answer" /\ locals["cases"] = cases
      /\ locals["passed"] = 0 /\ locals["failed"] = 0
      /\ Goto(c, "calling", locals)
  BY <1>2, <1>3
<1>5. /\ pc' = [pc EXCEPT ![c] = "calling"]
      /\ DOMAIN loc'[c] = DOMAIN locals \cup DOMAIN loc[c]
      /\ \A f \in DOMAIN locals : loc'[c][f] = locals[f]
      /\ \A f \in DOMAIN loc[c] : f \notin DOMAIN locals => loc'[c][f] = loc[c][f]
  BY <1>1, <1>4, RequestGoesOn
<1>6. /\ {"n", "org", "suite", "agent"} \subseteq DOMAIN loc[c] /\ Unrecorded(Number(c))
      /\ KnownAgent(loc[c].agent)
  BY <1>1 DEF BillRequest, EvalRequest
<1>7. /\ pc'[c] = "calling" /\ loc'[c].calls = s /\ loc'[c].next = "run.answer"
      /\ loc'[c].cases = cases /\ loc'[c].passed = 0 /\ loc'[c].failed = 0
      /\ {"cases", "passed", "failed", "agent"} \subseteq DOMAIN loc'[c]
      /\ loc'[c].n = loc[c].n /\ loc'[c].org = loc[c].org /\ loc'[c].suite = loc[c].suite
      /\ loc'[c].agent = loc[c].agent
  <2>1. {"n", "org", "suite", "agent"} \cap DOMAIN locals = {}
    BY <1>4
  <2> QED
    BY <1>1, <1>4, <1>5, <1>6, <2>1
<1>8. Number(c)' = Number(c) /\ NewRun(c, "completed", total, FALSE)' = k
  BY <1>2, <1>7 DEF Number, NewRun
<1>9. Unrecorded(Number(c))'
  BY <1>6, <1>8 DEF Unrecorded, ResultsOf
<1>10. InCases(c)'
  <2>1. KnownAgent(loc[c].agent)'
    BY <1>6, <1>7 DEF KnownAgent
  <2> HIDE DEF KnownAgent
  <2> QED
    BY <1>7, <2>1 DEF InCases
<1>11. s[1] = k /\ Tail(s) = <<>> /\ DOMAIN s = {1} /\ k.table = "eval_runs"
  BY <1>2 DEF NewRun, Inserting
<1>12. StartCalls(c)'
  <2>1. s[1] = NewRun(c, "completed", total, FALSE)' /\ total = Cardinality(cases)
    BY <1>2, <1>8, <1>11
  <2> HIDE DEF Unrecorded, InCases, NewRun, Number
  <2> QED
    BY <1>7, <1>9, <1>10, <1>11, <2>1 DEF StartCalls
<1>13. EvalCalls(c)'
  <2>1. SuiteCall(k)
    BY <1>11, ReportsAreOffRuns
  <2>2. \A i \in DOMAIN s : SuiteCall(s[i])'
    BY <1>11, <2>1, SameForAgents
  <2> HIDE DEF StartCalls, SuiteCall
  <2> QED
    BY <1>7, <1>12, <2>2 DEF EvalCalls
<1>14. EvalRequest(c)' /\ ~Working(c) /\ "n" \notin DOMAIN locals
  BY <1>4, <1>7, <1>13 DEF EvalRequest, AnsweringPC, Working
<1> QED
  BY <1>1, <1>4, <1>14, EvalGoesOn

\* A run whose cases are all counted is written off.
LEMMA FinishedRunHolds ==
  ASSUME CallsInv, BillRequests, EvalsHold, NEW c \in Clients, pc[c] \in AnsweringPC,
         loc[c].cases = {}, UNCHANGED <<postgres, db, served, cuts>>,
         Calling(c, <<Updating("eval_runs", Number(c),
                         [passed |-> loc[c].passed, failed |-> loc[c].failed,
                          done |-> TRUE])>> \o SuiteRunReported(c), "idle")
  PROVE  EvalsHold'
<1>1. /\ DOMAIN pc = Clients /\ DOMAIN loc = Clients /\ InFlight(c)
      /\ BillRequest(c) /\ Answering(c) /\ pc[c] # "calling" /\ loc[c].op = "evaluate"
  <2>1. InFlight(c) /\ pc[c] # "calling"
    BY DEF InFlight, AnsweringPC
  <2>2. BillRequest(c) /\ EvalRequest(c)
    BY <2>1 DEF BillRequests, EvalsHold, EvalRequests
  <2>3. loc[c].op = "evaluate"
    BY <2>2, AnsweringPlaced
  <2> QED
    BY <2>1, <2>2, <2>3 DEF BillRequests, EvalRequest
<1>2. PICK patch : patch = [passed |-> loc[c].passed, failed |-> loc[c].failed, done |-> TRUE]
  OBVIOUS
<1>3. PICK k, l, m : /\ k = Updating("eval_runs", Number(c), patch)
                     /\ l = Notifying(c, None)
                     /\ m = Auditing(c, "eval.run_executed", Number(c))
  OBVIOUS
<1>4. PICK s : s = <<k>> \o <<l, m>>
  OBVIOUS
<1>5. Calling(c, s, "idle")
  BY <1>2, <1>3, <1>4 DEF SuiteRunReported
<1>6. l.table = "notifications" /\ m.table = "audit_logs" /\ k.table = "eval_runs"
  BY <1>3, ReportsAreOffRuns DEF Updating
<1>7. /\ s # <<>> /\ s[1] = k /\ OffRuns(Tail(s)) /\ \A i \in DOMAIN s : s[i] \in {k, l, m}
  BY <1>4, <1>6, OffRunsAfter DEF RunTables
<1>8. 1 \in DOMAIN s
  <2>1. s \in Seq({k, l, m}) /\ Len(s) = 3
    BY <1>4
  <2> QED
    BY <2>1
<1>9. \A i \in DOMAIN s : SuiteCall(s[i])
  BY <1>6, <1>7, ReportsAreOffRuns
<1>10. PICK locals : locals = [calls |-> s, next |-> "idle"]
  OBVIOUS
<1>11. /\ DOMAIN locals = {"calls", "next"} /\ locals["calls"] = s /\ locals["next"] = "idle"
       /\ Goto(c, "calling", locals)
  BY <1>5, <1>7, <1>10 DEF Calling
<1>12. /\ pc' = [pc EXCEPT ![c] = "calling"]
       /\ DOMAIN loc'[c] = DOMAIN locals \cup DOMAIN loc[c]
       /\ \A f \in DOMAIN locals : loc'[c][f] = locals[f]
       /\ \A f \in DOMAIN loc[c] : f \notin DOMAIN locals => loc'[c][f] = loc[c][f]
  BY <1>1, <1>11, RequestGoesOn
<1>13. InCases(c) /\ {"op", "n", "org"} \subseteq DOMAIN loc[c]
  BY <1>1 DEF Answering, BillRequest
<1>14. /\ pc'[c] = "calling" /\ loc'[c].calls = s /\ loc'[c].next = "idle"
       /\ {"cases", "passed", "failed", "agent"} \subseteq DOMAIN loc'[c]
       /\ loc'[c].cases = loc[c].cases /\ loc'[c].passed = loc[c].passed
       /\ loc'[c].failed = loc[c].failed /\ loc'[c].agent = loc[c].agent
       /\ loc'[c].op = loc[c].op /\ loc'[c].n = loc[c].n /\ loc'[c].org = loc[c].org
  <2>1. {"cases", "passed", "failed", "agent", "op", "n", "org"} \cap DOMAIN locals = {}
    BY <1>11
  <2>2. {"cases", "passed", "failed", "agent", "op", "n", "org"} \subseteq DOMAIN loc[c]
    BY <1>13 DEF InCases
  <2> QED
    BY <1>1, <1>11, <1>12, <2>1, <2>2
<1>15. Number(c)' = Number(c)
  BY <1>14 DEF Number
<1>16. InCases(c)'
  <2>1. KnownAgent(loc[c].agent)
    BY <1>13 DEF InCases
  <2>2. KnownAgent(loc[c].agent)'
    BY <1>14, <2>1 DEF KnownAgent
  <2> HIDE DEF KnownAgent
  <2> QED
    BY <1>13, <1>14, <2>2 DEF InCases
<1>17. ResultsOf(Number(c))' = ResultsOf(Number(c)) /\ Pending(c)' = Pending(c)
  <2>1. ResultsOf(Number(c))' = ResultsOf(Number(c))
    BY <1>15 DEF ResultsOf
  <2>2. "idle" \notin AnsweringPC
    BY DEF AnsweringPC
  <2> QED
    BY <1>1, <1>14, <2>1, <2>2 DEF Pending
<1>18. Answering(c)'
  <2>1. Tally(c)'
    <3>1. Tally(c)
      BY <1>1 DEF Answering
    <3> HIDE DEF Number, ResultsOf, Pending
    <3> QED
      BY <1>14, <1>15, <1>17, <3>1 DEF Tally
  <2>2. OrgKnown(c)'
    BY <1>1, <1>14 DEF Answering, OrgKnown
  <2>3. PICK r \in db["eval_runs"] : RunAtHand(c, r)
    BY <1>1 DEF Answering
  <2>4. RunAtHand(c, r)'
    BY <1>14, <1>15, <2>3 DEF RunAtHand
  <2> QED
    BY <1>16, <2>1, <2>2, <2>3, <2>4 DEF Answering
<1>19. FinishCalls(c)'
  <2>1. OffRuns(Tail(s))'
    BY <1>7, SameForAgents
  <2>2. s[1] = Updating("eval_runs", Number(c),
                  [passed |-> loc[c].passed, failed |-> loc[c].failed, done |-> TRUE])
    BY <1>2, <1>3, <1>7
  <2>3. s[1] = (Updating("eval_runs", Number(c),
                  [passed |-> loc[c].passed, failed |-> loc[c].failed, done |-> TRUE]))'
    BY <1>14, <1>15, <2>2 DEF Updating
  <2> HIDE DEF Answering, OffRuns, Updating, Number
  <2> QED
    BY <1>14, <1>18, <2>1, <2>3 DEF FinishCalls
<1>20. EvalCalls(c)'
  <2>1. \A i \in DOMAIN s : SuiteCall(s[i])'
    BY <1>9, SameForAgents
  <2> HIDE DEF FinishCalls, SuiteCall
  <2> QED
    BY <1>14, <1>19, <2>1 DEF EvalCalls
<1>21. EvalRequest(c)' /\ "n" \notin DOMAIN locals
  BY <1>11, <1>14, <1>20 DEF EvalRequest, AnsweringPC
<1>22. Working(c)'
  <2>1. ~OffRuns(s)
    BY <1>6, <1>7, <1>8 DEF OffRuns, RunTables
  <2>2. ~OffRuns(s)'
    BY <2>1, SameForAgents
  <2> HIDE DEF OffRuns
  <2> QED
    BY <1>1, <1>14, <2>2 DEF Working, Reporting, InFlight, AnsweringPC
<1> QED
  BY <1>1, <1>11, <1>21, <1>22, EvalGoesOn

LEMMA EvalsStepHolds ==
  ASSUME CallsInv, BillRequests, EvalsHold, NEW c \in Clients, EvalsStep(c)
  PROVE  EvalsHold'
<1>1. /\ pc[c] \in {"suite.agent", "case.add", "case.suite", "case.remove"} \cup
                    {"run.suite", "run.cases", "run.answer", "run.judge"}
      /\ UNCHANGED <<postgres, db, served, cuts>>
  BY DEF EvalsStep, CheckSuiteAgent, InsertCase, ReadCaseSuite, RemoveCase, ReadSuite,
     StartRun, Answer, Judge, FinishRun, At, history
<1>2. InFlight(c) /\ pc[c] # "calling" /\ BillRequest(c) /\ EvalRequest(c)
  BY <1>1 DEF InFlight, BillRequests, EvalsHold, EvalRequests
<1>3. pc[c] \notin AnsweringPC => ~Working(c)
  BY <1>2 DEF Working
<1>4. pc[c] \notin AnsweringPC /\ Respond(c) => EvalsHold'
  BY <1>1, <1>2, <1>3, EvalAnswers
<1>5. ASSUME pc[c] \notin AnsweringPC, NEW k, NEW l, k.table \notin RunTables,
             l.table \notin RunTables, SuiteCall(k), SuiteCall(l),
             Calling(c, <<k, l>>, "idle") \/ Calling(c, <<k>>, "idle")
      PROVE  EvalsHold'
  <2>1. OffRuns(<<k>>) /\ OffRuns(<<k, l>>)
    BY <1>5, OffRunsTwo
  <2>2. /\ \A i \in DOMAIN <<k>> : SuiteCall(<<k>>[i])
        /\ \A i \in DOMAIN <<k, l>> : SuiteCall(<<k, l>>[i])
    <3>1. /\ \A i \in DOMAIN <<k>> : <<k>>[i] = k
          /\ \A i \in DOMAIN <<k, l>> : <<k, l>>[i] \in {k, l}
      OBVIOUS
    <3> QED
      BY <1>5, <3>1
  <2> QED
    BY <1>1, <1>2, <1>3, <1>5, <2>1, <2>2, EvalReports
<1>6. EvalTables \subseteq DOMAIN db
  BY DEF EvalsHold, EvalRows
<1>7. CASE CheckSuiteAgent(c)
  <2>1. pc[c] \notin AnsweringPC
    BY <1>7 DEF CheckSuiteAgent, At, AnsweringPC
  <2>2. CASE Respond(c)
    BY <1>4, <2>1, <2>2
  <2>3. CASE ~Respond(c)
    <3>1. PICK k, l : k = NewSuite(c) /\ l = Auditing(c, "eval.suite_created", Number(c))
      OBVIOUS
    <3>2. /\ Calling(c, <<k, l>>, "idle")
          /\ loc[c].agent = None \/ \E a \in ById("agents", loc[c].agent) : TRUE
      BY <1>7, <2>3, <3>1 DEF CheckSuiteAgent
    <3>3. KnownAgent(loc[c].agent)
      BY <1>6, <3>2 DEF KnownAgent, ById, Table, EvalTables
    <3>4. /\ k.table = "eval_suites" /\ k.call = "insert" /\ IsRecord(k.row)
          /\ "agentId" \in DOMAIN k.row /\ k.row.agentId = loc[c].agent
      BY <3>1 DEF NewSuite, Inserting, IsRecord
    <3>5. SuiteCall(k)
      BY <3>3, <3>4 DEF SuiteCall
    <3>6. l.table = "audit_logs" /\ SuiteCall(l)
      BY <3>1, ReportsAreOffRuns
    <3> QED
      BY <1>5, <2>1, <3>2, <3>4, <3>5, <3>6 DEF RunTables
  <2> QED
    BY <2>2, <2>3
<1>8. CASE InsertCase(c)
  <2>1. pc[c] \notin AnsweringPC
    BY <1>8 DEF InsertCase, At, AnsweringPC
  <2>2. PICK j, k : /\ j = Inserting("eval_cases", [id |-> Number(c), suiteId |-> loc[c].suite])
                    /\ k = Updating("eval_suites", loc[c].suite, [touchedBy |-> Number(c)])
    OBVIOUS
  <2>3. Respond(c) \/ Calling(c, <<j, k>>, "idle")
    BY <1>8, <2>2 DEF InsertCase
  <2>4. Number(c) \in Int
    BY <1>2 DEF BillRequest, BillRequests
  <2>5. /\ j.table = "eval_cases" /\ j.call = "insert" /\ DOMAIN j.row = {"id", "suiteId"}
        /\ j.row.id = Number(c)
        /\ k.table = "eval_suites" /\ k.call = "update" /\ DOMAIN k.row = {"touchedBy"}
    BY <2>2 DEF Inserting, Updating
  <2>6. SuiteCall(j) /\ SuiteCall(k)
    BY <2>4, <2>5 DEF SuiteCall
  <2> QED
    BY <1>4, <1>5, <2>1, <2>3, <2>5, <2>6 DEF RunTables
<1>9. CASE ReadCaseSuite(c)
  <2>1. pc[c] \notin AnsweringPC /\ EvalPoint("case.remove")
    BY <1>9 DEF ReadCaseSuite, At, AnsweringPC, EvalPoint
  <2>2. Respond(c) \/ (Goto(c, "case.remove", Nothing) /\ DOMAIN Nothing = {"calls"})
    BY <1>9 DEF ReadCaseSuite, Nothing
  <2> QED
    BY <1>1, <1>2, <1>3, <1>4, <2>1, <2>2, EvalPasses
<1>10. CASE RemoveCase(c)
  <2>1. pc[c] \notin AnsweringPC
    BY <1>10 DEF RemoveCase, At, AnsweringPC
  <2>2. PICK k : k = Removing("eval_cases", loc[c].case)
    OBVIOUS
  <2>3. Calling(c, <<k>>, "idle") \/ Calling(c, <<>>, "idle")
    BY <1>10, <2>2 DEF RemoveCase
  <2>4. k.table = "eval_cases" /\ k.call = "remove"
    BY <2>2 DEF Removing
  <2>5. SuiteCall(k)
    BY <2>4 DEF SuiteCall
  <2>6. Calling(c, <<>>, "idle") => Respond(c)
    BY DEF Calling
  <2> QED
    BY <1>4, <1>5, <2>1, <2>3, <2>4, <2>5, <2>6 DEF RunTables
<1>11. CASE ReadSuite(c)
  <2>1. pc[c] = "run.suite" /\ pc[c] \notin AnsweringPC
    BY <1>11 DEF ReadSuite, At, AnsweringPC
  <2>2. ASSUME NEW s \in SuiteOf(c),
               Goto(c, "run.cases", [scorer |-> s.scorer, agent |-> s.agentId])
        PROVE  EvalsHold'
    <3>1. PICK locals : locals = [scorer |-> s.scorer, agent |-> s.agentId]
      OBVIOUS
    <3>2. /\ DOMAIN locals = {"scorer", "agent"} /\ locals["agent"] = s.agentId
          /\ Goto(c, "run.cases", locals)
      BY <2>2, <3>1
    <3>3. DOMAIN pc = Clients /\ DOMAIN loc = Clients
      BY DEF BillRequests
    <3>4. /\ pc' = [pc EXCEPT ![c] = "run.cases"]
          /\ DOMAIN loc'[c] = DOMAIN locals \cup DOMAIN loc[c]
          /\ \A f \in DOMAIN locals : loc'[c][f] = locals[f]
          /\ \A f \in DOMAIN loc[c] : f \notin DOMAIN locals => loc'[c][f] = loc[c][f]
      BY <3>2, <3>3, RequestGoesOn
    <3>5. "suite" \in DOMAIN loc[c] /\ Unrecorded(Number(c)) /\ "n" \in DOMAIN loc[c]
      BY <1>2, <2>1 DEF EvalRequest, BillRequest
    <3>6. /\ pc'[c] = "run.cases" /\ {"suite", "agent"} \subseteq DOMAIN loc'[c]
          /\ loc'[c].agent = s.agentId /\ loc'[c].n = loc[c].n
      BY <3>2, <3>3, <3>4, <3>5
    <3>7. Number(c)' = Number(c)
      BY <3>6 DEF Number
    <3>8. Unrecorded(Number(c))'
      BY <1>1, <3>5, <3>7 DEF Unrecorded, ResultsOf
    <3>9. s \in db["eval_suites"]
      BY <1>6 DEF SuiteOf, ById, Table, EvalTables
    <3>10. KnownAgent(s.agentId)
      BY <3>9 DEF EvalsHold, EvalRows
    <3>11. (KnownAgent(loc[c].agent))'
      BY <1>1, <3>6, <3>10 DEF KnownAgent
    <3>12. EvalRequest(c)'
      <4> HIDE DEF KnownAgent, Unrecorded, Number
      <4> QED
        BY <3>6, <3>8, <3>11 DEF EvalRequest, AnsweringPC
    <3> QED
      BY <1>1, <1>2, <1>3, <2>1, <3>2, <3>12, EvalGoesOn
  <2> QED
    BY <1>4, <1>11, <2>1, <2>2 DEF ReadSuite
<1>12. CASE StartRun(c)
  <2>1. pc[c] = "run.cases"
    BY <1>12 DEF StartRun, At
  <2>2. PICK S : S = CasesOf(loc[c].suite)
    OBVIOUS
  <2>3. PICK cases : cases = {k.id : k \in S}
    OBVIOUS
  <2>4. \/ Calling(c, <<NewRun(c, "blocked", Cardinality(cases), TRUE)>> \o SuiteRunReported(c),
                   "idle")
        \/ /\ cases # {}
           /\ Goto(c, "calling",
                   [cases |-> cases, passed |-> 0, failed |-> 0, j |-> 0,
                    calls |-> <<NewRun(c, "completed", Cardinality(cases), FALSE)>>,
                    next |-> "run.answer"])
    BY <1>12, <2>2, <2>3 DEF StartRun
  <2>5. IsFiniteSet(cases)
    <3>1. S \subseteq db["eval_cases"] /\ IsFiniteSet(db["eval_cases"])
      BY <1>6, <2>2 DEF CasesOf, CallsInv, EvalTables
    <3>2. IsFiniteSet(S)
      BY <3>1, FS_Subset
    <3>3. PICK f : f = [k \in S |-> k.id]
      OBVIOUS
    <3>4. IsFiniteSet({f[k] : k \in S})
      BY <3>2, <3>3, FiniteImage
    <3>5. {f[k] : k \in S} = cases
      BY <2>3, <3>3
    <3> QED
      BY <3>4, <3>5
  <2>6. cases \subseteq Int
    BY <2>2, <2>3 DEF CasesOf, EvalsHold, EvalRows
  <2> QED
    BY <1>1, <2>1, <2>4, <2>5, <2>6, BlockedRunHolds, StartedRunHolds
<1>13. ASSUME pc[c] \in AnsweringPC
       PROVE  InCases(c) /\ KnownAgent(loc[c].agent) /\ KnownAgent(None)
  BY <1>2, <1>13 DEF EvalRequest, Answering, InCases, KnownAgent
<1>14. CASE Answer(c)
  <2>1. pc[c] \in AnsweringPC /\ loc[c].cases # {}
    BY <1>14 DEF Answer, At, AnsweringPC
  <2>2. ASSUME NEW status, NEW result,
               Score(c, RecordAiRun(c, loc[c].j, loc[c].agent, status), result)
        PROVE  EvalsHold'
    BY <1>1, <1>13, <2>1, <2>2, ScoreHolds
  <2>3. ASSUME NEW status, NEW j,
               Goto(c, "calling", [calls |-> RecordAiRun(c, loc[c].j, loc[c].agent, status),
                                   next |-> "run.judge", j |-> j])
        PROVE  EvalsHold'
    BY <1>1, <1>13, <2>1, <2>3, AnswerForJudge
  <2> HIDE DEF EvalsHold
  <2> QED
    BY <1>14, <2>2, <2>3 DEF Answer
<1>15. CASE Judge(c)
  <2>1. pc[c] \in AnsweringPC /\ loc[c].cases # {}
    BY <1>2, <1>15 DEF Judge, At, AnsweringPC, EvalRequest
  <2>2. ASSUME NEW status, NEW result,
               Score(c, RecordAiRun(c, loc[c].j, None, status), result)
        PROVE  EvalsHold'
    BY <1>1, <1>13, <2>1, <2>2, ScoreHolds
  <2> HIDE DEF EvalsHold
  <2> QED
    BY <1>15, <2>2 DEF Judge
<1>16. CASE FinishRun(c)
  <2>1. pc[c] \in AnsweringPC /\ loc[c].cases = {}
    BY <1>16 DEF FinishRun, At, AnsweringPC
  <2> QED
    BY <1>1, <1>16, <2>1, FinishedRunHolds DEF FinishRun
<1> QED
  BY <1>7, <1>8, <1>9, <1>10, <1>11, <1>12, <1>14, <1>15, <1>16 DEF EvalsStep

-----------------------------------------------------------------------------
(***************************************************************************)
(* Evaluations: store calls.                                               *)
(***************************************************************************)
SuiteRows ==
  /\ \A s \in db["eval_suites"] : /\ IsRecord(s) /\ "agentId" \in DOMAIN s
                                  /\ KnownAgent(s.agentId)
  /\ \A k \in db["eval_cases"] : {"id", "suiteId"} \subseteq DOMAIN k /\ k.id \in Int

\* The rows of one run.
RunRows(n) ==
  /\ \A r \in db["eval_runs"] : r.id = n =>
        IsRecord(r) /\ {"id", "status", "total"} \subseteq DOMAIN r
  /\ \A r, s \in db["eval_runs"] : r.id = n /\ s.id = n => r = s
  /\ \A r \in db["eval_results"] : r.runId = n => IsRecord(r) /\ r.id = <<n, r.id[2]>>

\* What a call leaves alone.
LEMMA EvalCallLeaves ==
  ASSUME CallsInv, BillRows, EvalRows, area = "evals", NEW c \in Clients, StoreCall(c),
         NEW k, k = Head(loc[c].calls)
  PROVE  /\ DOMAIN db' = DOMAIN db
         /\ db'["agents"] = db["agents"] /\ db'["organizations"] = db["organizations"]
         /\ \A t \in {"eval_runs", "eval_results", "eval_suites"} :
               t # k.table => db'[t] = db[t]
<1>1. DOMAIN db' = DOMAIN db
  BY CallKeepsTables
<1>2. EvalTables \cup {"organizations"} \subseteq DOMAIN db
  BY DEF EvalRows, BillRows
<1>3. {"agents", "organizations"} \subseteq DOMAIN db \ WritesOf(area)
  BY <1>2 DEF WritesOf, EvalTables
<1>4. db'["agents"] = db["agents"] /\ db'["organizations"] = db["organizations"]
  BY <1>3, CallsStayApart
<1>5. ASSUME NEW t \in {"eval_runs", "eval_results", "eval_suites"}, t # k.table
      PROVE  db'[t] = db[t]
  <2>1. /\ Own(k)
        /\ \/ db' = db
           \/ db' = InsertRow(k.table, k.row)
           \/ db' = UpdateRow(k.table, k.id, k.row)
           \/ db' = UpsertRow(k.table, k.row)
           \/ /\ k.call \notin {"insert", "update", "change", "upsert"}
              /\ db' = RemoveRow(k.table, k.id)
    BY CallAtHand
  <2>2. ASSUME k.call \notin {"insert", "update", "change", "upsert"}
        PROVE  RemoveRow(k.table, k.id)[t] = db[t]
    <3>1. RemovesOf(area) = {"eval_cases"}
      BY DEF RemovesOf
    <3>2. t \in DOMAIN db \ RemovesOf(area) /\ \A r \in db[t] : IsRecord(r)
      BY <1>2, <3>1 DEF EvalRows, EvalTables
    <3>3. \A ref \in References : ref.child = t => ref.parent \notin RemovesOf(area)
      BY <3>1, EvalReferences
    <3>4. k.table \in RemovesOf(area)
      BY <2>1, <2>2 DEF Own
    <3> QED
      BY <3>2, <3>3, <3>4, RemovalLeaves
  <2>3. \A rows : [db EXCEPT ![k.table] = rows][t] = db[t]
    BY <1>5
  <2>4. /\ InsertRow(k.table, k.row)[t] = db[t]
        /\ UpdateRow(k.table, k.id, k.row)[t] = db[t]
        /\ UpsertRow(k.table, k.row)[t] = db[t]
    BY <2>3 DEF InsertRow, UpdateRow, UpsertRow
  <2> QED
    BY <2>1, <2>2, <2>4
<1> QED
  BY <1>1, <1>4, <1>5

LEMMA OverAny ==
  ASSUME NEW patch, NEW record
  PROVE  /\ DOMAIN Over(patch, record) = DOMAIN patch \cup DOMAIN record
         /\ \A f \in DOMAIN patch : Over(patch, record)[f] = patch[f]
         /\ \A f \in DOMAIN record : f \notin DOMAIN patch => Over(patch, record)[f] = record[f]
         /\ IsRecord(Over(patch, record))
<1>1. IsRecord(Over(patch, record))
  BY DEF Over, IsRecord
<1> QED
  BY <1>1, Overwritten

\* Suites and cases stay what they are.
LEMMA SuiteRowsStay ==
  ASSUME CallsInv, BillRows, EvalRows, area = "evals", NEW c \in Clients, StoreCall(c),
         NEW k, k = Head(loc[c].calls), SuiteCall(k)
  PROVE  SuiteRows'
<1>1. /\ DOMAIN db' = DOMAIN db /\ db'["agents"] = db["agents"]
      /\ "eval_suites" # k.table => db'["eval_suites"] = db["eval_suites"]
      /\ {"eval_suites", "eval_cases"} \subseteq DOMAIN db
  BY EvalCallLeaves DEF EvalRows, EvalTables
<1>2. /\ Own(k)
      /\ \/ db' = db
         \/ k.call = "insert" /\ db' = InsertRow(k.table, k.row)
         \/ k.call \in {"update", "change"} /\ db' = UpdateRow(k.table, k.id, k.row)
         \/ k.call = "upsert" /\ db' = UpsertRow(k.table, k.row)
         \/ /\ k.call \notin {"insert", "update", "change", "upsert"}
            /\ db' = RemoveRow(k.table, k.id)
  BY CallAtHand
<1>3. \A a : KnownAgent(a)' <=> KnownAgent(a)
  BY <1>1 DEF KnownAgent
<1>4. ASSUME NEW s \in db'["eval_suites"]
      PROVE  IsRecord(s) /\ "agentId" \in DOMAIN s /\ KnownAgent(s.agentId)
  <2>1. CASE s \in db["eval_suites"]
    BY <2>1 DEF EvalRows
  <2>2. CASE s \notin db["eval_suites"]
    <3>1. k.table = "eval_suites" /\ k.call \in {"insert", "update"}
      BY <1>1, <2>2 DEF SuiteCall
    <3>2. CASE k.call = "insert"
      <4>1. db' = InsertRow("eval_suites", k.row)
        BY <1>2, <2>2, <3>1, <3>2
      <4>2. s = k.row
        BY <1>1, <2>2, <4>1 DEF InsertRow
      <4> QED
        BY <3>1, <3>2, <4>2 DEF SuiteCall
    <3>3. CASE k.call = "update"
      <4>1. db' = UpdateRow("eval_suites", k.id, k.row)
        BY <1>2, <2>2, <3>1, <3>3
      <4>2. PICK r \in db["eval_suites"] : s = Over(k.row, r)
        BY <1>1, <2>2, <4>1 DEF UpdateRow
      <4>3. IsRecord(r) /\ "agentId" \in DOMAIN r /\ KnownAgent(r.agentId)
        BY DEF EvalRows
      <4>4. "agentId" \notin DOMAIN k.row
        BY <3>1, <3>3 DEF SuiteCall
      <4>5. PICK p : p = k.row
        OBVIOUS
      <4>6. /\ DOMAIN Over(p, r) = DOMAIN p \cup DOMAIN r
            /\ \A f \in DOMAIN p : Over(p, r)[f] = p[f]
            /\ \A f \in DOMAIN r : f \notin DOMAIN p => Over(p, r)[f] = r[f]
            /\ IsRecord(Over(p, r))
        BY ZenonT(30), OverAny
      <4> QED
        BY <4>2, <4>3, <4>4, <4>5, <4>6
    <3> QED
      BY <3>1, <3>2, <3>3
  <2> QED
    BY <2>1, <2>2
<1>5. ASSUME NEW r \in db'["eval_cases"]
      PROVE  {"id", "suiteId"} \subseteq DOMAIN r /\ r.id \in Int
  <2>1. CASE r \in db["eval_cases"]
    BY <2>1 DEF EvalRows
  <2>2. CASE r \notin db["eval_cases"]
    <3>1. CASE k.table # "eval_cases" /\ k.call # "remove"
      <4>1. \A rows : [db EXCEPT ![k.table] = rows]["eval_cases"] = db["eval_cases"]
        BY <3>1
      <4> QED
        BY <1>2, <2>2, <3>1, <4>1 DEF InsertRow, UpdateRow, UpsertRow, Own
    <3>2. CASE k.table = "eval_cases" /\ k.call # "remove"
      <4>1. k.call = "insert" /\ {"id", "suiteId"} \subseteq DOMAIN k.row /\ k.row.id \in Int
        BY <3>2 DEF SuiteCall
      <4>2. db' = InsertRow("eval_cases", k.row)
        BY <1>2, <2>2, <3>2, <4>1
      <4>3. r = k.row
        BY <1>1, <2>2, <4>2 DEF InsertRow
      <4> QED
        BY <4>1, <4>3
    <3>3. CASE k.call = "remove"
      <4>1. db' = RemoveRow(k.table, k.id)
        BY <1>2, <2>2, <3>3
      <4>2. PICK gone : gone = Removed(k.table, k.id)
        OBVIOUS
      <4>3. PICK q \in db["eval_cases"] : r = Cleared(q, "eval_cases", gone)
        BY <1>1, <2>2, <4>1, <4>2 DEF RemoveRow
      <4>4. {"id", "suiteId"} \subseteq DOMAIN q /\ q.id \in Int
        BY DEF EvalRows
      <4>5. \A ref \in References : RefersTo("eval_cases", q, ref) => ref.field # "id"
        BY EvalReferences DEF RefersTo
      <4>6. DOMAIN Cleared(q, "eval_cases", gone) = DOMAIN q
        BY DEF Cleared
      <4>7. Cleared(q, "eval_cases", gone)["id"] = q["id"]
        BY <4>4, <4>5 DEF Cleared
      <4> QED
        BY <4>3, <4>4, <4>6, <4>7
    <3> QED
      BY <3>1, <3>2, <3>3
  <2> QED
    BY <2>1, <2>2
<1>6. \A r : IsRecord(r)' <=> IsRecord(r)
  BY DEF IsRecord
<1> HIDE DEF IsRecord, KnownAgent
<1> QED
  BY <1>3, <1>4, <1>5, <1>6 DEF SuiteRows

\* The record of a call is not refused, where its organization and its agent are known.
LEMMA AskIsTaken ==
  ASSUME BillRows, NEW c, OrgKnown(c), Call(c) \in Nat, Fresh(c, Call(c)),
         NEW agent, KnownAgent(agent), agent # None => "agents" \in DOMAIN db, NEW status
  PROVE  ~Refused(Asked(c, Call(c), agent, status)) /\ ~FindsNothing(Asked(c, Call(c), agent, status))
<1>1. PICK i, n : i = Call(c) /\ n = Number(c)
  OBVIOUS
<1>2. PICK k, row : /\ k = Asked(c, i, agent, status) /\ row = AiRunRow(c, i, agent, status)
  OBVIOUS
<1>3. /\ k.call = "insert" /\ k.table = "ai_runs" /\ k.row = row
      /\ row.id = <<n, i>> /\ row.organizationId = loc[c].org /\ row.agentId = agent
      /\ DOMAIN row = {"id", "organizationId", "agentId", "status"}
  BY <1>1, <1>2 DEF Asked, Inserting, AiRunRow
<1>4. ~Duplicates("ai_runs", row)
  <2>1. ASSUME NEW r \in db["ai_runs"], r.id = <<n, i>> PROVE FALSE
    <3>1. r.id[1] = n /\ r.id[2] = i
      BY <2>1
    <3> QED
      BY <1>1, <3>1 DEF Fresh
  <2> QED
    BY <1>3, <2>1, EvalReferences DEF Duplicates
<1>5. postgres => ~RefersToNothing("ai_runs", row)
  <2>1. ASSUME postgres, NEW ref \in References, RefersTo("ai_runs", row, ref),
               row[ref.field] # None
        PROVE  ById(ref.parent, row[ref.field]) # {}
    <3>1. /\ ref.child = "ai_runs" /\ ref.field \in DOMAIN row
      BY <2>1 DEF RefersTo
    <3>2. \/ ref.field = "organizationId" /\ ref.parent = "organizations"
          \/ ref.field = "agentId" /\ ref.parent = "agents"
      BY <1>3, <3>1, EvalReferences
    <3>3. CASE ref.field = "organizationId" /\ ref.parent = "organizations"
      <4>1. PICK o \in db["organizations"] : o.id = loc[c].org
        BY <1>3, <2>1, <3>3 DEF OrgKnown
      <4>2. "organizations" \in DOMAIN db
        BY DEF BillRows
      <4> QED
        BY <1>3, <3>3, <4>1, <4>2 DEF ById, Table
    <3>4. CASE ref.field = "agentId" /\ ref.parent = "agents"
      <4>1. PICK a \in db["agents"] : a.id = agent
        BY <1>3, <2>1, <3>4 DEF KnownAgent
      <4>2. "agents" \in DOMAIN db
        BY <1>3, <2>1, <3>4
      <4> QED
        BY <1>3, <3>4, <4>1, <4>2 DEF ById, Table
    <3> QED
      BY <3>2, <3>3, <3>4
  <2> QED
    BY <2>1 DEF RefersToNothing
<1>6. ~Refused(k) /\ ~FindsNothing(k)
  BY <1>3, <1>4, <1>5 DEF Refused, FindsNothing
<1> QED
  BY <1>1, <1>2, <1>6

\* Nor is the record of a result, where its run is known and no result has its id.
LEMMA ResultIsTaken ==
  ASSUME EvalRows, NEW k, k.call = "insert", k.table = "eval_results",
         \A r \in db["eval_results"] : r.id # k.row.id,
         NEW run \in db["eval_runs"], run.id = k.row.runId
  PROVE  ~Refused(k) /\ ~FindsNothing(k)
<1>1. ~Duplicates("eval_results", k.row)
  BY EvalReferences DEF Duplicates
<1>2. ~RefersToNothing("eval_results", k.row)
  <2>1. ASSUME NEW ref \in References, RefersTo("eval_results", k.row, ref)
        PROVE  ById(ref.parent, k.row[ref.field]) # {}
    <3>1. ref.field = "runId" /\ ref.parent = "eval_runs"
      BY <2>1, EvalReferences DEF RefersTo
    <3>2. "eval_runs" \in DOMAIN db
      BY DEF EvalRows, EvalTables
    <3> QED
      BY <3>1, <3>2 DEF ById, Table
  <2> QED
    BY <2>1 DEF RefersToNothing
<1> QED
  BY <1>1, <1>2 DEF Refused, FindsNothing

\* What is recorded of an answer is never refused.
LEMMA RecordIsTaken ==
  ASSUME BillRequests, BillRows, EvalRows, NEW c \in Clients, pc[c] = "calling", OrgKnown(c),
         Scoring(loc[c].calls), loc[c].calls # <<>>,
         NEW k, k = Head(loc[c].calls), k.table \in BillTables
  PROVE  ~Refused(k) /\ ~FindsNothing(k)
<1>1. BillCalls(c)
  BY DEF BillRequests, BillRequest, InFlight
<1>2. PICK s, i : s = loc[c].calls /\ i = Call(c) /\ k = Head(s) /\ s # <<>> /\ Scoring(s)
  OBVIOUS
<1>3. ~NoBill(s)
  BY <1>2, OwedNext
<1>4. ASSUME OwesBoth(c, s, i), ~HasMeter(c, "tokens") PROVE ~Refused(k) /\ ~FindsNothing(k)
  <2>1. PICK meter : meter = "tokens"
    OBVIOUS
  <2>2. k = Metering(c, i, meter)
    BY <1>2, <1>4, <2>1, OwedNext
  <2> HIDE DEF Call
  <2> QED
    BY <1>2, <1>4, <2>1, <2>2, MeterIsTaken
<1>5. ASSUME OwesLast(c, s, i), ~HasMeter(c, "agent_runs") PROVE ~Refused(k) /\ ~FindsNothing(k)
  <2>1. PICK meter : meter = "agent_runs"
    OBVIOUS
  <2>2. Head(s) = Metering(c, i, "agent_runs")
    BY <1>5, OwedNext
  <2>3. k = Metering(c, i, meter)
    BY <1>2, <2>1, <2>2
  <2> HIDE DEF Call
  <2> QED
    BY <1>2, <1>5, <2>1, <2>3, MeterIsTaken
<1>6. ASSUME i \in Nat, NEW status, OwesAll(c, s, i, status), Fresh(c, i)
      PROVE  ~Refused(k) /\ ~FindsNothing(k)
  <2>1. PICK agent : agent = s[1].row.agentId
    OBVIOUS
  <2>2. k = Asked(c, i, agent, status)
    BY <1>2, <1>6, <2>1, OwedAll
  <2>3. k.table = "ai_runs" /\ Head(s) = s[1] /\ 1 \in DOMAIN s
    BY <1>2, <2>2, ScoringTail DEF Asked, Inserting
  <2>4. KnownAgent(agent) /\ "agents" \in DOMAIN db
    BY <1>2, <2>1, <2>3 DEF Scoring, EvalRows, EvalTables
  <2> HIDE DEF Call, KnownAgent
  <2> QED
    BY <1>2, <1>6, <2>2, <2>4, AskIsTaken
<1> QED
  BY <1>1, <1>2, <1>3, <1>4, <1>5, <1>6 DEF BillCalls

\* A call is made, and nothing but its request's run changes.
LEMMA EvalCallHolds ==
  ASSUME BillRequests, EvalsHold, NEW c \in Clients, InFlight(c),
         NEW where, pc' = [pc EXCEPT ![c] = where], \A d \in Clients \ {c} : loc'[d] = loc[d],
         UNCHANGED <<postgres, served, cuts>>, DOMAIN db' = DOMAIN db,
         NEW n, n = Number(c), RunsAround(n),
         where # "idle" => EvalRequest(c)',
         SuiteRows', RunRows(n)',
         \A r \in db'["eval_runs"] : r.id = n => InHand(r)'
  PROVE  EvalsHold'
<1>1. BillRequest(c) /\ n \in 1 .. served
  BY DEF BillRequests, BillRequest
<1>2. \A d \in Clients \ {c} : InFlight(d) => Number(d) # n
  BY DEF BillRequests
<1>3. /\ EvalRequests'
      /\ \A d \in Clients \ {c} : Working(d) => Working(d)' /\ Number(d)' = Number(d)
  BY <1>2, EvalRequestsStay DEF EvalsHold
<1>4. /\ \A r : r.id # n => (r \in db'["eval_runs"] <=> r \in db["eval_runs"])
      /\ \A r : r.runId # n => (r \in db'["eval_results"] <=> r \in db["eval_results"])
  BY DEF RunsAround
<1>5. EvalRows'
  <2>1. \A r : IsRecord(r)' <=> IsRecord(r)
    BY DEF IsRecord
  <2>2. EvalTables \subseteq DOMAIN db'
    BY DEF EvalsHold, EvalRows
  <2>3. ASSUME NEW r \in db'["eval_runs"]
        PROVE  IsRecord(r) /\ {"id", "status", "total"} \subseteq DOMAIN r /\ r.id \in 1 .. served
    <3>1. CASE r.id = n
      BY <1>1, <2>1, <2>3, <3>1 DEF RunRows
    <3>2. CASE r.id # n
      <4>1. r \in db["eval_runs"]
        BY <1>4, <2>3, <3>2
      <4> QED
        BY <4>1 DEF EvalsHold, EvalRows
    <3> QED
      BY <3>1, <3>2
  <2>4. ASSUME NEW r \in db'["eval_runs"], NEW s \in db'["eval_runs"], r.id = s.id
        PROVE  r = s
    <3>1. CASE r.id = n
      BY <2>4, <3>1 DEF RunRows
    <3>2. CASE r.id # n
      <4>1. r \in db["eval_runs"] /\ s \in db["eval_runs"]
        BY <1>4, <2>4, <3>2
      <4> QED
        BY <2>4, <4>1 DEF EvalsHold, EvalRows
    <3> QED
      BY <3>1, <3>2
  <2>5. ASSUME NEW r \in db'["eval_results"]
        PROVE  IsRecord(r) /\ r.runId \in 1 .. served /\ r.id = <<r.runId, r.id[2]>>
    <3>1. CASE r.runId = n
      BY <1>1, <2>1, <2>5, <3>1 DEF RunRows
    <3>2. CASE r.runId # n
      <4>1. r \in db["eval_results"]
        BY <1>4, <2>5, <3>2
      <4> QED
        BY <4>1 DEF EvalsHold, EvalRows
    <3> QED
      BY <3>1, <3>2
  <2> HIDE DEF IsRecord
  <2> QED
    BY <2>1, <2>2, <2>3, <2>4, <2>5 DEF EvalRows, SuiteRows
<1>6. ASSUME NEW r \in db'["eval_runs"], r.id # n PROVE InHand(r)'
  <2>1. r \in db["eval_runs"] /\ InHand(r)
    BY <1>4, <1>6 DEF EvalsHold
  <2>2. PICK m : m = r.id /\ m # n
    BY <1>6
  <2>3. AddsUp(r)' <=> AddsUp(r)
    BY <2>2, RunsAroundOthers
  <2>4. CASE r.done
    BY <2>1, <2>3, <2>4 DEF InHand
  <2>5. CASE ~r.done /\ "evaluate" \in cuts
    BY <2>5 DEF InHand
  <2>6. ASSUME ~r.done, NEW d \in Clients, Working(d), Number(d) = r.id
        PROVE  InHand(r)'
    BY <1>3, <1>6, <2>6 DEF InHand
  <2> QED
    BY <2>1, <2>4, <2>5, <2>6 DEF InHand
<1>7. \A r \in db'["eval_runs"] : InHand(r)'
  BY <1>6
<1> QED
  BY <1>3, <1>5, <1>7 DEF EvalsHold

\* The call at hand of a suite's request.
LEMMA EvalCallAt ==
  ASSUME CallsInv, BillRequests, BillRows, EvalsHold, area = "evals", NEW c \in Clients,
         StoreCall(c), NEW k, k = Head(loc[c].calls), NEW rest, rest = Tail(loc[c].calls)
  PROVE  /\ pc[c] = "calling" /\ InFlight(c) /\ BillRequest(c) /\ EvalCalls(c)
         /\ loc[c].calls # <<>> /\ k = loc[c].calls[1] /\ SuiteCall(k)
         /\ \A i \in DOMAIN rest : SuiteCall(rest[i])'
         /\ {"op", "n", "org", "calls", "next"} \subseteq DOMAIN loc[c]
         /\ UNCHANGED <<postgres, area, served, cuts>>
         /\ \/ Respond(c) /\ db' = db /\ (Refused(k) \/ FindsNothing(k))
            \/ /\ ~Refused(k) /\ ~FindsNothing(k) /\ CallMade(c, rest)
               /\ k.call = "insert" => db' = InsertRow(k.table, k.row)
               /\ k.call = "update" => db' = UpdateRow(k.table, k.id, k.row)
<1>1. /\ pc[c] = "calling" /\ {"calls", "next"} \subseteq DOMAIN loc[c]
      /\ UNCHANGED <<postgres, area, served, cuts>>
      /\ \/ Respond(c) /\ db' = db /\ (Refused(k) \/ FindsNothing(k))
         \/ /\ ~Refused(k) /\ ~FindsNothing(k)
            /\ \/ k.call = "insert" /\ db' = InsertRow(k.table, k.row)
               \/ k.call \in {"update", "change"} /\ db' = UpdateRow(k.table, k.id, k.row)
               \/ k.call = "upsert" /\ db' = UpsertRow(k.table, k.row)
               \/ /\ k.call \notin {"insert", "update", "change", "upsert"}
                  /\ db' = RemoveRow(k.table, k.id)
            /\ \/ rest # <<>> /\ Goto(c, "calling", [calls |-> rest])
               \/ rest = <<>> /\ loc[c].next = "idle" /\ Respond(c)
               \/ rest = <<>> /\ loc[c].next # "idle" /\ Goto(c, loc[c].next, Nothing)
  BY CallAtHand
<1>2. InFlight(c) /\ BillRequest(c) /\ EvalCalls(c)
  BY <1>1 DEF InFlight, BillRequests, EvalsHold, EvalRequests, EvalRequest
<1>3. PICK s : s = loc[c].calls
  OBVIOUS
<1>4. s # <<>> /\ IsSequence(s)
  BY <1>1, <1>3 DEF CallsInv, OwnCalls
<1>5. /\ IsSequence(rest) /\ k = s[1] /\ Len(s) \in Nat \ {0}
      /\ Len(rest) = Len(s) - 1 /\ Len(rest) \in Nat
      /\ \A i \in 1 .. Len(rest) : rest[i] = s[i + 1] /\ i + 1 \in 2 .. Len(s)
  BY <1>3, <1>4, TailOf
<1>6. DOMAIN s = 1 .. Len(s) /\ DOMAIN rest = 1 .. Len(rest)
  BY <1>4, <1>5, SequenceSpan
<1>7. 1 \in DOMAIN s /\ \A i \in DOMAIN rest : i + 1 \in DOMAIN s /\ rest[i] = s[i + 1]
  BY <1>5, <1>6
<1>8. \A i \in DOMAIN s : SuiteCall(s[i])
  BY <1>2, <1>3 DEF EvalCalls
<1>9. SuiteCall(k) /\ \A i \in DOMAIN rest : SuiteCall(rest[i])
  BY <1>5, <1>7, <1>8
<1>10. db'["agents"] = db["agents"]
  BY EvalCallLeaves DEF EvalsHold
<1>11. \A i \in DOMAIN rest : SuiteCall(rest[i])'
  BY <1>9, <1>10, SameForAgents
<1>12. {"op", "n", "org"} \subseteq DOMAIN loc[c]
  BY <1>2 DEF BillRequest
<1> HIDE DEF InFlight, BillRequest, EvalCalls, SuiteCall, Respond, Goto
<1>13. \/ Respond(c) /\ db' = db /\ (Refused(k) \/ FindsNothing(k))
       \/ /\ ~Refused(k) /\ ~FindsNothing(k) /\ CallMade(c, rest)
          /\ k.call = "insert" => db' = InsertRow(k.table, k.row)
          /\ k.call = "update" => db' = UpdateRow(k.table, k.id, k.row)
  BY <1>1 DEF CallMade
<1> QED
  BY <1>1, <1>2, <1>3, <1>4, <1>5, <1>9, <1>11, <1>12, <1>13

\* A call on other collections than the runs'.
LEMMA CallOffRunsHolds ==
  ASSUME CallsInv, BillRequests, BillRows, EvalsHold, area = "evals", NEW c \in Clients,
         StoreCall(c), NEW k, k = Head(loc[c].calls), k.table \notin RunTables,
         CallMade(c, Tail(loc[c].calls)),
         pc'[c] # "idle" => EvalRequest(c)',
         ~Working(c) \/ Working(c)'
  PROVE  EvalsHold'
<1>1. PICK n, rest : n = Number(c) /\ rest = Tail(loc[c].calls)
  OBVIOUS
<1>2. /\ pc[c] = "calling" /\ InFlight(c) /\ SuiteCall(k)
      /\ UNCHANGED <<postgres, area, served, cuts>>
  BY <1>1, EvalCallAt
<1>3. /\ \E where : pc' = [pc EXCEPT ![c] = where]
      /\ \A d \in Clients \ {c} : loc'[d] = loc[d]
      /\ pc'[c] # "idle" => Number(c)' = Number(c)
  BY <1>1, <1>2, CallMadeLeaves
<1>4. DOMAIN pc = Clients
  BY DEF BillRequests
<1>5. PICK where : pc' = [pc EXCEPT ![c] = where] /\ pc'[c] = where
  BY <1>3, <1>4
<1>6. /\ DOMAIN db' = DOMAIN db
      /\ db'["agents"] = db["agents"] /\ db'["organizations"] = db["organizations"]
      /\ db'["eval_runs"] = db["eval_runs"] /\ db'["eval_results"] = db["eval_results"]
  BY EvalCallLeaves DEF EvalsHold, RunTables
<1>7. RunsAround(n)
  BY <1>6 DEF RunsAround
<1>8. SuiteRows'
  BY <1>2, SuiteRowsStay DEF EvalsHold
<1>9. RunRows(n)'
  <2>1. \A r : IsRecord(r)' <=> IsRecord(r)
    BY DEF IsRecord
  <2>2. RunRows(n)
    BY DEF RunRows, EvalsHold, EvalRows
  <2> HIDE DEF IsRecord
  <2> QED
    BY <1>6, <2>1, <2>2 DEF RunRows
<1>10. ASSUME NEW r \in db'["eval_runs"], r.id = n PROVE InHand(r)'
  <2>1. InHand(r)
    BY <1>6 DEF EvalsHold
  <2>2. AddsUp(r)' <=> AddsUp(r)
    BY <1>6 DEF AddsUp, ResultsOf
  <2>3. CASE r.done
    BY <2>1, <2>2, <2>3 DEF InHand
  <2>4. CASE ~r.done /\ "evaluate" \in cuts
    BY <1>2, <2>4 DEF InHand
  <2>5. ASSUME ~r.done, NEW d \in Clients, Working(d), Number(d) = r.id
        PROVE  InHand(r)'
    <3>1. d = c
      BY <1>1, <1>2, <1>10, <2>5 DEF BillRequests, Working
    <3>2. Working(c)'
      BY <2>5, <3>1
    <3>3. pc'[c] # "idle"
      BY <3>2 DEF Working, InFlight
    <3> QED
      BY <1>1, <1>3, <1>10, <2>5, <3>2, <3>3 DEF InHand
  <2> QED
    BY <2>1, <2>3, <2>4, <2>5 DEF InHand
<1> QED
  BY <1>1, <1>2, <1>3, <1>5, <1>6, <1>7, <1>8, <1>9, <1>10, EvalCallHolds

\* A request that only reports has no run to bring to its end.
LEMMA ReportingHolds ==
  ASSUME CallsInv, BillRequests, BillRows, EvalsHold, area = "evals", NEW c \in Clients,
         StoreCall(c), Reporting(c)
  PROVE  EvalsHold'
<1>1. PICK k, rest : k = Head(loc[c].calls) /\ rest = Tail(loc[c].calls)
  OBVIOUS
<1>2. /\ pc[c] = "calling" /\ InFlight(c) /\ loc[c].calls # <<>> /\ SuiteCall(k)
      /\ \A i \in DOMAIN rest : SuiteCall(rest[i])'
      /\ {"calls", "next"} \subseteq DOMAIN loc[c]
      /\ UNCHANGED <<postgres, area, served, cuts>>
      /\ \/ Respond(c) /\ db' = db
         \/ CallMade(c, rest)
  BY <1>1, EvalCallAt
<1>3. ~Working(c) /\ k.table \notin RunTables /\ OffRuns(rest)
  <2>1. pc[c] \notin AnsweringPC
    BY <1>2 DEF AnsweringPC
  <2>2. OffRuns(loc[c].calls)
    BY DEF Reporting
  <2> QED
    BY <1>1, <1>2, <2>1, <2>2, OffRunsTail DEF Working
<1>4. CASE Respond(c) /\ db' = db
  BY <1>2, <1>3, <1>4, EvalAnswers
<1>5. CASE CallMade(c, rest)
  <2>1. ASSUME pc'[c] # "idle" PROVE EvalRequest(c)'
    <3>1. /\ pc'[c] = IF rest # <<>> THEN "calling" ELSE loc[c].next
          /\ rest # <<>> => pc'[c] = "calling" /\ loc'[c].calls = rest
          /\ pc'[c] # "idle" => \A f \in DOMAIN loc[c] \ {"calls"} : loc'[c][f] = loc[c][f]
      BY <1>2, <1>5, CallMadeLeaves
    <3>2. pc'[c] = "calling" /\ loc'[c].calls = rest /\ loc'[c].next = "idle"
      BY <1>2, <2>1, <3>1 DEF Reporting
    <3>3. db'["agents"] = db["agents"]
      BY <1>1, EvalCallLeaves DEF EvalsHold
    <3>4. OffRuns(rest)'
      BY <1>3, <3>3, SameForAgents
    <3>5. Reporting(c)'
      BY <3>2, <3>4 DEF Reporting
    <3>6. EvalCalls(c)'
      <4> HIDE DEF Reporting, SuiteCall
      <4> QED
        BY <1>2, <3>2, <3>5 DEF EvalCalls
    <3> QED
      BY <3>2, <3>6 DEF EvalRequest, AnsweringPC
  <2> QED
    BY <1>1, <1>3, <1>5, <2>1, CallOffRunsHolds
<1> QED
  BY <1>2, <1>4, <1>5

\* What is counted stays, as a result that was about to be on record goes there.
LEMMA AnsweringStays ==
  ASSUME NEW c, Answering(c), UNCHANGED postgres, Number(c)' = Number(c),
         db'["agents"] = db["agents"], db'["organizations"] = db["organizations"],
         db'["eval_runs"] = db["eval_runs"],
         {"cases", "passed", "failed", "agent", "org"} \subseteq DOMAIN loc'[c],
         \A f \in {"cases", "passed", "failed", "agent", "org"} : loc'[c][f] = loc[c][f],
         (ResultsOf(Number(c)) \cup Pending(c))' = ResultsOf(Number(c)) \cup Pending(c),
         \/ Pending(c)' = {}
         \/ Pending(c)' = Pending(c) /\ ResultsOf(Number(c))' = ResultsOf(Number(c))
  PROVE  Answering(c)'
<1>1. /\ loc'[c].cases = loc[c].cases /\ loc'[c].passed = loc[c].passed
      /\ loc'[c].failed = loc[c].failed /\ loc'[c].agent = loc[c].agent
      /\ loc'[c].org = loc[c].org
  OBVIOUS
<1>2. InCases(c)'
  <2>1. InCases(c) /\ KnownAgent(loc[c].agent)
    BY DEF Answering, InCases
  <2>2. KnownAgent(loc[c].agent)'
    BY <1>1, <2>1 DEF KnownAgent
  <2> HIDE DEF KnownAgent
  <2> QED
    BY <1>1, <2>1, <2>2 DEF InCases
<1>3. OrgKnown(c)'
  BY <1>1 DEF Answering, OrgKnown
<1>4. Tally(c)'
  <2>1. Tally(c)
    BY DEF Answering
  <2> HIDE DEF Number, ResultsOf, Pending
  <2> QED
    BY <1>1, <2>1 DEF Tally
<1>5. PICK r \in db["eval_runs"] : RunAtHand(c, r)
  BY DEF Answering
<1>6. RunAtHand(c, r)'
  BY <1>1, <1>5 DEF RunAtHand
<1> QED
  BY <1>2, <1>3, <1>4, <1>5, <1>6 DEF Answering

\* One record of an answer was made: the next one is made, or the next step is taken.
LEMMA CaseGoesOn ==
  ASSUME CallsInv, BillRequests, NEW c \in Clients, pc[c] = "calling", BillRequest(c),
         CaseCalls(c), {"op", "n", "org", "calls", "next"} \subseteq DOMAIN loc[c],
         NEW rest, CallMade(c, rest), UNCHANGED postgres,
         Scoring(rest), db'["agents"] = db["agents"],
         \A i \in DOMAIN rest : SuiteCall(rest[i])',
         Answering(c)'
  PROVE  pc'[c] # "idle" /\ EvalRequest(c)' /\ Working(c)'
<1>1. PICK next \in AnsweringPC : next = loc[c].next /\ (next = "run.judge" => loc[c].cases # {})
  BY DEF CaseCalls
<1>2. loc[c].op = "evaluate" /\ "cases" \in DOMAIN loc[c]
  BY <1>1 DEF BillRequest, Placed, CaseCalls, Answering, InCases
<1>3. /\ pc'[c] = IF rest # <<>> THEN "calling" ELSE next
      /\ rest # <<>> => pc'[c] = "calling" /\ loc'[c].calls = rest
      /\ pc'[c] # "idle" => \A f \in DOMAIN loc[c] \ {"calls"} : loc'[c][f] = loc[c][f]
  BY <1>1, CallMadeLeaves
<1>4. /\ pc'[c] # "idle" /\ loc'[c].next = next /\ loc'[c].op = "evaluate"
      /\ loc'[c].cases = loc[c].cases
  BY <1>1, <1>2, <1>3 DEF AnsweringPC
<1>5. Scoring(rest)'
  BY SameForAgents
<1>6. CASE rest # <<>>
  <2>1. pc'[c] = "calling" /\ loc'[c].calls = rest
    BY <1>3, <1>6
  <2>2. CaseCalls(c)'
    <3> HIDE DEF Answering, Scoring
    <3> QED
      BY <1>1, <1>4, <1>5, <2>1 DEF CaseCalls
  <2>3. EvalCalls(c)'
    <3> HIDE DEF CaseCalls, SuiteCall
    <3> QED
      BY <2>1, <2>2 DEF EvalCalls
  <2>4. Working(c)'
    BY <1>1, <1>4, <2>1 DEF Working, Reporting, InFlight, AnsweringPC
  <2> QED
    BY <1>4, <2>1, <2>3, <2>4 DEF EvalRequest, AnsweringPC
<1>7. CASE rest = <<>>
  <2>1. pc'[c] = next
    BY <1>3, <1>7
  <2>2. Working(c)'
    BY <1>4, <2>1 DEF Working, InFlight
  <2> HIDE DEF Answering
  <2> QED
    BY <1>1, <1>4, <2>1, <2>2 DEF EvalRequest, AnsweringPC
<1> QED
  BY <1>6, <1>7

LEMMA CaseRecordHolds ==
  ASSUME CallsInv, BillRequests, BillRows, EvalsHold, area = "evals", NEW c \in Clients,
         StoreCall(c), CaseCalls(c), Head(loc[c].calls).table \in BillTables
  PROVE  EvalsHold'
<1>1. PICK k, s, rest : s = loc[c].calls /\ k = Head(s) /\ rest = Tail(s)
  OBVIOUS
<1>2. /\ pc[c] = "calling" /\ InFlight(c) /\ BillRequest(c) /\ s # <<>>
      /\ \A i \in DOMAIN rest : SuiteCall(rest[i])'
      /\ {"op", "n", "org", "calls", "next"} \subseteq DOMAIN loc[c]
      /\ UNCHANGED <<postgres, area, served, cuts>>
      /\ \/ Refused(k) \/ FindsNothing(k)
         \/ CallMade(c, rest)
  BY <1>1, EvalCallAt
<1>3. Answering(c) /\ OrgKnown(c) /\ Scoring(s) /\ loc[c].next \in AnsweringPC
  BY <1>1 DEF CaseCalls, Answering
<1>4. ~Refused(k) /\ ~FindsNothing(k)
  BY <1>1, <1>2, <1>3, RecordIsTaken DEF EvalsHold
<1>5. CallMade(c, rest)
  BY <1>2, <1>4
<1>6. /\ k.table \notin RunTables /\ Scoring(rest) /\ PendingIn(rest) = PendingIn(s)
  <2>1. k.table # "eval_results" /\ k.table \notin RunTables
    BY <1>1 DEF BillTables, RunTables
  <2> QED
    BY <1>1, <1>2, <1>3, <2>1, ScoringTail
<1>7. /\ db'["agents"] = db["agents"] /\ db'["organizations"] = db["organizations"]
      /\ db'["eval_runs"] = db["eval_runs"] /\ db'["eval_results"] = db["eval_results"]
  BY <1>1, <1>6, EvalCallLeaves DEF EvalsHold, RunTables
<1>8. /\ pc'[c] = IF rest # <<>> THEN "calling" ELSE loc[c].next
      /\ rest # <<>> => pc'[c] = "calling" /\ loc'[c].calls = rest
      /\ rest = <<>> => pc'[c] # "calling"
      /\ pc'[c] # "idle" => /\ DOMAIN loc'[c] = DOMAIN loc[c]
                            /\ \A f \in DOMAIN loc[c] \ {"calls"} : loc'[c][f] = loc[c][f]
                            /\ Number(c)' = Number(c)
  BY <1>2, <1>5, CallMadeLeaves
<1>9. pc'[c] # "idle" /\ {"cases", "passed", "failed", "agent"} \subseteq DOMAIN loc[c]
  BY <1>3, <1>8 DEF AnsweringPC, Answering, InCases
<1>10. ResultsOf(Number(c))' = ResultsOf(Number(c)) /\ Pending(c)' = Pending(c)
  <2>1. ResultsOf(Number(c))' = ResultsOf(Number(c))
    <3>1. PICK m : m = Number(c) /\ Number(c)' = m
      BY <1>8, <1>9
    <3> HIDE DEF Number
    <3> QED
      BY <1>7, <3>1 DEF ResultsOf
  <2>2. Pending(c) = PendingIn(s)
    BY <1>1, <1>2, <1>3 DEF Pending
  <2>3. CASE rest # <<>>
    <3>1. pc'[c] = "calling" /\ loc'[c].calls = rest /\ loc'[c].next = loc[c].next
      BY <1>2, <1>8, <1>9, <2>3
    <3>2. PendingIn(rest)' = PendingIn(s)
      BY <1>6 DEF PendingIn
    <3> HIDE DEF PendingIn
    <3> QED
      BY <1>3, <2>1, <2>2, <3>1, <3>2 DEF Pending
  <2>4. CASE rest = <<>>
    <3>1. PendingIn(rest) = {}
      BY <2>4 DEF PendingIn
    <3> QED
      BY <1>6, <1>8, <2>1, <2>2, <2>4, <3>1 DEF Pending
  <2> QED
    BY <2>3, <2>4
<1>11. Answering(c)'
  <2>1. /\ {"cases", "passed", "failed", "agent", "org"} \subseteq DOMAIN loc'[c]
        /\ \A f \in {"cases", "passed", "failed", "agent", "org"} : loc'[c][f] = loc[c][f]
    BY <1>2, <1>8, <1>9
  <2>2. (ResultsOf(Number(c)) \cup Pending(c))' = ResultsOf(Number(c)) \cup Pending(c)
    BY <1>10
  <2> HIDE DEF Number, ResultsOf, Pending
  <2> QED
    BY <1>2, <1>3, <1>7, <1>8, <1>9, <1>10, <2>1, <2>2, AnsweringStays
<1>12. EvalRequest(c)' /\ Working(c)'
  BY <1>2, <1>5, <1>6, <1>7, <1>11, CaseGoesOn
<1> QED
  BY <1>1, <1>5, <1>6, <1>12, CallOffRunsHolds

\* The result of an answer is put on record.
LEMMA CaseResultHolds ==
  ASSUME CallsInv, BillRequests, BillRows, EvalsHold, area = "evals", NEW c \in Clients,
         StoreCall(c), CaseCalls(c), Head(loc[c].calls).table = "eval_results"
  PROVE  EvalsHold'
<1>1. PICK k, s, rest, n : /\ s = loc[c].calls /\ k = Head(s) /\ rest = Tail(s)
                           /\ n = Number(c)
  OBVIOUS
<1>2. /\ pc[c] = "calling" /\ InFlight(c) /\ BillRequest(c) /\ s # <<>> /\ SuiteCall(k)
      /\ \A i \in DOMAIN rest : SuiteCall(rest[i])'
      /\ {"op", "n", "org", "calls", "next"} \subseteq DOMAIN loc[c]
      /\ UNCHANGED <<postgres, area, served, cuts>>
      /\ \/ Refused(k) \/ FindsNothing(k)
         \/ /\ CallMade(c, rest)
            /\ k.call = "insert" => db' = InsertRow(k.table, k.row)
  BY <1>1, EvalCallAt
<1>3. Answering(c) /\ Scoring(s) /\ loc[c].next \in AnsweringPC
  BY <1>1 DEF CaseCalls
<1>4. /\ rest = <<>> /\ PendingIn(s) = {k.row} /\ k = s[1] /\ 1 \in DOMAIN s
      /\ k.table = "eval_results" /\ Scoring(rest)
  BY <1>1, <1>2, <1>3, ScoringTail
<1>5. k.call = "insert" /\ IsRecord(k.row)
  BY <1>3, <1>4 DEF Scoring
<1>6. PICK row : row = k.row
  OBVIOUS
<1>7. Pending(c) = {row}
  BY <1>1, <1>2, <1>3, <1>4, <1>6 DEF Pending
<1>8. /\ row.runId = n /\ row.id = <<n, row.id[2]>>
      /\ \A r \in ResultsOf(n) : row.id # r.id
  <2>1. Tally(c)
    BY <1>3 DEF Answering
  <2> HIDE DEF ResultsOf, Pending, Number
  <2> QED
    BY <1>1, <1>7, <2>1 DEF Tally
<1>9. PICK run \in db["eval_runs"] : RunAtHand(c, run)
  BY <1>3 DEF Answering
<1>10. ~Refused(k) /\ ~FindsNothing(k)
  <2>1. ASSUME NEW r \in db["eval_results"] PROVE r.id # row.id
    <3>1. CASE r.runId = n
      BY <1>8, <2>1, <3>1 DEF ResultsOf
    <3>2. CASE r.runId # n
      <4>1. r.id = <<r.runId, r.id[2]>>
        BY DEF EvalsHold, EvalRows
      <4>2. r.id[1] = r.runId /\ row.id[1] = n
        BY <1>8, <4>1
      <4> QED
        BY <3>2, <4>2
    <3> QED
      BY <3>1, <3>2
  <2>2. run.id = row.runId
    BY <1>1, <1>8, <1>9 DEF RunAtHand
  <2> QED
    BY <1>4, <1>5, <1>6, <2>1, <2>2, ResultIsTaken DEF EvalsHold
<1>11. CallMade(c, rest) /\ db' = InsertRow("eval_results", row)
  BY <1>2, <1>4, <1>5, <1>6, <1>10
<1>12. /\ db'["agents"] = db["agents"] /\ db'["organizations"] = db["organizations"]
       /\ db'["eval_runs"] = db["eval_runs"]
       /\ DOMAIN db' = DOMAIN db
  BY <1>1, <1>4, EvalCallLeaves DEF EvalsHold
<1>13. db'["eval_results"] = db["eval_results"] \cup {row}
  <2>1. "eval_results" \in DOMAIN db
    BY DEF EvalsHold, EvalRows, EvalTables
  <2> QED
    BY <1>11, <2>1 DEF InsertRow
<1>14. /\ \E where : pc' = [pc EXCEPT ![c] = where]
       /\ \A d \in Clients \ {c} : loc'[d] = loc[d]
       /\ pc'[c] = loc[c].next
       /\ pc'[c] # "idle" => /\ DOMAIN loc'[c] = DOMAIN loc[c]
                             /\ \A f \in DOMAIN loc[c] \ {"calls"} : loc'[c][f] = loc[c][f]
                             /\ Number(c)' = Number(c)
  BY <1>2, <1>4, <1>11, CallMadeLeaves
<1>15. /\ pc'[c] \notin {"idle", "calling"} /\ Number(c)' = n
       /\ {"cases", "passed", "failed", "agent"} \subseteq DOMAIN loc[c]
  BY <1>1, <1>3, <1>14 DEF AnsweringPC, Answering, InCases
<1>16. Answering(c)'
  <2>1. /\ {"cases", "passed", "failed", "agent", "org"} \subseteq DOMAIN loc'[c]
        /\ \A f \in {"cases", "passed", "failed", "agent", "org"} : loc'[c][f] = loc[c][f]
    BY <1>2, <1>14, <1>15
  <2>2. Pending(c)' = {}
    BY <1>15 DEF Pending
  <2>3. ResultsOf(n)' = ResultsOf(n) \cup {row}
    BY <1>8, <1>13 DEF ResultsOf
  <2>4. ResultsOf(Number(c))' = ResultsOf(n)'
    BY <1>15 DEF ResultsOf
  <2>5. (ResultsOf(Number(c)) \cup Pending(c))' = ResultsOf(Number(c)) \cup Pending(c)
    <3> HIDE DEF Number, ResultsOf, Pending
    <3> QED
      BY <1>1, <1>7, <2>2, <2>3, <2>4
  <2> HIDE DEF Number, ResultsOf, Pending
  <2> QED
    BY <1>1, <1>2, <1>3, <1>12, <1>15, <2>1, <2>2, <2>5, AnsweringStays
<1>17. EvalRequest(c)' /\ Working(c)'
  BY <1>1, <1>2, <1>4, <1>11, <1>12, <1>16, CaseGoesOn
<1>18. RunsAround(n)
  <2>1. \A r : r.runId # n => r # row
    BY <1>8
  <2> QED
    BY <1>12, <1>13, <2>1 DEF RunsAround
<1>19. SuiteRows'
  BY <1>1, <1>2, SuiteRowsStay DEF EvalsHold
<1>20. RunRows(n)'
  <2>1. \A r : IsRecord(r)' <=> IsRecord(r)
    BY DEF IsRecord
  <2>2. \A r \in db["eval_results"] \cup {row} :
            r.runId = n => IsRecord(r) /\ r.id = <<n, r.id[2]>>
    <3>1. \A r \in db["eval_results"] : r.runId = n => IsRecord(r) /\ r.id = <<n, r.id[2]>>
      BY DEF EvalsHold, EvalRows
    <3> HIDE DEF IsRecord
    <3> QED
      BY <1>5, <1>6, <1>8, <3>1
  <2>3. /\ \A r \in db["eval_runs"] : IsRecord(r) /\ {"id", "status", "total"} \subseteq DOMAIN r
        /\ \A q, r \in db["eval_runs"] : q.id = n /\ r.id = n => q = r
    BY DEF EvalsHold, EvalRows
  <2> HIDE DEF IsRecord
  <2> QED
    BY <1>12, <1>13, <2>1, <2>2, <2>3 DEF RunRows
<1>21. ASSUME NEW r \in db'["eval_runs"], r.id = n PROVE InHand(r)'
  <2>1. r = run
    BY <1>1, <1>9, <1>12, <1>21 DEF RunAtHand, EvalsHold, EvalRows
  <2>2. ~r.done
    BY <1>9, <2>1 DEF RunAtHand
  <2> QED
    BY <1>15, <1>17, <1>21, <2>2 DEF InHand
<1>22. PICK where : pc' = [pc EXCEPT ![c] = where]
  BY <1>14
<1> QED
  BY <1>1, <1>2, <1>12, <1>14, <1>17, <1>18, <1>19, <1>20, <1>21, <1>22, EvalCallHolds

\* A run is put on record, or its request is refused and has none.
LEMMA NewRunMade ==
  ASSUME CallsInv, BillRequests, BillRows, EvalsHold, area = "evals", NEW c \in Clients,
         StoreCall(c), NEW status, NEW total, NEW done,
         NEW k, k = NewRun(c, status, total, done), k = Head(loc[c].calls),
         Unrecorded(Number(c))
  PROVE  /\ k.row.id = Number(c) /\ k.row.status = status /\ k.row.total = total
         /\ k.row.done = done
         /\ IsRecord(k.row) /\ {"id", "status", "total"} \subseteq DOMAIN k.row
         /\ \/ EvalsHold'
            \/ /\ CallMade(c, Tail(loc[c].calls)) /\ OrgKnown(c)
               /\ db'["eval_runs"] = db["eval_runs"] \cup {k.row}
               /\ db'["eval_results"] = db["eval_results"]
               /\ db'["agents"] = db["agents"] /\ db'["organizations"] = db["organizations"]
               /\ DOMAIN db' = DOMAIN db
<1>1. PICK row, rest, n : row = k.row /\ rest = Tail(loc[c].calls) /\ n = Number(c)
  OBVIOUS
<1>2. /\ k.call = "insert" /\ k.table = "eval_runs" /\ row.id = n /\ row.status = status
      /\ row.total = total /\ row.done = done /\ row.organizationId = loc[c].org
      /\ "organizationId" \in DOMAIN row
      /\ IsRecord(row) /\ {"id", "status", "total"} \subseteq DOMAIN row
  BY <1>1 DEF NewRun, Inserting, IsRecord
<1>3. /\ InFlight(c) /\ UNCHANGED <<postgres, area, served, cuts>>
      /\ \/ Respond(c) /\ db' = db
         \/ ~Refused(k) /\ CallMade(c, rest) /\ db' = InsertRow("eval_runs", row)
  <2>1. /\ InFlight(c) /\ UNCHANGED <<postgres, area, served, cuts>>
        /\ \/ Respond(c) /\ db' = db /\ (Refused(k) \/ FindsNothing(k))
           \/ /\ ~Refused(k) /\ ~FindsNothing(k) /\ CallMade(c, rest)
              /\ k.call = "insert" => db' = InsertRow(k.table, k.row)
    BY <1>1, EvalCallAt
  <2> HIDE DEF Respond, CallMade, Refused, FindsNothing, InsertRow
  <2> QED
    BY <1>1, <1>2, <2>1
<1>4. CASE Respond(c) /\ db' = db
  <2>1. \A r \in db["eval_runs"] : r.id # Number(c)
    BY DEF Unrecorded
  <2>2. EvalsHold'
    BY <1>3, <1>4, <2>1, EvalAnswers
  <2> QED
    BY <1>1, <1>2, <2>2
<1>5. CASE ~Refused(k) /\ CallMade(c, rest) /\ db' = InsertRow("eval_runs", row)
  <2>1. /\ DOMAIN db' = DOMAIN db /\ db'["agents"] = db["agents"]
        /\ db'["organizations"] = db["organizations"]
        /\ db'["eval_results"] = db["eval_results"]
    BY <1>2, EvalCallLeaves DEF EvalsHold
  <2>2. "eval_runs" \in DOMAIN db
    BY DEF EvalsHold, EvalRows, EvalTables
  <2>3. db'["eval_runs"] = db["eval_runs"] \cup {row}
    BY <1>5, <2>2 DEF InsertRow
  <2>4. OrgKnown(c)
    <3>1. SUFFICES ASSUME postgres, loc[c].org # None
                   PROVE  \E o \in db["organizations"] : o.id = loc[c].org
      BY DEF OrgKnown
    <3>2. ~RefersToNothing("eval_runs", row)
      BY <1>1, <1>2, <1>5, <3>1 DEF Refused
    <3>3. PICK ref \in References : /\ ref.child = "eval_runs" /\ ref.field = "organizationId"
                                    /\ ref.parent = "organizations"
      BY EvalReferences
    <3>4. "organizations" \in DOMAIN db
      BY DEF BillRows
    <3>5. RefersTo("eval_runs", row, ref) /\ row[ref.field] = loc[c].org
      BY <1>2, <3>3, <3>4 DEF RefersTo
    <3>6. ById("organizations", loc[c].org) # {}
      BY <3>1, <3>2, <3>3, <3>5 DEF RefersToNothing
    <3> QED
      BY <3>4, <3>6 DEF ById, Table
  <2> QED
    BY <1>1, <1>2, <1>5, <2>1, <2>3, <2>4
<1> QED
  BY <1>3, <1>4, <1>5

\* A run that is new on record is of a request at work on it, or it is blocked and over.
LEMMA NewRunHolds ==
  ASSUME CallsInv, BillRequests, BillRows, EvalsHold, area = "evals", NEW c \in Clients,
         StoreCall(c), NEW row, row.id = Number(c), Unrecorded(Number(c)),
         IsRecord(row), {"id", "status", "total"} \subseteq DOMAIN row,
         Head(loc[c].calls).table = "eval_runs",
         CallMade(c, Tail(loc[c].calls)), db'["eval_runs"] = db["eval_runs"] \cup {row},
         pc'[c] # "idle" => EvalRequest(c)',
         IF row.done THEN row.status = "blocked" ELSE Working(c)'
  PROVE  EvalsHold'
<1>1. PICK n, k, rest : /\ n = Number(c) /\ k = Head(loc[c].calls) /\ rest = Tail(loc[c].calls)
                        /\ k.table = "eval_runs"
  OBVIOUS
<1>2. /\ pc[c] = "calling" /\ InFlight(c) /\ SuiteCall(k)
      /\ UNCHANGED <<postgres, area, served, cuts>>
  BY <1>1, EvalCallAt
<1>3. /\ \E where : pc' = [pc EXCEPT ![c] = where]
      /\ \A d \in Clients \ {c} : loc'[d] = loc[d]
      /\ pc'[c] # "idle" => Number(c)' = Number(c)
  BY <1>1, <1>2, CallMadeLeaves
<1>4. DOMAIN pc = Clients
  BY DEF BillRequests
<1>5. PICK where : pc' = [pc EXCEPT ![c] = where] /\ pc'[c] = where
  BY <1>3, <1>4
<1>6. /\ DOMAIN db' = DOMAIN db
      /\ db'["agents"] = db["agents"] /\ db'["organizations"] = db["organizations"]
      /\ db'["eval_results"] = db["eval_results"]
  BY <1>1, EvalCallLeaves DEF EvalsHold
<1>7. RunsAround(n)
  <2>1. \A r : r.id # n => r # row
    BY <1>1
  <2> QED
    BY <1>6, <2>1 DEF RunsAround
<1>8. SuiteRows'
  BY <1>1, <1>2, SuiteRowsStay DEF EvalsHold
<1>9. \A r \in db'["eval_runs"] : r.id = n => r = row
  BY <1>1 DEF Unrecorded
<1>10. RunRows(n)'
  <2>1. IsRecord(row)'
    BY DEF IsRecord
  <2>2. \A r \in db'["eval_results"] : r.runId # n
    BY <1>1, <1>6 DEF Unrecorded, ResultsOf
  <2> HIDE DEF IsRecord
  <2> QED
    BY <1>9, <2>1, <2>2 DEF RunRows
<1>11. ASSUME NEW r \in db'["eval_runs"], r.id = n PROVE InHand(r)'
  <2>1. r = row
    BY <1>9, <1>11
  <2>2. CASE row.done
    <3>1. ResultsOf(r.id)' = {}
      BY <1>1, <1>6, <1>11 DEF Unrecorded, ResultsOf
    <3> QED
      BY <2>1, <2>2, <3>1 DEF InHand, AddsUp
  <2>3. CASE ~row.done
    <3>1. Working(c)' /\ pc'[c] # "idle"
      BY <2>3 DEF Working, InFlight
    <3> QED
      BY <1>1, <1>3, <1>11, <2>1, <2>3, <3>1 DEF InHand
  <2> QED
    BY <2>2, <2>3
<1> QED
  BY <1>1, <1>2, <1>3, <1>5, <1>6, <1>7, <1>8, <1>10, <1>11, EvalCallHolds

\* A blocked run is put on record, and reported.
LEMMA BlockedHolds ==
  ASSUME CallsInv, BillRequests, BillRows, EvalsHold, area = "evals", NEW c \in Clients,
         StoreCall(c), BlockedCalls(c)
  PROVE  EvalsHold'
<1>1. PICK k, rest, n : /\ k = Head(loc[c].calls) /\ rest = Tail(loc[c].calls)
                        /\ n = Number(c)
  OBVIOUS
<1>2. /\ pc[c] = "calling" /\ k = loc[c].calls[1]
      /\ \A i \in DOMAIN rest : SuiteCall(rest[i])'
      /\ {"calls", "next"} \subseteq DOMAIN loc[c]
  BY <1>1, EvalCallAt
<1>3. PICK total : k = NewRun(c, "blocked", total, TRUE)
  BY <1>2 DEF BlockedCalls
<1>4. /\ Unrecorded(n) /\ loc[c].next = "idle" /\ OffRuns(rest)
      /\ k.table = "eval_runs"
  BY <1>1, <1>3 DEF BlockedCalls, NewRun, Inserting
<1>5. \A status, sum, done : k = NewRun(c, status, sum, done) =>
         /\ k.row.id = n /\ k.row.status = status /\ k.row.done = done
         /\ IsRecord(k.row) /\ {"id", "status", "total"} \subseteq DOMAIN k.row
         /\ \/ EvalsHold'
            \/ /\ CallMade(c, rest) /\ db'["eval_runs"] = db["eval_runs"] \cup {k.row}
               /\ db'["agents"] = db["agents"]
  BY <1>1, <1>4, NewRunMade
<1>6. /\ k.row.id = n /\ k.row.status = "blocked" /\ k.row.done = TRUE
      /\ IsRecord(k.row) /\ {"id", "status", "total"} \subseteq DOMAIN k.row
      /\ \/ EvalsHold'
         \/ /\ CallMade(c, rest) /\ db'["eval_runs"] = db["eval_runs"] \cup {k.row}
            /\ db'["agents"] = db["agents"]
  BY <1>3, <1>5
<1>7. SUFFICES ASSUME CallMade(c, rest), db'["eval_runs"] = db["eval_runs"] \cup {k.row},
                      db'["agents"] = db["agents"]
               PROVE  EvalsHold'
  BY <1>6
<1>8. ASSUME pc'[c] # "idle" PROVE EvalRequest(c)'
  <2>1. /\ pc'[c] = IF rest # <<>> THEN "calling" ELSE loc[c].next
        /\ rest # <<>> => pc'[c] = "calling" /\ loc'[c].calls = rest
        /\ pc'[c] # "idle" => \A f \in DOMAIN loc[c] \ {"calls"} : loc'[c][f] = loc[c][f]
    BY <1>2, <1>7, CallMadeLeaves
  <2>2. pc'[c] = "calling" /\ loc'[c].calls = rest /\ loc'[c].next = "idle"
    BY <1>2, <1>4, <1>8, <2>1
  <2>3. OffRuns(rest)'
    BY <1>4, <1>7, SameForAgents
  <2>4. Reporting(c)'
    BY <2>2, <2>3 DEF Reporting
  <2>5. EvalCalls(c)'
    <3> HIDE DEF Reporting, SuiteCall
    <3> QED
      BY <1>2, <2>2, <2>4 DEF EvalCalls
  <2> QED
    BY <2>2, <2>5 DEF EvalRequest, AnsweringPC
<1> QED
  BY <1>1, <1>4, <1>5, <1>6, <1>7, <1>8, NewRunHolds

\* A run with cases to answer is put on record.
LEMMA StartHolds ==
  ASSUME CallsInv, BillRequests, BillRows, EvalsHold, area = "evals", NEW c \in Clients,
         StoreCall(c), StartCalls(c)
  PROVE  EvalsHold'
<1>1. PICK k, rest, n : /\ k = Head(loc[c].calls) /\ rest = Tail(loc[c].calls)
                        /\ n = Number(c)
  OBVIOUS
<1>2. /\ pc[c] = "calling" /\ k = loc[c].calls[1] /\ BillRequest(c)
      /\ {"op", "n", "org", "calls", "next"} \subseteq DOMAIN loc[c]
      /\ UNCHANGED postgres
  BY <1>1, EvalCallAt
<1>3. PICK status, total, done : /\ status = "completed" /\ done = FALSE
                                 /\ total = Cardinality(loc[c].cases)
                                 /\ k = NewRun(c, status, total, done)
  BY <1>2 DEF StartCalls
<1>4. /\ Unrecorded(n) /\ loc[c].next = "run.answer" /\ rest = <<>>
      /\ InCases(c) /\ loc[c].cases # {} /\ loc[c].passed = 0 /\ loc[c].failed = 0
      /\ k.table = "eval_runs"
  BY <1>1, <1>3 DEF StartCalls, NewRun, Inserting
<1>5. /\ k.row.id = n /\ k.row.status = status /\ k.row.total = total /\ k.row.done = done
      /\ IsRecord(k.row) /\ {"id", "status", "total"} \subseteq DOMAIN k.row
      /\ \/ EvalsHold'
         \/ /\ CallMade(c, rest) /\ db'["eval_runs"] = db["eval_runs"] \cup {k.row}
            /\ db'["agents"] = db["agents"] /\ db'["organizations"] = db["organizations"]
            /\ db'["eval_results"] = db["eval_results"] /\ OrgKnown(c)
  BY <1>1, <1>3, <1>4, NewRunMade
<1>6. SUFFICES ASSUME CallMade(c, rest), db'["eval_runs"] = db["eval_runs"] \cup {k.row},
                      db'["agents"] = db["agents"], db'["organizations"] = db["organizations"],
                      db'["eval_results"] = db["eval_results"], OrgKnown(c)
               PROVE  EvalsHold'
  BY <1>5
<1>7. /\ pc'[c] = loc[c].next
      /\ pc'[c] # "idle" => /\ DOMAIN loc'[c] = DOMAIN loc[c]
                            /\ \A f \in DOMAIN loc[c] \ {"calls"} : loc'[c][f] = loc[c][f]
                            /\ Number(c)' = Number(c)
  BY <1>2, <1>4, <1>6, CallMadeLeaves
<1>8. {"cases", "passed", "failed", "agent"} \subseteq DOMAIN loc[c] /\ loc[c].op = "evaluate"
  BY <1>2, <1>4 DEF InCases, BillRequest, Placed, AnsweringPC
<1>9. /\ pc'[c] = "run.answer" /\ Number(c)' = n
      /\ {"cases", "passed", "failed", "agent"} \subseteq DOMAIN loc'[c]
      /\ loc'[c].cases = loc[c].cases /\ loc'[c].passed = 0 /\ loc'[c].failed = 0
      /\ loc'[c].agent = loc[c].agent /\ loc'[c].op = "evaluate" /\ loc'[c].org = loc[c].org
  <2>1. pc'[c] = "run.answer" /\ pc'[c] # "idle"
    BY <1>4, <1>7
  <2> HIDE DEF Number
  <2> QED
    BY <1>1, <1>2, <1>4, <1>7, <1>8, <2>1
<1>10. InCases(c)'
  <2>1. KnownAgent(loc[c].agent)
    BY <1>4 DEF InCases
  <2>2. KnownAgent(loc[c].agent)'
    BY <1>6, <1>9, <2>1 DEF KnownAgent
  <2> HIDE DEF KnownAgent
  <2> QED
    BY <1>4, <1>9, <2>2 DEF InCases
<1>11. Tally(c)'
  <2>1. ResultsOf(n)' = {}
    BY <1>4, <1>6 DEF Unrecorded, ResultsOf
  <2>2. Pending(c)' = {}
    BY <1>9 DEF Pending
  <2>3. ResultsOf(Number(c))' = {}
    BY <1>9, <2>1 DEF ResultsOf
  <2>4. Cardinality({}) = 0
    BY FS_EmptySet
  <2>5. \A S : S = {} => {r \in S : r.result = "pass"} = {}
    OBVIOUS
  <2> HIDE DEF Number, ResultsOf, Pending
  <2> QED
    BY <1>9, <2>2, <2>3, <2>4, <2>5 DEF Tally
<1>12. RunAtHand(c, k.row)'
  <2>1. total \in Nat \ {0}
    <3>1. IsFiniteSet(loc[c].cases) /\ loc[c].cases # {}
      BY <1>4 DEF InCases
    <3>2. Cardinality(loc[c].cases) \in Nat
      BY <3>1, FS_CardinalityType
    <3>3. Cardinality(loc[c].cases) # 0
      BY <3>1, FS_EmptySet
    <3> QED
      BY <1>3, <3>2, <3>3
  <2>2. total = 0 + 0 + Cardinality(loc[c].cases)
    BY <1>3, <2>1
  <2> HIDE DEF Number
  <2> QED
    BY <1>3, <1>5, <1>9, <2>1, <2>2 DEF RunAtHand
<1>13. Answering(c)'
  <2>1. OrgKnown(c)'
    BY <1>2, <1>6, <1>9 DEF OrgKnown
  <2> HIDE DEF RunAtHand
  <2> QED
    BY <1>6, <1>10, <1>11, <1>12, <2>1 DEF Answering
<1>14. EvalRequest(c)' /\ Working(c)'
  <2>1. Working(c)'
    BY <1>9 DEF Working, InFlight, AnsweringPC
  <2> HIDE DEF Answering
  <2> QED
    BY <1>9, <1>13, <2>1 DEF EvalRequest, AnsweringPC
<1> QED
  BY <1>1, <1>3, <1>4, <1>5, <1>6, <1>14, NewRunHolds

\* A run that is over is put on record with what was counted, which adds up.
LEMMA FinishHolds ==
  ASSUME CallsInv, BillRequests, BillRows, EvalsHold, area = "evals", NEW c \in Clients,
         StoreCall(c), FinishCalls(c)
  PROVE  EvalsHold'
<1>1. PICK k, rest, n : /\ k = Head(loc[c].calls) /\ rest = Tail(loc[c].calls)
                        /\ n = Number(c)
  OBVIOUS
<1>2. /\ pc[c] = "calling" /\ InFlight(c) /\ k = loc[c].calls[1] /\ SuiteCall(k)
      /\ \A i \in DOMAIN rest : SuiteCall(rest[i])'
      /\ {"calls", "next"} \subseteq DOMAIN loc[c]
      /\ UNCHANGED <<postgres, area, served, cuts>>
      /\ \/ Refused(k) \/ FindsNothing(k)
         \/ /\ CallMade(c, rest)
            /\ k.call = "update" => db' = UpdateRow(k.table, k.id, k.row)
  BY <1>1, EvalCallAt
<1>3. PICK patch : patch = [passed |-> loc[c].passed, failed |-> loc[c].failed, done |-> TRUE]
  OBVIOUS
<1>4. /\ DOMAIN patch = {"passed", "failed", "done"} /\ patch.done = TRUE
      /\ patch.passed = loc[c].passed /\ patch.failed = loc[c].failed
  BY <1>3
<1>5. k = Updating("eval_runs", n, patch)
  BY <1>1, <1>2, <1>3 DEF FinishCalls
<1>6. k.call = "update" /\ k.table = "eval_runs" /\ k.id = n /\ k.row = patch
  BY <1>5 DEF Updating
<1>7. /\ loc[c].next = "idle" /\ Answering(c) /\ loc[c].cases = {} /\ OffRuns(rest)
  BY <1>1 DEF FinishCalls
<1>8. ~Refused(k) /\ ~FindsNothing(k)
  <2>1. ~RefersToNothing("eval_runs", patch)
    BY <1>4, EvalReferences DEF RefersToNothing, RefersTo
  <2> QED
    BY <1>6, <2>1 DEF Refused, FindsNothing
<1>9. CallMade(c, rest) /\ db' = UpdateRow("eval_runs", n, patch)
  BY <1>2, <1>6, <1>8
<1>10. /\ DOMAIN db' = DOMAIN db /\ db'["eval_results"] = db["eval_results"]
       /\ db'["agents"] = db["agents"] /\ db'["organizations"] = db["organizations"]
  BY <1>1, <1>6, EvalCallLeaves DEF EvalsHold
<1>11. PICK run \in db["eval_runs"] : RunAtHand(c, run)
  BY <1>7 DEF Answering
<1>12. /\ run.id = n /\ IsRecord(run) /\ {"id", "status", "total"} \subseteq DOMAIN run
       /\ \A r \in db["eval_runs"] : r.id = n => r = run
  BY <1>1, <1>11 DEF RunAtHand, EvalsHold, EvalRows
<1>13. PICK over : over = Over(patch, run)
  OBVIOUS
<1>14. /\ IsRecord(over) /\ {"id", "status", "total"} \subseteq DOMAIN over
       /\ over.id = n /\ over.total = run.total /\ over.done = TRUE
       /\ over.passed = loc[c].passed /\ over.failed = loc[c].failed
  <2>1. /\ DOMAIN Over(patch, run) = DOMAIN patch \cup DOMAIN run
        /\ \A f \in DOMAIN patch : Over(patch, run)[f] = patch[f]
        /\ \A f \in DOMAIN run : f \notin DOMAIN patch => Over(patch, run)[f] = run[f]
        /\ IsRecord(Over(patch, run))
    BY ZenonT(30), OverAny
  <2> HIDE DEF IsRecord
  <2> QED
    BY <1>4, <1>12, <1>13, <2>1
<1>15. db'["eval_runs"] = {r \in db["eval_runs"] : r.id # n} \cup {over}
  <2>1. "eval_runs" \in DOMAIN db
    BY DEF EvalsHold, EvalRows, EvalTables
  <2>2. db'["eval_runs"] = {IF r.id = n THEN Over(patch, r) ELSE r : r \in db["eval_runs"]}
    BY <1>9, <2>1 DEF UpdateRow
  <2> QED
    BY <1>12, <1>13, <2>2
<1>16. RunsAround(n)
  <2>1. \A r : r.id # n => r # over
    BY <1>14
  <2> QED
    BY <1>10, <1>15, <2>1 DEF RunsAround
<1>17. SuiteRows'
  BY <1>1, <1>2, SuiteRowsStay DEF EvalsHold
<1>18. \A r \in db'["eval_runs"] : r.id = n => r = over
  BY <1>15
<1>19. RunRows(n)'
  <2>1. \A r : IsRecord(r)' <=> IsRecord(r)
    BY DEF IsRecord
  <2>2. \A r \in db["eval_results"] : r.runId = n => IsRecord(r) /\ r.id = <<n, r.id[2]>>
    BY DEF EvalsHold, EvalRows
  <2> HIDE DEF IsRecord
  <2> QED
    BY <1>10, <1>14, <1>18, <2>1, <2>2 DEF RunRows
<1>20. AddsUp(over)'
  <2>1. Pending(c) = {}
    BY <1>7 DEF Pending, AnsweringPC
  <2>2. PICK S : S = ResultsOf(n)
    OBVIOUS
  <2>3. /\ Cardinality(S) = loc[c].passed + loc[c].failed
        /\ Cardinality({r \in S : r.result = "pass"}) = loc[c].passed
    <3> HIDE DEF ResultsOf, Number
    <3> QED
      BY <1>1, <1>7, <2>1, <2>2, TallyOnRecord
  <2>4. ResultsOf(over.id)' = S
    BY <1>10, <1>14, <2>2 DEF ResultsOf
  <2>5. run.total \in Nat \ {0} /\ run.total = loc[c].passed + loc[c].failed
    <3>1. Cardinality(loc[c].cases) = 0
      BY <1>7, FS_EmptySet
    <3>2. loc[c].passed \in Nat /\ loc[c].failed \in Nat
      BY <1>7 DEF Answering, InCases
    <3>3. /\ run.total \in Nat \ {0}
          /\ run.total = loc[c].passed + loc[c].failed + Cardinality(loc[c].cases)
      BY <1>11 DEF RunAtHand
    <3> QED
      BY <3>1, <3>2, <3>3
  <2> HIDE DEF ResultsOf
  <2> QED
    BY <1>14, <2>3, <2>4, <2>5 DEF AddsUp
<1>21. ASSUME NEW r \in db'["eval_runs"], r.id = n PROVE InHand(r)'
  BY <1>14, <1>18, <1>20, <1>21 DEF InHand
<1>22. /\ \E where : pc' = [pc EXCEPT ![c] = where]
       /\ \A d \in Clients \ {c} : loc'[d] = loc[d]
       /\ pc'[c] = IF rest # <<>> THEN "calling" ELSE loc[c].next
       /\ rest # <<>> => pc'[c] = "calling" /\ loc'[c].calls = rest
       /\ pc'[c] # "idle" => \A f \in DOMAIN loc[c] \ {"calls"} : loc'[c][f] = loc[c][f]
  BY <1>2, <1>9, CallMadeLeaves
<1>23. PICK where : pc' = [pc EXCEPT ![c] = where] /\ pc'[c] = where
  BY <1>22 DEF BillRequests
<1>24. ASSUME pc'[c] # "idle" PROVE EvalRequest(c)'
  <2>1. pc'[c] = "calling" /\ loc'[c].calls = rest /\ loc'[c].next = "idle"
    BY <1>2, <1>7, <1>22, <1>24
  <2>2. OffRuns(rest)'
    BY <1>7, <1>10, SameForAgents
  <2>3. Reporting(c)'
    BY <2>1, <2>2 DEF Reporting
  <2>4. EvalCalls(c)'
    <3> HIDE DEF Reporting, SuiteCall
    <3> QED
      BY <1>2, <2>1, <2>3 DEF EvalCalls
  <2> QED
    BY <2>1, <2>4 DEF EvalRequest, AnsweringPC
<1> QED
  BY <1>1, <1>2, <1>10, <1>16, <1>17, <1>19, <1>21, <1>22, <1>23, <1>24, EvalCallHolds

LEMMA EvalsCallHolds ==
  ASSUME CallsInv, BillRequests, BillRows, EvalsHold, area = "evals", NEW c \in Clients,
         StoreCall(c)
  PROVE  EvalsHold'
<1>1. PICK k, rest : k = Head(loc[c].calls) /\ rest = Tail(loc[c].calls)
  OBVIOUS
<1>2. EvalCalls(c) /\ loc[c].calls # <<>>
  BY <1>1, EvalCallAt
<1>3. CASE CaseCalls(c)
  <2>1. Scoring(loc[c].calls)
    BY <1>3 DEF CaseCalls
  <2>2. Head(loc[c].calls).table \in BillTables \cup {"eval_results"}
    BY <1>2, <2>1, ScoringTail
  <2> QED
    BY <1>3, <2>2, CaseRecordHolds, CaseResultHolds
<1> QED
  BY <1>2, <1>3, ReportingHolds, BlockedHolds, StartHolds, FinishHolds DEF EvalCalls

-----------------------------------------------------------------------------
(***************************************************************************)
(* Evaluations: the inductive invariant holds.                             *)
(***************************************************************************)
LEMMA EvalsInitially == Init => EvalsInv
<1> SUFFICES ASSUME Init PROVE EvalsInv
  OBVIOUS
<1>1. PICK a \in Areas : \E seed \in Seeds[a] : RequestsInit(a, seed.rows)
  BY DEF Init
<1>2. PICK seed \in Seeds[a] : RequestsInit(a, seed.rows)
  BY <1>1
<1>3. /\ area = a /\ db = seed.rows
      /\ pc = [c \in Clients |-> "idle"]
  BY <1>2 DEF RequestsInit
<1>4. EvalsFit(area, db) /\ RowsAreKept(area, db)
  BY <1>2, <1>3, PlatformAssumption
<1>5. area = "evals" <=> "eval_runs" \in DOMAIN db
  BY <1>4 DEF EvalsFit
<1>6. EvalRequests
  BY <1>3 DEF EvalRequests, InFlight
<1>7. ASSUME area = "evals" PROVE EvalRows /\ \A r \in db["eval_runs"] : InHand(r)
  <2>1. /\ EvalTables \subseteq DOMAIN db
        /\ db["eval_runs"] = {} /\ db["eval_results"] = {}
        /\ \A s \in db["eval_suites"] : "agentId" \in DOMAIN s /\ KnownAgent(s.agentId)
        /\ \A k \in db["eval_cases"] : {"id", "suiteId"} \subseteq DOMAIN k /\ k.id \in Int
    BY <1>4, <1>5, <1>7 DEF EvalsFit, EvalTables, KnownAgent
  <2>2. \A s \in db["eval_suites"] : IsRecord(s)
    BY <1>4, <2>1 DEF RowsAreKept, IsRecord, EvalTables
  <2> HIDE DEF IsRecord, KnownAgent
  <2> QED
    BY <2>1, <2>2 DEF EvalRows
<1> QED
  BY <1>5, <1>6, <1>7 DEF EvalsInv

LEMMA EvalsKept == EvalsInv /\ BillInv /\ CallsInv /\ [Next]_vars => EvalsInv'
<1> SUFFICES ASSUME EvalsInv, BillInv, CallsInv, [Next]_vars PROVE EvalsInv'
  OBVIOUS
<1>1. UNCHANGED area /\ DOMAIN db' = DOMAIN db
  BY Frame, TablesStay
<1>2. CASE area # "evals"
  BY <1>1, <1>2 DEF EvalsInv
<1>3. CASE area = "evals"
  <2>1. EvalsHold
    BY <1>3 DEF EvalsInv, EvalsHold
  <2>2. BillRequests /\ BillRows
    BY <1>3 DEF BillInv, AskingAreas
  <2>3. EvalsHold' => EvalsInv'
    BY <1>1, <1>3, <2>1 DEF EvalsInv, EvalsHold
  <2>4. CASE UNCHANGED requestVars
    <3>1. UNCHANGED <<postgres, db, pc, loc, served, cuts>>
      BY <2>4 DEF requestVars
    <3>2. PICK n : n = 0 /\ RunsAround(n)
      BY <3>1 DEF RunsAround
    <3>3. ASSUME NEW d \in Clients, InFlight(d)
          PROVE  /\ EvalRequest(d)' /\ Number(d)' = Number(d)
                 /\ Working(d)' <=> Working(d)
      <4>1. n # Number(d)
        BY <2>2, <3>2, <3>3 DEF BillRequests, BillRequest
      <4>2. EvalRequest(d)
        BY <2>1, <3>3 DEF EvalsHold, EvalRequests
      <4> QED
        BY <3>1, <3>2, <4>1, <4>2, EvalRequestStays
    <3>4. \A d \in Clients : InFlight(d)' <=> InFlight(d)
      BY <3>1 DEF InFlight
    <3>5. EvalRequests'
      <4> HIDE DEF InFlight, EvalRequest
      <4> QED
        BY <3>3, <3>4 DEF EvalRequests
    <3>6. EvalRows'
      BY <2>1, <3>1 DEF EvalsHold, EvalRows, IsRecord, KnownAgent
    <3>7. ASSUME NEW r \in db'["eval_runs"] PROVE InHand(r)'
      <4>1. InHand(r)
        BY <2>1, <3>1 DEF EvalsHold
      <4>2. AddsUp(r)' <=> AddsUp(r)
        BY <3>1 DEF AddsUp, ResultsOf
      <4>3. \A d \in Clients : Working(d) => Working(d)' /\ Number(d)' = Number(d)
        BY <3>3 DEF Working
      <4> QED
        BY <3>1, <4>1, <4>2, <4>3 DEF InHand
    <3> QED
      BY <2>3, <3>5, <3>6, <3>7 DEF EvalsHold
  <2>5. ASSUME NEW c \in Clients,
               EvalsSubmit(c) \/ EvalsStep(c) \/ StoreCall(c) \/ CutOff(c)
        PROVE  EvalsHold'
    BY <1>3, <2>1, <2>2, <2>5, EvalsSubmitHolds, EvalsStepHolds, EvalsCallHolds, EvalCutHolds
  <2> QED
    BY <1>3, <2>3, <2>4, <2>5, EvalFrame
<1> QED
  BY <1>2, <1>3

-----------------------------------------------------------------------------
(***************************************************************************)
(* What was asked: the inductive invariant.                                *)
(***************************************************************************)
\* A request that is about to put its last call on record; the row; and the call.
OnTheWay(c) ==
  /\ pc[c] = "calling"
  /\ \E i \in DOMAIN loc[c].calls : loc[c].calls[i].table = "ai_runs"
Entry(c) == loc[c].calls[1].row
Of(r) == [id |-> r.id, kind |-> "completion", status |-> r.status]

EntryFits(c) ==
  /\ Of(Entry(c)) \in asked
  /\ IF area = "knowledge" THEN Entry(c).agentId = None ELSE loc[c].next \in AnsweringPC

Accounted(a) ==
  \/ \E r \in db["ai_runs"] : r.id = a.id
  \/ \E c \in Clients : OnTheWay(c) /\ Entry(c).id = a.id

\* Requests about knowledge are of organizations on record.
OrgsKnown ==
  /\ "memberships" \in DOMAIN db
  /\ \A m \in db["memberships"] : \E o \in db["organizations"] : o.id = m.organizationId
  /\ \A c \in Clients : InFlight(c) => OrgKnown(c)

AskedHolds ==
  /\ \A a \in asked : a.kind = "completion" \/ Embedded(a)
  /\ \A r \in db["ai_runs"] : Of(r) \in asked
  /\ \A c \in Clients : OnTheWay(c) => EntryFits(c)
  /\ \/ cuts \cap Asking # {}
     \/ \A a \in asked : a.kind = "completion" => Accounted(a)
  /\ area = "knowledge" => OrgsKnown

AskedInv == IF area \in AskingAreas THEN AskedHolds ELSE asked = {}

LEMMA AskedNowhereElse ==
  ASSUME [Next]_vars, area \notin AskingAreas PROVE UNCHANGED asked
<1>0. area \notin {"knowledge", "evals"}
  BY DEF AskingAreas
<1>1. CASE UNCHANGED vars
  BY <1>1 DEF vars, aiVars
<1>2. CASE Environment
  BY <1>2 DEF Environment, aiVars
<1>3. ASSUME NEW c \in Clients, Submit(c) PROVE UNCHANGED aiVars
  <2>1. AgentsSubmit(c) => UNCHANGED aiVars
    BY DEF AgentsSubmit, CreateAgent, SaveAgent, ChangeAgentStatus, SeedFleet
  <2> QED
    BY <1>0, <1>3, <2>1 DEF Submit, KnowledgeSubmit, EvalsSubmit
<1>4. ASSUME NEW c \in Clients, Step(c) PROVE UNCHANGED aiVars
  <2>1. AgentsStep(c) => UNCHANGED aiVars
    BY DEF AgentsStep, InsertAgent, ReadAgent, SaveAgentVersion, SetAgentStatus, ReadFleet, SeedNext
  <2> QED
    BY <1>0, <1>4, <2>1 DEF Step, KnowledgeStep, EvalsStep
<1> QED
  BY <1>1, <1>2, <1>3, <1>4 DEF Next, aiVars

LEMMA AskedFrame ==
  ASSUME [Next]_vars, area \in AskingAreas
  PROVE  \/ UNCHANGED <<postgres, area, db, pc, loc, served, cuts, asked>>
         \/ \E c \in Clients :
               \/ (KnowledgeSubmit(c) \/ EvalsSubmit(c)) /\ UNCHANGED asked
               \/ KnowledgeStep(c) \/ EvalsStep(c)
               \/ (StoreCall(c) \/ CutOff(c)) /\ UNCHANGED asked
<1>0. area \in {"knowledge", "evals"}
  BY DEF AskingAreas
<1>1. CASE UNCHANGED vars
  BY <1>1 DEF vars, aiVars, requestVars
<1>2. CASE Environment
  BY <1>0, <1>2
     DEF Environment, LockExpires, WindowPasses, DayPasses, Restart, aiVars, requestVars
<1>3. ASSUME NEW c \in Clients, Submit(c)
      PROVE  (KnowledgeSubmit(c) \/ EvalsSubmit(c)) /\ UNCHANGED asked
  <2>1. KnowledgeSubmit(c) \/ EvalsSubmit(c)
    BY <1>0, <1>3 DEF Submit, AccountsSubmit, IntakeSubmit, AgentsSubmit, NightlySubmit,
        WorkspaceSubmit, SystemsSubmit, Calls
  <2>2. UNCHANGED aiVars
    BY <2>1 DEF KnowledgeSubmit, CreateSource, PasteDocument, KnowledgeWrite, DeleteDocument,
       AskKnowledge, GenerateStrategy, EvalsSubmit, CreateSuite, AddCase, DeleteCase, RunSuite
  <2> QED
    BY <2>1, <2>2 DEF aiVars
<1>4. ASSUME NEW c \in Clients, Step(c)
      PROVE  \/ KnowledgeStep(c) \/ EvalsStep(c)
             \/ (StoreCall(c) \/ CutOff(c)) /\ UNCHANGED asked
  BY <1>0, <1>4 DEF Step, AccountsStep, IntakeStep, AgentsStep, NightlyStep, WorkspaceStep,
      SystemsStep, StoresStep, aiVars
<1> QED
  BY <1>1, <1>2, <1>3, <1>4 DEF Next

LEMMA WayStays ==
  ASSUME NEW d, pc'[d] = pc[d], loc'[d] = loc[d]
  PROVE  (OnTheWay(d)' <=> OnTheWay(d)) /\ Entry(d)' = Entry(d)
BY DEF OnTheWay, Entry

\* One request goes on, what it was on the way with is put on record or cut off, and what
\* is asked anew is on the way.
LEMMA AskedGoesOn ==
  ASSUME AskedHolds, NEW c \in Clients, DOMAIN pc = Clients, NEW where,
         pc' = [pc EXCEPT ![c] = where], \A d \in Clients \ {c} : loc'[d] = loc[d],
         UNCHANGED <<postgres, area>>, DOMAIN db' = DOMAIN db,
         db'["organizations"] = db["organizations"],
         area = "knowledge" => db'["memberships"] = db["memberships"],
         cuts \subseteq cuts',
         NEW rows, db'["ai_runs"] = db["ai_runs"] \cup rows, \A r \in rows : Of(r) \in asked,
         NEW more, asked' = asked \cup more,
         \A a \in more : Embedded(a) \/ (OnTheWay(c)' /\ a = Of(Entry(c)')),
         OnTheWay(c)' => EntryFits(c)',
         OnTheWay(c) => cuts' \cap Asking # {} \/ \E r \in rows : r.id = Entry(c).id,
         area = "knowledge" /\ where # "idle" => OrgKnown(c)'
  PROVE  AskedHolds'
<1>1. \A d \in Clients \ {c} : pc'[d] = pc[d] /\ (OnTheWay(d)' <=> OnTheWay(d)) /\ Entry(d)' = Entry(d)
  BY WayStays
<1>2. \A r : Of(r)' = Of(r)
  BY DEF Of
<1>3. \A a : Embedded(a)' <=> Embedded(a)
  BY DEF Embedded
<1>4. \A a \in asked' : a.kind = "completion" \/ Embedded(a)'
  <2>1. \A r : Of(r).kind = "completion"
    BY DEF Of
  <2> HIDE DEF OnTheWay, Embedded, Of, Entry
  <2> QED
    BY <1>3, <2>1 DEF AskedHolds
<1>5. \A r \in db'["ai_runs"] : Of(r)' \in asked'
  BY <1>2 DEF AskedHolds
<1>6. ASSUME NEW d \in Clients, OnTheWay(d)' PROVE EntryFits(d)'
  <2>1. CASE d # c
    <3>1. EntryFits(d) /\ pc'[d] = pc[d] /\ loc'[d] = loc[d] /\ Entry(d)' = Entry(d)
      BY <1>1, <1>6, <2>1 DEF AskedHolds
    <3>2. Of(Entry(d))' = Of(Entry(d))
      BY <3>1 DEF Of
    <3> HIDE DEF Of, Entry
    <3> QED
      BY <3>1, <3>2 DEF EntryFits
  <2> QED
    BY <1>6, <2>1
<1>7. ASSUME cuts' \cap Asking = {}, NEW a \in asked', a.kind = "completion"
      PROVE  Accounted(a)'
  <2>1. CASE a \in more
    <3>1. ~Embedded(a)
      BY <1>7 DEF Embedded
    <3>2. OnTheWay(c)' /\ a.id = Entry(c)'.id
      BY <2>1, <3>1 DEF Of
    <3> QED
      BY <3>2 DEF Accounted
  <2>2. CASE a \in asked
    <3>1. Accounted(a)
      BY <1>7, <2>2 DEF AskedHolds
    <3>2. CASE \E r \in db["ai_runs"] : r.id = a.id
      BY <3>2 DEF Accounted
    <3>3. ASSUME NEW d \in Clients, OnTheWay(d), Entry(d).id = a.id PROVE Accounted(a)'
      <4>1. CASE d = c
        <5>1. PICK r \in rows : r.id = Entry(c).id
          BY <1>7, <3>3, <4>1
        <5> QED
          BY <3>3, <4>1, <5>1 DEF Accounted
      <4>2. CASE d # c
        <5>1. OnTheWay(d)' /\ Entry(d)'.id = a.id
          BY <1>1, <3>3, <4>2
        <5> QED
          BY <5>1 DEF Accounted
      <4> QED
        BY <4>1, <4>2
    <3> QED
      BY <3>1, <3>2, <3>3 DEF Accounted
  <2> QED
    BY <1>7, <2>1, <2>2
<1>8. ASSUME area = "knowledge" PROVE OrgsKnown'
  <2>1. OrgsKnown
    BY <1>8 DEF AskedHolds
  <2>2. ASSUME NEW d \in Clients, InFlight(d)' PROVE OrgKnown(d)'
    <3>1. CASE d = c
      BY <1>8, <2>2, <3>1 DEF InFlight
    <3>2. CASE d # c
      <4>1. pc'[d] = pc[d] /\ loc'[d] = loc[d] /\ InFlight(d)
        BY <2>2, <3>2 DEF InFlight
      <4> QED
        BY <2>1, <4>1 DEF OrgsKnown, OrgKnown
    <3> QED
      BY <3>1, <3>2
  <2> HIDE DEF InFlight, OrgKnown
  <2> QED
    BY <1>8, <2>1, <2>2 DEF OrgsKnown
<1> HIDE DEF Of, Entry, OnTheWay, EntryFits, Accounted, Embedded, OrgsKnown
<1> QED
  BY <1>4, <1>5, <1>6, <1>7, <1>8 DEF AskedHolds

\* No record of a model's call is among the calls that are left.
NoRun(s) == \A i \in DOMAIN s : s[i].table # "ai_runs"

LEMMA NoRunLeft ==
  ASSUME NEW s, IsSequence(s), s # <<>>
  PROVE  /\ NoRun(s) => Head(s).table # "ai_runs" /\ NoRun(Tail(s))
         /\ NoBill(s) \/ (\E c, j : OwesBoth(c, s, j) \/ OwesLast(c, s, j)) => NoRun(s)
<1>1. DOMAIN s = 1 .. Len(s) /\ Len(s) \in Nat \ {0} /\ Head(s) = s[1]
  BY SequenceSpan, TailOf
<1>2. NoRun(s) => Head(s).table # "ai_runs" /\ NoRun(Tail(s))
  <2>1. /\ IsSequence(Tail(s)) /\ \A i \in 1 .. Len(Tail(s)) : Tail(s)[i] = s[i + 1] /\ i + 1 \in 2 .. Len(s)
    BY TailOf
  <2>2. DOMAIN Tail(s) = 1 .. Len(Tail(s))
    BY <2>1, SequenceSpan
  <2> QED
    BY <1>1, <2>1, <2>2 DEF NoRun
<1>3. \A c, j, meter : Metering(c, j, meter).table = "usage_records"
  BY DEF Metering, Inserting
<1>4. ASSUME NEW m \in {0, 1, 2}, OffBillAfter(s, m),
             \A i \in 1 .. m : s[i].table = "usage_records"
      PROVE  NoRun(s)
  BY <1>1, <1>4 DEF OffBillAfter, NoRun, BillTables
<1>5. NoBill(s) => NoRun(s)
  BY <1>4 DEF NoBill
<1>6. ASSUME NEW c, NEW j, OwesBoth(c, s, j) PROVE NoRun(s)
  BY <1>3, <1>4, <1>6 DEF OwesBoth
<1>7. ASSUME NEW c, NEW j, OwesLast(c, s, j) PROVE NoRun(s)
  BY <1>3, <1>4, <1>7 DEF OwesLast
<1> QED
  BY <1>2, <1>5, <1>6, <1>7

\* Where there is one, it is the first, and all that is recorded of the call is left.
LEMMA OnTheWayOwes ==
  ASSUME CallsInv, BillRequests, NEW c \in Clients, OnTheWay(c)
  PROVE  /\ Call(c) \in Nat /\ Fresh(c, Call(c))
         /\ \E status \in Outcome : OwesAll(c, loc[c].calls, Call(c), status)
<1>1. BillCalls(c) /\ pc[c] = "calling" /\ loc[c].calls # <<>> /\ IsSequence(loc[c].calls)
  BY DEF OnTheWay, BillRequests, BillRequest, InFlight, CallsInv, OwnCalls
<1>2. PICK s : s = loc[c].calls
  OBVIOUS
<1>3. ~NoRun(s)
  BY <1>2 DEF OnTheWay, NoRun
<1>4. ~NoBill(s) /\ \A j : ~OwesBoth(c, s, j) /\ ~OwesLast(c, s, j)
  BY <1>1, <1>2, <1>3, NoRunLeft
<1> HIDE DEF Call, Fresh, OwesAll, NoBill, OwesBoth, OwesLast
<1> QED
  BY <1>1, <1>2, <1>4 DEF BillCalls

LEMMA EntryIsAtHand ==
  ASSUME NEW c, NEW j, NEW status, OwesAll(c, loc[c].calls, j, status)
  PROVE  /\ Head(loc[c].calls) = Asked(c, j, Entry(c).agentId, status)
         /\ Entry(c) = AiRunRow(c, j, Entry(c).agentId, status)
         /\ Entry(c).id = <<Number(c), j>> /\ Entry(c).status = status
         /\ NoRun(Tail(loc[c].calls)) /\ Tail(loc[c].calls) # <<>>
<1>1. PICK s, agent : s = loc[c].calls /\ agent = s[1].row.agentId /\ agent = Entry(c).agentId
  BY DEF Entry
<1>2. /\ s # <<>> /\ Tail(s) # <<>> /\ Head(s) = Asked(c, j, agent, status)
      /\ OwesBoth(c, Tail(s), j) \/ OwesLast(c, Tail(s), j)
  BY <1>1, OwedAll
<1>3. IsSequence(Tail(s))
  BY <1>2 DEF OwesBoth, OwesLast, OffBillAfter
<1>4. NoRun(Tail(s))
  BY <1>2, <1>3, NoRunLeft
<1>5. s[1] = Asked(c, j, agent, status)
  BY <1>1 DEF OwesAll
<1>6. Entry(c) = AiRunRow(c, j, agent, status)
  BY <1>1, <1>5 DEF Entry, Asked, Inserting
<1>7. Entry(c).id = <<Number(c), j>> /\ Entry(c).status = status
  BY <1>6 DEF AiRunRow
<1> QED
  BY <1>1, <1>2, <1>4, <1>6, <1>7

LEMMA AskedProceeds ==
  ASSUME AskedHolds, CallsInv, BillRequests, BillRows, area \in AskingAreas, NEW c \in Clients,
         InFlight(c), pc[c] # "calling", Proceeds(c),
         UNCHANGED <<postgres, area, db, served, cuts>>
  PROVE  AskedHolds'
<1>1. DOMAIN pc = Clients /\ DOMAIN loc = Clients /\ BillRequest(c)
  BY DEF BillRequests
<1>2. ~OnTheWay(c)
  BY DEF OnTheWay
<1>3. PICK none : none = {}
  OBVIOUS
<1>4. db'["ai_runs"] = db["ai_runs"] \cup none /\ \A r \in none : Of(r) \in asked
  BY <1>3
<1>5. ASSUME NEW where, NEW locals, Goto(c, where, locals),
             DOMAIN locals \cap {"op", "n", "org"} = {}
      PROVE  /\ pc' = [pc EXCEPT ![c] = where] /\ pc'[c] = where
             /\ \A d \in Clients \ {c} : loc'[d] = loc[d]
             /\ \A f \in DOMAIN locals : loc'[c][f] = locals[f]
             /\ area = "knowledge" => OrgKnown(c)'
             /\ Number(c)' = Number(c) /\ loc'[c].org = loc[c].org
  <2>1. /\ pc' = [pc EXCEPT ![c] = where] /\ \A d \in Clients \ {c} : loc'[d] = loc[d]
        /\ \A f \in DOMAIN locals : loc'[c][f] = locals[f]
        /\ \A f \in DOMAIN loc[c] : f \notin DOMAIN locals => loc'[c][f] = loc[c][f]
    BY <1>1, <1>5, RequestGoesOn
  <2>2. loc'[c].org = loc[c].org /\ loc'[c].n = loc[c].n
    BY <1>1, <1>5, <2>1 DEF BillRequest
  <2>3. area = "knowledge" => OrgKnown(c)'
    BY <2>2 DEF AskedHolds, OrgsKnown, OrgKnown
  <2> QED
    BY <1>1, <2>1, <2>2, <2>3 DEF Number
<1>6. ASSUME Unasked, NEW where, pc' = [pc EXCEPT ![c] = where], ~OnTheWay(c)',
             \A d \in Clients \ {c} : loc'[d] = loc[d],
             area = "knowledge" /\ where # "idle" => OrgKnown(c)'
      PROVE  AskedHolds'
  <2>1. PICK texts : asked' = asked \cup texts /\ \A a \in texts : Embedded(a)
    BY <1>6 DEF Unasked
  <2> HIDE DEF AskedHolds, OnTheWay, EntryFits, OrgKnown, Embedded, Of
  <2> QED
    BY <1>1, <1>2, <1>4, <1>6, <2>1, AskedGoesOn
<1>7. ASSUME Unasked, Quietly(c) PROVE AskedHolds'
  <2>1. CASE Respond(c)
    <3>1. PICK where : where = "idle"
      OBVIOUS
    <3>2. /\ pc' = [pc EXCEPT ![c] = where] /\ pc'[c] = where
          /\ \A d \in Clients \ {c} : loc'[d] = loc[d]
      BY <1>1, <2>1, <3>1 DEF Respond
    <3>3. ~OnTheWay(c)'
      BY <3>1, <3>2 DEF OnTheWay
    <3> HIDE DEF OnTheWay
    <3> QED
      BY <1>6, <1>7, <3>1, <3>2, <3>3
  <2>2. ASSUME NEW where, NEW locals, Goto(c, where, locals),
               DOMAIN locals \cap {"op", "n", "org", "j"} = {},
               where = "calling" => "calls" \in DOMAIN locals /\ NoBill(locals["calls"])
        PROVE  AskedHolds'
    <3>1. /\ pc' = [pc EXCEPT ![c] = where] /\ pc'[c] = where
          /\ \A d \in Clients \ {c} : loc'[d] = loc[d]
          /\ \A f \in DOMAIN locals : loc'[c][f] = locals[f]
          /\ area = "knowledge" => OrgKnown(c)'
      BY <1>5, <2>2
    <3>2. ~OnTheWay(c)'
      BY <2>2, <3>1 DEF OnTheWay, NoBill, OffBillAfter, BillTables
    <3> HIDE DEF OnTheWay, OrgKnown
    <3> QED
      BY <1>6, <1>7, <3>1, <3>2
  <2> QED
    BY <1>7, <2>1, <2>2 DEF Quietly
<1>8. ASSUME Unasked, Begins(c) PROVE AskedHolds'
  <2>1. PICK locals : /\ Goto(c, "calling", locals) /\ DOMAIN locals \cap {"op", "n", "org"} = {}
                      /\ "calls" \in DOMAIN locals /\ NoBill(locals["calls"])
    BY <1>8 DEF Begins
  <2>2. /\ pc' = [pc EXCEPT ![c] = "calling"] /\ \A d \in Clients \ {c} : loc'[d] = loc[d]
        /\ loc'[c].calls = locals["calls"] /\ (area = "knowledge" => OrgKnown(c)')
    BY <1>5, <2>1
  <2>3. ~OnTheWay(c)'
    BY <2>1, <2>2 DEF OnTheWay, NoBill, OffBillAfter, BillTables
  <2> HIDE DEF OnTheWay, OrgKnown
  <2> QED
    BY <1>6, <1>8, <2>2, <2>3
<1>9. CASE Asks(c)
  <2>1. PICK locals, agent, i, status :
           /\ Goto(c, "calling", locals) /\ DOMAIN locals \cap {"op", "n", "org"} = {}
           /\ {"calls", "next"} \subseteq DOMAIN locals
           /\ OwesAll(c, locals["calls"], i, status)
           /\ locals["calls"][1] = Asked(c, i, agent, status)
           /\ Ask(c, i, status)
           /\ IF area = "knowledge" THEN agent = None ELSE locals["next"] \in AnsweringPC
    BY <1>9, Zenon DEF Asks
  <2>2. /\ pc' = [pc EXCEPT ![c] = "calling"] /\ pc'[c] = "calling"
        /\ \A d \in Clients \ {c} : loc'[d] = loc[d]
        /\ loc'[c].calls = locals["calls"] /\ loc'[c].next = locals["next"]
        /\ area = "knowledge" => OrgKnown(c)'
    BY <1>5, <2>1
  <2>3. Entry(c)' = AiRunRow(c, i, agent, status)
    BY <2>1, <2>2 DEF Entry, Asked, Inserting
  <2>4. Of(Entry(c)') = Completion(c, i, status) /\ Entry(c)'.agentId = agent
    BY <2>3 DEF Of, AiRunRow, Completion
  <2>5. PICK more : more = {Completion(c, i, status)} /\ asked' = asked \cup more
    BY <2>1 DEF Ask
  <2>6. OnTheWay(c)'
    <3>1. PICK s : s = locals["calls"]
      OBVIOUS
    <3>2. 1 \in DOMAIN s
      <4>1. \E m \in {2, 3} : OffBillAfter(s, m)
        BY <2>1, <3>1 DEF OwesAll
      <4>2. IsSequence(s) /\ Len(s) >= 1
        BY <4>1 DEF OffBillAfter
      <4> QED
        BY <4>2, SequenceSpan
    <3>3. s[1].table = "ai_runs"
      BY <2>1, <3>1 DEF Asked, Inserting
    <3> QED
      BY <2>2, <3>1, <3>2, <3>3 DEF OnTheWay
  <2>7. Of(Entry(c))' = Of(Entry(c)')
    BY DEF Of, Entry
  <2>8. EntryFits(c)'
    <3>1. Of(Entry(c))' \in asked'
      BY <2>4, <2>5, <2>7
    <3> HIDE DEF Of, Entry
    <3> QED
      BY <2>1, <2>2, <2>4, <3>1 DEF EntryFits
  <2>9. \A a \in more : Embedded(a) \/ (OnTheWay(c)' /\ a = Of(Entry(c)'))
    BY <2>4, <2>5, <2>6
  <2> HIDE DEF AskedHolds, OnTheWay, EntryFits, OrgKnown, Embedded, Of, Entry
  <2> QED
    BY <1>1, <1>2, <1>4, <2>2, <2>5, <2>8, <2>9, AskedGoesOn
<1> QED
  BY <1>7, <1>8, <1>9 DEF Proceeds

\* A request about knowledge comes in for an organization on record.
KnowledgeArrival(c) ==
  \E where, locals : \E o \in db["organizations"] :
     /\ Accept(c, where, locals) /\ where # "calling"
     /\ "org" \in DOMAIN locals /\ locals["org"] = o.id

LEMMA MemberArrives ==
  ASSUME OrgsKnown, NEW c, NEW m \in db["memberships"], NEW where, where # "calling",
         NEW locals, AcceptFrom(m, c, where, locals), "org" \notin DOMAIN locals
  PROVE  KnowledgeArrival(c)
<1>1. PICK caller : caller = [org |-> m.organizationId, user |-> m.userId]
  OBVIOUS
<1>2. DOMAIN caller = {"org", "user"} /\ caller["org"] = m.organizationId
  BY <1>1
<1>3. PICK all : all = Over(locals, caller)
  OBVIOUS
<1>4. /\ DOMAIN Over(locals, caller) = DOMAIN locals \cup DOMAIN caller
      /\ \A f \in DOMAIN caller : f \notin DOMAIN locals => Over(locals, caller)[f] = caller[f]
  BY Overwritten
<1>5. "org" \in DOMAIN all /\ all["org"] = m.organizationId
  BY <1>2, <1>3, <1>4
<1>6. Accept(c, where, all)
  BY <1>1, <1>3 DEF AcceptFrom
<1>7. PICK o \in db["organizations"] : o.id = m.organizationId
  BY DEF OrgsKnown
<1> HIDE DEF Accept
<1> QED
  BY <1>5, <1>6, <1>7 DEF KnowledgeArrival

LEMMA KnowledgeArrives ==
  ASSUME OrgsKnown, NEW c, KnowledgeSubmit(c) PROVE KnowledgeArrival(c)
<1>1. \A permission : SessionContext(permission) \subseteq db["memberships"]
  BY DEF SessionContext
<1>2. ASSUME NEW permission, NEW m \in SessionContext(permission),
             NEW where, where # "calling", NEW locals, "org" \notin DOMAIN locals,
             AcceptFrom(m, c, where, locals)
      PROVE  KnowledgeArrival(c)
  BY <1>1, <1>2, MemberArrives
<1> HIDE DEF KnowledgeArrival
<1>3. CASE CreateSource(c)
  <2>1. PICK m \in SessionContext("knowledge.manage") :
           AcceptFrom(m, c, "source.create", [op |-> "createSource"])
    BY <1>3 DEF CreateSource
  <2> QED
    BY <1>2, <2>1
<1>4. CASE PasteDocument(c)
  <2>1. PICK m \in SessionContext("knowledge.manage"), s \in db["knowledge_sources"] :
           AcceptFrom(m, c, "document.source",
                      [op |-> "addDocument", source |-> s.id, logged |-> TRUE])
    BY <1>4 DEF PasteDocument
  <2> QED
    BY <1>2, <2>1
<1>5. CASE KnowledgeWrite(c)
  <2>1. PICK o \in db["organizations"], s \in db["knowledge_sources"] :
           Accept(c, "document.source",
                  [op |-> "addDocument", org |-> o.id, source |-> s.id, logged |-> FALSE])
    BY <1>5 DEF KnowledgeWrite
  <2>2. PICK where, locals :
           /\ where = "document.source"
           /\ locals = [op |-> "addDocument", org |-> o.id, source |-> s.id, logged |-> FALSE]
    OBVIOUS
  <2>3. "org" \in DOMAIN locals /\ locals["org"] = o.id /\ where # "calling"
    BY <2>2
  <2>4. Accept(c, where, locals)
    BY <2>1, <2>2
  <2> HIDE DEF Accept
  <2> QED
    BY <2>3, <2>4 DEF KnowledgeArrival
<1>6. CASE DeleteDocument(c)
  <2>1. PICK m \in SessionContext("knowledge.manage"), d \in db["documents"] :
           AcceptFrom(m, c, "document.read",
                      [op |-> "deleteDocument", source |-> d.sourceId, document |-> d.id])
    BY <1>6 DEF DeleteDocument
  <2> QED
    BY <1>2, <2>1
<1>7. CASE AskKnowledge(c)
  <2>1. PICK m \in SessionContext("knowledge.view") :
           \E s : AcceptFrom(m, c, "knowledge.retrieve", [op |-> "retrieve", source |-> s])
    BY <1>7 DEF AskKnowledge
  <2> QED
    BY <1>2, <2>1
<1>8. CASE GenerateStrategy(c)
  <2>1. PICK m \in SessionContext("knowledge.manage"), b \in Businesses :
           AcceptFrom(m, c, "strategy.probe",
                      [op |-> "strategy", business |-> b, docs |-> {}, j |-> 0])
    BY <1>8 DEF GenerateStrategy
  <2> QED
    BY <1>2, <2>1
<1> QED
  BY <1>3, <1>4, <1>5, <1>6, <1>7, <1>8 DEF KnowledgeSubmit

LEMMA SubmitAsked ==
  ASSUME AskedHolds, CallsInv, BillRequests, BillRows, NEW c \in Clients,
         KnowledgeSubmit(c) \/ EvalsSubmit(c), UNCHANGED asked
  PROVE  AskedHolds'
<1>1. DOMAIN pc = Clients /\ DOMAIN loc = Clients
  BY DEF BillRequests
<1>2. UNCHANGED <<postgres, area, db, cuts>>
  BY SubmitsLeave
<1>3. PICK none : none = {}
  OBVIOUS
<1>4. /\ db'["ai_runs"] = db["ai_runs"] \cup none /\ \A r \in none : Of(r) \in asked
      /\ asked' = asked \cup none
      /\ \A a \in none : Embedded(a) \/ (OnTheWay(c)' /\ a = Of(Entry(c)'))
  BY <1>2, <1>3
<1>5. ASSUME NEW where, where # "calling", NEW locals, Accept(c, where, locals),
             area = "knowledge" => OrgKnown(c)'
      PROVE  AskedHolds'
  <2>1. /\ pc[c] = "idle" /\ pc' = [pc EXCEPT ![c] = where]
        /\ \A d \in Clients \ {c} : loc'[d] = loc[d]
    BY <1>1, <1>5 DEF Accept
  <2>2. ~OnTheWay(c) /\ ~OnTheWay(c)'
    BY <1>1, <1>5, <2>1 DEF OnTheWay
  <2> HIDE DEF AskedHolds, OnTheWay, EntryFits, OrgKnown, Embedded, Of
  <2> QED
    BY <1>1, <1>2, <1>3, <1>4, <1>5, <2>1, <2>2, AskedGoesOn
<1>6. CASE KnowledgeSubmit(c)
  <2>1. area = "knowledge" /\ OrgsKnown
    BY <1>6 DEF KnowledgeSubmit, AskedHolds
  <2>8. KnowledgeArrival(c)
    BY <1>6, <2>1, KnowledgeArrives
  <2>9. PICK where, locals : \E o \in db["organizations"] :
           /\ Accept(c, where, locals) /\ where # "calling"
           /\ "org" \in DOMAIN locals /\ locals["org"] = o.id
    BY <2>8, Zenon DEF KnowledgeArrival
  <2>2. PICK o \in db["organizations"] :
           /\ Accept(c, where, locals) /\ where # "calling"
           /\ "org" \in DOMAIN locals /\ locals["org"] = o.id
    BY <2>9, Zenon
  <2>3. PICK number : number = [n |-> served + 1]
    OBVIOUS
  <2>4. loc'[c] = Over(locals, number)
    BY <1>1, <2>2, <2>3 DEF Accept
  <2>5. \A f \in DOMAIN locals : Over(locals, number)[f] = locals[f]
    BY Overwritten
  <2>6. loc'[c].org = o.id
    BY <2>2, <2>4, <2>5
  <2>7. OrgKnown(c)'
    BY <1>2, <2>6 DEF OrgKnown
  <2> HIDE DEF AskedHolds, OrgKnown, Accept
  <2> QED
    BY <1>5, <2>2, <2>7
<1>7. CASE EvalsSubmit(c)
  <2>1. area = "evals"
    BY <1>7 DEF EvalsSubmit
  <2>2. \E where, locals : where # "calling" /\ Accept(c, where, locals)
    BY <1>7 DEF EvalsSubmit, CreateSuite, AddCase, DeleteCase, RunSuite, AcceptFrom
  <2> HIDE DEF AskedHolds, OrgKnown, Accept
  <2> QED
    BY <1>5, <2>1, <2>2
<1> QED
  BY <1>6, <1>7

LEMMA CutAsked ==
  ASSUME AskedHolds, CallsInv, BillRequests, BillRows, NEW c \in Clients, CutOff(c),
         UNCHANGED asked
  PROVE  AskedHolds'
<1>1. DOMAIN pc = Clients /\ DOMAIN loc = Clients
  BY DEF BillRequests
<1>2. /\ InFlight(c) /\ UNCHANGED <<postgres, area, db>> /\ cuts' = cuts \cup {loc[c].op}
      /\ cuts \subseteq cuts'
  BY DEF CutOff
<1>3. PICK where : where = "idle"
  OBVIOUS
<1>4. /\ pc' = [pc EXCEPT ![c] = where] /\ pc'[c] = where
      /\ \A d \in Clients \ {c} : loc'[d] = loc[d]
  BY <1>1, <1>3 DEF CutOff, Respond
<1>5. ~OnTheWay(c)'
  BY <1>3, <1>4 DEF OnTheWay
<1>6. OnTheWay(c) => cuts' \cap Asking # {}
  <2>1. SUFFICES ASSUME OnTheWay(c) PROVE cuts' \cap Asking # {}
    OBVIOUS
  <2>2. Call(c) \in Nat /\ BillRequest(c)
    BY <1>2, <2>1, OnTheWayOwes DEF BillRequests
  <2>3. "j" \in DOMAIN loc[c]
    BY <2>2 DEF Call, Upto
  <2> QED
    BY <1>2, <2>2, <2>3 DEF BillRequest
<1>7. PICK none : none = {}
  OBVIOUS
<1>8. /\ db'["ai_runs"] = db["ai_runs"] \cup none /\ \A r \in none : Of(r) \in asked
      /\ asked' = asked \cup none
      /\ \A a \in none : Embedded(a) \/ (OnTheWay(c)' /\ a = Of(Entry(c)'))
  BY <1>2, <1>7
<1> HIDE DEF AskedHolds, OnTheWay, EntryFits, OrgKnown, Embedded, Of
<1> QED
  BY <1>1, <1>2, <1>3, <1>4, <1>5, <1>6, <1>7, <1>8, AskedGoesOn

\* The record of a call that the provider was sent is never refused.
LEMMA EntryIsTaken ==
  ASSUME AskedHolds, EvalsInv, CallsInv, BillRequests, BillRows, area \in AskingAreas,
         NEW c \in Clients, OnTheWay(c), NEW k, k = Head(loc[c].calls)
  PROVE  /\ k.call = "insert" /\ k.table = "ai_runs" /\ k.row = Entry(c)
         /\ NoRun(Tail(loc[c].calls)) /\ Tail(loc[c].calls) # <<>>
         /\ ~Refused(k) /\ ~FindsNothing(k)
<1>1. Call(c) \in Nat /\ Fresh(c, Call(c))
  BY OnTheWayOwes
<1>2. PICK j, agent : j = Call(c) /\ agent = Entry(c).agentId
  OBVIOUS
<1>3. PICK status : OwesAll(c, loc[c].calls, j, status)
  BY <1>2, OnTheWayOwes
<1>4. /\ k = Asked(c, j, agent, status) /\ Entry(c) = AiRunRow(c, j, agent, status)
      /\ NoRun(Tail(loc[c].calls)) /\ Tail(loc[c].calls) # <<>>
  BY <1>2, <1>3, EntryIsAtHand
<1>5. k.call = "insert" /\ k.table = "ai_runs" /\ k.row = Entry(c)
  BY <1>4 DEF Asked, Inserting
<1>6. pc[c] = "calling" /\ InFlight(c)
  BY DEF OnTheWay, InFlight
<1>7. EntryFits(c)
  BY DEF AskedHolds
<1>8. CASE area = "knowledge"
  <2>1. OrgKnown(c) /\ agent = None
    BY <1>2, <1>6, <1>7, <1>8 DEF AskedHolds, OrgsKnown, EntryFits
  <2>2. KnownAgent(agent)
    BY <2>1 DEF KnownAgent
  <2> HIDE DEF Call, Entry, OrgKnown, Fresh, KnownAgent
  <2> QED
    BY <1>1, <1>2, <1>4, <1>5, <2>1, <2>2, AskIsTaken
<1>9. CASE area = "evals"
  <2>1. EvalRows /\ EvalCalls(c) /\ loc[c].next \in AnsweringPC
    BY <1>6, <1>7, <1>9 DEF EvalsInv, EvalRequests, EvalRequest, EntryFits
  <2>2. PICK s : s = loc[c].calls
    OBVIOUS
  <2>3. s # <<>> /\ k = s[1]
    BY <1>6, <2>2, TailOf DEF CallsInv, OwnCalls
  <2>4. s[1].table # "eval_runs"
    BY <1>5, <2>3
  <2>5. CaseCalls(c)
    BY <2>1, <2>2, <2>4 DEF EvalCalls, Reporting, BlockedCalls, StartCalls, FinishCalls,
       AnsweringPC, NewRun, Inserting
  <2>6. OrgKnown(c) /\ Scoring(loc[c].calls)
    BY <2>5 DEF CaseCalls, Answering
  <2>7. k.table \in BillTables
    BY <1>5 DEF BillTables
  <2> HIDE DEF OrgKnown, Scoring
  <2>8. ~Refused(k) /\ ~FindsNothing(k)
    BY <1>6, <2>1, <2>2, <2>3, <2>6, <2>7, RecordIsTaken
  <2> HIDE DEF Entry
  <2> QED
    BY <1>4, <1>5, <2>8
<1> QED
  BY <1>8, <1>9 DEF AskingAreas

LEMMA CallAsked ==
  ASSUME AskedHolds, EvalsInv, CallsInv, BillRequests, BillRows, area \in AskingAreas,
         NEW c \in Clients, StoreCall(c), UNCHANGED asked, DOMAIN db' = DOMAIN db,
         db'["organizations"] = db["organizations"],
         area = "knowledge" => db'["memberships"] = db["memberships"]
  PROVE  AskedHolds'
<1>1. PICK k, rest : k = Head(loc[c].calls) /\ rest = Tail(loc[c].calls)
  OBVIOUS
<1>2. /\ pc[c] = "calling" /\ UNCHANGED <<postgres, area, cuts>>
      /\ \/ Respond(c) /\ db' = db /\ (Refused(k) \/ FindsNothing(k))
         \/ ~Refused(k) /\ ~FindsNothing(k) /\ CallMade(c, rest)
      /\ ~Refused(k) /\ ~FindsNothing(k) /\ k.call = "insert" =>
            db' = InsertRow(k.table, k.row)
  BY <1>1, CallAtHand DEF CallMade
<1>3. /\ DOMAIN pc = Clients /\ DOMAIN loc = Clients /\ BillRequest(c) /\ InFlight(c)
      /\ IsSequence(loc[c].calls) /\ loc[c].calls # <<>>
  BY <1>2 DEF BillRequests, InFlight, CallsInv, OwnCalls
<1>4. /\ \E where : pc' = [pc EXCEPT ![c] = where]
      /\ \A d \in Clients \ {c} : loc'[d] = loc[d]
      /\ pc'[c] = "idle" \/ loc'[c].org = loc[c].org
      /\ pc'[c] = "calling" => loc'[c].calls = rest
  <2>1. CASE Respond(c)
    BY <1>3, <2>1 DEF Respond
  <2>2. CASE CallMade(c, rest)
    <3>1. "org" \in DOMAIN loc[c] \ {"calls"}
      BY <1>3 DEF BillRequest
    <3> HIDE DEF CallMade
    <3> QED
      BY <1>2, <2>2, <3>1, CallMadeLeaves
  <2> QED
    BY <1>2, <2>1, <2>2
<1>5. PICK where : pc' = [pc EXCEPT ![c] = where] /\ pc'[c] = where
  BY <1>3, <1>4
<1>6. area = "knowledge" /\ where # "idle" => OrgKnown(c)'
  BY <1>2, <1>3, <1>4, <1>5 DEF AskedHolds, OrgsKnown, OrgKnown
<1>7. NoRun(rest) => ~OnTheWay(c)'
  BY <1>4 DEF NoRun, OnTheWay
<1>8. PICK rows : IF OnTheWay(c)
                  THEN rows = {Entry(c)} /\ db'["ai_runs"] = db["ai_runs"] \cup rows /\ NoRun(rest)
                  ELSE rows = {} /\ db'["ai_runs"] = db["ai_runs"] /\ NoRun(rest)
  <2>1. CASE OnTheWay(c)
    <3>1. PICK rows : rows = {Entry(c)}
      OBVIOUS
    <3>2. db' = InsertRow("ai_runs", Entry(c)) /\ NoRun(rest)
      BY <1>1, <1>2, <2>1, EntryIsTaken
    <3>3. db'["ai_runs"] = db["ai_runs"] \cup {Entry(c)}
      BY <3>2, InsertsAdd DEF BillRows, BillTables
    <3> HIDE DEF OnTheWay, Entry, NoRun
    <3> QED
      BY <2>1, <3>1, <3>2, <3>3
  <2>2. CASE ~OnTheWay(c)
    <3>1. NoRun(loc[c].calls)
      BY <1>2, <2>2 DEF OnTheWay, NoRun
    <3>2. k.table # "ai_runs" /\ NoRun(rest)
      BY <1>1, <1>3, <3>1, NoRunLeft
    <3>3. db'["ai_runs"] = db["ai_runs"]
      <4>1. CASE k.table \notin BillTables
        BY <1>1, <4>1, OffBillCallKeeps DEF BillTables
      <4>2. CASE k.table = "usage_records"
        <5>1. BillCalls(c)
          BY <1>2, <1>3 DEF BillRequest
        <5>2. PICK s : s = loc[c].calls
          OBVIOUS
        <5>3. \E j, status, meter : \/ OwesAll(c, s, j, status)
                                    \/ k = Metering(c, j, meter)
          <6>1. ~NoBill(s)
            BY <1>1, <1>3, <4>2, <5>2, OwedNext DEF BillTables
          <6>2. ASSUME NEW j, OwesBoth(c, s, j) \/ OwesLast(c, s, j)
                PROVE  \E meter : k = Metering(c, j, meter)
            BY <1>1, <5>2, <6>2, OwedNext
          <6> HIDE DEF NoBill, OwesAll, OwesBoth, OwesLast, Metering, Call
          <6> QED
            BY <5>1, <5>2, <6>1, <6>2 DEF BillCalls
        <5>4. ASSUME NEW j, NEW status, OwesAll(c, s, j, status) PROVE FALSE
          <6>1. OwesAll(c, loc[c].calls, j, status)
            BY <5>2, <5>4
          <6>2. k = Asked(c, j, Entry(c).agentId, status)
            BY <1>1, <6>1, EntryIsAtHand
          <6> QED
            BY <4>2, <6>2 DEF Asked, Inserting
        <5>5. k.call = "insert"
          BY <5>3, <5>4 DEF Metering, Inserting
        <5>6. db' = db \/ db' = InsertRow("usage_records", k.row)
          BY <1>2, <4>2, <5>5
        <5> QED
          <6>1. \A new : [db EXCEPT !["usage_records"] = new]["ai_runs"] = db["ai_runs"]
            OBVIOUS
          <6>2. InsertRow("usage_records", k.row)["ai_runs"] = db["ai_runs"]
            BY <6>1 DEF InsertRow
          <6> QED
            BY <5>6, <6>2
      <4> QED
        BY <3>2, <4>1, <4>2 DEF BillTables
    <3> HIDE DEF OnTheWay, NoRun
    <3> QED
      BY <2>2, <3>2, <3>3
  <2> QED
    BY <2>1, <2>2
<1>9. db'["ai_runs"] = db["ai_runs"] \cup rows /\ \A r \in rows : Of(r) \in asked
  <2>1. OnTheWay(c) => Of(Entry(c)) \in asked
    BY DEF AskedHolds, EntryFits
  <2> HIDE DEF OnTheWay, Of, Entry
  <2> QED
    BY <1>8, <2>1
<1>10. ~OnTheWay(c)'
  <2> HIDE DEF OnTheWay
  <2> QED
    BY <1>7, <1>8
<1>11. OnTheWay(c) => \E r \in rows : r.id = Entry(c).id
  BY <1>8
<1>12. PICK more : more = {}
  OBVIOUS
<1>13. /\ asked' = asked \cup more
       /\ \A a \in more : Embedded(a) \/ (OnTheWay(c)' /\ a = Of(Entry(c)'))
  BY <1>12
<1>14. cuts \subseteq cuts'
  BY <1>2
<1> HIDE DEF AskedHolds, OnTheWay, EntryFits, OrgKnown, Embedded, Of
<1> QED
  BY <1>2, <1>3, <1>4, <1>5, <1>6, <1>9, <1>10, <1>11, <1>13, <1>14, AskedGoesOn

LEMMA AskedInitially == Init => AskedInv
<1> SUFFICES ASSUME Init PROVE AskedInv
  OBVIOUS
<1>1. PICK a \in Areas : \E seed \in Seeds[a] : RequestsInit(a, seed.rows)
  BY DEF Init
<1>2. PICK seed \in Seeds[a] : RequestsInit(a, seed.rows)
  BY <1>1
<1>3. area = a /\ db = seed.rows /\ pc = [c \in Clients |-> "idle"]
  BY <1>2 DEF RequestsInit
<1>4. CompletionsFit(area, db) /\ PeopleFit(db)
  BY <1>2, <1>3, PlatformAssumption
<1>5. asked = {}
  BY DEF Init, CompletionsInit
<1>6. area \in AskingAreas => db["ai_runs"] = {}
  BY <1>4 DEF CompletionsFit, AskingAreas
<1>7. /\ "memberships" \in DOMAIN db
      /\ \A m \in db["memberships"] : \E o \in db["organizations"] : o.id = m.organizationId
  BY <1>4 DEF PeopleFit
<1>8. OrgsKnown /\ \A c \in Clients : ~OnTheWay(c)
  BY <1>3, <1>7 DEF OrgsKnown, InFlight, OnTheWay
<1> QED
  BY <1>5, <1>6, <1>8 DEF AskedInv, AskedHolds

LEMMA AskedKept == AskedInv /\ EvalsInv /\ BillInv /\ CallsInv /\ [Next]_vars => AskedInv'
<1> SUFFICES ASSUME AskedInv, EvalsInv, BillInv, CallsInv, [Next]_vars PROVE AskedInv'
  OBVIOUS
<1>1. UNCHANGED area /\ DOMAIN db' = DOMAIN db
  BY Frame, TablesStay
<1>2. CASE area \notin AskingAreas
  BY <1>1, <1>2, AskedNowhereElse DEF AskedInv
<1>3. CASE area \in AskingAreas
  <2>1. AskedHolds /\ BillRequests /\ BillRows
    BY <1>3 DEF AskedInv, BillInv
  <2>2. db'["organizations"] = db["organizations"]
    BY <1>3, <2>1, OrganizationsStay DEF BillRows
  <2>3. area = "knowledge" => db'["memberships"] = db["memberships"]
    <3>1. area = "knowledge" => "memberships" \notin WritesOf(area)
      BY DEF WritesOf
    <3>2. area = "knowledge" => "memberships" \in DOMAIN db
      BY <2>1 DEF AskedHolds, OrgsKnown
    <3> QED
      BY <3>1, <3>2, AreasApart
  <2>4. CASE UNCHANGED <<postgres, area, db, pc, loc, served, cuts, asked>>
    <3>1. \A c : (OnTheWay(c)' <=> OnTheWay(c)) /\ Entry(c)' = Entry(c)
      BY <2>4, WayStays
    <3>2. /\ \A r : Of(r)' = Of(r)
          /\ \A a : Embedded(a)' <=> Embedded(a)
          /\ OrgsKnown => OrgsKnown'
      BY <2>4 DEF Of, Embedded, OrgsKnown, OrgKnown, InFlight
    <3>3. \A c : EntryFits(c) => EntryFits(c)'
      <4> SUFFICES ASSUME NEW c, EntryFits(c) PROVE EntryFits(c)'
        OBVIOUS
      <4>1. Of(Entry(c))' = Of(Entry(c))
        BY <3>1 DEF Of
      <4> HIDE DEF Of, Entry
      <4> QED
        BY <2>4, <3>1, <4>1 DEF EntryFits
    <3>4. \A a : Accounted(a) => Accounted(a)'
      <4> HIDE DEF OnTheWay, Entry
      <4> QED
        BY <2>4, <3>1 DEF Accounted
    <3> HIDE DEF OnTheWay, Entry, Of, Embedded, OrgsKnown, EntryFits, Accounted
    <3>5. AskedHolds'
      BY <2>1, <2>4, <3>1, <3>2, <3>3, <3>4 DEF AskedHolds
    <3> QED
      BY <1>1, <1>3, <3>5 DEF AskedInv
  <2>5. ASSUME NEW c \in Clients,
               \/ (KnowledgeSubmit(c) \/ EvalsSubmit(c)) /\ UNCHANGED asked
               \/ KnowledgeStep(c) \/ EvalsStep(c)
               \/ (StoreCall(c) \/ CutOff(c)) /\ UNCHANGED asked
        PROVE  AskedHolds'
    <3>1. CASE KnowledgeStep(c) \/ EvalsStep(c)
      <4>1. /\ Proceeds(c) /\ InFlight(c) /\ pc[c] # "calling"
            /\ UNCHANGED <<postgres, area, db, served, cuts>>
        BY <2>1, <3>1, KnowledgeStepProceeds, EvalsStepProceeds
      <4> QED
        BY <1>3, <2>1, <4>1, AskedProceeds
    <3>2. CASE (KnowledgeSubmit(c) \/ EvalsSubmit(c)) /\ UNCHANGED asked
      BY <2>1, <3>2, SubmitAsked
    <3>3. CASE StoreCall(c) /\ UNCHANGED asked
      BY <1>1, <1>3, <2>1, <2>2, <2>3, <3>3, CallAsked
    <3>4. CASE CutOff(c) /\ UNCHANGED asked
      BY <2>1, <3>4, CutAsked
    <3> QED
      BY <2>5, <3>1, <3>2, <3>3, <3>4
  <2>6. AskedHolds' => AskedInv'
    BY <1>1, <1>3 DEF AskedInv
  <2> QED
    BY <1>3, <2>4, <2>5, <2>6, AskedFrame
<1> QED
  BY <1>2, <1>3

\* Where no request is recording, each completion is on record, and nothing else.
LEMMA AskedIsRecorded ==
  ASSUME AskedInv, BillInv, CallsInv, area \in AskingAreas, Recording = {},
         cuts \cap Asking = {}
  PROVE  /\ \A a \in asked : a.kind = "completion" <=> \E r \in db["ai_runs"] : r.id = a.id
         /\ \A r \in db["ai_runs"] : \E a \in asked :
               a.id = r.id /\ a.kind = "completion" /\ a.status = r.status
<1>1. AskedHolds /\ BillRequests /\ BillRows
  BY DEF AskedInv, BillInv
<1>2. ASSUME NEW c \in Clients, OnTheWay(c) PROVE FALSE
  <2>1. PICK j, s : j = Call(c) /\ s = loc[c].calls
    OBVIOUS
  <2>2. \E status : OwesAll(c, s, j, status)
    BY <1>1, <1>2, <2>1, OnTheWayOwes
  <2>3. ~NoBill(s)
    BY <2>2, OwingIsBilled
  <2>4. Owing(c)
    BY <1>2, <2>1, <2>3 DEF Owing, OnTheWay
  <2> QED
    BY <1>1, <2>4, OwedIsRecording
<1>3. ASSUME NEW a \in asked, a.kind = "completion"
      PROVE  \E r \in db["ai_runs"] : r.id = a.id
  BY <1>1, <1>2, <1>3 DEF AskedHolds, Accounted
<1>4. ASSUME NEW a \in asked, a.kind # "completion", NEW r \in db["ai_runs"], r.id = a.id
      PROVE  FALSE
  <2>1. PICK n, j : a.id = <<n, j, "embedding">>
    BY <1>1, <1>4 DEF AskedHolds, Embedded
  <2>2. a.id = <<r.id[1], r.id[2]>>
    BY <1>1, <1>4 DEF BillRows
  <2>3. PICK m, i : a.id = <<m, i>>
    BY <2>2
  <2>4. Len(a.id) = 3
    BY <2>1
  <2>5. Len(a.id) = 2
    BY <2>3
  <2> QED
    BY <2>4, <2>5
<1>5. ASSUME NEW r \in db["ai_runs"]
      PROVE  \E a \in asked : a.id = r.id /\ a.kind = "completion" /\ a.status = r.status
  BY <1>1 DEF AskedHolds, Of
<1> QED
  BY <1>3, <1>4, <1>5

LEMMA BillPromised == BillInv /\ AskedInv /\ CallsInv => BillMatchesCalls
<1> SUFFICES ASSUME BillInv, AskedInv, CallsInv PROVE BillMatchesCalls
  OBVIOUS
<1>1. CASE area \notin AskingAreas
  <2>1. Table("ai_runs") = {} /\ Table("usage_records") = {}
    BY <1>1 DEF BillInv, Table
  <2>2. /\ Metered("agent_runs") = {} /\ Metered("tokens") = {}
        /\ {r \in Table("ai_runs") : r.status = "completed"} = {}
    BY <2>1 DEF Metered
  <2>3. asked = {}
    BY <1>1 DEF AskedInv
  <2> QED
    BY <2>1, <2>2, <2>3 DEF BillMatchesCalls
<1>2. CASE area \in AskingAreas
  <2>1. BillRequests /\ BillRows /\ Balanced
    BY <1>2 DEF BillInv
  <2>2. SUFFICES ASSUME Recording = {}, cuts \cap Asking = {}
                 PROVE  /\ \A a \in asked : a.kind = "completion" <=>
                              \E r \in Table("ai_runs") : r.id = a.id
                        /\ \A r \in Table("ai_runs") : \E a \in asked :
                              a.id = r.id /\ a.kind = "completion" /\ a.status = r.status
                        /\ Cardinality(Metered("agent_runs")) = Cardinality(Table("ai_runs"))
                        /\ Cardinality(Metered("tokens"))
                               = Cardinality({r \in Table("ai_runs") : r.status = "completed"})
    BY DEF BillMatchesCalls, Asking
  <2>3. \A r \in db["ai_runs"] : HasMeters(r)
    BY <2>1, <2>2, OwedIsRecording DEF Balanced
  <2>4. /\ Table("ai_runs") = db["ai_runs"] /\ Table("usage_records") = db["usage_records"]
        /\ IsFiniteSet(db["usage_records"])
    BY <2>1 DEF Table, BillRows, BillTables, CallsInv
  <2>5. ASSUME NEW meter \in Meters, NEW runs,
               runs = {r \in db["ai_runs"] : meter = "tokens" => r.status = "completed"}
        PROVE  Cardinality(Metered(meter)) = Cardinality(runs)
    <3>1. PICK used : used = {u \in db["usage_records"] : u.meter = meter} /\ used = Metered(meter)
      BY <2>4 DEF Metered
    <3>2. \A u \in used : \E r \in runs : u.id = <<r.id[1], r.id[2], meter>>
      BY <2>1, <2>5, <3>1 DEF BillRows
    <3>3. ASSUME NEW r \in runs PROVE \E u \in used : u.id = <<r.id[1], r.id[2], meter>>
      <4>1. HasMeters(r) /\ (meter = "agent_runs" \/ r.status = "completed")
        BY <2>3, <2>5 DEF Meters
      <4>2. PICK u \in db["usage_records"] : u.id = <<r.id[1], r.id[2], meter>>
        BY <4>1 DEF HasMeters
      <4>3. PICK q \in db["ai_runs"] : u.id = <<q.id[1], q.id[2], u.meter>>
        BY <2>1 DEF BillRows
      <4>4. u.meter = meter
        BY <4>2, <4>3
      <4> QED
        BY <3>1, <4>2, <4>4
    <3>4. runs \in SUBSET db["ai_runs"]
      BY <2>5
    <3>5. BillRows /\ IsFiniteSet(db["usage_records"])
      BY <2>1, <2>4
    <3>6. Cardinality(used) = Cardinality(runs)
      BY ONLY <3>1, <3>2, <3>3, <3>4, <3>5, MetersCount
    <3> QED
      BY <3>1, <3>6
  <2>6. PICK meter \in Meters : meter = "agent_runs"
    BY DEF Meters
  <2>7. PICK runs : /\ runs = {r \in db["ai_runs"] : meter = "tokens" => r.status = "completed"}
                    /\ runs = db["ai_runs"]
    BY <2>6
  <2>8. Cardinality(Metered("agent_runs")) = Cardinality(Table("ai_runs"))
    BY <2>4, <2>5, <2>6, <2>7
  <2>9. PICK tokens \in Meters : tokens = "tokens"
    BY DEF Meters
  <2>10. PICK completed :
            /\ completed = {r \in db["ai_runs"] : tokens = "tokens" => r.status = "completed"}
            /\ completed = {r \in db["ai_runs"] : r.status = "completed"}
    BY <2>9
  <2>11. Cardinality(Metered("tokens")) = Cardinality({r \in Table("ai_runs") : r.status = "completed"})
    BY <2>4, <2>5, <2>9, <2>10
  <2>12. /\ \A a \in asked : a.kind = "completion" <=> \E r \in db["ai_runs"] : r.id = a.id
         /\ \A r \in db["ai_runs"] : \E a \in asked :
               a.id = r.id /\ a.kind = "completion" /\ a.status = r.status
    BY <1>2, <2>2, AskedIsRecorded
  <2> QED
    BY <2>4, <2>8, <2>11, <2>12
<1> QED
  BY <1>1, <1>2

\* Every completion that the provider was sent has its record, of its outcome, and
\* its meters, a failed one too, once no request is between the two, unless one was
\* cut off there; and nothing is recorded that was not asked (usage.ts, provider.ts).
\* Embeddings leave no record: knowledge.ts asks for them by the side of usage.ts.
THEOREM BillAddsUp == Spec => []BillMatchesCalls
<1>1. CallsInv /\ VaultInv /\ [Next]_vars => CallsInv'
  BY CallsKept
<1>2. VaultInv /\ [Next]_vars => VaultInv'
  BY VaultKept
<1>3. BillInv /\ CallsInv /\ [Next]_vars => BillInv'
  BY BillKept
<1>4. EvalsInv /\ BillInv /\ CallsInv /\ [Next]_vars => EvalsInv'
  BY EvalsKept
<1>5. AskedInv /\ EvalsInv /\ BillInv /\ CallsInv /\ [Next]_vars => AskedInv'
  BY AskedKept
<1> QED
  BY <1>1, <1>2, <1>3, <1>4, <1>5, CallsInitially, VaultInitially, BillInitially,
     EvalsInitially, AskedInitially, BillPromised, PTL DEF Spec

LEMMA EvalsPromised == EvalsInv => EvaluationsAddUp
<1> SUFFICES ASSUME EvalsInv, NEW r \in Table("eval_runs")
             PROVE  IF r.done THEN AddsUp(r)
                    ELSE \/ "evaluate" \in cuts
                         \/ \E c \in Clients : loc[c].op = "evaluate" /\ Number(c) = r.id
  BY DEF EvaluationsAddUp, AddsUp
<1>1. "eval_runs" \in DOMAIN db /\ r \in db["eval_runs"]
  BY DEF Table
<1>2. InHand(r)
  BY <1>1 DEF EvalsInv
<1> QED
  BY <1>2 DEF InHand, Working

\* An evaluation that is over accounts for every case it started with: what passed
\* and failed adds up to its total and to its results, or it is blocked and has none;
\* and one that is not over has a request at work on it, or was cut off (evals.ts).
\* Requests add and delete cases of its suite meanwhile, and the model's calls are
\* billed between two results.
THEOREM EvaluationsSound == Spec => []EvaluationsAddUp
<1>1. CallsInv /\ VaultInv /\ [Next]_vars => CallsInv'
  BY CallsKept
<1>2. VaultInv /\ [Next]_vars => VaultInv'
  BY VaultKept
<1>3. BillInv /\ CallsInv /\ [Next]_vars => BillInv'
  BY BillKept
<1>4. EvalsInv /\ BillInv /\ CallsInv /\ [Next]_vars => EvalsInv'
  BY EvalsKept
<1> QED
  BY <1>1, <1>2, <1>3, <1>4, CallsInitially, VaultInitially, BillInitially,
     EvalsInitially, EvalsPromised, PTL DEF Spec
=============================================================================
