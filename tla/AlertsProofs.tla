---------------------------- MODULE AlertsProofs ----------------------------
(***************************************************************************)
(* Proofs about the alerts: SipSecurity, for any requests, statuses,        *)
(* thresholds and length of the capture; Registrations, for any hops,       *)
(* lifetimes and order of arrival; Floods, for any kinds of message and     *)
(* thresholds.                                                              *)
(***************************************************************************)
EXTENDS SipSecurity, Registrations, Floods, NumberLemmas, FiniteSetTheorems,
        WellFoundedInduction, TLAPS

-----------------------------------------------------------------------------
(* The findings of the security engine.                                    *)
Transaction == [request : Messages, status : {0} \cup 200..699]

SecurityInv == txs \in Seq(Transaction)

\* No request was seen.
LEMMA SecurityInitInv == Init => SecurityInv
  BY DEF Init, SecurityInv

\* What is at a place of the list.
LEMMA AtTransaction == ASSUME SecurityInv, NEW i \in DOMAIN txs PROVE txs[i] \in Transaction
  BY DEF SecurityInv

\* What an answer does, field by field.
LEMMA AnswerStep ==
  ASSUME SecurityInv, Answer
  PROVE  \E i \in DOMAIN txs, s \in 200..699 :
            /\ txs[i].status = 0
            /\ txs' = [txs EXCEPT ![i] = [request |-> txs[i].request, status |-> s]]
  <1>1. PICK i \in DOMAIN txs :
            /\ txs[i].status = 0
            /\ \E s \in Statuses[txs[i].request.method] :
                  txs' = [txs EXCEPT ![i] = [request |-> txs[i].request, status |-> s]]
    BY DEF Answer
  <1>2. Statuses[txs[i].request.method] \subseteq 200..699
    BY AtTransaction, SecurityAssumption DEF Transaction
  <1>3. PICK s \in Statuses[txs[i].request.method] :
            txs' = [txs EXCEPT ![i] = [request |-> txs[i].request, status |-> s]]
    BY <1>1
  <1>4. s \in 200..699
    BY <1>2
  <1> QED BY <1>1, <1>3, <1>4, ZenonT(30)

\* A request or a response keeps the types.
LEMMA SecurityNextInv == ASSUME SecurityInv, [Next]_txs PROVE SecurityInv'
  <1>1. CASE Send
    <2>1. PICK r \in Messages : txs' = Append(txs, [request |-> r, status |-> 0])
      BY <1>1 DEF Send
    <2>2. [request |-> r, status |-> 0] \in Transaction
      BY DEF Transaction
    <2> QED BY <2>1, <2>2 DEF SecurityInv
  <1>2. CASE Answer
    <2>1. PICK i \in DOMAIN txs, s \in 200..699 :
              txs' = [txs EXCEPT ![i] = [request |-> txs[i].request, status |-> s]]
      BY <1>2, AnswerStep, ZenonT(30)
    <2>2. [request |-> txs[i].request, status |-> s] \in Transaction
      BY AtTransaction DEF Transaction
    <2> QED BY <2>1, <2>2 DEF SecurityInv
  <1>3. CASE UNCHANGED txs
    BY <1>3 DEF SecurityInv
  <1> QED BY <1>1, <1>2, <1>3 DEF Next

\* Transactions are well formed: a request of some source and what it was answered.
THEOREM SecurityInvariance == Spec => []SecurityInv
  BY SecurityInitInv, SecurityNextInv, PTL DEF Spec

-----------------------------------------------------------------------------
(* The accumulators only grow.                                              *)

\* What a step leaves of the transactions: requests stay, and so do responses.
Kept ==
    /\ DOMAIN txs \subseteq DOMAIN txs'
    /\ \A i \in DOMAIN txs : /\ txs'[i].request = txs[i].request
                             /\ txs[i].status # 0 => txs'[i].status = txs[i].status

\* What a step does not touch of the findings.
LEMMA StepKeeps == ASSUME SecurityInv, Next PROVE Kept
  <1>1. CASE Send
    BY <1>1 DEF Send, SecurityInv, Kept
  <1>2. CASE Answer
    <2>1. PICK i \in DOMAIN txs, s \in 200..699 :
              /\ txs[i].status = 0
              /\ txs' = [txs EXCEPT ![i] = [request |-> txs[i].request, status |-> s]]
      BY <1>2, AnswerStep
    <2>2. DOMAIN txs' = DOMAIN txs /\ txs'[i].request = txs[i].request
      BY <2>1
    <2>3. \A j \in DOMAIN txs : j # i => txs'[j] = txs[j]
      BY <2>1
    <2> QED BY <2>1, <2>2, <2>3 DEF Kept
  <1> QED BY <1>1, <1>2 DEF Next

\* There are finitely many transactions.
LEMMA FiniteTxs == ASSUME SecurityInv PROVE IsFiniteSet(DOMAIN txs)
  <1>1. Len(txs) \in Nat /\ DOMAIN txs = 1..Len(txs)
    BY DEF SecurityInv
  <1> QED BY <1>1, FS_Interval

\* What is read of a finite set of transactions is finite.
LEMMA FiniteImage ==
  ASSUME NEW T, IsFiniteSet(T), NEW f
  PROVE  IsFiniteSet({f[x] : x \in T})
  <1> DEFINE g == [x \in T |-> f[x]]
             R == {f[x] : x \in T}
  <1>1. g \in Surjection(T, R)
    BY DEF Surjection
  <1> QED BY <1>1, FS_Surjection

\* A threshold that a set reached is reached by every larger one.
LEMMA StillReached ==
  ASSUME NEW S, NEW T, S \subseteq T, IsFiniteSet(T), NEW n \in Nat, Cardinality(S) >= n
  PROVE  Cardinality(T) >= n
  <1>1. /\ Cardinality(S) <= Cardinality(T) /\ Cardinality(T) \in Nat
        /\ Cardinality(S) \in Nat
    BY FS_Subset, FS_CardinalityType
  <1> QED BY <1>1

\* Sets of transactions, addresses and callees that a step can only add to.
LEMMA AccumulatorsGrow ==
  ASSUME SecurityInv, Next, NEW src
  PROVE  /\ Scanner(src) => Scanner(src)'
         /\ \A methods : Of(src, methods) \subseteq Of(src, methods)'
         /\ FailedAuth(src) \subseteq FailedAuth(src)'
         /\ NotFound(src) \subseteq NotFound(src)'
         /\ \A methods : Callees(Of(src, methods)) \subseteq Callees(Of(src, methods))'
         /\ Hosts(src) \subseteq Hosts(src)'
         /\ Abroad(src) \subseteq Abroad(src)'
         /\ Callees(Abroad(src)) \subseteq Callees(Abroad(src))'
         /\ (\E i \in Abroad(src) : txs[i].status = 200) =>
                (\E i \in Abroad(src) : txs[i].status = 200)'
  <1>1. Kept
    BY StepKeeps
  <1>2. Scanner(src) => Scanner(src)'
    BY <1>1 DEF Kept, Scanner
  <1>3. \A methods : Of(src, methods) \subseteq Of(src, methods)'
    BY <1>1 DEF Kept, Of
  <1>4. FailedAuth(src) \subseteq FailedAuth(src)'
    BY <1>1 DEF Kept, Of, FailedAuth
  <1>5. \A methods : Callees(Of(src, methods)) \subseteq Callees(Of(src, methods))'
    BY <1>1 DEF Kept, Of, Callees
  <1>6. NotFound(src) \subseteq NotFound(src)'
    BY <1>1 DEF Kept, Of, Callees, NotFound
  <1>7. Hosts(src) \subseteq Hosts(src)'
    BY <1>1 DEF Kept, Of, Hosts
  <1>8. Abroad(src) \subseteq Abroad(src)'
    BY <1>1 DEF Kept, Of, Abroad
  <1>9. Callees(Abroad(src)) \subseteq Callees(Abroad(src))'
    BY <1>1 DEF Kept, Of, Abroad, Callees
  <1>10. (\E i \in Abroad(src) : txs[i].status = 200) => (\E i \in Abroad(src) : txs[i].status = 200)'
    BY <1>1 DEF Kept, Of, Abroad
  <1> QED BY <1>2, <1>3, <1>4, <1>5, <1>6, <1>7, <1>8, <1>9, <1>10

\* There are finitely many after a step as well.
LEMMA FiniteNext ==
  ASSUME SecurityInv, Next, NEW src
  PROVE  /\ IsFiniteSet(FailedAuth(src)') /\ IsFiniteSet(NotFound(src)') /\ IsFiniteSet(Hosts(src)')
         /\ \A methods : IsFiniteSet(Callees(Of(src, methods))')
         /\ IsFiniteSet(Callees(Abroad(src))')
  <1> DEFINE D == DOMAIN txs'
             to == [i \in D |-> txs'[i].request.to]
             host == [i \in D |-> txs'[i].request.host]
  <1>1. SecurityInv'
    BY SecurityNextInv
  <1>2. IsFiniteSet(D)
    <2>1. Len(txs') \in Nat /\ D = 1..Len(txs')
      BY <1>1 DEF SecurityInv
    <2> QED BY <2>1, FS_Interval
  <1>3. IsFiniteSet({to[i] : i \in D}) /\ IsFiniteSet({host[i] : i \in D})
    BY <1>2, FiniteImage
  <1>4. FailedAuth(src)' \in SUBSET D
    BY DEF FailedAuth, Of
  <1>5. NotFound(src)' \in SUBSET {to[i] : i \in D}
    BY DEF NotFound, Callees, Of
  <1>6. Hosts(src)' \in SUBSET {host[i] : i \in D}
    BY DEF Hosts, Of
  <1>7. \A methods : Callees(Of(src, methods))' \in SUBSET {to[i] : i \in D}
    BY DEF Callees, Of
  <1>8. Callees(Abroad(src))' \in SUBSET {to[i] : i \in D}
    BY DEF Callees, Abroad, Of
  <1> HIDE DEF D, to, host
  <1> QED BY <1>2, <1>3, <1>4, <1>5, <1>6, <1>7, <1>8, FS_Subset

-----------------------------------------------------------------------------
(* Alerts.                                                                  *)

\* Each finding that is an alert has its like after a step, as grave.
LEMMA AlertKept ==
  ASSUME SecurityInv, Next, NEW a \in Alerts
  PROVE  \E b \in Alerts' :
            b.src = a.src /\ b.type = a.type /\ (a.severity = "critical" => b.severity = "critical")
  <1>1. PICK src \in Sources : a \in AlertsOf(src)
    BY DEF Alerts
  <1>2. src \in Sources'
    BY StepKeeps DEF Sources, Kept
  <1>3. SUFFICES \E b \in AlertsOf(src)' :
            b.src = a.src /\ b.type = a.type /\ (a.severity = "critical" => b.severity = "critical")
    BY <1>2 DEF Alerts
  <1>4. Guesses \in Nat /\ Enumerated \in Nat /\ Scanned \in Nat /\ Swept \in Nat /\ Fraud \in Nat
    BY SecurityAssumption
  <1>5. CASE a \in Alert(Scanner(src), "scanner", "critical", src)
    BY <1>5, AccumulatorsGrow DEF Alert, AlertsOf
  <1>6. CASE a \in Alert(Cardinality(FailedAuth(src)) >= Guesses, "brute_force", "critical", src)
    <2>1. Cardinality(FailedAuth(src)) >= Guesses /\ a = [type |-> "brute_force", severity |-> "critical", src |-> src]
      BY <1>6 DEF Alert
    <2>2. Cardinality(FailedAuth(src)') >= Guesses
      BY <1>4, <2>1, AccumulatorsGrow, FiniteNext, StillReached
    <2> QED BY <2>1, <2>2 DEF Alert, AlertsOf
  <1>7. CASE a \in Alert(Cardinality(NotFound(src)) >= Enumerated, "enumeration", "warning", src)
    <2>1. Cardinality(NotFound(src)) >= Enumerated /\ a = [type |-> "enumeration", severity |-> "warning", src |-> src]
      BY <1>7 DEF Alert
    <2>2. Cardinality(NotFound(src)') >= Enumerated
      BY <1>4, <2>1, AccumulatorsGrow, FiniteNext, StillReached
    <2> QED BY <2>1, <2>2 DEF Alert, AlertsOf
  <1>8. CASE a \in Alert(Cardinality(Callees(Of(src, {"INVITE", "REGISTER", "OPTIONS"}))) >= Scanned,
                         "scan", "warning", src)
    <2>1. /\ Cardinality(Callees(Of(src, {"INVITE", "REGISTER", "OPTIONS"}))) >= Scanned
          /\ a = [type |-> "scan", severity |-> "warning", src |-> src]
      BY <1>8 DEF Alert
    <2>3. /\ Callees(Of(src, {"INVITE", "REGISTER", "OPTIONS"}))
                \subseteq Callees(Of(src, {"INVITE", "REGISTER", "OPTIONS"}))'
          /\ IsFiniteSet(Callees(Of(src, {"INVITE", "REGISTER", "OPTIONS"}))')
      BY AccumulatorsGrow, FiniteNext
    <2>2. Cardinality(Callees(Of(src, {"INVITE", "REGISTER", "OPTIONS"}))') >= Scanned
      BY <1>4, <2>1, <2>3, StillReached
    <2> QED BY <2>1, <2>2 DEF Alert, AlertsOf
  <1>9. CASE a \in Alert(Cardinality(Hosts(src)) >= Swept, "options_sweep", "warning", src)
    <2>1. Cardinality(Hosts(src)) >= Swept /\ a = [type |-> "options_sweep", severity |-> "warning", src |-> src]
      BY <1>9 DEF Alert
    <2>2. Cardinality(Hosts(src)') >= Swept
      BY <1>4, <2>1, AccumulatorsGrow, FiniteNext, StillReached
    <2> QED BY <2>1, <2>2 DEF Alert, AlertsOf
  <1>10. CASE a \in Alert(Cardinality(Callees(Abroad(src))) >= Fraud, "toll_fraud",
                          IF \E i \in Abroad(src) : txs[i].status = 200 THEN "critical" ELSE "warning", src)
    <2>1. /\ Cardinality(Callees(Abroad(src))) >= Fraud /\ a.type = "toll_fraud" /\ a.src = src
          /\ a.severity = "critical" => \E i \in Abroad(src) : txs[i].status = 200
      BY <1>10 DEF Alert
    <2>2. Cardinality(Callees(Abroad(src))') >= Fraud
      BY <1>4, <2>1, AccumulatorsGrow, FiniteNext, StillReached
    <2>3. a.severity = "critical" => (\E i \in Abroad(src) : txs[i].status = 200)'
      BY <2>1, AccumulatorsGrow
    <2> DEFINE grave == (\E i \in Abroad(src) : txs[i].status = 200)'
               b == [type |-> "toll_fraud", severity |-> IF grave THEN "critical" ELSE "warning", src |-> src]
    <2>4. b \in AlertsOf(src)'
      BY <2>2 DEF Alert, AlertsOf
    <2>5. b.src = a.src /\ b.type = a.type /\ (a.severity = "critical" => b.severity = "critical")
      BY <2>1, <2>3
    <2> QED BY <2>4, <2>5
  <1> QED BY <1>1, <1>5, <1>6, <1>7, <1>8, <1>9, <1>10 DEF AlertsOf

\* No alert is ever taken back or played down, whatever the source does next and
\* however late its requests are answered (analyze_sip_security).
THEOREM AlertsStayAlways == Spec => AlertsStay
  <1>1. ASSUME SecurityInv, Next
        PROVE  \A a \in Alerts : \E b \in Alerts' :
                  b.src = a.src /\ b.type = a.type /\ (a.severity = "critical" => b.severity = "critical")
    BY <1>1, AlertKept
  <1> QED BY <1>1, SecurityInvariance, PTL DEF Spec, AlertsStay

-----------------------------------------------------------------------------
(* Findings on registrations.                                               *)

\* A finite set of places has a greatest one.
LEMMA Greatest ==
  ASSUME NEW n \in Nat, NEW S, S \subseteq 1..n, S # {}
  PROVE  \E i \in S : \A j \in S : j <= i
  <1> DEFINE T == {i..n : i \in S}
  <1>1. IsFiniteSet(1..n) /\ FiniteSubsetsOf(1..n) = SUBSET (1..n)
    BY FS_Interval, FS_FiniteSubsetsOfFinite
  <1>2. T \subseteq FiniteSubsetsOf(1..n) /\ T # {}
    <2>1. \A i \in S : i..n \in SUBSET (1..n)
      OBVIOUS
    <2>2. \A U \in T : U \in SUBSET (1..n)
      BY <2>1
    <2> HIDE DEF T
    <2>3. T \subseteq SUBSET (1..n)
      BY <2>2
    <2>4. T # {}
      BY DEF T
    <2> QED BY <1>1, <2>3, <2>4
  <1>3. PICK x \in T : \A y \in T : <<y, x>> \notin StrictSubsetOrdering(1..n)
    BY <1>2, FS_StrictSubsetOrderingWellFounded, WFMin
  <1>4. PICK i \in S : x = i..n
    BY <1>3
  <1>5. ASSUME NEW j \in S, j > i
        PROVE  FALSE
    <2>1. j..n \in SUBSET (1..n) /\ i..n \in SUBSET (1..n)
      OBVIOUS
    <2>2. j..n \subseteq i..n /\ i \in i..n /\ i \notin j..n
      BY <1>5
    <2>3. j..n \in T
      OBVIOUS
    <2> QED BY <1>3, <1>4, <2>1, <2>2, <2>3 DEF StrictSubsetOrdering
  <1> QED BY <1>4, <1>5

\* The last answered attempt of a registration was accepted.
Accepted(r) ==
    \E i \in Attempts(r) : /\ txs[i].status \in 200..299
                           /\ \A j \in Attempts(r) : j > i => txs[j].status \in {0} \cup 200..299

\* A registration that ended well is one whose state is neither failed nor no_response.
LEMMA StateTells ==
  ASSUME SecurityInv, NEW r
  PROVE  Accepted(r) <=> State(r) \notin {"failed", "no_response"}
  <1> DEFINE finals == {i \in Attempts(r) : txs[i].status # 0}
             last == CHOOSE i \in finals : \A j \in finals : j <= i
  <1>1. Attempts(r) \subseteq 1..Len(txs) /\ Len(txs) \in Nat
    BY DEF SecurityInv, Attempts, Of
  <1>2. \A i \in Attempts(r) : txs[i].status \in {0} \cup 200..699
    BY AtTransaction DEF Attempts, Of, Transaction
  <1>3. CASE finals = {}
    <2>1. State(r) = "no_response"
      BY <1>3 DEF State
    <2>2. ~Accepted(r)
      BY <1>3 DEF Accepted
    <2> QED BY <2>1, <2>2
  <1>4. CASE finals # {}
    <2>1. \E i \in finals : \A j \in finals : j <= i
      BY <1>1, <1>4, Greatest
    <2>2. last \in finals /\ \A j \in finals : j <= last
      BY <2>1
    <2>3. State(r) \in {"failed", "no_response"} <=> txs[last].status \notin 200..299
      BY <1>4 DEF State
    <2> HIDE DEF last
    <2>4. CASE txs[last].status \in 200..299
      <3>1. \A j \in Attempts(r) : j > last => txs[j].status = 0
        BY <1>1, <2>2
      <3> QED BY <2>2, <2>3, <2>4, <3>1 DEF Accepted
    <2>5. CASE txs[last].status \notin 200..299
      <3>1. ASSUME NEW i \in Attempts(r), txs[i].status \in 200..299,
                   \A j \in Attempts(r) : j > i => txs[j].status \in {0} \cup 200..299
            PROVE  FALSE
        <4>1. i \in finals /\ i # last
          BY <2>5, <3>1
        <4>2. last > i
          BY <1>1, <2>2, <4>1
        <4> QED BY <2>2, <2>5, <3>1, <4>2
      <3> QED BY <2>3, <2>5, <3>1 DEF Accepted
    <2> QED BY <2>4, <2>5
  <1> QED BY <1>3, <1>4

\* A finding is about failed registrations of its source.
LEMMA FindingsOfSource ==
  ASSUME NEW src, NEW f \in FindingsOf(src)
  PROVE  f.registrations \subseteq Failed(src)
  BY DEF FindingsOf, Finding, OwnFinding

\* The findings that a registration is in.
LEMMA Reported ==
  ASSUME SecurityInv, NEW r \in Registrations
  PROVE  LET findings == {f \in RegisterFindings : r \in f.registrations} IN
         IF Accepted(r) \/ r.src \in Attackers THEN findings = {}
         ELSE /\ Cardinality(findings) = 1
              /\ Refused(r) # {} => \A f \in findings : f.severity = "critical"
  <1> DEFINE findings == {f \in RegisterFindings : r \in f.registrations}
  <1>1. r.src \in Sources
    BY DEF Registrations, Sources
  <1>2. \A src : \A q \in Failed(src) : q.src = src
    BY DEF Failed
  <1>3. findings = {f \in FindingsOf(r.src) : r \in f.registrations /\ r.src \notin Attackers}
    BY <1>1, <1>2, FindingsOfSource DEF RegisterFindings
  <1>4. Accepted(r) <=> r \notin Failed(r.src)
    BY StateTells DEF Failed
  <1>5. CASE Accepted(r) \/ r.src \in Attackers
    BY <1>3, <1>4, <1>5, FindingsOfSource
  <1>6. CASE ~Accepted(r) /\ r.src \notin Attackers /\ Cardinality(Failed(r.src)) > Several
    <2>1. findings = {Finding("REGISTER_FAILED", "critical", Failed(r.src))}
      BY <1>3, <1>4, <1>6 DEF FindingsOf, Finding
    <2>2. \A f \in findings : f.severity = "critical"
      BY <2>1 DEF Finding
    <2>3. Cardinality(findings) = 1
      BY <2>1, FS_Singleton
    <2> QED BY <1>6, <2>2, <2>3
  <1>7. CASE ~Accepted(r) /\ r.src \notin Attackers /\ ~(Cardinality(Failed(r.src)) > Several)
    <2>1. FindingsOf(r.src) = {OwnFinding(q) : q \in Failed(r.src)}
      BY <1>7 DEF FindingsOf
    <2>2. \A q : OwnFinding(q).registrations = {q}
      BY DEF OwnFinding, Finding
    <2>3. findings = {OwnFinding(r)}
      BY <1>3, <1>4, <1>7, <2>1, <2>2
    <2>4. Refused(r) # {} => OwnFinding(r).severity = "critical"
      BY DEF OwnFinding, Finding
    <2> QED BY <1>7, <2>3, <2>4, FS_Singleton
  <1> QED BY <1>5, <1>6, <1>7

\* Whatever a source sends and however it is answered, each of its failed
\* registrations is in exactly one finding, or its source is reported as an
\* attacker, and none that stands is in any (attackers and failed_by_src in
\* diagnose).
THEOREM FailuresAreReported == Spec => []RegistrationsReported
  <1>1. ASSUME SecurityInv PROVE RegistrationsReported
    <2>1. \A src : (\E a \in Alerts : a.src = src /\ a.type \in {"brute_force", "scanner", "enumeration"})
                      <=> src \in Attackers
      BY DEF Attackers
    <2>2. \A r \in Registrations :
              LET findings == {f \in RegisterFindings : r \in f.registrations} IN
              IF Accepted(r) \/ r.src \in Attackers THEN findings = {}
              ELSE /\ Cardinality(findings) = 1
                   /\ Refused(r) # {} => \A f \in findings : f.severity = "critical"
      BY <1>1, Reported
    <2> SUFFICES ASSUME NEW r \in Registrations
                 PROVE  LET findings == {f \in RegisterFindings : r \in f.registrations}
                            attacked == \E a \in Alerts : /\ a.src = r.src
                                                        /\ a.type \in {"brute_force", "scanner", "enumeration"}
                        IN IF Accepted(r) \/ attacked THEN findings = {}
                           ELSE /\ Cardinality(findings) = 1
                                /\ Refused(r) # {} => \A f \in findings : f.severity = "critical"
      BY DEF RegistrationsReported, Accepted
    <2> QED BY <2>1, <2>2
  <1> QED BY <1>1, SecurityInvariance, PTL

-----------------------------------------------------------------------------
(* The state of a registration.                                            *)
AskedSet == [credentials : BOOLEAN, lifetime : Lifetimes]
MessageSet == [kind : {"request", "response"}, hop : Hops, cseq : Nat, status : {0, 200, 401, 403}]

\* The messages that there may be: requests that were issued, responses decided.
Genuine == {Request(h, n) : h \in Hops, n \in 1..Newest}
           \cup {Response(h, n, verdicts[n].status) :
                    h \in Hops, n \in {k \in 1..Newest : verdicts[k] # None}}

RegistrationTypeOK ==
    /\ requests \in Seq(AskedSet)
    /\ verdicts \in Seq(VerdictSet \cup {None}) /\ Len(verdicts) = Newest
    /\ \A n \in 1..Newest : verdicts[n] # None => verdicts[n] \in Verdicts(requests[n])
    /\ waiting \in BOOLEAN /\ (waiting => Newest > 0)
    /\ missed \in Nat
    /\ capture \in Seq(MessageSet)

GenuineOk == net \subseteq Genuine /\ \A i \in DOMAIN capture : capture[i] \in Genuine

Captured(m) == \E i \in DOMAIN capture : capture[i] = m

\* What crossed a hop came of what had crossed it, or the other hop, before.
CausesOk ==
    /\ \A m \in net : Captured(m)
    /\ \A n \in 1..Newest : Captured(Request(1, n))
    /\ \A n \in Nat, s \in {200, 401, 403} :
          /\ Captured(Response(1, n, s)) => Captured(Response(2, n, s))
          /\ Captured(Response(2, n, s)) => Captured(Request(2, n))

\* A request that the user agent is done with has been forwarded or never will be.
SettledOk ==
    \A n \in 1..Newest : n < Newest \/ ~waiting =>
        Captured(Request(2, n)) \/ Request(1, n) \notin net

\* Requests are captured for the first time in the order in which they were issued.
OrderOk ==
    \A h \in Hops, m, n \in 1..Newest : m < n =>
        \A j \in Copies(h, n) : Copies(h, m) # {} => \E k \in Copies(h, m) : k < j

RegistrationInv ==
    /\ RegistrationTypeOK /\ GenuineOk
    /\ Complete => CausesOk /\ SettledOk /\ OrderOk

\* Two requests are the same message only with one hop and one number.
LEMMA RequestsDiffer ==
  ASSUME NEW h, NEW n, NEW g, NEW k, Request(h, n) = Request(g, k)
  PROVE  h = g /\ n = k
  BY DEF Request

\* Likewise two responses.
LEMMA ResponsesDiffer ==
  ASSUME NEW h, NEW n, NEW s, NEW g, NEW k, NEW t, Response(h, n, s) = Response(g, k, t)
  PROVE  h = g /\ n = k /\ s = t
  BY DEF Response

\* No request is a response.
LEMMA KindsDiffer ==
  ASSUME NEW h, NEW n, NEW g, NEW k, NEW s
  PROVE  Request(h, n) # Response(g, k, s)
  BY DEF Request, Response

\* The messages that there may be, case by case.
LEMMA GenuineIs ==
  ASSUME NEW m
  PROVE  m \in Genuine <=> \E h \in Hops, n \in 1..Newest :
                              \/ m = Request(h, n)
                              \/ verdicts[n] # None /\ m = Response(h, n, verdicts[n].status)
  BY DEF Genuine

\* What the registrar may answer to a request.
LEMMA VerdictsTyped ==
  ASSUME NEW r \in AskedSet
  PROVE  Verdicts(r) \subseteq VerdictSet
  <1>1. CASE r.credentials
    BY <1>1 DEF Verdicts, Verdict, VerdictSet
  <1>2. CASE ~r.credentials
    BY <1>2 DEF Verdicts, Verdict, VerdictSet
  <1> QED BY <1>1, <1>2

\* The messages that there may be are messages.
LEMMA GenuineTyped == ASSUME RegistrationTypeOK PROVE Genuine \subseteq MessageSet
  <1> SUFFICES ASSUME NEW m \in Genuine
               PROVE  m \in MessageSet
    OBVIOUS
  <1>1. PICK h \in Hops, n \in 1..Newest :
            \/ m = Request(h, n)
            \/ verdicts[n] # None /\ m = Response(h, n, verdicts[n].status)
    BY GenuineIs
  <1>2. verdicts[n] # None => verdicts[n].status \in {200, 401, 403}
    BY DEF RegistrationTypeOK, VerdictSet
  <1>3. n \in Nat
    BY DEF RegistrationTypeOK
  <1> QED BY <1>1, <1>2, <1>3 DEF MessageSet, Request, Response

-----------------------------------------------------------------------------
(* What is common to the steps that send a message.                         *)

\* What was asked and decided stays.
Settles ==
    /\ Newest \in Nat /\ Newest' \in Nat /\ Newest <= Newest'
    /\ \A n \in 1..Newest : verdicts[n] # None => verdicts'[n] = verdicts[n]

\* A message that there may be stays one.
LEMMA GenuineStays == ASSUME Settles PROVE Genuine \subseteq Genuine'
  <1> SUFFICES ASSUME NEW m \in Genuine
               PROVE  m \in Genuine'
    OBVIOUS
  <1>1. PICK h \in Hops, n \in 1..Newest :
            \/ m = Request(h, n)
            \/ verdicts[n] # None /\ m = Response(h, n, verdicts[n].status)
    BY GenuineIs
  <1>2. n \in 1..Newest' /\ (verdicts[n] # None => verdicts'[n] = verdicts[n])
    BY DEF Settles
  <1> QED BY <1>1, <1>2 DEF Genuine

\* Only such messages are sent and captured.
LEMMA TransmitGenuine ==
  ASSUME RegistrationInv, Settles, NEW m \in Genuine', Transmit(m)
  PROVE  GenuineOk'
  <1>1. net' \subseteq Genuine'
    BY GenuineStays DEF Transmit, RegistrationInv, GenuineOk
  <1>2. ASSUME NEW i \in DOMAIN capture'
        PROVE  capture'[i] \in Genuine'
    <2>1. capture \in Seq(MessageSet)
      BY DEF RegistrationInv, RegistrationTypeOK
    <2>2. capture' = capture \/ capture' = Append(capture, m)
      BY DEF Transmit
    <2>3. capture'[i] = m \/ (i \in DOMAIN capture /\ capture'[i] = capture[i])
      BY <2>1, <2>2
    <2> QED BY <2>3, GenuineStays DEF RegistrationInv, GenuineOk
  <1> QED BY <1>1, <1>2 DEF GenuineOk

\* A transmission keeps the types.
LEMMA TransmitTyped ==
  ASSUME RegistrationInv, NEW m \in MessageSet, Transmit(m)
  PROVE  capture' \in Seq(MessageSet) /\ missed' \in Nat
  <1>1. capture \in Seq(MessageSet) /\ missed \in Nat
    BY DEF RegistrationInv, RegistrationTypeOK
  <1>2. capture' = capture \/ capture' = Append(capture, m)
    BY DEF Transmit
  <1>3. missed' = missed \/ missed' = missed + 1
    BY DEF Transmit
  <1> QED BY <1>1, <1>2, <1>3

\* When the capture misses nothing, it has the message now, at its end.
LEMMA TransmitCaptured ==
  ASSUME RegistrationInv, NEW m, Transmit(m), Complete'
  PROVE  /\ Complete
         /\ \A x : Captured(x)' <=> Captured(x) \/ x = m
         /\ Len(capture) \in Nat
         /\ \A h, n : Copies(h, n) \subseteq 1..Len(capture)
         /\ \A h, n : Copies(h, n)' = IF m = Request(h, n) THEN Copies(h, n) \cup {Len(capture) + 1}
                                      ELSE Copies(h, n)
  <1>1. Complete /\ capture' = Append(capture, m)
    BY DEF Transmit, Complete, RegistrationInv, RegistrationTypeOK
  <1>2. /\ Len(capture) \in Nat /\ DOMAIN capture = 1..Len(capture)
        /\ DOMAIN capture' = 1..(Len(capture) + 1)
        /\ \A i \in DOMAIN capture : capture'[i] = capture[i]
        /\ capture'[Len(capture) + 1] = m
    BY <1>1 DEF RegistrationInv, RegistrationTypeOK
  <1>3. \A x : Captured(x)' <=> Captured(x) \/ x = m
    BY <1>2 DEF Captured
  <1>4. ASSUME NEW h, NEW n
        PROVE  Copies(h, n)' = IF m = Request(h, n) THEN Copies(h, n) \cup {Len(capture) + 1}
                               ELSE Copies(h, n)
    BY <1>2 DEF Copies
  <1> QED BY <1>1, <1>2, <1>3, <1>4 DEF Copies

\* Requests not issued yet have not been captured.
LEMMA NoneAhead ==
  ASSUME RegistrationInv, NEW h, NEW n, n \notin 1..Newest
  PROVE  Copies(h, n) = {}
  <1>1. \A i \in DOMAIN capture : capture[i] # Request(h, n)
    <2> SUFFICES ASSUME NEW i \in DOMAIN capture, capture[i] = Request(h, n)
                 PROVE  FALSE
      OBVIOUS
    <2>1. Request(h, n) \in Genuine
      BY DEF RegistrationInv, GenuineOk
    <2>2. PICK g \in Hops, k \in 1..Newest :
              \/ Request(h, n) = Request(g, k)
              \/ Request(h, n) = Response(g, k, verdicts[k].status)
      BY <2>1, GenuineIs
    <2> QED BY <2>2, RequestsDiffer, KindsDiffer
  <1> QED BY <1>1 DEF Copies

\* A transmission keeps the order in which requests are first captured.
LEMMA TransmitOrder ==
  ASSUME RegistrationInv, Settles, NEW x, Transmit(x), Complete',
         \A h \in Hops, k \in 1..Newest' : x = Request(h, k) =>
             Copies(h, k) # {} \/ \A n \in 1..Newest : n <= k
  PROVE  OrderOk'
  <1> SUFFICES ASSUME NEW h \in Hops, NEW m \in 1..Newest', NEW n \in 1..Newest', m < n,
                      NEW j \in Copies(h, n)', Copies(h, m)' # {}
               PROVE  \E k \in Copies(h, m)' : k < j
    BY DEF OrderOk
  <1>1. /\ OrderOk /\ Len(capture) \in Nat
        /\ \A g, k : Copies(g, k) \subseteq 1..Len(capture)
        /\ \A g, k : Copies(g, k)' = IF x = Request(g, k) THEN Copies(g, k) \cup {Len(capture) + 1}
                                     ELSE Copies(g, k)
    BY TransmitCaptured DEF RegistrationInv
  <1>2. CASE j \in Copies(h, n)
    <2>1. n \in 1..Newest
      BY <1>2, NoneAhead
    <2>2. m \in 1..Newest
      BY <2>1 DEF Settles
    <2>3. Copies(h, m) # {}
      BY <1>1, <2>1
    <2> QED BY <1>1, <1>2, <2>1, <2>2, <2>3 DEF OrderOk
  <1>3. CASE j \notin Copies(h, n)
    <2>1. x = Request(h, n) /\ j = Len(capture) + 1
      BY <1>1, <1>3
    <2>2. x # Request(h, m)
      <3>1. m # n
        BY DEF Settles
      <3> QED BY <2>1, <3>1, RequestsDiffer
    <2>3. PICK k \in Copies(h, m) : TRUE
      BY <1>1, <2>2
    <2>4. k < j
      BY <1>1, <2>1, <2>3
    <2> QED BY <1>1, <2>2, <2>3, <2>4
  <1> QED BY <1>2, <1>3

\* A transmission keeps causes before their effects in the capture.
LEMMA TransmitCauses ==
  ASSUME RegistrationInv, Settles, NEW m, Transmit(m), Complete',
         \A n \in 1..Newest' : n \in 1..Newest \/ m = Request(1, n),
         \A n \in Nat, s \in {200, 401, 403} :
             /\ m = Response(1, n, s) => Captured(Response(2, n, s))
             /\ m = Response(2, n, s) => Captured(Request(2, n))
  PROVE  CausesOk'
  <1>1. CausesOk /\ \A x : Captured(x)' <=> Captured(x) \/ x = m
    BY TransmitCaptured DEF RegistrationInv
  <1>2. \A x \in net' : Captured(x)'
    BY <1>1 DEF CausesOk, Transmit
  <1>3. \A n \in 1..Newest' : Captured(Request(1, n))'
    BY <1>1 DEF CausesOk
  <1>4. \A n \in Nat, s \in {200, 401, 403} :
            /\ Captured(Response(1, n, s))' => Captured(Response(2, n, s))'
            /\ Captured(Response(2, n, s))' => Captured(Request(2, n))'
    BY <1>1 DEF CausesOk
  <1> QED BY <1>2, <1>3, <1>4 DEF CausesOk

\* A transmission keeps what was settled.
LEMMA TransmitSettled ==
  ASSUME RegistrationInv, Settles, NEW m, Transmit(m), Complete',
         \A n \in 1..Newest' : n < Newest' \/ ~waiting' =>
             /\ n \in 1..Newest /\ m # Request(1, n)
             /\ n < Newest \/ ~waiting \/ Captured(Request(2, n))
  PROVE  SettledOk'
  <1>1. SettledOk /\ \A x : Captured(x)' <=> Captured(x) \/ x = m
    BY TransmitCaptured DEF RegistrationInv
  <1> SUFFICES ASSUME NEW n \in 1..Newest', n < Newest' \/ ~waiting'
               PROVE  Captured(Request(2, n))' \/ Request(1, n) \notin net'
    BY DEF SettledOk
  <1> QED BY <1>1 DEF SettledOk, Transmit

\* What the user agent hears has been through the proxy.
LEMMA HeardIsForwarded ==
  ASSUME RegistrationInv, Complete, NEW n \in Nat, NEW s \in {200, 401, 403},
         Response(1, n, s) \in net
  PROVE  Captured(Request(2, n))
  BY DEF RegistrationInv, CausesOk

\* A request was captured when some of its copies were.
LEMMA CapturedCopies ==
  ASSUME NEW h, NEW n
  PROVE  Captured(Request(h, n)) <=> Copies(h, n) # {}
  BY DEF Captured, Copies

-----------------------------------------------------------------------------
(* The steps.                                                              *)

\* The phone issues a request.
LEMMA IssueInv ==
  ASSUME RegistrationInv, NEW r \in AskedSet, Issue(r), waiting \in BOOLEAN,
         Complete /\ waiting => Captured(Request(2, Newest))
  PROVE  RegistrationInv'
  <1>1. PICK k \in Nat : k = Newest + 1
    BY DEF RegistrationInv, RegistrationTypeOK
  <1>2. /\ requests \in Seq(AskedSet) /\ verdicts \in Seq(VerdictSet \cup {None})
        /\ Len(verdicts) = Newest
        /\ requests' = Append(requests, r) /\ verdicts' = Append(verdicts, None)
        /\ waiting' = TRUE /\ Transmit(Request(1, k))
    BY <1>1 DEF Issue, RegistrationInv, RegistrationTypeOK
  <1>3. /\ Newest \in Nat /\ Newest' = Newest + 1 /\ k = Newest' /\ 1..Newest' = (1..Newest) \cup {k}
        /\ requests' \in Seq(AskedSet) /\ verdicts' \in Seq(VerdictSet \cup {None})
        /\ Len(verdicts') = Newest'
        /\ verdicts'[k] = None
        /\ \A n \in 1..Newest : verdicts'[n] = verdicts[n] /\ requests'[n] = requests[n]
    BY <1>1, <1>2 DEF Newest
  <1>4. Settles
    BY <1>3 DEF Settles
  <1>5. Request(1, k) \in Genuine' /\ Request(1, k) \in MessageSet
    <2>1. Request(1, k) \in MessageSet
      BY <1>1 DEF Request, MessageSet, Hops
    <2>2. k \in 1..Newest' /\ 1 \in Hops
      BY <1>3 DEF Hops
    <2> QED BY <2>1, <2>2 DEF Genuine
  <1>6. RegistrationTypeOK'
    <2>1. capture' \in Seq(MessageSet) /\ missed' \in Nat
      BY <1>2, <1>5, TransmitTyped
    <2>2. \A n \in 1..Newest' : verdicts'[n] # None => verdicts'[n] \in Verdicts(requests'[n])
      BY <1>3 DEF RegistrationInv, RegistrationTypeOK
    <2>3. waiting' \in BOOLEAN /\ (waiting' => Newest' > 0)
      BY <1>1, <1>2, <1>3
    <2> QED BY <1>3, <2>1, <2>2, <2>3 DEF RegistrationTypeOK
  <1>7. GenuineOk'
    BY <1>2, <1>4, <1>5, TransmitGenuine
  <1>8. ASSUME Complete'
        PROVE  CausesOk' /\ SettledOk' /\ OrderOk'
    <2>1. Complete
      BY <1>2, <1>8, TransmitCaptured
    <2>2. CausesOk'
      <3>1. \A n \in 1..Newest' : n \in 1..Newest \/ Request(1, k) = Request(1, n)
        BY <1>3
      <3>2. \A n \in Nat, s \in {200, 401, 403} :
                Request(1, k) # Response(1, n, s) /\ Request(1, k) # Response(2, n, s)
        BY KindsDiffer
      <3> QED BY <1>2, <1>4, <1>8, <3>1, <3>2, TransmitCauses, SMTT(30)
    <2>3. SettledOk'
      <3>1. ASSUME NEW n \in 1..Newest', n < Newest' \/ ~waiting'
            PROVE  /\ n \in 1..Newest /\ Request(1, k) # Request(1, n)
                   /\ n < Newest \/ ~waiting \/ Captured(Request(2, n))
        <4>1. n \in 1..Newest /\ n # k
          BY <1>2, <1>3, <3>1
        <4>2. n < Newest \/ n = Newest
          BY <1>3, <4>1
        <4> QED BY <2>1, <4>1, <4>2, RequestsDiffer
      <3> QED BY <1>2, <1>4, <1>8, <3>1, TransmitSettled
    <2>4. OrderOk'
      <3>1. \A h \in Hops, j \in 1..Newest' : Request(1, k) = Request(h, j) =>
                Copies(h, j) # {} \/ \A n \in 1..Newest : n <= j
        BY <1>1, <1>3, RequestsDiffer
      <3> QED BY <1>2, <1>4, <1>8, <3>1, TransmitOrder
    <2> QED BY <2>2, <2>3, <2>4
  <1> QED BY <1>6, <1>7, <1>8 DEF RegistrationInv

\* A step that sends a message about what was asked before.
LEMMA SendInv ==
  ASSUME RegistrationInv, NEW m \in MessageSet, m \in Genuine', Transmit(m),
         requests' = requests, waiting' = waiting,
         verdicts' \in Seq(VerdictSet \cup {None}), Len(verdicts') = Len(verdicts),
         \A n \in 1..Newest : /\ verdicts[n] # None => verdicts'[n] = verdicts[n]
                              /\ verdicts'[n] # None => verdicts'[n] \in Verdicts(requests[n]),
         \A n \in Nat :
             /\ m = Request(1, n) => n = Newest /\ waiting
             /\ m = Request(2, n) => Request(1, n) \in net,
         Complete => \A n \in Nat, s \in {200, 401, 403} :
             /\ m = Response(1, n, s) => Captured(Response(2, n, s))
             /\ m = Response(2, n, s) => Captured(Request(2, n))
  PROVE  RegistrationInv'
  <1>1. Newest \in Nat /\ Newest' = Newest
    BY DEF Newest, RegistrationInv, RegistrationTypeOK
  <1>2. Settles
    BY <1>1 DEF Settles
  <1>3. RegistrationTypeOK'
    <2>1. capture' \in Seq(MessageSet) /\ missed' \in Nat
      BY TransmitTyped
    <2>2. /\ requests' \in Seq(AskedSet) /\ Len(verdicts') = Newest'
          /\ waiting' \in BOOLEAN /\ (waiting' => Newest' > 0)
      BY <1>1 DEF RegistrationInv, RegistrationTypeOK
    <2>3. \A n \in 1..Newest' : verdicts'[n] # None => verdicts'[n] \in Verdicts(requests'[n])
      BY <1>1
    <2> QED BY <2>1, <2>2, <2>3 DEF RegistrationTypeOK
  <1>4. GenuineOk'
    BY <1>2, TransmitGenuine
  <1>5. ASSUME Complete'
        PROVE  CausesOk' /\ SettledOk' /\ OrderOk'
    <2>1. Complete
      BY <1>5, TransmitCaptured
    <2>2. CausesOk'
      BY <1>1, <1>2, <1>5, <2>1, TransmitCauses
    <2>3. SettledOk'
      <3>1. ASSUME NEW n \in 1..Newest', n < Newest' \/ ~waiting'
            PROVE  /\ n \in 1..Newest /\ m # Request(1, n)
                   /\ n < Newest \/ ~waiting \/ Captured(Request(2, n))
        BY <1>1, <3>1
      <3> QED BY <1>2, <1>5, <3>1, TransmitSettled
    <2>4. OrderOk'
      <3>1. ASSUME NEW h \in Hops, NEW k \in 1..Newest', m = Request(h, k), NEW n \in 1..Newest
            PROVE  Copies(h, k) # {} \/ n <= k
        <4>1. CASE h = 1
          BY <1>1, <3>1, <4>1
        <4>2. CASE h = 2 /\ k < Newest
          <5>1. Captured(Request(2, k))
            BY <1>1, <2>1, <3>1, <4>2 DEF RegistrationInv, SettledOk
          <5> QED BY <4>2, <5>1, CapturedCopies
        <4>3. CASE h = 2 /\ ~(k < Newest)
          BY <1>1, <4>3
        <4> QED BY <3>1, <4>1, <4>2, <4>3 DEF Hops
      <3> QED BY <1>2, <1>5, <3>1, TransmitOrder
    <2> QED BY <2>2, <2>3, <2>4
  <1> QED BY <1>3, <1>4, <1>5 DEF RegistrationInv

\* The phone sends it again.
LEMMA ResendInv == RegistrationInv /\ Resend => RegistrationInv'
  <1> SUFFICES ASSUME RegistrationInv, Resend
               PROVE  RegistrationInv'
    OBVIOUS
  <1>1. PICK k \in Nat : k = Newest
    BY DEF Newest, RegistrationInv, RegistrationTypeOK
  <1>2. waiting /\ Transmit(Request(1, k)) /\ requests' = requests /\ waiting' = waiting
        /\ verdicts' = verdicts
    BY <1>1 DEF Resend
  <1>3. k \in 1..Newest' /\ 1 \in Hops
    BY <1>1, <1>2 DEF RegistrationInv, RegistrationTypeOK, Newest, Hops
  <1>4. Request(1, k) \in MessageSet /\ Request(1, k) \in Genuine'
    BY <1>3 DEF Request, MessageSet, Genuine
  <1>5. \A n \in Nat : /\ Request(1, k) = Request(1, n) => n = Newest /\ waiting
                       /\ Request(1, k) # Request(2, n)
    BY <1>1, <1>2, RequestsDiffer
  <1>6. \A n \in Nat, s \in {200, 401, 403} :
            Request(1, k) # Response(1, n, s) /\ Request(1, k) # Response(2, n, s)
    BY KindsDiffer
  <1> QED BY <1>2, <1>4, <1>5, <1>6, SendInv DEF RegistrationInv, RegistrationTypeOK

\* The SBC forwards a request.
LEMMA ForwardInv == RegistrationInv /\ Forward => RegistrationInv'
  <1> SUFFICES ASSUME RegistrationInv, Forward
               PROVE  RegistrationInv'
    OBVIOUS
  <1>1. PICK k \in 1..Newest : Request(1, k) \in net /\ Transmit(Request(2, k))
    BY DEF Forward
  <1>2. k \in Nat /\ requests' = requests /\ waiting' = waiting /\ verdicts' = verdicts
    BY DEF Forward, RegistrationInv, RegistrationTypeOK
  <1>3. k \in 1..Newest' /\ 2 \in Hops
    BY <1>2 DEF RegistrationInv, RegistrationTypeOK, Newest, Hops
  <1>4. Request(2, k) \in MessageSet /\ Request(2, k) \in Genuine'
    BY <1>2, <1>3 DEF Request, MessageSet, Genuine
  <1>5. \A n \in Nat : /\ Request(2, k) # Request(1, n)
                       /\ Request(2, k) = Request(2, n) => Request(1, n) \in net
    BY <1>1, RequestsDiffer
  <1>6. \A n \in Nat, s \in {200, 401, 403} :
            Request(2, k) # Response(1, n, s) /\ Request(2, k) # Response(2, n, s)
    BY KindsDiffer
  <1> QED BY <1>1, <1>2, <1>4, <1>5, <1>6, SendInv DEF RegistrationInv, RegistrationTypeOK

\* The SBC relays a response.
LEMMA RelayInv == RegistrationInv /\ Relay => RegistrationInv'
  <1> SUFFICES ASSUME RegistrationInv, Relay
               PROVE  RegistrationInv'
    OBVIOUS
  <1>1. PICK k \in 1..Newest, t \in {200, 401, 403} :
            Response(2, k, t) \in net /\ Transmit(Response(1, k, t))
    BY DEF Relay
  <1>2. k \in Nat /\ requests' = requests /\ waiting' = waiting /\ verdicts' = verdicts
    BY DEF Relay, RegistrationInv, RegistrationTypeOK
  <1>3. Response(1, k, t) \in MessageSet /\ Response(1, k, t) \in Genuine'
    <2>1. PICK h \in Hops, n \in 1..Newest :
              \/ Response(2, k, t) = Request(h, n)
              \/ verdicts[n] # None /\ Response(2, k, t) = Response(h, n, verdicts[n].status)
      BY <1>1, GenuineIs DEF RegistrationInv, GenuineOk
    <2>2. verdicts[k] # None /\ t = verdicts[k].status
      BY <2>1, KindsDiffer, ResponsesDiffer
    <2>3. Newest' = Newest /\ verdicts'[k] # None /\ t = verdicts'[k].status
      BY <1>2, <2>2 DEF Newest
    <2> QED BY <1>1, <1>2, <2>3 DEF Response, MessageSet, Genuine, Hops
  <1>4. \A n \in Nat : Response(1, k, t) # Request(1, n) /\ Response(1, k, t) # Request(2, n)
    BY KindsDiffer
  <1>5. Complete => \A n \in Nat, s \in {200, 401, 403} :
            /\ Response(1, k, t) = Response(1, n, s) => Captured(Response(2, n, s))
            /\ Response(1, k, t) # Response(2, n, s)
    <2>1. Complete => Captured(Response(2, k, t))
      BY <1>1 DEF RegistrationInv, CausesOk
    <2>2. ASSUME NEW n, NEW s, Response(1, k, t) = Response(2, n, s) PROVE FALSE
      <3>1. 1 = 2
        BY <2>2, ResponsesDiffer
      <3> QED BY <3>1
    <2>3. ASSUME NEW n, NEW s, Response(1, k, t) = Response(1, n, s) PROVE n = k /\ s = t
      BY <2>3, ResponsesDiffer
    <2> QED BY <2>1, <2>2, <2>3
  <1> QED BY <1>1, <1>2, <1>3, <1>4, <1>5, SendInv DEF RegistrationInv, RegistrationTypeOK

\* The registrar decides.
LEMMA DecideInv == RegistrationInv /\ Decide => RegistrationInv'
  <1> SUFFICES ASSUME RegistrationInv, Decide
               PROVE  RegistrationInv'
    OBVIOUS
  <1>1. PICK k \in 1..Newest :
            /\ Request(2, k) \in net
            /\ \E v \in IF verdicts[k] = None THEN Verdicts(requests[k]) ELSE {verdicts[k]} :
                  verdicts' = [verdicts EXCEPT ![k] = v] /\ Transmit(Response(2, k, v.status))
    BY DEF Decide
  <1>2. PICK v \in IF verdicts[k] = None THEN Verdicts(requests[k]) ELSE {verdicts[k]} :
            verdicts' = [verdicts EXCEPT ![k] = v] /\ Transmit(Response(2, k, v.status))
    BY <1>1
  <1>3. /\ k \in Nat /\ requests' = requests /\ waiting' = waiting /\ Newest' = Newest
        /\ requests \in Seq(AskedSet) /\ Len(verdicts) = Newest
        /\ verdicts \in Seq(VerdictSet \cup {None})
    BY DEF Decide, RegistrationInv, RegistrationTypeOK, Newest
  <1>4. v \in Verdicts(requests[k]) /\ v \in VerdictSet
    <2>1. v \in Verdicts(requests[k])
      BY <1>2 DEF RegistrationInv, RegistrationTypeOK
    <2>2. requests[k] \in AskedSet
      BY <1>3 DEF Newest
    <2> QED BY <2>1, <2>2, VerdictsTyped
  <1>5. /\ verdicts' \in Seq(VerdictSet \cup {None}) /\ Len(verdicts') = Len(verdicts)
        /\ verdicts'[k] = v /\ \A n \in 1..Newest : n # k => verdicts'[n] = verdicts[n]
    BY <1>2, <1>3, <1>4
  <1>6. \A n \in 1..Newest : /\ verdicts[n] # None => verdicts'[n] = verdicts[n]
                             /\ verdicts'[n] # None => verdicts'[n] \in Verdicts(requests[n])
    <2>1. verdicts[k] # None => v = verdicts[k]
      BY <1>2
    <2> QED BY <1>4, <1>5, <2>1 DEF RegistrationInv, RegistrationTypeOK
  <1>7. PICK t \in {200, 401, 403} : t = v.status
    BY <1>4 DEF VerdictSet
  <1>8. Response(2, k, t) \in MessageSet /\ Response(2, k, t) \in Genuine'
    <2>1. Response(2, k, t) \in MessageSet
      BY <1>3, <1>7 DEF Response, MessageSet, Hops
    <2>2. v # None
      BY <1>4, RegistrationAssumption
    <2>3. k \in 1..Newest' /\ verdicts'[k] # None /\ t = verdicts'[k].status /\ 2 \in Hops
      BY <1>3, <1>5, <1>7, <2>2 DEF Hops
    <2> QED BY <2>1, <2>3 DEF Genuine
  <1>9. \A n \in Nat : Response(2, k, t) # Request(1, n) /\ Response(2, k, t) # Request(2, n)
    BY KindsDiffer
  <1>10. Complete => \A n \in Nat, s \in {200, 401, 403} :
            /\ Response(2, k, t) # Response(1, n, s)
            /\ Response(2, k, t) = Response(2, n, s) => Captured(Request(2, n))
    <2>1. Complete => Captured(Request(2, k))
      BY <1>1 DEF RegistrationInv, CausesOk
    <2>2. ASSUME NEW n, NEW s, Response(2, k, t) = Response(1, n, s) PROVE FALSE
      <3>1. 2 = 1
        BY <2>2, ResponsesDiffer
      <3> QED BY <3>1
    <2>3. ASSUME NEW n, NEW s, Response(2, k, t) = Response(2, n, s) PROVE n = k
      BY <2>3, ResponsesDiffer
    <2> QED BY <2>1, <2>2, <2>3
  <1> QED BY <1>2, <1>3, <1>5, <1>6, <1>7, <1>8, <1>9, <1>10, SendInv, SMTT(30)

\* The phone registers, or registers again with credentials.
LEMMA AskInv == RegistrationInv /\ (Register \/ Authenticate) => RegistrationInv'
  <1>1. ASSUME RegistrationInv, Register
        PROVE  RegistrationInv'
    <2>1. PICK lifetime \in Lifetimes, credentials \in BOOLEAN :
              Issue([credentials |-> credentials, lifetime |-> lifetime])
      BY <1>1 DEF Register
    <2>2. PICK r \in AskedSet : Issue(r)
      BY <2>1 DEF AskedSet
    <2>3. ~waiting
      BY <1>1 DEF Register
    <2> QED BY <1>1, <2>2, <2>3, IssueInv DEF RegistrationInv, RegistrationTypeOK
  <1>2. ASSUME RegistrationInv, Authenticate
        PROVE  RegistrationInv'
    <2>1. PICK r : r = [requests[Newest] EXCEPT !.credentials = TRUE] /\ Issue(r)
      BY <1>2 DEF Authenticate
    <2>2. r \in AskedSet /\ waiting \in BOOLEAN /\ Newest \in Nat
      <3>1. requests \in Seq(AskedSet) /\ waiting \in BOOLEAN /\ Newest > 0
        BY <1>2 DEF RegistrationInv, RegistrationTypeOK, Authenticate
      <3>2. Newest \in Nat /\ requests[Newest] \in AskedSet
        BY <3>1 DEF Newest
      <3> QED BY <2>1, <3>1, <3>2 DEF AskedSet
    <2>3. Response(1, Newest, 401) \in net
      BY <1>2 DEF Authenticate
    <2>4. Complete => Captured(Request(2, Newest))
      BY <1>2, <2>2, <2>3, HeardIsForwarded
    <2> QED BY <1>2, <2>1, <2>2, <2>4, IssueInv
  <1> QED BY <1>1, <1>2

\* A step after which the user agent waits for nothing, and which sends nothing.
LEMMA EndInv ==
  ASSUME RegistrationInv, waiting, ~waiting', waiting' \in BOOLEAN, net' \subseteq net,
         UNCHANGED <<requests, verdicts, capture, missed>>,
         Complete => Captured(Request(2, Newest)) \/ Request(1, Newest) \notin net'
  PROVE  RegistrationInv'
  <1>1. RegistrationTypeOK' /\ GenuineOk'
    BY DEF RegistrationInv, RegistrationTypeOK, GenuineOk, Genuine, Newest
  <1>2. Newest' = Newest /\ Newest \in Nat /\ Complete' = Complete /\ \A x : Captured(x)' = Captured(x)
    BY DEF RegistrationInv, RegistrationTypeOK, Newest, Complete, Captured
  <1>3. \A h, n : Copies(h, n)' = Copies(h, n)
    BY DEF Copies
  <1>4. Complete => CausesOk'
    BY <1>2 DEF RegistrationInv, CausesOk
  <1>5. ASSUME Complete, NEW n \in 1..Newest'
        PROVE  Captured(Request(2, n))' \/ Request(1, n) \notin net'
    <2>1. CASE n = Newest
      BY <1>2, <1>5, <2>1
    <2>2. CASE n # Newest
      <3>1. n \in 1..Newest /\ n < Newest
        BY <1>2, <2>2
      <3> QED BY <1>2, <1>5, <3>1 DEF RegistrationInv, SettledOk
    <2> QED BY <2>1, <2>2
  <1>6. Complete => SettledOk'
    BY <1>5 DEF SettledOk
  <1>7. Complete => OrderOk'
    BY <1>2, <1>3 DEF RegistrationInv, OrderOk
  <1> QED BY <1>1, <1>2, <1>4, <1>6, <1>7 DEF RegistrationInv

\* A registration ends, with its answer or without.
LEMMA OverInv == RegistrationInv /\ (Finish \/ GiveUp) => RegistrationInv'
  <1>1. ASSUME RegistrationInv, Finish
        PROVE  RegistrationInv'
    <2>1. PICK s \in {200, 401, 403} : Response(1, Newest, s) \in net
      BY <1>1 DEF Finish
    <2>2. Newest \in Nat
      BY <1>1 DEF RegistrationInv, RegistrationTypeOK
    <2>3. Complete => Captured(Request(2, Newest))
      BY <1>1, <2>1, <2>2, HeardIsForwarded
    <2>4. /\ waiting /\ ~waiting' /\ waiting' \in BOOLEAN /\ net' \subseteq net
          /\ UNCHANGED <<requests, verdicts, capture, missed>>
      BY <1>1, ZenonT(30) DEF Finish
    <2>5. RegistrationInv /\ (Complete => Captured(Request(2, Newest)) \/ Request(1, Newest) \notin net')
      BY <1>1, <2>3
    <2> QED BY <2>4, <2>5, EndInv
  <1>2. ASSUME RegistrationInv, GiveUp
        PROVE  RegistrationInv'
    <2>1. Request(1, Newest) \notin net'
      BY <1>2 DEF GiveUp, Request
    <2> QED BY <1>2, <2>1, EndInv DEF GiveUp
  <1> QED BY <1>1, <1>2

\* The inductive invariant holds in every reachable state of a registration: who sent what, in
\* which order a capture may show it, and what was decided about each request.
THEOREM RegistrationInvariance == RegistrationSpec => []RegistrationInv
  <1>1. RegistrationInit => RegistrationInv
    <2> SUFFICES ASSUME RegistrationInit
                 PROVE  RegistrationInv
      OBVIOUS
    <2>1. Newest = 0 /\ DOMAIN capture = {} /\ net = {} /\ 1..Newest = {}
      BY DEF RegistrationInit, Newest
    <2>2. RegistrationTypeOK
      <3>1. requests = <<>> /\ verdicts = <<>> /\ capture = <<>> /\ waiting = FALSE /\ missed = 0
        BY DEF RegistrationInit
      <3>2. requests \in Seq(AskedSet) /\ verdicts \in Seq(VerdictSet \cup {None})
            /\ capture \in Seq(MessageSet) /\ Len(verdicts) = 0
        BY <3>1
      <3> QED BY <2>1, <3>1, <3>2 DEF RegistrationTypeOK
    <2>3. GenuineOk /\ CausesOk /\ SettledOk /\ OrderOk
      BY <2>1 DEF GenuineOk, CausesOk, Captured, SettledOk, OrderOk
    <2> QED BY <2>2, <2>3 DEF RegistrationInv
  <1>2. RegistrationInv /\ [RegistrationNext]_registrationVars => RegistrationInv'
    <2>1. RegistrationInv /\ UNCHANGED registrationVars => RegistrationInv'
      <3> SUFFICES ASSUME RegistrationInv, UNCHANGED registrationVars
                   PROVE  RegistrationInv'
        OBVIOUS
      <3>1. RegistrationTypeOK' /\ GenuineOk' /\ Newest' = Newest /\ Complete' = Complete
        BY DEF RegistrationInv, RegistrationTypeOK, GenuineOk, Genuine, Newest, Complete, registrationVars
      <3>2. \A x : Captured(x)' = Captured(x)
        BY DEF Captured, registrationVars
      <3>3. \A h, n : Copies(h, n)' = Copies(h, n)
        BY DEF Copies, registrationVars
      <3>4. CausesOk => CausesOk'
        BY <3>1, <3>2 DEF CausesOk, registrationVars
      <3>5. SettledOk => SettledOk'
        BY <3>1, <3>2 DEF SettledOk, registrationVars
      <3>6. OrderOk => OrderOk'
        BY <3>1, <3>3 DEF OrderOk
      <3> QED BY <3>1, <3>4, <3>5, <3>6 DEF RegistrationInv
    <2> QED BY <2>1, AskInv, ResendInv, OverInv, ForwardInv, RelayInv, DecideInv DEF RegistrationNext
  <1> QED BY <1>1, <1>2, PTL DEF RegistrationSpec

-----------------------------------------------------------------------------
(* What request_transactions makes of the capture.                          *)

\* A response that was captured tells the registrar's verdict.
LEMMA AnswerIsVerdict ==
  ASSUME RegistrationInv, NEW i \in DOMAIN capture, capture[i].kind = "response"
  PROVE  \E n \in 1..Newest : /\ capture[i].cseq = n /\ capture[i].hop \in Hops /\ verdicts[n] # None
                              /\ capture[i] = Response(capture[i].hop, n, verdicts[n].status)
                              /\ capture[i].status = verdicts[n].status
  <1>1. PICK h \in Hops, n \in 1..Newest :
            \/ capture[i] = Request(h, n)
            \/ verdicts[n] # None /\ capture[i] = Response(h, n, verdicts[n].status)
    BY GenuineIs DEF RegistrationInv, GenuineOk
  <1> QED BY <1>1 DEF Request, Response

\* The status of a transaction is one that the registrar gave to its request.
LEMMA StatusIsVerdict ==
  ASSUME RegistrationInv, NEW h, NEW n, FinalStatus(h, n) # None
  PROVE  /\ n \in 1..Newest /\ verdicts[n] # None /\ FinalStatus(h, n) = verdicts[n].status
  <1> DEFINE S == Answers(h, n)
  <1>1. S \subseteq Nat /\ S # {} /\ FinalStatus(h, n) = capture[Min(S)].status
    BY DEF FinalStatus, Answers, RegistrationInv, RegistrationTypeOK
  <1>2. Min(S) \in S
    BY <1>1, MinIs
  <1>3. Min(S) \in DOMAIN capture /\ capture[Min(S)].kind = "response" /\ capture[Min(S)].cseq = n
    BY <1>2 DEF Answers, AnsweredBy
  <1> QED BY <1>1, <1>3, AnswerIsVerdict

\* In a capture that misses nothing an answer is found on its own hop.
LEMMA CompleteStatus ==
  ASSUME RegistrationInv, Complete, NEW h \in Hops, NEW n \in 1..Newest
  PROVE  /\ n \in Crossed(h) => /\ n \in Transactions(h) /\ verdicts[n] # None
                                /\ verdicts[n] \in Verdicts(requests[n])
                                /\ FinalStatus(h, n) = verdicts[n].status
                                /\ FinalStatus(h, n) \in {200, 401, 403}
         /\ n \notin Crossed(h) => FinalStatus(h, n) = None
  <1>1. ASSUME NEW i \in DOMAIN capture, capture[i].kind = "response", capture[i].cseq = n
        PROVE  capture[i].hop \in Hops /\ Copies(capture[i].hop, n) # {}
    <2>1. /\ capture[i].hop \in Hops /\ verdicts[n] # None
          /\ capture[i] = Response(capture[i].hop, n, verdicts[n].status)
      BY <1>1, AnswerIsVerdict
    <2>2. n \in Nat /\ verdicts[n].status \in {200, 401, 403}
      BY <2>1 DEF RegistrationInv, RegistrationTypeOK, VerdictSet
    <2>3. Captured(Response(capture[i].hop, n, verdicts[n].status))
      BY <1>1, <2>1 DEF Captured
    <2>4. Captured(Request(capture[i].hop, n))
      <3>1. CASE capture[i].hop = 1
        BY <3>1 DEF RegistrationInv, CausesOk
      <3>2. CASE capture[i].hop = 2
        BY <2>2, <2>3, <3>2 DEF RegistrationInv, CausesOk
      <3> QED BY <2>1, <3>1, <3>2 DEF Hops
    <2> QED BY <2>1, <2>4, CapturedCopies
  <1>2. \A i \in DOMAIN capture : AnsweredBy(capture[i], h, n) <=>
            capture[i].kind = "response" /\ capture[i].hop = h /\ capture[i].cseq = n
    BY <1>1 DEF AnsweredBy
  <1>3. n \in Crossed(h) <=> Answers(h, n) # {}
    BY <1>2 DEF Crossed, Answers
  <1>4. n \notin Crossed(h) => FinalStatus(h, n) = None
    BY <1>3 DEF FinalStatus
  <1>5. ASSUME n \in Crossed(h)
        PROVE  /\ n \in Transactions(h) /\ FinalStatus(h, n) # None
    <2>1. n \in Transactions(h)
      BY <1>1, <1>5 DEF Crossed, Transactions
    <2>2. Answers(h, n) # {} /\ Answers(h, n) \subseteq Nat
      BY <1>3, <1>5 DEF Answers, RegistrationInv, RegistrationTypeOK
    <2>3. Min(Answers(h, n)) \in DOMAIN capture /\ FinalStatus(h, n) = capture[Min(Answers(h, n))].status
      BY <2>2, MinIs DEF FinalStatus, Answers
    <2>4. capture[Min(Answers(h, n))].status \in Nat
      <3>1. capture \in Seq(MessageSet)
        BY DEF RegistrationInv, RegistrationTypeOK
      <3>2. capture[Min(Answers(h, n))] \in MessageSet
        BY <2>3, <3>1
      <3> QED BY <3>2 DEF MessageSet
    <2> QED BY <2>1, <2>3, <2>4, RegistrationAssumption
  <1>6. verdicts[n] # None => verdicts[n] \in Verdicts(requests[n]) /\ verdicts[n].status \in {200, 401, 403}
    BY DEF RegistrationInv, RegistrationTypeOK, VerdictSet
  <1> QED BY <1>4, <1>5, <1>6, StatusIsVerdict

\* Where the registrar accepted no registration, analyze_registrations reports
\* none, also when the capture missed messages.
THEOREM RegisteredIsAccepted == RegistrationSpec => []RegisteredMeansAccepted
  <1>1. RegistrationInv => RegisteredMeansAccepted
    <2> SUFFICES ASSUME RegistrationInv, NEW h \in Hops, AorState(h) = "registered"
                 PROVE  \E n \in 1..Newest : /\ verdicts[n] # None /\ verdicts[n].status = 200
                                             /\ requests[n].lifetime # 0
      BY DEF RegisteredMeansAccepted
    <2> DEFINE finals == Finals(h)
               last == CHOOSE n \in finals : \A m \in finals : NotAfter(h, m, n)
    <2>1. finals # {} /\ FinalStatus(h, last) = 200 /\ requests[last].lifetime > 0
      BY DEF AorState
    <2>2. FinalStatus(h, last) # None
      BY <2>1, RegistrationAssumption
    <2>3. last \in 1..Newest /\ verdicts[last] # None /\ verdicts[last].status = 200
      BY <2>1, <2>2, StatusIsVerdict
    <2>4. requests[last].lifetime # 0
      BY <2>1
    <2> QED BY <2>3, <2>4
  <1> QED BY <1>1, RegistrationInvariance, PTL

\* When the answer to the newest request has been captured and is a success, the
\* state of the AOR is what that request made it, whatever was sent again, given
\* up or refused before (analyze_registrations).
THEOREM StateIsFaithful == RegistrationSpec => []StateFaithful
  <1>1. RegistrationInv => StateFaithful
    <2> SUFFICES ASSUME RegistrationInv, NEW h \in Hops, Complete, Newest \in Crossed(h),
                        verdicts[Newest].status = 200
                 PROVE  AorState(h) = IF requests[Newest].lifetime > 0 THEN "registered"
                                      ELSE "unregistered"
      BY DEF StateFaithful
    <2>1. Newest \in 1..Newest /\ Newest \in Nat
      BY DEF Crossed, RegistrationInv, RegistrationTypeOK
    <2>2. Newest \in Finals(h) /\ FinalStatus(h, Newest) = 200
      BY <2>1, CompleteStatus, RegistrationAssumption DEF Finals
    <2>3. \A n \in Finals(h) : n \in 1..Newest /\ Copies(h, n) # {} /\ Copies(h, n) \subseteq Nat
      BY DEF Finals, Transactions, Copies, RegistrationInv, RegistrationTypeOK
    <2>4. ASSUME NEW n \in Finals(h), n # Newest
          PROVE  Min(Copies(h, n)) < Min(Copies(h, Newest))
      <3>1. n < Newest /\ n \in 1..Newest
        BY <2>1, <2>3, <2>4
      <3>2. Min(Copies(h, Newest)) \in Copies(h, Newest) /\ Min(Copies(h, Newest)) \in Nat
        BY <2>2, <2>3, MinIs
      <3>3. PICK k \in Copies(h, n) : k < Min(Copies(h, Newest))
        BY <2>1, <2>3, <3>1, <3>2 DEF RegistrationInv, OrderOk
      <3>4. Min(Copies(h, n)) <= k /\ Min(Copies(h, n)) \in Nat /\ k \in Nat
        BY <2>3, MinIs
      <3> QED BY <3>2, <3>3, <3>4
    <2>5. \A n \in Finals(h) : Min(Copies(h, n)) \in Nat
      BY <2>3, MinIs
    <2> DEFINE last == CHOOSE n \in Finals(h) : \A m \in Finals(h) : NotAfter(h, m, n)
    <2>6. last = Newest
      <3>1. \A m \in Finals(h) : NotAfter(h, m, Newest)
        BY <2>2, <2>4, <2>5 DEF NotAfter
      <3>2. last \in Finals(h) /\ NotAfter(h, Newest, last)
        BY <2>2, <3>1
      <3>3. last # Newest => Min(Copies(h, last)) < Min(Copies(h, Newest))
        BY <2>4, <3>2
      <3> QED BY <2>2, <2>5, <3>2, <3>3 DEF NotAfter
    <2> QED BY <2>2, <2>6 DEF AorState
  <1> QED BY <1>1, RegistrationInvariance, PTL

\* Each request counts once, each answer that crossed the hop is the registrar's
\* verdict, and a refused password is told from a challenge (analyze_registrations
\* and the brute force rule of analyze_sip_security).
THEOREM CountsAreFaithful == RegistrationSpec => []CountsFaithful
  <1>1. RegistrationInv => CountsFaithful
    <2> SUFFICES ASSUME RegistrationInv, Complete, NEW h \in Hops
                 PROVE  LET refused == {n \in Crossed(h) : verdicts[n].refused} IN
                        /\ h = 1 => Cardinality(Transactions(h)) = Newest
                        /\ NoResponse(h) = Cardinality(Transactions(h) \ Crossed(h))
                        /\ Challenges(h) = Cardinality({n \in Crossed(h) : verdicts[n].status = 401})
                        /\ (\A n \in Crossed(h) : ~verdicts[n].stale) =>
                              /\ CredentialRejections(h) = Cardinality(refused)
                              /\ BruteForce(h) <=> Cardinality(refused \cup
                                     {n \in Crossed(h) : verdicts[n].status = 403}) >= Failures
      BY DEF CountsFaithful
    <2> DEFINE refused == {n \in Crossed(h) : verdicts[n].refused}
    <2>1. /\ Crossed(h) \subseteq Transactions(h) /\ Transactions(h) \subseteq 1..Newest
          /\ \A n \in Crossed(h) : /\ FinalStatus(h, n) = verdicts[n].status
                                   /\ FinalStatus(h, n) \in {200, 401, 403}
                                   /\ verdicts[n] \in Verdicts(requests[n])
          /\ \A n \in Transactions(h) \ Crossed(h) : FinalStatus(h, n) = None
      BY CompleteStatus DEF Crossed, Transactions
    <2>2. h = 1 => Cardinality(Transactions(h)) = Newest
      <3>1. Newest \in Nat /\ \A n \in 1..Newest : Copies(1, n) # {}
        BY CapturedCopies DEF RegistrationInv, RegistrationTypeOK, CausesOk
      <3>2. h = 1 => Transactions(h) = 1..Newest
        BY <3>1 DEF Transactions
      <3> QED BY <3>1, <3>2, FS_Interval
    <2>3. NoResponse(h) = Cardinality(Transactions(h) \ Crossed(h))
      <3>1. Finals(h) = Crossed(h)
        BY <2>1, RegistrationAssumption DEF Finals
      <3> QED BY <3>1 DEF NoResponse
    <2>4. Challenges(h) = Cardinality({n \in Crossed(h) : verdicts[n].status = 401})
      <3>1. {n \in Transactions(h) : FinalStatus(h, n) = 401} = {n \in Crossed(h) : verdicts[n].status = 401}
        BY <2>1, RegistrationAssumption
      <3> QED BY <3>1 DEF Challenges
    <2>5. ASSUME \A n \in Crossed(h) : ~verdicts[n].stale
          PROVE  /\ CredentialRejections(h) = Cardinality(refused)
                 /\ BruteForce(h) <=> Cardinality(refused \cup
                        {n \in Crossed(h) : verdicts[n].status = 403}) >= Failures
      <3>1. ASSUME NEW n \in Crossed(h)
            PROVE  verdicts[n].refused <=> requests[n].credentials /\ verdicts[n].status \in {401, 403}
        BY <2>1, <2>5, <3>1 DEF Verdicts, Verdict
      <3>2. {n \in Transactions(h) : requests[n].credentials /\ FinalStatus(h, n) \in {401, 403}} = refused
        BY <2>1, <3>1, RegistrationAssumption
      <3>3. {n \in Transactions(h) : LET status == FinalStatus(h, n)
                                     IN (requests[n].credentials /\ status = 401) \/ status = 403}
            = refused \cup {n \in Crossed(h) : verdicts[n].status = 403}
        BY <2>1, <3>1, RegistrationAssumption
      <3> QED BY <3>2, <3>3 DEF CredentialRejections, BruteForce
    <2> QED BY <2>2, <2>3, <2>4, <2>5
  <1> QED BY <1>1, RegistrationInvariance, PTL

-----------------------------------------------------------------------------
(* Runs of hot seconds.                                                    *)
FloodTypeOK == received \in Seq(Seconds)

RunSet == [first : Nat, last : Nat]

\* What the loop has found after second n: runs of the hot seconds so far, in
\* order, and every hot second is in one.
Found(runs, hot, n) ==
    /\ runs \in Seq(RunSet)
    /\ \A i \in DOMAIN runs : /\ runs[i].first <= runs[i].last
                              /\ IsRun(hot \cap 1..n, runs[i].first, runs[i].last)
                              /\ i < Len(runs) => runs[i].last < runs[Len(runs)].first
    /\ \A h \in hot \cap 1..n : /\ runs # <<>> /\ h <= runs[Len(runs)].last
                                /\ \E i \in DOMAIN runs : h \in runs[i].first..runs[i].last

\* One turn of the loop, at a second that is hot.
LEMMA JoinFound ==
  ASSUME NEW hot, NEW n \in Nat, NEW runs, Found(runs, hot, n), n + 1 \in hot
  PROVE  Found(Join(runs, n + 1), hot, n + 1)
  <1> DEFINE s == n + 1
             old == hot \cap 1..n
             new == hot \cap 1..s
             last == runs[Len(runs)]
  <1>1. /\ s \in Nat /\ new = old \cup {s} /\ s \in new /\ old \subseteq 1..n
        /\ \A h \in old : h \in Nat /\ h < s
    OBVIOUS
  <1>2. runs \in Seq(RunSet) /\ Len(runs) \in Nat /\ DOMAIN runs = 1..Len(runs)
    BY DEF Found
  <1>3. \A i \in DOMAIN runs : /\ runs[i] \in RunSet /\ runs[i].first \in Nat /\ runs[i].last \in Nat
                               /\ runs[i].first <= runs[i].last
                               /\ IsRun(old, runs[i].first, runs[i].last)
                               /\ i < Len(runs) => runs[i].last < last.first
    <2>1. \A i \in DOMAIN runs : runs[i] \in RunSet
      BY <1>2
    <2> QED BY <2>1 DEF Found, RunSet
  <1>4. \A h \in old : /\ runs # <<>> /\ h <= last.last
                       /\ \E i \in DOMAIN runs : h \in runs[i].first..runs[i].last
    BY DEF Found
  <1>5. runs # <<>> => Len(runs) \in DOMAIN runs /\ last.last \in old /\ last.last < s
    BY <1>1, <1>2, <1>3 DEF IsRun
  <1> HIDE DEF s, old, new, last
  <1>6. ASSUME NEW i \in DOMAIN runs, i < Len(runs) \/ s - last.last > 2
        PROVE  IsRun(new, runs[i].first, runs[i].last)
    <2>1. IsRun(old, runs[i].first, runs[i].last) /\ runs[i].last \in Nat /\ runs[i].first \in Nat
          /\ runs[i].first <= runs[i].last /\ runs[i].last \in old
      BY <1>3 DEF IsRun
    <2>2. runs[i].last + 2 < s
      <3>1. CASE i < Len(runs)
        <4>1. Len(runs) \in DOMAIN runs
          BY <1>2
        <4>2. last.first - 2 \notin old /\ last.first - 1 \notin old /\ last.first \in Nat
              /\ last.last \in Nat /\ last.first <= last.last
          BY <1>3, <4>1 DEF IsRun, last
        <4>3. runs[i].last < last.first
          BY <1>3, <3>1
        <4>4. last.last < s
          BY <1>2, <1>5, <4>1
        <4> QED BY <1>1, <2>1, <4>2, <4>3, <4>4
      <3>2. CASE i = Len(runs)
        BY <1>1, <1>2, <1>6, <2>1, <3>2 DEF last
      <3> QED BY <1>2, <3>1, <3>2
    <2> QED BY <1>1, <2>1, <2>2 DEF IsRun
  <1>7. CASE runs # <<>> /\ s - last.last <= 2
    <2> DEFINE r == [first |-> last.first, last |-> s]
    <2>1. Join(runs, s) = [runs EXCEPT ![Len(runs)] = r]
      BY <1>7 DEF Join, last
    <2>2. /\ Len(runs) \in DOMAIN runs /\ last \in RunSet /\ last.first \in Nat /\ last.last \in Nat
          /\ last.first <= last.last /\ IsRun(old, last.first, last.last) /\ last.last \in old
      BY <1>3, <1>5, <1>7 DEF last
    <2>3. r \in RunSet /\ r.first = last.first /\ r.last = s
      BY <1>1, <2>2 DEF RunSet
    <2> HIDE DEF r
    <2>4. PICK next : next = Join(runs, s)
      OBVIOUS
    <2>5. /\ next \in Seq(RunSet) /\ Len(next) = Len(runs) /\ DOMAIN next = DOMAIN runs
          /\ next[Len(runs)] = r /\ \A i \in DOMAIN runs : i # Len(runs) => next[i] = runs[i]
      BY <1>2, <2>1, <2>2, <2>3, <2>4
    <2>6. IsRun(new, r.first, r.last)
      <3>1. {r.first, r.last} \subseteq new
        BY <1>1, <2>2, <2>3 DEF IsRun
      <3>2. \A k \in r.first..(r.last - 1) : {k, k + 1} \cap new # {}
        <4> TAKE k \in r.first..(r.last - 1)
        <4>1. CASE k <= last.last - 1
          BY <1>1, <2>2, <2>3, <4>1 DEF IsRun
        <4>2. CASE k = last.last
          BY <1>1, <2>2, <4>2
        <4>3. CASE k > last.last
          <5>1. k + 1 = s
            BY <1>1, <1>7, <2>2, <2>3, <4>3
          <5> QED BY <1>1, <5>1
        <4> QED BY <2>2, <2>3, <4>1, <4>2, <4>3
      <3>3. {r.first - 2, r.first - 1, r.last + 1, r.last + 2} \cap new = {}
        BY <1>1, <1>5, <2>2, <2>3 DEF IsRun
      <3> QED BY <3>1, <3>2, <3>3 DEF IsRun
    <2>7. \A i \in DOMAIN next : /\ next[i].first <= next[i].last
                                 /\ IsRun(new, next[i].first, next[i].last)
                                 /\ i < Len(next) => next[i].last < next[Len(next)].first
      <3> TAKE i \in DOMAIN next
      <3>1. CASE i = Len(runs)
        BY <1>1, <1>5, <1>7, <2>2, <2>3, <2>5, <2>6, <3>1
      <3>2. CASE i # Len(runs)
        <4>1. i \in DOMAIN runs /\ i < Len(runs) /\ next[i] = runs[i]
          BY <1>2, <2>5, <3>2
        <4> QED BY <1>3, <1>6, <2>3, <2>5, <4>1
      <3> QED BY <3>1, <3>2
    <2>8. \A h \in new : /\ next # <<>> /\ h <= next[Len(next)].last
                         /\ \E i \in DOMAIN next : h \in next[i].first..next[i].last
      <3> TAKE h \in new
      <3>1. next # <<>> /\ next[Len(next)].last = s /\ h <= s
        BY <1>1, <2>2, <2>3, <2>5
      <3>2. CASE h = s
        BY <1>1, <2>2, <2>3, <2>5, <1>5, <1>7, <3>2
      <3>3. CASE h \in old
        <4>1. PICK i \in DOMAIN runs : h \in runs[i].first..runs[i].last
          BY <1>4, <3>3
        <4>2. CASE i = Len(runs)
          BY <1>1, <1>5, <1>7, <2>2, <2>3, <2>5, <3>1, <4>1, <4>2 DEF last
        <4>3. CASE i # Len(runs)
          BY <2>5, <3>1, <4>1, <4>3
        <4> QED BY <4>2, <4>3
      <3> QED BY <1>1, <3>1, <3>2, <3>3
    <2> QED BY <2>4, <2>5, <2>7, <2>8 DEF Found, new, s
  <1>8. CASE ~(runs # <<>> /\ s - last.last <= 2)
    <2> DEFINE r == [first |-> s, last |-> s]
    <2>1. Join(runs, s) = Append(runs, r)
      BY <1>8 DEF Join, last
    <2>2. r \in RunSet /\ r.first = s /\ r.last = s
      BY <1>1 DEF RunSet
    <2> HIDE DEF r
    <2>3. PICK next : next = Join(runs, s)
      OBVIOUS
    <2>4. /\ next \in Seq(RunSet) /\ Len(next) = Len(runs) + 1 /\ DOMAIN next = 1..(Len(runs) + 1)
          /\ next[Len(runs) + 1] = r /\ \A i \in DOMAIN runs : next[i] = runs[i]
      BY <1>2, <2>1, <2>2, <2>3
    <2>5. runs # <<>> => s - last.last > 2 /\ last.last \in Nat
      BY <1>1, <1>3, <1>5, <1>8 DEF last
    <2>6. \A h \in old : h + 2 < s
      BY <1>1, <1>4, <2>5
    <2>7. IsRun(new, s, s)
      BY <1>1, <2>6 DEF IsRun
    <2>8. \A i \in DOMAIN next : /\ next[i].first <= next[i].last
                                 /\ IsRun(new, next[i].first, next[i].last)
                                 /\ i < Len(next) => next[i].last < next[Len(next)].first
      <3> TAKE i \in DOMAIN next
      <3>1. CASE i = Len(runs) + 1
        BY <1>1, <1>2, <2>2, <2>4, <2>7, <3>1
      <3>2. CASE i # Len(runs) + 1
        <4>1. i \in DOMAIN runs /\ next[i] = runs[i] /\ runs # <<>>
          BY <1>2, <2>4, <3>2
        <4>2. IsRun(new, runs[i].first, runs[i].last) /\ runs[i].last \in old
          BY <1>3, <1>6, <2>5, <4>1 DEF IsRun
        <4> QED BY <1>1, <1>3, <2>2, <2>4, <4>1, <4>2
      <3> QED BY <3>1, <3>2
    <2>9. \A h \in new : /\ next # <<>> /\ h <= next[Len(next)].last
                         /\ \E i \in DOMAIN next : h \in next[i].first..next[i].last
      <3> TAKE h \in new
      <3>1. next # <<>> /\ next[Len(next)].last = s /\ h <= s
        BY <1>1, <1>2, <2>2, <2>4
      <3>2. CASE h = s
        <4>1. Len(runs) + 1 \in DOMAIN next
          BY <1>2, <2>4
        <4> QED BY <1>1, <2>2, <2>4, <3>1, <3>2, <4>1
      <3>3. CASE h \in old
        <4>1. PICK i \in DOMAIN runs : h \in runs[i].first..runs[i].last
          BY <1>4, <3>3
        <4> QED BY <1>2, <2>4, <3>1, <4>1
      <3> QED BY <1>1, <3>1, <3>2, <3>3
    <2> QED BY <2>3, <2>4, <2>8, <2>9 DEF Found, new, s
  <1> QED BY <1>7, <1>8 DEF s

\* The recursion of the loop defines it: there is one function that unfolds so.
LEMMA JoinedUnfolds ==
  ASSUME NEW hot, NEW n \in Nat
  PROVE  \E upTo : /\ upTo = [s \in 0..n |-> IF s = 0 THEN <<>>
                                            ELSE IF s \in hot THEN Join(upTo[s - 1], s)
                                            ELSE upTo[s - 1]]
                   /\ Joined(hot, n) = upTo[n]
  <1> DEFINE Unfolds(f, m) == f = [s \in 0..m |-> IF s = 0 THEN <<>>
                                                 ELSE IF s \in hot THEN Join(f[s - 1], s)
                                                 ELSE f[s - 1]]
             T == {m \in Nat : \E f : Unfolds(f, m)}
  <1>1. 0 \in T
    <2>1. Unfolds([s \in 0..0 |-> <<>>], 0)
      OBVIOUS
    <2> QED BY <2>1
  <1>2. ASSUME NEW m \in Nat, m \in T
        PROVE  m + 1 \in T
    <2>1. PICK f : Unfolds(f, m)
      BY <1>2
    <2> DEFINE g == [s \in 0..(m + 1) |-> IF s <= m THEN f[s]
                                          ELSE IF s \in hot THEN Join(f[s - 1], s) ELSE f[s - 1]]
    <2>2. ASSUME NEW s \in 0..(m + 1)
          PROVE  g[s] = IF s = 0 THEN <<>> ELSE IF s \in hot THEN Join(g[s - 1], s) ELSE g[s - 1]
      <3>1. CASE s = 0
        <4>1. s \in 0..m /\ g[s] = f[s]
          BY <3>1
        <4> QED BY <2>1, <3>1, <4>1
      <3>2. CASE s # 0 /\ s <= m
        <4>1. s \in 0..m /\ s - 1 \in 0..(m + 1) /\ s - 1 <= m
          BY <3>2
        <4>2. g[s] = f[s] /\ g[s - 1] = f[s - 1]
          BY <4>1
        <4> QED BY <2>1, <3>2, <4>1, <4>2
      <3>3. CASE s = m + 1
        <4>1. s - 1 \in 0..(m + 1) /\ s - 1 <= m /\ ~(s <= m) /\ s # 0
          BY <3>3
        <4>2. g[s - 1] = f[s - 1]
          BY <4>1
        <4>3. g[s] = IF s \in hot THEN Join(f[s - 1], s) ELSE f[s - 1]
          BY <4>1
        <4> QED BY <4>1, <4>2, <4>3
      <3> QED BY <3>1, <3>2, <3>3
    <2> HIDE DEF g
    <2>3. g = [s \in 0..(m + 1) |-> g[s]]
      BY DEF g
    <2>4. Unfolds(g, m + 1)
      BY <2>2, <2>3
    <2> QED BY <2>4
  <1>3. n \in T
    <2> HIDE DEF T
    <2>1. Nat \subseteq T
      BY <1>1, <1>2, NatSetInduction
    <2> QED BY <2>1
  <1> DEFINE chosen == CHOOSE f : Unfolds(f, n)
  <1>4. Unfolds(chosen, n)
    BY <1>3
  <1>5. Joined(hot, n) = chosen[n]
    BY DEF Joined
  <1> QED BY <1>4, <1>5

\* What the loop has found after each second.
LEMMA JoinedFound ==
  ASSUME NEW hot, NEW n \in Nat, hot \subseteq 1..n
  PROVE  Found(Joined(hot, n), hot, n)
  <1>1. PICK upTo : /\ upTo = [s \in 0..n |-> IF s = 0 THEN <<>>
                                            ELSE IF s \in hot THEN Join(upTo[s - 1], s)
                                            ELSE upTo[s - 1]]
                    /\ Joined(hot, n) = upTo[n]
    BY JoinedUnfolds
  <1> DEFINE T == {m \in Nat : m <= n => Found(upTo[m], hot, m)}
  <1>2. 0 \in T
    <2>1. upTo[0] = <<>> /\ 1..0 = {}
      BY <1>1
    <2>2. <<>> \in Seq(RunSet) /\ DOMAIN <<>> = {}
      OBVIOUS
    <2>3. Found(<<>>, hot, 0)
      BY <2>1, <2>2 DEF Found
    <2> QED BY <2>1, <2>3
  <1>3. ASSUME NEW m \in Nat, m \in T
        PROVE  m + 1 \in T
    <2> SUFFICES ASSUME m + 1 <= n
                 PROVE  Found(upTo[m + 1], hot, m + 1)
      OBVIOUS
    <2>1. Found(upTo[m], hot, m)
      BY <1>3
    <2>2. upTo[m + 1] = IF m + 1 \in hot THEN Join(upTo[m], m + 1) ELSE upTo[m]
      <3>1. m + 1 \in 0..n /\ m + 1 # 0 /\ (m + 1) - 1 = m
        OBVIOUS
      <3> QED BY <1>1, <3>1
    <2>3. CASE m + 1 \in hot
      BY <2>1, <2>2, <2>3, JoinFound
    <2>4. CASE m + 1 \notin hot
      <3>1. hot \cap 1..(m + 1) = hot \cap 1..m
        BY <2>4
      <3> QED BY <2>1, <2>2, <2>4, <3>1 DEF Found
    <2> QED BY <2>3, <2>4
  <1>4. n \in T
    <2> HIDE DEF T
    <2>1. Nat \subseteq T
      BY <1>2, <1>3, NatSetInduction
    <2> QED BY <2>1
  <1> QED BY <1>1, <1>4

\* The loop finds the runs of the hot seconds, all of them and nothing else.
LEMMA JoinedAreRuns ==
  ASSUME NEW hot, NEW n \in Nat, hot \subseteq 1..n
  PROVE  ToSet(Joined(hot, n)) = {r \in [first : hot, last : hot] :
                                     r.first <= r.last /\ IsRun(hot, r.first, r.last)}
  <1> DEFINE Wanted == {r \in [first : hot, last : hot] : r.first <= r.last /\ IsRun(hot, r.first, r.last)}
  <1>1. PICK runs : runs = Joined(hot, n)
    OBVIOUS
  <1>2. Found(runs, hot, n) /\ hot \cap 1..n = hot
    BY <1>1, JoinedFound
  <1>3. \A i \in DOMAIN runs : runs[i] \in RunSet
    BY <1>2 DEF Found
  <1>4. \A i \in DOMAIN runs : runs[i] \in Wanted
    BY <1>2, <1>3 DEF Found, RunSet, IsRun
  <1>5. ASSUME NEW r \in Wanted
        PROVE  \E i \in DOMAIN runs : runs[i] = r
    <2>1. r.first \in hot /\ r.last \in hot /\ r.first <= r.last /\ IsRun(hot, r.first, r.last)
          /\ r.first \in Nat /\ r.last \in Nat
      <3>1. hot \subseteq Nat
        OBVIOUS
      <3> QED BY <1>5, <3>1
    <2>2. PICK i \in DOMAIN runs : r.first \in runs[i].first..runs[i].last
      BY <1>2, <2>1 DEF Found
    <2>3. runs[i].first \in Nat /\ runs[i].last \in Nat /\ IsRun(hot, runs[i].first, runs[i].last)
      BY <1>3, <1>4 DEF RunSet
    <2>4. runs[i].first = r.first
      BY <2>1, <2>2, <2>3 DEF IsRun
    <2>5. runs[i].last = r.last
      <3>1. ~(runs[i].last < r.last)
        BY <2>1, <2>2, <2>3, <2>4 DEF IsRun
      <3>2. ~(r.last < runs[i].last)
        BY <2>1, <2>2, <2>3, <2>4 DEF IsRun
      <3> QED BY <2>1, <2>3, <3>1, <3>2
    <2> QED BY <1>3, <2>4, <2>5 DEF RunSet
  <1> QED BY <1>1, <1>4, <1>5 DEF ToSet

-----------------------------------------------------------------------------
(* The capture.                                                            *)

\* The capture is a sequence of seconds.
LEMMA FloodTyped == FloodSpec => []FloodTypeOK
  <1>1. FloodInit => FloodTypeOK
    BY DEF FloodInit, FloodTypeOK
  <1>2. FloodTypeOK /\ [FloodNext]_received => FloodTypeOK'
    BY DEF FloodNext, Second, FloodTypeOK
  <1> QED BY <1>1, <1>2, PTL DEF FloodSpec

RunsOk ==
    \A k : Runs(k) = {r \in [first : Hot(k), last : Hot(k)] :
                         /\ r.first <= r.last /\ IsRun(Hot(k), r.first, r.last)
                         /\ r.last - r.first + 1 >= MinLen}

\* The runs that are found are the maximal runs of hot seconds.
LEMMA RunsAre == FloodTypeOK => RunsOk
  <1> SUFFICES ASSUME FloodTypeOK, NEW k
               PROVE  Runs(k) = {r \in [first : Hot(k), last : Hot(k)] :
                                    /\ r.first <= r.last /\ IsRun(Hot(k), r.first, r.last)
                                    /\ r.last - r.first + 1 >= MinLen}
    BY DEF RunsOk
  <1>1. Len(received) \in Nat /\ Hot(k) \subseteq 1..Len(received)
    BY DEF Hot, FloodTypeOK
  <1>2. ToSet(Joined(Hot(k), Len(received))) =
            {r \in [first : Hot(k), last : Hot(k)] : r.first <= r.last /\ IsRun(Hot(k), r.first, r.last)}
    BY <1>1, JoinedAreRuns
  <1> QED BY <1>2 DEF Runs

\* The candidates that _runs of ddos.py finds are all the maximal runs of hot
\* seconds with dips of one second, each once.
THEOREM RunsAreExact == FloodSpec => []RunsExact
  <1>1. FloodTypeOK => RunsExact
    BY RunsAre DEF RunsOk, RunsExact, Hot
  <1> QED BY <1>1, FloodTyped, PTL

\* A flood is over after two quiet seconds, whatever comes then.
LEMMA RunStays ==
  ASSUME NEW hot, NEW more, NEW n \in Nat, hot \subseteq 1..n, more \subseteq 1..(n + 1),
         more \cap 1..n = hot,
         NEW a \in hot, NEW b \in hot, IsRun(hot, a, b), b + 2 <= n
  PROVE  IsRun(more, a, b)
  <1>1. a \in 1..n /\ b \in 1..n /\ hot \subseteq more
    OBVIOUS
  <1>2. \A s \in {a - 2, a - 1, b + 1, b + 2} : s \notin more
    BY <1>1 DEF IsRun
  <1> QED BY <1>1, <1>2 DEF IsRun

\* Once the capture is as long as a flood must be, that is what is asked of a run.
LEMMA MinLenIs ==
  ASSUME Cardinality(Span) \in Nat, Cardinality(Span) >= MinSeconds
  PROVE  MinLen = MinSeconds
  <1>1. MinSeconds \in Nat /\ MinSeconds >= 1
    BY FloodAssumption
  <1>2. Min({MinSeconds, Cardinality(Span)}) = MinSeconds
    BY <1>1, MinIs
  <1>3. Max({1, MinSeconds}) = MinSeconds
    BY <1>1 DEF Max
  <1> QED BY <1>2, <1>3 DEF MinLen

Hull(S) == IF S = {} THEN {} ELSE Min(S)..Max(S)

\* The hull of more seconds is no smaller.
LEMMA HullGrows ==
  ASSUME NEW A, NEW B, NEW n \in Nat, A \subseteq B, B \subseteq 0..n
  PROVE  /\ Cardinality(Hull(A)) \in Nat /\ Cardinality(Hull(B)) \in Nat
         /\ Cardinality(Hull(A)) <= Cardinality(Hull(B))
  <1>1. A \subseteq 0..n /\ A \subseteq Nat /\ B \subseteq Nat
    OBVIOUS
  <1>2. A # {} => Min(A) \in A /\ Max(A) \in A
    BY <1>1, MinIs, MaxIs
  <1>3. B # {} => Min(B) \in B /\ Max(B) \in B /\ \A s \in B : Min(B) <= s /\ s <= Max(B)
    BY <1>1, MinIs, MaxIs
  <1>4. Hull(A) \subseteq Hull(B)
    <2>1. CASE A = {}
      BY <2>1 DEF Hull
    <2>2. CASE A # {}
      <3>1. /\ B # {} /\ Min(B) \in Nat /\ Max(B) \in Nat /\ Min(A) \in Nat /\ Max(A) \in Nat
            /\ Min(B) <= Min(A) /\ Max(A) <= Max(B)
        BY <1>1, <1>2, <1>3, <2>2
      <3> QED BY <2>2, <3>1 DEF Hull
    <2> QED BY <2>1, <2>2
  <1>5. IsFiniteSet(Hull(B))
    <2>1. CASE B = {}
      BY <2>1, FS_EmptySet DEF Hull
    <2>2. CASE B # {}
      <3>1. Min(B) \in Nat /\ Max(B) \in Nat
        BY <1>1, <1>3, <2>2
      <3>2. Min(B) \in Int /\ Max(B) \in Int
        BY <3>1
      <3> QED BY <2>2, <3>2, FS_Interval DEF Hull
    <2> QED BY <2>1, <2>2
  <1>6. IsFiniteSet(Hull(A))
    BY <1>4, <1>5, FS_Subset
  <1> QED BY <1>4, <1>5, <1>6, FS_Subset, FS_CardinalityType

\* The capture spans no less after more of it was received.
LEMMA SpanGrows ==
  ASSUME FloodTypeOK, FloodTypeOK', Len(received) <= Len(received'),
         \A s \in DOMAIN received : received'[s] = received[s]
  PROVE  /\ Cardinality(Span) \in Nat /\ Cardinality(Span') \in Nat
         /\ Cardinality(Span) <= Cardinality(Span')
  <1>1. PICK A, B : /\ A = {s \in DOMAIN received : received[s] # {}}
                    /\ B = {s \in DOMAIN received' : received'[s] # {}}
    OBVIOUS
  <1>2. Span = Hull(A) /\ Span' = Hull(B)
    BY <1>1 DEF Span, Hull
  <1>3. PICK n \in Nat : n = Len(received')
    BY DEF FloodTypeOK
  <1>4. A \subseteq B /\ B \subseteq 0..n
    BY <1>1, <1>3 DEF FloodTypeOK
  <1>5. /\ Cardinality(Hull(A)) \in Nat /\ Cardinality(Hull(B)) \in Nat
        /\ Cardinality(Hull(A)) <= Cardinality(Hull(B))
    BY <1>4, HullGrows
  <1> QED BY <1>2, <1>5

\* A run that is over stays a run, and its event what it was, when a second more is received.
LEMMA PastRunStays ==
  ASSUME FloodTypeOK, FloodTypeOK', FloodNext, Cardinality(Span) >= MinSeconds,
         NEW k, NEW r \in Runs(k), r.last + 2 <= Len(received)
  PROVE  r \in Runs(k)' /\ Event(k, r)' = Event(k, r)
  <1>1. PICK n \in Nat : n = Len(received)
    BY DEF FloodTypeOK
  <1>2. /\ Len(received') = n + 1 /\ DOMAIN received = 1..n /\ DOMAIN received' = 1..(n + 1)
        /\ \A s \in 1..n : received'[s] = received[s]
    BY <1>1 DEF FloodTypeOK, FloodNext, Second
  <1>3. MinLen = MinSeconds /\ MinLen' = MinSeconds
    <2>1. /\ Cardinality(Span) \in Nat /\ Cardinality(Span') \in Nat
          /\ Cardinality(Span) <= Cardinality(Span')
      BY <1>1, <1>2, SpanGrows
    <2>2. Cardinality(Span') >= MinSeconds
      BY <2>1, FloodAssumption
    <2>3. MinLen = MinSeconds
      BY <2>1, MinLenIs
    <2>4. (Cardinality(Span) \in Nat /\ Cardinality(Span) >= MinSeconds => MinLen = MinSeconds)'
      BY MinLenIs, PTL
    <2> QED BY <2>1, <2>2, <2>3, <2>4
  <1>4. /\ r \in [first : Hot(k), last : Hot(k)] /\ r.first <= r.last
        /\ IsRun(Hot(k), r.first, r.last) /\ r.last - r.first + 1 >= MinLen
    BY RunsAre DEF RunsOk
  <1>5. /\ Hot(k) \subseteq 1..n /\ Hot(k)' \subseteq 1..(n + 1) /\ Hot(k)' \cap 1..n = Hot(k)
    BY <1>2 DEF Hot, Rate
  <1>6. r.first \in 1..n /\ r.last \in 1..n
    BY <1>4, <1>5
  <1>7. r \in Runs(k)'
    <2>1. IsRun(Hot(k)', r.first, r.last)
      BY <1>1, <1>4, <1>5, <1>6, RunStays
    <2>2. (FloodTypeOK => RunsOk)'
      BY RunsAre, PTL
    <2>3. r \in [first : Hot(k)', last : Hot(k)']
      BY <1>4, <1>5
    <2> QED BY <1>3, <1>4, <2>1, <2>2, <2>3 DEF RunsOk
  <1>8. Event(k, r)' = Event(k, r)
    <2>1. \A s \in r.first..r.last : received'[s] = received[s]
      BY <1>2, <1>6
    <2>2. FloodSources(k, r)' = FloodSources(k, r)
      BY <2>1 DEF FloodSources
    <2> QED BY <2>2 DEF Event
  <1> QED BY <1>7, <1>8

\* What analyze_ddos has reported of a flood that is over stays as it is while the
\* capture goes on, but for a volumetric flood that the rest of the capture has come
\* to equal, or a specific one to explain.
THEOREM PastEventsAlwaysStay == FloodSpec => PastEventsStay
  <1>1. ASSUME FloodTypeOK, FloodTypeOK', FloodNext, Cardinality(Span) >= MinSeconds,
               NEW e \in Events, e.last + 2 <= Len(received)
        PROVE  e \in Events' \/ TakenBack(e)'
    <2>1. CASE e \in SpecificEvents
      <3>1. PICK k \in Specific : e \in {x \in {Event(k, r) : r \in Candidates(k)} :
                                            k = "sip" => Cardinality(x.sources) >= 3}
        BY <2>1 DEF SpecificEvents
      <3>2. PICK r \in Candidates(k) : /\ e = Event(k, r)
                                       /\ k = "sip" => Cardinality(e.sources) >= 3
        BY <3>1
      <3>3. k # "volumetric" /\ Candidates(k) = Runs(k) /\ Candidates(k)' = Runs(k)'
        BY FloodAssumption DEF Candidates
      <3>4. e.last = r.last
        BY <3>2 DEF Event
      <3>5. r \in Runs(k)' /\ Event(k, r)' = Event(k, r)
        BY <1>1, <3>2, <3>3, <3>4, PastRunStays
      <3>6. e \in SpecificEvents'
        BY <3>2, <3>3, <3>5 DEF SpecificEvents
      <3> QED BY <3>6 DEF Events
    <2>2. CASE e \in VolumetricEvents
      <3>1. PICK r \in Candidates("volumetric") : e = Event("volumetric", r)
        BY <2>2 DEF VolumetricEvents
      <3>2. r \in Runs("volumetric")
        BY <3>1 DEF Candidates
      <3>3. e.kind = "volumetric" /\ e.first = r.first /\ e.last = r.last
        BY <3>1 DEF Event
      <3>4. r \in Runs("volumetric")' /\ Event("volumetric", r)' = Event("volumetric", r)
        BY <1>1, <3>2, <3>3, PastRunStays
      <3>5. r = [first |-> e.first, last |-> e.last]
        BY <1>1, <3>2, <3>3, RunsAre DEF RunsOk
      <3>6. CASE AboveBaseline(r)' /\ ~Explained(r)'
        BY <3>1, <3>4, <3>6 DEF Candidates, VolumetricEvents, Events
      <3>7. CASE ~AboveBaseline(r)' \/ Explained(r)'
        BY <3>3, <3>5, <3>7 DEF TakenBack
      <3> QED BY <3>6, <3>7
    <2> QED BY <1>1, <2>1, <2>2 DEF Events
  <1>2. FloodTypeOK /\ FloodTypeOK' /\ [FloodNext]_received =>
            [Cardinality(Span) >= MinSeconds =>
                \A e \in Events : e.last + 2 <= Len(received) =>
                    e \in Events' \/ TakenBack(e)']_received
    BY <1>1
  <1> QED BY <1>2, FloodTyped, PTL DEF FloodSpec, PastEventsStay
=============================================================================
