----------------------------- MODULE CallProofs -----------------------------
(***************************************************************************)
(* Proofs about what is said of calls and phones: CallKpis, for any peers,  *)
(* destinations, statuses and number of calls; NatDevices, for any phones,  *)
(* routers, lifetimes and length of the capture; CallMedia, for any lengths,*)
(* addresses and number of streams.                                         *)
(***************************************************************************)
EXTENDS CallKpis, NatDevices, CallMedia, FiniteSetTheorems, TLAPS

-----------------------------------------------------------------------------
(* The figures over all calls.                                             *)
FiguresTypes == calls \in Seq(CallSet)

\* What the figures rely on: the status of an answered call is its answer, and
\* a status was heard.
Consistent(c) ==
    /\ "answer" \in c.seen <=> c.status \in 200..299
    /\ c.status # 0 => "response" \in c.seen

FiguresInv == FiguresTypes /\ \A i \in Calls : Consistent(calls[i])

\* No call was seen.
LEMMA FiguresInitInv == Init => FiguresInv
  BY DEF Init, FiguresInv, FiguresTypes, Calls

\* What a final response makes of a call.
LEMMA AfterConsistent ==
  ASSUME NEW c \in CallSet, Consistent(c), NEW status \in Statuses
  PROVE  After(c, status) \in CallSet /\ Consistent(After(c, status))
<1>1. status \in 200..699 /\ status # 0
  BY KpiAssumption
<1>2. CASE "answer" \in c.seen
  <2>1. After(c, status) = [c EXCEPT !.seen = @ \cup Heard(status)]
    BY <1>2 DEF After, CallSet
  <2> QED  BY <1>2, <2>1 DEF CallSet, Consistent, Heard
<1>3. CASE "answer" \notin c.seen
  <2>1. After(c, status) = [c EXCEPT !.seen = @ \cup Heard(status), !.status = status]
    BY <1>3 DEF After, CallSet
  <2>2. /\ Heard(status) \subseteq {"answer", "response"} /\ "response" \in Heard(status)
        /\ "answer" \in Heard(status) <=> status \in 200..299
    BY DEF Heard
  <2>3. /\ After(c, status) \in CallSet /\ After(c, status).status = status
        /\ After(c, status).seen = c.seen \cup Heard(status)
    <3>1. c.seen \cup Heard(status) \in SUBSET {"answer", "cancel", "response"}
      BY <2>2 DEF CallSet
    <3> DEFINE seen == c.seen \cup Heard(status)
    <3>2. /\ After(c, status) = [c EXCEPT !.seen = seen, !.status = status]
          /\ seen \in SUBSET {"answer", "cancel", "response"}
      BY <2>1, <3>1
    <3> HIDE DEF seen
    <3>3. After(c, status).status = status /\ After(c, status).seen = seen
      BY <3>2 DEF CallSet
    <3>4. After(c, status) \in CallSet
      <4>1. [c EXCEPT !.seen = seen] \in CallSet
        BY <3>2 DEF CallSet
      <4>2. After(c, status) = [[c EXCEPT !.seen = seen] EXCEPT !.status = status]
        BY <3>2 DEF CallSet
      <4>3. status \in {0} \cup Statuses
        OBVIOUS
      <4> QED  BY <4>1, <4>2, <4>3 DEF CallSet
    <3> QED  BY <3>3, <3>4 DEF seen
  <2>4. "answer" \in After(c, status).seen <=> status \in 200..299
    BY <1>3, <2>2, <2>3
  <2>5. "response" \in After(c, status).seen
    BY <2>2, <2>3
  <2> QED  BY <2>3, <2>4, <2>5 DEF Consistent
<1> QED  BY <1>2, <1>3

\* One call changes.
LEMMA ChangeStep ==
  ASSUME FiguresInv, NEW i \in Calls, NEW c \in CallSet, Consistent(c),
         calls' = [calls EXCEPT ![i] = c]
  PROVE  FiguresInv'
<1>1. calls' \in Seq(CallSet) /\ Len(calls') = Len(calls)
  BY DEF FiguresInv, FiguresTypes, Calls
<1>2. \A k \in Calls' : calls'[k] = IF k = i THEN c ELSE calls[k]
  BY <1>1 DEF FiguresInv, FiguresTypes, Calls
<1> QED  BY <1>1, <1>2 DEF FiguresInv, FiguresTypes, Calls

\* A call, or an answer to it, keeps what the figures rely on.
LEMMA FiguresNextInv == ASSUME FiguresInv, [Next]_calls PROVE FiguresInv'
<1>1. CASE Attempt
  <2>1. PICK peer \in Peers, to \in Destinations :
            calls' = Append(calls, [peer |-> peer, to |-> to, status |-> 0, seen |-> {}])
    BY <1>1 DEF Attempt
  <2> DEFINE c == [peer |-> peer, to |-> to, status |-> 0, seen |-> {}]
  <2>2. c \in CallSet /\ Consistent(c)
    BY DEF CallSet, Consistent
  <2> HIDE DEF c
  <2>3. calls' = Append(calls, c)
    BY <2>1 DEF c
  <2>4. calls' \in Seq(CallSet) /\ Len(calls') = Len(calls) + 1
    BY <2>2, <2>3 DEF FiguresInv, FiguresTypes
  <2>5. \A k \in Calls' : calls'[k] = IF k = Len(calls) + 1 THEN c ELSE calls[k]
    BY <2>2, <2>3, <2>4 DEF FiguresInv, FiguresTypes, Calls
  <2> QED  BY <2>2, <2>4, <2>5 DEF FiguresInv, FiguresTypes, Calls
<1>2. ASSUME NEW i \in Calls PROVE calls[i] \in CallSet /\ Consistent(calls[i])
  BY <1>2 DEF FiguresInv, FiguresTypes, Calls
<1>3. ASSUME NEW i \in Calls, Provisional(i) PROVE FiguresInv'
  <2> DEFINE c == [calls[i] EXCEPT !.seen = @ \cup {"response"}]
  <2>1. c \in CallSet /\ Consistent(c)
    BY <1>2, <1>3 DEF CallSet, Consistent
  <2>2. calls' = [calls EXCEPT ![i] = c]
    BY <1>3 DEF Provisional
  <2> QED  BY <1>3, <2>1, <2>2, ChangeStep
<1>4. ASSUME NEW i \in Calls, CancelCall(i) PROVE FiguresInv'
  <2> DEFINE c == [calls[i] EXCEPT !.seen = @ \cup {"cancel"}]
  <2>1. c \in CallSet /\ Consistent(c)
    BY <1>2, <1>4 DEF CallSet, Consistent
  <2>2. calls' = [calls EXCEPT ![i] = c]
    BY <1>4 DEF CancelCall
  <2> QED  BY <1>4, <2>1, <2>2, ChangeStep
<1>5. ASSUME NEW i \in Calls, RetryCall(i) PROVE FiguresInv'
  <2> DEFINE c == [calls[i] EXCEPT !.status = 0]
  <2>1. c \in CallSet /\ Consistent(c)
    BY <1>2, <1>5 DEF CallSet, Consistent, RetryCall, Connected
  <2>2. calls' = [calls EXCEPT ![i] = c]
    BY <1>5 DEF RetryCall
  <2> QED  BY <1>5, <2>1, <2>2, ChangeStep
<1>6. ASSUME NEW i \in Calls, NEW status \in Statuses, Respond(i, status) PROVE FiguresInv'
  <2>1. After(calls[i], status) \in CallSet /\ Consistent(After(calls[i], status))
    BY <1>2, <1>6, AfterConsistent
  <2>2. calls' = [calls EXCEPT ![i] = After(calls[i], status)]
    BY <1>6 DEF Respond
  <2> QED  BY <1>6, <2>1, <2>2, ChangeStep
<1>7. CASE UNCHANGED calls
  BY <1>7 DEF FiguresInv, FiguresTypes, Calls
<1> QED  BY <1>1, <1>3, <1>4, <1>5, <1>6, <1>7 DEF Next, Calls

\* The final status, whether the call was answered and whether it was heard of
\* stay consistent in every capture.
THEOREM FiguresInvariance == Spec => []FiguresInv
<1>1. Init => FiguresInv
  BY FiguresInitInv
<1>2. FiguresInv /\ [Next]_calls => FiguresInv'
  BY FiguresNextInv
<1> QED  BY <1>1, <1>2, PTL DEF Spec

-----------------------------------------------------------------------------
\* What classify_outcome says of a call, as far as the figures depend on it.
LEMMA OutcomeFacts ==
  ASSUME FiguresInv, NEW i \in Calls
  PROVE  /\ Connected(i) <=> OutcomeOfCall(i) = "answered"
         /\ calls[i].status \in SeerEffective => OutcomeOfCall(i) \in {"busy", "no_answer", "rejected", "cancelled"}
<1>0. calls[i] \in CallSet /\ Consistent(calls[i])
  BY DEF FiguresInv, FiguresTypes, Calls
<1> DEFINE s == calls[i].status
<1>1. \A o \in DOMAIN StatusesOf : o # "answered"
  BY DEF StatusesOf
<1>2. ASSUME \E o \in DOMAIN StatusesOf : s \in StatusesOf[o]
      PROVE  OutcomeOf(s) \in DOMAIN StatusesOf /\ s \in StatusesOf[OutcomeOf(s)]
  BY <1>2 DEF OutcomeOf
<1>3. OutcomeOf(s) # "answered"
  <2>1. CASE \E o \in DOMAIN StatusesOf : s \in StatusesOf[o]
    BY <1>1, <1>2, <2>1
  <2>2. CASE ~\E o \in DOMAIN StatusesOf : s \in StatusesOf[o]
    BY <2>2 DEF OutcomeOf
  <2> QED  BY <2>1, <2>2
<1>4. Connected(i) <=> OutcomeOfCall(i) = "answered"
  BY <1>0, <1>3 DEF OutcomeOfCall, ClassifyOutcome
<1>5. ASSUME s \in SeerEffective PROVE OutcomeOf(s) \in {"busy", "no_answer", "rejected"}
  <2>1. /\ DOMAIN StatusesOf = {"busy", "no_answer", "timeout", "not_found", "auth_failed", "rejected",
                                "media_negotiation_failed", "cancelled"}
        /\ StatusesOf["busy"] = {486, 600} /\ StatusesOf["no_answer"] = {480}
        /\ StatusesOf["timeout"] = {408} /\ StatusesOf["not_found"] = {404, 410, 484, 604}
        /\ StatusesOf["auth_failed"] = {401, 407} /\ StatusesOf["rejected"] = {403, 603}
        /\ StatusesOf["media_negotiation_failed"] = {415, 488, 606}
        /\ StatusesOf["cancelled"] = {487}
    BY DEF StatusesOf
  <2>2. s \in {480, 486, 600, 603}
    BY <1>5 DEF SeerEffective
  <2>3. \E o \in DOMAIN StatusesOf : s \in StatusesOf[o]
    BY <2>1, <2>2
  <2>4. \A o \in DOMAIN StatusesOf : s \in StatusesOf[o] => o \in {"busy", "no_answer", "rejected"}
    BY <2>1, <2>2
  <2> QED  BY <1>2, <2>3, <2>4
<1>6. s \in SeerEffective => s # 0 /\ s \notin {487, 200} /\ s \notin 200..299
  BY DEF SeerEffective
<1> QED  BY <1>0, <1>4, <1>5, <1>6 DEF OutcomeOfCall, ClassifyOutcome, Consistent, Connected

\* There are finitely many calls.
LEMMA CallsFinite == ASSUME FiguresInv PROVE IsFiniteSet(Calls)
  BY FS_Interval DEF FiguresInv, FiguresTypes, Calls

\* Counts of sets of calls compare like the sets.
LEMMA CountMonotone ==
  ASSUME NEW S, IsFiniteSet(S), NEW T, NEW U, T \subseteq U
  PROVE  Cardinality(S \cap T) <= Cardinality(S \cap U)
<1>1. IsFiniteSet(S \cap U)
  BY FS_Subset
<1>2. S \cap T \in SUBSET (S \cap U)
  OBVIOUS
<1> QED  BY <1>1, <1>2, FS_Subset

\* What two disjoint lists have of a set is no more than the set.
LEMMA CountDisjoint ==
  ASSUME NEW S, IsFiniteSet(S), NEW T, NEW U, T \cap U = {}
  PROVE  /\ Cardinality(S \cap T) \in Nat /\ Cardinality(S \cap U) \in Nat /\ Cardinality(S) \in Nat
         /\ Cardinality(S \cap T) + Cardinality(S \cap U) <= Cardinality(S)
<1>1. IsFiniteSet(S \cap T) /\ IsFiniteSet(S \cap U)
  BY FS_Subset
<1>2. /\ Cardinality(S \cap T) \in Nat /\ Cardinality(S \cap U) \in Nat /\ Cardinality(S) \in Nat
  BY <1>1, FS_CardinalityType
<1>3. (S \cap T) \cap (S \cap U) = {}
  OBVIOUS
<1>4. Cardinality((S \cap T) \cup (S \cap U)) = Cardinality(S \cap T) + Cardinality(S \cap U)
  <2> DEFINE A == S \cap T
             B == S \cap U
  <2>1. Cardinality(A \cap B) = 0
    BY <1>3, FS_EmptySet
  <2>2. Cardinality(A \cup B) = Cardinality(A) + Cardinality(B) - Cardinality(A \cap B)
    BY <1>1, FS_Union
  <2>3. Cardinality(A) \in Nat /\ Cardinality(B) \in Nat
    BY <1>2
  <2> QED  BY <2>1, <2>2, <2>3
<1>5. (S \cap T) \cup (S \cap U) \in SUBSET S
  OBVIOUS
<1>6. Cardinality((S \cap T) \cup (S \cap U)) <= Cardinality(S)
  BY <1>5, FS_Subset
<1> QED  BY <1>2, <1>4, <1>6

\* Which of the classes of calls contain each other, and which exclude.
LEMMA ClassesOrdered ==
  ASSUME FiguresInv
  PROVE  /\ AnsweredCalls \subseteq Effective /\ Effective \subseteq NerOk
         /\ Effective \cap Redirected = {} /\ NerOk \cap Ineffective = {}
<1>1. AnsweredCalls \subseteq Effective
  BY DEF AnsweredCalls, Effective
<1>2. Effective \subseteq NerOk
  BY OutcomeFacts DEF Effective, NerOk
<1>3. Effective \cap Redirected = {}
  <2>1. ASSUME NEW i \in Calls, Connected(i) PROVE calls[i].status \in 200..299
    BY <2>1 DEF FiguresInv, Consistent, Connected
  <2>2. ASSUME NEW i \in Effective, i \in Redirected PROVE FALSE
    <3>1. i \in Calls /\ calls[i].status \in 300..399
      BY <2>2 DEF Redirected
    <3>2. Connected(i) \/ calls[i].status \in {480, 486, 600, 603}
      BY <2>2 DEF Effective, SeerEffective
    <3>3. calls[i].status \in 200..299 \/ calls[i].status \in {480, 486, 600, 603}
      BY <2>1, <3>1, <3>2
    <3>4. \A s : ~(s \in 300..399 /\ (s \in 200..299 \/ s \in {480, 486, 600, 603}))
      OBVIOUS
    <3> QED BY ONLY <3>1, <3>3, <3>4, SMTT(30)
  <2> QED  BY <2>2
<1>4. NerOk \cap Ineffective = {}
  BY OutcomeFacts DEF NerOk, Ineffective
<1> QED  BY <1>1, <1>2, <1>3, <1>4

\* The ratios are in order in every capture, over all calls and for each peer.
THEOREM RatiosAreOrdered == Spec => []RatiosOrdered
<1>1. ASSUME FiguresInv PROVE RatiosOrdered
  <2> SUFFICES ASSUME NEW S \in {Calls} \cup {OfPeer(p) : p \in Peers}
               PROVE  /\ Cardinality(S \cap AnsweredCalls) <= Cardinality(S \cap Effective)
                      /\ Cardinality(S \cap Effective) <= Cardinality(S) - Cardinality(S \cap Redirected)
                      /\ Cardinality(S \cap Effective) <= Cardinality(S \cap NerOk)
                      /\ Cardinality(S \cap NerOk) + Cardinality(S \cap Ineffective) <= Cardinality(S)
    BY DEF RatiosOrdered
  <2>1. S \in SUBSET Calls
    BY DEF OfPeer
  <2>2. IsFiniteSet(S)
    BY <1>1, <2>1, CallsFinite, FS_Subset
  <2>3. AnsweredCalls \subseteq Effective /\ Effective \subseteq NerOk
        /\ Effective \cap Redirected = {} /\ NerOk \cap Ineffective = {}
    BY <1>1, ClassesOrdered
  <2>4. /\ Cardinality(S \cap AnsweredCalls) <= Cardinality(S \cap Effective)
        /\ Cardinality(S \cap Effective) <= Cardinality(S \cap NerOk)
    BY <2>2, <2>3, CountMonotone
  <2>5. /\ Cardinality(S) \in Nat /\ Cardinality(S \cap Effective) \in Nat
        /\ Cardinality(S \cap Redirected) \in Nat
        /\ Cardinality(S \cap Effective) + Cardinality(S \cap Redirected) <= Cardinality(S)
    BY <2>2, <2>3, CountDisjoint
  <2>6. Cardinality(S \cap NerOk) + Cardinality(S \cap Ineffective) <= Cardinality(S)
    BY <2>2, <2>3, CountDisjoint
  <2> QED  BY <2>4, <2>5, <2>6
<1>2. Spec => []FiguresInv
  BY FiguresInvariance
<1> QED  BY <1>1, <1>2, PTL

\* OUTCOME_SEVERITY has every outcome that classify_outcome gives a call that
\* failed, and no other.
LEMMA DiagnosedOutcomes ==
  ASSUME FiguresInv, NEW i \in Calls
  PROVE  i \in Diagnosed <=> ~Connected(i) /\ OutcomeOfCall(i) \notin {"cancelled", "in_progress"}
<1> DEFINE s == calls[i].status
           failures == {"no_response", "server_error", "timeout", "media_negotiation_failed",
                        "auth_failed", "not_found", "rejected", "client_error", "global_failure",
                        "busy", "no_answer", "redirected"}
<1>1. i \in Diagnosed <=> OutcomeOfCall(i) \in failures
  BY DEF Diagnosed, OutcomeSeverity
<1>2. /\ s \in {0} \cup 200..699 /\ (Connected(i) <=> s \in 200..299)
      /\ s # 0 => "response" \in calls[i].seen
  <2>1. calls[i] \in CallSet /\ Consistent(calls[i])
    BY DEF FiguresInv, FiguresTypes, Calls
  <2>2. s \in {0} \cup Statuses
    BY <2>1 DEF CallSet
  <2>3. s \in {0} \cup 200..699
    <3>1. Statuses \subseteq 200..699
      BY KpiAssumption
    <3> HIDE DEF s
    <3> QED BY ONLY <2>2, <3>1
  <2> QED  BY <2>1, <2>3 DEF Consistent, Connected
<1>3. ASSUME s \in 300..699 PROVE OutcomeOf(s) \in failures \cup {"cancelled"}
  <2>1. DOMAIN StatusesOf \subseteq failures \cup {"cancelled"}
    BY DEF StatusesOf
  <2>2. ASSUME \E o \in DOMAIN StatusesOf : s \in StatusesOf[o]
        PROVE  OutcomeOf(s) \in DOMAIN StatusesOf
    BY <2>2 DEF OutcomeOf
  <2> QED  BY <1>3, <2>1, <2>2, SMTT(30) DEF OutcomeOf
<1>4. OutcomeOfCall(i) \in failures <=> ~Connected(i) /\ OutcomeOfCall(i) \notin {"cancelled", "in_progress"}
  <2>1. CASE Connected(i)
    BY <2>1 DEF OutcomeOfCall, ClassifyOutcome
  <2>2. CASE ~Connected(i) /\ s = 0
    BY <2>2 DEF OutcomeOfCall, ClassifyOutcome
  <2>3. CASE ~Connected(i) /\ s \in 300..699
    BY <1>2, <1>3, <2>3, SMTT(30) DEF OutcomeOfCall, ClassifyOutcome
  <2> QED  BY <1>2, <2>1, <2>2, <2>3
<1> QED  BY <1>1, <1>4

\* Every call is answered, a failure that the tables and the diagnoses both show,
\* or cancelled or not over.
THEOREM FailuresAgreeAlways == Spec => []FailuresAgree
<1>1. ASSUME FiguresInv PROVE FailuresAgree
  <2>1. \A i \in Calls :
            i \in Diagnosed <=> ~Connected(i) /\ OutcomeOfCall(i) \notin {"cancelled", "in_progress"}
    BY <1>1, DiagnosedOutcomes
  <2>2. \A i \in Calls : calls[i].to \in Destinations
    <3>1. \A i \in Calls : calls[i] \in CallSet
      BY <1>1 DEF FiguresInv, FiguresTypes, Calls
    <3> QED  BY <3>1 DEF CallSet
  <2>3. UNION {Failing(to) : to \in Destinations} = Diagnosed
    <3>1. Diagnosed \subseteq Calls /\ \A to \in Destinations : Failing(to) \subseteq Calls
      BY DEF Diagnosed, Failing
    <3>2. \A i \in Calls, to \in Destinations :
              i \in Failing(to) <=> i \in Diagnosed /\ calls[i].to = to
      BY <2>1 DEF Failing
    <3>3. ASSUME NEW i PROVE i \in UNION {Failing(to) : to \in Destinations} <=> i \in Diagnosed
      <4>1. i \in Diagnosed => i \in Calls /\ calls[i].to \in Destinations
        BY <2>2, <3>1
      <4> QED  BY <3>1, <3>2, <4>1
    <3> QED  BY <3>3
  <2>4. \A i \in Calls \ (AnsweredCalls \cup Diagnosed) : OutcomeOfCall(i) \in {"cancelled", "in_progress"}
    BY <2>1 DEF AnsweredCalls
  <2>5. AnsweredCalls \cap Diagnosed = {}
    BY <2>1 DEF AnsweredCalls
  <2> QED  BY <2>3, <2>4, <2>5 DEF FailuresAgree
<1>2. Spec => []FiguresInv
  BY FiguresInvariance
<1> QED  BY <1>1, <1>2, PTL

-----------------------------------------------------------------------------
(* Phones behind NAT.                                                      *)
\* Every message is of a phone, from its router, or a response of the server.
MessageOk(m) ==
    /\ m.phone \in Phones /\ m.expires \in Nat
    /\ m.src = m.phone.router \/ (m.src = Server /\ m.method = "response")

\* What is known of a source, in terms of all the requests that it sent.
DeviceOk(s) ==
    /\ devices[s].rport \in BOOLEAN
    /\ devices[s].rport <=> \E m \in Requests(s) : m.phone.rport
    /\ \E m \in Requests(s) : devices[s].transport = m.phone.transport
    /\ devices[s].expires = {m.expires : m \in {n \in Requests(s) : n.expires > 0}}

DevicesOk ==
    /\ DOMAIN devices = {s \in Routers : Requests(s) # {}}
    /\ \A s \in DOMAIN devices : DeviceOk(s)

\* One finding for each source that is remembered, as grave as a message of it.
FindingOk(f) ==
    \/ f.severity = "critical" /\ \E m \in Rewritten(f.src) : m.rewritten # "sdp"
    \/ f.severity = "warning" /\ \E m \in Rewritten(f.src) : m.rewritten = "sdp"

FoundOk ==
    /\ found \in Seq([src : Routers \cup {Server}, severity : {"critical", "warning"}])
    /\ algSeen = {found[i].src : i \in DOMAIN found}
    /\ \A i, j \in DOMAIN found : found[i].src = found[j].src => i = j
    /\ \A i \in DOMAIN found : FindingOk(found[i])

NatInv ==
    /\ \A m \in observed : MessageOk(m)
    /\ DevicesOk
    /\ FoundOk
    /\ algSeen = {s \in Routers \cup {Server} : Rewritten(s) # {}}

\* No message was observed.
LEMMA NatInitInv == ASSUME NatInit PROVE NatInv
  <1> USE DEF NatInit, Requests, Rewritten
  <1>1. DevicesOk
    BY DEF DevicesOk
  <1>2. FoundOk
    BY DEF FoundOk
  <1> QED BY <1>1, <1>2 DEF NatInv

-----------------------------------------------------------------------------
(* Every action captures one message.                                       *)

\* Every step observes one message.
LEMMA CaptureOfNext ==
  ASSUME NatNext
  PROVE  \E m : MessageOk(m) /\ Observe(m)
  <1> USE NatAssumption DEF MessageOk, PhoneMessage
  <1>1. PICK p \in Phones : Register(p) \/ Call(p) \/ AnswerCall(p)
    BY DEF NatNext
  <1>2. CASE Register(p)
    BY <1>1, <1>2 DEF Register
  <1>3. CASE Call(p)
    BY <1>1, <1>3 DEF Call
  <1>4. CASE AnswerCall(p)
    BY <1>1, <1>4 DEF AnswerCall
  <1> QED BY <1>1, <1>2, <1>3, <1>4

\* A message adds to the requests and the rewritten messages of its source only.
LEMMA SentGrows ==
  ASSUME NEW m, Observe(m), NEW s
  PROVE  /\ Requests(s)' = IF s = m.src /\ IsDevice(m) THEN Requests(s) \cup {m} ELSE Requests(s)
         /\ Rewritten(s)' = IF s = m.src /\ m.rewritten # "none" THEN Rewritten(s) \cup {m}
                            ELSE Rewritten(s)
  BY DEF Observe, Requests, Rewritten, IsDevice, BehindNat

\* devices after one more message.
LEMMA DevicesStep ==
  ASSUME NatInv, NEW m, MessageOk(m), Observe(m)
  PROVE  DevicesOk'
  <1>1. See(m)
    BY DEF Observe
  <1>2. CASE ~IsDevice(m)
    <2>1. devices' = devices
      BY <1>1, <1>2 DEF See
    <2>2. \A s : Requests(s)' = Requests(s)
      BY <1>2, SentGrows
    <2> QED BY <2>1, <2>2 DEF NatInv, DevicesOk, DeviceOk
  <1>3. CASE IsDevice(m)
    <2>1. devices' = [s \in DOMAIN devices \cup {m.src} |-> IF s = m.src THEN Device(m) ELSE devices[s]]
      BY <1>1, <1>3 DEF See
    <2>2. /\ Requests(m.src)' = Requests(m.src) \cup {m}
          /\ \A s : s # m.src => Requests(s)' = Requests(s)
      BY <1>3, SentGrows
    <2>3. m.src \in Routers
      BY <1>3 DEF MessageOk, IsDevice, Routers
    <2>4. DOMAIN devices' = {s \in Routers : Requests(s)' # {}}
      BY <2>1, <2>2, <2>3 DEF NatInv, DevicesOk
    <2>5. ASSUME NEW s \in DOMAIN devices', s # m.src
          PROVE  DeviceOk(s)'
      BY <2>1, <2>2, <2>5 DEF NatInv, DevicesOk, DeviceOk
    <2>6. DeviceOk(m.src)'
      <3>1. devices'[m.src] = Device(m)
        BY <2>1
      <3>2. m.phone.rport \in BOOLEAN /\ m.expires \in Nat
        BY NatAssumption DEF MessageOk
      <3>3. CASE m.src \in DOMAIN devices
        <4>1. DeviceOk(m.src)
          BY <3>3 DEF NatInv, DevicesOk
        <4>2. /\ devices'[m.src].rport = (devices[m.src].rport \/ m.phone.rport)
              /\ devices'[m.src].transport = devices[m.src].transport
              /\ devices'[m.src].expires =
                     devices[m.src].expires \cup (IF m.expires > 0 THEN {m.expires} ELSE {})
          BY <3>1, <3>3 DEF Device
        <4>3. devices'[m.src].rport <=> \E n \in Requests(m.src)' : n.phone.rport
          BY <4>1, <4>2, <2>2 DEF DeviceOk
        <4>4. \E n \in Requests(m.src)' : devices'[m.src].transport = n.phone.transport
          BY <4>1, <4>2, <2>2 DEF DeviceOk
        <4>5. devices'[m.src].expires = {n.expires : n \in {k \in Requests(m.src)' : k.expires > 0}}
          BY <4>1, <4>2, <2>2 DEF DeviceOk
        <4> QED BY <3>2, <4>1, <4>2, <4>3, <4>4, <4>5 DEF DeviceOk
      <3>4. CASE m.src \notin DOMAIN devices
        <4>1. Requests(m.src) = {}
          BY <2>3, <3>4 DEF NatInv, DevicesOk
        <4>2. /\ devices'[m.src].rport = m.phone.rport
              /\ devices'[m.src].transport = m.phone.transport
              /\ devices'[m.src].expires = IF m.expires > 0 THEN {m.expires} ELSE {}
          BY <3>1, <3>2, <3>4 DEF Device
        <4>3. Requests(m.src)' = {m}
          BY <2>2, <4>1
        <4>4. devices'[m.src].expires = {n.expires : n \in {k \in Requests(m.src)' : k.expires > 0}}
          BY <4>2, <4>3
        <4> QED BY <3>2, <4>2, <4>3, <4>4 DEF DeviceOk
      <3> QED BY <3>3, <3>4
    <2> QED BY <2>4, <2>5, <2>6 DEF DevicesOk
  <1> QED BY <1>2, <1>3

\* The ALG findings after one more message.
LEMMA FoundStep ==
  ASSUME NatInv, NEW m, MessageOk(m), Observe(m)
  PROVE  FoundOk' /\ algSeen' = {s \in Routers \cup {Server} : Rewritten(s)' # {}}
  <1>1. AlgRules(m)
    BY DEF Observe
  <1>2. m.src \in Routers \cup {Server}
    BY DEF MessageOk, Routers
  <1>3. observed \subseteq observed'
    BY DEF Observe
  <1>4. \A i \in DOMAIN found : FindingOk(found[i])
    BY DEF NatInv, FoundOk
  <1>5. CASE m.src \in algSeen \/ m.rewritten = "none"
    <2>1. UNCHANGED <<found, algSeen>>
      BY <1>1, <1>5 DEF AlgRules
    <2>2. (\A i \in DOMAIN found : FindingOk(found[i]))'
      BY <1>3, <1>4, <2>1 DEF FindingOk, Rewritten
    <2>4. FoundOk'
      BY <2>1, <2>2 DEF NatInv, FoundOk
    <2>3. \A s \in Routers \cup {Server} : Rewritten(s)' # {} <=> Rewritten(s) # {}
      BY <1>5, SentGrows DEF NatInv
    <2> QED BY <2>1, <2>3, <2>4 DEF NatInv
  <1>6. CASE m.src \notin algSeen /\ m.rewritten # "none"
    <2> DEFINE f == [src |-> m.src, severity |-> IF m.rewritten = "sdp" THEN "warning" ELSE "critical"]
    <2>1. algSeen' = algSeen \cup {m.src} /\ found' = Append(found, f)
      BY <1>1, <1>6 DEF AlgRules
    <2>2. Rewritten(m.src)' = Rewritten(m.src) \cup {m} /\ \A s : s # m.src => Rewritten(s)' = Rewritten(s)
      BY <1>6, SentGrows
    <2>3. FindingOk(f)'
      BY <2>2 DEF FindingOk, Rewritten
    <2>4. found \in Seq([src : Routers \cup {Server}, severity : {"critical", "warning"}])
      BY DEF NatInv, FoundOk
    <2>5. f \in [src : Routers \cup {Server}, severity : {"critical", "warning"}]
      BY <1>2
    <2> HIDE DEF f
    <2>6. /\ found' \in Seq([src : Routers \cup {Server}, severity : {"critical", "warning"}])
          /\ DOMAIN found = 1..Len(found) /\ Len(found) \in Nat
          /\ DOMAIN found' = 1..(Len(found) + 1)
          /\ found'[Len(found) + 1] = f
          /\ \A i \in DOMAIN found : found'[i] = found[i]
      BY <2>1, <2>4, <2>5
    <2>7. f.src = m.src
      BY DEF f
    <2>8. algSeen = {found[i].src : i \in DOMAIN found}
      BY DEF NatInv, FoundOk
    <2>9. algSeen' = {found'[i].src : i \in DOMAIN found'}
      BY <2>1, <2>6, <2>7, <2>8
    <2>10. \A i, j \in DOMAIN found' : found'[i].src = found'[j].src => i = j
      <3>1. \A i, j \in DOMAIN found : found[i].src = found[j].src => i = j
        BY DEF NatInv, FoundOk
      <3>2. \A i \in DOMAIN found : found'[i].src # m.src
        BY <1>6, <2>6, <2>8
      <3> QED BY <2>6, <2>7, <3>1, <3>2
    <2>11. ASSUME NEW i \in DOMAIN found'
           PROVE  FindingOk(found[i])'
      <3>1. CASE i \in DOMAIN found
        <4>1. found'[i] = found[i] /\ FindingOk(found[i])
          BY <1>4, <2>6, <3>1
        <4> QED BY <1>3, <4>1 DEF FindingOk, Rewritten
      <3>2. CASE i = Len(found) + 1
        <4>1. found'[i] = f
          BY <2>6, <3>2
        <4> QED BY <2>3, <4>1 DEF FindingOk, Rewritten
      <3> QED BY <2>6, <3>1, <3>2
    <2>12. FoundOk'
      BY <2>6, <2>9, <2>10, <2>11 DEF FoundOk
    <2>13. algSeen' = {s \in Routers \cup {Server} : Rewritten(s)' # {}}
      BY <1>2, <2>1, <2>2 DEF NatInv
    <2> QED BY <2>12, <2>13
  <1> QED BY <1>5, <1>6

\* Every message keeps the invariant.
LEMMA NatNextInv == ASSUME NatInv, [NatNext]_natVars PROVE NatInv'
  <1>1. CASE NatNext
    <2>1. PICK m : MessageOk(m) /\ Observe(m)
      BY <1>1, CaptureOfNext
    <2>2. \A n \in observed' : MessageOk(n)
      BY <2>1 DEF NatInv, Observe
    <2>3. (\A n \in observed : MessageOk(n))'
      BY <2>2 DEF MessageOk
    <2> QED BY <2>1, <2>3, DevicesStep, FoundStep DEF NatInv
  <1>2. CASE UNCHANGED natVars
    <2>1. \A s : Requests(s)' = Requests(s) /\ Rewritten(s)' = Rewritten(s)
      BY <1>2 DEF natVars, Requests, Rewritten
    <2>2. DevicesOk'
      BY <1>2, <2>1 DEF natVars, NatInv, DevicesOk, DeviceOk
    <2>3. (\A i \in DOMAIN found : FindingOk(found[i]))'
      BY <1>2, <2>1 DEF natVars, NatInv, FoundOk, FindingOk
    <2>4. FoundOk'
      BY <1>2, <2>3 DEF natVars, NatInv, FoundOk
    <2> QED BY <1>2, <2>1, <2>2, <2>4 DEF natVars, NatInv, MessageOk
  <1> QED BY <1>1, <1>2

\* The state of analyze_nat is a summary of all messages captured so far,
\* source by source, whatever the phones and the order of their messages.
THEOREM NatInvariance == NatSpec => []NatInv
  BY NatInitInv, NatNextInv, PTL DEF NatSpec

-----------------------------------------------------------------------------
(* What the findings say.                                                   *)

\* The findings about devices, from what is known of each source.
LEMMA DeviceFindings ==
  ASSUME NatInv, NEW s \in Behind
  PROVE  /\ s \in NoRport => \E m \in Requests(s) : m.phone.transport = "UDP" /\ ~m.phone.rport
         /\ (\A m, n \in Requests(s) : m.phone.transport = n.phone.transport) =>
                /\ s \in NoRport <=> \A m \in Requests(s) : m.phone.transport = "UDP" /\ ~m.phone.rport
                /\ s \in TooLong <=>
                       \E m \in Requests(s) : m.phone.transport = "UDP" /\ m.expires > LongLife
  <1>1. DeviceOk(s)
    BY DEF NatInv, DevicesOk, Behind
  <1>2. s \in NoRport <=> devices[s].transport = "UDP" /\ \A m \in Requests(s) : ~m.phone.rport
    BY <1>1 DEF NoRport, DeviceOk
  <1>3. PICK k \in Requests(s) : devices[s].transport = k.phone.transport
    BY <1>1 DEF DeviceOk
  <1>4. \A m \in Requests(s) : m.expires \in Nat
    BY DEF NatInv, MessageOk, Requests
  <1>5. (\E e \in devices[s].expires : e > LongLife) <=> \E m \in Requests(s) : m.expires > LongLife
    BY <1>1, <1>4, NatAssumption DEF DeviceOk
  <1>6. s \in TooLong <=> devices[s].transport = "UDP" /\ \E m \in Requests(s) : m.expires > LongLife
    BY <1>5 DEF TooLong
  <1> QED BY <1>2, <1>3, <1>6

\* The findings about ALGs, from what is known of each source.
LEMMA AlgFindings ==
  ASSUME NatInv, NEW s \in Routers \cup {Server}
  PROVE  LET of == {i \in 1..Len(found) : found[i].src = s}
             lengths == {m \in Rewritten(s) : m.rewritten # "sdp"} IN
         /\ Cardinality(of) = IF Rewritten(s) # {} THEN 1 ELSE 0
         /\ \A i \in of : /\ found[i].severity = "critical" => lengths # {}
                          /\ found[i].severity = "warning" => lengths # Rewritten(s)
  <1> DEFINE of == {i \in 1..Len(found) : found[i].src = s}
             lengths == {m \in Rewritten(s) : m.rewritten # "sdp"}
  <1>1. DOMAIN found = 1..Len(found)
    BY DEF NatInv, FoundOk
  <1>2. \A i \in of : FindingOk(found[i]) /\ found[i].src = s
    BY <1>1 DEF NatInv, FoundOk
  <1>3. ASSUME NEW i \in of
        PROVE  /\ found[i].severity = "critical" => lengths # {}
               /\ found[i].severity = "warning" => lengths # Rewritten(s)
    BY <1>2 DEF FindingOk
  <1>4. CASE Rewritten(s) = {}
    <2>1. of = {}
      BY <1>1, <1>4 DEF NatInv, FoundOk
    <2> QED BY <1>3, <1>4, <2>1, FS_EmptySet
  <1>5. CASE Rewritten(s) # {}
    <2>1. PICK i \in DOMAIN found : found[i].src = s
      BY <1>5 DEF NatInv, FoundOk
    <2>2. of = {i}
      BY <1>1, <2>1 DEF NatInv, FoundOk
    <2>3. Cardinality(of) = 1
      BY <2>2, FS_Singleton
    <2> QED BY <1>3, <1>5, <2>3
  <1> QED BY <1>4, <1>5

\* Whatever phones share a router, in whichever order they speak: exactly the
\* routers with phones on private addresses are reported, no router for what none
\* of its phones did, and every source that rewrites has one ALG finding
\* (analyze_nat, sections 1 and 2).
THEOREM FindingsAreFaithful == NatSpec => []NatFindingsFaithful
  <1>1. ASSUME NatInv PROVE NatFindingsFaithful
    <2>1. Behind = {s \in Routers : Requests(s) # {}}
      BY <1>1 DEF NatInv, DevicesOk, Behind
    <2>2. \A s \in NoRport : \E m \in Requests(s) : m.phone.transport = "UDP" /\ ~m.phone.rport
      BY <1>1, DeviceFindings DEF NoRport
    <2> QED BY <1>1, <2>1, <2>2, DeviceFindings, AlgFindings DEF NatFindingsFaithful
  <1> QED BY <1>1, NatInvariance, PTL

-----------------------------------------------------------------------------
(* The media of one call.                                                  *)
ByeSet == [side : Parties, at : Nat, dropped : BOOLEAN]

MediaTypeOK ==
    /\ setting \in {"lan", "open", "nat"} /\ time \in Nat
    /\ connected \in Nat \cup {None}
    /\ hangups \in Seq(ByeSet)
    /\ told \in [Parties -> Nat \cup {None}]
    /\ source \in [Parties -> 1..MaxSources]
    /\ heard \in [Parties -> [1..MaxSources -> Nat]]
    /\ streams \in [DOMAIN streams -> [packets : Nat, last : Nat]]

\* The streams that there may be: what the phone sends, and what the server sends
\* to the address it was given or to the one it observed.
ToServer(s) == [src |-> Observed, dst |-> ServerAddress, ssrc |-> s]
ToPhone(address, s) == [src |-> ServerAddress, dst |-> address, ssrc |-> s]

StreamOk(k) == \E s \in 1..MaxSources : k \in {ToServer(s), ToPhone(Written, s), ToPhone(Observed, s)}

PacketsOf(k) == IF k \in DOMAIN streams THEN streams[k].packets ELSE 0

\* What a party heard is what was captured on its way to it.
HeardOk ==
    /\ \A k \in DOMAIN streams : StreamOk(k)
    /\ \A s \in 1..MaxSources : /\ heard["callee"][s] = PacketsOf(ToServer(s))
                                /\ heard["caller"][s] = PacketsOf(ToPhone(Observed, s))

Talker(k) == IF k.src = ServerAddress THEN "callee" ELSE "caller"

\* Nobody talks after hanging up or after hearing of the other's BYE.
LastsOk ==
    \A k \in DOMAIN streams :
        /\ connected # None /\ streams[k].last <= time
        /\ told[Talker(k)] # None => streams[k].last <= told[Talker(k)]
        /\ \A i \in DOMAIN hangups : hangups[i].side = Talker(k) => streams[k].last <= hangups[i].at

\* BYEs are in order, and that of a callee without ACK comes when it has to.
HangupsOk ==
    \A i \in DOMAIN hangups :
        /\ connected # None /\ hangups[1].at <= hangups[i].at /\ hangups[i].at <= time
        /\ hangups[i].dropped => hangups[i].side = "callee" /\ hangups[i].at = connected + TimerH

DeadlineOk == InCall("callee") /\ ack # "received" => time <= connected + TimerH

MediaInv == MediaTypeOK /\ HeardOk /\ LastsOk /\ HangupsOk /\ DeadlineOk

\* The three addresses are different.
LEMMA HeardStays == ASSUME HeardOk, UNCHANGED <<setting, streams, heard>> PROVE HeardOk'
  <1>1. Observed' = Observed /\ Written' = Written /\ ServerAddress' = ServerAddress
    BY DEF Observed, Written, ServerAddress
  <1> QED BY <1>1 DEF HeardOk, PacketsOf, StreamOk, ToServer, ToPhone

LEMMA Addresses == MediaTypeOK => Observed # ServerAddress /\ Written # ServerAddress
  BY DEF MediaTypeOK, Observed, Written, ServerAddress

\* Before the answer nothing was sent.
LEMMA MediaInitInv == ASSUME MediaInit PROVE MediaInv
  <1> USE CallMediaAssumption DEF MediaInit
  <1>1. MediaTypeOK
    BY DEF MediaTypeOK, Parties
  <1>2. HeardOk
    BY DEF HeardOk, PacketsOf, Parties
  <1>3. LastsOk /\ HangupsOk
    BY DEF LastsOk, HangupsOk
  <1>4. DeadlineOk
    BY DEF DeadlineOk, InCall
  <1> QED BY <1>1, <1>2, <1>3, <1>4 DEF MediaInv

\* The callee answers.
LEMMA PickUpInv == ASSUME MediaInv, PickUp PROVE MediaInv'
  <1> USE CallMediaAssumption DEF PickUp, MediaInv, network
  <1>1. MediaTypeOK'
    BY DEF MediaTypeOK
  <1>2. HeardOk'
    <2>1. HeardOk /\ UNCHANGED <<setting, streams, heard>>
      OBVIOUS
    <2> QED BY <2>1, HeardStays
  <1>3. LastsOk' /\ HangupsOk'
    BY DEF LastsOk, HangupsOk
  <1>4. DeadlineOk'
    BY DEF DeadlineOk, InCall, MediaTypeOK
  <1> QED BY <1>1, <1>2, <1>3, <1>4

\* A second passes.
LEMMA TickInv == ASSUME MediaInv, Tick PROVE MediaInv'
  <1> USE CallMediaAssumption DEF Tick, MediaInv, network
  <1>1. MediaTypeOK'
    BY SMTT(30) DEF MediaTypeOK
  <1>2. HeardOk'
    <2>1. HeardOk /\ UNCHANGED <<setting, streams, heard>>
      OBVIOUS
    <2> QED BY <2>1, HeardStays
  <1>3. LastsOk'
    <2>1. \A k \in DOMAIN streams : streams[k].last \in Nat
      BY DEF MediaTypeOK
    <2>2. \A k \in DOMAIN streams : streams[k].last <= time'
      BY <2>1 DEF LastsOk, MediaTypeOK
    <2> QED BY <2>2 DEF LastsOk, Talker, ServerAddress
  <1>5. HangupsOk'
    <2>1. \A i \in DOMAIN hangups : hangups[i].at \in Nat
      <3>1. \A i \in DOMAIN hangups : hangups[i] \in ByeSet
        BY DEF MediaTypeOK
      <3> QED BY <3>1 DEF ByeSet
    <2> QED BY <2>1, SMTT(30) DEF HangupsOk, MediaTypeOK
  <1>4. DeadlineOk'
    BY DEF DeadlineOk, InCall, HungUp, Overdue, MediaTypeOK
  <1> QED BY <1>1, <1>2, <1>3, <1>4, <1>5

\* A party starts another RTP source.
LEMMA NewSourceInv == ASSUME MediaInv, NEW p \in Parties, NewSource(p) PROVE MediaInv'
  <1> USE CallMediaAssumption DEF NewSource, MediaInv, network
  <1>1. MediaTypeOK'
    <2>1. source["caller"] \in 1..MaxSources /\ source["callee"] \in 1..MaxSources
      BY DEF MediaTypeOK, Parties
    <2>2. source' \in [Parties -> 1..MaxSources]
      <3>1. source[p] + 1 \in 1..MaxSources
        BY <2>1 DEF Parties
      <3> QED BY <3>1 DEF MediaTypeOK
    <2> QED BY <2>2 DEF MediaTypeOK
  <1>2. HeardOk'
    <2>1. HeardOk /\ UNCHANGED <<setting, streams, heard>>
      OBVIOUS
    <2> QED BY <2>1, HeardStays
  <1>3. LastsOk' /\ HangupsOk'
    BY DEF LastsOk, HangupsOk, Talker, ServerAddress
  <1>4. DeadlineOk'
    BY DEF DeadlineOk, InCall, HungUp
  <1> QED BY <1>1, <1>2, <1>3, <1>4

\* The ACK tells a party of the answer, or is lost.
LEMMA TellInv == ASSUME MediaInv, NEW p \in Parties, Tell(p) PROVE MediaInv'
  <1> USE CallMediaAssumption DEF Tell, MediaInv, network
  <1>1. MediaTypeOK'
    BY DEF MediaTypeOK
  <1>2. HeardOk'
    <2>1. HeardOk /\ UNCHANGED <<setting, streams, heard>>
      OBVIOUS
    <2> QED BY <2>1, HeardStays
  <1>3. LastsOk'
    <2> SUFFICES ASSUME NEW k \in DOMAIN streams, told'[Talker(k)] # None
                 PROVE  streams[k].last <= told'[Talker(k)]
      BY ZenonT(30) DEF LastsOk, Talker, ServerAddress
    <2> QED BY SMTT(30) DEF LastsOk, MediaTypeOK
  <1>5. HangupsOk'
    BY DEF HangupsOk
  <1>4. DeadlineOk'
    BY DEF DeadlineOk, InCall, HungUp, MediaTypeOK
  <1> QED BY <1>1, <1>2, <1>3, <1>4, <1>5

\* A party hangs up, is told, or gives up.
LEMMA LeaveInv ==
  ASSUME MediaInv, NEW p \in Parties, NEW dropped \in BOOLEAN, Leave(p, dropped),
         dropped => p = "callee" /\ Overdue
  PROVE  MediaInv'
  <1> DEFINE bye == [side |-> p, at |-> time, dropped |-> dropped]
  <1> USE CallMediaAssumption DEF Leave, MediaInv, network
  <1>1. MediaTypeOK'
    BY DEF MediaTypeOK, ByeSet
  <1>2. HeardOk'
    <2>1. HeardOk /\ UNCHANGED <<setting, streams, heard>>
      OBVIOUS
    <2> QED BY <2>1, HeardStays
  <1>3. /\ DOMAIN hangups' = 1..(Len(hangups) + 1) /\ DOMAIN hangups = 1..Len(hangups)
        /\ Len(hangups) \in Nat
        /\ \A i \in DOMAIN hangups : hangups'[i] = hangups[i]
        /\ hangups'[Len(hangups) + 1] = bye
    BY DEF MediaTypeOK
  <1>4. LastsOk'
    <2> SUFFICES ASSUME NEW k \in DOMAIN streams, NEW i \in DOMAIN hangups',
                        hangups'[i].side = Talker(k)
                 PROVE  streams[k].last <= hangups'[i].at
      BY ZenonT(30) DEF LastsOk, Talker, ServerAddress
    <2>1. CASE i \in DOMAIN hangups
      BY <1>3, <2>1 DEF LastsOk
    <2>2. CASE i = Len(hangups) + 1
      BY <1>3, <2>2 DEF LastsOk
    <2> QED BY <1>3, <2>1, <2>2
  <1>5. HangupsOk'
    <2>1. connected # None
      BY DEF InCall
    <2>2. dropped => time = connected + TimerH
      <3> SUFFICES ASSUME dropped PROVE time = connected + TimerH
        OBVIOUS
      <3>1. connected \in Nat /\ time \in Nat /\ TimerH \in Nat
        BY <2>1 DEF MediaTypeOK
      <3>2. time >= connected + TimerH /\ InCall("callee") /\ ack # "received"
        BY DEF Overdue
      <3>3. time <= connected + TimerH
        BY <3>2 DEF DeadlineOk
      <3> QED BY <3>1, <3>2, <3>3
    <2>3. bye.at = time /\ bye.dropped = dropped /\ bye.side = p
      OBVIOUS
    <2>4. hangups'[1].at <= time
      BY <1>3, <2>3 DEF HangupsOk, MediaTypeOK
    <2> QED BY <1>3, <2>1, <2>2, <2>3, <2>4, SMTT(30) DEF HangupsOk, MediaTypeOK
  <1>6. DeadlineOk'
    <2>1. HungUp \subseteq HungUp'
      BY <1>3 DEF HungUp
    <2> QED BY <2>1 DEF DeadlineOk, InCall
  <1> QED BY <1>1, <1>2, <1>4, <1>5, <1>6

\* A party sends a packet: its stream grows, and the other hears it unless it is lost.
LEMMA TalkInv == ASSUME MediaInv, NEW p \in Parties, Talk(p) PROVE MediaInv'
  <1> DEFINE key == [src |-> IF p = "caller" THEN Observed ELSE ServerAddress,
                     dst |-> Destination(p), ssrc |-> source[p]]
             lost == p = "caller" /\ blocked
             reached == ~lost /\ key.dst \in {ServerAddress, Observed}
  <1> USE CallMediaAssumption DEF MediaInv, network
  <1>1. /\ InCall(p)
        /\ streams' = IF lost THEN streams
                      ELSE [k \in DOMAIN streams \cup {key} |->
                               IF k = key THEN Count(key) ELSE streams[k]]
        /\ heard' = IF reached THEN [heard EXCEPT ![Other(p)][source[p]] = @ + 1] ELSE heard
        /\ UNCHANGED <<network, time, connected, ack, hangups, told, source>>
    BY DEF Talk
  <1>2. /\ source[p] \in 1..MaxSources /\ Other(p) \in Parties /\ p # Other(p)
        /\ Observed # ServerAddress /\ Written # ServerAddress
    BY Addresses DEF MediaTypeOK, Parties, Other
  <1>3. StreamOk(key) /\ Talker(key) = p
    BY <1>2 DEF StreamOk, ToServer, ToPhone, Destination, Talker, Parties
  <1>4. ~lost => /\ DOMAIN streams' = DOMAIN streams \cup {key}
                 /\ streams'[key] = Count(key)
                 /\ \A k \in DOMAIN streams : k # key => streams'[k] = streams[k]
    BY <1>1 
  <1>5. /\ Observed' = Observed /\ Written' = Written /\ ServerAddress' = ServerAddress
        /\ \A k : StreamOk(k)' <=> StreamOk(k)
        /\ \A k : Talker(k)' = Talker(k)
    BY <1>1 DEF Observed, Written, ServerAddress, StreamOk, ToServer, ToPhone, Talker
  <1>6. Count(key) \in [packets : Nat, last : Nat] /\ Count(key).last = time
    BY DEF Count, MediaTypeOK
  <1>7. MediaTypeOK'
    <2>1. heard' \in [Parties -> [1..MaxSources -> Nat]]
      <3>1. heard[Other(p)] \in [1..MaxSources -> Nat] /\ heard[Other(p)][source[p]] + 1 \in Nat
        <4>1. heard \in [Parties -> [1..MaxSources -> Nat]]
          BY DEF MediaTypeOK
        <4>2. PICK other \in Parties : other = Other(p)
          BY <1>2
        <4>3. PICK s \in 1..MaxSources : s = source[p]
          BY <1>2
        <4>4. heard[other] \in [1..MaxSources -> Nat]
          BY ONLY <4>1
        <4>5. heard[other][s] \in Nat
          BY ONLY <4>4
        <4> QED BY ONLY <4>2, <4>3, <4>4, <4>5
      <3>2. [heard[Other(p)] EXCEPT ![source[p]] = @ + 1] \in [1..MaxSources -> Nat]
        BY <3>1
      <3> QED BY <1>1, <1>2, <3>2 DEF MediaTypeOK
    <2>2. streams' \in [DOMAIN streams' -> [packets : Nat, last : Nat]]
      <3>1. CASE lost
        BY <1>1, <3>1 DEF MediaTypeOK
      <3>2. CASE ~lost
        BY <1>1, <1>4, <1>6, <3>2 DEF MediaTypeOK
      <3> QED BY <3>1, <3>2
    <2> QED BY <1>1, <2>1, <2>2 DEF MediaTypeOK
  <1>8. HeardOk'
    <2>1. \A k \in DOMAIN streams' : StreamOk(k)
      BY <1>1, <1>3, <1>4 DEF HeardOk
    <2>2. CASE lost
      <3>1. streams' = streams /\ heard' = heard
        BY <1>1, <2>2
      <3> QED BY <1>1, <1>5, <2>1, <3>1 DEF HeardOk, PacketsOf, ToServer, ToPhone
    <2>3. CASE ~lost
      <3>1. \A k : PacketsOf(k)' = IF k = key THEN PacketsOf(k) + 1 ELSE PacketsOf(k)
        BY <1>4, <2>3 DEF PacketsOf, Count
      <3>2. SUFFICES ASSUME NEW s \in 1..MaxSources
                     PROVE  /\ heard'["callee"][s] = PacketsOf(ToServer(s))'
                            /\ heard'["caller"][s] = PacketsOf(ToPhone(Observed, s))'
        BY <1>5, <2>1 DEF HeardOk
      <3>3. ToServer(s)' = ToServer(s) /\ ToPhone(Observed, s)' = ToPhone(Observed, s)
        BY <1>5 DEF ToServer, ToPhone
      <3>4. /\ heard["callee"][s] = PacketsOf(ToServer(s))
            /\ heard["caller"][s] = PacketsOf(ToPhone(Observed, s))
        BY DEF HeardOk
      <3>5. /\ key = ToServer(s) <=> p = "caller" /\ s = source[p]
            /\ key = ToPhone(Observed, s) <=> p = "callee" /\ reached /\ s = source[p]
        BY <1>2, <2>3 DEF ToServer, ToPhone, Parties, Destination
      <3>6. p = "caller" => reached
        BY <2>3 DEF Destination
      <3> QED BY <1>1, <1>2, <3>1, <3>3, <3>4, <3>5, <3>6 DEF MediaTypeOK, Parties, Other
    <2> QED BY <2>2, <2>3
  <1>9. LastsOk'
    <2>1. connected # None /\ told[p] = None /\ \A i \in DOMAIN hangups : hangups[i].side # p
      BY <1>1 DEF InCall, HungUp
    <2>2. CASE lost
      BY <1>1, <1>5, <2>2 DEF LastsOk
    <2>3. CASE ~lost
      <3>1. time \in Nat /\ time' = time /\ told' = told /\ connected' = connected /\ hangups' = hangups
        BY <1>1 DEF MediaTypeOK
      <3>2. SUFFICES ASSUME NEW k \in DOMAIN streams'
                     PROVE  /\ connected # None /\ streams'[k].last <= time
                            /\ told[Talker(k)] # None => streams'[k].last <= told[Talker(k)]
                            /\ \A i \in DOMAIN hangups :
                                  hangups[i].side = Talker(k) => streams'[k].last <= hangups[i].at
        BY <1>5, <3>1 DEF LastsOk
      <3>3. CASE k = key
        BY <1>3, <1>4, <1>6, <2>1, <2>3, <3>1, <3>3
      <3>4. CASE k # key
        BY <1>4, <2>3, <3>4 DEF LastsOk
      <3> QED BY <3>3, <3>4
    <2> QED BY <2>2, <2>3
  <1>10. HangupsOk' /\ DeadlineOk'
    BY <1>1 DEF HangupsOk, DeadlineOk, InCall, HungUp
  <1> QED BY <1>7, <1>8, <1>9, <1>10

\* Every step keeps the invariant.
LEMMA MediaNextInv == ASSUME MediaInv, [MediaNext]_mediaVars PROVE MediaInv'
  <1>1. ASSUME GiveUp
        PROVE  MediaInv'
    BY <1>1, LeaveInv DEF GiveUp, Parties
  <1>2. ASSUME NEW p \in Parties, Leave(p, FALSE)
        PROVE  MediaInv'
    BY <1>2, LeaveInv
  <1>3. CASE UNCHANGED mediaVars
    BY <1>3, ZenonT(30) DEF mediaVars, MediaInv, MediaTypeOK, HeardOk, PacketsOf, StreamOk, ToServer, ToPhone,
                Observed, Written, ServerAddress, LastsOk, Talker, HangupsOk, DeadlineOk, InCall, HungUp
  <1> QED BY <1>1, <1>2, <1>3, PickUpInv, TickInv, NewSourceInv, TellInv, TalkInv DEF MediaNext

\* The inductive invariant holds in every reachable state of a call and its media: the streams
\* of the capture are those of the two parties, and what each heard is in one of them.
THEOREM MediaInvariance == MediaSpec => []MediaInv
  <1>1. MediaInit => MediaInv
    BY MediaInitInv
  <1>2. MediaInv /\ [MediaNext]_mediaVars => MediaInv'
    BY MediaNextInv
  <1> QED BY <1>1, <1>2, PTL DEF MediaSpec

-----------------------------------------------------------------------------
(* One-way audio.                                                           *)

\* Both directions have a stream of some length when each party heard a source
\* that long.
LEMMA BothWaysHeard ==
  ASSUME MediaInv
  PROVE  BothWays(Packets(Substantial)) <=> \A p \in Parties : Hears(p)
  <1> USE CallMediaAssumption DEF MediaInv
  <1>1. Observed # ServerAddress /\ Written # ServerAddress
    BY Addresses
  <1>2. /\ Hears("callee") <=> \E s \in 1..MaxSources : ToServer(s) \in Packets(Substantial)
        /\ Hears("caller") <=> \E s \in 1..MaxSources : ToPhone(Observed, s) \in Packets(Substantial)
    <2>1. \A k : k \in Packets(Substantial) <=> PacketsOf(k) >= Substantial
      BY DEF Packets, PacketsOf
    <2> QED BY <2>1 DEF Hears, HeardOk
  <1>3. ASSUME \A p \in Parties : Hears(p)
        PROVE  BothWays(Packets(Substantial))
    <2>1. PICK s, t \in 1..MaxSources : /\ ToServer(s) \in Packets(Substantial)
                                        /\ ToPhone(Observed, t) \in Packets(Substantial)
      BY <1>2, <1>3 DEF Parties
    <2> QED BY <2>1 DEF BothWays, ToServer, ToPhone
  <1>4. ASSUME BothWays(Packets(Substantial))
        PROVE  \A p \in Parties : Hears(p)
    <2>1. PICK k, l \in Packets(Substantial) : k.src = l.dst /\ k.dst = l.src
      BY <1>4 DEF BothWays
    <2>2. StreamOk(k) /\ StreamOk(l)
      BY DEF HeardOk, Packets
    <2>3. PICK s, t \in 1..MaxSources :
              /\ k \in {ToServer(s), ToPhone(Written, s), ToPhone(Observed, s)}
              /\ l \in {ToServer(t), ToPhone(Written, t), ToPhone(Observed, t)}
      BY <2>2 DEF StreamOk
    <2>4. \/ k = ToServer(s) /\ l = ToPhone(Observed, t)
          \/ k = ToPhone(Observed, s) /\ l = ToServer(t)
      BY <1>1, <2>1, <2>3 DEF ToServer, ToPhone
    <2> QED BY <1>2, <2>4 DEF Parties
  <1> QED BY <1>3, <1>4

\* NAT shows in the phone's request, which carries what the phone wrote.
LEMMA HiddenOfNat ==
  ASSUME MediaInv, setting # "lan"
  PROVE  (\E m \in Messages : Hidden(m)) <=> setting = "nat"
  <1> DEFINE request == Signalled(TRUE, Written, Written, Observed)
  <1>1. request \in Messages
    BY DEF Messages
  <1>2. CASE setting = "nat"
    <2>1. Hidden(request)
      BY <1>2 DEF Hidden, Signalled, IsPrivate, Written, Observed
    <2> QED BY <1>1, <1>2, <2>1
  <1>3. CASE setting = "open"
    <2>1. Written = "public" /\ Observed = "public" /\ ServerAddress = "public server"
      BY <1>3 DEF Written, Observed, ServerAddress
    <2>2. Messages \subseteq {Signalled(TRUE, "public", "public", "public"),
                              Signalled(FALSE, "public", "public server", "public server"),
                              Signalled(TRUE, "public server", "public server", "public server")}
      BY <2>1, Zenon DEF Messages
    <2>3. ~Hidden(Signalled(TRUE, "public", "public", "public"))
      BY DEF Hidden, IsPrivate, Signalled
    <2>4. ~Hidden(Signalled(FALSE, "public", "public server", "public server"))
      BY DEF Hidden, IsPrivate, Signalled
    <2>5. ~Hidden(Signalled(TRUE, "public server", "public server", "public server"))
      BY DEF Hidden, IsPrivate, Signalled
    <2> QED BY <1>3, <2>2, <2>3, <2>4, <2>5
  <1> QED BY <1>2, <1>3 DEF MediaInv, MediaTypeOK

\* One-way audio is reported exactly when a party does not hear the other, and put
\* down to NAT exactly when the phone is behind one (ONE_WAY_AUDIO and
\* NAT_ONE_WAY_AUDIO of diagnose).
THEOREM OneWayIsFaithful == MediaSpec => []OneWayFaithful
  <1>1. ASSUME MediaInv
        PROVE  OneWayFaithful
    <2> DEFINE deaf == \E p \in Parties : ~Hears(p)
    <2>1. BothWays(Packets(Substantial)) <=> ~deaf
      BY <1>1, BothWaysHeard
    <2>2. \A n : Packets(n) # {} => connected # None
      BY <1>1 DEF Packets, MediaInv, LastsOk
    <2>3. Packets(Dominant) # {} => (OneWayAudio <=> deaf)
      BY <2>1, <2>2 DEF OneWayAudio
    <2>4. ASSUME setting # "lan", Packets(Substantial) # {}
          PROVE  NatOneWayAudio # {} <=> deaf /\ setting = "nat"
      <3>1. NatOneWay <=> deaf
        BY <2>1, <2>2, <2>4 DEF NatOneWay
      <3>2. NatOneWayAudio # {} <=> NatOneWay /\ \E m \in Messages : Hidden(m)
        BY DEF NatOneWayAudio
      <3> QED BY <1>1, <2>4, <3>1, <3>2, HiddenOfNat
    <2> QED BY <2>3, <2>4 DEF OneWayFaithful
  <1> QED BY <1>1, MediaInvariance, PTL

-----------------------------------------------------------------------------
(* The end of the call.                                                     *)

\* RTP that is too late for the first BYE is that of a party the BYE did not reach.
LEMMA LateTalker == ASSUME MediaInv, RtpAfterBye PROVE \E p \in Parties : NotReleased(p)
  <1> USE CallMediaAssumption DEF MediaInv
  <1>1. PICK k \in DOMAIN streams : streams[k].last - hangups[1].at >= AfterBye
    BY DEF RtpAfterBye
  <1>2. 1 \in DOMAIN hangups /\ hangups[1] \in ByeSet
    BY DEF RtpAfterBye, MediaTypeOK
  <1>3. streams[k].last \in Nat /\ hangups[1].at \in Nat /\ Talker(k) \in Parties
    BY <1>2 DEF MediaTypeOK, ByeSet, Talker, Parties
  <1>4. hangups[1].side # Talker(k)
    BY <1>1, <1>2, <1>3 DEF LastsOk
  <1>5. told[Talker(k)] = None \/ told[Talker(k)] - hangups[1].at >= AfterBye
    <2>1. told[Talker(k)] \in Nat \cup {None}
      BY <1>3 DEF MediaTypeOK
    <2>2. told[Talker(k)] # None => streams[k].last <= told[Talker(k)]
      BY DEF LastsOk
    <2> QED BY <1>1, <1>3, <2>1, <2>2
  <1> QED BY <1>3, <1>4, <1>5 DEF NotReleased, RtpAfterBye

\* A packet that a stream gets now is late when any BYE is old enough: the first is
\* older still.
LEMMA LateIsReported ==
  ASSUME MediaInv, [MediaNext]_mediaVars, streams' # streams,
         NEW i \in DOMAIN hangups, time - hangups[i].at >= AfterBye
  PROVE  RtpAfterBye'
  <1> USE CallMediaAssumption DEF MediaInv
  <1>1. PICK p \in Parties : Talk(p)
    BY DEF MediaNext, mediaVars, PickUp, GiveUp, Leave, Tick, NewSource, Tell
  <1>2. /\ hangups' = hangups
        /\ \E k \in DOMAIN streams' : streams'[k].last = time
    BY <1>1 DEF Talk, Count
  <1>3. hangups # <<>> /\ hangups[i].at \in Nat /\ hangups[1].at \in Nat /\ time \in Nat
    <2>1. 1 \in DOMAIN hangups /\ hangups[1] \in ByeSet /\ hangups[i] \in ByeSet
      BY DEF MediaTypeOK
    <2>2. time \in Nat
      BY DEF MediaTypeOK
    <2> QED BY <2>1, <2>2 DEF ByeSet
  <1>4. hangups[1].at <= hangups[i].at
    BY DEF HangupsOk
  <1>5. time - hangups[1].at >= AfterBye
    BY <1>3, <1>4
  <1> QED BY <1>2, <1>3, <1>5 DEF RtpAfterBye

\* RTP after the BYE is reported only of calls with a party that the BYE did not
\* reach in time, and as soon as such a party talks (RTP_AFTER_BYE).
THEOREM ReleaseIsFaithful == MediaSpec => ReleaseFaithful
  <1>1. MediaInv => (RtpAfterBye => \E p \in Parties : NotReleased(p))
    BY LateTalker
  <1>2. MediaInv /\ [MediaNext]_mediaVars =>
            [streams' # streams /\ (\E b \in {hangups[i] : i \in DOMAIN hangups} : time - b.at >= AfterBye)
                => RtpAfterBye']_mediaVars
    BY LateIsReported
  <1> QED BY <1>1, <1>2, MediaInvariance, PTL DEF MediaSpec, ReleaseFaithful

\* A call that the callee gave up for want of an ACK is reported as dropped; one that
\* the caller ended, its ACK received, is not (SIP_DROP_32S).
THEOREM DropIsFaithful == MediaSpec => []DropFaithful
  <1>1. ASSUME MediaInv
        PROVE  DropFaithful
    <2> USE CallMediaAssumption DEF MediaInv
    <2> SUFFICES ASSUME hangups # <<>>
                 PROVE  /\ hangups[1].dropped => SipDrop32s
                        /\ hangups[1].side = "caller" /\ ack = "received" => ~SipDrop32s
      BY DEF DropFaithful
    <2>1. 1 \in DOMAIN hangups /\ hangups[1] \in ByeSet
      BY <1>1 DEF MediaTypeOK
    <2>2. connected # None /\ connected \in Nat
      BY <1>1, <2>1 DEF HangupsOk, MediaTypeOK
    <2>3. hangups[1].dropped => hangups[1].side = "callee" /\ hangups[1].at - connected = TimerH
      BY <1>1, <2>1, <2>2 DEF HangupsOk
    <2>4. hangups[1].dropped => SipDrop32s
      BY <2>2, <2>3 DEF SipDrop32s
    <2>5. hangups[1].side = "caller" /\ ack = "received" => ~SipDrop32s
      BY DEF SipDrop32s, MissingAck
    <2> QED BY <2>4, <2>5
  <1> QED BY <1>1, MediaInvariance, PTL
=============================================================================
