------------------------------ MODULE CallKpis ------------------------------
(***************************************************************************)
(* The call figures of kpi.py (RFC 6076, ITU-T E.411) and the failures of  *)
(* diagnostics.py, over the calls of a capture as they come about: what    *)
(* build_calls knows of each is its final status, whether it was answered, *)
(* cancelled, or heard of at all.                                          *)
(***************************************************************************)
EXTENDS Outcomes, FiniteSets, Sequences

CONSTANTS Peers, Destinations,
          Statuses,  \* final statuses, 200 for an answer
          MaxCalls   \* bound: calls in the capture

ASSUME KpiAssumption == Statuses \subseteq 200..699 /\ MaxCalls \in Nat

VARIABLE calls

\* seen: whether a 2xx, a CANCEL, any response to the INVITE was captured.
CallSet == [peer : Peers, to : Destinations, status : {0} \cup Statuses,
            seen : SUBSET {"answer", "cancel", "response"}]

Init == calls = <<>>

Attempt ==
    /\ Len(calls) < MaxCalls
    /\ \E peer \in Peers, to \in Destinations :
          calls' = Append(calls, [peer |-> peer, to |-> to, status |-> 0, seen |-> {}])

Connected(i) == "answer" \in calls[i].seen

Provisional(i) == calls' = [calls EXCEPT ![i].seen = @ \cup {"response"}]

\* A CANCEL may cross a final response.
CancelCall(i) == calls' = [calls EXCEPT ![i].seen = @ \cup {"cancel"}]

Heard(status) == {"response"} \cup (IF status \in 200..299 THEN {"answer"} ELSE {})

\* Wrong on purpose: the last final response is the result, also after an answer.
AfterLast(c, status) == [c EXCEPT !.seen = @ \cup Heard(status), !.status = status]

\* A call after a final response: its answer is the result, else the last of them.
After(c, status) ==
    [c EXCEPT !.seen = @ \cup Heard(status),
              !.status = IF "answer" \in c.seen THEN @ ELSE status]

\* A final response to the last INVITE, perhaps of another fork.
Respond(i, status) == calls' = [calls EXCEPT ![i] = After(calls[i], status)]

\* A new INVITE after a challenge: only the responses to it count.
RetryCall(i) ==
    /\ ~Connected(i) /\ calls[i].status \in {401, 407}
    /\ calls' = [calls EXCEPT ![i].status = 0]

Next ==
    \/ Attempt
    \/ \E i \in 1..Len(calls) :
          Provisional(i) \/ CancelCall(i) \/ RetryCall(i) \/ \E status \in Statuses : Respond(i, status)

Spec == Init /\ [][Next]_calls

-----------------------------------------------------------------------------
(* _call_kpis: which calls each figure counts.                             *)

Calls == 1..Len(calls)
OutcomeOfCall(i) ==
    ClassifyOutcome(calls[i].status, Connected(i), "cancel" \in calls[i].seen,
                    "response" \in calls[i].seen)

AnsweredCalls == {i \in Calls : Connected(i)}
Redirected == {i \in Calls : calls[i].status \in 300..399}
SeerEffective == {480, 486, 600, 603}
Effective == {i \in Calls : Connected(i) \/ calls[i].status \in SeerEffective}
NerOk == {i \in Calls : \/ Connected(i)
                        \/ OutcomeOfCall(i) \in {"busy", "no_answer", "rejected", "cancelled"}}
Ineffective == {i \in Calls : OutcomeOfCall(i) \in {"server_error", "timeout", "no_response"}}

\* _by_peer and _failing_destinations, before the list is cut to 20 rows.
OfPeer(peer) == {i \in Calls : calls[i].peer = peer}

\* Wrong on purpose: a call that is still ringing has failed.
FailingInProgress(to) ==
    {i \in Calls : calls[i].to = to /\ ~Connected(i) /\ OutcomeOfCall(i) # "cancelled"}

Failing(to) ==
    {i \in Calls : calls[i].to = to /\ ~Connected(i)
                   /\ OutcomeOfCall(i) \notin {"cancelled", "in_progress"}}

\* Calls with SIP_FINAL_FAILURE or SIP_NO_RESPONSE, diagnostics.py.
Diagnosed == {i \in Calls : \E s \in DOMAIN OutcomeSeverity : OutcomeOfCall(i) \in OutcomeSeverity[s]}

-----------------------------------------------------------------------------
(* Properties.                                                             *)

\* The ratios keep their order, over all calls and for each peer: SER <= SEER
\* <= 100 %, with the redirected calls out of both, ASR <= NER, and NER and ISA
\* do not count a call twice (RFC 6076 and E.411 define them by separate lists
\* of statuses and outcomes, which _call_kpis has to keep consistent, also for
\* calls with several final responses).
RatiosOrdered ==
    \A S \in {Calls} \cup {OfPeer(p) : p \in Peers} :
        LET count(T) == Cardinality(S \cap T) IN
        /\ count(AnsweredCalls) <= count(Effective)
        /\ count(Effective) <= Cardinality(S) - count(Redirected)
        /\ count(Effective) <= count(NerOk)
        /\ count(NerOk) + count(Ineffective) <= Cardinality(S)

\* The dashboard and the diagnoses tell the same failures: a call is listed
\* under its destination exactly when it raises a finding, and the rest were
\* answered, cancelled or are not over (_failing_destinations, OUTCOME_SEVERITY
\* and the rule on no_response).
FailuresAgree ==
    /\ UNION {Failing(to) : to \in Destinations} = Diagnosed
    /\ \A i \in Calls \ (AnsweredCalls \cup Diagnosed) : OutcomeOfCall(i) \in {"cancelled", "in_progress"}
    /\ AnsweredCalls \cap Diagnosed = {}
=============================================================================
