------------------------------ MODULE Outcomes ------------------------------
(***************************************************************************)
(* How a call is classified, shared by what is reported of one call        *)
(* (SipCall, CallReport) and of all of them (CallKpis): classify_outcome   *)
(* of sip.py and OUTCOME_SEVERITY of diagnostics.py.                       *)
(***************************************************************************)
EXTENDS Integers

StatusesOf ==
    [busy |-> {486, 600}, no_answer |-> {480}, timeout |-> {408},
     not_found |-> {404, 410, 484, 604}, auth_failed |-> {401, 407}, rejected |-> {403, 603},
     media_negotiation_failed |-> {415, 488, 606}, cancelled |-> {487}]

\* The outcome of a final status that is no success.
OutcomeOf(status) ==
    IF \E o \in DOMAIN StatusesOf : status \in StatusesOf[o]
    THEN CHOOSE o \in DOMAIN StatusesOf : status \in StatusesOf[o]
    ELSE IF status \in 300..399 THEN "redirected"
    ELSE IF status \in 500..599 THEN "server_error"
    ELSE IF status \in 400..499 THEN "client_error"
    ELSE IF status >= 600 THEN "global_failure" ELSE "unknown"

\* status is 0 as long as nothing final was seen.
ClassifyOutcome(status, connected, cancelled, heard) ==
    IF connected THEN "answered"
    ELSE IF ~heard THEN "no_response"
    ELSE IF status = 0 THEN (IF cancelled THEN "cancelled" ELSE "in_progress")
    ELSE IF cancelled /\ status \in {487, 200} THEN "cancelled"
    ELSE OutcomeOf(status)

\* Outcomes that are reported as a failure, by how grave they are.
OutcomeSeverity ==
    [critical |-> {"no_response", "server_error", "timeout", "media_negotiation_failed"},
     warning  |-> {"auth_failed", "not_found", "rejected", "client_error", "global_failure"},
     info     |-> {"busy", "no_answer", "redirected"}]
=============================================================================
