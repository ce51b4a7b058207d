----------------------------- MODULE SipSecurity -----------------------------
(***************************************************************************)
(* analyze_sip_security, security.py, and the findings on registrations of *)
(* diagnostics.py, which leave out the sources that it calls attackers,    *)
(* over the transactions of a capture as they come about.                  *)
(*                                                                         *)
(* Who sends requests and how they are answered is external.  The rate of  *)
(* requests is left out: it is no reason to suppress a finding.            *)
(***************************************************************************)
EXTENDS Integers, FiniteSets, Sequences

CONSTANTS Messages,       \* records: src, method, to, credentials, lifetime, host, scanner
          Statuses,       \* Statuses[method]: its final responses
          International,  \* numbers of other countries
          MaxRequests,    \* bound: requests in the capture
          Guesses,        \* th.brute_force_failures
          Enumerated,     \* th.enumeration_distinct_users
          Scanned,        \* th.scan_distinct_targets
          Swept,          \* th.options_sweep_hosts
          Fraud,          \* th.toll_fraud_destinations
          Several         \* 3: more registrations of one source are one finding

ASSUME SecurityAssumption ==
    /\ MaxRequests \in Nat /\ Several \in Nat
    /\ \A m \in Messages : Statuses[m.method] \subseteq 200..699
    /\ {Guesses, Enumerated, Scanned, Swept, Fraud} \subseteq Nat \ {0}

VARIABLE txs  \* transactions in order of their requests: [request, status], 0 for none

Init == txs = <<>>

Send ==
    /\ Len(txs) < MaxRequests
    /\ \E r \in Messages : txs' = Append(txs, [request |-> r, status |-> 0])

\* The first final response counts; responses may overtake each other.
Answer ==
    \E i \in DOMAIN txs :
        /\ txs[i].status = 0
        /\ \E status \in Statuses[txs[i].request.method] :
              txs' = [txs EXCEPT ![i] = [request |-> @.request, status |-> status]]

Next == Send \/ Answer

Spec == Init /\ [][Next]_txs

-----------------------------------------------------------------------------
(* analyze_sip_security.                                                   *)

Sources == {txs[i].request.src : i \in DOMAIN txs}

Of(src, methods) ==
    {i \in DOMAIN txs : txs[i].request.src = src /\ txs[i].request.method \in methods}

Callees(T) == {txs[i].request.to : i \in T}

\* Wrong on purpose: an accepted request clears the failures before it.
FailedAuthSince(src) ==
    {i \in Of(src, {"REGISTER", "INVITE"}) :
        /\ txs[i].status \in {401, 403, 407}
        /\ txs[i].request.credentials \/ (txs[i].status = 403 /\ txs[i].request.method = "REGISTER")
        /\ \A j \in Of(src, {"REGISTER"}) : j > i => txs[j].status # 200}

\* Credentials refused, or any REGISTER forbidden.
FailedAuth(src) ==
    {i \in Of(src, {"REGISTER", "INVITE"}) :
        /\ txs[i].status \in {401, 403, 407}
        /\ txs[i].request.credentials \/ (txs[i].status = 403 /\ txs[i].request.method = "REGISTER")}

NotFound(src) ==
    Callees({i \in Of(src, {"REGISTER", "INVITE"}) : txs[i].status \in {403, 404, 604}})

Abroad(src) == {i \in Of(src, {"INVITE"}) : txs[i].request.to \in International}

Scanner(src) == \E i \in DOMAIN txs : txs[i].request.src = src /\ txs[i].request.scanner

Hosts(src) == {txs[i].request.host : i \in Of(src, {"OPTIONS"})}

Alert(condition, type, severity, src) ==
    IF condition THEN {[type |-> type, severity |-> severity, src |-> src]} ELSE {}

\* Fraud is critical once one of the calls abroad was answered.
AlertsOf(src) ==
    Alert(Scanner(src), "scanner", "critical", src)
    \cup Alert(Cardinality(FailedAuth(src)) >= Guesses, "brute_force", "critical", src)
    \cup Alert(Cardinality(NotFound(src)) >= Enumerated, "enumeration", "warning", src)
    \cup Alert(Cardinality(Callees(Of(src, {"INVITE", "REGISTER", "OPTIONS"}))) >= Scanned,
               "scan", "warning", src)
    \cup Alert(Cardinality(Hosts(src)) >= Swept, "options_sweep", "warning", src)
    \cup Alert(Cardinality(Callees(Abroad(src))) >= Fraud, "toll_fraud",
               IF \E i \in Abroad(src) : txs[i].status = 200 THEN "critical" ELSE "warning", src)

Alerts == UNION {AlertsOf(src) : src \in Sources}

-----------------------------------------------------------------------------
(* analyze_registrations and the findings of diagnose.                     *)

Registrations == {[src |-> txs[i].request.src, aor |-> txs[i].request.to] :
                     i \in {j \in DOMAIN txs : txs[j].request.method = "REGISTER"}}

Attempts(r) == {i \in Of(r.src, {"REGISTER"}) : txs[i].request.to = r.aor}

\* By the last answered request.
State(r) ==
    LET finals == {i \in Attempts(r) : txs[i].status # 0}
        last == txs[CHOOSE i \in finals : \A j \in finals : j <= i]
    IN IF finals = {} THEN "no_response"
       ELSE IF last.status \notin 200..299 THEN "failed"
       ELSE IF last.request.lifetime > 0 THEN "registered" ELSE "unregistered"

Refused(r) == {i \in Attempts(r) : txs[i].request.credentials /\ txs[i].status \in {401, 403, 407}}

\* Wrong on purpose: any alert makes its source an attacker.
AttackersAll == {a.src : a \in Alerts}

Attackers == {a.src : a \in {b \in Alerts : b.type \in {"brute_force", "scanner", "enumeration"}}}

Failed(src) == {r \in Registrations : r.src = src /\ State(r) \in {"failed", "no_response"}}

Finding(code, severity, registrations) ==
    [code |-> code, severity |-> severity, registrations |-> registrations]

\* What is said of one failed registration.
OwnFinding(r) ==
    IF State(r) = "no_response" THEN Finding("REGISTER_NO_RESPONSE", "critical", {r})
    ELSE Finding("REGISTER_FAILED", IF Refused(r) # {} THEN "critical" ELSE "warning", {r})

FindingsOf(src) ==
    IF Cardinality(Failed(src)) > Several THEN {Finding("REGISTER_FAILED", "critical", Failed(src))}
    ELSE {OwnFinding(r) : r \in Failed(src)}

RegisterFindings == UNION {FindingsOf(src) : src \in Sources \ Attackers}

-----------------------------------------------------------------------------
(* Properties.                                                             *)

\* An alert stays while the capture goes on and is not played down: neither a
\* success after refused passwords nor an answer that comes late takes it back
\* (the accumulators of analyze_sip_security).
AlertsStay ==
    [][\A a \in Alerts : \E b \in Alerts' :
          b.src = a.src /\ b.type = a.type /\ (a.severity = "critical" => b.severity = "critical")]_txs

\* A registration is in exactly one finding while its last answered attempt was
\* refused or none was answered, whatever the order of the answers, and a
\* refused password is critical; only an attack of the source by guessing, told
\* by an alert, takes the place of the finding.  A registration that stands, or
\* was removed, is in none (attackers and failed_by_src in diagnose).
RegistrationsReported ==
    \A r \in Registrations :
        LET findings == {f \in RegisterFindings : r \in f.registrations}
            attacked == \E a \in Alerts : a.src = r.src /\ a.type \in {"brute_force", "scanner", "enumeration"}
            accepted == \E i \in Attempts(r) :
                            /\ txs[i].status \in 200..299
                            /\ \A j \in Attempts(r) : j > i => txs[j].status \in {0} \cup 200..299
        IN IF accepted \/ attacked THEN findings = {}
           ELSE /\ Cardinality(findings) = 1
                /\ Refused(r) # {} => \A f \in findings : f.severity = "critical"
=============================================================================
