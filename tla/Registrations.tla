---------------------------- MODULE Registrations ---------------------------
(***************************************************************************)
(* request_transactions and analyze_registrations, registrations.py, and   *)
(* the credential attacks of security.py, over the REGISTER requests of    *)
(* one user agent that reach its registrar through a proxy.  A capture     *)
(* taken at the proxy sees both hops: on each the request has the same     *)
(* Call-ID and CSeq, and a branch of its own.                              *)
(*                                                                         *)
(* The user agent, the proxy and the registrar are external.  Messages may *)
(* be lost, sent again and delivered late; the capture may miss some.      *)
(***************************************************************************)
EXTENDS Absence, Integers, FiniteSets, Sequences, FiniteSetsExt

CONSTANTS Lifetimes,     \* what a request may ask for, in seconds; 0 removes the binding
          MaxRegisters,  \* bound: requests of the user agent
          MaxEvents,     \* bound: requests, messages sent again and messages that the
                         \* capture misses, together
          Failures       \* th.brute_force_failures

\* What the registrar may answer, and whether it refused the password or the nonce.
VerdictSet == [status : {200, 401, 403}, refused : BOOLEAN, stale : BOOLEAN]

ASSUME RegistrationAssumption ==
    /\ MaxRegisters \in Nat /\ MaxEvents \in Nat
    /\ Failures \in Nat \ {0} /\ Lifetimes \subseteq Nat
    /\ None \notin Nat /\ None \notin VerdictSet

Hops == 1..2

VARIABLES requests,  \* requests[n]: what the user agent asked with CSeq n
          waiting,   \* the last of them is not over for the user agent
          verdicts,  \* verdicts[n]: what the registrar made of it
          net,       \* messages that may still be delivered
          capture,   \* messages, in order
          repeats,   \* messages sent again so far
          missed     \* messages that the capture missed

registrationVars == <<requests, waiting, verdicts, net, capture, repeats, missed>>

Request(hop, n) == [kind |-> "request", hop |-> hop, cseq |-> n, status |-> 0]
Response(hop, n, status) == [kind |-> "response", hop |-> hop, cseq |-> n, status |-> status]
Newest == Len(requests)

RegistrationInit ==
    /\ requests = <<>> /\ waiting = FALSE /\ verdicts = <<>>
    /\ net = {} /\ capture = <<>> /\ repeats = 0 /\ missed = 0

Transmit(m) ==
    /\ net' = net \cup {m}
    /\ \/ m \notin net /\ repeats' = repeats
       \/ m \in net /\ repeats' = repeats + 1
    /\ \/ capture' = Append(capture, m) /\ missed' = missed
       \/ missed' = missed + 1 /\ capture' = capture
    /\ Len(requests') + repeats' + missed' <= MaxEvents

-----------------------------------------------------------------------------
(* The user agent: one request at a time, RFC 3261 section 10.2.           *)

Issue(request) ==
    /\ Newest < MaxRegisters
    /\ requests' = Append(requests, request)
    /\ verdicts' = Append(verdicts, None)
    /\ waiting' = TRUE
    /\ Transmit(Request(1, Newest + 1))

\* A registration, a refresh or a removal; with credentials once a challenge
\* gave it a nonce.
Register ==
    /\ ~waiting
    /\ \E lifetime \in Lifetimes, credentials \in BOOLEAN :
          /\ credentials => \E n \in 1..Newest : requests[n].credentials
          /\ Issue([credentials |-> credentials, lifetime |-> lifetime])

\* The answer to a challenge: the same request with credentials.
Authenticate ==
    /\ waiting /\ Response(1, Newest, 401) \in net
    /\ requests[Newest].credentials => verdicts[Newest].stale
    /\ Issue([requests[Newest] EXCEPT !.credentials = TRUE])

Resend ==
    /\ waiting
    /\ UNCHANGED <<requests, waiting, verdicts>>
    /\ Transmit(Request(1, Newest))

Finish ==
    /\ waiting
    /\ \E status \in {200, 401, 403} : Response(1, Newest, status) \in net
    /\ waiting' = FALSE
    /\ UNCHANGED <<requests, verdicts, net, capture, repeats, missed>>

\* Timer F outlives every message of the transaction.
GiveUp ==
    /\ waiting
    /\ \A status \in {200, 401, 403} : Response(1, Newest, status) \notin net
    /\ waiting' = FALSE
    /\ net' = {m \in net : m.cseq # Newest}
    /\ UNCHANGED <<requests, verdicts, capture, repeats, missed>>

-----------------------------------------------------------------------------
(* The proxy and the registrar.                                            *)

Forward ==
    /\ UNCHANGED <<requests, waiting, verdicts>>
    /\ \E n \in 1..Newest : Request(1, n) \in net /\ Transmit(Request(2, n))

Relay ==
    /\ UNCHANGED <<requests, waiting, verdicts>>
    /\ \E n \in 1..Newest, status \in {200, 401, 403} :
          Response(2, n, status) \in net /\ Transmit(Response(1, n, status))

Verdict(status, refused, stale) == [status |-> status, refused |-> refused, stale |-> stale]

\* What the registrar may decide: anybody may be forbidden, a challenge is for
\* those who sent no credentials, the others have their password verified,
\* unless their nonce has aged (stale=true in the challenge).
Verdicts(request) ==
    IF request.credentials
    THEN {Verdict(403, TRUE, FALSE), Verdict(200, FALSE, FALSE),
          Verdict(401, TRUE, FALSE), Verdict(401, FALSE, TRUE)}
    ELSE {Verdict(403, FALSE, FALSE), Verdict(401, FALSE, FALSE)}

\* A request that it knows gets the same response.
Decide ==
    /\ UNCHANGED <<requests, waiting>>
    /\ \E n \in 1..Newest :
          /\ Request(2, n) \in net
          /\ \E v \in IF verdicts[n] = None THEN Verdicts(requests[n]) ELSE {verdicts[n]} :
                verdicts' = [verdicts EXCEPT ![n] = v] /\ Transmit(Response(2, n, v.status))

RegistrationNext ==
    \/ Register \/ Authenticate \/ Resend \/ Finish \/ GiveUp
    \/ Forward \/ Relay \/ Decide

RegistrationSpec == RegistrationInit /\ [][RegistrationNext]_registrationVars

-----------------------------------------------------------------------------
(* request_transactions.                                                   *)

\* The copies of a request on one hop, which is one source address.
Copies(hop, n) == {i \in DOMAIN capture : capture[i] = Request(hop, n)}

\* They are one transaction, whose place is that of the first.
Transactions(hop) == {n \in 1..Newest : Copies(hop, n) # {}}
NotAfter(hop, m, n) == Min(Copies(hop, m)) <= Min(Copies(hop, n))

\* Wrong on purpose: the CSeq is not looked at.
AnsweredByBranch(r, hop, n) == r.kind = "response" /\ r.hop = hop

\* A response belongs to the request of its branch, or else to the first with
\* its CSeq that was captured.
AnsweredBy(r, hop, n) ==
    /\ r.kind = "response" /\ r.cseq = n
    /\ r.hop = hop \/ Copies(r.hop, n) = {}

Answers(hop, n) == {i \in DOMAIN capture : AnsweredBy(capture[i], hop, n)}

FinalStatus(hop, n) ==
    LET answers == Answers(hop, n)
    IN IF answers = {} THEN None ELSE capture[Min(answers)].status

-----------------------------------------------------------------------------
(* analyze_registrations and the credential attacks.                       *)

Finals(hop) == {n \in Transactions(hop) : FinalStatus(hop, n) # None}

Challenges(hop) == Cardinality({n \in Transactions(hop) : FinalStatus(hop, n) = 401})

\* Wrong on purpose: whoever is challenged had the password refused.
CredentialRejectionsAll(hop) ==
    Cardinality({n \in Transactions(hop) : FinalStatus(hop, n) \in {401, 403}})

CredentialRejections(hop) ==
    Cardinality({n \in Transactions(hop) :
                    requests[n].credentials /\ FinalStatus(hop, n) \in {401, 403}})

\* Wrong on purpose: one success is enough, whatever came after it.
StateOnce(hop) ==
    IF \E n \in Finals(hop) : FinalStatus(hop, n) = 200 THEN "registered"
    ELSE IF Finals(hop) = {} THEN "no_response" ELSE "failed"

\* The state is what the last transaction that has a final response says.
AorState(hop) ==
    LET finals == Finals(hop)
        last == CHOOSE n \in finals : \A m \in finals : NotAfter(hop, m, n)
    IN IF finals = {} THEN "no_response"
       ELSE IF FinalStatus(hop, last) # 200 THEN "failed"
       ELSE IF requests[last].lifetime > 0 THEN "registered" ELSE "unregistered"

NoResponse(hop) == Cardinality(Transactions(hop) \ Finals(hop))

\* failed_auth: credentials refused, or any REGISTER forbidden.
BruteForce(hop) ==
    Cardinality({n \in Transactions(hop) :
                    LET status == FinalStatus(hop, n)
                    IN (requests[n].credentials /\ status = 401) \/ status = 403}) >= Failures

-----------------------------------------------------------------------------
(* Properties.                                                             *)

Complete == missed = 0

\* What the registrar answered that has crossed the hop.
Crossed(hop) == {n \in 1..Newest : \E i \in DOMAIN capture :
                    capture[i].kind = "response" /\ capture[i].hop = hop /\ capture[i].cseq = n}

\* When the newest request of the user agent has been accepted and the answer
\* was captured, the state of the AOR is the registrar's own: bound or removed,
\* whatever was sent again, given up or refused before it.
StateFaithful ==
    \A h \in Hops : Complete /\ Newest \in Crossed(h) /\ verdicts[Newest].status = 200 =>
        AorState(h) = IF requests[Newest].lifetime > 0 THEN "registered" ELSE "unregistered"

\* A registration that is reported has happened: where the registrar accepted no
\* request for one, no hop says that there is one, also when the capture missed
\* messages of either.
RegisteredMeansAccepted ==
    (\A n \in 1..Newest : \/ verdicts[n] = None \/ verdicts[n].status # 200
                         \/ requests[n].lifetime = 0)
    => \A h \in Hops : AorState(h) # "registered"

\* The counters of a hop are what happened there: each request counts once,
\* those without an answer are the ones whose answer has not crossed it, the
\* challenges those whose challenge has.  Credentials are rejected as often as the
\* registrar refused the password, and brute force is reported exactly when that
\* many requests were refused for good: a user agent that is challenged, resends
\* and authenticates is never one.  (analyze_registrations and
\* analyze_sip_security; a challenge for an aged nonce looks like a refusal to
\* both, so this leaves out captures that have one.)
CountsFaithful ==
    Complete => \A h \in Hops :
        LET refused == {n \in Crossed(h) : verdicts[n].refused} IN
        /\ h = 1 => Cardinality(Transactions(h)) = Newest
        /\ NoResponse(h) = Cardinality(Transactions(h) \ Crossed(h))
        /\ Challenges(h) = Cardinality({n \in Crossed(h) : verdicts[n].status = 401})
        /\ (\A n \in Crossed(h) : ~verdicts[n].stale) =>
              /\ CredentialRejections(h) = Cardinality(refused)
              /\ BruteForce(h) <=> Cardinality(refused \cup
                     {n \in Crossed(h) : verdicts[n].status = 403}) >= Failures
=============================================================================
