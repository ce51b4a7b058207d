----------------------------- MODULE CallReport -----------------------------
(***************************************************************************)
(* _call_rules of diagnostics.py on the signalling of one call, over the   *)
(* calls of SipSignalling: which findings a call raises, and how grave     *)
(* they are.  Time is the place in the capture.  The rules on the length   *)
(* and the media of an answered call are in CallMedia.                     *)
(***************************************************************************)
EXTENDS SipSignalling

CONSTANTS LongWait,             \* seconds without response that are critical: 32
          AuthLoop,             \* th.auth_challenge_loop
          ManyRetransmissions,  \* th.retransmissions_warning
          PddWarning, PddCritical  \* th.pdd_warning_ms, th.pdd_critical_ms

ASSUME ReportAssumption ==
    /\ LongWait \in Nat \ {0} /\ AuthLoop \in Nat \ {0} /\ ManyRetransmissions \in Nat \ {0}
    /\ PddWarning \in Nat /\ PddCritical \in Nat /\ PddWarning <= PddCritical

Started(ms) == First(ms, InitialInvites(ms)).at

\* Wrong on purpose: 100 Trying is progress.
ProgressTrying(ms) == {i \in InviteResponses(ms) : ms[i].status >= 100}

\* What ends the post-dial delay: responses above 100, to any attempt.
Progress(ms) == {i \in InviteResponses(ms) : ms[i].status > 100}
Pdd(ms) == First(ms, Progress(ms)).at - Started(ms)

Finding(raised, severity, code) ==
    IF raised THEN {[severity |-> severity, code |-> code]} ELSE {}

\* What happened to an established call; no trouble by itself.
EventRules(ms) ==
    Finding(HoldEvents(ms) # <<>>, "info", "SIP_HOLD")
    \cup Finding(Transfers(ms) # {}, "info", "SIP_TRANSFER")

\* The findings on a call in a capture that ends at the given time.
CallRules(ms, end) ==
    LET outcome == Outcome(ms)
        failure == UNION {Finding(outcome \in OutcomeSeverity[s] \ {"no_response"}, s, "SIP_FINAL_FAILURE") :
                              s \in DOMAIN OutcomeSeverity}
        late == Progress(ms) # {} /\ Pdd(ms) >= PddWarning IN
    failure
    \cup Finding(InviteResponses(ms) = {},
                 IF end - Started(ms) >= LongWait THEN "critical" ELSE "warning", "SIP_NO_RESPONSE")
    \cup Finding(MissingAckDialogs(ms) # {}, "critical", "SIP_MISSING_ACK")
    \cup Finding(Forked(ms), "info", "SIP_FORKED_ANSWER")
    \cup Finding(AuthChallenges(ms) >= AuthLoop, "warning", "SIP_AUTH_LOOP")
    \cup Finding(Retransmissions(ms) >= ManyRetransmissions, "warning", "SIP_RETRANSMISSIONS")
    \cup Finding(late, IF Pdd(ms) >= PddCritical THEN "critical" ELSE "warning", "SIP_HIGH_PDD")
    \cup Finding(Answered(ms) /\ ~TerminationObserved(ms), "info", "SIP_TERMINATION_NOT_SEEN")
    \cup EventRules(ms)

-----------------------------------------------------------------------------
(* Properties.                                                             *)

\* What the callees let the caller know of the progress of the call, by more than
\* 100 Trying; to be challenged is no progress.
Progressed ==
    {i \in 1..Len(msgs) : /\ msgs[i].by = "callee" /\ msgs[i].method = "INVITE"
                          /\ msgs[i].status > 100 /\ msgs[i].status # 401}
Unchallenged == \A i \in 1..Len(msgs) : msgs[i].status # 401

\* How long the caller waited for it, in a capture that ends at the given time.
Waited(end) == (IF Progressed = {} THEN end ELSE Min(Progressed)) - 1
Silent == \A i \in 1..Len(msgs) : msgs[i].status = 0 \/ msgs[i].method # "INVITE"

\* The challenges that the caller answered by another attempt.
Loops == IF phase = "challenged" THEN challenges - 1 ELSE challenges

\* The trouble the call had, when the capture ends at the given time.
Trouble(end) ==
    Finding(phase = "challenged", "warning", "SIP_FINAL_FAILURE")
    \cup Finding(Silent, IF end > LongWait THEN "critical" ELSE "warning", "SIP_NO_RESPONSE")
    \cup Finding(ToSet(answers) \ acked # {}, "critical", "SIP_MISSING_ACK")
    \cup Finding(repeats >= ManyRetransmissions, "warning", "SIP_RETRANSMISSIONS")
    \cup Finding(Unchallenged /\ Progressed # {} /\ Waited(end) >= PddWarning,
                 IF Waited(end) >= PddCritical THEN "critical" ELSE "warning", "SIP_HIGH_PDD")

\* Findings that alarm, without two that cannot be told exactly: a loop of
\* challenges counts those that were sent again, and a challenge ends the
\* post-dial delay of the code before the call has made any progress.
Alarms(findings) ==
    {f \in findings : /\ f.severity # "info" /\ f.code # "SIP_AUTH_LOOP"
                      /\ f.code = "SIP_HIGH_PDD" => Unchallenged}

\* The findings tell the trouble the call had and no other, each with its
\* severity: an attempt that failed is explained once, a call that was answered,
\* given up or still rings is no failure, and what was repeated, challenged or
\* delayed is reported from the threshold on (_call_rules).  A challenge that was
\* sent again may count twice towards a loop.  The delay is claimed for calls that
\* were not challenged; of the others, only that no delay is reported that the
\* caller did not wait for, as pdd_ms then runs to the challenge and not to the
\* first progress that the finding speaks of.
DiagnosisFaithful ==
    \A end \in {Len(msgs)} \cup (IF Silent THEN {Len(msgs) + LongWait} ELSE {}) :
        LET findings == CallRules(msgs, end)
            codes == {f.code : f \in findings \ Alarms(findings)} IN
        /\ Alarms(findings) = Trouble(end)
        /\ Loops >= AuthLoop => "SIP_AUTH_LOOP" \in codes
        /\ "SIP_AUTH_LOOP" \in codes => Loops + repeats >= AuthLoop
        /\ "SIP_HIGH_PDD" \in codes => ~Unchallenged /\ Waited(end) >= PddWarning
        /\ "SIP_FINAL_FAILURE" \in codes <=> phase = "486"
        /\ "SIP_TERMINATION_NOT_SEEN" \in codes <=> answers # <<>> /\ byes = <<>>
        /\ "SIP_HOLD" \in codes <=> Contains(offered, "hold")
        /\ "SIP_TRANSFER" \in codes <=> refers # {}
=============================================================================
