------------------------------ MODULE SipCall ------------------------------
(***************************************************************************)
(* build_calls of sip.py: what is reported about one call (one Call-ID),   *)
(* as operators on the sequence of its messages in capture order.  A list  *)
(* of messages that the code picks is the set of their places.             *)
(*                                                                         *)
(* A message is a record of what build_calls reads: status (0 for a        *)
(* request), method (of the CSeq header), cseq, from, to (tags), sdp (the  *)
(* audio of its offer: "none", "active" or "hold"), at (its timestamp,     *)
(* here its place in the capture), and by, who sent it, which build_calls  *)
(* cannot see.  The Via branch and the addresses of a message follow from  *)
(* its other fields, so two messages with the same fields are the same.    *)
(***************************************************************************)
EXTENDS Outcomes, SequencesExt

CONSTANT NoTag

IsRequest(m, method) == m.status = 0 /\ m.method = method
Final(m) == m.status >= 200
Success(m) == m.status \in 200..299

\* next((m for m in ...), None), over the messages at the given places.
First(ms, places) == IF places = {} THEN NoTag ELSE ms[Min(places)]

RequestsOf(ms, method) == {i \in DOMAIN ms : IsRequest(ms[i], method)}

InitialInvites(ms) == {i \in RequestsOf(ms, "INVITE") : ms[i].to = NoTag}
CallerTag(ms) == First(ms, InitialInvites(ms)).from
InitialCSeqs(ms) == {ms[i].cseq : i \in InitialInvites(ms)}
LastCSeq(ms) == Max(InitialCSeqs(ms))

InviteResponses(ms) ==
    LET cseqs == InitialCSeqs(ms) IN
    {i \in DOMAIN ms : ms[i].status > 0 /\ ms[i].method = "INVITE" /\ ms[i].cseq \in cseqs}

\* Wrong on purpose: the responses to every attempt decide the result.
AllAttempts(ms) == InviteResponses(ms)

\* Responses to the last attempt: a challenge that was answered by a new
\* INVITE is part of the call, not its result.
LastResponses(ms) ==
    LET last == LastCSeq(ms) IN {i \in InviteResponses(ms) : ms[i].cseq = last}

AuthChallenges(ms) ==
    LET last == LastCSeq(ms) IN
    Cardinality({i \in InviteResponses(ms) : ms[i].status \in {401, 407} /\ ms[i].cseq # last})

Answers(ms) == {i \in LastResponses(ms) : Success(ms[i])}
Answered(ms) == Answers(ms) # {}
Answer(ms) == First(ms, Answers(ms))

\* 0 when nothing final was seen.
FinalStatus(ms) ==
    LET finals == {i \in LastResponses(ms) : Final(ms[i])} IN
    IF Answered(ms) THEN Answer(ms).status
    ELSE IF finals = {} THEN 0 ELSE ms[Max(finals)].status

-----------------------------------------------------------------------------
(* Dialogs: one per remote tag on a 101-299 response to an initial INVITE, *)
(* confirmed by its first 2xx.                                             *)

FirstAnswer(ms, tag) == First(ms, {i \in InviteResponses(ms) : ms[i].to = tag /\ Success(ms[i])})

Confirmed(ms) ==
    {ms[i].to : i \in {j \in InviteResponses(ms) : Success(ms[j])}} \ {NoTag}

\* Wrong on purpose: the ACK of any dialog will do.
AckedAny(ms, tag) ==
    LET answer == FirstAnswer(ms, tag) IN
    \E i \in RequestsOf(ms, "ACK") : ms[i].cseq = answer.cseq /\ ms[i].at >= answer.at

Acked(ms, tag) ==
    LET answer == FirstAnswer(ms, tag) IN
    \E i \in RequestsOf(ms, "ACK") : /\ ms[i].cseq = answer.cseq /\ ms[i].at >= answer.at
                                   /\ ms[i].to \in {tag, NoTag}

\* unanswered_ack_dialogs; an answer without a tag counts as one, under NoTag.
MissingAckDialogs(ms) ==
    IF Answered(ms) /\ Confirmed(ms) = {}
    THEN IF \E i \in RequestsOf(ms, "ACK") : ms[i].cseq = Answer(ms).cseq /\ ms[i].at >= Answer(ms).at
         THEN {} ELSE {NoTag}
    ELSE {tag \in Confirmed(ms) : ~Acked(ms, tag)}

Forked(ms) == Cardinality(Confirmed(ms)) > 1

-----------------------------------------------------------------------------
(* How the call ended.                                                     *)

Cancels(ms) == RequestsOf(ms, "CANCEL")

InMainDialog(ms, m) ==
    Answer(ms).to = NoTag \/ Answer(ms).to \in {m.from, m.to}

\* Wrong on purpose: the first BYE of any dialog.
AnyBye(ms) ==
    IF ~Answered(ms) THEN NoTag
    ELSE First(ms, {i \in RequestsOf(ms, "BYE") : ms[i].at >= Answer(ms).at})

\* The BYE of the answered dialog, else the first BYE after the answer.
Bye(ms) ==
    LET byes == {i \in RequestsOf(ms, "BYE") : ms[i].at >= Answer(ms).at}
        main == {i \in byes : InMainDialog(ms, ms[i])} IN
    IF ~Answered(ms) THEN NoTag
    ELSE First(ms, IF main # {} THEN main ELSE byes)

Term(ms) ==
    IF Bye(ms) # NoTag THEN Bye(ms)
    ELSE IF Answered(ms) THEN NoTag ELSE First(ms, Cancels(ms))

TerminationObserved(ms) == Term(ms) # NoTag

DisconnectSide(ms) ==
    IF TerminationObserved(ms)
    THEN IF Term(ms).from = CallerTag(ms) THEN "caller" ELSE "callee"
    ELSE IF FinalStatus(ms) >= 300 THEN "callee" ELSE "nobody"

Outcome(ms) ==
    ClassifyOutcome(FinalStatus(ms), Answered(ms), Cancels(ms) # {}, InviteResponses(ms) # {})

-----------------------------------------------------------------------------
(* Activity inside the dialogs.                                            *)

\* Wrong on purpose: responses are taken for requests.
SenderSideFrom(ms, m) == IF m.from = CallerTag(ms) THEN "caller" ELSE "callee"

\* _sender_side: requests carry the sender's tag in From, responses echo it.
SenderSide(ms, m) ==
    IF m.from = CallerTag(ms) <=> m.status = 0 THEN "caller" ELSE "callee"

InDialog(m) == m.status = 0 /\ m.to # NoTag

\* Wrong on purpose: every offer that holds is an event.
AfterOfferRepeated(s, m) ==
    IF InDialog(m) /\ m.method \in {"INVITE", "UPDATE"} /\ m.sdp # "none"
    THEN [held |-> m.sdp = "hold", events |-> Append(s.events, IF m.sdp = "hold" THEN "hold" ELSE "resume")]
    ELSE s

\* What an offer inside a dialog makes of held and hold_events.
AfterOffer(s, m) ==
    LET offer == InDialog(m) /\ m.method \in {"INVITE", "UPDATE"} IN
    IF offer /\ m.sdp = "hold" /\ ~s.held THEN [held |-> TRUE, events |-> Append(s.events, "hold")]
    ELSE IF offer /\ m.sdp = "active" /\ s.held THEN [held |-> FALSE, events |-> Append(s.events, "resume")]
    ELSE s

\* hold_events: the offers that change what the call is.
HoldEvents(ms) ==
    LET upTo[n \in 0..Len(ms)] == IF n = 0 THEN [held |-> FALSE, events |-> <<>>]
                                  ELSE AfterOffer(upTo[n - 1], ms[n])
    IN  upTo[Len(ms)].events

\* The REFER requests inside a dialog.
Refers(ms) == {i \in RequestsOf(ms, "REFER") : InDialog(ms[i])}

Transfer(ms, m, answers) ==
    [by |-> SenderSide(ms, m), cseq |-> m.cseq,
     status |-> IF answers = {} THEN 0 ELSE ms[Min(answers)].status]

\* Wrong on purpose: the first answer to any REFER is the answer.
TransfersAnyAnswer(ms) ==
    {Transfer(ms, ms[i], {j \in DOMAIN ms : Final(ms[j]) /\ ms[j].method = "REFER"}) : i \in Refers(ms)}

\* transfers: one for each REFER, with the final answer to its CSeq.
Transfers(ms) ==
    {Transfer(ms, ms[i], {j \in DOMAIN ms : /\ Final(ms[j]) /\ ms[j].method = "REFER"
                                            /\ ms[j].cseq = ms[i].cseq}) : i \in Refers(ms)}

\* Wrong on purpose: answers of two forks are taken for one sent again.
TransactionNoTag(m) == <<m.status, m.method, m.cseq, m.from, IF m.status = 0 THEN m.to ELSE NoTag>>

\* The key of a message.  The To tag stands for the Via branch and the
\* addresses of a request.
Transaction(m) == <<m.status, m.method, m.cseq, m.from, m.to>>

\* retransmissions: messages whose transaction key was seen before.
Retransmissions(ms) == Len(ms) - Cardinality({Transaction(ms[i]) : i \in DOMAIN ms})
=============================================================================
