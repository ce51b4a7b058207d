--------------------------- MODULE SipSignalling ---------------------------
(***************************************************************************)
(* The user agents of one call, as RFC 3261 has them behave and as the     *)
(* tests script them, and the capture of what they send.  They are not     *)
(* part of the code: they are here to say, besides the captured messages,  *)
(* what really happened (who answered, who hung up, what was put on hold), *)
(* which build_calls has to find out from the messages alone.              *)
(*                                                                         *)
(* A caller sends an INVITE that a proxy may challenge and fork to several *)
(* callees; each may ring and answer, the answers and a CANCEL may cross.  *)
(* Inside a dialog both sides send re-INVITE, UPDATE, REFER and BYE, each  *)
(* with CSeq numbers of its own.  UDP makes senders repeat what is not     *)
(* answered.                                                               *)
(***************************************************************************)
EXTENDS SipCall

CONSTANTS Callees,
          CalleeFirsts,  \* the numbers a callee may start its CSeq with
          MaxAttempts,   \* bound: INVITEs sent because of a challenge, plus 1
          MaxInDialog,   \* bound: re-INVITE, UPDATE and REFER requests
          MaxRepeats,    \* bound: messages sent again
          MaxMessages    \* bound: messages in the capture

Caller == "caller"
Sides == {"caller", "callee"}

\* What the capture holds, and what a side waits to be answered.
MessageSet ==
    [status : Nat, method : {"INVITE", "ACK", "CANCEL", "BYE", "UPDATE", "REFER"}, cseq : Nat,
     from : {Caller} \cup Callees, to : {Caller, "uas", NoTag} \cup Callees,
     sdp : {"none", "active", "hold"}, by : Sides, at : Nat]
Awaiting == [method : {"INVITE", "UPDATE", "REFER"}, side : Sides, dialog : Callees, cseq : Nat]

ASSUME SignallingAssumption ==
    /\ CalleeFirsts \subseteq Nat \ {0} /\ MaxAttempts \in Nat \ {0}
    /\ MaxInDialog \in Nat /\ MaxRepeats \in Nat /\ MaxMessages \in Nat
    /\ "caller" \notin Callees /\ "uas" \notin Callees /\ NoTag \notin Callees
    /\ NoTag \notin {"caller", "uas"} /\ NoTag \notin MessageSet /\ NoTag \notin Awaiting

VARIABLES msgs,        \* the capture
          phase,       \* of the INVITE: what the caller knows is still due
          attempt,     \* CSeq number of the caller's last initial INVITE
          challenges,  \* 401 responses, without their repetitions
          cancelled,   \* the caller sent a CANCEL
          answers,     \* callees that answered, in order
          acked,       \* those whose answer was acknowledged
          byes,        \* BYE requests: [dialog, by]
          seq,         \* CSeq number last used by each party, 0 if none was
          pending,     \* the in-dialog request not answered yet
          offered,     \* whether the call was put on hold, or resumed, so far
          refers,      \* REFER requests and what became of them
          repeats      \* messages that were sent again

signallingVars == <<msgs, phase, attempt, challenges, cancelled, answers, acked, byes,
                   seq, pending, offered, refers, repeats>>

callVars == <<phase, attempt, challenges, cancelled, answers>>
dialogVars == <<acked, byes, seq, pending, offered, refers>>

Message(status, method, cseq, from, to, sdp, by) ==
    [status |-> status, method |-> method, cseq |-> cseq, from |-> from, to |-> to,
     sdp |-> sdp, by |-> by, at |-> 0]

Request(method, cseq, to) == Message(0, method, cseq, Caller, to, "none", "caller")
Response(status, cseq, to) == Message(status, "INVITE", cseq, Caller, to, "none", "callee")

Capture(new) ==
    /\ Len(msgs) + Len(new) <= MaxMessages
    /\ msgs' = msgs \o [i \in 1..Len(new) |-> [new[i] EXCEPT !.at = Len(msgs) + i]]

SignallingInit ==
    /\ msgs = <<[Message(0, "INVITE", 1, Caller, NoTag, "active", "caller") EXCEPT !.at = 1]>>
    /\ phase = "calling" /\ attempt = 1 /\ challenges = 0 /\ cancelled = FALSE
    /\ answers = <<>> /\ acked = {} /\ byes = <<>>
    /\ seq = [p \in {Caller} \cup Callees |-> IF p = Caller THEN 1 ELSE 0]
    /\ pending = NoTag /\ offered = <<>> /\ refers = {} /\ repeats = 0

\* Some callee has been heard of.
Reached == \E i \in 1..Len(msgs) : msgs[i].status > 100 /\ msgs[i].to \in Callees

\* The proxy asks for credentials; the caller acknowledges.
Challenge ==
    /\ phase = "calling" /\ ~Reached /\ ~cancelled
    /\ Capture(<<Response(401, attempt, "uas"), Request("ACK", attempt, "uas")>>)
    /\ phase' = "challenged" /\ challenges' = challenges + 1
    /\ UNCHANGED <<attempt, cancelled, answers, dialogVars, repeats>>

\* The caller tries again with credentials.
Retry ==
    /\ phase = "challenged" /\ attempt < MaxAttempts
    /\ attempt' = attempt + 1 /\ phase' = "calling"
    /\ Capture(<<Message(0, "INVITE", attempt + 1, Caller, NoTag, "active", "caller")>>)
    /\ seq' = [seq EXCEPT ![Caller] = attempt + 1]
    /\ UNCHANGED <<challenges, cancelled, answers, acked, byes, pending, offered, refers, repeats>>

\* 100 carries no tag.
Trying ==
    /\ phase = "calling"
    /\ \A i \in 1..Len(msgs) : msgs[i].status # 100
    /\ Capture(<<Response(100, attempt, NoTag)>>)
    /\ UNCHANGED <<callVars, dialogVars, repeats>>

\* A callee rings; on the way its response may be overtaken by its answer.
Ring(c) ==
    /\ phase \in {"calling", "answered"}
    /\ \A i \in 1..Len(msgs) : ~(msgs[i].status = 180 /\ msgs[i].to = c)
    /\ Capture(<<Response(180, attempt, c)>>)
    /\ UNCHANGED <<callVars, dialogVars, repeats>>

\* A callee answers, perhaps while another has, or a CANCEL is under way.
Accept(c) ==
    /\ phase \in {"calling", "answered"} /\ ~Contains(answers, c)
    /\ Capture(<<Response(200, attempt, c)>>)
    /\ phase' = "answered" /\ answers' = Append(answers, c)
    /\ UNCHANGED <<attempt, challenges, cancelled, dialogVars, repeats>>

Ack(c) ==
    /\ Contains(answers, c) /\ c \notin acked
    /\ Capture(<<Request("ACK", attempt, c)>>)
    /\ acked' = acked \cup {c}
    /\ UNCHANGED <<callVars, byes, seq, pending, offered, refers, repeats>>

\* The caller gives up before it knows of an answer.
Cancel ==
    /\ phase \in {"calling", "answered"} /\ acked = {} /\ ~cancelled
    /\ Capture(<<Request("CANCEL", attempt, NoTag),
                 Message(200, "CANCEL", attempt, Caller, "uas", "none", "callee")>>)
    /\ cancelled' = TRUE
    /\ UNCHANGED <<phase, attempt, challenges, answers, dialogVars, repeats>>

\* Busy, or the end of a cancelled INVITE.
Refuse ==
    /\ phase = "calling"
    /\ \E status \in {486} \cup (IF cancelled THEN {487} ELSE {}) :
          /\ Capture(<<Response(status, attempt, "uas"), Request("ACK", attempt, "uas")>>)
          /\ phase' = IF status = 486 THEN "486" ELSE "487"
    /\ UNCHANGED <<attempt, challenges, cancelled, answers, dialogVars, repeats>>

\* A request of one side inside the dialog with c, with its next CSeq number.
InDialogRequest(side, c, method, cseq, sdp) ==
    IF side = "caller" THEN Message(0, method, cseq, Caller, c, sdp, "caller")
    ELSE Message(0, method, cseq, c, Caller, sdp, "callee")

Party(side, c) == IF side = "caller" THEN Caller ELSE c

\* The CSeq numbers of the two sides are independent (RFC 3261 section 12.2.1.1).
NextCSeq(p) == IF seq[p] = 0 THEN CalleeFirsts ELSE {seq[p] + 1}
Ended(c) == \E i \in 1..Len(byes) : byes[i].dialog = c

\* A new offer: hold or active media.  What a caller does in a dialog is done
\* in the one it kept; other forks are only hung up.
Offer(side, c) ==
    /\ c \in acked /\ c = answers[1] /\ ~Ended(c) /\ pending = NoTag
    /\ Len(offered) + Cardinality(refers) < MaxInDialog
    /\ \E method \in {"INVITE", "UPDATE"}, sdp \in {"active", "hold"},
          cseq \in NextCSeq(Party(side, c)) :
          /\ Capture(<<InDialogRequest(side, c, method, cseq, sdp)>>)
          /\ seq' = [seq EXCEPT ![Party(side, c)] = cseq]
          /\ pending' = [method |-> method, side |-> side, dialog |-> c, cseq |-> cseq]
          /\ offered' = Append(offered, sdp)
    /\ UNCHANGED <<callVars, acked, byes, refers, repeats>>

\* A request to transfer the call.
Refer(side, c) ==
    /\ c \in acked /\ c = answers[1] /\ ~Ended(c) /\ pending = NoTag
    /\ Len(offered) + Cardinality(refers) < MaxInDialog
    /\ \E cseq \in NextCSeq(Party(side, c)) :
          /\ Capture(<<InDialogRequest(side, c, "REFER", cseq, "none")>>)
          /\ seq' = [seq EXCEPT ![Party(side, c)] = cseq]
          /\ pending' = [method |-> "REFER", side |-> side, dialog |-> c, cseq |-> cseq]
          /\ refers' = refers \cup {[by |-> side, cseq |-> cseq, status |-> 0]}
    /\ UNCHANGED <<callVars, acked, byes, offered, repeats>>

\* The other side answers, and a re-INVITE is acknowledged.
Reply ==
    /\ pending # NoTag
    /\ \E status \in IF pending.method = "REFER" THEN {202, 603} ELSE {200} :
          LET p == pending
              request == InDialogRequest(p.side, p.dialog, p.method, p.cseq, "none")
              response == [request EXCEPT !.status = status,
                                          !.by = IF p.side = "caller" THEN "callee" ELSE "caller"]
              ack == [request EXCEPT !.method = "ACK"] IN
          /\ Capture(IF p.method = "INVITE" THEN <<response, ack>> ELSE <<response>>)
          /\ refers' = {IF r.by = p.side /\ r.cseq = p.cseq THEN [r EXCEPT !.status = status]
                        ELSE r : r \in refers}
    /\ pending' = NoTag
    /\ UNCHANGED <<callVars, acked, byes, seq, offered, repeats>>

\* One side hangs up; both may at once, and a callee whose answer is never
\* acknowledged does.
HangUp(side, c) ==
    /\ Contains(answers, c) /\ (side = "caller" => c \in acked)
    /\ \A i \in 1..Len(byes) : byes[i] # [dialog |-> c, by |-> side]
    /\ \E cseq \in NextCSeq(Party(side, c)) :
          /\ Capture(<<InDialogRequest(side, c, "BYE", cseq, "none")>>)
          /\ seq' = [seq EXCEPT ![Party(side, c)] = cseq]
    /\ byes' = Append(byes, [dialog |-> c, by |-> side])
    /\ UNCHANGED <<callVars, acked, pending, offered, refers, repeats>>

\* The last message is sent again, an answer nobody acknowledged, or a challenge
\* whose ACK was lost; that one may be overtaken by the next attempt.
Repeat ==
    /\ repeats < MaxRepeats
    /\ \E i \in 1..Len(msgs) :
          /\ \/ i = Len(msgs) \/ msgs[i].status = 401
             \/ /\ msgs[i].status = 200 /\ msgs[i].method = "INVITE"
                /\ msgs[i].to \in ToSet(answers) \ acked
          /\ Capture(<<msgs[i]>>)
    /\ repeats' = repeats + 1
    /\ UNCHANGED <<callVars, dialogVars>>

SignallingNext ==
    \/ Challenge \/ Retry \/ Trying \/ Cancel \/ Refuse \/ Reply \/ Repeat
    \/ \E c \in Callees : Ring(c) \/ Accept(c) \/ Ack(c)
    \/ \E c \in Callees, side \in Sides : Offer(side, c) \/ Refer(side, c) \/ HangUp(side, c)

SignallingSpec == SignallingInit /\ [][SignallingNext]_signallingVars

-----------------------------------------------------------------------------
(* Properties: the report tells what happened.                             *)

\* The outcome is what came of the call: a challenge is not its result unless
\* the caller left it at that, an answer that crossed a CANCEL counts, and the
\* 200 to the CANCEL does not (classify_outcome and the selection of answers
\* and finals in build_calls).  A challenge is counted when the caller tried
\* again after it, and counts again when it was sent again.
OutcomeFaithful ==
    /\ Outcome(msgs) =
          CASE phase = "answered" -> "answered"
            [] phase = "challenged" -> "auth_failed"
            [] phase = "486" -> "busy"
            [] phase = "487" -> "cancelled"
            [] phase = "calling" ->
                  IF \A i \in 1..Len(msgs) : msgs[i].status = 0 \/ msgs[i].method # "INVITE"
                  THEN "no_response"
                  ELSE IF cancelled THEN "cancelled" ELSE "in_progress"
    /\ LET answered == IF phase = "challenged" THEN challenges - 1 ELSE challenges
       IN  AuthChallenges(msgs) \in answered .. answered + repeats

\* No re-INVITE of a callee has the CSeq number of an initial INVITE.
NumbersApart ==
    \A i \in 1..Len(msgs) :
        ~(IsRequest(msgs[i], "INVITE") /\ msgs[i].by = "callee" /\ msgs[i].cseq <= attempt)

\* A call is forked when more than one callee answered it, and the dialogs
\* without ACK are those of the callees whose answer was not acknowledged,
\* whatever other ACKs the capture has: of a challenge, of another fork, of a
\* re-INVITE, with any number.  An answer to a re-INVITE whose number is also
\* the caller's counts as one more fork, so only calls without one are claimed
\* not to be forked (dialogs and missing_ack_dialogs in build_calls).
MissingAckFaithful ==
    /\ Len(answers) > 1 => Forked(msgs)
    /\ Forked(msgs) /\ NumbersApart => Len(answers) > 1
    /\ MissingAckDialogs(msgs) = ToSet(answers) \ acked

\* Once the answered dialog was hung up, the side that did it first is the one
\* reported; without an answer, the side that ended the attempt.
DisconnectFaithful ==
    LET main == {i \in 1..Len(byes) : byes[i].dialog = answers[1]} IN
    IF answers # <<>>
    THEN IF main # {} THEN DisconnectSide(msgs) = byes[Min(main)].by
         ELSE byes = <<>> => DisconnectSide(msgs) = "nobody"
    ELSE DisconnectSide(msgs) = IF cancelled THEN "caller"
                                ELSE IF phase = "calling" THEN "nobody" ELSE "callee"

\* The side of a message, which decides whose media an SDP describes, is the
\* side that sent it (_sender_side).
SidesFaithful ==
    \A i \in 1..Len(msgs) : SenderSide(msgs, msgs[i]) = msgs[i].by

\* Retransmissions are exactly the messages that were sent again.
RetransmissionsFaithful == Retransmissions(msgs) = repeats

\* Hold and resume alternate, and there is one event for each offer that
\* changed what the call was, whoever made it and however often it was sent.
HoldsFaithful ==
    LET changes == {i \in 1..Len(offered) : offered[i] # IF i = 1 THEN "active" ELSE offered[i - 1]}
        events == HoldEvents(msgs)
    IN  /\ Len(events) = Cardinality(changes)
        /\ \A i \in 1..Len(events) : events[i] = IF i % 2 = 1 THEN "hold" ELSE "resume"

\* One transfer for each REFER, with what the other side answered to it, as long
\* as the two sides do not use one number: the answer is found by number only.
TransfersFaithful ==
    /\ {[t EXCEPT !.status = 0] : t \in Transfers(msgs)} = {[r EXCEPT !.status = 0] : r \in refers}
    /\ Cardinality({r.cseq : r \in refers}) = Cardinality(refers) => Transfers(msgs) = refers
=============================================================================
