------------------------ MODULE SipSignallingProofs ------------------------
(***************************************************************************)
(* The report of build_calls tells what happened: proofs of the properties *)
(* of SipSignalling and CallReport for any number of callees, attempts,    *)
(* requests inside the dialogs, repetitions and messages.                  *)
(*                                                                         *)
(* Made is the invariant the rest stands on: what the two sides did so far *)
(* hangs together (State), and every message of the capture is one of      *)
(* twelve kinds, each of which says what the state must be for it to have  *)
(* been sent (Captured).  Each property adds what it needs to know beyond  *)
(* that: that what the state says was sent is in the capture (Witnessed,   *)
(* AckSeen, Reinvites), how many messages are new (Separate), challenges   *)
(* (Counted), the first BYE and answer (FirstByes, FirstAnswered), what    *)
(* became of each REFER (Referring, ReferSeen), the turns of the loop over *)
(* the offers (Holding), and what came before the first response to a      *)
(* re-INVITE (Reacted).  The findings follow from the other properties.    *)
(***************************************************************************)
EXTENDS CallReport, NumberLemmas, SequenceTheorems, FiniteSetTheorems, TLAPS

-----------------------------------------------------------------------------
(* What the two sides did so far.                                           *)
Main == answers[1]
\* The side a message goes to.
Other(side) == IF side = "caller" THEN "callee" ELSE "caller"

\* The CSeq number and the tags of a request of one side in the dialog with c.
Within(side, c, cseq, from, to) ==
    \/ /\ side = "caller" /\ from = Caller /\ to = c
       /\ attempt < cseq /\ cseq <= seq[Caller]
    \/ /\ side = "callee" /\ from = c /\ to = Caller
       /\ 0 < cseq /\ cseq <= seq[c]

\* What the variables are.
Typed ==
    /\ phase \in {"calling", "challenged", "answered", "486", "487"}
    /\ attempt \in Nat \ {0} /\ challenges \in Nat /\ cancelled \in BOOLEAN
    /\ answers \in Seq(Callees) /\ \A i, j \in 1..Len(answers) : answers[i] = answers[j] => i = j
    /\ acked \subseteq ToSet(answers)
    /\ byes \in Seq([dialog : Callees, by : Sides])
    /\ seq \in [{Caller} \cup Callees -> Nat]
    /\ pending = NoTag \/ pending \in Awaiting
    /\ offered \in Seq({"hold", "active"}) /\ repeats \in Nat

\* How they hang together: who answered, what numbers were used, what is awaited.
Related ==
    /\ answers # <<>> <=> phase = "answered"
    /\ phase = "challenged" => ~cancelled /\ challenges > 0
    /\ phase = "487" => cancelled
    /\ seq[Caller] >= attempt
    /\ answers = <<>> => seq[Caller] = attempt
    /\ \A i \in 1..Len(byes) : byes[i].dialog \in ToSet(answers)
    /\ pending # NoTag => /\ pending.dialog = Main /\ Main \in acked
                          /\ Within(pending.side, Main, pending.cseq,
                                    Party(pending.side, Main), Party(Other(pending.side), Main))

State == Typed /\ Related

\* The answers after one more.
LEMMA AnswersAfter ==
  ASSUME NEW s \in Seq(Callees), NEW c \in Callees
  PROVE  /\ Append(s, c) \in Seq(Callees) /\ Len(Append(s, c)) = Len(s) + 1 /\ Append(s, c) # <<>>
         /\ ToSet(Append(s, c)) = ToSet(s) \cup {c}
         /\ \A i \in 1..Len(s) : Append(s, c)[i] = s[i]
         /\ Append(s, c)[Len(s) + 1] = c
         /\ Contains(s, c) <=> c \in ToSet(s)
         /\ s # <<>> => s[1] \in ToSet(s) /\ Append(s, c)[1] = s[1]
         /\ s = <<>> => Append(s, c)[1] = c
  <1>1. /\ Append(s, c) \in Seq(Callees) /\ Len(Append(s, c)) = Len(s) + 1 /\ Len(s) \in Nat
        /\ \A i \in 1..Len(s) : Append(s, c)[i] = s[i] /\ Append(s, c)[Len(s) + 1] = c
    BY AppendProperties
  <1>2. Append(s, c)[Len(s) + 1] = c
    BY AppendProperties
  <1>3. DOMAIN s = 1..Len(s) /\ DOMAIN Append(s, c) = 1..(Len(s) + 1)
    BY <1>1
  <1>4. ToSet(Append(s, c)) = ToSet(s) \cup {c}
    <2>1. 1..(Len(s) + 1) = 1..Len(s) \cup {Len(s) + 1}
      BY <1>1
    <2> QED BY <1>1, <1>2, <1>3, <2>1 DEF ToSet
  <1>5. Contains(s, c) <=> c \in ToSet(s)
    BY <1>3 DEF Contains, ToSet
  <1>6. s # <<>> => 1 \in 1..Len(s)
    BY <1>1
  <1>7. s = <<>> => Len(s) = 0
    OBVIOUS
  <1> QED BY <1>1, <1>2, <1>3, <1>4, <1>5, <1>6, <1>7 DEF ToSet

\* What every step keeps of a state that is well formed.
Evolves ==
    /\ attempt' = attempt \/ (attempt' = attempt + 1 /\ phase = "challenged")
    /\ phase \in {"answered", "486", "487"} => phase' = phase
    /\ phase = "challenged" => phase' = phase \/ attempt' = attempt + 1
    /\ answers' = answers \/ \E c \in Callees : c \notin ToSet(answers) /\ answers' = Append(answers, c)
    /\ acked \subseteq acked' /\ (cancelled => cancelled')
    /\ \A p \in {Caller} \cup Callees : seq[p] <= seq'[p]
    /\ byes' = byes \/ \E b \in [dialog : Callees, by : Sides] : byes' = Append(byes, b)
    /\ \/ pending' = pending \/ pending' = NoTag
       \/ pending = NoTag /\ pending' # NoTag /\ pending'.cseq > seq[Party(pending'.side, Main)]

\* The first INVITE makes a well-formed state.
LEMMA StateInit == SignallingInit => State
  <1> SUFFICES ASSUME SignallingInit PROVE State
    OBVIOUS
  <1>1. answers = <<>> /\ Len(answers) = 0 /\ ToSet(answers) = {} /\ Len(byes) = 0
    BY DEF SignallingInit, ToSet
  <1>2. seq \in [{Caller} \cup Callees -> Nat] /\ seq[Caller] = 1
    BY DEF SignallingInit
  <1>3. Typed
    <2>1. <<>> \in Seq(Callees) /\ <<>> \in Seq([dialog : Callees, by : Sides]) /\ <<>> \in Seq({"hold", "active"})
      OBVIOUS
    <2>2. acked \subseteq ToSet(answers) /\ \A i, j \in 1..Len(answers) : answers[i] = answers[j] => i = j
      BY <1>1 DEF SignallingInit
    <2>3. /\ answers \in Seq(Callees) /\ byes \in Seq([dialog : Callees, by : Sides])
          /\ offered \in Seq({"hold", "active"})
      BY ONLY <2>1, SignallingInit DEF SignallingInit
    <2>4. /\ phase \in {"calling", "challenged", "answered", "486", "487"} /\ repeats \in Nat
          /\ attempt \in Nat \ {0} /\ challenges \in Nat /\ pending = NoTag
      BY DEF SignallingInit
    <2>5. cancelled \in BOOLEAN
      BY Zenon DEF SignallingInit
    <2> QED BY <1>2, <2>2, <2>3, <2>4, <2>5 DEF Typed
  <1>4. Related
    BY <1>1, <1>2 DEF SignallingInit, Related
  <1> QED BY <1>3, <1>4 DEF State

\* A request of one side gets the next number of that side.
LEMMA NumberedNext ==
  ASSUME State, NEW side \in Sides, NEW c \in Callees, c \in ToSet(answers), NEW cseq \in NextCSeq(Party(side, c)),
         seq' = [seq EXCEPT ![Party(side, c)] = cseq]
  PROVE  /\ cseq \in Nat /\ cseq > 0 /\ cseq > seq[Party(side, c)] /\ Party(side, c) \in {Caller} \cup Callees
         /\ seq' \in [{Caller} \cup Callees -> Nat] /\ seq'[Party(side, c)] = cseq
         /\ \A p \in {Caller} \cup Callees : p # Party(side, c) => seq'[p] = seq[p]
         /\ \A p \in {Caller} \cup Callees : seq[p] <= seq'[p]
         /\ side = "caller" => cseq > attempt
  <1>1. Party(side, c) \in {Caller} \cup Callees
    BY DEF Party
  <1>2. /\ seq \in [{Caller} \cup Callees -> Nat] /\ attempt \in Nat \ {0}
        /\ seq[Caller] \in Nat /\ seq[Caller] >= attempt
    BY DEF State, Typed, Related
  <1>3. PICK p \in {Caller} \cup Callees : p = Party(side, c) /\ (side = "caller" => p = Caller)
    BY <1>1 DEF Party
  <1>4. seq[p] \in Nat
    BY <1>2
  <1>5. cseq \in Nat /\ cseq > 0 /\ cseq > seq[p]
    BY <1>3, <1>4, SignallingAssumption DEF NextCSeq
  <1>6. side = "caller" => cseq > attempt
    BY <1>2, <1>3, <1>5
  <1>7. seq' = [seq EXCEPT ![p] = cseq]
    BY <1>3
  <1>8. seq' \in [{Caller} \cup Callees -> Nat] /\ seq'[p] = cseq /\ \A q \in {Caller} \cup Callees : q # p => seq'[q] = seq[q]
    BY <1>2, <1>5, <1>7
  <1>9. \A q \in {Caller} \cup Callees : seq[q] <= seq'[q]
    <2> SUFFICES ASSUME NEW q \in {Caller} \cup Callees PROVE seq[q] <= seq'[q]
      OBVIOUS
    <2>1. seq[q] \in Nat
      BY <1>2
    <2> QED BY <1>4, <1>5, <1>8, <2>1
  <1> QED BY <1>3, <1>5, <1>6, <1>8, <1>9

\* Every step but that of an answer leaves the answers alone, and what no step
\* touches stays well formed.
LEMMA ChallengeState == ASSUME State, Challenge PROVE State' /\ Evolves
  <1>1. /\ phase = "calling" /\ ~cancelled /\ phase' = "challenged" /\ challenges' = challenges + 1
        /\ UNCHANGED <<attempt, cancelled, answers, acked, byes, seq, pending, offered, repeats>>
    BY DEF Challenge, dialogVars
  <1>2. Typed'
    BY <1>1 DEF State, Typed
  <1>3. Related'
    BY <1>1 DEF State, Typed, Related, Main, Within, Party, Other
  <1>4. Evolves
    BY <1>1 DEF State, Typed, Evolves
  <1> QED BY <1>2, <1>3, <1>4 DEF State

LEMMA RetryState == ASSUME State, Retry PROVE State' /\ Evolves
  <1>1. /\ phase = "challenged" /\ attempt' = attempt + 1 /\ phase' = "calling"
        /\ seq' = [seq EXCEPT ![Caller] = attempt + 1]
        /\ UNCHANGED <<challenges, cancelled, answers, acked, byes, pending, offered, repeats>>
    BY DEF Retry
  <1>2. /\ answers = <<>> /\ acked = {} /\ pending = NoTag
    BY <1>1 DEF State, Typed, Related, ToSet
  <1>3. /\ seq' \in [{Caller} \cup Callees -> Nat] /\ seq'[Caller] = attempt + 1 /\ seq[Caller] = attempt
        /\ \A p \in {Caller} \cup Callees : seq[p] <= seq'[p]
    BY <1>1, <1>2 DEF State, Typed, Related
  <1>4. Typed'
    BY <1>1, <1>3 DEF State, Typed
  <1>5. Related'
    BY <1>1, <1>2, <1>3 DEF State, Typed, Related
  <1>6. Evolves
    BY <1>1, <1>3 DEF State, Typed, Evolves
  <1> QED BY <1>4, <1>5, <1>6 DEF State

\* A step that leaves the dialogs and the numbers alone.
LEMMA QuietState ==
  ASSUME State, cancelled \/ ~cancelled', phase = phase', repeats' \in Nat,
         UNCHANGED <<attempt, challenges, cancelled, answers, acked, byes, seq, pending, offered>>
  PROVE  State' /\ Evolves
  <1>2. Typed'
    BY DEF State, Typed
  <1>3. Related'
    BY DEF State, Typed, Related, Main, Within, Party, Other
  <1>4. Evolves
    BY DEF State, Typed, Evolves
  <1> QED BY <1>2, <1>3, <1>4 DEF State

LEMMA CancelState == ASSUME State, Cancel PROVE State' /\ Evolves
  <1>1. /\ phase \in {"calling", "answered"} /\ cancelled' = TRUE
        /\ UNCHANGED <<phase, attempt, challenges, answers, acked, byes, seq, pending, offered, repeats>>
    BY DEF Cancel, dialogVars
  <1>2. Typed'
    BY <1>1 DEF State, Typed
  <1>3. Related'
    BY <1>1 DEF State, Typed, Related, Main, Within, Party, Other
  <1>4. Evolves
    BY <1>1 DEF State, Typed, Evolves
  <1> QED BY <1>2, <1>3, <1>4 DEF State

LEMMA RefuseState == ASSUME State, Refuse PROVE State' /\ Evolves
  <1>1. /\ phase = "calling" /\ phase' \in {"486", "487"} /\ (phase' = "487" => cancelled)
        /\ UNCHANGED <<attempt, challenges, cancelled, answers, acked, byes, seq, pending, offered, repeats>>
    BY DEF Refuse, dialogVars
  <1>2. Typed'
    BY <1>1 DEF State, Typed
  <1>3. Related'
    BY <1>1 DEF State, Typed, Related, Main, Within, Party, Other
  <1>4. Evolves
    BY <1>1 DEF State, Typed, Evolves
  <1> QED BY <1>2, <1>3, <1>4 DEF State

LEMMA AcceptState == ASSUME State, NEW c \in Callees, Accept(c) PROVE State' /\ Evolves
  <1>1. /\ phase \in {"calling", "answered"} /\ ~Contains(answers, c) /\ phase' = "answered"
        /\ answers' = Append(answers, c)
        /\ UNCHANGED <<attempt, challenges, cancelled, acked, byes, seq, pending, offered, repeats>>
    BY DEF Accept, dialogVars
  <1>2. PICK s : s = answers
    OBVIOUS
  <1>3. PICK t : t = answers'
    OBVIOUS
  <1>4. s \in Seq(Callees) /\ c \notin ToSet(s) /\ t = Append(s, c)
    BY <1>1, <1>2, <1>3, AnswersAfter DEF State, Typed
  <1>5. /\ t \in Seq(Callees) /\ Len(t) = Len(s) + 1 /\ t # <<>> /\ Len(s) \in Nat
        /\ ToSet(t) = ToSet(s) \cup {c} /\ \A i \in 1..Len(s) : t[i] = s[i] /\ s[i] \in ToSet(s)
        /\ t[Len(s) + 1] = c
        /\ s # <<>> => t[1] = s[1]
    BY <1>4, AnswersAfter DEF ToSet
  <1>6. \A i, j \in 1..Len(t) : t[i] = t[j] => i = j
    <2>1. \A i, j \in 1..Len(s) : s[i] = s[j] => i = j
      BY <1>2 DEF State, Typed
    <2> QED BY <1>4, <1>5, <2>1
  <1>7. Typed'
    BY <1>1, <1>2, <1>3, <1>5, <1>6 DEF State, Typed
  <1>8. Related'
    <2>1. pending # NoTag => s # <<>>
      BY <1>2 DEF State, Typed, Related, ToSet
    <2>2. pending # NoTag => Main' = Main
      BY <1>2, <1>3, <1>5, <2>1 DEF Main
    <2> QED BY <1>1, <1>2, <1>3, <1>5, <2>1, <2>2 DEF State, Typed, Related, Within, Party, Other
  <1>9. Evolves
    BY <1>1, <1>2, <1>4 DEF State, Typed, Evolves
  <1> QED BY <1>7, <1>8, <1>9 DEF State

LEMMA AckState == ASSUME State, NEW c \in Callees, Ack(c) PROVE State' /\ Evolves
  <1>1. /\ Contains(answers, c) /\ acked' = acked \cup {c}
        /\ UNCHANGED <<phase, attempt, challenges, cancelled, answers, byes, seq, pending, offered, repeats>>
    BY DEF Ack, callVars
  <1>2. c \in ToSet(answers)
    BY <1>1, AnswersAfter DEF State, Typed
  <1>3. Typed'
    BY <1>1, <1>2 DEF State, Typed
  <1>4. Related'
    BY <1>1 DEF State, Typed, Related, Main, Within, Party, Other
  <1>5. Evolves
    BY <1>1 DEF State, Typed, Evolves
  <1> QED BY <1>3, <1>4, <1>5 DEF State

\* A request inside a dialog, with its next number: re-INVITE, UPDATE or REFER.
LEMMA AskState ==
  ASSUME State, NEW side \in Sides, NEW c \in Callees, c \in acked, c = Main, pending = NoTag,
         NEW method \in {"INVITE", "UPDATE", "REFER"}, NEW cseq \in NextCSeq(Party(side, c)),
         seq' = [seq EXCEPT ![Party(side, c)] = cseq],
         pending' = [method |-> method, side |-> side, dialog |-> c, cseq |-> cseq],
         offered' \in Seq({"hold", "active"}),
         UNCHANGED <<phase, attempt, challenges, cancelled, answers, acked, byes, repeats>>
  PROVE  State' /\ Evolves
  <1>1. /\ cseq \in Nat /\ cseq > 0 /\ cseq > seq[Party(side, c)] /\ Party(side, c) \in {Caller} \cup Callees
        /\ seq' \in [{Caller} \cup Callees -> Nat] /\ seq'[Party(side, c)] = cseq
        /\ \A p \in {Caller} \cup Callees : seq[p] <= seq'[p]
        /\ side = "caller" => cseq > attempt
    BY NumberedNext DEF State, Typed
  <1>2. pending' \in Awaiting /\ pending' # NoTag
    BY <1>1, SignallingAssumption DEF Awaiting
  <1>3. Typed'
    BY <1>1, <1>2 DEF State, Typed
  <1>4. /\ pending'.side = side /\ pending'.cseq = cseq /\ pending'.dialog = c
        /\ Main' = Main /\ answers # <<>>
    BY DEF Main, State, Typed, ToSet
  <1>5. Within(side, c, cseq, Party(side, c), Party(Other(side), c))'
    <2>1. CASE side = "caller"
      BY <1>1, <2>1 DEF Within, Party, Other
    <2>2. CASE side = "callee"
      BY <1>1, <2>2 DEF Within, Party, Other
    <2> QED BY <2>1, <2>2 DEF Sides
  <1>6. seq'[Caller] >= attempt' /\ answers' # <<>>
    <2>1. seq[Caller] \in Nat /\ seq'[Caller] \in Nat /\ seq[Caller] <= seq'[Caller]
      BY <1>1 DEF State, Typed
    <2> QED BY <1>4, <2>1 DEF State, Typed, Related
  <1>7. Related'
    BY <1>2, <1>4, <1>5, <1>6 DEF State, Typed, Related
  <1>8. Evolves
    <2>1. pending'.cseq > seq[Party(pending'.side, Main)]
      BY <1>1, <1>4
    <2> QED BY <1>1, <1>2, <2>1 DEF State, Typed, Evolves
  <1> QED BY <1>3, <1>7, <1>8 DEF State

LEMMA OfferState ==
  ASSUME State, NEW side \in Sides, NEW c \in Callees, Offer(side, c)
  PROVE  State' /\ Evolves
  <1>1. PICK method \in {"INVITE", "UPDATE"}, sdp \in {"active", "hold"}, cseq \in NextCSeq(Party(side, c)) :
          /\ seq' = [seq EXCEPT ![Party(side, c)] = cseq]
          /\ pending' = [method |-> method, side |-> side, dialog |-> c, cseq |-> cseq]
          /\ offered' = Append(offered, sdp)
    BY DEF Offer
  <1>2. c \in acked /\ c = Main /\ pending = NoTag
    BY DEF Offer, Main
  <1>3. offered' \in Seq({"hold", "active"})
    BY <1>1 DEF State, Typed
  <1>4. UNCHANGED <<phase, attempt, challenges, cancelled, answers, acked, byes, repeats>>
    BY DEF Offer, callVars
  <1> QED BY <1>1, <1>2, <1>3, <1>4, AskState

LEMMA ReferState ==
  ASSUME State, NEW side \in Sides, NEW c \in Callees, Refer(side, c)
  PROVE  State' /\ Evolves
  <1>1. PICK cseq \in NextCSeq(Party(side, c)) :
          /\ seq' = [seq EXCEPT ![Party(side, c)] = cseq]
          /\ pending' = [method |-> "REFER", side |-> side, dialog |-> c, cseq |-> cseq]
    BY DEF Refer
  <1>2. c \in acked /\ c = Main /\ pending = NoTag
    BY DEF Refer, Main
  <1>3. /\ UNCHANGED <<phase, attempt, challenges, cancelled, answers, acked, byes, repeats>>
        /\ offered' \in Seq({"hold", "active"})
    BY DEF Refer, callVars, State, Typed
  <1> QED BY <1>1, <1>2, <1>3, AskState

LEMMA ReplyState == ASSUME State, Reply PROVE State' /\ Evolves
  <1>1. /\ pending # NoTag /\ pending' = NoTag
        /\ UNCHANGED <<phase, attempt, challenges, cancelled, answers, acked, byes, seq, offered, repeats>>
    BY DEF Reply, callVars
  <1>2. Typed'
    BY <1>1 DEF State, Typed
  <1>3. Related'
    BY <1>1 DEF State, Typed, Related
  <1>4. Evolves
    BY <1>1 DEF State, Typed, Evolves
  <1> QED BY <1>2, <1>3, <1>4 DEF State

LEMMA HangUpState ==
  ASSUME State, NEW side \in Sides, NEW c \in Callees, HangUp(side, c)
  PROVE  State' /\ Evolves
  <1>1. c \in ToSet(answers)
    BY AnswersAfter DEF State, Typed, HangUp
  <1>2. PICK cseq \in NextCSeq(Party(side, c)) : seq' = [seq EXCEPT ![Party(side, c)] = cseq]
    BY DEF HangUp
  <1>3. /\ seq' \in [{Caller} \cup Callees -> Nat]
        /\ \A p \in {Caller} \cup Callees : seq[p] <= seq'[p]
    BY <1>1, <1>2, NumberedNext
  <1>4. /\ byes' = Append(byes, [dialog |-> c, by |-> side])
        /\ UNCHANGED <<phase, attempt, challenges, cancelled, answers, acked, pending, offered, repeats>>
    BY DEF HangUp, callVars
  <1>5. PICK b \in [dialog : Callees, by : Sides] : b = [dialog |-> c, by |-> side] /\ b.dialog = c
    <2>1. /\ [dialog |-> c, by |-> side] \in [dialog : Callees, by : Sides]
          /\ [dialog |-> c, by |-> side].dialog = c
      OBVIOUS
    <2> QED BY <2>1, Zenon
  <1>6. /\ byes' \in Seq([dialog : Callees, by : Sides])
        /\ \A i \in 1..Len(byes') : byes'[i] = b \/ \E j \in 1..Len(byes) : byes'[i] = byes[j]
    BY <1>4, <1>5 DEF State, Typed
  <1>7. Typed'
    BY <1>3, <1>4, <1>6 DEF State, Typed
  <1>8. /\ attempt \in Nat /\ seq[Caller] \in Nat /\ seq'[Caller] \in Nat /\ seq[Caller] <= seq'[Caller]
        /\ answers # <<>>
        /\ \A p \in Callees : seq[p] \in Nat /\ seq'[p] \in Nat /\ seq[p] <= seq'[p]
    BY <1>1, <1>3 DEF State, Typed, ToSet
  <1>9. Related'
    <2>1. \A i \in 1..Len(byes') : byes'[i].dialog \in ToSet(answers)
      BY <1>1, <1>5, <1>6 DEF State, Related
    <2>2. pending # NoTag => Within(pending.side, Main, pending.cseq,
                                    Party(pending.side, Main), Party(Other(pending.side), Main))'
      <3> SUFFICES ASSUME pending # NoTag
                   PROVE  Within(pending.side, Main, pending.cseq,
                                 Party(pending.side, Main), Party(Other(pending.side), Main))'
        OBVIOUS
      <3>1. /\ Main \in Callees /\ pending.cseq \in Nat /\ Main' = Main /\ pending' = pending
            /\ Within(pending.side, Main, pending.cseq,
                      Party(pending.side, Main), Party(Other(pending.side), Main))
        BY <1>4 DEF State, Typed, Related, Awaiting, Main
      <3> QED BY <1>4, <1>8, <3>1 DEF Within, Party, Other
    <2> QED BY <1>4, <1>8, <2>1, <2>2 DEF State, Related, Main
  <1>10. Evolves
    BY <1>3, <1>4, <1>5 DEF State, Typed, Evolves
  <1> QED BY <1>7, <1>9, <1>10 DEF State

\* Every step keeps the state well formed.
LEMMA StateNext == ASSUME State, SignallingNext PROVE State' /\ Evolves
  <1>1. CASE Trying
    BY <1>1, QuietState DEF Trying, callVars, dialogVars, State, Typed
  <1>2. CASE Repeat
    BY <1>2, QuietState DEF Repeat, callVars, dialogVars, State, Typed
  <1>3. ASSUME NEW c \in Callees, Ring(c) PROVE State' /\ Evolves
    BY <1>3, QuietState DEF Ring, callVars, dialogVars, State, Typed
  <1> QED BY <1>1, <1>2, <1>3, ChallengeState, RetryState, CancelState, RefuseState, ReplyState,
             AcceptState, AckState, OfferState, ReferState, HangUpState DEF SignallingNext

-----------------------------------------------------------------------------
(* What a message of the capture can be, and what it says of the state.     *)
Places == 1..Len(msgs)

\* The request that was not answered yet has this number.
Awaited(side, cseq) == pending # NoTag /\ pending.side = side /\ pending.cseq = cseq

\* The kinds of message, in the order in which a call meets them.
IsInvite(m) ==
    /\ m.status = 0 /\ m.method = "INVITE" /\ m.cseq \in 1..attempt
    /\ m.from = Caller /\ m.to = NoTag /\ m.by = "caller"
IsProvisional(m) ==
    /\ m.status \in {100, 180} /\ m.method = "INVITE" /\ m.cseq \in 1..attempt
    /\ m.from = Caller /\ m.to \in Callees \cup {NoTag} /\ m.by = "callee"
IsAnswer(m) ==
    /\ m.status = 200 /\ m.method = "INVITE" /\ m.cseq = attempt
    /\ m.from = Caller /\ m.to \in ToSet(answers) /\ m.by = "callee"
IsChallenge(m) ==
    /\ m.status = 401 /\ m.method = "INVITE" /\ m.cseq \in 1..attempt
    /\ m.from = Caller /\ m.to = "uas" /\ m.by = "callee"
    /\ m.cseq = attempt => phase = "challenged"
IsRefusal(m) ==
    /\ \/ m.status = 486 /\ phase = "486"
       \/ m.status = 487 /\ phase = "487"
    /\ m.method = "INVITE" /\ m.cseq = attempt
    /\ m.from = Caller /\ m.to = "uas" /\ m.by = "callee"
IsAckOfFailure(m) ==
    /\ m.status = 0 /\ m.method = "ACK" /\ m.cseq \in 1..attempt
    /\ m.from = Caller /\ m.to = "uas" /\ m.by = "caller"
    /\ m.cseq = attempt => phase \in {"challenged", "486", "487"}
IsAckOfAnswer(m) ==
    /\ m.status = 0 /\ m.method = "ACK" /\ m.cseq = attempt
    /\ m.from = Caller /\ m.to \in acked /\ m.by = "caller"
IsCancel(m) ==
    /\ cancelled /\ m.method = "CANCEL" /\ m.cseq = attempt /\ m.from = Caller
    /\ \/ m.status = 0 /\ m.to = NoTag /\ m.by = "caller"
       \/ m.status = 200 /\ m.to = "uas" /\ m.by = "callee"
IsDialogRequest(m) ==
    /\ m.status = 0 /\ m.method \in {"INVITE", "UPDATE", "REFER"}
    /\ Main \in acked /\ m.by \in Sides /\ Within(m.by, Main, m.cseq, m.from, m.to)
IsDialogReply(m) ==
    /\ \/ m.status = 200 /\ m.method \in {"INVITE", "UPDATE"}
       \/ m.status \in {202, 603} /\ m.method = "REFER"
    /\ Main \in acked /\ m.by \in Sides /\ Within(Other(m.by), Main, m.cseq, m.from, m.to)
    /\ ~Awaited(Other(m.by), m.cseq)
IsDialogAck(m) ==
    /\ m.status = 0 /\ m.method = "ACK"
    /\ Main \in acked /\ m.by \in Sides /\ Within(m.by, Main, m.cseq, m.from, m.to)
    /\ ~Awaited(m.by, m.cseq)
IsBye(m) ==
    /\ m.status = 0 /\ m.method = "BYE" /\ m.by \in Sides
    /\ \E i \in 1..Len(byes) : /\ byes[i].by = m.by
                               /\ Within(m.by, byes[i].dialog, m.cseq, m.from, m.to)

\* Any message is of one of these kinds.
Legal(m) ==
    \/ IsInvite(m) \/ IsProvisional(m) \/ IsAnswer(m) \/ IsChallenge(m) \/ IsRefusal(m)
    \/ IsAckOfFailure(m) \/ IsAckOfAnswer(m) \/ IsCancel(m)
    \/ IsDialogRequest(m) \/ IsDialogReply(m) \/ IsDialogAck(m) \/ IsBye(m)

\* The capture: it starts with an INVITE, is timed by its places, and all of it is legal.
Captured ==
    /\ msgs \in Seq(MessageSet) /\ msgs # <<>> /\ IsInvite(msgs[1])
    /\ \A i \in Places : msgs[i].at = i /\ Legal(msgs[i])

\* Once there is an answer, the dialog of the first and the numbers of its
\* requests stay what they are.
LEMMA DialogStays ==
  ASSUME State, State', Evolves, answers # <<>>
  PROVE  /\ attempt' = attempt /\ phase = "answered" /\ phase' = "answered" /\ Main \in Callees
         /\ Main' = Main /\ ToSet(answers) \subseteq ToSet(answers') /\ acked \subseteq acked'
         /\ \A side \in Sides, c \in Callees, cseq \in Nat :
               \A from, to : Within(side, c, cseq, from, to) => Within(side, c, cseq, from, to)'
  <1>1. /\ phase = "answered" /\ phase' = "answered" /\ attempt' = attempt /\ acked \subseteq acked'
        /\ \A p \in {Caller} \cup Callees : seq[p] <= seq'[p]
    BY DEF State, Related, Evolves
  <1>2. /\ answers \in Seq(Callees) /\ attempt \in Nat
        /\ \A p \in {Caller} \cup Callees : seq[p] \in Nat /\ seq'[p] \in Nat
    BY DEF State, Typed
  <1>3. Main' = Main /\ ToSet(answers) \subseteq ToSet(answers')
    <2>1. CASE answers' = answers
      BY <2>1 DEF Main
    <2>2. ASSUME NEW c \in Callees, answers' = Append(answers, c)
          PROVE  Main' = Main /\ ToSet(answers) \subseteq ToSet(answers')
      BY <1>2, <2>2, AnswersAfter DEF Main
    <2> QED BY <2>1, <2>2 DEF Evolves
  <1>4. Main \in Callees
    BY <1>2 DEF Main
  <1>5. ASSUME NEW side \in Sides, NEW c \in Callees, NEW cseq \in Nat, NEW from, NEW to,
               Within(side, c, cseq, from, to)
        PROVE  Within(side, c, cseq, from, to)'
    <2>1. PICK a, s, t : a = seq[Caller] /\ s = seq[c] /\ t = attempt
      OBVIOUS
    <2>2. PICK a1, s1 : a1 = seq'[Caller] /\ s1 = seq'[c]
      OBVIOUS
    <2>3. /\ a \in Nat /\ s \in Nat /\ t \in Nat /\ a1 \in Nat /\ s1 \in Nat /\ a <= a1 /\ s <= s1
      BY <1>1, <1>2, <2>1, <2>2
    <2>4. \/ side = "caller" /\ from = Caller /\ to = c /\ t < cseq /\ cseq <= a
          \/ side = "callee" /\ from = c /\ to = Caller /\ 0 < cseq /\ cseq <= s
      BY <1>5, <2>1 DEF Within
    <2>5. \/ side = "caller" /\ from = Caller /\ to = c /\ t < cseq /\ cseq <= a1
          \/ side = "callee" /\ from = c /\ to = Caller /\ 0 < cseq /\ cseq <= s1
      BY <2>3, <2>4
    <2> QED BY <1>1, <2>1, <2>2, <2>5 DEF Within
  <1> QED BY <1>1, <1>3, <1>4, <1>5

\* A request that was answered is not awaited again: its side numbers them upwards.
LEMMA NotAwaitedAgain ==
  ASSUME State, State', Evolves, answers # <<>>, NEW side \in Sides, NEW cseq \in Nat, NEW from, NEW to,
         Within(side, Main, cseq, from, to), ~Awaited(side, cseq)
  PROVE  ~Awaited(side, cseq)'
  <1>1. CASE pending' = pending \/ pending' = NoTag
    BY <1>1 DEF Awaited
  <1>2. CASE pending = NoTag /\ pending' # NoTag /\ pending'.cseq > seq[Party(pending'.side, Main)]
    <2>1. SUFFICES ASSUME pending'.side = side, pending'.cseq = cseq PROVE FALSE
      BY DEF Awaited
    <2>2. cseq <= seq[Party(side, Main)] /\ seq[Party(side, Main)] \in Nat
      BY DialogStays DEF Within, Party, State, Typed, Sides
    <2> QED BY <1>2, <2>1, <2>2
  <1> QED BY <1>1, <1>2 DEF Evolves

\* What a message was, it stays.
LEMMA LegalStays ==
  ASSUME State, State', Evolves, NEW m \in MessageSet, Legal(m)
  PROVE  Legal(m)'
  <1>1. /\ attempt \in Nat /\ attempt' \in Nat /\ attempt <= attempt' /\ m.cseq \in Nat
        /\ answers \in Seq(Callees)
    BY DEF State, Typed, Evolves, MessageSet
  <1>2. IsInvite(m) => IsInvite(m)'
    BY <1>1 DEF IsInvite
  <1>3. IsProvisional(m) => IsProvisional(m)'
    BY <1>1 DEF IsProvisional
  <1>4. IsAnswer(m) => IsAnswer(m)'
    <2>1. \A c \in ToSet(answers) : answers # <<>>
      BY DEF ToSet
    <2> QED BY <2>1, DialogStays DEF IsAnswer
  <1>5. IsChallenge(m) => IsChallenge(m)'
    BY <1>1 DEF IsChallenge, Evolves
  <1>6. IsRefusal(m) => IsRefusal(m)'
    BY DEF IsRefusal, Evolves
  <1>7. IsAckOfFailure(m) => IsAckOfFailure(m)'
    BY <1>1 DEF IsAckOfFailure, Evolves
  <1>8. acked # {} => answers # <<>>
    BY DEF State, Typed, ToSet
  <1>9. IsAckOfAnswer(m) => IsAckOfAnswer(m)'
    BY <1>8, DialogStays DEF IsAckOfAnswer
  <1>10. IsCancel(m) => IsCancel(m)'
    BY DEF IsCancel, Evolves, State, Related
  <1>11. IsDialogRequest(m) => IsDialogRequest(m)'
    BY <1>1, <1>8, DialogStays DEF IsDialogRequest
  <1>12. IsDialogReply(m) => IsDialogReply(m)'
    <2> SUFFICES ASSUME IsDialogReply(m) PROVE IsDialogReply(m)'
      OBVIOUS
    <2>1. /\ Main \in acked /\ answers # <<>> /\ Other(m.by) \in Sides
          /\ Within(Other(m.by), Main, m.cseq, m.from, m.to) /\ ~Awaited(Other(m.by), m.cseq)
      BY <1>8 DEF IsDialogReply, Other, Sides
    <2>2. Within(Other(m.by), Main, m.cseq, m.from, m.to)' /\ Main' \in acked'
      BY <1>1, <2>1, DialogStays
    <2>3. ~Awaited(Other(m.by), m.cseq)'
      BY <1>1, <2>1, NotAwaitedAgain
    <2> QED BY <2>2, <2>3 DEF IsDialogReply
  <1>13. IsDialogAck(m) => IsDialogAck(m)'
    <2> SUFFICES ASSUME IsDialogAck(m) PROVE IsDialogAck(m)'
      OBVIOUS
    <2>1. /\ Main \in acked /\ answers # <<>> /\ m.by \in Sides
          /\ Within(m.by, Main, m.cseq, m.from, m.to) /\ ~Awaited(m.by, m.cseq)
      BY <1>8 DEF IsDialogAck
    <2>2. Within(m.by, Main, m.cseq, m.from, m.to)' /\ Main' \in acked'
      BY <1>1, <2>1, DialogStays
    <2>3. ~Awaited(m.by, m.cseq)'
      BY <1>1, <2>1, NotAwaitedAgain
    <2> QED BY <2>2, <2>3 DEF IsDialogAck
  <1>14. IsBye(m) => IsBye(m)'
    <2> SUFFICES ASSUME IsBye(m) PROVE IsBye(m)'
      OBVIOUS
    <2>1. PICK i \in 1..Len(byes) : /\ byes[i].by = m.by
                                    /\ Within(m.by, byes[i].dialog, m.cseq, m.from, m.to)
      BY DEF IsBye
    <2>2. m.by \in Sides /\ byes[i].dialog \in Callees /\ answers # <<>>
      <3>1. byes[i].dialog \in Callees
        <4>1. byes \in Seq([dialog : Callees, by : Sides])
          BY DEF State, Typed
        <4>2. byes[i] \in [dialog : Callees, by : Sides]
          BY <4>1, ElementOfSeq, Zenon
        <4> QED BY ONLY <4>2
      <3>3. byes[i].dialog \in ToSet(answers)
        BY ONLY State, i \in 1..Len(byes) DEF State, Related
      <3>2. \A c \in ToSet(answers) : answers # <<>>
        BY DEF ToSet
      <3> QED BY <3>1, <3>2, <3>3 DEF IsBye
    <2>3. i \in 1..Len(byes') /\ byes'[i] = byes[i]
      <3>1. byes \in Seq([dialog : Callees, by : Sides])
        BY DEF State, Typed
      <3>2. CASE byes' = byes
        BY <3>2
      <3>3. ASSUME NEW b \in [dialog : Callees, by : Sides], byes' = Append(byes, b)
            PROVE  i \in 1..Len(byes') /\ byes'[i] = byes[i]
        <4>1. Len(Append(byes, b)) = Len(byes) + 1 /\ Append(byes, b)[i] = byes[i] /\ Len(byes) \in Nat
          BY <3>1, AppendProperties
        <4> QED BY <3>3, <4>1
      <3> QED BY <3>2, <3>3 DEF Evolves
    <2>4. Within(m.by, byes[i].dialog, m.cseq, m.from, m.to)'
      <3>1. PICK c \in Callees : c = byes[i].dialog
        BY <2>2
      <3>2. Within(m.by, c, m.cseq, m.from, m.to)'
        BY <1>1, <2>1, <2>2, <3>1, DialogStays
      <3> QED BY <2>3, <3>1, <3>2 DEF Within
    <2> QED BY <2>1, <2>3, <2>4 DEF IsBye
  <1> QED BY <1>2, <1>3, <1>4, <1>5, <1>6, <1>7, <1>9, <1>10, <1>11, <1>12, <1>13, <1>14 DEF Legal

-----------------------------------------------------------------------------
(* What each step adds to the capture.                                      *)
Is(m, status, method, cseq, from, to, sdp, by) ==
    /\ m.status = status /\ m.method = method /\ m.cseq = cseq
    /\ m.from = from /\ m.to = to /\ m.sdp = sdp /\ m.by = by

\* A step captures n more messages.
Extends(n) ==
    /\ msgs' \in Seq(MessageSet) /\ Len(msgs') = Len(msgs) + n
    /\ \A i \in Places : msgs'[i] = msgs[i]
    /\ \A i \in 1..Len(msgs') : i \notin Places => msgs'[i].at = i

\* A sequence after another.
LEMMA Joins ==
  ASSUME NEW S, NEW s \in Seq(S), NEW new \in Seq(S)
  PROVE  /\ s \o new \in Seq(S) /\ Len(s \o new) = Len(s) + Len(new)
         /\ \A i \in 1..Len(s) : (s \o new)[i] = s[i]
         /\ \A k \in 1..Len(new) : (s \o new)[Len(s) + k] = new[k]
  <1>1. /\ s \o new \in Seq(S) /\ Len(s \o new) = Len(s) + Len(new) /\ Len(s) \in Nat /\ Len(new) \in Nat
        /\ \A i \in 1..(Len(s) + Len(new)) : (s \o new)[i] = IF i <= Len(s) THEN s[i] ELSE new[i - Len(s)]
    BY ConcatProperties, LenProperties
  <1>2. \A k \in 1..Len(new) : /\ Len(s) + k \in 1..(Len(s) + Len(new)) /\ ~(Len(s) + k <= Len(s))
                                /\ (Len(s) + k) - Len(s) = k
    BY <1>1
  <1> QED BY <1>1, <1>2

\* A message that a step makes is a message, and stays what it is when it is dated.
LEMMA Dated ==
  ASSUME NEW m \in MessageSet, NEW t \in Nat
  PROVE  /\ [m EXCEPT !.at = t] \in MessageSet /\ [m EXCEPT !.at = t].at = t
         /\ Is([m EXCEPT !.at = t], m.status, m.method, m.cseq, m.from, m.to, m.sdp, m.by)
         /\ Transaction([m EXCEPT !.at = t]) = Transaction(m)
  BY DEF MessageSet, Is, Transaction

\* A message has the fields it was made of.
LEMMA MessageIs ==
  ASSUME NEW status \in Nat, NEW method \in {"INVITE", "ACK", "CANCEL", "BYE", "UPDATE", "REFER"},
         NEW cseq \in Nat, NEW from \in {Caller} \cup Callees, NEW to \in {Caller, "uas", NoTag} \cup Callees,
         NEW sdp \in {"none", "active", "hold"}, NEW by \in Sides
  PROVE  /\ Message(status, method, cseq, from, to, sdp, by) \in MessageSet
         /\ Is(Message(status, method, cseq, from, to, sdp, by), status, method, cseq, from, to, sdp, by)
  BY DEF Message, MessageSet, Is

LEMMA ResponseIs ==
  ASSUME NEW status \in Nat, NEW cseq \in Nat, NEW to \in {Caller, "uas", NoTag} \cup Callees
  PROVE  /\ Response(status, cseq, to) \in MessageSet
         /\ Is(Response(status, cseq, to), status, "INVITE", cseq, Caller, to, "none", "callee")
  <1>1. "callee" \in Sides
    BY DEF Sides
  <1> QED BY <1>1, MessageIs DEF Response

LEMMA RequestIs ==
  ASSUME NEW method \in {"INVITE", "ACK", "CANCEL", "BYE", "UPDATE", "REFER"}, NEW cseq \in Nat,
         NEW to \in {Caller, "uas", NoTag} \cup Callees
  PROVE  /\ Request(method, cseq, to) \in MessageSet
         /\ Is(Request(method, cseq, to), 0, method, cseq, Caller, to, "none", "caller")
  <1>1. "caller" \in Sides
    BY DEF Sides
  <1> QED BY <1>1, MessageIs DEF Request

\* What Capture makes of one message, and of two.
LEMMA CaptureOne ==
  ASSUME msgs \in Seq(MessageSet), NEW m \in MessageSet, Capture(<<m>>)
  PROVE  Extends(1) /\ msgs'[Len(msgs) + 1] = [m EXCEPT !.at = Len(msgs) + 1]
  <1>1. PICK new : new = [i \in 1..Len(<<m>>) |-> [<<m>>[i] EXCEPT !.at = Len(msgs) + i]]
    OBVIOUS
  <1>2. Len(msgs) \in Nat /\ Len(<<m>>) = 1 /\ <<m>>[1] = m
    OBVIOUS
  <1>3. new[1] = [m EXCEPT !.at = Len(msgs) + 1] /\ new = [i \in 1..1 |-> new[i]]
    BY <1>1, <1>2
  <1>4. new[1] \in MessageSet /\ new[1].at = Len(msgs) + 1
    <2>1. Len(msgs) + 1 \in Nat
      BY <1>2
    <2> QED BY <1>3, <2>1, Dated, Zenon
  <1>5. new \in [1..1 -> MessageSet]
    <2>1. \A i \in 1..1 : i = 1
      OBVIOUS
    <2> QED BY <1>3, <1>4, <2>1
  <1>6. msgs' = msgs \o new
    BY <1>1 DEF Capture
  <1>7. /\ msgs' \in Seq(MessageSet) /\ Len(msgs') = Len(msgs) + 1
        /\ \A i \in 1..Len(msgs) : msgs'[i] = msgs[i]
        /\ \A k \in 1..1 : msgs'[Len(msgs) + k] = new[k]
    <2>1. 1 \in Nat
      OBVIOUS
    <2>2. /\ msgs \o new \in Seq(MessageSet) /\ Len(msgs \o new) = Len(msgs) + 1
          /\ \A i \in 1..Len(msgs) : (msgs \o new)[i] = msgs[i]
          /\ \A k \in 1..1 : (msgs \o new)[Len(msgs) + k] = new[k]
      <3>1. new \in Seq(MessageSet)
        <4>1. PICK k \in Nat : k = 1
          BY <2>1
        <4>2. new \in [1..k -> MessageSet]
          BY <1>5, <4>1
        <4> QED BY ONLY <4>2, SeqDef
      <3>2. Len(new) = 1
        <4>1. DOMAIN new = 1..1 /\ DOMAIN new = 1..Len(new) /\ Len(new) \in Nat
          BY <1>5, <3>1, LenProperties
        <4> QED BY ONLY <4>1
      <3>3. /\ msgs \o new \in Seq(MessageSet) /\ Len(msgs \o new) = Len(msgs) + Len(new)
            /\ \A i \in 1..Len(msgs) : (msgs \o new)[i] = msgs[i]
            /\ \A k \in 1..Len(new) : (msgs \o new)[Len(msgs) + k] = new[k]
        BY <3>1, Joins
      <3> QED BY <3>2, <3>3
    <2> QED BY <1>6, <2>2, Zenon
  <1>8. msgs'[Len(msgs) + 1] = new[1]
    BY <1>7
  <1>9. \A i \in 1..Len(msgs') : i \notin Places => msgs'[i].at = i
    BY <1>2, <1>4, <1>7, <1>8 DEF Places
  <1> QED BY <1>3, <1>7, <1>8, <1>9 DEF Extends, Places

LEMMA CaptureTwo ==
  ASSUME msgs \in Seq(MessageSet), NEW m \in MessageSet, NEW n \in MessageSet, Capture(<<m, n>>)
  PROVE  /\ Extends(2) /\ msgs'[Len(msgs) + 1] = [m EXCEPT !.at = Len(msgs) + 1]
         /\ msgs'[Len(msgs) + 2] = [n EXCEPT !.at = Len(msgs) + 2]
  <1>1. PICK new : new = [i \in 1..Len(<<m, n>>) |-> [<<m, n>>[i] EXCEPT !.at = Len(msgs) + i]]
    OBVIOUS
  <1>2. Len(msgs) \in Nat /\ Len(<<m, n>>) = 2 /\ <<m, n>>[1] = m /\ <<m, n>>[2] = n
    OBVIOUS
  <1>3. /\ new[1] = [m EXCEPT !.at = Len(msgs) + 1] /\ new[2] = [n EXCEPT !.at = Len(msgs) + 2]
        /\ new = [i \in 1..2 |-> new[i]]
    <2>1. 1 \in 1..Len(<<m, n>>) /\ 2 \in 1..Len(<<m, n>>) /\ 1..Len(<<m, n>>) = 1..2
      BY <1>2
    <2>2. /\ new[1] = [<<m, n>>[1] EXCEPT !.at = Len(msgs) + 1] /\ new[2] = [<<m, n>>[2] EXCEPT !.at = Len(msgs) + 2]
          /\ new = [i \in 1..2 |-> new[i]]
      BY <1>1, <2>1
    <2> QED BY <1>2, <2>2
  <1>4. /\ new[1] \in MessageSet /\ new[1].at = Len(msgs) + 1
        /\ new[2] \in MessageSet /\ new[2].at = Len(msgs) + 2
    <2>1. Len(msgs) + 1 \in Nat /\ Len(msgs) + 2 \in Nat
      BY <1>2
    <2>2. [m EXCEPT !.at = Len(msgs) + 1] \in MessageSet /\ [m EXCEPT !.at = Len(msgs) + 1].at = Len(msgs) + 1
      BY <2>1, Dated
    <2>3. [n EXCEPT !.at = Len(msgs) + 2] \in MessageSet /\ [n EXCEPT !.at = Len(msgs) + 2].at = Len(msgs) + 2
      BY <2>1, Dated
    <2> QED BY <1>3, <2>2, <2>3, Zenon
  <1>5. new \in [1..2 -> MessageSet]
    <2>1. \A i \in 1..2 : i = 1 \/ i = 2
      OBVIOUS
    <2> QED BY <1>3, <1>4, <2>1
  <1>6. msgs' = msgs \o new
    BY <1>1 DEF Capture
  <1>7. /\ msgs' \in Seq(MessageSet) /\ Len(msgs') = Len(msgs) + 2
        /\ \A i \in 1..Len(msgs) : msgs'[i] = msgs[i]
        /\ \A k \in 1..2 : msgs'[Len(msgs) + k] = new[k]
    <2>1. 2 \in Nat
      OBVIOUS
    <2>2. /\ msgs \o new \in Seq(MessageSet) /\ Len(msgs \o new) = Len(msgs) + 2
          /\ \A i \in 1..Len(msgs) : (msgs \o new)[i] = msgs[i]
          /\ \A k \in 1..2 : (msgs \o new)[Len(msgs) + k] = new[k]
      <3>1. new \in Seq(MessageSet)
        <4>1. PICK k \in Nat : k = 2
          BY <2>1
        <4>2. new \in [1..k -> MessageSet]
          BY <1>5, <4>1
        <4> QED BY ONLY <4>2, SeqDef
      <3>2. Len(new) = 2
        <4>1. DOMAIN new = 1..2 /\ DOMAIN new = 1..Len(new) /\ Len(new) \in Nat
          BY <1>5, <3>1, LenProperties
        <4> QED BY ONLY <4>1
      <3>3. /\ msgs \o new \in Seq(MessageSet) /\ Len(msgs \o new) = Len(msgs) + Len(new)
            /\ \A i \in 1..Len(msgs) : (msgs \o new)[i] = msgs[i]
            /\ \A k \in 1..Len(new) : (msgs \o new)[Len(msgs) + k] = new[k]
        BY <3>1, Joins
      <3> QED BY <3>2, <3>3
    <2> QED BY <1>6, <2>2, Zenon
  <1>8. msgs'[Len(msgs) + 1] = new[1] /\ msgs'[Len(msgs) + 2] = new[2]
    BY <1>7
  <1>9. \A i \in 1..Len(msgs') : i \notin Places => msgs'[i].at = i
    BY <1>2, <1>4, <1>7, <1>8 DEF Places
  <1> QED BY <1>3, <1>7, <1>8, <1>9 DEF Extends, Places

\* The fields of the one or two messages of a step.
LEMMA SendsOne ==
  ASSUME msgs \in Seq(MessageSet), NEW m \in MessageSet, Capture(<<m>>),
         NEW status, NEW method, NEW cseq, NEW from, NEW to, NEW sdp, NEW by,
         Is(m, status, method, cseq, from, to, sdp, by)
  PROVE  Extends(1) /\ Is(msgs'[Len(msgs) + 1], status, method, cseq, from, to, sdp, by)
  <1>1. Len(msgs) + 1 \in Nat
    OBVIOUS
  <1>2. Extends(1) /\ msgs'[Len(msgs) + 1] = [m EXCEPT !.at = Len(msgs) + 1]
    BY CaptureOne
  <1>3. Is([m EXCEPT !.at = Len(msgs) + 1], m.status, m.method, m.cseq, m.from, m.to, m.sdp, m.by)
    BY <1>1, Dated
  <1> QED BY <1>2, <1>3 DEF Is

\* The same for two messages.
LEMMA SendsTwo ==
  ASSUME msgs \in Seq(MessageSet), NEW m \in MessageSet, NEW n \in MessageSet, Capture(<<m, n>>),
         NEW status, NEW method, NEW cseq, NEW from, NEW to, NEW sdp, NEW by,
         Is(m, status, method, cseq, from, to, sdp, by),
         NEW status2, NEW method2, NEW cseq2, NEW from2, NEW to2, NEW sdp2, NEW by2,
         Is(n, status2, method2, cseq2, from2, to2, sdp2, by2)
  PROVE  /\ Extends(2) /\ Is(msgs'[Len(msgs) + 1], status, method, cseq, from, to, sdp, by)
         /\ Is(msgs'[Len(msgs) + 2], status2, method2, cseq2, from2, to2, sdp2, by2)
  <1>1. Len(msgs) + 1 \in Nat /\ Len(msgs) + 2 \in Nat
    OBVIOUS
  <1>2. /\ Extends(2) /\ msgs'[Len(msgs) + 1] = [m EXCEPT !.at = Len(msgs) + 1]
        /\ msgs'[Len(msgs) + 2] = [n EXCEPT !.at = Len(msgs) + 2]
    BY CaptureTwo
  <1>3. Is([m EXCEPT !.at = Len(msgs) + 1], m.status, m.method, m.cseq, m.from, m.to, m.sdp, m.by)
    BY <1>1, Dated
  <1>4. Is([n EXCEPT !.at = Len(msgs) + 2], n.status, n.method, n.cseq, n.from, n.to, n.sdp, n.by)
    BY <1>1, Dated
  <1> QED BY <1>2, <1>3, <1>4 DEF Is

\* The messages of each step.
LEMMA ChallengeSends ==
  ASSUME State, Captured, Challenge
  PROVE  /\ Extends(2) /\ Is(msgs'[Len(msgs) + 1], 401, "INVITE", attempt, Caller, "uas", "none", "callee")
         /\ Is(msgs'[Len(msgs) + 2], 0, "ACK", attempt, Caller, "uas", "none", "caller")
  <1>1. attempt \in Nat /\ msgs \in Seq(MessageSet)
    BY DEF State, Typed, Captured
  <1>2. PICK m, n : m = Response(401, attempt, "uas") /\ n = Request("ACK", attempt, "uas")
    OBVIOUS
  <1>3. /\ m \in MessageSet /\ Is(m, 401, "INVITE", attempt, Caller, "uas", "none", "callee")
        /\ n \in MessageSet /\ Is(n, 0, "ACK", attempt, Caller, "uas", "none", "caller")
    BY <1>1, <1>2, ResponseIs, RequestIs
  <1>4. Capture(<<m, n>>)
    BY <1>2 DEF Challenge
  <1> QED BY <1>1, <1>3, <1>4, SendsTwo

\* What each step sends.
LEMMA RetrySends ==
  ASSUME State, Captured, Retry
  PROVE  Extends(1) /\ Is(msgs'[Len(msgs) + 1], 0, "INVITE", attempt + 1, Caller, NoTag, "active", "caller")
  <1>1. attempt \in Nat /\ attempt + 1 \in Nat /\ msgs \in Seq(MessageSet)
    BY DEF State, Typed, Captured
  <1>2. PICK m : m = Message(0, "INVITE", attempt + 1, Caller, NoTag, "active", "caller")
    OBVIOUS
  <1>3. m \in MessageSet /\ Is(m, 0, "INVITE", attempt + 1, Caller, NoTag, "active", "caller")
    BY <1>1, <1>2, MessageIs DEF Sides
  <1>4. Capture(<<m>>)
    BY <1>2 DEF Retry
  <1> QED BY <1>1, <1>3, <1>4, SendsOne

LEMMA ResponseSends ==
  ASSUME State, Captured, NEW status \in {100, 180, 200}, NEW to \in Callees \cup {NoTag},
         Capture(<<Response(status, attempt, to)>>)
  PROVE  Extends(1) /\ Is(msgs'[Len(msgs) + 1], status, "INVITE", attempt, Caller, to, "none", "callee")
  <1>1. attempt \in Nat /\ msgs \in Seq(MessageSet)
    BY DEF State, Typed, Captured
  <1>2. PICK m : m = Response(status, attempt, to)
    OBVIOUS
  <1>3. m \in MessageSet /\ Is(m, status, "INVITE", attempt, Caller, to, "none", "callee")
    BY <1>1, <1>2, ResponseIs
  <1>4. Capture(<<m>>)
    BY <1>2
  <1> QED BY <1>1, <1>3, <1>4, SendsOne

LEMMA AckSends ==
  ASSUME State, Captured, NEW c \in Callees, Ack(c)
  PROVE  Extends(1) /\ Is(msgs'[Len(msgs) + 1], 0, "ACK", attempt, Caller, c, "none", "caller")
  <1>1. attempt \in Nat /\ msgs \in Seq(MessageSet)
    BY DEF State, Typed, Captured
  <1>2. PICK m : m = Request("ACK", attempt, c)
    OBVIOUS
  <1>3. m \in MessageSet /\ Is(m, 0, "ACK", attempt, Caller, c, "none", "caller")
    BY <1>1, <1>2, RequestIs
  <1>4. Capture(<<m>>)
    BY <1>2 DEF Ack
  <1> QED BY <1>1, <1>3, <1>4, SendsOne

LEMMA CancelSends ==
  ASSUME State, Captured, Cancel
  PROVE  /\ Extends(2) /\ Is(msgs'[Len(msgs) + 1], 0, "CANCEL", attempt, Caller, NoTag, "none", "caller")
         /\ Is(msgs'[Len(msgs) + 2], 200, "CANCEL", attempt, Caller, "uas", "none", "callee")
  <1>1. attempt \in Nat /\ msgs \in Seq(MessageSet)
    BY DEF State, Typed, Captured
  <1>2. PICK m, n : /\ m = Request("CANCEL", attempt, NoTag)
                    /\ n = Message(200, "CANCEL", attempt, Caller, "uas", "none", "callee")
    OBVIOUS
  <1>3. /\ m \in MessageSet /\ Is(m, 0, "CANCEL", attempt, Caller, NoTag, "none", "caller")
        /\ n \in MessageSet /\ Is(n, 200, "CANCEL", attempt, Caller, "uas", "none", "callee")
    <2>1. m \in MessageSet /\ Is(m, 0, "CANCEL", attempt, Caller, NoTag, "none", "caller")
      BY <1>1, <1>2, RequestIs
    <2>2. n \in MessageSet /\ Is(n, 200, "CANCEL", attempt, Caller, "uas", "none", "callee")
      <3>0. PICK status \in Nat : status = 200
        OBVIOUS
      <3>1. "callee" \in Sides /\ "uas" \in {Caller, "uas", NoTag} \cup Callees
        BY DEF Sides
      <3>2. /\ Message(status, "CANCEL", attempt, Caller, "uas", "none", "callee") \in MessageSet
            /\ Is(Message(status, "CANCEL", attempt, Caller, "uas", "none", "callee"),
                  status, "CANCEL", attempt, Caller, "uas", "none", "callee")
        BY <1>1, <3>1, MessageIs
      <3> QED BY <1>2, <3>0, <3>2
    <2> QED BY <2>1, <2>2
  <1>4. Capture(<<m, n>>)
    BY <1>2 DEF Cancel
  <1> QED BY <1>1, <1>3, <1>4, SendsTwo

LEMMA RefuseSends ==
  ASSUME State, Captured, Refuse
  PROVE  \E status \in {486, 487} :
           /\ phase' = IF status = 486 THEN "486" ELSE "487"
           /\ Extends(2) /\ Is(msgs'[Len(msgs) + 1], status, "INVITE", attempt, Caller, "uas", "none", "callee")
           /\ Is(msgs'[Len(msgs) + 2], 0, "ACK", attempt, Caller, "uas", "none", "caller")
  <1>1. attempt \in Nat /\ msgs \in Seq(MessageSet)
    BY DEF State, Typed, Captured
  <1>2. PICK status \in {486, 487} :
            /\ Capture(<<Response(status, attempt, "uas"), Request("ACK", attempt, "uas")>>)
            /\ phase' = IF status = 486 THEN "486" ELSE "487"
    BY DEF Refuse
  <1>3. PICK m, n : m = Response(status, attempt, "uas") /\ n = Request("ACK", attempt, "uas")
    OBVIOUS
  <1>4. /\ m \in MessageSet /\ Is(m, status, "INVITE", attempt, Caller, "uas", "none", "callee")
        /\ n \in MessageSet /\ Is(n, 0, "ACK", attempt, Caller, "uas", "none", "caller")
    <2>1. status \in Nat
      OBVIOUS
    <2>2. m \in MessageSet /\ Is(m, status, "INVITE", attempt, Caller, "uas", "none", "callee")
      BY <1>1, <1>3, <2>1, ResponseIs
    <2>3. n \in MessageSet /\ Is(n, 0, "ACK", attempt, Caller, "uas", "none", "caller")
      BY <1>1, <1>3, RequestIs
    <2> QED BY <2>2, <2>3
  <1>5. Capture(<<m, n>>)
    BY <1>2, <1>3
  <1>6. /\ Extends(2) /\ Is(msgs'[Len(msgs) + 1], status, "INVITE", attempt, Caller, "uas", "none", "callee")
        /\ Is(msgs'[Len(msgs) + 2], 0, "ACK", attempt, Caller, "uas", "none", "caller")
    BY <1>1, <1>4, <1>5, SendsTwo
  <1> QED BY <1>2, <1>6

\* A request of one side carries its tag in From and the other's in To.
LEMMA InDialogRequestIs ==
  ASSUME NEW side \in Sides, NEW c \in Callees, NEW method \in {"INVITE", "UPDATE", "REFER", "BYE"},
         NEW cseq \in Nat, NEW sdp \in {"none", "active", "hold"}
  PROVE  /\ InDialogRequest(side, c, method, cseq, sdp) \in MessageSet
         /\ Is(InDialogRequest(side, c, method, cseq, sdp), 0, method, cseq,
               Party(side, c), Party(Other(side), c), sdp, side)
  <1>1. CASE side = "caller"
    BY <1>1, MessageIs, ZenonT(30) DEF InDialogRequest, Party, Other, Sides
  <1>2. CASE side = "callee"
    BY <1>2, MessageIs DEF InDialogRequest, Party, Other, Sides
  <1> QED BY <1>1, <1>2 DEF Sides

LEMMA InDialogSends ==
  ASSUME State, Captured, NEW side \in Sides, NEW c \in Callees,
         NEW method \in {"INVITE", "UPDATE", "REFER", "BYE"},
         NEW cseq \in Nat, NEW sdp \in {"none", "active", "hold"},
         Capture(<<InDialogRequest(side, c, method, cseq, sdp)>>)
  PROVE  Extends(1) /\ Is(msgs'[Len(msgs) + 1], 0, method, cseq, Party(side, c), Party(Other(side), c), sdp, side)
  <1>1. msgs \in Seq(MessageSet)
    BY DEF Captured
  <1>2. PICK m : m = InDialogRequest(side, c, method, cseq, sdp)
    OBVIOUS
  <1>3. m \in MessageSet /\ Is(m, 0, method, cseq, Party(side, c), Party(Other(side), c), sdp, side)
    BY <1>2, InDialogRequestIs
  <1>4. Capture(<<m>>)
    BY <1>2
  <1> QED BY <1>1, <1>3, <1>4, SendsOne
\* The body of Reply, for a response and the ACK that follows it.
Answering(request, side, method, cseq, status) ==
    LET response == [request EXCEPT !.status = status,
                                    !.by = IF side = "caller" THEN "callee" ELSE "caller"]
        ack == [request EXCEPT !.method = "ACK"] IN
    /\ Capture(IF method = "INVITE" THEN <<response, ack>> ELSE <<response>>)
    /\ refers' = {IF r.by = side /\ r.cseq = cseq THEN [r EXCEPT !.status = status]
                  ELSE r : r \in refers}

LEMMA ReplySends ==
  ASSUME State, Captured, Reply
  PROVE  \E status \in {200, 202, 603} :
           /\ status = 200 <=> pending.method # "REFER"
           /\ refers' = {IF r.by = pending.side /\ r.cseq = pending.cseq THEN [r EXCEPT !.status = status]
                         ELSE r : r \in refers}
           /\ Extends(IF pending.method = "INVITE" THEN 2 ELSE 1)
           /\ Is(msgs'[Len(msgs) + 1], status, pending.method, pending.cseq, Party(pending.side, Main),
                 Party(Other(pending.side), Main), "none", Other(pending.side))
           /\ pending.method = "INVITE" =>
                 Is(msgs'[Len(msgs) + 2], 0, "ACK", pending.cseq, Party(pending.side, Main),
                    Party(Other(pending.side), Main), "none", pending.side)
  <1>1. /\ msgs \in Seq(MessageSet) /\ pending \in Awaiting /\ pending.dialog = Main
    BY DEF State, Typed, Related, Captured, Reply
  <1>2. PICK side \in Sides, c \in Callees, method \in {"INVITE", "UPDATE", "REFER"}, cseq \in Nat :
             pending.side = side /\ pending.dialog = c /\ pending.method = method /\ pending.cseq = cseq
    BY <1>1 DEF Awaiting
  <1>3. PICK request : request = InDialogRequest(side, c, method, cseq, "none")
    OBVIOUS
  <1>4. request \in MessageSet /\ Is(request, 0, method, cseq, Party(side, c), Party(Other(side), c), "none", side)
    BY <1>3, InDialogRequestIs
  <1>5. PICK status \in IF method = "REFER" THEN {202, 603} ELSE {200} :
             Answering(request, side, method, cseq, status)
    <2>1. \E s \in IF pending.method = "REFER" THEN {202, 603} ELSE {200} :
              Answering(InDialogRequest(pending.side, pending.dialog, pending.method, pending.cseq, "none"),
                        pending.side, pending.method, pending.cseq, s)
      BY DEF Reply, Answering
    <2> QED BY <1>2, <1>3, <2>1
  <1>6. PICK response, ack : /\ response = [request EXCEPT !.status = status,
                                                           !.by = IF side = "caller" THEN "callee" ELSE "caller"]
                             /\ ack = [request EXCEPT !.method = "ACK"]
    BY ZenonT(30)
  <1>7. /\ response \in MessageSet /\ ack \in MessageSet
        /\ Is(response, status, method, cseq, Party(side, c), Party(Other(side), c), "none", Other(side))
        /\ Is(ack, 0, "ACK", cseq, Party(side, c), Party(Other(side), c), "none", side)
    <2>1. status \in Nat /\ Other(side) \in Sides /\ Other(side) = IF side = "caller" THEN "callee" ELSE "caller"
      BY DEF Other, Sides
    <2>2. response = [request EXCEPT !.status = status, !.by = Other(side)]
      BY <1>6, <2>1
    <2>3. response \in MessageSet
      <3>1. PICK half : half = [request EXCEPT !.status = status]
        OBVIOUS
      <3>2. half \in MessageSet
        BY <1>4, <2>1, <3>1 DEF MessageSet
      <3>3. [half EXCEPT !.by = Other(side)] \in MessageSet
        BY <2>1, <3>2 DEF MessageSet
      <3>4. response = [half EXCEPT !.by = Other(side)]
        BY <1>4, <2>2, <3>1 DEF MessageSet
      <3> QED BY <3>3, <3>4
    <2>4. Is(response, status, method, cseq, Party(side, c), Party(Other(side), c), "none", Other(side))
      BY <1>4, <2>1, <2>2 DEF MessageSet, Is
    <2>5. ack \in MessageSet
      BY <1>4, <1>6 DEF MessageSet
    <2>6. Is(ack, 0, "ACK", cseq, Party(side, c), Party(Other(side), c), "none", side)
      BY <1>4, <1>6 DEF MessageSet, Is
    <2> QED BY <2>3, <2>4, <2>5, <2>6
  <1>8. CASE method = "INVITE"
    <2>1. Capture(<<response, ack>>)
      BY <1>5, <1>6, <1>8 DEF Answering
    <2>2. /\ Extends(2) /\ Is(msgs'[Len(msgs) + 1], status, method, cseq, Party(side, c), Party(Other(side), c), "none", Other(side))
          /\ Is(msgs'[Len(msgs) + 2], 0, "ACK", cseq, Party(side, c), Party(Other(side), c), "none", side)
      BY <1>1, <1>7, <2>1, SendsTwo
    <2> QED BY <1>1, <1>2, <1>5, <1>8, <2>2 DEF Answering
  <1>9. CASE method # "INVITE"
    <2>1. Capture(<<response>>)
      BY <1>5, <1>6, <1>9 DEF Answering
    <2>2. Extends(1) /\ Is(msgs'[Len(msgs) + 1], status, method, cseq, Party(side, c), Party(Other(side), c), "none", Other(side))
      BY <1>1, <1>7, <2>1, SendsOne
    <2> QED BY <1>1, <1>2, <1>5, <1>9, <2>2 DEF Answering
  <1> QED BY <1>8, <1>9

-----------------------------------------------------------------------------
(* Every message of a step is of one of those kinds, and a new transaction. *)
Unsent(status, method, cseq, from, to) ==
    \A i \in Places : ~(/\ msgs[i].status = status /\ msgs[i].method = method /\ msgs[i].cseq = cseq
                        /\ msgs[i].from = from /\ msgs[i].to = to)

\* A message of which the capture has no copy.
Fresh(m) == \A i \in Places : Transaction(msgs[i]) # Transaction(m)

\* A step captures n messages that are legal after it, and none of them a copy.
Adds(n) ==
    /\ Extends(n)
    /\ \A i \in 1..Len(msgs') : i \notin Places => \E m : m = msgs'[i] /\ Legal(m)' /\ Fresh(m)
    /\ n = 2 => Transaction(msgs'[Len(msgs) + 1]) # Transaction(msgs'[Len(msgs) + 2])

\* A message of the capture is legal.
LEMMA AtPlace == ASSUME Captured, NEW i \in Places PROVE msgs[i] \in MessageSet /\ Legal(msgs[i])
  BY ElementOfSeq DEF Captured, Places

\* A message whose fields no captured one has is not a copy.
LEMMA UnsentIsFresh ==
  ASSUME NEW m, NEW status, NEW method, NEW cseq, NEW from, NEW to, NEW sdp, NEW by,
         Is(m, status, method, cseq, from, to, sdp, by), Unsent(status, method, cseq, from, to)
  PROVE  Fresh(m)
  BY DEF Fresh, Unsent, Is, Transaction

\* One such message, and two.
LEMMA AddsOne ==
  ASSUME msgs \in Seq(MessageSet), Extends(1), NEW m, m = msgs'[Len(msgs) + 1], Legal(m)', Fresh(m)
  PROVE  Adds(1)
  <1>1. \A i \in 1..Len(msgs') : i \notin Places => i = Len(msgs) + 1
    BY DEF Extends, Places
  <1> QED BY <1>1 DEF Adds

LEMMA AddsTwo ==
  ASSUME msgs \in Seq(MessageSet), Extends(2), NEW m, m = msgs'[Len(msgs) + 1], Legal(m)', Fresh(m),
         NEW n, n = msgs'[Len(msgs) + 2], Legal(n)', Fresh(n), m.status # n.status \/ m.method # n.method
  PROVE  Adds(2)
  <1>1. \A i \in 1..Len(msgs') : i \notin Places => i = Len(msgs) + 1 \/ i = Len(msgs) + 2
    BY DEF Extends, Places
  <1>2. Transaction(m) # Transaction(n)
    BY DEF Transaction
  <1> QED BY <1>1, <1>2 DEF Adds

\* Every step but Repeat adds messages that were not sent before.
LEMMA ChallengeAdds == ASSUME State, State', Captured, Challenge PROVE Adds(2)
  <1>1. /\ phase = "calling" /\ phase' = "challenged" /\ attempt' = attempt /\ attempt \in Nat \ {0}
        /\ msgs \in Seq(MessageSet)
    BY DEF Challenge, State, Typed, Captured
  <1>2. PICK m, n : m = msgs'[Len(msgs) + 1] /\ n = msgs'[Len(msgs) + 2]
    OBVIOUS
  <1>3. /\ Extends(2) /\ Is(m, 401, "INVITE", attempt, Caller, "uas", "none", "callee")
        /\ Is(n, 0, "ACK", attempt, Caller, "uas", "none", "caller")
    BY <1>2, ChallengeSends
  <1>4. Legal(m)' /\ Legal(n)'
    BY <1>1, <1>3 DEF Is, Legal, IsChallenge, IsAckOfFailure
  <1>5. Unsent(401, "INVITE", attempt, Caller, "uas")
    BY <1>1, AtPlace DEF Unsent, Legal, IsInvite, IsProvisional, IsAnswer, IsChallenge, IsRefusal,
          IsAckOfFailure, IsAckOfAnswer, IsCancel, IsDialogRequest, IsDialogReply, IsDialogAck, IsBye
  <1>6. Unsent(0, "ACK", attempt, Caller, "uas")
    <2>1. Main \in acked => Main \in Callees /\ Main # "uas"
      BY SignallingAssumption DEF State, Typed, ToSet, Main
    <2>2. "uas" \notin acked
      BY SignallingAssumption DEF State, Typed, ToSet
    <2> QED BY <1>1, <2>1, <2>2, AtPlace DEF Unsent, Legal, IsInvite, IsProvisional, IsAnswer, IsChallenge, IsRefusal,
          IsAckOfFailure, IsAckOfAnswer, IsCancel, IsDialogRequest, IsDialogReply, IsDialogAck, IsBye, Within, Caller
  <1> QED BY <1>1, <1>2, <1>3, <1>4, <1>5, <1>6, UnsentIsFresh, AddsTwo DEF Is

\* The tags: a callee is neither the caller nor the server that refuses.
LEMMA Tags ==
  ASSUME State
  PROVE  /\ attempt \in Nat \ {0} /\ Caller \notin Callees /\ "uas" \notin Callees /\ NoTag \notin Callees
         /\ Caller # "uas" /\ NoTag # Caller /\ NoTag # "uas"
         /\ ToSet(answers) \subseteq Callees /\ acked \subseteq ToSet(answers)
         /\ Main \in acked => Main \in Callees
         /\ \A c \in ToSet(answers) : phase = "answered" /\ answers # <<>>
  <1>1. /\ attempt \in Nat \ {0} /\ Caller \notin Callees /\ "uas" \notin Callees /\ NoTag \notin Callees
        /\ Caller # "uas" /\ NoTag # Caller /\ NoTag # "uas"
    BY SignallingAssumption DEF State, Typed, Caller
  <1>2. /\ ToSet(answers) \subseteq Callees /\ acked \subseteq ToSet(answers)
        /\ \A c \in ToSet(answers) : answers # <<>>
    BY DEF State, Typed, ToSet
  <1>3. Main \in acked => Main \in Callees
    BY <1>2
  <1>4. answers # <<>> => phase = "answered"
    BY DEF State, Related
  <1> QED BY <1>1, <1>2, <1>3, <1>4

LEMMA RetryAdds == ASSUME State, State', Captured, Retry PROVE Adds(1)
  <1>1. /\ attempt' = attempt + 1 /\ attempt \in Nat \ {0} /\ msgs \in Seq(MessageSet)
    BY DEF Retry, State, Typed, Captured
  <1>2. PICK m : m = msgs'[Len(msgs) + 1]
    OBVIOUS
  <1>3. Extends(1) /\ Is(m, 0, "INVITE", attempt + 1, Caller, NoTag, "active", "caller")
    BY <1>2, RetrySends
  <1>4. Legal(m)'
    BY <1>1, <1>3 DEF Is, Legal, IsInvite
  <1>5. Unsent(0, "INVITE", attempt + 1, Caller, NoTag)
    BY <1>1, AtPlace, Tags DEF Unsent, Legal, IsInvite, IsProvisional, IsAnswer, IsChallenge, IsRefusal,
          IsAckOfFailure, IsAckOfAnswer, IsCancel, IsDialogRequest, IsDialogReply, IsDialogAck, IsBye, Within
  <1> QED BY <1>1, <1>2, <1>3, <1>4, <1>5, UnsentIsFresh, AddsOne

LEMMA TryingAdds == ASSUME State, State', Captured, Trying PROVE Adds(1)
  <1>1. /\ attempt' = attempt /\ attempt \in Nat \ {0} /\ msgs \in Seq(MessageSet)
        /\ \A i \in 1..Len(msgs) : msgs[i].status # 100
    BY DEF Trying, callVars, State, Typed, Captured
  <1>2. PICK m : m = msgs'[Len(msgs) + 1]
    OBVIOUS
  <1>3. Extends(1) /\ Is(m, 100, "INVITE", attempt, Caller, NoTag, "none", "callee")
    BY <1>2, ResponseSends DEF Trying
  <1>4. Legal(m)'
    BY <1>1, <1>3 DEF Is, Legal, IsProvisional
  <1>5. Unsent(100, "INVITE", attempt, Caller, NoTag)
    BY <1>1 DEF Unsent, Places
  <1> QED BY <1>1, <1>2, <1>3, <1>4, <1>5, UnsentIsFresh, AddsOne

LEMMA RingAdds == ASSUME State, State', Captured, NEW c \in Callees, Ring(c) PROVE Adds(1)
  <1>1. /\ attempt' = attempt /\ attempt \in Nat \ {0} /\ msgs \in Seq(MessageSet)
        /\ \A i \in 1..Len(msgs) : ~(msgs[i].status = 180 /\ msgs[i].to = c)
    BY DEF Ring, callVars, State, Typed, Captured
  <1>2. PICK m : m = msgs'[Len(msgs) + 1]
    OBVIOUS
  <1>3. Extends(1) /\ Is(m, 180, "INVITE", attempt, Caller, c, "none", "callee")
    BY <1>2, ResponseSends DEF Ring
  <1>4. Legal(m)'
    BY <1>1, <1>3 DEF Is, Legal, IsProvisional
  <1>5. Unsent(180, "INVITE", attempt, Caller, c)
    BY <1>1 DEF Unsent, Places
  <1> QED BY <1>1, <1>2, <1>3, <1>4, <1>5, UnsentIsFresh, AddsOne

LEMMA AcceptAdds == ASSUME State, State', Captured, NEW c \in Callees, Accept(c) PROVE Adds(1)
  <1>1. /\ attempt' = attempt /\ attempt \in Nat \ {0} /\ msgs \in Seq(MessageSet)
        /\ c \notin ToSet(answers) /\ c \in ToSet(answers')
    BY AnswersAfter DEF Accept, State, Typed, Captured
  <1>2. PICK m : m = msgs'[Len(msgs) + 1]
    OBVIOUS
  <1>3. Extends(1) /\ Is(m, 200, "INVITE", attempt, Caller, c, "none", "callee")
    BY <1>2, ResponseSends DEF Accept
  <1>4. Legal(m)'
    BY <1>1, <1>3 DEF Is, Legal, IsAnswer
  <1>5. Unsent(200, "INVITE", attempt, Caller, c)
    BY <1>1, AtPlace, Tags DEF Unsent, Legal, IsInvite, IsProvisional, IsAnswer, IsChallenge, IsRefusal,
          IsAckOfFailure, IsAckOfAnswer, IsCancel, IsDialogRequest, IsDialogReply, IsDialogAck, IsBye, Within
  <1> QED BY <1>1, <1>2, <1>3, <1>4, <1>5, UnsentIsFresh, AddsOne

LEMMA AckAdds == ASSUME State, State', Captured, NEW c \in Callees, Ack(c) PROVE Adds(1)
  <1>1. /\ attempt' = attempt /\ attempt \in Nat \ {0} /\ msgs \in Seq(MessageSet)
        /\ c \notin acked /\ c \in acked'
    BY DEF Ack, callVars, State, Typed, Captured
  <1>2. PICK m : m = msgs'[Len(msgs) + 1]
    OBVIOUS
  <1>3. Extends(1) /\ Is(m, 0, "ACK", attempt, Caller, c, "none", "caller")
    BY <1>2, AckSends
  <1>4. Legal(m)'
    BY <1>1, <1>3 DEF Is, Legal, IsAckOfAnswer
  <1>5. Unsent(0, "ACK", attempt, Caller, c)
    BY <1>1, AtPlace, Tags DEF Unsent, Legal, IsInvite, IsProvisional, IsAnswer, IsChallenge, IsRefusal,
          IsAckOfFailure, IsAckOfAnswer, IsCancel, IsDialogRequest, IsDialogReply, IsDialogAck, IsBye, Within
  <1> QED BY <1>1, <1>2, <1>3, <1>4, <1>5, UnsentIsFresh, AddsOne

LEMMA CancelAdds == ASSUME State, State', Captured, Cancel PROVE Adds(2)
  <1>1. /\ ~cancelled /\ cancelled' /\ attempt' = attempt /\ attempt \in Nat \ {0}
        /\ msgs \in Seq(MessageSet)
    BY DEF Cancel, State, Typed, Captured
  <1>2. PICK m, n : m = msgs'[Len(msgs) + 1] /\ n = msgs'[Len(msgs) + 2]
    OBVIOUS
  <1>3. /\ Extends(2) /\ Is(m, 0, "CANCEL", attempt, Caller, NoTag, "none", "caller")
        /\ Is(n, 200, "CANCEL", attempt, Caller, "uas", "none", "callee")
    BY <1>2, CancelSends
  <1>4. Legal(m)' /\ Legal(n)'
    BY <1>1, <1>3 DEF Is, Legal, IsCancel
  <1>5. Unsent(0, "CANCEL", attempt, Caller, NoTag) /\ Unsent(200, "CANCEL", attempt, Caller, "uas")
    BY <1>1, AtPlace DEF Unsent, Legal, IsInvite, IsProvisional, IsAnswer, IsChallenge, IsRefusal,
          IsAckOfFailure, IsAckOfAnswer, IsCancel, IsDialogRequest, IsDialogReply, IsDialogAck, IsBye
  <1> QED BY <1>1, <1>2, <1>3, <1>4, <1>5, UnsentIsFresh, AddsTwo DEF Is

LEMMA RefuseAdds == ASSUME State, State', Captured, Refuse PROVE Adds(2)
  <1>1. /\ phase = "calling" /\ attempt' = attempt /\ attempt \in Nat \ {0} /\ msgs \in Seq(MessageSet)
    BY DEF Refuse, State, Typed, Captured
  <1>2. PICK status \in {486, 487} :
           /\ phase' = IF status = 486 THEN "486" ELSE "487"
           /\ Extends(2) /\ Is(msgs'[Len(msgs) + 1], status, "INVITE", attempt, Caller, "uas", "none", "callee")
           /\ Is(msgs'[Len(msgs) + 2], 0, "ACK", attempt, Caller, "uas", "none", "caller")
    BY RefuseSends
  <1>3. PICK m, n : m = msgs'[Len(msgs) + 1] /\ n = msgs'[Len(msgs) + 2]
    OBVIOUS
  <1>4. /\ Is(m, status, "INVITE", attempt, Caller, "uas", "none", "callee")
        /\ Is(n, 0, "ACK", attempt, Caller, "uas", "none", "caller")
    BY <1>2, <1>3
  <1>5. Legal(m)' /\ Legal(n)'
    BY <1>1, <1>2, <1>4 DEF Is, Legal, IsRefusal, IsAckOfFailure
  <1>6. Unsent(status, "INVITE", attempt, Caller, "uas")
    BY <1>1, AtPlace DEF Unsent, Legal, IsInvite, IsProvisional, IsAnswer, IsChallenge, IsRefusal,
          IsAckOfFailure, IsAckOfAnswer, IsCancel, IsDialogRequest, IsDialogReply, IsDialogAck, IsBye
  <1>7. Unsent(0, "ACK", attempt, Caller, "uas")
    BY <1>1, AtPlace, Tags DEF Unsent, Legal, IsInvite, IsProvisional, IsAnswer, IsChallenge, IsRefusal,
          IsAckOfFailure, IsAckOfAnswer, IsCancel, IsDialogRequest, IsDialogReply, IsDialogAck, IsBye, Within
  <1> QED BY <1>1, <1>2, <1>3, <1>4, <1>5, <1>6, <1>7, UnsentIsFresh, AddsTwo DEF Is

\* A request in a dialog has a number that its side did not use before.
LEMMA NewRequest ==
  ASSUME State, Captured, NEW side \in Sides, NEW c \in Callees, NEW cseq \in Nat,
         cseq > seq[Party(side, c)], side = "caller" => cseq > attempt,
         NEW method \in {"INVITE", "UPDATE", "REFER", "BYE"}
  PROVE  Unsent(0, method, cseq, Party(side, c), Party(Other(side), c))
  <1> SUFFICES ASSUME NEW i \in Places,
                      msgs[i].status = 0, msgs[i].method = method, msgs[i].cseq = cseq,
                      msgs[i].from = Party(side, c), msgs[i].to = Party(Other(side), c)
               PROVE  FALSE
    BY DEF Unsent
  <1>1. PICK m : m = msgs[i]
    OBVIOUS
  <1>2. /\ Legal(m) /\ m.status = 0 /\ m.method = method /\ m.cseq = cseq
        /\ m.from = Party(side, c) /\ m.to = Party(Other(side), c)
    BY <1>1, AtPlace
  <1>3. m.to # NoTag
    BY <1>2, Tags DEF Party
  <1>4. IsDialogRequest(m) \/ IsBye(m)
    BY <1>2, <1>3 DEF Legal, IsInvite, IsProvisional, IsAnswer, IsChallenge, IsRefusal,
          IsAckOfFailure, IsAckOfAnswer, IsCancel, IsDialogReply, IsDialogAck
  <1>5. PICK d \in Callees : m.by \in Sides /\ Within(m.by, d, cseq, m.from, m.to)
    <2>1. CASE IsDialogRequest(m)
      BY <1>2, <2>1, Tags DEF IsDialogRequest
    <2>2. CASE IsBye(m)
      <3>1. PICK b \in 1..Len(byes) : Within(m.by, byes[b].dialog, m.cseq, m.from, m.to)
        BY <2>2 DEF IsBye
      <3>2. byes[b].dialog \in Callees
        BY Tags DEF State, Related
      <3> QED BY <1>2, <2>2, <3>1, <3>2 DEF IsBye
    <2> QED BY <1>4, <2>1, <2>2
  <1>6. seq[Caller] \in Nat /\ seq[c] \in Nat
    BY DEF State, Typed
  <1>7. CASE side = "caller"
    BY <1>2, <1>5, <1>6, <1>7, Tags DEF Within, Party, Other, Sides
  <1>8. CASE side = "callee"
    BY <1>2, <1>5, <1>6, <1>8, Tags DEF Within, Party, Other, Sides
  <1> QED BY <1>7, <1>8 DEF Sides

\* A request inside a dialog is new: its side never used the number.
LEMMA AskAdds ==
  ASSUME State, State', Captured, NEW side \in Sides, NEW c \in Callees, c = Main, c \in acked,
         NEW method \in {"INVITE", "UPDATE", "REFER"}, NEW sdp \in {"none", "active", "hold"},
         NEW cseq \in NextCSeq(Party(side, c)),
         Capture(<<InDialogRequest(side, c, method, cseq, sdp)>>),
         seq' = [seq EXCEPT ![Party(side, c)] = cseq], UNCHANGED <<attempt, answers, acked>>
  PROVE  Adds(1)
  <1>1. msgs \in Seq(MessageSet) /\ c \in ToSet(answers) /\ Main' = c /\ c \in acked'
    BY Tags DEF Captured, Main
  <1>2. /\ cseq \in Nat /\ cseq > 0 /\ cseq > seq[Party(side, c)] /\ seq'[Party(side, c)] = cseq
        /\ side = "caller" => cseq > attempt
    BY <1>1, NumberedNext
  <1>3. PICK m : m = msgs'[Len(msgs) + 1]
    OBVIOUS
  <1>4. Extends(1) /\ Is(m, 0, method, cseq, Party(side, c), Party(Other(side), c), sdp, side)
    BY <1>2, <1>3, InDialogSends
  <1>5. Legal(m)'
    <2>1. Within(side, c, cseq, Party(side, c), Party(Other(side), c))'
      BY <1>2 DEF Within, Party, Other, Sides
    <2>2. IsDialogRequest(m)'
      BY <1>1, <1>4, <2>1 DEF Is, IsDialogRequest
    <2> QED BY <2>2 DEF Legal
  <1>6. Unsent(0, method, cseq, Party(side, c), Party(Other(side), c))
    BY <1>2, NewRequest
  <1> QED BY <1>1, <1>3, <1>4, <1>5, <1>6, UnsentIsFresh, AddsOne

LEMMA OfferAdds ==
  ASSUME State, State', Captured, NEW side \in Sides, NEW c \in Callees, Offer(side, c)
  PROVE  Adds(1)
  <1>1. PICK method \in {"INVITE", "UPDATE"}, sdp \in {"active", "hold"}, cseq \in NextCSeq(Party(side, c)) :
          /\ Capture(<<InDialogRequest(side, c, method, cseq, sdp)>>)
          /\ seq' = [seq EXCEPT ![Party(side, c)] = cseq]
    BY DEF Offer
  <1>2. c = Main /\ c \in acked /\ UNCHANGED <<attempt, answers, acked>>
    BY DEF Offer, callVars, Main
  <1> QED BY <1>1, <1>2, AskAdds

LEMMA ReferAdds ==
  ASSUME State, State', Captured, NEW side \in Sides, NEW c \in Callees, Refer(side, c)
  PROVE  Adds(1)
  <1>1. PICK cseq \in NextCSeq(Party(side, c)) :
          /\ Capture(<<InDialogRequest(side, c, "REFER", cseq, "none")>>)
          /\ seq' = [seq EXCEPT ![Party(side, c)] = cseq]
    BY DEF Refer
  <1>2. c = Main /\ c \in acked /\ UNCHANGED <<attempt, answers, acked>>
    BY DEF Refer, callVars, Main
  <1> QED BY <1>1, <1>2, AskAdds

LEMMA HangUpAdds ==
  ASSUME State, State', Captured, NEW side \in Sides, NEW c \in Callees, HangUp(side, c)
  PROVE  Adds(1)
  <1>1. msgs \in Seq(MessageSet) /\ c \in ToSet(answers) /\ attempt' = attempt
    BY AnswersAfter DEF Captured, State, Typed, HangUp, callVars
  <1>2. PICK cseq \in NextCSeq(Party(side, c)) :
          /\ Capture(<<InDialogRequest(side, c, "BYE", cseq, "none")>>)
          /\ seq' = [seq EXCEPT ![Party(side, c)] = cseq]
    BY DEF HangUp
  <1>3. /\ cseq \in Nat /\ cseq > 0 /\ cseq > seq[Party(side, c)] /\ seq'[Party(side, c)] = cseq
        /\ side = "caller" => cseq > attempt
    BY <1>1, <1>2, NumberedNext
  <1>4. PICK m : m = msgs'[Len(msgs) + 1]
    OBVIOUS
  <1>5. Extends(1) /\ Is(m, 0, "BYE", cseq, Party(side, c), Party(Other(side), c), "none", side)
    BY <1>2, <1>3, <1>4, InDialogSends
  <1>6. Legal(m)'
    <2>1. Within(side, c, cseq, Party(side, c), Party(Other(side), c))'
      BY <1>1, <1>3 DEF Within, Party, Other, Sides
    <2>2. /\ byes' = Append(byes, [dialog |-> c, by |-> side])
          /\ byes \in Seq([dialog : Callees, by : Sides]) /\ [dialog |-> c, by |-> side] \in [dialog : Callees, by : Sides]
      BY DEF HangUp, State, Typed
    <2>3. PICK b : b = Len(byes) + 1
      OBVIOUS
    <2>4. b \in 1..Len(byes') /\ byes'[b] = [dialog |-> c, by |-> side]
      BY <2>2, <2>3, AppendProperties
    <2>5. byes'[b].dialog = c /\ byes'[b].by = side
      BY <2>4
    <2>6. m.by = side /\ m.status = 0 /\ m.method = "BYE" /\ m.by \in Sides
      BY <1>5 DEF Is
    <2>7. Within(m.by, byes[b].dialog, m.cseq, m.from, m.to)'
      BY <1>5, <2>1, <2>5 DEF Is, Within
    <2>8. IsBye(m)'
      BY <2>4, <2>5, <2>6, <2>7 DEF IsBye
    <2> QED BY <2>8 DEF Legal
  <1>7. Unsent(0, "BYE", cseq, Party(side, c), Party(Other(side), c))
    BY <1>3, NewRequest
  <1> QED BY <1>1, <1>4, <1>5, <1>6, <1>7, UnsentIsFresh, AddsOne

\* A reply is new: its request was still awaited.
LEMMA ReplyAdds ==
  ASSUME State, State', Captured, Reply
  PROVE  Adds(IF pending.method = "INVITE" THEN 2 ELSE 1)
  <1>1. /\ msgs \in Seq(MessageSet) /\ pending \in Awaiting /\ pending.dialog = Main /\ Main \in acked
        /\ Within(pending.side, Main, pending.cseq, Party(pending.side, Main), Party(Other(pending.side), Main))
        /\ pending' = NoTag /\ UNCHANGED <<attempt, answers, acked, seq>>
    BY DEF State, Typed, Related, Captured, Reply, callVars
  <1>2. PICK side \in Sides, method \in {"INVITE", "UPDATE", "REFER"}, cseq \in Nat :
             pending.side = side /\ pending.method = method /\ pending.cseq = cseq
    BY <1>1 DEF Awaiting
  <1>3. PICK c, from, to, m, n :
             /\ c = Main /\ from = Party(side, c) /\ to = Party(Other(side), c)
             /\ m = msgs'[Len(msgs) + 1] /\ n = msgs'[Len(msgs) + 2]
    OBVIOUS
  <1>17. c \in Callees /\ c # Caller
    BY <1>1, <1>3, Tags DEF Awaiting, Caller
  <1>4. Within(side, c, cseq, from, to) /\ Within(side, c, cseq, from, to)'
    BY <1>1, <1>2, <1>3 DEF Within
  <1>5. PICK status \in {200, 202, 603} :
           /\ status = 200 <=> method # "REFER"
           /\ Extends(IF method = "INVITE" THEN 2 ELSE 1)
           /\ Is(m, status, method, cseq, from, to, "none", Other(side))
           /\ method = "INVITE" => Is(n, 0, "ACK", cseq, from, to, "none", side)
    BY <1>2, <1>3, ReplySends
  <1>6. Other(side) \in Sides /\ Other(Other(side)) = side
    BY DEF Other, Sides
  <1>7. c = Main' /\ c \in acked' /\ \A s, k : ~Awaited(s, k)'
    BY <1>1, <1>3 DEF Main, Awaited
  <1>8. Legal(m)'
    <2>1. IsDialogReply(m)'
      BY <1>4, <1>5, <1>6, <1>7 DEF Is, IsDialogReply
    <2> QED BY <2>1 DEF Legal
  <1>9. method = "INVITE" => Legal(n)'
    <2>1. method = "INVITE" => IsDialogAck(n)'
      BY <1>4, <1>5, <1>6, <1>7 DEF Is, IsDialogAck
    <2> QED BY <2>1 DEF Legal
  <1>10. Awaited(side, cseq)
    BY <1>1, <1>2, SignallingAssumption DEF Awaited
  <1>11. ASSUME NEW x, from = Caller => x.cseq # attempt, to # "uas", to # NoTag,
                x.from = from, x.to = to, x.cseq = cseq, Legal(x),
                \/ x.status = status /\ x.method = method
                \/ x.status = 0 /\ x.method = "ACK"
         PROVE  FALSE
    <2>1. IsDialogReply(x) \/ IsDialogAck(x)
      <3>1. x.status # 0 \/ x.method = "ACK"
        BY <1>11
      <3>2. x.method \in {"INVITE", "UPDATE", "REFER", "ACK"}
        BY <1>11
      <3>3. ~IsAnswer(x) /\ ~IsAckOfAnswer(x)
        BY <1>11 DEF IsAnswer, IsAckOfAnswer
      <3> QED BY <1>11, <3>1, <3>2, <3>3 DEF Legal, IsInvite, IsProvisional, IsChallenge, IsRefusal,
            IsAckOfFailure, IsCancel, IsDialogRequest, IsBye
    <2>2. PICK s \in Sides : Within(s, c, cseq, from, to) /\ ~Awaited(s, cseq)
      BY <1>3, <1>17, <1>6, <1>11, <2>1 DEF IsDialogReply, IsDialogAck, Other, Sides
    <2>3. s = side
      BY <1>3, <1>17, <1>4, <2>2 DEF Within, Sides
    <2> QED BY <1>10, <2>2, <2>3
  <1>12. /\ from = Caller => cseq # attempt
         /\ to # "uas" /\ to # NoTag
    <2>1. attempt \in Nat /\ to \in {Caller, c}
      BY <1>4, Tags DEF Within
    <2>2. from = Caller => attempt < cseq
      BY <1>17, <1>4 DEF Within
    <2> QED BY <1>17, <2>1, <2>2, Tags
  <1>13. Unsent(status, method, cseq, from, to) /\ Unsent(0, "ACK", cseq, from, to)
    BY <1>11, <1>12, AtPlace DEF Unsent
  <1>14. Fresh(m) /\ (method = "INVITE" => Fresh(n))
    BY <1>5, <1>13, UnsentIsFresh
  <1>15. CASE method = "INVITE"
    <2>1. m.status # n.status
      BY <1>5, <1>15 DEF Is
    <2>2. Adds(2)
      BY <1>1, <1>3, <1>5, <1>8, <1>9, <1>14, <1>15, <2>1, AddsTwo
    <2> QED BY <1>2, <1>15, <2>2
  <1>16. CASE method # "INVITE"
    <2>1. Adds(1)
      BY <1>1, <1>3, <1>5, <1>8, <1>14, <1>16, AddsOne
    <2> QED BY <1>2, <1>16, <2>1
  <1> QED BY <1>15, <1>16

\* Repeat sends a message of the capture once more.
LEMMA RepeatIs ==
  ASSUME State, Captured, Repeat
  PROVE  /\ Extends(1)
         /\ \E i \in Places : \E m : /\ m = msgs'[Len(msgs) + 1] /\ Transaction(m) = Transaction(msgs[i])
                                     /\ m.sdp = msgs[i].sdp /\ m.by = msgs[i].by
                                     /\ i = Len(msgs) \/ IsAnswer(msgs[i]) \/ IsChallenge(msgs[i])
  <1>1. msgs \in Seq(MessageSet) /\ Len(msgs) + 1 \in Nat
    BY DEF Captured
  <1>2. PICK i \in Places : /\ Capture(<<msgs[i]>>)
                            /\ \/ i = Len(msgs) \/ msgs[i].status = 401
                               \/ /\ msgs[i].status = 200 /\ msgs[i].method = "INVITE"
                                  /\ msgs[i].to \in ToSet(answers) \ acked
    BY DEF Repeat, Places
  <1>3. PICK m : m = msgs[i]
    OBVIOUS
  <1>4. m \in MessageSet /\ Legal(m)
    BY <1>3, AtPlace
  <1>5. Extends(1) /\ msgs'[Len(msgs) + 1] = [m EXCEPT !.at = Len(msgs) + 1]
    BY <1>1, <1>2, <1>3, <1>4, CaptureOne
  <1>6. /\ Is([m EXCEPT !.at = Len(msgs) + 1], m.status, m.method, m.cseq, m.from, m.to, m.sdp, m.by)
        /\ Transaction([m EXCEPT !.at = Len(msgs) + 1]) = Transaction(m)
    BY <1>1, <1>4, Dated
  <1>7. i = Len(msgs) \/ IsAnswer(m) \/ IsChallenge(m)
    <2>1. ASSUME m.status = 200, m.method = "INVITE", m.to \in ToSet(answers) \ acked
          PROVE  IsAnswer(m)
      <3>1. m.to \in Callees
        BY <2>1 DEF State, Typed, ToSet
      <3>2. m.to # Caller
        BY <3>1, Tags DEF Caller
      <3>3. ~IsDialogReply(m)
        <4>1. SUFFICES ASSUME IsDialogReply(m) PROVE FALSE
          OBVIOUS
        <4>2. Main \in acked /\ Within(Other(m.by), Main, m.cseq, m.from, m.to)
          BY <4>1 DEF IsDialogReply
        <4> QED BY <2>1, <3>2, <4>2 DEF Within
      <3> QED BY <1>4, <2>1, <3>3 DEF Legal, IsInvite, IsProvisional, IsChallenge, IsRefusal,
            IsAckOfFailure, IsAckOfAnswer, IsCancel, IsDialogRequest, IsDialogAck, IsBye
    <2>2. ASSUME m.status = 401 PROVE IsChallenge(m)
      <3>1. m.status # 0 /\ m.status # 100 /\ m.status # 180 /\ m.status # 200 /\ m.status # 202
            /\ m.status # 486 /\ m.status # 487 /\ m.status # 603
        BY <2>2
      <3> QED BY <1>4, <3>1 DEF Legal, IsInvite, IsProvisional, IsAnswer, IsRefusal, IsAckOfFailure,
            IsAckOfAnswer, IsCancel, IsDialogRequest, IsDialogReply, IsDialogAck, IsBye
    <2> QED BY <1>2, <1>3, <2>1, <2>2
  <1>8. PICK new : new = [m EXCEPT !.at = Len(msgs) + 1]
    OBVIOUS
  <1>9. new = msgs'[Len(msgs) + 1] /\ Transaction(new) = Transaction(m) /\ new.sdp = m.sdp /\ new.by = m.by
    BY <1>5, <1>6, <1>8 DEF Is
  <1> QED BY <1>3, <1>5, <1>7, <1>9

-----------------------------------------------------------------------------
(* The capture stays what Captured says of it.                              *)

\* Every step adds messages of new transactions, or repeats one.
LEMMA StepAdds ==
  ASSUME State, State', Captured, SignallingNext
  PROVE  (repeats' = repeats /\ (Adds(1) \/ Adds(2))) \/ Repeat
  <1>1. CASE Challenge
    BY <1>1, ChallengeAdds DEF Challenge
  <1>2. CASE Retry
    BY <1>2, RetryAdds DEF Retry
  <1>3. CASE Trying
    BY <1>3, TryingAdds DEF Trying
  <1>4. CASE Cancel
    BY <1>4, CancelAdds DEF Cancel
  <1>5. CASE Refuse
    BY <1>5, RefuseAdds DEF Refuse
  <1>6. CASE Reply
    BY <1>6, ReplyAdds DEF Reply
  <1>7. ASSUME NEW c \in Callees, Ring(c)
        PROVE  repeats' = repeats /\ Adds(1)
    BY <1>7, RingAdds DEF Ring
  <1>8. ASSUME NEW c \in Callees, Accept(c)
        PROVE  repeats' = repeats /\ Adds(1)
    BY <1>8, AcceptAdds DEF Accept
  <1>9. ASSUME NEW c \in Callees, Ack(c)
        PROVE  repeats' = repeats /\ Adds(1)
    BY <1>9, AckAdds DEF Ack
  <1>10. ASSUME NEW side \in Sides, NEW c \in Callees, Offer(side, c)
         PROVE  repeats' = repeats /\ Adds(1)
    BY <1>10, OfferAdds DEF Offer
  <1>11. ASSUME NEW side \in Sides, NEW c \in Callees, Refer(side, c)
         PROVE  repeats' = repeats /\ Adds(1)
    BY <1>11, ReferAdds DEF Refer
  <1>12. ASSUME NEW side \in Sides, NEW c \in Callees, HangUp(side, c)
         PROVE  repeats' = repeats /\ Adds(1)
    BY <1>12, HangUpAdds DEF HangUp
  <1> QED BY <1>1, <1>2, <1>3, <1>4, <1>5, <1>6, <1>7, <1>8, <1>9, <1>10, <1>11, <1>12 DEF SignallingNext

\* A message with the fields of another is as legal.
LEMMA LegalAgain ==
  ASSUME NEW m, NEW k, Legal(k)', Transaction(m) = Transaction(k), m.by = k.by
  PROVE  Legal(m)'
  <1>1. /\ m.status = k.status /\ m.method = k.method /\ m.cseq = k.cseq
        /\ m.from = k.from /\ m.to = k.to /\ m.by = k.by
    BY DEF Transaction
  <1> QED BY <1>1 DEF Legal, IsInvite, IsProvisional, IsAnswer, IsChallenge, IsRefusal,
          IsAckOfFailure, IsAckOfAnswer, IsCancel, IsDialogRequest, IsDialogReply, IsDialogAck, IsBye

\* The capture stays legal when legal messages are added.
LEMMA CapturedGrows ==
  ASSUME State, State', Evolves, Captured, NEW n \in Nat, Extends(n),
         \A i \in 1..Len(msgs') : i \notin Places => \E m : m = msgs'[i] /\ Legal(m)'
  PROVE  Captured'
  <1>1. /\ msgs \in Seq(MessageSet) /\ msgs # <<>> /\ IsInvite(msgs[1])
        /\ \A i \in Places : msgs[i].at = i /\ Legal(msgs[i])
        /\ Len(msgs) \in Nat /\ Len(msgs) # 0
    BY DEF Captured
  <1>2. 1 \in Places /\ msgs'[1] = msgs[1]
    BY <1>1 DEF Extends, Places
  <1>3. msgs' \in Seq(MessageSet) /\ msgs' # <<>>
    <2>1. msgs' \in Seq(MessageSet) /\ Len(msgs') = Len(msgs) + n
      BY DEF Extends
    <2>2. Len(msgs') # 0
      BY <1>1, <2>1
    <2> QED BY <2>1, <2>2
  <1>4. IsInvite(msgs[1])'
    <2>1. PICK m : m = msgs[1]
      OBVIOUS
    <2>2. attempt \in Nat /\ attempt' \in Nat /\ attempt <= attempt'
      BY DEF State, Typed, Evolves
    <2>3. IsInvite(m)'
      BY <1>1, <2>1, <2>2 DEF IsInvite
    <2> QED BY <1>2, <2>1, <2>3 DEF IsInvite
  <1>5. ASSUME NEW i \in 1..Len(msgs') PROVE msgs'[i].at = i /\ (Legal(msgs[i]))'
    <2>1. CASE i \in Places
      <3>1. PICK m : m = msgs[i]
        OBVIOUS
      <3>2. m \in MessageSet /\ Legal(m) /\ m.at = i /\ msgs'[i] = m
        BY <1>1, <2>1, <3>1, AtPlace DEF Extends
      <3>3. Legal(m)'
        BY <3>2, LegalStays
      <3>4. (Legal(msgs[i]))'
        BY <3>2, <3>3, LegalAgain
      <3> QED BY <3>2, <3>4
    <2>2. CASE i \notin Places
      <3>1. PICK m : m = msgs'[i] /\ Legal(m)'
        BY <2>2
      <3>2. (Legal(msgs[i]))'
        BY <3>1, LegalAgain
      <3> QED BY <2>2, <3>2 DEF Extends
    <2> QED BY <2>1, <2>2
  <1> QED BY <1>3, <1>4, <1>5 DEF Captured, Places

\* The invariant the rest stands on.
Made == State /\ Captured

\* A message sent again is legal, as its original is.
LEMMA RepeatAdds ==
  ASSUME State, State', Evolves, Captured, Repeat
  PROVE  /\ Extends(1)
         /\ \A i \in 1..Len(msgs') : i \notin Places => \E m : m = msgs'[i] /\ Legal(m)'
  <1>1. msgs \in Seq(MessageSet)
    BY DEF Captured
  <1>2. PICK i \in Places : \E m : /\ m = msgs'[Len(msgs) + 1] /\ Transaction(m) = Transaction(msgs[i])
                                   /\ m.by = msgs[i].by
    BY RepeatIs
  <1>3. PICK m, k : /\ m = msgs'[Len(msgs) + 1] /\ k = msgs[i] /\ Transaction(m) = Transaction(k) /\ m.by = k.by
    BY <1>2
  <1>4. k \in MessageSet /\ Legal(k)
    BY <1>3, AtPlace
  <1>5. Legal(k)'
    BY <1>4, LegalStays
  <1>6. Legal(m)'
    BY <1>3, <1>5, LegalAgain
  <1>7. Extends(1)
    BY RepeatIs
  <1>8. \A j \in 1..Len(msgs') : j \notin Places => j = Len(msgs) + 1
    BY <1>1, <1>7 DEF Extends, Places
  <1> QED BY <1>3, <1>6, <1>7, <1>8

\* It holds at the start, and every step keeps it.
LEMMA MadeInit == SignallingInit => Made
  <1> SUFFICES ASSUME SignallingInit PROVE Made
    OBVIOUS
  <1>1. State
    BY StateInit
  <1>2. PICK one, m : /\ one = Message(0, "INVITE", 1, Caller, NoTag, "active", "caller")
                      /\ m = [one EXCEPT !.at = 1] /\ msgs = <<m>>
    BY DEF SignallingInit
  <1>3. one \in MessageSet /\ Is(one, 0, "INVITE", 1, Caller, NoTag, "active", "caller")
    BY <1>2, MessageIs DEF Sides
  <1>4. m \in MessageSet /\ m.at = 1 /\ Is(m, one.status, one.method, one.cseq, one.from, one.to, one.sdp, one.by)
    <2>1. 1 \in Nat
      OBVIOUS
    <2> QED BY <1>2, <1>3, <2>1, Dated, Zenon
  <1>5. IsInvite(m)
    BY <1>3, <1>4 DEF Is, IsInvite, SignallingInit
  <1>6. msgs \in Seq(MessageSet) /\ Len(msgs) = 1 /\ msgs[1] = m /\ msgs # <<>>
    BY <1>2, <1>4
  <1>7. \A i \in Places : i = 1
    BY <1>6 DEF Places
  <1> QED BY <1>1, <1>4, <1>5, <1>6, <1>7 DEF Made, Captured, Legal

LEMMA MadeNext == Made /\ [SignallingNext]_signallingVars => Made'
  <1> SUFFICES ASSUME Made, [SignallingNext]_signallingVars PROVE Made'
    OBVIOUS
  <1>1. CASE SignallingNext
    <2>1. State /\ Captured /\ State' /\ Evolves
      BY <1>1, StateNext DEF Made
    <2>2. CASE Adds(1)
      BY <2>1, <2>2, CapturedGrows DEF Adds, Made
    <2>3. CASE Adds(2)
      BY <2>1, <2>3, CapturedGrows DEF Adds, Made
    <2>4. CASE Repeat
      BY <2>1, <2>4, RepeatAdds, CapturedGrows DEF Made
    <2> QED BY <1>1, <2>1, <2>2, <2>3, <2>4, StepAdds
  <1>2. CASE UNCHANGED signallingVars
    <2>1. State'
      BY <1>2 DEF Made, State, Typed, Related, signallingVars, Main, Within
    <2>2. Main' = Main /\ Places' = Places /\ \A s, k : Awaited(s, k)' <=> Awaited(s, k)
      BY <1>2 DEF signallingVars, Main, Places, Awaited
    <2>3. \A m : Legal(m) => Legal(m)'
      BY <1>2, <2>2 DEF Legal, signallingVars, Within, IsInvite, IsProvisional, IsAnswer, IsChallenge, IsRefusal,
         IsAckOfFailure, IsAckOfAnswer, IsCancel, IsDialogRequest, IsDialogReply, IsDialogAck, IsBye
    <2>4. Captured'
      BY <1>2, <2>2, <2>3 DEF Made, Captured, signallingVars, IsInvite
    <2> QED BY <2>1, <2>4 DEF Made
  <1> QED BY <1>1, <1>2

\* Every message of the capture is one that the callers and callees so far can have
\* sent, with the tags and numbers of its dialog, whatever they do and however often
\* they repeat it: the capture that build_calls reads.
THEOREM MadeAlways == SignallingSpec => []Made
  <1> QED BY MadeInit, MadeNext, PTL DEF SignallingSpec

-----------------------------------------------------------------------------
\* The first INVITE names the caller.
LEMMA CallerIsKnown == ASSUME Made PROVE CallerTag(msgs) = Caller /\ 1 \in InitialInvites(msgs)
  <1>1. State /\ Captured /\ msgs \in Seq(MessageSet) /\ DOMAIN msgs = Places /\ Places \subseteq Nat /\ 1 \in Places
    BY DEF Made, Captured, Places
  <1>2. 1 \in InitialInvites(msgs)
    BY <1>1 DEF Captured, InitialInvites, RequestsOf, IsRequest, IsInvite
  <1>3. InitialInvites(msgs) \subseteq Nat
    BY <1>1 DEF InitialInvites, RequestsOf
  <1>4. \A i \in InitialInvites(msgs) : 1 <= i
    BY <1>1 DEF InitialInvites, RequestsOf, Places
  <1>5. Min(InitialInvites(msgs)) = 1
    <2>1. PICK x \in Nat : x = Min(InitialInvites(msgs))
      BY <1>2, <1>3, MinIs
    <2>2. x \in InitialInvites(msgs) /\ x <= 1
      BY <1>2, <1>3, <2>1, MinIs
    <2> QED BY <1>4, <2>1, <2>2
  <1>6. CallerTag(msgs) = msgs[1].from
    BY <1>2, <1>5 DEF CallerTag, First
  <1> QED BY <1>1, <1>2, <1>6 DEF Captured, IsInvite

\* Requests carry the tag of the sender in From, responses that of the other side.
LEMMA SidesAre == ASSUME Made PROVE SidesFaithful
  <1> SUFFICES ASSUME NEW i \in Places PROVE SenderSide(msgs, msgs[i]) = msgs[i].by
    BY DEF SidesFaithful, Places
  <1>1. PICK m : m = msgs[i]
    OBVIOUS
  <1>2. State /\ m \in MessageSet /\ Legal(m)
    BY <1>1, AtPlace DEF Made
  <1>3. CallerTag(msgs) = Caller
    BY CallerIsKnown
  <1>4. SenderSide(msgs, m) = IF m.from = Caller <=> m.status = 0 THEN "caller" ELSE "callee"
    BY <1>3 DEF SenderSide
  <1> SUFFICES SenderSide(msgs, m) = m.by
    BY <1>1
  <1>5. CASE \/ IsInvite(m) \/ IsProvisional(m) \/ IsAnswer(m) \/ IsChallenge(m) \/ IsRefusal(m)
             \/ IsAckOfFailure(m) \/ IsAckOfAnswer(m) \/ IsCancel(m)
    BY <1>4, <1>5 DEF IsInvite, IsProvisional, IsAnswer, IsChallenge, IsRefusal, IsAckOfFailure,
       IsAckOfAnswer, IsCancel
  <1>6. ASSUME NEW c \in Callees, NEW side, Within(side, c, m.cseq, m.from, m.to)
        PROVE  side \in Sides /\ (m.from = Caller <=> side = "caller")
    BY <1>2, <1>6, Tags DEF Within, Sides
  <1>7. CASE IsDialogRequest(m) \/ IsDialogAck(m)
    BY <1>2, <1>4, <1>6, <1>7, Tags DEF IsDialogRequest, IsDialogAck, Sides
  <1>8. CASE IsDialogReply(m)
    BY <1>2, <1>4, <1>6, <1>8, Tags DEF IsDialogReply, Sides, Other
  <1>9. CASE IsBye(m)
    <2>1. PICK b \in 1..Len(byes) : Within(m.by, byes[b].dialog, m.cseq, m.from, m.to)
      BY <1>9 DEF IsBye
    <2>2. byes[b].dialog \in Callees
      BY <1>2, Tags DEF State, Related
    <2> QED BY <1>4, <1>6, <1>9, <2>1, <2>2 DEF IsBye, Sides
  <1> QED BY <1>1, <1>2, <1>5, <1>7, <1>8, <1>9 DEF Legal

\* _sender_side finds who sent each message: the tag of the first INVITE is the
\* caller's, and no callee has it.
THEOREM SidesAreFaithful == SignallingSpec => []SidesFaithful
  BY SidesAre, MadeAlways, PTL

-----------------------------------------------------------------------------
\* The transaction keys of the capture: as many as messages that were not sent again.
Keys == {Transaction(msgs[i]) : i \in Places}

Separate == IsFiniteSet(Keys) /\ Cardinality(Keys) + repeats = Len(msgs)

\* New messages have keys of their own.
LEMMA KeysGrow ==
  ASSUME Captured, NEW n \in {1, 2}, Adds(n), IsFiniteSet(Keys)
  PROVE  IsFiniteSet(Keys') /\ Cardinality(Keys') = Cardinality(Keys) + n
  <1>1. /\ msgs \in Seq(MessageSet) /\ Len(msgs) \in Nat
        /\ Extends(n) /\ \A i \in 1..Len(msgs') : i \notin Places => Fresh(msgs'[i])
        /\ n = 2 => Transaction(msgs'[Len(msgs) + 1]) # Transaction(msgs'[Len(msgs) + 2])
    BY DEF Captured, Adds
  <1>2. PICK a, b : a = Transaction(msgs'[Len(msgs) + 1]) /\ b = Transaction(msgs'[Len(msgs) + 2])
    OBVIOUS
  <1>3. Len(msgs') = Len(msgs) + n /\ \A i \in Places : Transaction(msgs'[i]) = Transaction(msgs[i])
    BY <1>1 DEF Extends
  <1>4. a \notin Keys
    <2>1. Fresh(msgs'[Len(msgs) + 1])
      BY <1>1, <1>3 DEF Places
    <2> QED BY <1>2, <2>1 DEF Fresh, Keys
  <1>5. IsFiniteSet(Keys \cup {a}) /\ Cardinality(Keys \cup {a}) = Cardinality(Keys) + 1 /\ Cardinality(Keys) \in Nat
    BY <1>4, FS_AddElement, FS_CardinalityType
  <1>6. CASE n = 1
    <2>1. 1..Len(msgs') = Places \cup {Len(msgs) + 1}
      BY <1>1, <1>3, <1>6 DEF Places
    <2>2. Keys' = Keys \cup {a}
      BY <1>2, <1>3, <2>1 DEF Keys, Places
    <2> QED BY <1>5, <1>6, <2>2
  <1>7. CASE n = 2
    <2>1. 1..Len(msgs') = Places \cup {Len(msgs) + 1, Len(msgs) + 2}
      BY <1>1, <1>3, <1>7 DEF Places
    <2>2. Keys' = (Keys \cup {a}) \cup {b}
      BY <1>2, <1>3, <2>1 DEF Keys, Places
    <2>3. b \notin Keys \cup {a}
      <3>1. Fresh(msgs'[Len(msgs) + 2])
        BY <1>1, <1>3, <1>7 DEF Places
      <3> QED BY <1>1, <1>2, <1>7, <3>1 DEF Fresh, Keys
    <2>4. IsFiniteSet((Keys \cup {a}) \cup {b}) /\ Cardinality((Keys \cup {a}) \cup {b}) = Cardinality(Keys \cup {a}) + 1
      BY <1>5, <2>3, FS_AddElement
    <2> QED BY <1>5, <1>7, <2>2, <2>4
  <1> QED BY <1>6, <1>7

\* Each step adds keys, or counts a repetition.
LEMMA SeparateNext == Made /\ Separate /\ [SignallingNext]_signallingVars => Separate'
  <1> SUFFICES ASSUME Made, Separate, [SignallingNext]_signallingVars PROVE Separate'
    OBVIOUS
  <1>1. msgs \in Seq(MessageSet) /\ Len(msgs) \in Nat /\ repeats \in Nat /\ Cardinality(Keys) \in Nat
    BY FS_CardinalityType DEF Made, Captured, State, Typed, Separate
  <1>2. ASSUME NEW n \in {1, 2}, Adds(n), repeats' = repeats
        PROVE  Separate'
    <2>1. Len(msgs') = Len(msgs) + n
      BY <1>2 DEF Adds, Extends
    <2>2. IsFiniteSet(Keys') /\ Cardinality(Keys') = Cardinality(Keys) + n
      BY <1>2, KeysGrow DEF Made, Separate
    <2> QED BY <1>1, <1>2, <2>1, <2>2 DEF Separate
  <1>3. CASE Repeat
    <2>1. PICK i \in Places : \E m : m = msgs'[Len(msgs) + 1] /\ Transaction(m) = Transaction(msgs[i])
      BY <1>3, RepeatIs DEF Made
    <2>2. Extends(1)
      BY <1>3, RepeatIs DEF Made
    <2>3. 1..Len(msgs') = Places \cup {Len(msgs) + 1} /\ \A j \in Places : msgs'[j] = msgs[j]
      BY <1>1, <2>2 DEF Extends, Places
    <2>4. Keys' = Keys
      BY <2>1, <2>3 DEF Keys, Places
    <2>5. repeats' = repeats + 1 /\ Len(msgs') = Len(msgs) + 1
      BY <1>3, <2>2 DEF Repeat, Extends
    <2> QED BY <1>1, <2>4, <2>5 DEF Separate
  <1>4. CASE SignallingNext
    <2>1. State'
      BY <1>4, StateNext DEF Made
    <2> QED BY <1>2, <1>3, <1>4, <2>1, StepAdds DEF Made
  <1>5. CASE UNCHANGED signallingVars
    BY <1>5 DEF Separate, Keys, Places, signallingVars
  <1> QED BY <1>4, <1>5

LEMMA SeparateInit == SignallingInit => Separate
  <1> SUFFICES ASSUME SignallingInit PROVE Separate
    OBVIOUS
  <1>1. PICK m : msgs = <<m>>
    BY DEF SignallingInit
  <1>2. Len(msgs) = 1 /\ Places = {1} /\ repeats = 0
    BY <1>1 DEF SignallingInit, Places
  <1>3. Keys = {Transaction(msgs[1])}
    BY <1>2 DEF Keys
  <1>4. IsFiniteSet(Keys) /\ Cardinality(Keys) = 1
    BY <1>3, FS_Singleton
  <1> QED BY <1>2, <1>4 DEF Separate

\* retransmissions counts the messages that were sent again, and no other: two
\* messages that were both sent anew never have one transaction key.
THEOREM RetransmissionsAreFaithful == SignallingSpec => []RetransmissionsFaithful
  <1>1. Made /\ Separate => RetransmissionsFaithful
    <2> SUFFICES ASSUME Made, Separate PROVE RetransmissionsFaithful
      OBVIOUS
    <2>1. msgs \in Seq(MessageSet) /\ Len(msgs) \in Nat /\ repeats \in Nat /\ Cardinality(Keys) \in Nat
      BY FS_CardinalityType DEF Made, Captured, State, Typed, Separate
    <2>2. DOMAIN msgs = Places
      BY <2>1 DEF Places
    <2>3. Retransmissions(msgs) = Len(msgs) - Cardinality(Keys)
      BY <2>2 DEF Retransmissions, Keys
    <2> QED BY <2>1, <2>3 DEF RetransmissionsFaithful, Separate
  <1>2. SignallingSpec => []Separate
    BY MadeAlways, SeparateInit, SeparateNext, PTL DEF SignallingSpec
  <1> QED BY <1>1, <1>2, MadeAlways, PTL

-----------------------------------------------------------------------------
(* What the capture shows of the call.                                      *)
\* The capture has a message with these fields.
Sent(status, method, cseq, to) ==
    \E i \in Places : /\ msgs[i].status = status /\ msgs[i].method = method
                      /\ msgs[i].cseq = cseq /\ msgs[i].to = to

\* What the state says was sent is in the capture.
Witnessed ==
    /\ \A a \in 1..attempt : Sent(0, "INVITE", a, NoTag)
    /\ \A c \in ToSet(answers) : Sent(200, "INVITE", attempt, c)
    /\ phase = "challenged" => Sent(401, "INVITE", attempt, "uas")
    /\ phase = "486" => Sent(486, "INVITE", attempt, "uas")
    /\ phase = "487" => Sent(487, "INVITE", attempt, "uas")
    /\ cancelled => Sent(0, "CANCEL", attempt, NoTag)

\* An acknowledged answer is followed by its ACK.
AckSeen ==
    \A c \in acked : \E i, j \in Places :
        /\ i < j
        /\ msgs[i].status = 200 /\ msgs[i].method = "INVITE" /\ msgs[i].cseq = attempt /\ msgs[i].to = c
        /\ msgs[j].status = 0 /\ msgs[j].method = "ACK" /\ msgs[j].cseq = attempt /\ msgs[j].to = c

\* The places of the capture after n more messages.
LEMMA PlacesGrow ==
  ASSUME Captured, NEW n \in Nat, Extends(n)
  PROVE  /\ Places \subseteq Places' /\ Places \subseteq Nat /\ Len(msgs) \in Nat
         /\ \A i \in Places : msgs'[i] = msgs[i]
         /\ Len(msgs') = Len(msgs) + n /\ Len(msgs) + 1 \notin Places
         /\ n >= 1 => Len(msgs) + 1 \in Places'
         /\ n = 1 => Places' = Places \cup {Len(msgs) + 1}
         /\ n = 2 => Places' = Places \cup {Len(msgs) + 1, Len(msgs) + 2}
  BY DEF Captured, Extends, Places

\* What was sent stays sent.
LEMMA SentStays ==
  ASSUME Captured, NEW n \in Nat, Extends(n), NEW status, NEW method, NEW cseq, NEW to,
         Sent(status, method, cseq, to)
  PROVE  Sent(status, method, cseq, to)'
  BY PlacesGrow DEF Sent

LEMMA SentNow ==
  ASSUME Captured, NEW n \in Nat, n >= 1, Extends(n),
         NEW status, NEW method, NEW cseq, NEW from, NEW to, NEW sdp, NEW by,
         Is(msgs'[Len(msgs) + 1], status, method, cseq, from, to, sdp, by)
  PROVE  Sent(status, method, cseq, to)'
  BY PlacesGrow DEF Sent, Is

\* A step that leaves the INVITE alone.
LEMMA StillWitnessed ==
  ASSUME State, Captured, Witnessed, NEW n \in Nat, Extends(n), UNCHANGED <<attempt, answers, phase, cancelled>>
  PROVE  Witnessed'
  <1>1. PICK a : a = attempt
    OBVIOUS
  <1>2. \A s, m, k, t : Sent(s, m, k, t) => Sent(s, m, k, t)'
    BY SentStays
  <1> QED BY <1>1, <1>2 DEF Witnessed

\* The steps that change what has to be in the capture.
LEMMA ChallengeWitnessed == ASSUME State, Captured, Witnessed, Challenge PROVE Witnessed'
  <1>1. PICK a : a = attempt
    OBVIOUS
  <1>2. /\ Extends(2) /\ Is(msgs'[Len(msgs) + 1], 401, "INVITE", a, Caller, "uas", "none", "callee")
    BY <1>1, ChallengeSends
  <1>3. phase' = "challenged" /\ ~cancelled' /\ UNCHANGED <<attempt, answers>>
    BY DEF Challenge
  <1>4. \A s, m, k, t : Sent(s, m, k, t) => Sent(s, m, k, t)'
    BY <1>2, SentStays
  <1>5. Sent(401, "INVITE", a, "uas")'
    BY <1>2, SentNow
  <1> QED BY <1>1, <1>3, <1>4, <1>5 DEF Witnessed

LEMMA RetryWitnessed == ASSUME State, Captured, Witnessed, Retry PROVE Witnessed'
  <1>1. PICK a : a = attempt + 1
    OBVIOUS
  <1>2. /\ Extends(1) /\ Is(msgs'[Len(msgs) + 1], 0, "INVITE", a, Caller, NoTag, "active", "caller")
    BY <1>1, RetrySends
  <1>3. /\ phase' = "calling" /\ attempt' = a /\ attempt \in Nat /\ ~cancelled' /\ ToSet(answers) = {} /\ ToSet(answers') = {}
    BY <1>1 DEF Retry, State, Typed, Related, ToSet
  <1>4. \A s, m, k, t : Sent(s, m, k, t) => Sent(s, m, k, t)'
    BY <1>2, SentStays
  <1>5. Sent(0, "INVITE", a, NoTag)'
    BY <1>2, SentNow
  <1>6. 1..attempt' = 1..attempt \cup {a}
    BY <1>1, <1>3
  <1> QED BY <1>3, <1>4, <1>5, <1>6 DEF Witnessed

LEMMA AcceptWitnessed == ASSUME State, Captured, Witnessed, NEW c \in Callees, Accept(c) PROVE Witnessed'
  <1>1. PICK a : a = attempt
    OBVIOUS
  <1>2. Extends(1) /\ Is(msgs'[Len(msgs) + 1], 200, "INVITE", a, Caller, c, "none", "callee")
    BY <1>1, ResponseSends DEF Accept
  <1>3. /\ phase' = "answered" /\ UNCHANGED <<attempt, cancelled>> /\ answers' = Append(answers, c)
        /\ ToSet(answers') = ToSet(answers) \cup {c}
    BY AnswersAfter DEF Accept, State, Typed
  <1>4. \A s, m, k, t : Sent(s, m, k, t) => Sent(s, m, k, t)'
    BY <1>2, SentStays
  <1>5. Sent(200, "INVITE", a, c)'
    BY <1>2, SentNow
  <1> QED BY <1>1, <1>3, <1>4, <1>5 DEF Witnessed

LEMMA CancelWitnessed == ASSUME State, Captured, Witnessed, Cancel PROVE Witnessed'
  <1>1. PICK a : a = attempt
    OBVIOUS
  <1>2. Extends(2) /\ Is(msgs'[Len(msgs) + 1], 0, "CANCEL", a, Caller, NoTag, "none", "caller")
    BY <1>1, CancelSends
  <1>3. UNCHANGED <<attempt, answers, phase>>
    BY DEF Cancel
  <1>4. \A s, m, k, t : Sent(s, m, k, t) => Sent(s, m, k, t)'
    BY <1>2, SentStays
  <1>5. Sent(0, "CANCEL", a, NoTag)'
    BY <1>2, SentNow
  <1> QED BY <1>1, <1>3, <1>4, <1>5 DEF Witnessed

LEMMA RefuseWitnessed == ASSUME State, Captured, Witnessed, Refuse PROVE Witnessed'
  <1>1. PICK a : a = attempt
    OBVIOUS
  <1>2. PICK status \in {486, 487} :
           /\ phase' = IF status = 486 THEN "486" ELSE "487"
           /\ Extends(2) /\ Is(msgs'[Len(msgs) + 1], status, "INVITE", a, Caller, "uas", "none", "callee")
    BY <1>1, RefuseSends
  <1>3. UNCHANGED <<attempt, answers, cancelled>>
    BY DEF Refuse
  <1>4. \A s, m, k, t : Sent(s, m, k, t) => Sent(s, m, k, t)'
    BY <1>2, SentStays
  <1>5. Sent(status, "INVITE", a, "uas")'
    BY <1>2, SentNow
  <1>6. CASE status = 486
    BY <1>1, <1>2, <1>3, <1>4, <1>5, <1>6 DEF Witnessed
  <1>7. CASE status = 487
    BY <1>1, <1>2, <1>3, <1>4, <1>5, <1>7 DEF Witnessed
  <1> QED BY <1>6, <1>7

\* The new messages of a step that says nothing of an answer, a challenge or
\* the dialogs.
Plain(m) ==
    /\ m.status # 401 /\ m.method \notin {"BYE", "UPDATE", "REFER"}
    /\ m.method = "INVITE" => m.status # 200 /\ (m.status = 0 => m.to = NoTag)

\* A step that sends only plain messages and leaves the dialogs alone.
Still ==
    /\ Extends(1) \/ Extends(2)
    /\ \A i \in Places' : i \notin Places => Plain(msgs'[i])
    /\ UNCHANGED <<challenges, answers, byes, pending, offered, refers, repeats>>

\* It sends one message or two.
LEMMA StillOne ==
  ASSUME Captured, Extends(1), NEW m, m = msgs'[Len(msgs) + 1], Plain(m),
         UNCHANGED <<challenges, answers, byes, pending, offered, refers, repeats>>
  PROVE  Still
  <1>1. \A i \in Places' : i \notin Places => i = Len(msgs) + 1
    BY PlacesGrow
  <1> QED BY <1>1 DEF Still

LEMMA StillTwo ==
  ASSUME Captured, Extends(2), NEW m, m = msgs'[Len(msgs) + 1], Plain(m),
         NEW k, k = msgs'[Len(msgs) + 2], Plain(k),
         UNCHANGED <<challenges, answers, byes, pending, offered, refers, repeats>>
  PROVE  Still
  <1>1. \A i \in Places' : i \notin Places => i = Len(msgs) + 1 \/ i = Len(msgs) + 2
    BY PlacesGrow
  <1> QED BY <1>1 DEF Still

LEMMA StillSteps ==
  ASSUME State, Captured
  PROVE  /\ Retry => Still
         /\ Trying => Still
         /\ Cancel => Still
         /\ Refuse => Still
         /\ \A c \in Callees : Ring(c) \/ Ack(c) => Still
  <1>1. PICK m, k : m = msgs'[Len(msgs) + 1] /\ k = msgs'[Len(msgs) + 2]
    OBVIOUS
  <1>2. ASSUME Retry PROVE Still
    <2>1. Extends(1) /\ Is(m, 0, "INVITE", attempt + 1, Caller, NoTag, "active", "caller")
      BY <1>1, <1>2, RetrySends
    <2>2. Plain(m)
      BY <2>1 DEF Is, Plain
    <2> QED BY <1>1, <1>2, <2>1, <2>2, StillOne DEF Retry
  <1>3. ASSUME Trying PROVE Still
    <2>1. Extends(1) /\ Is(m, 100, "INVITE", attempt, Caller, NoTag, "none", "callee")
      <3>1. PICK status \in {100, 180, 200} : status = 100
        OBVIOUS
      <3>2. Capture(<<Response(status, attempt, NoTag)>>)
        BY <1>3, <3>1 DEF Trying
      <3>3. Extends(1) /\ Is(m, status, "INVITE", attempt, Caller, NoTag, "none", "callee")
        BY <1>1, <3>2, ResponseSends
      <3> QED BY <3>1, <3>3
    <2>2. Plain(m)
      BY <2>1 DEF Is, Plain
    <2> QED BY <1>1, <1>3, <2>1, <2>2, StillOne DEF Trying, callVars, dialogVars
  <1>4. ASSUME Cancel PROVE Still
    <2>1. /\ Extends(2) /\ Is(m, 0, "CANCEL", attempt, Caller, NoTag, "none", "caller")
          /\ Is(k, 200, "CANCEL", attempt, Caller, "uas", "none", "callee")
      BY <1>1, <1>4, CancelSends
    <2>2. Plain(m) /\ Plain(k)
      BY <2>1 DEF Is, Plain
    <2> QED BY <1>1, <1>4, <2>1, <2>2, StillTwo DEF Cancel, dialogVars
  <1>5. ASSUME Refuse PROVE Still
    <2>1. PICK status \in {486, 487} :
             /\ Extends(2) /\ Is(m, status, "INVITE", attempt, Caller, "uas", "none", "callee")
             /\ Is(k, 0, "ACK", attempt, Caller, "uas", "none", "caller")
      BY <1>1, <1>5, RefuseSends
    <2>2. Plain(m) /\ Plain(k)
      BY <2>1 DEF Is, Plain
    <2> QED BY <1>1, <1>5, <2>1, <2>2, StillTwo DEF Refuse, dialogVars
  <1>6. ASSUME NEW c \in Callees, Ring(c) PROVE Still
    <2>1. Extends(1) /\ Is(m, 180, "INVITE", attempt, Caller, c, "none", "callee")
      BY <1>1, <1>6, ResponseSends DEF Ring
    <2>2. Plain(m)
      BY <2>1 DEF Is, Plain
    <2> QED BY <1>1, <1>6, <2>1, <2>2, StillOne DEF Ring, callVars, dialogVars
  <1>7. ASSUME NEW c \in Callees, Ack(c) PROVE Still
    <2>1. Extends(1) /\ Is(m, 0, "ACK", attempt, Caller, c, "none", "caller")
      BY <1>1, <1>7, AckSends
    <2>2. Plain(m)
      BY <2>1 DEF Is, Plain
    <2> QED BY <1>1, <1>7, <2>1, <2>2, StillOne DEF Ack, callVars
  <1> QED BY <1>2, <1>3, <1>4, <1>5, <1>6, <1>7

\* The first INVITE is in the capture.
LEMMA WitnessedInit == SignallingInit => Witnessed
  <1> SUFFICES ASSUME SignallingInit PROVE Witnessed
    OBVIOUS
  <1>1. PICK one, m : /\ one = Message(0, "INVITE", 1, Caller, NoTag, "active", "caller")
                      /\ m = [one EXCEPT !.at = 1] /\ msgs = <<m>>
    BY DEF SignallingInit
  <1>2. m.status = 0 /\ m.method = "INVITE" /\ m.cseq = 1 /\ m.to = NoTag
    BY <1>1 DEF Message
  <1>3. 1 \in Places /\ msgs[1] = m
    BY <1>1 DEF Places
  <1>4. Sent(0, "INVITE", 1, NoTag)
    BY <1>2, <1>3 DEF Sent
  <1>5. /\ \A a \in 1..attempt : a = 1
        /\ answers = <<>> /\ Len(answers) = 0 /\ ToSet(answers) = {} /\ phase = "calling"
    BY DEF SignallingInit, ToSet
  <1>6. ~cancelled
    BY Zenon DEF SignallingInit
  <1> QED BY <1>4, <1>5, <1>6 DEF Witnessed

\* What a step adds to the capture, and what of the call it leaves alone.
StillCall(n) == Extends(n) /\ UNCHANGED <<attempt, answers, phase, cancelled>>

\* The steps that change nothing of the call itself.
LEMMA StillCalls ==
  ASSUME State, Captured
  PROVE  /\ Trying \/ Repeat => \E n \in {1, 2} : StillCall(n)
         /\ Reply => \E n \in {1, 2} : StillCall(n)
         /\ \A c \in Callees : Ring(c) \/ Ack(c) => \E n \in {1, 2} : StillCall(n)
         /\ \A c \in Callees, side \in Sides :
               Offer(side, c) \/ Refer(side, c) \/ HangUp(side, c) => \E n \in {1, 2} : StillCall(n)
  <1>1. ASSUME Trying PROVE StillCall(1)
    <2>1. PICK status \in {100, 180, 200} : status = 100
      OBVIOUS
    <2>2. Capture(<<Response(status, attempt, NoTag)>>)
      BY <1>1, <2>1 DEF Trying
    <2> QED BY <1>1, <2>2, ResponseSends DEF StillCall, Trying, callVars
  <1>2. ASSUME Repeat PROVE StillCall(1)
    BY <1>2, RepeatIs DEF StillCall, Repeat, callVars
  <1>3. ASSUME Reply PROVE \E n \in {1, 2} : StillCall(n)
    <2>1. \E n \in {1, 2} : Extends(n)
      BY <1>3, ReplySends
    <2> QED BY <1>3, <2>1 DEF StillCall, Reply, callVars
  <1>4. ASSUME NEW c \in Callees, Ring(c) PROVE StillCall(1)
    BY <1>4, ResponseSends DEF StillCall, Ring, callVars
  <1>5. ASSUME NEW c \in Callees, Ack(c) PROVE StillCall(1)
    BY <1>5, AckSends DEF StillCall, Ack, callVars
  <1>6. ASSUME NEW c \in Callees, NEW side \in Sides, Offer(side, c) \/ Refer(side, c) \/ HangUp(side, c)
        PROVE  StillCall(1)
    <2>1. PICK method \in {"INVITE", "UPDATE", "REFER", "BYE"}, sdp \in {"none", "active", "hold"},
               cseq \in NextCSeq(Party(side, c)) : Capture(<<InDialogRequest(side, c, method, cseq, sdp)>>)
      BY <1>6 DEF Offer, Refer, HangUp
    <2>2. cseq \in Nat
      BY SignallingAssumption DEF NextCSeq, State, Typed, Party
    <2>3. Extends(1)
      BY <2>1, <2>2, InDialogSends
    <2> QED BY <1>6, <2>3 DEF StillCall, Offer, Refer, HangUp, callVars
  <1> QED BY <1>1, <1>2, <1>3, <1>4, <1>5, <1>6

\* Every step keeps its witnesses.
LEMMA WitnessedNext == Made /\ Witnessed /\ [SignallingNext]_signallingVars => Witnessed'
  <1> SUFFICES ASSUME State, Captured, Witnessed, [SignallingNext]_signallingVars PROVE Witnessed'
    BY DEF Made
  <1>1. ASSUME \E n \in {1, 2} : StillCall(n) PROVE Witnessed'
    BY <1>1, StillWitnessed DEF StillCall
  <1>2. CASE UNCHANGED signallingVars
    BY <1>2 DEF signallingVars, Witnessed, Sent, Places
  <1>3. CASE SignallingNext
    BY <1>1, <1>3, StillCalls, ChallengeWitnessed, RetryWitnessed, AcceptWitnessed, CancelWitnessed,
       RefuseWitnessed DEF SignallingNext
  <1> QED BY <1>2, <1>3

\* Ack puts its message after the answer it acknowledges.
LEMMA AckSeenNext == Made /\ Witnessed /\ AckSeen /\ [SignallingNext]_signallingVars => AckSeen'
  <1> SUFFICES ASSUME Made, Witnessed, AckSeen, [SignallingNext]_signallingVars PROVE AckSeen'
    OBVIOUS
  <1>1. CASE UNCHANGED signallingVars
    BY <1>1 DEF signallingVars, AckSeen, Places
  <1>2. ASSUME NEW n \in Nat, Extends(n), UNCHANGED attempt, NEW c \in acked
        PROVE  \E i, j \in Places' :
                  /\ i < j
                  /\ msgs'[i].status = 200 /\ msgs'[i].method = "INVITE" /\ msgs'[i].cseq = attempt' /\ msgs'[i].to = c
                  /\ msgs'[j].status = 0 /\ msgs'[j].method = "ACK" /\ msgs'[j].cseq = attempt' /\ msgs'[j].to = c
    <2>1. PICK i \in Places, j \in Places :
             /\ i < j
             /\ msgs[i].status = 200 /\ msgs[i].method = "INVITE" /\ msgs[i].cseq = attempt /\ msgs[i].to = c
             /\ msgs[j].status = 0 /\ msgs[j].method = "ACK" /\ msgs[j].cseq = attempt /\ msgs[j].to = c
      BY <1>2 DEF AckSeen
    <2>2. i \in Places' /\ j \in Places' /\ msgs'[i] = msgs[i] /\ msgs'[j] = msgs[j]
      BY <1>2, PlacesGrow DEF Made
    <2> QED BY <1>2, <2>1, <2>2
  <1>3. ASSUME SignallingNext PROVE State' /\ Evolves /\ \E n \in {1, 2} : Extends(n)
    <2>1. State' /\ Evolves
      BY <1>3, StateNext DEF Made
    <2> QED BY <1>3, <2>1, StepAdds, RepeatIs DEF Made, Adds
  <1>4. ASSUME NEW c \in Callees, Ack(c) PROVE AckSeen'
    <2>1. PICK a, m : a = attempt /\ m = msgs'[Len(msgs) + 1]
      OBVIOUS
    <2>2. Extends(1) /\ Is(m, 0, "ACK", a, Caller, c, "none", "caller")
      BY <1>4, <2>1, AckSends DEF Made
    <2>3. c \in ToSet(answers) /\ acked' = acked \cup {c} /\ attempt' = a
      BY <1>4, <2>1, AnswersAfter DEF Ack, callVars, Made, State, Typed
    <2>4. PICK i \in Places : /\ msgs[i].status = 200 /\ msgs[i].method = "INVITE"
                              /\ msgs[i].cseq = a /\ msgs[i].to = c
      BY <2>1, <2>3 DEF Witnessed, Sent
    <2>5. PICK j : j = Len(msgs) + 1
      OBVIOUS
    <2>6. i \in Places' /\ j \in Places' /\ i < j /\ msgs'[i] = msgs[i] /\ msgs'[j] = m
      BY <2>1, <2>2, <2>5, PlacesGrow DEF Made, Places
    <2>7. ASSUME NEW d \in acked', d = c
          PROVE  \E k, l \in Places' :
                  /\ k < l
                  /\ msgs'[k].status = 200 /\ msgs'[k].method = "INVITE" /\ msgs'[k].cseq = attempt' /\ msgs'[k].to = d
                  /\ msgs'[l].status = 0 /\ msgs'[l].method = "ACK" /\ msgs'[l].cseq = attempt' /\ msgs'[l].to = d
      BY <2>2, <2>3, <2>4, <2>6, <2>7 DEF Is
    <2>8. 1 \in Nat
      OBVIOUS
    <2> QED BY <1>2, <2>1, <2>2, <2>3, <2>7, <2>8 DEF AckSeen
  <1>5. ASSUME SignallingNext, acked' = acked PROVE AckSeen'
    <2>1. CASE acked = {}
      BY <1>5, <2>1 DEF AckSeen
    <2>2. CASE acked # {}
      <3>1. attempt' = attempt
        BY <1>3, <1>5, <2>2 DEF Evolves, Made, State, Related, Typed, ToSet
      <3> QED BY <1>2, <1>3, <1>5, <3>1 DEF AckSeen
    <2> QED BY <2>1, <2>2
  <1>6. ASSUME SignallingNext PROVE acked' = acked \/ \E c \in Callees : Ack(c)
    BY <1>6, ZenonT(30) DEF SignallingNext, Challenge, Retry, Trying, Ring, Accept, Ack, Cancel, Refuse, Offer, Refer,
          Reply, HangUp, Repeat, dialogVars
  <1> QED BY <1>1, <1>4, <1>5, <1>6

\* An answer to a re-INVITE of a callee comes with its ACK, after the request.
Reinvited(m) == m.status = 200 /\ m.method = "INVITE" /\ m.to = Caller
\* A callee asked with this number, and its offer was acknowledged after a place.
Asked(cseq) ==
    \E j \in Places : msgs[j].status = 0 /\ msgs[j].method = "INVITE" /\ msgs[j].by = "callee" /\ msgs[j].cseq = cseq
AckedAt(cseq, i) ==
    \E j \in Places : i < j /\ msgs[j].status = 0 /\ msgs[j].method = "ACK" /\ msgs[j].to = Caller /\ msgs[j].cseq = cseq

\* An answered re-INVITE of a callee was asked and acknowledged: build_calls takes the
\* answer for one of a fork when its number is that of an initial INVITE.
Reinvites ==
    /\ pending # NoTag /\ pending.method = "INVITE" /\ pending.side = "callee" => Asked(pending.cseq)
    /\ \A i \in Places : \A cseq : Reinvited(msgs[i]) /\ msgs[i].cseq = cseq => Asked(cseq) /\ AckedAt(cseq, i)

\* What was asked and acknowledged stays so.
LEMMA AskedStays ==
  ASSUME Captured, NEW n \in Nat, Extends(n), NEW cseq
  PROVE  /\ Asked(cseq) => Asked(cseq)'
         /\ \A i \in Places : AckedAt(cseq, i) => AckedAt(cseq, i)'
  BY PlacesGrow DEF Asked, AckedAt

\* A step that adds no such answer.
LEMMA ReinvitesStay ==
  ASSUME Captured, Reinvites, NEW n \in Nat, Extends(n), \A i \in Places' : i \notin Places => ~Reinvited(msgs'[i]),
         pending' = pending
  PROVE  Reinvites'
  <1>1. ASSUME NEW i \in Places', NEW cseq, Reinvited(msgs'[i]), msgs'[i].cseq = cseq
        PROVE  Asked(cseq)' /\ AckedAt(cseq, i)'
    <2>1. i \in Places /\ msgs'[i] = msgs[i]
      BY <1>1, PlacesGrow
    <2> QED BY <1>1, <2>1, AskedStays DEF Reinvites
  <1>2. ASSUME pending # NoTag, pending.method = "INVITE", pending.side = "callee" PROVE Asked(pending.cseq)'
    <2>1. PICK cseq : cseq = pending.cseq
      OBVIOUS
    <2>2. Asked(cseq)'
      BY <1>2, <2>1, AskedStays DEF Reinvites
    <2> QED BY <2>1, <2>2 DEF Asked
  <1>3. pending' # NoTag /\ pending'.method = "INVITE" /\ pending'.side = "callee" => Asked(pending.cseq)'
    BY <1>2
  <1> QED BY <1>1, <1>3 DEF Reinvites, Reinvited

\* Reply answers a re-INVITE and acknowledges it at once.
LEMMA ReinvitesNext == Made /\ Reinvites /\ [SignallingNext]_signallingVars => Reinvites'
  <1> SUFFICES ASSUME State, Captured, Reinvites, [SignallingNext]_signallingVars PROVE Reinvites'
    BY DEF Made
  <1>1. CASE UNCHANGED signallingVars
    BY <1>1 DEF signallingVars, Reinvites, Asked, AckedAt, Places
  <1>2. ASSUME Still PROVE Reinvites'
    BY <1>2, ReinvitesStay DEF Still, Plain, Reinvited
  <1>3. PICK m, k : m = msgs'[Len(msgs) + 1] /\ k = msgs'[Len(msgs) + 2]
    OBVIOUS
  <1>4. ASSUME Extends(1), ~Reinvited(m), pending' = pending PROVE Reinvites'
    <2>1. \A i \in Places' : i \notin Places => i = Len(msgs) + 1
      BY <1>4, PlacesGrow
    <2> QED BY <1>3, <1>4, <2>1, ReinvitesStay
  <1>5. CASE Challenge
    <2>1. /\ Extends(2) /\ Is(m, 401, "INVITE", attempt, Caller, "uas", "none", "callee")
          /\ Is(k, 0, "ACK", attempt, Caller, "uas", "none", "caller")
      BY <1>3, <1>5, ChallengeSends
    <2>2. \A i \in Places' : i \notin Places => i = Len(msgs) + 1 \/ i = Len(msgs) + 2
      BY <2>1, PlacesGrow
    <2>3. ~Reinvited(m) /\ ~Reinvited(k)
      BY <2>1 DEF Is, Reinvited
    <2> QED BY <1>3, <1>5, <2>1, <2>2, <2>3, ReinvitesStay DEF Challenge, dialogVars
  <1>6. ASSUME NEW c \in Callees, Accept(c) PROVE Reinvites'
    <2>1. Extends(1) /\ Is(m, 200, "INVITE", attempt, Caller, c, "none", "callee")
      BY <1>3, <1>6, ResponseSends DEF Accept
    <2>2. ~Reinvited(m)
      BY <2>1, Tags DEF Is, Reinvited
    <2> QED BY <1>4, <1>6, <2>1, <2>2 DEF Accept, dialogVars
  <1>7. CASE Repeat
    <2>1. PICK i \in Places : \E n : /\ n = m /\ Transaction(n) = Transaction(msgs[i])
                                     /\ i = Len(msgs) \/ IsAnswer(msgs[i]) \/ IsChallenge(msgs[i])
      BY <1>3, <1>7, RepeatIs
    <2>2. PICK o : o = msgs[i]
      OBVIOUS
    <2>3. Reinvited(m) => Reinvited(o)
      BY <2>1, <2>2 DEF Reinvited, Transaction
    <2>4. ~Reinvited(o)
      <3>1. IsAnswer(o) \/ IsChallenge(o) => ~Reinvited(o)
        BY Tags DEF IsAnswer, IsChallenge, Reinvited
      <3>2. ASSUME i = Len(msgs) PROVE ~Reinvited(o)
        <4>1. \A cseq : ~AckedAt(cseq, i)
          BY <3>2, <2>1 DEF AckedAt, Places, Captured
        <4> QED BY <2>2, <4>1 DEF Reinvites
      <3> QED BY <2>1, <2>2, <3>1, <3>2
    <2>5. Extends(1)
      BY <1>7, RepeatIs
    <2> QED BY <1>4, <1>7, <2>3, <2>4, <2>5 DEF Repeat, dialogVars
  <1>8. ASSUME NEW c \in Callees, NEW side \in Sides, HangUp(side, c) PROVE Reinvites'
    <2>1. PICK cseq \in NextCSeq(Party(side, c)) : Capture(<<InDialogRequest(side, c, "BYE", cseq, "none")>>)
      BY <1>8 DEF HangUp
    <2>2. cseq \in Nat
      BY SignallingAssumption DEF NextCSeq, State, Typed, Party
    <2>3. Extends(1) /\ Is(m, 0, "BYE", cseq, Party(side, c), Party(Other(side), c), "none", side)
      BY <1>3, <2>1, <2>2, InDialogSends
    <2> QED BY <1>4, <1>8, <2>3 DEF HangUp, Is, Reinvited
  <1>9. ASSUME NEW c \in Callees, NEW side \in Sides, Offer(side, c) \/ Refer(side, c) PROVE Reinvites'
    <2>1. PICK method \in {"INVITE", "UPDATE", "REFER"}, sdp \in {"none", "active", "hold"},
               cseq \in NextCSeq(Party(side, c)) :
             /\ Capture(<<InDialogRequest(side, c, method, cseq, sdp)>>)
             /\ pending' = [method |-> method, side |-> side, dialog |-> c, cseq |-> cseq]
      BY <1>9 DEF Offer, Refer
    <2>2. cseq \in Nat
      BY SignallingAssumption DEF NextCSeq, State, Typed, Party
    <2>3. Extends(1) /\ Is(m, 0, method, cseq, Party(side, c), Party(Other(side), c), sdp, side)
      BY <1>3, <2>1, <2>2, InDialogSends
    <2>4. Places' = Places \cup {Len(msgs) + 1} /\ \A i \in Places : msgs'[i] = msgs[i]
      BY <2>3, PlacesGrow
    <2>5. ~Reinvited(m)
      BY <2>3 DEF Is, Reinvited
    <2>6. method = "INVITE" /\ side = "callee" => Asked(cseq)'
      BY <1>3, <2>3, <2>4 DEF Asked, Is
    <2>7. pending'.method = "INVITE" /\ pending'.side = "callee" => Asked(pending.cseq)'
      BY <2>1, <2>6 DEF Asked
    <2>8. ASSUME NEW i \in Places', NEW s, Reinvited(msgs'[i]), msgs'[i].cseq = s
          PROVE  Asked(s)' /\ AckedAt(s, i)'
      <3>1. i \in Places /\ msgs'[i] = msgs[i]
        BY <1>3, <2>4, <2>5, <2>8
      <3>2. 1 \in Nat
        OBVIOUS
      <3> QED BY <2>3, <2>8, <3>1, <3>2, AskedStays DEF Reinvites
    <2> QED BY <2>7, <2>8 DEF Reinvites, Reinvited
  <1>10. CASE Reply
    <2>1. /\ pending \in Awaiting /\ pending # NoTag /\ pending.dialog = Main /\ Main \in acked
          /\ pending' = NoTag
      BY <1>10 DEF Reply, State, Typed, Related
    <2>2. PICK side \in Sides, method \in {"INVITE", "UPDATE", "REFER"}, cseq \in Nat :
             pending.side = side /\ pending.method = method /\ pending.cseq = cseq
      BY <2>1 DEF Awaiting
    <2>3. PICK from, to : from = Party(side, Main) /\ to = Party(Other(side), Main)
      OBVIOUS
    <2>4. PICK status \in {200, 202, 603} :
           /\ Extends(IF method = "INVITE" THEN 2 ELSE 1)
           /\ Is(m, status, method, cseq, from, to, "none", Other(side))
           /\ method = "INVITE" => Is(k, 0, "ACK", cseq, from, to, "none", side)
      BY <1>3, <1>10, <2>2, <2>3, ReplySends
    <2>5. to = Caller => side = "callee"
      BY <2>1, <2>3, Tags DEF Party, Other, Sides
    <2>6. PICK n \in {1, 2} : Extends(n) /\ (n = 2 <=> method = "INVITE")
      BY <2>4
    <2>7. ASSUME NEW i \in Places', NEW s, Reinvited(msgs'[i]), msgs'[i].cseq = s
          PROVE  Asked(s)' /\ AckedAt(s, i)'
      <3>1. CASE i \in Places
        <4>1. msgs'[i] = msgs[i]
          BY <2>6, <3>1, PlacesGrow
        <4> QED BY <2>6, <2>7, <3>1, <4>1, AskedStays DEF Reinvites
      <3>2. CASE i \notin Places
        <4>1. i = Len(msgs) + 1 \/ (n = 2 /\ i = Len(msgs) + 2)
          BY <2>6, <3>2, PlacesGrow
        <4>2. ~Reinvited(k) \/ n = 1
          BY <2>4, <2>6 DEF Is, Reinvited
        <4>3. i = Len(msgs) + 1 /\ Reinvited(m) /\ m.cseq = s
          BY <1>3, <2>7, <4>1, <4>2
        <4>4. method = "INVITE" /\ to = Caller /\ s = cseq /\ n = 2
          BY <2>4, <2>6, <4>3 DEF Is, Reinvited
        <4>5. Asked(s)
          BY <2>1, <2>2, <2>5, <4>4 DEF Reinvites
        <4>6. Asked(s)'
          BY <2>6, <4>5, AskedStays
        <4>7. i < Len(msgs) + 2 /\ Len(msgs) + 2 \in Places'
          BY <2>6, <4>3, <4>4, PlacesGrow
        <4>8. k.status = 0 /\ k.method = "ACK" /\ k.to = Caller /\ k.cseq = s
          BY <2>4, <4>4 DEF Is
        <4>9. AckedAt(s, i)'
          BY <1>3, <4>7, <4>8 DEF AckedAt
        <4> QED BY <4>6, <4>9
      <3> QED BY <3>1, <3>2
    <2> QED BY <2>1, <2>7 DEF Reinvites, Reinvited
  <1> QED BY <1>1, <1>2, <1>5, <1>6, <1>7, <1>8, <1>9, <1>10, StillSteps DEF SignallingNext

-----------------------------------------------------------------------------
(* What build_calls reads from the capture.                                 *)
LEMMA AttemptsAreKnown ==
  ASSUME Made, Witnessed
  PROVE  /\ InitialCSeqs(msgs) = 1..attempt /\ LastCSeq(msgs) = attempt /\ attempt \in Nat \ {0}
         /\ DOMAIN msgs = Places /\ Places \subseteq Nat
         /\ \A i : i \in InviteResponses(msgs) <=>
               i \in Places /\ msgs[i].status > 0 /\ msgs[i].method = "INVITE" /\ msgs[i].cseq \in 1..attempt
  <1>1. DOMAIN msgs = Places /\ State /\ Captured /\ attempt \in Nat \ {0} /\ Places \subseteq Nat
    BY DEF Made, Captured, Places, State, Typed
  <1>2. ASSUME NEW i \in InitialInvites(msgs) PROVE msgs[i].cseq \in 1..attempt
    <2>1. PICK m : m = msgs[i]
      OBVIOUS
    <2>2. i \in Places /\ m.status = 0 /\ m.method = "INVITE" /\ m.to = NoTag
      BY <1>1, <1>2, <2>1 DEF InitialInvites, RequestsOf, IsRequest
    <2>3. Legal(m)
      BY <1>1, <2>1, <2>2, AtPlace
    <2>4. ~IsDialogRequest(m)
      BY <1>1, <2>2, Tags DEF IsDialogRequest, Within
    <2>5. IsInvite(m)
      BY <2>2, <2>3, <2>4 DEF Legal, IsProvisional, IsAnswer, IsChallenge, IsRefusal, IsAckOfFailure,
         IsAckOfAnswer, IsCancel, IsDialogReply, IsDialogAck, IsBye
    <2> QED BY <2>1, <2>5 DEF IsInvite
  <1>3. ASSUME NEW a \in 1..attempt PROVE a \in InitialCSeqs(msgs)
    <2>1. PICK i \in Places : /\ msgs[i].status = 0 /\ msgs[i].method = "INVITE"
                              /\ msgs[i].cseq = a /\ msgs[i].to = NoTag
      BY DEF Witnessed, Sent
    <2> QED BY <1>1, <2>1 DEF InitialCSeqs, InitialInvites, RequestsOf, IsRequest
  <1>4. InitialCSeqs(msgs) = 1..attempt
    BY <1>2, <1>3 DEF InitialCSeqs
  <1>5. LastCSeq(msgs) = attempt
    <2>1. PICK x \in Nat : x = Max(1..attempt) /\ x \in 1..attempt /\ attempt <= x
      <3>1. PICK a \in Nat \ {0} : a = attempt
        BY <1>1
      <3>2. a \in 1..a /\ 1..a \subseteq 0..a /\ 1..a # {} /\ a \in Nat
        OBVIOUS
      <3>3. Max(1..a) \in 1..a /\ \A y \in 1..a : y <= Max(1..a)
        BY <3>2, MaxIs
      <3>4. Max(1..a) \in Nat /\ a <= Max(1..a)
        BY <3>2, <3>3
      <3> QED BY <3>1, <3>3, <3>4
    <2> QED BY <1>1, <1>4, <2>1 DEF LastCSeq
  <1> QED BY <1>1, <1>4, <1>5 DEF InviteResponses

\* A 2xx that build_calls takes for an answer: of a callee, or to a re-INVITE of one.
LEMMA SuccessIs ==
  ASSUME Made, Witnessed, NEW i \in InviteResponses(msgs), Success(msgs[i])
  PROVE  /\ i \in Places /\ answers # <<>>
         /\ IsAnswer(msgs[i]) \/ (Reinvited(msgs[i]) /\ IsDialogReply(msgs[i]))
  <1>1. State /\ Captured
    BY DEF Made
  <1>2. PICK m : m = msgs[i]
    OBVIOUS
  <1>3. /\ i \in Places /\ m.status \in 200..299 /\ m.method = "INVITE" /\ m.cseq \in 1..attempt
        /\ attempt \in Nat
    BY <1>2, AttemptsAreKnown DEF Success
  <1>4. Legal(m)
    BY <1>1, <1>2, <1>3, AtPlace
  <1>5. IsAnswer(m) \/ IsDialogReply(m)
    BY <1>3, <1>4 DEF Legal, IsInvite, IsProvisional, IsChallenge, IsRefusal, IsAckOfFailure,
       IsAckOfAnswer, IsCancel, IsDialogRequest, IsDialogAck, IsBye
  <1>6. ASSUME IsDialogReply(m) PROVE Reinvited(m) /\ answers # <<>>
    <2>1. Within(Other(m.by), Main, m.cseq, m.from, m.to) /\ m.status = 200 /\ Main \in acked
      BY <1>3, <1>6 DEF IsDialogReply
    <2>2. ~(attempt < m.cseq)
      BY <1>3
    <2>3. m.to = Caller
      BY <2>1, <2>2 DEF Within
    <2> QED BY <1>1, <1>3, <2>1, <2>3, Tags DEF Reinvited
  <1>7. IsAnswer(m) => answers # <<>>
    BY <1>1, Tags DEF IsAnswer
  <1> QED BY <1>2, <1>3, <1>5, <1>6, <1>7

\* The answer of a callee is a response to the last attempt.
LEMMA AnswerIsResponse ==
  ASSUME Made, Witnessed, NEW i \in Places, msgs[i].status = 200, msgs[i].method = "INVITE", msgs[i].cseq = attempt
  PROVE  i \in InviteResponses(msgs) /\ i \in LastResponses(msgs) /\ Success(msgs[i])
  BY AttemptsAreKnown DEF LastResponses, Success

\* The call counts as answered when somebody answered.
LEMMA AnsweredIs == ASSUME Made, Witnessed PROVE Answered(msgs) <=> answers # <<>>
  <1>1. ASSUME Answered(msgs) PROVE answers # <<>>
    <2>1. PICK i \in InviteResponses(msgs) : Success(msgs[i])
      BY <1>1 DEF Answered, Answers, LastResponses
    <2> QED BY <2>1, SuccessIs
  <1>2. ASSUME answers # <<>> PROVE Answered(msgs)
    <2>1. Main \in ToSet(answers)
      BY <1>2 DEF Made, State, Typed, Main, ToSet
    <2>2. PICK i \in Places : msgs[i].status = 200 /\ msgs[i].method = "INVITE" /\ msgs[i].cseq = attempt
      BY <2>1 DEF Witnessed, Sent
    <2> QED BY <2>2, AnswerIsResponse DEF Answered, Answers
  <1> QED BY <1>1, <1>2

\* The dialogs are those of the callees that answered, and at most one more.
LEMMA ConfirmedIs ==
  ASSUME Made, Witnessed, Reinvites
  PROVE  /\ ToSet(answers) \subseteq Confirmed(msgs) /\ Confirmed(msgs) \subseteq ToSet(answers) \cup {Caller}
         /\ NumbersApart => Confirmed(msgs) \subseteq ToSet(answers)
  <1>1. State /\ Captured
    BY DEF Made
  <1>2. ASSUME NEW c \in ToSet(answers) PROVE c \in Confirmed(msgs)
    <2>1. PICK i \in Places : /\ msgs[i].status = 200 /\ msgs[i].method = "INVITE"
                              /\ msgs[i].cseq = attempt /\ msgs[i].to = c
      BY DEF Witnessed, Sent
    <2>2. c # NoTag
      BY <1>1, Tags
    <2> QED BY <2>1, <2>2, AnswerIsResponse DEF Confirmed
  <1>3. ASSUME NEW c \in Confirmed(msgs) PROVE c \in ToSet(answers) \/ (c = Caller /\ ~NumbersApart)
    <2>1. PICK i \in InviteResponses(msgs) : Success(msgs[i]) /\ msgs[i].to = c
      BY <1>3 DEF Confirmed
    <2>2. PICK m : m = msgs[i]
      OBVIOUS
    <2>3. i \in Places /\ m.to = c /\ (IsAnswer(m) \/ Reinvited(m))
      BY <2>1, <2>2, SuccessIs
    <2>4. ASSUME Reinvited(m) PROVE c = Caller /\ ~NumbersApart
      <3>1. PICK cseq : cseq = m.cseq
        OBVIOUS
      <3>2. Asked(cseq) /\ cseq \in 1..attempt /\ attempt \in Nat
        BY <2>1, <2>2, <2>3, <2>4, <3>1, AttemptsAreKnown DEF Reinvites
      <3>3. PICK j \in Places : /\ msgs[j].status = 0 /\ msgs[j].method = "INVITE" /\ msgs[j].by = "callee"
                                /\ msgs[j].cseq = cseq
        BY <3>2 DEF Asked
      <3>4. cseq <= attempt
        BY <3>2
      <3> QED BY <2>3, <2>4, <3>3, <3>4 DEF Reinvited, NumbersApart, IsRequest, Places
    <2> QED BY <2>3, <2>4 DEF IsAnswer
  <1> QED BY <1>2, <1>3

\* A dialog counts as acknowledged when the caller acknowledged that callee.
LEMMA AckedIs ==
  ASSUME Made, Witnessed, AckSeen, Reinvites, NEW c \in Confirmed(msgs)
  PROVE  Acked(msgs, c) <=> c \in acked \/ c = Caller
  <1>1. State /\ Captured /\ msgs \in Seq(MessageSet) /\ DOMAIN msgs = Places /\ Places \subseteq Nat
    BY AttemptsAreKnown DEF Made, Captured
  <1>2. PICK S : S = {i \in InviteResponses(msgs) : msgs[i].to = c /\ Success(msgs[i])}
    OBVIOUS
  <1>3. S # {} /\ S \subseteq Nat /\ S \subseteq Places
    <2>1. \E i \in InviteResponses(msgs) : Success(msgs[i]) /\ msgs[i].to = c
      BY DEF Confirmed
    <2>2. InviteResponses(msgs) \subseteq Places
      BY AttemptsAreKnown
    <2> QED BY <1>1, <1>2, <2>1, <2>2
  <1>4. PICK f \in S : f = Min(S) /\ \A i \in S : f <= i
    BY <1>3, MinIs
  <1>5. PICK m : m = msgs[f] /\ FirstAnswer(msgs, c) = m
    BY <1>2, <1>3, <1>4 DEF FirstAnswer, First
  <1>6. m.at = f /\ m.to = c /\ (IsAnswer(m) \/ Reinvited(m)) /\ m.cseq \in 1..attempt
    BY <1>1, <1>2, <1>3, <1>4, <1>5, SuccessIs, AttemptsAreKnown DEF Captured
  <1>7. Acked(msgs, c) <=> \E j \in Places : /\ msgs[j].status = 0 /\ msgs[j].method = "ACK"
                                             /\ msgs[j].cseq = m.cseq /\ msgs[j].at >= f /\ msgs[j].to \in {c, NoTag}
    BY <1>1, <1>5, <1>6 DEF Acked, RequestsOf, IsRequest
  <1>8. c \in ToSet(answers) \/ c = Caller
    BY ConfirmedIs
  <1>9. CASE c \in acked
    <2>1. PICK i \in Places, j \in Places :
             /\ i < j
             /\ msgs[i].status = 200 /\ msgs[i].method = "INVITE" /\ msgs[i].cseq = attempt /\ msgs[i].to = c
             /\ msgs[j].status = 0 /\ msgs[j].method = "ACK" /\ msgs[j].cseq = attempt /\ msgs[j].to = c
      BY <1>9 DEF AckSeen
    <2>2. i \in S
      BY <1>2, <2>1, AnswerIsResponse
    <2>3. f <= i /\ msgs[j].at = j /\ j >= f
      BY <1>1, <1>3, <1>4, <2>1, <2>2 DEF Captured
    <2>4. m.cseq = attempt
      BY <1>1, <1>6, <1>9, Tags DEF IsAnswer, Reinvited
    <2> QED BY <1>7, <1>9, <2>1, <2>3, <2>4
  <1>10. CASE c = Caller
    <2>1. Reinvited(m)
      BY <1>1, <1>6, <1>10, Tags DEF IsAnswer
    <2>2. PICK cseq : cseq = m.cseq
      OBVIOUS
    <2>3. AckedAt(cseq, f)
      BY <1>3, <1>5, <2>1, <2>2 DEF Reinvites
    <2>4. PICK j \in Places : /\ f < j /\ msgs[j].status = 0 /\ msgs[j].method = "ACK" /\ msgs[j].to = Caller
                              /\ msgs[j].cseq = cseq
      BY <2>3 DEF AckedAt
    <2>5. msgs[j].at = j /\ j >= f
      BY <1>1, <1>3, <2>4 DEF Captured
    <2> QED BY <1>7, <1>10, <2>2, <2>4, <2>5
  <1>11. CASE c \in ToSet(answers) /\ c \notin acked /\ c # Caller
    <2>1. m.cseq = attempt
      BY <1>6, <1>11 DEF IsAnswer, Reinvited
    <2>2. ASSUME NEW j \in Places, NEW k, k = msgs[j], k.status = 0, k.method = "ACK", k.to \in {c, NoTag}
          PROVE  FALSE
      <3>1. Legal(k)
        BY <1>1, <2>2, AtPlace
      <3>2. IsAckOfFailure(k) \/ IsAckOfAnswer(k) \/ IsDialogAck(k)
        BY <2>2, <3>1 DEF Legal, IsInvite, IsProvisional, IsAnswer, IsChallenge, IsRefusal, IsCancel,
           IsDialogRequest, IsDialogReply, IsBye
      <3>3. IsDialogAck(k) => k.to \in {Main, Caller} /\ Main \in acked
        BY DEF IsDialogAck, Within
      <3> QED BY <1>1, <1>11, <2>2, <3>2, <3>3, Tags DEF IsAckOfFailure, IsAckOfAnswer
    <2> QED BY <1>7, <1>11, <2>2
  <1> QED BY <1>8, <1>9, <1>10, <1>11

\* The capture has what the two sides did: each attempt, each answer, the end of the
\* INVITE, the CANCEL, and after each acknowledged answer its ACK.
THEOREM ObservedAlways == SignallingSpec => [](Made /\ Witnessed /\ AckSeen /\ Reinvites)
  <1>1. SignallingInit => AckSeen
    BY DEF SignallingInit, AckSeen
  <1>2. SignallingInit => Reinvites
    <2> SUFFICES ASSUME SignallingInit PROVE Reinvites
      OBVIOUS
    <2>1. PICK one, m : /\ one = Message(0, "INVITE", 1, Caller, NoTag, "active", "caller")
                        /\ m = [one EXCEPT !.at = 1] /\ msgs = <<m>>
      BY DEF SignallingInit
    <2>2. m.status = 0
      BY <2>1 DEF Message
    <2>3. \A i \in Places : msgs[i] = m
      BY <2>1 DEF Places
    <2>4. pending = NoTag
      BY DEF SignallingInit
    <2> QED BY <2>2, <2>3, <2>4 DEF Reinvites, Reinvited
  <1> QED BY <1>1, <1>2, MadeInit, MadeNext, WitnessedInit, WitnessedNext, AckSeenNext, ReinvitesNext, PTL
      DEF SignallingSpec

\* missing_ack_dialogs of build_calls are the dialogs of the callees whose answer the
\* caller did not acknowledge, and a call is forked when several answered: no ACK of a
\* challenge, of another fork or of a re-INVITE is taken for the missing one.
THEOREM MissingAckIsFaithful == SignallingSpec => []MissingAckFaithful
  <1>1. ASSUME Made, Witnessed, AckSeen, Reinvites PROVE MissingAckFaithful
    <2>1. State /\ answers \in Seq(Callees) /\ Len(answers) \in Nat /\ ToSet(answers) = {answers[i] : i \in 1..Len(answers)}
      BY <1>1 DEF Made, State, Typed, ToSet
    <2>2. IsFiniteSet(ToSet(answers)) /\ IsFiniteSet(Confirmed(msgs)) /\ Cardinality(Confirmed(msgs)) \in Nat
      <3>1. IsFiniteSet(1..Len(answers))
        BY <2>1, FS_Interval
      <3>2. IsFiniteSet(ToSet(answers))
        <4>1. answers \in Surjection(1..Len(answers), ToSet(answers))
          BY <2>1 DEF Surjection
        <4> QED BY <3>1, <4>1, FS_Surjection
      <3>3. IsFiniteSet(ToSet(answers) \cup {Caller})
        BY <3>2, FS_AddElement
      <3> QED BY <1>1, <3>2, <3>3, FS_Subset, FS_CardinalityType, ConfirmedIs
    <2>3. ASSUME Len(answers) > 1 PROVE Forked(msgs)
      <3>1. PICK c, d : c = answers[1] /\ d = answers[2]
        OBVIOUS
      <3>2. c # d /\ {c, d} \subseteq ToSet(answers)
        <4>1. 1 \in 1..Len(answers) /\ 2 \in 1..Len(answers) /\ 1 # 2
          BY <2>1, <2>3
        <4>2. \A i, j \in 1..Len(answers) : answers[i] = answers[j] => i = j
          BY <2>1 DEF State, Typed
        <4> QED BY <2>1, <3>1, <4>1, <4>2
      <3>3. Cardinality({c, d}) = 2
        <4>1. {c, d} = {c} \cup {d} /\ d \notin {c}
          BY <3>2
        <4>2. IsFiniteSet({c}) /\ Cardinality({c}) = 1
          BY FS_Singleton
        <4> QED BY <4>1, <4>2, FS_AddElement
      <3>4. {c, d} \subseteq Confirmed(msgs)
        BY <1>1, <3>2, ConfirmedIs
      <3>5. Cardinality({c, d}) <= Cardinality(Confirmed(msgs))
        BY <2>2, <3>4, FS_Subset
      <3> QED BY <2>2, <3>3, <3>5 DEF Forked
    <2>4. ASSUME Forked(msgs), NumbersApart, ~(Len(answers) > 1) PROVE FALSE
      <3>1. Confirmed(msgs) \subseteq ToSet(answers)
        BY <1>1, <2>4, ConfirmedIs
      <3>2. Cardinality(Confirmed(msgs)) <= Cardinality(ToSet(answers)) /\ Cardinality(ToSet(answers)) \in Nat
        BY <2>2, <3>1, FS_Subset, FS_CardinalityType
      <3>3. CASE Len(answers) = 0
        <4>1. ToSet(answers) = {}
          BY <2>1, <3>3
        <4> QED BY <2>2, <2>4, <3>2, <4>1, FS_EmptySet DEF Forked
      <3>4. CASE Len(answers) = 1
        <4>1. ToSet(answers) = {answers[1]}
          BY <2>1, <3>4
        <4>2. Cardinality(ToSet(answers)) = 1
          BY <4>1, FS_Singleton
        <4> QED BY <2>2, <2>4, <3>2, <4>2 DEF Forked
      <3>5. PICK n \in Nat : n = Len(answers) /\ ~(n > 1)
        BY <2>1, <2>4
      <3>6. n = 0 \/ n = 1
        BY <3>5
      <3> QED BY <3>3, <3>4, <3>5, <3>6
    <2>5. MissingAckDialogs(msgs) = ToSet(answers) \ acked
      <3>1. ~(Answered(msgs) /\ Confirmed(msgs) = {})
        <4>1. ASSUME answers # <<>> PROVE Confirmed(msgs) # {}
          <5>1. answers[1] \in ToSet(answers)
            BY <2>1, <4>1
          <5> QED BY <1>1, <5>1, ConfirmedIs
        <4> QED BY <1>1, <4>1, AnsweredIs
      <3>2. MissingAckDialogs(msgs) = {tag \in Confirmed(msgs) : ~Acked(msgs, tag)}
        BY <3>1 DEF MissingAckDialogs
      <3>3. \A c \in ToSet(answers) : c # Caller
        BY <2>1, Tags
      <3>4. \A c \in Confirmed(msgs) : Acked(msgs, c) <=> c \in acked \/ c = Caller
        BY <1>1, AckedIs
      <3>5. ToSet(answers) \subseteq Confirmed(msgs) /\ Confirmed(msgs) \subseteq ToSet(answers) \cup {Caller}
        BY <1>1, ConfirmedIs
      <3> QED BY <3>2, <3>3, <3>4, <3>5
    <2> QED BY <2>3, <2>4, <2>5 DEF MissingAckFaithful
  <1> QED BY <1>1, ObservedAlways, PTL

-----------------------------------------------------------------------------
(* Challenges.                                                              *)
All == {i \in Places : msgs[i].status = 401}
\* The challenges of earlier attempts.
Old == {i \in All : msgs[i].cseq # attempt}
\* The challenges that the caller answered with a new INVITE.
Retried == IF phase = "challenged" THEN challenges - 1 ELSE challenges

\* Each challenge is there once, and once more for each time it was sent again.
Counted ==
    /\ Cardinality(All) \in challenges .. challenges + repeats
    /\ Cardinality(Old) \in Retried .. Retried + repeats

\* The counts are numbers.
LEMMA CountsAreFinite ==
  ASSUME State, Captured
  PROVE  /\ IsFiniteSet(Places) /\ IsFiniteSet(All) /\ IsFiniteSet(Old)
         /\ Cardinality(All) \in Nat /\ Cardinality(Old) \in Nat
         /\ challenges \in Nat /\ repeats \in Nat /\ Retried \in Nat /\ attempt \in Nat
         /\ \A i \in All : msgs[i].cseq \in 1..attempt /\ (msgs[i].cseq = attempt => phase = "challenged")
  <1>1. Len(msgs) \in Nat
    BY DEF Captured
  <1>2. IsFiniteSet(Places)
    BY <1>1, FS_Interval DEF Places
  <1>3. IsFiniteSet(All) /\ IsFiniteSet(Old)
    BY <1>2, FS_Subset DEF All, Old
  <1>4. challenges \in Nat /\ repeats \in Nat /\ Retried \in Nat /\ attempt \in Nat
    BY DEF State, Typed, Related, Retried
  <1>5. ASSUME NEW i \in All PROVE msgs[i].cseq \in 1..attempt /\ (msgs[i].cseq = attempt => phase = "challenged")
    <2>1. PICK m : m = msgs[i]
      OBVIOUS
    <2>2. Legal(m) /\ m.status = 401
      BY <2>1, AtPlace DEF All
    <2>3. IsChallenge(m)
      BY <2>2 DEF Legal, IsInvite, IsProvisional, IsAnswer, IsRefusal, IsAckOfFailure,
         IsAckOfAnswer, IsCancel, IsDialogRequest, IsDialogReply, IsDialogAck, IsBye
    <2> QED BY <2>1, <2>3 DEF IsChallenge
  <1> QED BY <1>2, <1>3, <1>4, <1>5, FS_CardinalityType

\* A step without a challenge.
LEMMA NoNewChallenge ==
  ASSUME State, Captured, Counted, NEW n \in Nat, Extends(n),
         \A i \in Places' : i \notin Places => msgs'[i].status # 401,
         attempt' = attempt, challenges' = challenges, repeats' = repeats,
         phase = "challenged" <=> phase' = "challenged"
  PROVE  Counted'
  <1>1. All' = All
    BY PlacesGrow DEF All
  <1>2. Old' = Old
    BY <1>1, PlacesGrow DEF Old, All
  <1>3. Retried' = Retried
    BY DEF Retried
  <1> QED BY <1>1, <1>2, <1>3 DEF Counted

\* What one of the two sides asks inside a dialog.
LEMMA DialogSends ==
  ASSUME State, Captured, NEW c \in Callees, NEW side \in Sides, Offer(side, c) \/ Refer(side, c) \/ HangUp(side, c)
  PROVE  /\ Extends(1)
         /\ \E method \in {"INVITE", "UPDATE", "REFER", "BYE"}, cseq \in Nat : \E sdp :
               /\ Is(msgs'[Len(msgs) + 1], 0, method, cseq, Party(side, c), Party(Other(side), c), sdp, side)
               /\ method = "BYE" <=> HangUp(side, c)
  <1>1. PICK method \in {"INVITE", "UPDATE", "REFER", "BYE"}, sdp \in {"none", "active", "hold"},
             cseq \in NextCSeq(Party(side, c)) :
           /\ Capture(<<InDialogRequest(side, c, method, cseq, sdp)>>)
           /\ method = "BYE" <=> HangUp(side, c)
    <2>1. ASSUME HangUp(side, c) PROVE byes' # byes
      <3>1. Len(byes') = Len(byes) + 1 /\ Len(byes) \in Nat
        BY <2>1, AppendProperties DEF HangUp, State, Typed
      <3> QED BY <3>1
    <2>2. CASE Offer(side, c)
      <3>1. byes' = byes
        BY <2>2 DEF Offer
      <3> QED BY <2>1, <2>2, <3>1 DEF Offer
    <2>3. CASE Refer(side, c)
      <3>1. byes' = byes
        BY <2>3 DEF Refer
      <3> QED BY <2>1, <2>3, <3>1 DEF Refer
    <2>4. CASE HangUp(side, c)
      BY <2>4 DEF HangUp
    <2> QED BY <2>2, <2>3, <2>4
  <1>2. cseq \in Nat
    BY SignallingAssumption DEF NextCSeq, State, Typed, Party
  <1>3. /\ Extends(1)
        /\ Is(msgs'[Len(msgs) + 1], 0, method, cseq, Party(side, c), Party(Other(side), c), sdp, side)
    BY <1>1, <1>2, InDialogSends
  <1> QED BY <1>1, <1>2, <1>3

\* Challenge adds one, Retry makes it old, Repeat may add one.
LEMMA CountedNext == Made /\ Counted /\ [SignallingNext]_signallingVars => Counted'
  <1> SUFFICES ASSUME State, Captured, Counted, [SignallingNext]_signallingVars PROVE Counted'
    BY DEF Made
  <1>1. CASE UNCHANGED signallingVars
    BY <1>1 DEF signallingVars, Counted, All, Old, Retried, Places
  <1>2. /\ Cardinality(All) \in Nat /\ Cardinality(Old) \in Nat /\ challenges \in Nat /\ repeats \in Nat
        /\ IsFiniteSet(All) /\ IsFiniteSet(Old) /\ Retried \in Nat
        /\ Cardinality(All) \in challenges .. challenges + repeats
        /\ Cardinality(Old) \in Retried .. Retried + repeats
    BY CountsAreFinite DEF Counted
  <1>3. PICK m, k : m = msgs'[Len(msgs) + 1] /\ k = msgs'[Len(msgs) + 2]
    OBVIOUS
  <1>4. ASSUME Extends(1), m.status # 401, attempt' = attempt, challenges' = challenges, repeats' = repeats,
               phase = "challenged" <=> phase' = "challenged"
        PROVE  Counted'
    <2>1. \A i \in Places' : i \notin Places => i = Len(msgs) + 1
      BY <1>4, PlacesGrow
    <2> QED BY <1>3, <1>4, <2>1, NoNewChallenge
  <1>5. ASSUME Still, attempt' = attempt, phase = "challenged" <=> phase' = "challenged" PROVE Counted'
    BY <1>5, NoNewChallenge DEF Still, Plain
  <1>6. CASE Challenge
    <2>1. /\ Extends(2) /\ Is(m, 401, "INVITE", attempt, Caller, "uas", "none", "callee")
          /\ Is(k, 0, "ACK", attempt, Caller, "uas", "none", "caller")
      BY <1>3, <1>6, ChallengeSends
    <2>2. /\ phase = "calling" /\ phase' = "challenged" /\ challenges' = challenges + 1 /\ attempt' = attempt
          /\ repeats' = repeats
      BY <1>6 DEF Challenge
    <2>3. Places' = Places \cup {Len(msgs) + 1, Len(msgs) + 2} /\ \A i \in Places : msgs'[i] = msgs[i]
      BY <2>1, PlacesGrow
    <2>4. All' = All \cup {Len(msgs) + 1} /\ Len(msgs) + 1 \notin All
      BY <1>3, <2>1, <2>3, PlacesGrow DEF All, Is
    <2>5. Old' = Old
      BY <1>3, <2>1, <2>2, <2>3, <2>4 DEF Old, Is, All
    <2>6. Cardinality(All') = Cardinality(All) + 1
      BY <1>2, <2>4, FS_AddElement
    <2>7. Retried' = Retried
      BY <1>2, <2>2 DEF Retried
    <2> QED BY <1>2, <2>2, <2>5, <2>6, <2>7 DEF Counted
  <1>7. CASE Retry
    <2>1. /\ phase = "challenged" /\ phase' = "calling" /\ challenges' = challenges /\ attempt' = attempt + 1
          /\ repeats' = repeats
      BY <1>7 DEF Retry
    <2>2. Extends(1) /\ m.status = 0
      BY <1>3, <1>7, RetrySends DEF Is
    <2>3. Places' = Places \cup {Len(msgs) + 1} /\ \A i \in Places : msgs'[i] = msgs[i]
      BY <2>2, PlacesGrow
    <2>4. All' = All
      BY <1>3, <2>2, <2>3 DEF All
    <2>5. Old' = All
      <3>1. \A i \in All : msgs'[i].cseq # attempt + 1
        BY <2>3, CountsAreFinite DEF All
      <3> QED BY <2>1, <2>4, <3>1 DEF Old
    <2>6. Retried' = challenges
      BY <2>1 DEF Retried
    <2> QED BY <1>2, <2>1, <2>4, <2>5, <2>6 DEF Counted
  <1>8. CASE Repeat
    <2>1. repeats' = repeats + 1 /\ UNCHANGED <<phase, attempt, challenges>>
      BY <1>8 DEF Repeat, callVars
    <2>2. Extends(1)
      BY <1>8, RepeatIs
    <2>3. Places' = Places \cup {Len(msgs) + 1} /\ \A i \in Places : msgs'[i] = msgs[i]
      BY <2>2, PlacesGrow
    <2>4. All' = All \/ (All' = All \cup {Len(msgs) + 1} /\ Len(msgs) + 1 \notin All)
      BY <2>3, PlacesGrow, <2>2 DEF All
    <2>5. Old' = Old \/ (Old' = Old \cup {Len(msgs) + 1} /\ Len(msgs) + 1 \notin Old)
      BY <2>1, <2>3, PlacesGrow, <2>2 DEF All, Old
    <2>6. Cardinality(All') \in {Cardinality(All), Cardinality(All) + 1}
      BY <1>2, <2>4, FS_AddElement
    <2>7. Cardinality(Old') \in {Cardinality(Old), Cardinality(Old) + 1}
      BY <1>2, <2>5, FS_AddElement
    <2>8. Retried' = Retried
      BY <2>1 DEF Retried
    <2> QED BY <1>2, <2>1, <2>6, <2>7, <2>8 DEF Counted
  <1>9. ASSUME NEW c \in Callees, Accept(c) PROVE Counted'
    <2>1. Extends(1) /\ m.status = 200
      BY <1>3, <1>9, ResponseSends DEF Accept, Is
    <2> QED BY <1>4, <1>9, <2>1 DEF Accept
  <1>10. ASSUME NEW c \in Callees, NEW side \in Sides, Offer(side, c) \/ Refer(side, c) \/ HangUp(side, c)
         PROVE Counted'
    <2>1. Extends(1) /\ m.status = 0
      BY <1>3, <1>10, DialogSends DEF Is
    <2> QED BY <1>4, <1>10, <2>1 DEF Offer, Refer, HangUp, callVars
  <1>11. CASE Reply
    <2>1. PICK n \in {1, 2} : Extends(n) /\ m.status # 401 /\ (n = 2 => k.status # 401)
      BY <1>3, <1>11, ReplySends DEF Is
    <2>2. \A i \in Places' : i \notin Places => i = Len(msgs) + 1 \/ (n = 2 /\ i = Len(msgs) + 2)
      BY <2>1, PlacesGrow
    <2> QED BY <1>3, <1>11, <2>1, <2>2, NoNewChallenge DEF Reply, callVars
  <1>12. CASE Trying
    BY <1>5, <1>12, StillSteps DEF Trying, callVars
  <1>13. CASE Cancel
    BY <1>5, <1>13, StillSteps DEF Cancel
  <1>14. CASE Refuse
    BY <1>5, <1>14, StillSteps, RefuseSends DEF Refuse
  <1>15. ASSUME NEW c \in Callees, Ring(c) \/ Ack(c) PROVE Counted'
    BY <1>5, <1>15, StillSteps DEF Ring, Ack, callVars
  <1> QED BY <1>1, <1>6, <1>7, <1>8, <1>9, <1>10, <1>11, <1>12, <1>13, <1>14, <1>15 DEF SignallingNext

\* Two rows of the table of final codes.
LEMMA OutcomeValues == OutcomeOf(401) = "auth_failed" /\ OutcomeOf(486) = "busy"
  <1>1. DOMAIN StatusesOf = {"busy", "no_answer", "timeout", "not_found", "auth_failed", "rejected",
                             "media_negotiation_failed", "cancelled"}
    BY DEF StatusesOf
  <1>2. /\ StatusesOf["busy"] = {486, 600} /\ StatusesOf["no_answer"] = {480} /\ StatusesOf["timeout"] = {408}
        /\ StatusesOf["not_found"] = {404, 410, 484, 604} /\ StatusesOf["auth_failed"] = {401, 407}
        /\ StatusesOf["rejected"] = {403, 603} /\ StatusesOf["media_negotiation_failed"] = {415, 488, 606}
        /\ StatusesOf["cancelled"] = {487}
    BY DEF StatusesOf
  <1>3. /\ \A o \in DOMAIN StatusesOf : 401 \in StatusesOf[o] <=> o = "auth_failed"
        /\ \A o \in DOMAIN StatusesOf : 486 \in StatusesOf[o] <=> o = "busy"
    BY <1>1, <1>2
  <1>4. (CHOOSE o \in DOMAIN StatusesOf : 401 \in StatusesOf[o]) = "auth_failed"
    BY <1>1, <1>3
  <1>5. (CHOOSE o \in DOMAIN StatusesOf : 486 \in StatusesOf[o]) = "busy"
    BY <1>1, <1>3
  <1> QED BY <1>1, <1>3, <1>4, <1>5 DEF OutcomeOf

\* Without an answer, the last final response to the last INVITE says how it ended.
LEMMA ResponsesWithoutAnswer ==
  ASSUME Made, Witnessed, answers = <<>>, NEW i \in Places, msgs[i].status # 0, msgs[i].method = "INVITE"
  PROVE  /\ i \in InviteResponses(msgs)
         /\ i \in LastResponses(msgs) /\ Final(msgs[i]) =>
               \/ phase = "challenged" /\ msgs[i].status = 401
               \/ phase = "486" /\ msgs[i].status = 486
               \/ phase = "487" /\ msgs[i].status = 487
  <1>1. State /\ Captured
    BY DEF Made
  <1>2. PICK m : m = msgs[i]
    OBVIOUS
  <1>3. Legal(m) /\ m \in MessageSet /\ m.status # 0 /\ m.method = "INVITE"
    BY <1>1, <1>2, AtPlace
  <1>4. ~IsAnswer(m) /\ ~IsDialogReply(m)
    BY <1>1, Tags DEF IsAnswer, IsDialogReply
  <1>5. IsProvisional(m) \/ IsChallenge(m) \/ IsRefusal(m)
    BY <1>3, <1>4 DEF Legal, IsInvite, IsAckOfFailure, IsAckOfAnswer, IsCancel, IsDialogRequest, IsDialogAck, IsBye
  <1>6. attempt \in Nat \ {0} /\ m.cseq \in 1..attempt /\ m.status > 0
    BY <1>1, <1>3, <1>5, Tags DEF IsProvisional, IsChallenge, IsRefusal, MessageSet
  <1>7. i \in InviteResponses(msgs)
    BY <1>2, <1>3, <1>6, AttemptsAreKnown
  <1>8. i \in LastResponses(msgs) => m.cseq = attempt
    BY <1>2, AttemptsAreKnown DEF LastResponses
  <1> QED BY <1>2, <1>5, <1>7, <1>8 DEF IsProvisional, IsChallenge, IsRefusal, Final

\* Without an answer, the final code is that of the end of the last attempt.
LEMMA FinalStatusIs ==
  ASSUME Made, Witnessed, answers = <<>>
  PROVE  FinalStatus(msgs) = CASE phase = "challenged" -> 401 [] phase = "486" -> 486 [] phase = "487" -> 487
                               [] OTHER -> 0
  <1>1. State /\ Captured /\ ~Answered(msgs) /\ Len(msgs) \in Nat
    BY AnsweredIs DEF Made, Captured
  <1>2. PICK finals : finals = {i \in LastResponses(msgs) : Final(msgs[i])}
    OBVIOUS
  <1>3. FinalStatus(msgs) = IF finals = {} THEN 0 ELSE msgs[Max(finals)].status
    BY <1>1, <1>2 DEF FinalStatus
  <1>4. \A i \in finals : /\ i \in Places
                          /\ \/ phase = "challenged" /\ msgs[i].status = 401
                             \/ phase = "486" /\ msgs[i].status = 486
                             \/ phase = "487" /\ msgs[i].status = 487
    <2> SUFFICES ASSUME NEW i \in finals
                 PROVE  /\ i \in Places
                        /\ \/ phase = "challenged" /\ msgs[i].status = 401
                           \/ phase = "486" /\ msgs[i].status = 486
                           \/ phase = "487" /\ msgs[i].status = 487
      OBVIOUS
    <2>1. i \in LastResponses(msgs) /\ Final(msgs[i]) /\ i \in InviteResponses(msgs)
      BY <1>2 DEF LastResponses
    <2>2. i \in Places /\ msgs[i].status # 0 /\ msgs[i].method = "INVITE"
      BY <2>1, AttemptsAreKnown
    <2> QED BY <2>1, <2>2, ResponsesWithoutAnswer
  <1>5. finals # {} => Max(finals) \in finals
    <2>1. finals \subseteq 0..Len(msgs)
      BY <1>1, <1>4 DEF Places
    <2> QED BY <1>1, <2>1, MaxIs
  <1>6. ASSUME NEW status \in {401, 486, 487}, Sent(status, "INVITE", attempt, "uas") PROVE finals # {}
    <2>1. PICK i \in Places : msgs[i].status = status /\ msgs[i].method = "INVITE" /\ msgs[i].cseq = attempt
      BY <1>6 DEF Sent
    <2>2. i \in InviteResponses(msgs) /\ Final(msgs[i])
      BY <2>1, ResponsesWithoutAnswer DEF Final
    <2>3. i \in LastResponses(msgs)
      BY <2>1, <2>2, AttemptsAreKnown DEF LastResponses
    <2> QED BY <1>2, <2>2, <2>3
  <1>7. phase \in {"challenged", "486", "487"} => finals # {}
    BY <1>6 DEF Witnessed
  <1>8. CASE finals = {}
    BY <1>3, <1>7, <1>8
  <1>9. CASE finals # {}
    BY <1>3, <1>4, <1>5, <1>9
  <1> QED BY <1>8, <1>9

\* A CANCEL is in the capture when the caller sent one.
LEMMA CancelsAre == ASSUME Made, Witnessed PROVE Cancels(msgs) # {} <=> cancelled
  <1>1. State /\ Captured
    BY DEF Made
  <1>2. ASSUME NEW i \in Cancels(msgs) PROVE cancelled
    <2>1. PICK m : m = msgs[i]
      OBVIOUS
    <2>2. i \in Places /\ m.method = "CANCEL"
      BY <2>1, AttemptsAreKnown DEF Cancels, RequestsOf, IsRequest
    <2>3. Legal(m)
      BY <1>1, <2>1, <2>2, AtPlace
    <2> QED BY <2>2, <2>3 DEF Legal, IsInvite, IsProvisional, IsAnswer, IsChallenge, IsRefusal, IsAckOfFailure,
       IsAckOfAnswer, IsCancel, IsDialogRequest, IsDialogReply, IsDialogAck, IsBye
  <1>3. cancelled => Cancels(msgs) # {}
    BY AttemptsAreKnown DEF Witnessed, Sent, Cancels, RequestsOf, IsRequest
  <1> QED BY <1>2, <1>3

\* What classify_outcome makes of the capture.
LEMMA OutcomeIs ==
  ASSUME Made, Witnessed
  PROVE  Outcome(msgs) =
          CASE phase = "answered" -> "answered"
            [] phase = "challenged" -> "auth_failed"
            [] phase = "486" -> "busy"
            [] phase = "487" -> "cancelled"
            [] phase = "calling" ->
                  IF \A i \in 1..Len(msgs) : msgs[i].status = 0 \/ msgs[i].method # "INVITE"
                  THEN "no_response"
                  ELSE IF cancelled THEN "cancelled" ELSE "in_progress"
  <1>1. /\ State /\ Captured /\ phase \in {"calling", "challenged", "answered", "486", "487"}
        /\ phase = "answered" <=> answers # <<>>
        /\ phase = "challenged" => ~cancelled
        /\ phase = "487" => cancelled
    BY DEF Made, State, Typed, Related
  <1>2. PICK status, heard, gaveUp, connected :
           /\ status = FinalStatus(msgs) /\ heard = (InviteResponses(msgs) # {})
           /\ gaveUp = (Cancels(msgs) # {}) /\ connected = Answered(msgs)
           /\ Outcome(msgs) = ClassifyOutcome(status, connected, gaveUp, heard)
    BY Zenon DEF Outcome
  <1>3. connected <=> phase = "answered"
    BY <1>1, <1>2, AnsweredIs
  <1>4. gaveUp <=> cancelled
    BY <1>2, CancelsAre
  <1>5. ASSUME phase # "answered"
        PROVE  heard <=> ~\A i \in Places : msgs[i].status = 0 \/ msgs[i].method # "INVITE"
    <2>1. \A i \in InviteResponses(msgs) : i \in Places /\ msgs[i].status # 0 /\ msgs[i].method = "INVITE"
      BY AttemptsAreKnown
    <2>2. \A i \in Places : msgs[i].status # 0 /\ msgs[i].method = "INVITE" => i \in InviteResponses(msgs)
      BY <1>1, <1>5, ResponsesWithoutAnswer
    <2> QED BY <1>2, <2>1, <2>2
  <1>6. ASSUME phase # "answered"
        PROVE  status = CASE phase = "challenged" -> 401 [] phase = "486" -> 486 [] phase = "487" -> 487
                          [] OTHER -> 0
    BY <1>1, <1>2, <1>6, FinalStatusIs
  <1>7. phase \in {"challenged", "486", "487"} => heard
    <2>1. ASSUME NEW s \in {401, 486, 487}, Sent(s, "INVITE", attempt, "uas"), phase # "answered" PROVE heard
      BY <1>5, <2>1 DEF Sent
    <2> QED BY <2>1 DEF Witnessed
  <1>8. CASE phase = "answered"
    <2>1. Outcome(msgs) = "answered"
      BY <1>2, <1>3, <1>8 DEF ClassifyOutcome
    <2> QED BY <1>8, <2>1
  <1>9. CASE phase = "challenged"
    <2>1. status = 401
      BY <1>6, <1>9
    <2>2. ~connected /\ heard /\ ~gaveUp
      BY <1>1, <1>3, <1>4, <1>7, <1>9
    <2>3. Outcome(msgs) = "auth_failed"
      BY <1>2, <2>1, <2>2, OutcomeValues DEF ClassifyOutcome
    <2> QED BY <1>9, <2>3
  <1>10. CASE phase = "486"
    <2>1. status = 486
      BY <1>6, <1>10
    <2>2. ~connected /\ heard
      BY <1>3, <1>7, <1>10
    <2>3. Outcome(msgs) = "busy"
      BY <1>2, <2>1, <2>2, OutcomeValues DEF ClassifyOutcome
    <2> QED BY <1>10, <2>3
  <1>11. CASE phase = "487"
    <2>1. status = 487
      BY <1>6, <1>11
    <2>2. ~connected /\ heard /\ gaveUp
      BY <1>1, <1>3, <1>4, <1>7, <1>11
    <2>3. Outcome(msgs) = "cancelled"
      BY <1>2, <2>1, <2>2 DEF ClassifyOutcome
    <2> QED BY <1>11, <2>3
  <1>12. CASE phase = "calling"
    <2>1. status = 0
      BY <1>6, <1>12
    <2>2. ~connected
      BY <1>3, <1>12
    <2>3. Outcome(msgs) = IF ~heard THEN "no_response" ELSE IF gaveUp THEN "cancelled" ELSE "in_progress"
      BY <1>2, <2>1, <2>2 DEF ClassifyOutcome
    <2>4. Outcome(msgs) = IF \A i \in 1..Len(msgs) : msgs[i].status = 0 \/ msgs[i].method # "INVITE"
                          THEN "no_response" ELSE IF cancelled THEN "cancelled" ELSE "in_progress"
      BY <1>4, <1>5, <1>12, <2>3 DEF Places
    <2> QED BY <1>12, <2>4
  <1> QED BY <1>1, <1>8, <1>9, <1>10, <1>11, <1>12

\* The challenges of the report are those of earlier attempts.
LEMMA ChallengesAre ==
  ASSUME Made, Witnessed, Counted
  PROVE  AuthChallenges(msgs) \in Retried .. Retried + repeats
  <1>1. State /\ Captured /\ attempt \in Nat \ {0}
    BY DEF Made, State, Typed
  <1>2. {i \in InviteResponses(msgs) : msgs[i].status \in {401, 407} /\ msgs[i].cseq # LastCSeq(msgs)} = Old
    <2>1. ASSUME NEW i \in Places, msgs[i].status \in {401, 407}
          PROVE  msgs[i].status = 401 /\ msgs[i].method = "INVITE" /\ msgs[i].cseq \in 1..attempt
      <3>1. PICK m : m = msgs[i]
        OBVIOUS
      <3>2. Legal(m) /\ m.status \in {401, 407}
        BY <1>1, <2>1, <3>1, AtPlace
      <3>3. IsChallenge(m)
        BY <3>2 DEF Legal, IsInvite, IsProvisional, IsAnswer, IsRefusal, IsAckOfFailure,
           IsAckOfAnswer, IsCancel, IsDialogRequest, IsDialogReply, IsDialogAck, IsBye
      <3> QED BY <3>1, <3>3 DEF IsChallenge
    <2> QED BY <2>1, AttemptsAreKnown DEF Old, All
  <1>3. AuthChallenges(msgs) = Cardinality(Old)
    BY <1>2 DEF AuthChallenges
  <1> QED BY <1>3 DEF Counted

\* The outcome is what came of the call (classify_outcome over the responses to the last
\* INVITE): a challenge that was answered is not its result, an answer that crossed a
\* CANCEL counts and the 200 to the CANCEL does not; auth_challenges counts the
\* challenges that were answered, and the repetitions of one.
THEOREM OutcomeIsFaithful == SignallingSpec => []OutcomeFaithful
  <1>1. Made /\ Witnessed /\ Counted => OutcomeFaithful
    BY OutcomeIs, ChallengesAre DEF OutcomeFaithful, Retried
  <1>2. SignallingInit => Counted
    <2> SUFFICES ASSUME SignallingInit PROVE Counted
      OBVIOUS
    <2>1. PICK one, m : /\ one = Message(0, "INVITE", 1, Caller, NoTag, "active", "caller")
                        /\ m = [one EXCEPT !.at = 1] /\ msgs = <<m>>
      BY DEF SignallingInit
    <2>2. m.status = 0
      BY <2>1 DEF Message
    <2>3. \A i \in Places : msgs[i] = m
      BY <2>1 DEF Places
    <2>4. All = {} /\ Old = {}
      BY <2>2, <2>3 DEF All, Old
    <2>5. Retried = 0 /\ challenges = 0 /\ repeats = 0
      BY DEF SignallingInit, Retried
    <2> QED BY <2>4, <2>5, FS_EmptySet DEF Counted
  <1>3. SignallingSpec => []Counted
    BY <1>2, MadeAlways, CountedNext, PTL DEF SignallingSpec
  <1> QED BY <1>1, <1>3, ObservedAlways, PTL

-----------------------------------------------------------------------------
(* Who hung up.                                                             *)
LEMMA MinGrows ==
  ASSUME NEW S, S \subseteq Nat, S # {}, NEW n \in Nat, \A x \in S : x < n
  PROVE  Min(S \cup {n}) = Min(S)
  <1>1. PICK a \in Nat : a = Min(S) /\ a \in S /\ \A y \in S : a <= y
    BY MinIs
  <1>2. PICK b \in Nat : b = Min(S \cup {n}) /\ b \in S \cup {n} /\ \A y \in S \cup {n} : b <= y
    BY MinIs, ZenonT(30)
  <1>3. b <= a /\ b < n
    BY <1>1, <1>2
  <1>4. b \in S
    BY <1>2, <1>3
  <1> QED BY <1>1, <1>2, <1>3, <1>4

\* The least of one number.
LEMMA MinOfOne == ASSUME NEW n \in Nat PROVE Min({n}) = n
  BY MinIs

\* The BYE messages of the dialog with c, and the times it was hung up.
ByesIn(c) == {i \in Places : msgs[i].method = "BYE" /\ c \in {msgs[i].from, msgs[i].to}}
EndsOf(c) == {i \in 1..Len(byes) : byes[i].dialog = c}
\* They start with the same side.
Ends(c) ==
    /\ ByesIn(c) = {} <=> EndsOf(c) = {}
    /\ ByesIn(c) # {} => msgs[Min(ByesIn(c))].by = byes[Min(EndsOf(c))].by

\* In every dialog.
FirstByes == \A c \in Callees : Ends(c)

\* The first answer of the capture is that of the first callee that answered, and every
\* BYE comes later.
FirstAnswered ==
    answers # <<>> =>
        \E f \in Places :
            /\ msgs[f].status = 200 /\ msgs[f].method = "INVITE" /\ msgs[f].cseq = attempt /\ msgs[f].to = Main
            /\ \A i \in Places : i < f => ~(Success(msgs[i]) /\ msgs[i].method = "INVITE" /\ msgs[i].cseq = attempt)
            /\ \A i \in Places : msgs[i].method = "BYE" => f < i

\* A step that ends no dialog and sends no BYE.
LEMMA EndsStay ==
  ASSUME State, Captured, NEW c \in Callees, Ends(c), byes' = byes, NEW n \in Nat, Extends(n),
         \A i \in Places' : i \notin Places => msgs'[i].method # "BYE"
  PROVE  Ends(c)'
  <1>1. ByesIn(c)' = ByesIn(c) /\ EndsOf(c)' = EndsOf(c)
    BY PlacesGrow DEF ByesIn, EndsOf
  <1>2. ByesIn(c) # {} => Min(ByesIn(c)) \in ByesIn(c)
    <2>1. ByesIn(c) \subseteq Nat
      BY PlacesGrow DEF ByesIn
    <2> QED BY <2>1, MinIs
  <1>3. ByesIn(c) # {} => msgs'[Min(ByesIn(c))] = msgs[Min(ByesIn(c))]
    BY <1>2, PlacesGrow DEF ByesIn
  <1> QED BY <1>1, <1>3 DEF Ends

\* A BYE is the first of its dialog when nobody hung up before.
LEMMA HangUpEnds ==
  ASSUME State, Captured, NEW c \in Callees, Ends(c), NEW d \in Callees, NEW side \in Sides, HangUp(side, d)
  PROVE  Ends(c)'
  <1>1. PICK m : m = msgs'[Len(msgs) + 1]
    OBVIOUS
  <1>2. PICK cseq : Extends(1) /\ Is(m, 0, "BYE", cseq, Party(side, d), Party(Other(side), d), "none", side)
    <2>1. PICK k \in NextCSeq(Party(side, d)) : Capture(<<InDialogRequest(side, d, "BYE", k, "none")>>)
      BY DEF HangUp
    <2>2. k \in Nat
      BY SignallingAssumption DEF NextCSeq, State, Typed, Party
    <2> QED BY <1>1, <2>1, <2>2, InDialogSends
  <1>3. /\ Places' = Places \cup {Len(msgs) + 1} /\ \A i \in Places : msgs'[i] = msgs[i] /\ i < Len(msgs) + 1
        /\ Len(msgs) + 1 \in Nat /\ Places \subseteq Nat
    BY <1>2, PlacesGrow DEF Places
  <1>4. PICK b, new : b = Len(byes) + 1 /\ new = [dialog |-> d, by |-> side]
    OBVIOUS
  <1>5. /\ byes' = Append(byes, new) /\ byes \in Seq([dialog : Callees, by : Sides])
        /\ new \in [dialog : Callees, by : Sides]
    BY <1>4 DEF HangUp, State, Typed
  <1>6. /\ 1..Len(byes') = 1..Len(byes) \cup {b} /\ b \in Nat /\ byes'[b] = new
        /\ \A i \in 1..Len(byes) : byes'[i] = byes[i] /\ i < b
    BY <1>4, <1>5, AppendProperties
  <1>7. new.dialog = d /\ new.by = side
    BY <1>4
  <1>8. PICK S, T : S = ByesIn(c) /\ T = EndsOf(c)
    OBVIOUS
  <1>9. /\ S \subseteq Nat /\ T \subseteq Nat /\ S \subseteq Places /\ T \subseteq 1..Len(byes)
        /\ S = {} <=> T = {}
        /\ S # {} => msgs[Min(S)].by = byes[Min(T)].by
        /\ S # {} => Min(S) \in S /\ Min(T) \in T
    <2>1. /\ S \subseteq Nat /\ T \subseteq Nat /\ S \subseteq Places /\ T \subseteq 1..Len(byes)
          /\ S = {} <=> T = {}
          /\ S # {} => msgs[Min(S)].by = byes[Min(T)].by
      <3>1. S \subseteq Places /\ T \subseteq 1..Len(byes)
        BY <1>8 DEF ByesIn, EndsOf
      <3>2. /\ S = {} <=> T = {}
            /\ S # {} => msgs[Min(S)].by = byes[Min(T)].by
        BY <1>8 DEF Ends
      <3>3. T \subseteq Nat
        BY <3>1
      <3> QED BY <1>3, <3>1, <3>2, <3>3
    <2> QED BY <2>1, MinIs
  <1>10. CASE c # d
    <2>1. c \notin {m.from, m.to}
      BY <1>2, <1>10, Tags DEF Is, Party, Other, Sides
    <2>2. ByesIn(c)' = S
      BY <1>1, <1>3, <1>8, <2>1 DEF ByesIn
    <2>3. EndsOf(c)' = T
      BY <1>6, <1>7, <1>8, <1>10 DEF EndsOf
    <2>4. S # {} => msgs'[Min(S)] = msgs[Min(S)] /\ byes'[Min(T)] = byes[Min(T)]
      BY <1>3, <1>6, <1>9
    <2> QED BY <1>9, <2>2, <2>3, <2>4 DEF Ends
  <1>11. CASE c = d
    <2>1. c \in {m.from, m.to} /\ m.method = "BYE" /\ m.by = side
      BY <1>2, <1>11 DEF Is, Party, Other, Sides
    <2>2. ByesIn(c)' = S \cup {Len(msgs) + 1}
      BY <1>1, <1>3, <1>8, <2>1 DEF ByesIn
    <2>3. EndsOf(c)' = T \cup {b}
      BY <1>6, <1>7, <1>8, <1>11 DEF EndsOf
    <2>4. CASE S = {}
      <3>1. ByesIn(c)' = {Len(msgs) + 1} /\ EndsOf(c)' = {b}
        BY <1>9, <2>2, <2>3, <2>4
      <3>2. Min({Len(msgs) + 1}) = Len(msgs) + 1 /\ Min({b}) = b
        BY <1>3, <1>6, MinOfOne
      <3>3. msgs'[Len(msgs) + 1].by = byes'[b].by
        BY <1>1, <1>6, <1>7, <2>1
      <3> QED BY <3>1, <3>2, <3>3 DEF Ends
    <2>5. CASE S # {}
      <3>1. Min(S \cup {Len(msgs) + 1}) = Min(S)
        BY <1>3, <1>9, <2>5, MinGrows
      <3>2. Min(T \cup {b}) = Min(T)
        BY <1>6, <1>9, <2>5, MinGrows
      <3>3. msgs'[Min(S)] = msgs[Min(S)] /\ byes'[Min(T)] = byes[Min(T)]
        BY <1>3, <1>6, <1>9, <2>5
      <3>4. ByesIn(c)' # {} /\ EndsOf(c)' # {}
        BY <2>2, <2>3
      <3> QED BY <1>9, <2>2, <2>3, <2>5, <3>1, <3>2, <3>3, <3>4 DEF Ends
    <2> QED BY <2>4, <2>5
  <1> QED BY <1>10, <1>11

\* A BYE sent again is not the first.
LEMMA RepeatEnds ==
  ASSUME State, Captured, NEW c \in Callees, Ends(c), Repeat
  PROVE  Ends(c)'
  <1>1. PICK i \in Places : \E m : /\ m = msgs'[Len(msgs) + 1] /\ Transaction(m) = Transaction(msgs[i])
                                   /\ i = Len(msgs) \/ IsAnswer(msgs[i]) \/ IsChallenge(msgs[i])
    BY RepeatIs
  <1>2. PICK m : m = msgs'[Len(msgs) + 1] /\ Transaction(m) = Transaction(msgs[i])
    BY <1>1
  <1>3. /\ m.method = msgs[i].method /\ m.from = msgs[i].from /\ m.to = msgs[i].to
    BY <1>2 DEF Transaction
  <1>4. Extends(1) /\ byes' = byes
    BY RepeatIs DEF Repeat, dialogVars
  <1>5. /\ Places' = Places \cup {Len(msgs) + 1} /\ \A j \in Places : msgs'[j] = msgs[j] /\ j < Len(msgs) + 1
        /\ Len(msgs) + 1 \in Nat /\ Places \subseteq Nat
    BY <1>4, PlacesGrow DEF Places
  <1>6. PICK S, T : S = ByesIn(c) /\ T = EndsOf(c)
    OBVIOUS
  <1>7. /\ S \subseteq Nat /\ S \subseteq Places
        /\ S = {} <=> T = {}
        /\ S # {} => msgs[Min(S)].by = byes[Min(T)].by
    BY <1>5, <1>6 DEF ByesIn, Ends
  <1>8. S # {} => Min(S) \in S
    BY <1>7, MinIs
  <1>9. EndsOf(c)' = T
    BY <1>4, <1>6 DEF EndsOf
  <1>10. CASE S # {}
    <2>1. ByesIn(c)' = S \/ ByesIn(c)' = S \cup {Len(msgs) + 1}
      BY <1>5, <1>6 DEF ByesIn
    <2>2. Min(S \cup {Len(msgs) + 1}) = Min(S)
      BY <1>5, <1>7, <1>10, MinGrows
    <2>3. msgs'[Min(S)] = msgs[Min(S)]
      BY <1>5, <1>7, <1>8, <1>10
    <2> QED BY <1>4, <1>7, <1>9, <1>10, <2>1, <2>2, <2>3 DEF Ends
  <1>11. CASE S = {}
    <2>1. ~(m.method = "BYE" /\ c \in {m.from, m.to})
      BY <1>3, <1>6, <1>11 DEF ByesIn
    <2>2. ByesIn(c)' = {}
      BY <1>2, <1>5, <1>6, <1>11, <2>1 DEF ByesIn
    <2> QED BY <1>7, <1>9, <1>11, <2>2 DEF Ends
  <1> QED BY <1>10, <1>11

\* Every step keeps them.
LEMMA FirstByesNext == Made /\ FirstByes /\ [SignallingNext]_signallingVars => FirstByes'
  <1> SUFFICES ASSUME State, Captured, FirstByes, [SignallingNext]_signallingVars, NEW c \in Callees
               PROVE  Ends(c)'
    BY DEF Made, FirstByes
  <1>0. Ends(c)
    BY DEF FirstByes
  <1>1. CASE UNCHANGED signallingVars
    BY <1>0, <1>1 DEF signallingVars, Ends, ByesIn, EndsOf, Places
  <1>2. PICK m, k : m = msgs'[Len(msgs) + 1] /\ k = msgs'[Len(msgs) + 2]
    OBVIOUS
  <1>3. ASSUME Extends(1), m.method # "BYE", byes' = byes PROVE Ends(c)'
    <2>1. \A i \in Places' : i \notin Places => i = Len(msgs) + 1
      BY <1>3, PlacesGrow
    <2> QED BY <1>0, <1>2, <1>3, <2>1, EndsStay
  <1>4. ASSUME Extends(2), m.method # "BYE", k.method # "BYE", byes' = byes PROVE Ends(c)'
    <2>1. \A i \in Places' : i \notin Places => i = Len(msgs) + 1 \/ i = Len(msgs) + 2
      BY <1>4, PlacesGrow
    <2> QED BY <1>0, <1>2, <1>4, <2>1, EndsStay
  <1>5. ASSUME Still PROVE Ends(c)'
    BY <1>0, <1>5, EndsStay DEF Still, Plain
  <1>6. CASE Challenge
    <2>1. Extends(2) /\ m.method = "INVITE" /\ k.method = "ACK"
      BY <1>2, <1>6, ChallengeSends DEF Is
    <2> QED BY <1>4, <1>6, <2>1 DEF Challenge, dialogVars
  <1>7. ASSUME NEW d \in Callees, Accept(d) PROVE Ends(c)'
    <2>1. Extends(1) /\ m.method = "INVITE"
      BY <1>2, <1>7, ResponseSends DEF Accept, Is
    <2> QED BY <1>3, <1>7, <2>1 DEF Accept, dialogVars
  <1>8. ASSUME NEW d \in Callees, NEW side \in Sides, Offer(side, d) \/ Refer(side, d) PROVE Ends(c)'
    <2>1. byes' = byes
      BY <1>8 DEF Offer, Refer
    <2>2. ~HangUp(side, d)
      <3>1. HangUp(side, d) => Len(byes') = Len(byes) + 1 /\ Len(byes) \in Nat
        BY AppendProperties DEF HangUp, State, Typed
      <3> QED BY <2>1, <3>1
    <2>3. Extends(1) /\ m.method # "BYE"
      BY <1>2, <1>8, <2>2, DialogSends DEF Is
    <2> QED BY <1>3, <2>1, <2>3
  <1>9. CASE Reply
    <2>1. pending.method \in {"INVITE", "UPDATE", "REFER"} /\ byes' = byes
      BY <1>9 DEF Reply, State, Typed, Awaiting
    <2>2. /\ m.method = pending.method /\ (pending.method = "INVITE" => k.method = "ACK")
          /\ Extends(IF pending.method = "INVITE" THEN 2 ELSE 1)
      BY <1>2, <1>9, ReplySends DEF Is
    <2> QED BY <1>3, <1>4, <2>1, <2>2
  <1> QED BY <1>0, <1>1, <1>5, <1>6, <1>7, <1>8, <1>9, StillSteps, HangUpEnds, RepeatEnds DEF SignallingNext

\* Accept captures the first answer before any BYE.
LEMMA FirstAnsweredNext ==
  Made /\ Witnessed /\ FirstAnswered /\ [SignallingNext]_signallingVars => FirstAnswered'
  <1> SUFFICES ASSUME Made, Witnessed, FirstAnswered, [SignallingNext]_signallingVars PROVE FirstAnswered'
    OBVIOUS
  <1>1. CASE UNCHANGED signallingVars
    BY <1>1 DEF signallingVars, FirstAnswered, Main, Places
  <1>2. State /\ Captured /\ msgs \in Seq(MessageSet)
    BY DEF Made, Captured
  <1>3. ASSUME SignallingNext PROVE State' /\ Evolves /\ \E n \in {1, 2} : Extends(n)
    <2>1. State' /\ Evolves
      BY <1>2, <1>3, StateNext
    <2> QED BY <1>2, <1>3, <2>1, StepAdds, RepeatIs DEF Adds
  <1>4. ASSUME SignallingNext, answers # <<>> PROVE FirstAnswered'
    <2>1. attempt' = attempt /\ Main' = Main
      BY <1>2, <1>3, <1>4, DialogStays
    <2>2. PICK n \in {1, 2} : Extends(n)
      BY <1>3, <1>4
    <2>3. PICK f \in Places :
            /\ msgs[f].status = 200 /\ msgs[f].method = "INVITE" /\ msgs[f].cseq = attempt /\ msgs[f].to = Main
            /\ \A i \in Places : i < f => ~(Success(msgs[i]) /\ msgs[i].method = "INVITE" /\ msgs[i].cseq = attempt)
            /\ \A i \in Places : msgs[i].method = "BYE" => f < i
      BY <1>4 DEF FirstAnswered
    <2>4. /\ f \in Places' /\ \A i \in Places : msgs'[i] = msgs[i]
          /\ \A i \in Places' : i \notin Places => f < i
      BY <1>2, <2>2, PlacesGrow DEF Places
    <2>5. \A i \in Places' : i < f => ~(Success(msgs'[i]) /\ msgs'[i].method = "INVITE" /\ msgs'[i].cseq = attempt)
      <3> SUFFICES ASSUME NEW i \in Places', i < f
                   PROVE  ~(Success(msgs'[i]) /\ msgs'[i].method = "INVITE" /\ msgs'[i].cseq = attempt)
        OBVIOUS
      <3>1. i \in Places
        <4>1. f \in Nat /\ i \in Nat
          BY <1>2, <2>2, PlacesGrow DEF Extends, Places
        <4> QED BY <2>4, <4>1
      <3> QED BY <2>3, <2>4, <3>1
    <2>6. \A i \in Places' : msgs'[i].method = "BYE" => f < i
      BY <2>3, <2>4
    <2> QED BY <2>1, <2>3, <2>4, <2>5, <2>6 DEF FirstAnswered, Success
  <1>5. ASSUME NEW c \in Callees, Accept(c), answers = <<>> PROVE FirstAnswered'
    <2>1. PICK a, f, m : a = attempt /\ f = Len(msgs) + 1 /\ m = msgs'[f]
      OBVIOUS
    <2>2. Extends(1) /\ Is(m, 200, "INVITE", a, Caller, c, "none", "callee")
      BY <1>2, <1>5, <2>1, ResponseSends DEF Accept
    <2>3. Main' = c /\ attempt' = a
      BY <1>2, <1>5, <2>1, AnswersAfter DEF Accept, Main, State, Typed
    <2>4. /\ Places' = Places \cup {f} /\ \A i \in Places : msgs'[i] = msgs[i]
      BY <1>2, <2>1, <2>2, PlacesGrow
    <2>5. \A i \in Places : ~(Success(msgs[i]) /\ msgs[i].method = "INVITE" /\ msgs[i].cseq = attempt)
      <3> SUFFICES ASSUME NEW i \in Places, Success(msgs[i]), msgs[i].method = "INVITE", msgs[i].cseq = attempt
                   PROVE  FALSE
        OBVIOUS
      <3>1. msgs[i].status > 0
        BY DEF Success
      <3>2. attempt \in 1..attempt
        BY AttemptsAreKnown
      <3>3. i \in InviteResponses(msgs)
        BY <3>1, <3>2, AttemptsAreKnown
      <3> QED BY <1>5, <3>3, SuccessIs
    <2>6. \A i \in Places : msgs[i].method # "BYE"
      <3> SUFFICES ASSUME NEW i \in Places, msgs[i].method = "BYE" PROVE FALSE
        OBVIOUS
      <3>1. PICK k : k = msgs[i]
        OBVIOUS
      <3>2. Legal(k) /\ k.method = "BYE"
        BY <1>2, <3>1, AtPlace
      <3>3. IsBye(k)
        BY <3>2 DEF Legal, IsInvite, IsProvisional, IsAnswer, IsChallenge, IsRefusal, IsAckOfFailure,
           IsAckOfAnswer, IsCancel, IsDialogRequest, IsDialogReply, IsDialogAck
      <3>4. \E b \in 1..Len(byes) : byes[b].dialog \in ToSet(answers)
        BY <1>2, <3>3 DEF IsBye, State, Related
      <3> QED BY <1>2, <1>5, <3>4, Tags
    <2>7. ASSUME NEW i \in Places', i < f
          PROVE  ~(Success(msgs'[i]) /\ msgs'[i].method = "INVITE" /\ msgs'[i].cseq = a)
      <3>1. i \in Places
        BY <1>2, <2>1, <2>4, <2>7
      <3> QED BY <2>1, <2>4, <2>5, <3>1
    <2>8. \A i \in Places' : msgs'[i].method # "BYE"
      BY <2>1, <2>2, <2>4, <2>6 DEF Is
    <2>9. f \in Places' /\ m.status = 200 /\ m.method = "INVITE" /\ m.cseq = a /\ m.to = c
      BY <2>2, <2>4 DEF Is
    <2> QED BY <2>1, <2>3, <2>7, <2>8, <2>9 DEF FirstAnswered, Success
  <1>6. ASSUME SignallingNext PROVE answers' = answers \/ \E c \in Callees : Accept(c)
    BY <1>6, ZenonT(30) DEF SignallingNext, Challenge, Retry, Trying, Ring, Accept, Ack, Cancel, Refuse, Offer, Refer,
          Reply, HangUp, Repeat, callVars
  <1>7. ASSUME answers' = <<>> PROVE FirstAnswered'
    BY <1>7 DEF FirstAnswered
  <1> QED BY <1>1, <1>4, <1>5, <1>6, <1>7

\* A BYE is of the side that its From says, after the answer.
LEMMA ByeIs ==
  ASSUME Made, NEW i \in Places, msgs[i].method = "BYE"
  PROVE  /\ msgs[i].status = 0 /\ msgs[i].by \in Sides /\ byes # <<>>
         /\ msgs[i].from = Caller <=> msgs[i].by = "caller"
  <1>1. State /\ Captured
    BY DEF Made
  <1>2. PICK m : m = msgs[i]
    OBVIOUS
  <1>3. Legal(m) /\ m.method = "BYE"
    BY <1>1, <1>2, AtPlace
  <1>4. IsBye(m)
    BY <1>3 DEF Legal, IsInvite, IsProvisional, IsAnswer, IsChallenge, IsRefusal, IsAckOfFailure,
       IsAckOfAnswer, IsCancel, IsDialogRequest, IsDialogReply, IsDialogAck
  <1>5. PICK b \in 1..Len(byes) : Within(m.by, byes[b].dialog, m.cseq, m.from, m.to)
    BY <1>4 DEF IsBye
  <1>6. byes[b].dialog \in Callees /\ byes # <<>>
    BY <1>1, Tags DEF State, Related
  <1> QED BY <1>1, <1>2, <1>4, <1>5, <1>6, Tags DEF IsBye, Within, Sides

\* The answer that build_calls picks is that of the first callee that answered.
LEMMA AnswerIsFirst ==
  ASSUME Made, Witnessed, FirstAnswered, answers # <<>>
  PROVE  /\ Answered(msgs) /\ Answer(msgs).to = Main /\ Main # NoTag /\ FinalStatus(msgs) = 200
         /\ {i \in RequestsOf(msgs, "BYE") : msgs[i].at >= Answer(msgs).at} = {i \in Places : msgs[i].method = "BYE"}
  <1>1. State /\ Captured /\ Main \in ToSet(answers) /\ Main # NoTag /\ DOMAIN msgs = Places /\ Places \subseteq Nat
    <2>1. State /\ Captured /\ Main \in ToSet(answers)
      BY DEF Made, State, Typed, Main, ToSet
    <2> QED BY <2>1, Tags, AttemptsAreKnown
  <1>2. PICK f \in Places :
            /\ msgs[f].status = 200 /\ msgs[f].method = "INVITE" /\ msgs[f].cseq = attempt /\ msgs[f].to = Main
            /\ \A i \in Places : i < f => ~(Success(msgs[i]) /\ msgs[i].method = "INVITE" /\ msgs[i].cseq = attempt)
            /\ \A i \in Places : msgs[i].method = "BYE" => f < i
    BY DEF FirstAnswered
  <1>3. PICK S : S = Answers(msgs)
    OBVIOUS
  <1>4. f \in S
    BY <1>2, <1>3, AnswerIsResponse DEF Answers
  <1>5. \A i \in S : i \in Places /\ f <= i
    <2> SUFFICES ASSUME NEW i \in S PROVE i \in Places /\ f <= i
      OBVIOUS
    <2>1. i \in LastResponses(msgs) /\ Success(msgs[i])
      BY <1>3 DEF Answers
    <2>2. i \in Places /\ msgs[i].method = "INVITE" /\ msgs[i].cseq = attempt
      BY <2>1, AttemptsAreKnown DEF LastResponses
    <2>3. ~(i < f)
      BY <1>2, <2>1, <2>2
    <2> QED BY <1>1, <2>2, <2>3
  <1>6. Min(S) = f
    <2>1. S \subseteq Nat /\ S # {}
      BY <1>1, <1>4, <1>5
    <2>2. PICK x \in Nat : x = Min(S) /\ x \in S /\ \A y \in S : x <= y
      BY <2>1, MinIs
    <2>3. x <= f /\ f <= x /\ f \in Nat
      BY <1>1, <1>4, <1>5, <2>2
    <2> QED BY <2>2, <2>3
  <1>7. PICK m : m = msgs[f] /\ Answer(msgs) = m
    BY <1>3, <1>4, <1>6 DEF Answer, First
  <1>8. m.at = f /\ m.to = Main /\ m.status = 200
    BY <1>1, <1>2, <1>7 DEF Captured
  <1>9. Answered(msgs) /\ FinalStatus(msgs) = 200
    BY <1>3, <1>4, <1>7, <1>8 DEF Answered, FinalStatus
  <1>10. ASSUME NEW i \in Places, msgs[i].method = "BYE" PROVE msgs[i].status = 0 /\ msgs[i].at >= f
    <2>1. f < i /\ msgs[i].at = i
      BY <1>1, <1>2, <1>10 DEF Captured
    <2> QED BY <1>1, <1>10, <2>1, ByeIs
  <1> QED BY <1>1, <1>7, <1>8, <1>9, <1>10 DEF RequestsOf, IsRequest

\* The first BYE of each dialog is that of who hung up first, and all follow the answer.
LEMMA EndsAlways == SignallingSpec => [](FirstByes /\ FirstAnswered)
  <1>1. SignallingInit => FirstByes /\ FirstAnswered
    <2> SUFFICES ASSUME SignallingInit PROVE FirstByes /\ FirstAnswered
      OBVIOUS
    <2>1. PICK one, m : /\ one = Message(0, "INVITE", 1, Caller, NoTag, "active", "caller")
                        /\ m = [one EXCEPT !.at = 1] /\ msgs = <<m>>
      BY DEF SignallingInit
    <2>2. m.method = "INVITE"
      BY <2>1 DEF Message
    <2>3. \A i \in Places : msgs[i] = m
      BY <2>1 DEF Places
    <2>4. \A c : ByesIn(c) = {}
      BY <2>2, <2>3 DEF ByesIn
    <2>5. byes = <<>> /\ answers = <<>> /\ 1..Len(byes) = {}
      BY DEF SignallingInit
    <2>6. \A c : EndsOf(c) = {}
      BY <2>5 DEF EndsOf
    <2> QED BY <2>4, <2>5, <2>6 DEF FirstByes, Ends, FirstAnswered
  <1>2. SignallingSpec => [](Made /\ Witnessed)
    BY ObservedAlways, PTL
  <1> QED BY <1>1, <1>2, FirstByesNext, FirstAnsweredNext, PTL DEF SignallingSpec

\* disconnect_side is the side that hung up first in the answered dialog, whatever BYEs
\* other forks have; without an answer, the side that ended the attempt.
THEOREM DisconnectIsFaithful == SignallingSpec => []DisconnectFaithful
  <1>1. ASSUME Made, Witnessed, FirstByes, FirstAnswered PROVE DisconnectFaithful
    <2>1. State /\ Captured /\ CallerTag(msgs) = Caller /\ Places \subseteq Nat
      BY <1>1, CallerIsKnown, AttemptsAreKnown DEF Made
    <2>2. \A i \in Places : msgs[i] # NoTag
      BY <2>1, AtPlace, SignallingAssumption
    <2>3. CASE answers = <<>>
      <3>1. Bye(msgs) = NoTag /\ ~Answered(msgs)
        BY <1>1, <2>3, AnsweredIs DEF Bye
      <3>2. Term(msgs) = First(msgs, Cancels(msgs))
        BY <3>1 DEF Term
      <3>3. CASE cancelled
        <4>1. PICK x : x = Min(Cancels(msgs)) /\ x \in Cancels(msgs) /\ x \in Places
          <5>1. Cancels(msgs) # {} /\ Cancels(msgs) \subseteq Places
            BY <1>1, <3>3, CancelsAre, AttemptsAreKnown DEF Cancels, RequestsOf
          <5> QED BY <2>1, <5>1, MinIs
        <4>2. PICK m : m = msgs[x]
          OBVIOUS
        <4>3. Term(msgs) = m /\ m # NoTag
          BY <2>2, <3>2, <4>1, <4>2 DEF First
        <4>4. Legal(m) /\ m.method = "CANCEL"
          BY <2>1, <4>1, <4>2, AtPlace DEF Cancels, RequestsOf, IsRequest
        <4>5. m.from = Caller
          BY <4>4 DEF Legal, IsInvite, IsProvisional, IsAnswer, IsChallenge, IsRefusal, IsAckOfFailure,
             IsAckOfAnswer, IsCancel, IsDialogRequest, IsDialogReply, IsDialogAck, IsBye
        <4>6. DisconnectSide(msgs) = "caller"
          BY <2>1, <4>3, <4>5 DEF DisconnectSide, TerminationObserved
        <4> QED BY <2>3, <3>3, <4>6 DEF DisconnectFaithful
      <3>4. CASE ~cancelled
        <4>1. Cancels(msgs) = {}
          BY <1>1, <3>4, CancelsAre
        <4>2. ~TerminationObserved(msgs)
          BY <3>2, <4>1 DEF TerminationObserved, First
        <4>3. FinalStatus(msgs) >= 300 <=> phase # "calling"
          <5>1. phase \in {"calling", "challenged", "486", "487"}
            BY <2>1, <2>3 DEF State, Typed, Related
          <5>2. FinalStatus(msgs) = CASE phase = "challenged" -> 401 [] phase = "486" -> 486 [] phase = "487" -> 487
                               [] OTHER -> 0
            BY <1>1, <2>3, FinalStatusIs
          <5> QED BY <5>1, <5>2
        <4>4. DisconnectSide(msgs) = IF phase = "calling" THEN "nobody" ELSE "callee"
          BY <4>2, <4>3 DEF DisconnectSide
        <4> QED BY <2>3, <3>4, <4>4 DEF DisconnectFaithful
      <3> QED BY <3>3, <3>4
    <2>4. CASE answers # <<>>
      <3>1. /\ Answered(msgs) /\ Answer(msgs).to = Main /\ Main # NoTag /\ FinalStatus(msgs) = 200
            /\ {i \in RequestsOf(msgs, "BYE") : msgs[i].at >= Answer(msgs).at} = {i \in Places : msgs[i].method = "BYE"}
        BY <1>1, <2>4, AnswerIsFirst
      <3>2. Main \in Callees
        BY <2>1, <2>4 DEF State, Typed, Main
      <3>3. PICK all, main, ended :
               /\ all = {i \in Places : msgs[i].method = "BYE"}
               /\ main = {i \in all : InMainDialog(msgs, msgs[i])} /\ ended = EndsOf(Main)
        OBVIOUS
      <3>4. Bye(msgs) = First(msgs, IF main # {} THEN main ELSE all)
        BY <3>1, <3>3 DEF Bye
      <3>5. main = ByesIn(Main)
        BY <3>1, <3>3 DEF InMainDialog, ByesIn
      <3>6. ended = {i \in 1..Len(byes) : byes[i].dialog = answers[1]}
        BY <3>3 DEF EndsOf, Main
      <3>7. /\ main = {} <=> ended = {}
            /\ main # {} => msgs[Min(main)].by = byes[Min(ended)].by
        BY <1>1, <3>2, <3>3, <3>5 DEF FirstByes, Ends
      <3>8. CASE ended # {}
        <4>1. main # {} /\ main \subseteq Places
          BY <3>3, <3>7, <3>8
        <4>2. PICK x \in Places : x = Min(main) /\ x \in main
          BY <2>1, <4>1, MinIs
        <4>3. PICK m : m = msgs[x] /\ m.method = "BYE" /\ m # NoTag
          BY <2>2, <3>3, <4>2
        <4>4. m.by \in Sides /\ (m.from = Caller <=> m.by = "caller") /\ m.by = byes[Min(ended)].by
          BY <1>1, <3>7, <4>1, <4>2, <4>3, ByeIs
        <4>5. Bye(msgs) = m /\ Term(msgs) = m
          BY <3>4, <4>1, <4>2, <4>3 DEF First, Term
        <4>6. DisconnectSide(msgs) = m.by
          BY <2>1, <4>3, <4>4, <4>5 DEF DisconnectSide, TerminationObserved, Sides
        <4> QED BY <2>4, <3>6, <3>8, <4>4, <4>6 DEF DisconnectFaithful
      <3>9. CASE ended = {}
        <4>1. ASSUME byes = <<>> PROVE DisconnectSide(msgs) = "nobody"
          <5>1. all = {} /\ main = {}
            BY <1>1, <3>3, <4>1, ByeIs
          <5>2. Bye(msgs) = NoTag
            BY <3>4, <5>1 DEF First
          <5>3. ~TerminationObserved(msgs)
            BY <3>1, <5>2 DEF TerminationObserved, Term
          <5> QED BY <3>1, <5>3 DEF DisconnectSide
        <4> QED BY <2>4, <3>6, <3>9, <4>1 DEF DisconnectFaithful
      <3> QED BY <3>8, <3>9
    <2> QED BY <2>3, <2>4
  <1> QED BY <1>1, EndsAlways, ObservedAlways, PTL
-----------------------------------------------------------------------------
(* Transfers.                                                               *)
ReferRecords == [by : Sides, cseq : Nat, status : {0, 202, 603}]

\* The REFER requests, each with a number of its own, and the one that waits.
Referring ==
    /\ IsFiniteSet(refers) /\ refers \subseteq ReferRecords
    /\ \A r \in refers : Main \in acked /\ r.cseq <= seq[Party(r.by, Main)]
    /\ \A r, s \in refers : r.by = s.by /\ r.cseq = s.cseq => r = s
    /\ pending # NoTag => \A r \in refers : r.by = pending.side /\ r.cseq = pending.cseq =>
                             pending.method = "REFER" /\ r.status = 0
    /\ pending # NoTag /\ pending.method = "REFER" =>
          \E r \in refers : r.by = pending.side /\ r.cseq = pending.cseq

\* Numbers grow.
LEMMA SeqGrows ==
  ASSUME State, State', Evolves, NEW p \in {Caller} \cup Callees
  PROVE  seq[p] \in Nat /\ seq'[p] \in Nat /\ seq[p] <= seq'[p]
  BY DEF State, Typed, Evolves

\* A step that leaves the REFER requests alone and asks nothing.
LEMMA RefersStay ==
  ASSUME State, State', Evolves, Referring, refers' = refers, pending' = pending \/ pending' = NoTag
  PROVE  Referring'
  <1>1. ASSUME NEW r \in refers PROVE Main' \in acked' /\ r.cseq <= seq'[Party(r.by, Main')]
    <2>1. Main \in acked /\ r.cseq <= seq[Party(r.by, Main)] /\ r.cseq \in Nat /\ r.by \in Sides
      BY DEF Referring, ReferRecords
    <2>2. answers # <<>> /\ Main \in Callees
      BY <2>1, Tags
    <2>3. Main' = Main /\ Main \in acked'
      BY <2>1, <2>2, DialogStays
    <2>4. PICK p \in {Caller} \cup Callees : p = Party(r.by, Main)
      BY <2>2 DEF Party
    <2>5. seq[p] \in Nat /\ seq'[p] \in Nat /\ seq[p] <= seq'[p]
      BY SeqGrows
    <2>6. r.cseq <= seq'[p]
      BY <2>1, <2>4, <2>5
    <2> QED BY <2>3, <2>4, <2>6
  <1>2. /\ IsFiniteSet(refers) /\ refers \subseteq ReferRecords
        /\ \A r, s \in refers : r.by = s.by /\ r.cseq = s.cseq => r = s
        /\ pending # NoTag => \A r \in refers : r.by = pending.side /\ r.cseq = pending.cseq =>
                                 pending.method = "REFER" /\ r.status = 0
        /\ pending # NoTag /\ pending.method = "REFER" =>
              \E r \in refers : r.by = pending.side /\ r.cseq = pending.cseq
    BY DEF Referring
  <1> QED BY <1>1, <1>2 DEF Referring

\* A number that its side did not use.
LEMMA OfferRefers ==
  ASSUME State, State', Evolves, Referring, NEW side \in Sides, NEW c \in Callees, Offer(side, c)
  PROVE  Referring'
  <1>1. PICK method \in {"INVITE", "UPDATE"}, cseq \in NextCSeq(Party(side, c)) :
             /\ seq' = [seq EXCEPT ![Party(side, c)] = cseq]
             /\ pending' = [method |-> method, side |-> side, dialog |-> c, cseq |-> cseq]
    BY DEF Offer
  <1>2. c = Main /\ c \in acked /\ c \in ToSet(answers) /\ UNCHANGED <<answers, acked, refers>>
    BY Tags DEF Offer, callVars, Main
  <1>3. /\ cseq \in Nat /\ cseq > seq[Party(side, c)] /\ Party(side, c) \in {Caller} \cup Callees
        /\ \A p \in {Caller} \cup Callees : seq[p] <= seq'[p]
    BY <1>1, <1>2, NumberedNext
  <1>4. ASSUME NEW r \in refers
        PROVE  /\ Main' \in acked' /\ r.cseq <= seq'[Party(r.by, Main')]
               /\ ~(r.by = side /\ r.cseq = cseq)
    <2>1. r.cseq <= seq[Party(r.by, c)] /\ r.cseq \in Nat /\ r.by \in Sides
      BY <1>2 DEF Referring, ReferRecords
    <2>2. PICK p \in {Caller} \cup Callees : p = Party(r.by, c)
      BY DEF Party
    <2>3. seq[p] \in Nat /\ seq'[p] \in Nat /\ seq[p] <= seq'[p]
      BY <1>3 DEF State, Typed
    <2>4. r.cseq <= seq'[p]
      BY <2>1, <2>2, <2>3
    <2>5. ~(r.by = side /\ r.cseq = cseq)
      BY <1>3, <2>1, <2>2, <2>3
    <2> QED BY <1>2, <2>2, <2>4, <2>5 DEF Main
  <1>5. pending'.method # "REFER" /\ pending'.side = side /\ pending'.cseq = cseq
    BY <1>1
  <1> QED BY <1>2, <1>4, <1>5 DEF Referring

\* A new REFER is a record of its own.
LEMMA ReferRefers ==
  ASSUME State, State', Evolves, Referring, NEW side \in Sides, NEW c \in Callees, Refer(side, c)
  PROVE  /\ Referring'
         /\ \E cseq \in Nat : /\ refers' = refers \cup {[by |-> side, cseq |-> cseq, status |-> 0]}
                              /\ Capture(<<InDialogRequest(side, c, "REFER", cseq, "none")>>)
                              /\ \A r \in refers : ~(r.by = side /\ r.cseq = cseq)
  <1>1. PICK cseq \in NextCSeq(Party(side, c)) :
             /\ Capture(<<InDialogRequest(side, c, "REFER", cseq, "none")>>)
             /\ seq' = [seq EXCEPT ![Party(side, c)] = cseq]
             /\ pending' = [method |-> "REFER", side |-> side, dialog |-> c, cseq |-> cseq]
             /\ refers' = refers \cup {[by |-> side, cseq |-> cseq, status |-> 0]}
    BY DEF Refer
  <1>2. c = Main /\ c \in acked /\ c \in ToSet(answers) /\ UNCHANGED <<answers, acked>>
    BY Tags DEF Refer, callVars, Main
  <1>3. /\ cseq \in Nat /\ cseq > seq[Party(side, c)] /\ Party(side, c) \in {Caller} \cup Callees
        /\ seq'[Party(side, c)] = cseq
        /\ \A p \in {Caller} \cup Callees : seq[p] <= seq'[p]
    BY <1>1, <1>2, NumberedNext
  <1>4. ASSUME NEW r \in refers
        PROVE  /\ r.cseq <= seq'[Party(r.by, c)]
               /\ ~(r.by = side /\ r.cseq = cseq)
    <2>1. r.cseq <= seq[Party(r.by, c)] /\ r.cseq \in Nat /\ r.by \in Sides
      BY <1>2 DEF Referring, ReferRecords
    <2>2. PICK p \in {Caller} \cup Callees : p = Party(r.by, c)
      BY DEF Party
    <2>3. seq[p] \in Nat /\ seq'[p] \in Nat /\ seq[p] <= seq'[p]
      BY <1>3 DEF State, Typed
    <2>4. r.cseq <= seq'[p]
      BY <2>1, <2>2, <2>3
    <2>5. ~(r.by = side /\ r.cseq = cseq)
      BY <1>3, <2>1, <2>2, <2>3
    <2> QED BY <2>2, <2>4, <2>5
  <1>5. PICK new : new = [by |-> side, cseq |-> cseq, status |-> 0]
    OBVIOUS
  <1>6. new \in ReferRecords /\ new.by = side /\ new.cseq = cseq /\ new.status = 0
    BY <1>3, <1>5 DEF ReferRecords
  <1>7. refers' = refers \cup {new} /\ IsFiniteSet(refers') /\ refers' \subseteq ReferRecords
    BY <1>1, <1>5, <1>6, FS_AddElement DEF Referring
  <1>8. pending'.method = "REFER" /\ pending'.side = side /\ pending'.cseq = cseq
    BY <1>1
  <1>9. \A r \in refers' : Main' \in acked' /\ r.cseq <= seq'[Party(r.by, Main')]
    <2>1. Main' = c /\ c \in acked'
      BY <1>2 DEF Main
    <2>2. new.cseq <= seq'[Party(new.by, c)]
      BY <1>3, <1>6
    <2> QED BY <1>4, <1>7, <2>1, <2>2
  <1>10. \A r, s \in refers' : r.by = s.by /\ r.cseq = s.cseq => r = s
    BY <1>4, <1>6, <1>7 DEF Referring
  <1>11. /\ \A r \in refers' : r.by = side /\ r.cseq = cseq => r.status = 0
         /\ \E r \in refers' : r.by = side /\ r.cseq = cseq
    BY <1>4, <1>6, <1>7
  <1>12. Referring'
    BY <1>7, <1>8, <1>9, <1>10, <1>11 DEF Referring
  <1> QED BY <1>1, <1>3, <1>4, <1>12

\* What an answer makes of the requests.
LEMMA AnsweredRecord ==
  ASSUME NEW r \in ReferRecords, NEW s, s = 0 \/ s = 202 \/ s = 603
  PROVE  /\ [r EXCEPT !.status = s] \in ReferRecords
         /\ [r EXCEPT !.status = s].by = r.by /\ [r EXCEPT !.status = s].cseq = r.cseq
         /\ [r EXCEPT !.status = s].status = s
  BY DEF ReferRecords
\* The records after an answer.
AfterReply(side, cseq, status) ==
    {IF r.by = side /\ r.cseq = cseq THEN [r EXCEPT !.status = status] ELSE r : r \in refers}

\* An answer to a REFER changes one record, that of the request; another changes none.
LEMMA ReplyRefers ==
  ASSUME State, State', Evolves, Referring, NEW side, NEW cseq, NEW code \in Nat,
         refers' = AfterReply(side, cseq, code), pending # NoTag, pending' = NoTag,
         pending.side = side, pending.cseq = cseq, pending.method = "REFER" => code \in {0, 202, 603}
  PROVE  /\ Referring'
         /\ pending.method # "REFER" => refers' = refers
         /\ pending.method = "REFER" =>
               \E old \in refers : \E new \in ReferRecords :
                   /\ old.by = side /\ old.cseq = cseq /\ old.status = 0
                   /\ new.by = side /\ new.cseq = cseq /\ new.status = code
                   /\ refers' = (refers \ {old}) \cup {new}
  <1>1. CASE pending.method # "REFER"
    <2>1. \A r \in refers : ~(r.by = side /\ r.cseq = cseq)
      BY <1>1 DEF Referring
    <2>2. refers' = refers
      BY <2>1 DEF AfterReply
    <2> QED BY <1>1, <2>2, RefersStay
  <1>2. CASE pending.method = "REFER"
    <2>1. PICK old \in refers : old.by = side /\ old.cseq = cseq
      BY <1>2 DEF Referring
    <2>2. old.status = 0 /\ old \in ReferRecords /\ \A r \in refers : r.by = side /\ r.cseq = cseq => r = old
      BY <1>2, <2>1 DEF Referring
    <2>4. code \in {0, 202, 603} /\ side \in Sides /\ cseq \in Nat
      BY <1>2, <2>1, <2>2 DEF ReferRecords
    <2> DEFINE new == [old EXCEPT !.status = code]
    <2>5. /\ new \in ReferRecords /\ new.by = side /\ new.cseq = cseq /\ new.status = code
      <3>1. code = 0 \/ code = 202 \/ code = 603
        BY <2>4
      <3> QED BY <2>1, <2>2, <3>1, AnsweredRecord
    <2>6. refers' = (refers \ {old}) \cup {new}
      BY <2>1, <2>2 DEF AfterReply
    <2> HIDE DEF new
    <2>7. IsFiniteSet(refers') /\ refers' \subseteq ReferRecords
      <3>1. IsFiniteSet(refers \ {old})
        BY FS_Subset DEF Referring
      <3> QED BY <2>5, <2>6, <3>1, FS_AddElement DEF Referring
    <2>8. /\ Main \in acked /\ old.cseq <= seq[Party(old.by, Main)] /\ answers # <<>>
      BY Tags DEF Referring
    <2>9. Main' = Main /\ Main \in acked' /\ Main \in Callees
      BY <2>8, DialogStays
    <2>10. ASSUME NEW r \in refers' PROVE r.cseq <= seq'[Party(r.by, Main)]
      <3>1. r.cseq <= seq[Party(r.by, Main)] /\ r.cseq \in Nat /\ r.by \in Sides
        BY <2>1, <2>5, <2>6, <2>7, <2>8 DEF Referring, ReferRecords
      <3>2. PICK p \in {Caller} \cup Callees : p = Party(r.by, Main)
        BY <2>9 DEF Party
      <3>3. seq[p] \in Nat /\ seq'[p] \in Nat /\ seq[p] <= seq'[p]
        BY SeqGrows
      <3>4. r.cseq <= seq'[p]
        BY <3>1, <3>2, <3>3
      <3> QED BY <3>2, <3>4
    <2>11. \A r, s \in refers' : r.by = s.by /\ r.cseq = s.cseq => r = s
      BY <2>2, <2>5, <2>6 DEF Referring
    <2>12. Referring'
      BY <2>7, <2>9, <2>10, <2>11 DEF Referring
    <2> QED BY <1>2, <2>1, <2>2, <2>5, <2>6, <2>12
  <1> QED BY <1>1, <1>2

\* What Reply does with the records.
LEMMA ReplyChanges ==
  ASSUME State, Captured, Reply
  PROVE  \E code \in Nat :
           /\ refers' = AfterReply(pending.side, pending.cseq, code)
           /\ pending.method = "REFER" => code \in {0, 202, 603} /\ code # 0
           /\ msgs'[Len(msgs) + 1].status = code
  BY ReplySends DEF AfterReply, Is

\* Every step keeps the records in order.
LEMMA ReferringNext == Made /\ Referring /\ [SignallingNext]_signallingVars => Referring'
  <1> SUFFICES ASSUME State, Captured, Referring, [SignallingNext]_signallingVars PROVE Referring'
    BY DEF Made
  <1>1. CASE UNCHANGED signallingVars
    BY <1>1 DEF signallingVars, Referring, Main
  <1>2. CASE SignallingNext
    <2>1. State' /\ Evolves
      BY <1>2, StateNext
    <2>2. ASSUME NEW c \in Callees, NEW side \in Sides, Offer(side, c) PROVE Referring'
      BY <2>1, <2>2, OfferRefers
    <2>3. ASSUME NEW c \in Callees, NEW side \in Sides, Refer(side, c) PROVE Referring'
      BY <2>1, <2>3, ReferRefers
    <2>4. CASE Reply
      <3>1. pending # NoTag /\ pending' = NoTag
        BY <2>4 DEF Reply
      <3> QED BY <2>1, <2>4, <3>1, ReplyChanges, ReplyRefers
    <2>5. ASSUME refers' = refers, pending' = pending PROVE Referring'
      BY <2>1, <2>5, RefersStay
    <2>6. \/ refers' = refers /\ pending' = pending
          \/ Reply
          \/ \E c \in Callees, side \in Sides : Offer(side, c) \/ Refer(side, c)
      BY <1>2, ZenonT(30) DEF SignallingNext, Challenge, Retry, Trying, Ring, Accept, Ack, Cancel, Refuse,
          HangUp, Repeat, dialogVars
    <2> QED BY <2>2, <2>3, <2>4, <2>5, <2>6
  <1> QED BY <1>1, <1>2

\* The REFER messages of the capture, by who asked, and what became of them.
Asker(m) == IF m.status = 0 THEN m.by ELSE Other(m.by)
\* The capture has a REFER message of this side with this number and status.
Told(side, cseq, status) ==
    \E i \in Places : /\ msgs[i].method = "REFER" /\ Asker(msgs[i]) = side
                      /\ msgs[i].cseq = cseq /\ msgs[i].status = status
\* Such a message was sent, by the records.
Became(side, cseq, status) ==
    \E r \in refers : r.by = side /\ r.cseq = cseq /\ (status = 0 \/ status = r.status)

\* The capture and the records agree.
ReferSeen ==
    \A side \in Sides : \A cseq, status \in Nat : Told(side, cseq, status) <=> Became(side, cseq, status)

\* What a step without REFER messages, and with one, leaves of it.
LEMMA NothingTold ==
  ASSUME Captured, NEW n \in {1, 2}, Extends(n), NEW side, NEW cseq, NEW status,
         \A i \in Places' : i \notin Places => msgs'[i].method # "REFER"
  PROVE  Told(side, cseq, status)' <=> Told(side, cseq, status)
  BY PlacesGrow DEF Told

LEMMA OneTold ==
  ASSUME Captured, Extends(1), NEW m, m = msgs'[Len(msgs) + 1], m.method = "REFER",
         NEW side, NEW cseq, NEW status
  PROVE  Told(side, cseq, status)' <=>
            Told(side, cseq, status) \/ (Asker(m) = side /\ m.cseq = cseq /\ m.status = status)
  <1>1. /\ Places' = Places \cup {Len(msgs) + 1} /\ \A i \in Places : msgs'[i] = msgs[i]
    BY PlacesGrow
  <1> QED BY <1>1 DEF Told, Asker

\* A step without REFER messages.
LEMMA QuietSeen ==
  ASSUME Captured, ReferSeen, refers' = refers, NEW n \in {1, 2}, Extends(n),
         \A i \in Places' : i \notin Places => msgs'[i].method # "REFER"
  PROVE  ReferSeen'
  BY NothingTold DEF ReferSeen, Became

\* The steps that send REFER messages.
LEMMA ReferIsSeen ==
  ASSUME State, Captured, Referring, ReferSeen, State', Evolves,
         NEW side \in Sides, NEW c \in Callees, Refer(side, c)
  PROVE  ReferSeen'
  <1>1. PICK cseq \in Nat : /\ refers' = refers \cup {[by |-> side, cseq |-> cseq, status |-> 0]}
                            /\ Capture(<<InDialogRequest(side, c, "REFER", cseq, "none")>>)
    BY ReferRefers
  <1>2. PICK m : m = msgs'[Len(msgs) + 1]
    OBVIOUS
  <1>3. /\ Extends(1) /\ Is(m, 0, "REFER", cseq, Party(side, c), Party(Other(side), c), "none", side)
    BY <1>1, <1>2, InDialogSends
  <1>4. m.method = "REFER" /\ Asker(m) = side /\ m.cseq = cseq /\ m.status = 0
    BY <1>3 DEF Is, Asker
  <1>5. PICK new : new = [by |-> side, cseq |-> cseq, status |-> 0]
    OBVIOUS
  <1> SUFFICES ASSUME NEW s \in Sides, NEW k \in Nat, NEW status \in Nat
               PROVE  (Told(s, k, status) <=> Became(s, k, status))'
    BY DEF ReferSeen
  <1>6. Told(s, k, status)' <=> Told(s, k, status) \/ (s = side /\ k = cseq /\ status = 0)
    BY <1>2, <1>3, <1>4, OneTold
  <1>7. Became(s, k, status)' <=> Became(s, k, status) \/ (s = side /\ k = cseq /\ status = 0)
    <2>1. new.by = side /\ new.cseq = cseq /\ new.status = 0
      BY <1>5
    <2> QED BY <1>1, <1>5, <2>1 DEF Became
  <1> QED BY <1>6, <1>7 DEF ReferSeen

LEMMA ReplyIsSeen ==
  ASSUME State, Captured, Referring, ReferSeen, State', Evolves, Reply
  PROVE  ReferSeen'
  <1>1. PICK m, k : m = msgs'[Len(msgs) + 1] /\ k = msgs'[Len(msgs) + 2]
    OBVIOUS
  <1>2. PICK code \in Nat :
           /\ refers' = AfterReply(pending.side, pending.cseq, code)
           /\ pending.method = "REFER" => code \in {0, 202, 603} /\ code # 0
           /\ m.status = code
    BY <1>1, ReplyChanges
  <1>3. pending # NoTag /\ pending' = NoTag
    BY DEF Reply
  <1>4. /\ m.method = pending.method /\ m.cseq = pending.cseq /\ m.by = Other(pending.side)
        /\ Extends(IF pending.method = "INVITE" THEN 2 ELSE 1)
        /\ pending.method = "INVITE" => k.method = "ACK"
    BY <1>1, ReplySends DEF Is
  <1>5. /\ pending.method # "REFER" => refers' = refers
        /\ pending.method = "REFER" =>
              \E old \in refers : \E new \in ReferRecords :
                  /\ old.by = pending.side /\ old.cseq = pending.cseq /\ old.status = 0
                  /\ new.by = pending.side /\ new.cseq = pending.cseq /\ new.status = code
                  /\ refers' = (refers \ {old}) \cup {new}
    BY <1>2, <1>3, ReplyRefers
  <1>6. CASE pending.method # "REFER"
    <2>1. PICK n \in {1, 2} : Extends(n) /\ (n = 2 => pending.method = "INVITE")
      BY <1>4
    <2>2. \A i \in Places' : i \notin Places => i = Len(msgs) + 1 \/ (n = 2 /\ i = Len(msgs) + 2)
      BY <2>1, PlacesGrow
    <2>3. \A i \in Places' : i \notin Places => msgs'[i].method # "REFER"
      BY <1>1, <1>4, <1>6, <2>1, <2>2
    <2> QED BY <1>5, <1>6, <2>1, <2>3, QuietSeen
  <1>7. CASE pending.method = "REFER"
    <2>1. PICK old \in refers, new \in ReferRecords :
                  /\ old.by = pending.side /\ old.cseq = pending.cseq /\ old.status = 0
                  /\ new.by = pending.side /\ new.cseq = pending.cseq /\ new.status = code
                  /\ refers' = (refers \ {old}) \cup {new}
      BY <1>5, <1>7
    <2>2. Extends(1) /\ Asker(m) = pending.side /\ m.method = "REFER"
      <3>1. pending.side \in Sides /\ code # 0
        BY <1>2, <1>3, <1>7 DEF State, Typed, Awaiting
      <3> QED BY <1>2, <1>4, <1>7, <3>1 DEF Asker, Other, Sides
    <2> SUFFICES ASSUME NEW s \in Sides, NEW q \in Nat, NEW status \in Nat
                 PROVE  (Told(s, q, status) <=> Became(s, q, status))'
      BY DEF ReferSeen
    <2>3. Told(s, q, status)' <=>
             Told(s, q, status) \/ (s = pending.side /\ q = pending.cseq /\ status = code)
      BY <1>1, <1>2, <1>4, <2>2, OneTold
    <2>4. Became(s, q, status)' <=>
             Became(s, q, status) \/ (s = pending.side /\ q = pending.cseq /\ status = code)
      BY <2>1 DEF Became
    <2> QED BY <2>3, <2>4 DEF ReferSeen
  <1> QED BY <1>6, <1>7

LEMMA RepeatIsSeen ==
  ASSUME State, Captured, ReferSeen, Repeat
  PROVE  ReferSeen'
  <1>0. PICK i \in Places : \E m : /\ m = msgs'[Len(msgs) + 1] /\ Transaction(m) = Transaction(msgs[i])
                                   /\ m.by = msgs[i].by /\ Extends(1)
    BY RepeatIs
  <1>1. PICK m : /\ m = msgs'[Len(msgs) + 1] /\ Transaction(m) = Transaction(msgs[i])
                 /\ m.by = msgs[i].by /\ Extends(1)
    BY <1>0
  <1>2. refers' = refers
    BY DEF Repeat, dialogVars
  <1>3. m.status = msgs[i].status /\ m.method = msgs[i].method /\ m.cseq = msgs[i].cseq
    BY <1>1 DEF Transaction
  <1>4. CASE m.method = "REFER"
    <2>1. ASSUME NEW s, NEW q, NEW status PROVE Told(s, q, status)' <=> Told(s, q, status)
      <3>1. Asker(m) = s /\ m.cseq = q /\ m.status = status => Told(s, q, status)
        BY <1>1, <1>3, <1>4 DEF Told, Asker
      <3> QED BY <1>1, <1>4, <3>1, OneTold
    <2> QED BY <1>2, <2>1 DEF ReferSeen, Became
  <1>5. CASE m.method # "REFER"
    <2>1. \A j \in Places' : j \notin Places => j = Len(msgs) + 1
      BY <1>1, PlacesGrow
    <2> QED BY <1>1, <1>2, <1>5, <2>1, QuietSeen
  <1> QED BY <1>4, <1>5

\* Every step keeps the agreement.
LEMMA ReferSeenNext ==
  Made /\ Referring /\ ReferSeen /\ [SignallingNext]_signallingVars => ReferSeen'
  <1> SUFFICES ASSUME State, Captured, Referring, ReferSeen, [SignallingNext]_signallingVars
               PROVE  ReferSeen'
    BY DEF Made
  <1>1. CASE UNCHANGED signallingVars
    <2>1. msgs' = msgs /\ refers' = refers /\ Places' = Places
      BY <1>1 DEF signallingVars, Places
    <2>2. ASSUME NEW s, NEW q, NEW status
          PROVE  (Told(s, q, status)' <=> Told(s, q, status)) /\ (Became(s, q, status)' <=> Became(s, q, status))
      BY <2>1 DEF Told, Became
    <2> QED BY <2>2 DEF ReferSeen
  <1>2. CASE SignallingNext
    <2>1. State' /\ Evolves
      BY <1>2, StateNext
    <2>2. PICK m, k : m = msgs'[Len(msgs) + 1] /\ k = msgs'[Len(msgs) + 2]
      OBVIOUS
    <2>3. ASSUME Extends(1), m.method # "REFER", refers' = refers PROVE ReferSeen'
      <3>1. \A i \in Places' : i \notin Places => i = Len(msgs) + 1
        BY <2>3, PlacesGrow
      <3> QED BY <2>2, <2>3, <3>1, QuietSeen
    <2>4. ASSUME Still PROVE ReferSeen'
      BY <2>4, QuietSeen DEF Still, Plain
    <2>5. CASE Challenge
      <3>1. Extends(2) /\ m.method = "INVITE" /\ k.method = "ACK"
        BY <2>2, <2>5, ChallengeSends DEF Is
      <3>2. \A i \in Places' : i \notin Places => i = Len(msgs) + 1 \/ i = Len(msgs) + 2
        BY <3>1, PlacesGrow
      <3>3. refers' = refers
        BY <2>5 DEF Challenge, dialogVars
      <3> QED BY <2>2, <3>1, <3>2, <3>3, QuietSeen
    <2>6. ASSUME NEW d \in Callees, Accept(d) PROVE ReferSeen'
      <3>1. Extends(1) /\ m.method = "INVITE"
        BY <2>2, <2>6, ResponseSends DEF Accept, Is
      <3> QED BY <2>3, <2>6, <3>1 DEF Accept, dialogVars
    <2>7. ASSUME NEW d \in Callees, NEW side \in Sides, Offer(side, d) PROVE ReferSeen'
      <3>1. PICK method \in {"INVITE", "UPDATE"}, sdp \in {"active", "hold"}, cseq \in NextCSeq(Party(side, d)) :
                Capture(<<InDialogRequest(side, d, method, cseq, sdp)>>)
        BY <2>7 DEF Offer
      <3>2. cseq \in Nat
        BY SignallingAssumption DEF NextCSeq, State, Typed, Party
      <3>3. Extends(1) /\ m.method = method
        BY <2>2, <3>1, <3>2, InDialogSends DEF Is
      <3> QED BY <2>3, <2>7, <3>3 DEF Offer
    <2>8. ASSUME NEW d \in Callees, NEW side \in Sides, HangUp(side, d) PROVE ReferSeen'
      <3>1. Extends(1) /\ m.method = "BYE"
        BY <2>2, <2>8, DialogSends DEF Is
      <3> QED BY <2>3, <2>8, <3>1 DEF HangUp
    <2> QED BY <1>2, <2>1, <2>4, <2>5, <2>6, <2>7, <2>8, StillSteps, ReferIsSeen, ReplyIsSeen, RepeatIsSeen
            DEF SignallingNext
  <1> QED BY <1>1, <1>2

\* A transfer of the report.
TransferRecords == [by : Sides, cseq : Nat, status : Nat]
\* The answers that build_calls finds for the REFER at a place.
AnswersTo(i) ==
    {j \in DOMAIN msgs : Final(msgs[j]) /\ msgs[j].method = "REFER" /\ msgs[j].cseq = msgs[i].cseq}

\* Transfers with the same fields are the same.
LEMMA SameTransfer ==
  ASSUME NEW x \in TransferRecords, NEW y \in TransferRecords,
         x.by = y.by, x.cseq = y.cseq, x.status = y.status
  PROVE  x = y
  BY DEF TransferRecords

\* The agreement, for one message.
LEMMA SeenAt ==
  ASSUME ReferSeen, NEW side \in Sides, NEW cseq \in Nat, NEW status \in Nat
  PROVE  Told(side, cseq, status) <=> Became(side, cseq, status)
  BY DEF ReferSeen

\* A record is a transfer.
LEMMA ReferIs ==
  ASSUME Referring, NEW r \in refers
  PROVE  /\ r \in TransferRecords /\ r.by \in Sides /\ r.cseq \in Nat /\ r.status \in Nat
         /\ r.status = 0 \/ r.status = 202 \/ r.status = 603
  <1>1. r \in ReferRecords
    BY DEF Referring
  <1> QED BY <1>1 DEF ReferRecords, TransferRecords

\* The REFER requests it finds, and who sent them.
LEMMA RefersAre ==
  ASSUME Made
  PROVE  /\ Refers(msgs) = {i \in Places : msgs[i].method = "REFER" /\ msgs[i].status = 0}
         /\ \A i \in Refers(msgs) : /\ SenderSide(msgs, msgs[i]) = msgs[i].by /\ msgs[i].by \in Sides
                                    /\ msgs[i].cseq \in Nat /\ Told(msgs[i].by, msgs[i].cseq, 0)
  <1>1. State /\ Captured /\ DOMAIN msgs = Places
    BY DEF Made, Captured, Places
  <1>2. ASSUME NEW i \in Places, msgs[i].method = "REFER", msgs[i].status = 0 PROVE msgs[i].to # NoTag
    <2>1. PICK m : m = msgs[i]
      OBVIOUS
    <2>2. Legal(m)
      BY <1>1, <2>1, AtPlace
    <2>3. IsDialogRequest(m)
      BY <1>2, <2>1, <2>2 DEF Legal, IsInvite, IsProvisional, IsAnswer, IsChallenge, IsRefusal, IsAckOfFailure,
         IsAckOfAnswer, IsCancel, IsDialogReply, IsDialogAck, IsBye
    <2>4. m.to \in Callees \cup {Caller}
      BY <1>1, <2>3, Tags DEF IsDialogRequest, Within
    <2> QED BY <1>1, <2>1, <2>4, Tags
  <1>3. Refers(msgs) = {i \in Places : msgs[i].method = "REFER" /\ msgs[i].status = 0}
    BY <1>1, <1>2 DEF Refers, RequestsOf, IsRequest, InDialog
  <1>4. ASSUME NEW i \in Refers(msgs)
        PROVE  /\ SenderSide(msgs, msgs[i]) = msgs[i].by /\ msgs[i].by \in Sides
               /\ msgs[i].cseq \in Nat /\ Told(msgs[i].by, msgs[i].cseq, 0)
    <2>1. i \in Places /\ msgs[i].method = "REFER" /\ msgs[i].status = 0
      BY <1>3
    <2>2. msgs[i] \in MessageSet
      BY <1>1, <2>1, AtPlace
    <2>3. msgs[i].by \in Sides /\ msgs[i].cseq \in Nat
      BY <2>2 DEF MessageSet
    <2>4. SenderSide(msgs, msgs[i]) = msgs[i].by
      BY <2>1, SidesAre DEF SidesFaithful, Places
    <2> QED BY <2>1, <2>3, <2>4 DEF Told, Asker
  <1> QED BY <1>3, <1>4

\* The answers were sent, and are found when they were.
LEMMA AnswersToAre ==
  ASSUME Made, NEW i \in Refers(msgs)
  PROVE  /\ AnswersTo(i) \subseteq Places
         /\ \A j \in AnswersTo(i) : /\ msgs[j].status \in Nat /\ msgs[j].status # 0
                                    /\ \E side \in Sides : Told(side, msgs[i].cseq, msgs[j].status)
         /\ \A side, status : Told(side, msgs[i].cseq, status) /\ (status = 202 \/ status = 603) => AnswersTo(i) # {}
  <1>1. State /\ Captured /\ DOMAIN msgs = Places
    BY DEF Made, Captured, Places
  <1>2. ASSUME NEW j \in AnswersTo(i)
        PROVE  /\ msgs[j].status \in Nat /\ msgs[j].status # 0
               /\ \E side \in Sides : Told(side, msgs[i].cseq, msgs[j].status)
    <2>1. j \in Places /\ msgs[j].method = "REFER" /\ msgs[j].cseq = msgs[i].cseq /\ msgs[j].status >= 200
      BY <1>1 DEF AnswersTo, Final
    <2>2. msgs[j] \in MessageSet
      BY <1>1, <2>1, AtPlace
    <2>3. PICK m : m = msgs[j]
      OBVIOUS
    <2>4. m.status \in Nat /\ m.by \in Sides /\ m.status >= 200
      BY <2>1, <2>2, <2>3 DEF MessageSet
    <2>5. m.status # 0
      BY <2>4
    <2>6. Other(m.by) \in Sides /\ Asker(m) = Other(m.by)
      BY <2>4, <2>5 DEF Asker, Other, Sides
    <2>7. Told(Other(m.by), msgs[i].cseq, m.status)
      BY <2>1, <2>3, <2>6 DEF Told
    <2> QED BY <2>3, <2>4, <2>5, <2>6, <2>7
  <1>3. ASSUME NEW side, NEW status, Told(side, msgs[i].cseq, status), status = 202 \/ status = 603
        PROVE  AnswersTo(i) # {}
    <2>1. PICK j \in Places : msgs[j].method = "REFER" /\ msgs[j].cseq = msgs[i].cseq /\ msgs[j].status = status
      BY <1>3 DEF Told
    <2>2. Final(msgs[j])
      BY <1>3, <2>1 DEF Final
    <2>3. j \in AnswersTo(i)
      BY <1>1, <2>1, <2>2 DEF AnswersTo
    <2> QED BY <2>3
  <1>4. AnswersTo(i) \subseteq Places
    BY <1>1 DEF AnswersTo
  <1> QED BY <1>2, <1>3, <1>4

\* The transfer it reports for one REFER.
LEMMA TransferIs ==
  ASSUME Made, NEW i \in Refers(msgs)
  PROVE  LET t == Transfer(msgs, msgs[i], AnswersTo(i)) IN
         /\ t \in TransferRecords /\ t.by = msgs[i].by /\ t.cseq = msgs[i].cseq
         /\ AnswersTo(i) = {} => t.status = 0
         /\ AnswersTo(i) # {} => \E j \in AnswersTo(i) : t.status = msgs[j].status
  <1>1. PICK t : t = Transfer(msgs, msgs[i], AnswersTo(i))
    OBVIOUS
  <1>2. PICK status : status = IF AnswersTo(i) = {} THEN 0 ELSE msgs[Min(AnswersTo(i))].status
    OBVIOUS
  <1>3. /\ msgs[i].by \in Sides /\ msgs[i].cseq \in Nat /\ SenderSide(msgs, msgs[i]) = msgs[i].by
    BY RefersAre
  <1>4. AnswersTo(i) # {} => Min(AnswersTo(i)) \in AnswersTo(i)
    <2>1. AnswersTo(i) \subseteq Nat
      BY AnswersToAre DEF Places
    <2> QED BY <2>1, MinIs
  <1>5. status \in Nat
    BY <1>2, <1>4, AnswersToAre
  <1>6. t = [by |-> msgs[i].by, cseq |-> msgs[i].cseq, status |-> status]
    BY <1>1, <1>2, <1>3 DEF Transfer
  <1>7. t \in TransferRecords /\ t.by = msgs[i].by /\ t.cseq = msgs[i].cseq /\ t.status = status
    BY <1>3, <1>5, <1>6 DEF TransferRecords
  <1> QED BY <1>1, <1>2, <1>4, <1>7

\* All of them.
LEMMA TransfersAre ==
  ASSUME Made
  PROVE  Transfers(msgs) = {Transfer(msgs, msgs[i], AnswersTo(i)) : i \in Refers(msgs)}
  BY DEF Transfers, AnswersTo

\* Two sides that use no number twice.
LEMMA NumbersTell ==
  ASSUME Referring, Cardinality({r.cseq : r \in refers}) = Cardinality(refers), NEW r \in refers, NEW s \in refers,
         r.cseq = s.cseq
  PROVE  r = s
  <1> DEFINE f == [q \in refers |-> q.cseq]
  <1>1. f \in Surjection(refers, {q.cseq : q \in refers})
    BY DEF Surjection
  <1>2. f \in Injection(refers, {q.cseq : q \in refers})
    BY <1>1, FS_Surjection DEF Referring
  <1> QED BY <1>2 DEF Injection, IsInjective

\* transfers of build_calls has one entry for each REFER, with the side that sent it and
\* what the other side answered; two REFERs of one number may swap their answers, which
\* is why the answers are claimed only when the numbers differ.
THEOREM TransfersAreFaithful == SignallingSpec => []TransfersFaithful
  <1>1. ASSUME Made, Referring, ReferSeen PROVE TransfersFaithful
    <2>1. \A r \in refers : /\ r \in TransferRecords /\ r.by \in Sides /\ r.cseq \in Nat /\ r.status \in Nat
                            /\ r.status = 0 \/ r.status = 202 \/ r.status = 603
      BY <1>1, ReferIs
    <2>2. \A t \in TransferRecords : /\ [t EXCEPT !.status = 0] \in TransferRecords
                                     /\ [t EXCEPT !.status = 0].by = t.by /\ [t EXCEPT !.status = 0].cseq = t.cseq
                                     /\ [t EXCEPT !.status = 0].status = 0
      BY DEF TransferRecords
    <2>3. ASSUME NEW t \in Transfers(msgs)
          PROVE  /\ t \in TransferRecords
                 /\ \E r \in refers : r.by = t.by /\ r.cseq = t.cseq
      <3>1. PICK i \in Refers(msgs) : t = Transfer(msgs, msgs[i], AnswersTo(i))
        BY <1>1, TransfersAre
      <3>2. t \in TransferRecords /\ t.by = msgs[i].by /\ t.cseq = msgs[i].cseq
        BY <1>1, <3>1, TransferIs
      <3>3. Told(t.by, t.cseq, 0) /\ t.by \in Sides /\ t.cseq \in Nat
        BY <1>1, <3>2, RefersAre
      <3>4. Became(t.by, t.cseq, 0)
        BY <1>1, <3>3, SeenAt
      <3> QED BY <3>2, <3>4 DEF Became
    <2>4. ASSUME NEW r \in refers PROVE \E t \in Transfers(msgs) : t.by = r.by /\ t.cseq = r.cseq
      <3>1. Became(r.by, r.cseq, 0)
        BY DEF Became
      <3>2. Told(r.by, r.cseq, 0)
        BY <1>1, <2>1, <3>1, SeenAt
      <3>3. PICK i \in Places : /\ msgs[i].method = "REFER" /\ Asker(msgs[i]) = r.by /\ msgs[i].cseq = r.cseq
                                /\ msgs[i].status = 0
        BY <3>2 DEF Told
      <3>4. i \in Refers(msgs) /\ msgs[i].by = r.by
        BY <1>1, <3>3, RefersAre DEF Asker
      <3>5. PICK t : t = Transfer(msgs, msgs[i], AnswersTo(i))
        OBVIOUS
      <3>6. t \in Transfers(msgs) /\ t.by = msgs[i].by /\ t.cseq = msgs[i].cseq
        BY <1>1, <3>4, <3>5, TransfersAre, TransferIs
      <3> QED BY <3>3, <3>4, <3>6
    <2>5. {[t EXCEPT !.status = 0] : t \in Transfers(msgs)} = {[r EXCEPT !.status = 0] : r \in refers}
      <3>1. ASSUME NEW t \in Transfers(msgs) PROVE \E r \in refers : [t EXCEPT !.status = 0] = [r EXCEPT !.status = 0]
        <4>1. PICK r \in refers : r.by = t.by /\ r.cseq = t.cseq
          BY <2>3
        <4>2. PICK x \in TransferRecords : /\ x = [t EXCEPT !.status = 0]
                                           /\ x.by = t.by /\ x.cseq = t.cseq /\ x.status = 0
          BY <2>2, <2>3
        <4>3. r \in TransferRecords
          BY <2>1
        <4>4. PICK y \in TransferRecords : /\ y = [r EXCEPT !.status = 0]
                                           /\ y.by = r.by /\ y.cseq = r.cseq /\ y.status = 0
          BY <2>2, <4>3
        <4>5. x = y
          BY <4>1, <4>2, <4>4, SameTransfer
        <4> QED BY <4>2, <4>4, <4>5
      <3>2. ASSUME NEW r \in refers PROVE \E t \in Transfers(msgs) : [t EXCEPT !.status = 0] = [r EXCEPT !.status = 0]
        <4>1. PICK t \in Transfers(msgs) : r.by = t.by /\ r.cseq = t.cseq
          BY <2>4
        <4>2. PICK x \in TransferRecords : /\ x = [t EXCEPT !.status = 0]
                                           /\ x.by = t.by /\ x.cseq = t.cseq /\ x.status = 0
          BY <2>2, <2>3
        <4>3. r \in TransferRecords
          BY <2>1
        <4>4. PICK y \in TransferRecords : /\ y = [r EXCEPT !.status = 0]
                                           /\ y.by = r.by /\ y.cseq = r.cseq /\ y.status = 0
          BY <2>2, <4>3
        <4>5. x = y
          BY <4>1, <4>2, <4>4, SameTransfer
        <4> QED BY <4>2, <4>4, <4>5
      <3>3. PICK S, T : S = {[t EXCEPT !.status = 0] : t \in Transfers(msgs)} /\ T = {[r EXCEPT !.status = 0] : r \in refers}
        OBVIOUS
      <3>4. S \subseteq T
        BY <3>1, <3>3
      <3>5. T \subseteq S
        BY <3>2, <3>3
      <3> QED BY <3>3, <3>4, <3>5
    <2>6. ASSUME Cardinality({r.cseq : r \in refers}) = Cardinality(refers) PROVE Transfers(msgs) = refers
      <3>1. ASSUME NEW t \in Transfers(msgs), NEW r \in refers, r.by = t.by, r.cseq = t.cseq PROVE t.status = r.status
        <4>1. PICK i \in Refers(msgs) : t = Transfer(msgs, msgs[i], AnswersTo(i))
          BY <1>1, TransfersAre
        <4>2. /\ t.by = msgs[i].by /\ t.cseq = msgs[i].cseq /\ t \in TransferRecords
              /\ AnswersTo(i) = {} => t.status = 0
              /\ AnswersTo(i) # {} => \E j \in AnswersTo(i) : t.status = msgs[j].status
          BY <1>1, <4>1, TransferIs
        <4>3. CASE AnswersTo(i) = {}
          <5>1. Became(r.by, r.cseq, r.status)
            BY DEF Became
          <5>2. Told(r.by, r.cseq, r.status)
            BY <1>1, <2>1, <5>1, SeenAt
          <5>3. ~(r.status = 202 \/ r.status = 603)
            BY <1>1, <3>1, <4>2, <4>3, <5>2, AnswersToAre
          <5> QED BY <2>1, <4>2, <4>3, <5>3
        <4>4. CASE AnswersTo(i) # {}
          <5>1. PICK j \in AnswersTo(i) : t.status = msgs[j].status
            BY <4>2, <4>4
          <5>2. PICK side \in Sides : /\ t.status \in Nat /\ t.status # 0
                                      /\ Told(side, t.cseq, t.status)
            BY <1>1, <4>2, <5>1, AnswersToAre
          <5>3. Became(side, t.cseq, t.status)
            BY <1>1, <2>3, <5>2, SeenAt DEF TransferRecords
          <5>4. PICK s \in refers : s.cseq = t.cseq /\ t.status = s.status
            BY <5>2, <5>3 DEF Became
          <5>5. s = r
            BY <1>1, <2>6, <3>1, <5>4, NumbersTell
          <5> QED BY <5>4, <5>5
        <4> QED BY <4>3, <4>4
      <3>2. ASSUME NEW t \in Transfers(msgs) PROVE t \in refers
        <4>1. PICK r \in refers : r.by = t.by /\ r.cseq = t.cseq
          BY <2>3
        <4>2. t.status = r.status
          BY <3>1, <4>1
        <4>3. t = r
          BY <2>1, <2>3, <4>1, <4>2, SameTransfer
        <4> QED BY <4>3
      <3>3. ASSUME NEW r \in refers PROVE r \in Transfers(msgs)
        <4>1. PICK t \in Transfers(msgs) : r.by = t.by /\ r.cseq = t.cseq
          BY <2>4
        <4>2. t.status = r.status
          BY <3>1, <4>1
        <4>3. t = r
          BY <2>1, <2>3, <4>1, <4>2, SameTransfer
        <4> QED BY <4>3
      <3> QED BY <3>2, <3>3
    <2> QED BY <2>5, <2>6 DEF TransfersFaithful
  <1>2. SignallingInit => Referring /\ ReferSeen
    <2> SUFFICES ASSUME SignallingInit PROVE Referring /\ ReferSeen
      OBVIOUS
    <2>1. PICK one, m : /\ one = Message(0, "INVITE", 1, Caller, NoTag, "active", "caller")
                        /\ m = [one EXCEPT !.at = 1] /\ msgs = <<m>>
      BY DEF SignallingInit
    <2>2. m.method = "INVITE"
      BY <2>1 DEF Message
    <2>3. \A i \in Places : msgs[i] = m
      BY <2>1 DEF Places
    <2>4. refers = {} /\ pending = NoTag
      BY DEF SignallingInit
    <2>5. Referring
      BY <2>4, FS_EmptySet DEF Referring
    <2>6. ReferSeen
      BY <2>2, <2>3, <2>4 DEF ReferSeen, Told, Became
    <2> QED BY <2>5, <2>6
  <1>3. SignallingSpec => [](Referring /\ ReferSeen)
    BY <1>2, MadeAlways, ReferringNext, ReferSeenNext, PTL DEF SignallingSpec
  <1> QED BY <1>1, <1>3, MadeAlways, PTL

-----------------------------------------------------------------------------
(* Hold and resume.                                                         *)
NotHeld == [held |-> FALSE, events |-> <<>>]

\* The state of the loop, the n-th after n messages.
Turns(ms) ==
    CHOOSE upTo : upTo = [n \in 0..Len(ms) |-> IF n = 0 THEN NotHeld ELSE AfterOffer(upTo[n - 1], ms[n])]
\* The state after all messages.
HoldState(ms) == Turns(ms)[Len(ms)]

\* The recursion of the loop defines it: there is one function that unfolds so.
LEMMA HoldUnfolds ==
  ASSUME NEW ms, Len(ms) \in Nat
  PROVE  /\ Turns(ms)[0] = NotHeld
         /\ \A n \in 1..Len(ms) : Turns(ms)[n] = AfterOffer(Turns(ms)[n - 1], ms[n])
         /\ HoldEvents(ms) = HoldState(ms).events
  <1> DEFINE Unfolds(f, m) == f = [n \in 0..m |-> IF n = 0 THEN NotHeld ELSE AfterOffer(f[n - 1], ms[n])]
             T == {m \in Nat : \E f : Unfolds(f, m)}
  <1>1. 0 \in T
    <2>1. Unfolds([n \in 0..0 |-> NotHeld], 0)
      OBVIOUS
    <2> QED BY <2>1
  <1>2. ASSUME NEW m \in Nat, m \in T
        PROVE  m + 1 \in T
    <2>1. PICK f : Unfolds(f, m)
      BY <1>2
    <2> DEFINE g == [n \in 0..(m + 1) |-> IF n <= m THEN f[n] ELSE AfterOffer(f[n - 1], ms[n])]
    <2>2. ASSUME NEW n \in 0..(m + 1)
          PROVE  g[n] = IF n = 0 THEN NotHeld ELSE AfterOffer(g[n - 1], ms[n])
      <3>1. CASE n = 0
        <4>1. n \in 0..m /\ g[n] = f[n]
          BY <3>1
        <4> QED BY <2>1, <3>1, <4>1
      <3>2. CASE n # 0 /\ n <= m
        <4>1. n \in 0..m /\ n - 1 \in 0..(m + 1) /\ n - 1 <= m
          BY <3>2
        <4>2. g[n] = f[n] /\ g[n - 1] = f[n - 1]
          BY <4>1
        <4> QED BY <2>1, <3>2, <4>1, <4>2
      <3>3. CASE n = m + 1
        <4>1. n - 1 \in 0..(m + 1) /\ n - 1 <= m /\ ~(n <= m) /\ n # 0
          BY <3>3
        <4>2. g[n - 1] = f[n - 1]
          BY <4>1
        <4>3. g[n] = AfterOffer(f[n - 1], ms[n])
          BY <4>1
        <4> QED BY <4>1, <4>2, <4>3
      <3> QED BY <3>1, <3>2, <3>3
    <2> HIDE DEF g
    <2>3. g = [n \in 0..(m + 1) |-> g[n]]
      BY DEF g
    <2>4. Unfolds(g, m + 1)
      BY <2>2, <2>3
    <2> QED BY <2>4
  <1>3. Len(ms) \in T
    <2> HIDE DEF T
    <2>1. Nat \subseteq T
      BY <1>1, <1>2, NatSetInduction
    <2> QED BY <2>1
  <1>4. PICK g : g = Turns(ms)
    OBVIOUS
  <1>5. Unfolds(g, Len(ms))
    BY <1>3, <1>4 DEF Turns
  <1>6. HoldEvents(ms) = g[Len(ms)].events
    BY <1>4 DEF HoldEvents, Turns, NotHeld
  <1>7. g[0] = NotHeld
    <2>1. 0 \in 0..Len(ms)
      OBVIOUS
    <2> QED BY <1>5, <2>1
  <1>8. \A n \in 1..Len(ms) : g[n] = AfterOffer(g[n - 1], ms[n])
    BY <1>5
  <1> QED BY <1>4, <1>6, <1>7, <1>8 DEF HoldState

\* What comes later does not change it.
LEMMA HoldPrefix ==
  ASSUME NEW ms, NEW ns, Len(ms) \in Nat, Len(ns) \in Nat, Len(ms) <= Len(ns),
         \A n \in 1..Len(ms) : ns[n] = ms[n]
  PROVE  Turns(ns)[Len(ms)] = HoldState(ms)
  <1>1. PICK f, g : f = Turns(ms) /\ g = Turns(ns)
    OBVIOUS
  <1>2. /\ f[0] = NotHeld /\ \A n \in 1..Len(ms) : f[n] = AfterOffer(f[n - 1], ms[n])
        /\ g[0] = NotHeld /\ \A n \in 1..Len(ns) : g[n] = AfterOffer(g[n - 1], ns[n])
    BY <1>1, HoldUnfolds
  <1> DEFINE T == {n \in Nat : n <= Len(ms) => g[n] = f[n]}
  <1>3. 0 \in T
    BY <1>2
  <1>4. ASSUME NEW n \in Nat, n \in T PROVE n + 1 \in T
    <2> SUFFICES ASSUME n + 1 <= Len(ms) PROVE g[n + 1] = f[n + 1]
      OBVIOUS
    <2>1. g[n] = f[n] /\ n + 1 \in 1..Len(ms) /\ n + 1 \in 1..Len(ns) /\ (n + 1) - 1 = n
      BY <1>4
    <2> QED BY <1>2, <2>1
  <1>5. Len(ms) \in T
    <2> HIDE DEF T
    <2>1. Nat \subseteq T
      BY <1>3, <1>4, NatSetInduction
    <2> QED BY <2>1
  <1> QED BY <1>1, <1>5 DEF HoldState

\* One more message, and two more.
LEMMA HoldOne ==
  ASSUME Captured, Extends(1)
  PROVE  HoldState(msgs)' = AfterOffer(HoldState(msgs), msgs'[Len(msgs) + 1])
  <1>1. PICK ms, ns : ms = msgs /\ ns = msgs'
    OBVIOUS
  <1>2. PICK n \in Nat : n = Len(ms) /\ Len(ns) = n + 1 /\ \A i \in 1..n : ns[i] = ms[i]
    BY <1>1 DEF Captured, Extends, Places
  <1>3. Turns(ns)[n] = HoldState(ms)
    BY <1>2, HoldPrefix
  <1>4. Turns(ns)[n + 1] = AfterOffer(Turns(ns)[n], ns[n + 1])
    <2>1. \A k \in 1..(n + 1) : Turns(ns)[k] = AfterOffer(Turns(ns)[k - 1], ns[k])
      BY <1>2, HoldUnfolds
    <2>2. n + 1 \in 1..(n + 1) /\ (n + 1) - 1 = n
      OBVIOUS
    <2> QED BY <2>1, <2>2
  <1>5. HoldState(ns) = Turns(ns)[n + 1]
    BY <1>2 DEF HoldState
  <1>6. HoldState(msgs)' = HoldState(ns)
    BY <1>1
  <1> QED BY <1>1, <1>2, <1>3, <1>4, <1>5, <1>6

LEMMA HoldTwo ==
  ASSUME Captured, Extends(2)
  PROVE  HoldState(msgs)' =
            AfterOffer(AfterOffer(HoldState(msgs), msgs'[Len(msgs) + 1]), msgs'[Len(msgs) + 2])
  <1>1. PICK ms, ns : ms = msgs /\ ns = msgs'
    OBVIOUS
  <1>2. PICK n \in Nat : n = Len(ms) /\ Len(ns) = n + 2 /\ \A i \in 1..n : ns[i] = ms[i]
    BY <1>1 DEF Captured, Extends, Places
  <1>3. Turns(ns)[n] = HoldState(ms)
    BY <1>2, HoldPrefix
  <1>4. \A k \in 1..(n + 2) : Turns(ns)[k] = AfterOffer(Turns(ns)[k - 1], ns[k])
    BY <1>2, HoldUnfolds
  <1>5. Turns(ns)[n + 1] = AfterOffer(Turns(ns)[n], ns[n + 1])
    <2>1. n + 1 \in 1..(n + 2) /\ (n + 1) - 1 = n
      OBVIOUS
    <2> QED BY <1>4, <2>1
  <1>6. Turns(ns)[n + 2] = AfterOffer(Turns(ns)[n + 1], ns[n + 2])
    <2>1. n + 2 \in 1..(n + 2) /\ (n + 2) - 1 = n + 1
      OBVIOUS
    <2> QED BY <1>4, <2>1
  <1>7. HoldState(ns) = Turns(ns)[n + 2]
    BY <1>2 DEF HoldState
  <1>8. HoldState(msgs)' = HoldState(ns)
    BY <1>1
  <1> QED BY <1>1, <1>2, <1>3, <1>5, <1>6, <1>7, <1>8

\* An offer inside a dialog, and what the offers so far make of the call.
Offers(m) == InDialog(m) /\ m.method \in {"INVITE", "UPDATE"}
\* What the last offer makes of the call, and the offers that changed it.
LastOf(off) == IF off = <<>> THEN "active" ELSE off[Len(off)]
ChangesOf(off) == {i \in 1..Len(off) : off[i] # IF i = 1 THEN "active" ELSE off[i - 1]}

\* Hold and resume alternate.
InTurn(events) == \A i \in 1..Len(events) : events[i] = IF i % 2 = 1 THEN "hold" ELSE "resume"

\* The events that belong to the offers: as many as changes, in turn.
Follows(s, off) ==
    /\ s.held \in BOOLEAN /\ s.events \in Seq({"hold", "resume"})
    /\ s.held <=> LastOf(off) = "hold"
    /\ s.held <=> Len(s.events) % 2 = 1
    /\ Len(s.events) = Cardinality(ChangesOf(off))
    /\ InTurn(s.events)

\* The loop follows the offers, and an offer at the end of the capture, which may be sent
\* again, is the last one.
Holding ==
    /\ Follows(HoldState(msgs), offered)
    /\ Offers(msgs[Len(msgs)]) => msgs[Len(msgs)].sdp = LastOf(offered)

\* A message that is no offer, an offer of what the call already is, and the two that change it.
LEMMA OfferOther == ASSUME NEW s, NEW m, ~Offers(m) PROVE AfterOffer(s, m) = s
  BY DEF AfterOffer, Offers

LEMMA OfferAgain ==
  ASSUME NEW s, NEW m, Offers(m), (m.sdp = "hold" /\ s.held) \/ (m.sdp = "active" /\ ~s.held)
  PROVE  AfterOffer(s, m) = s
  BY DEF AfterOffer, Offers

LEMMA OfferHolds ==
  ASSUME NEW s, NEW m, Offers(m), m.sdp = "hold", ~s.held
  PROVE  AfterOffer(s, m).held = TRUE /\ AfterOffer(s, m).events = Append(s.events, "hold")
  BY DEF AfterOffer, Offers

LEMMA OfferResumes ==
  ASSUME NEW s, NEW m, Offers(m), m.sdp = "active", s.held
  PROVE  AfterOffer(s, m).held = FALSE /\ AfterOffer(s, m).events = Append(s.events, "resume")
  BY DEF AfterOffer, Offers

\* One more offer.
LEMMA ChangesGrow ==
  ASSUME NEW off \in Seq({"hold", "active"}), NEW sdp \in {"hold", "active"}
  PROVE  /\ LastOf(Append(off, sdp)) = sdp /\ LastOf(off) \in {"hold", "active"}
         /\ Cardinality(ChangesOf(off)) \in Nat
         /\ sdp = LastOf(off) => Cardinality(ChangesOf(Append(off, sdp))) = Cardinality(ChangesOf(off))
         /\ sdp # LastOf(off) => Cardinality(ChangesOf(Append(off, sdp))) = Cardinality(ChangesOf(off)) + 1
  <1>1. PICK n, o : n = Len(off) /\ o = Append(off, sdp)
    OBVIOUS
  <1>2. /\ n \in Nat /\ Len(o) = n + 1 /\ o[n + 1] = sdp /\ \A i \in 1..n : o[i] = off[i]
        /\ o # <<>>
    BY <1>1, AppendProperties
  <1>3. /\ LastOf(o) = sdp /\ LastOf(off) \in {"hold", "active"}
        /\ LastOf(off) = IF n = 0 THEN "active" ELSE off[n]
    BY <1>1, <1>2 DEF LastOf
  <1>4. PICK C : C = ChangesOf(off)
    OBVIOUS
  <1>5. IsFiniteSet(C) /\ Cardinality(C) \in Nat /\ n + 1 \notin C
    <2>1. IsFiniteSet(1..n)
      BY <1>2, FS_Interval
    <2>2. C \subseteq 1..n
      BY <1>1, <1>4 DEF ChangesOf
    <2>3. n + 1 \notin 1..n
      BY <1>2
    <2> QED BY <2>1, <2>2, <2>3, FS_Subset, FS_CardinalityType
  <1>6. ASSUME NEW i \in 1..n
        PROVE  (o[i] # IF i = 1 THEN "active" ELSE o[i - 1]) <=> (off[i] # IF i = 1 THEN "active" ELSE off[i - 1])
    <2>1. i # 1 => i - 1 \in 1..n
      BY <1>2
    <2> QED BY <1>2, <2>1
  <1>7. (o[n + 1] # IF n + 1 = 1 THEN "active" ELSE o[n]) <=> sdp # LastOf(off)
    <2>1. n # 0 => n \in 1..n
      BY <1>2
    <2> QED BY <1>2, <1>3, <2>1
  <1>8. ChangesOf(o) = IF sdp = LastOf(off) THEN C ELSE C \cup {n + 1}
    <2>1. 1..Len(o) = 1..n \cup {n + 1} /\ (n + 1) - 1 = n /\ n + 1 \notin 1..n
      BY <1>2
    <2>2. ASSUME NEW i PROVE i \in ChangesOf(o) <=> i \in IF sdp = LastOf(off) THEN C ELSE C \cup {n + 1}
      <3>1. CASE i \in 1..n
        BY <1>1, <1>4, <1>6, <2>1, <3>1 DEF ChangesOf
      <3>2. CASE i = n + 1
        <4>1. i \in ChangesOf(o) <=> o[n + 1] # IF n + 1 = 1 THEN "active" ELSE o[n]
          BY <2>1, <3>2 DEF ChangesOf
        <4> QED BY <1>5, <1>7, <3>2, <4>1
      <3>3. CASE i \notin 1..n /\ i # n + 1
        BY <1>1, <1>4, <2>1, <3>3 DEF ChangesOf
      <3> QED BY <3>1, <3>2, <3>3
    <2> QED BY <2>2
  <1>9. CASE sdp = LastOf(off)
    BY <1>1, <1>3, <1>4, <1>5, <1>8, <1>9
  <1>10. CASE sdp # LastOf(off)
    <2>1. Cardinality(C \cup {n + 1}) = Cardinality(C) + 1
      BY <1>5, FS_AddElement
    <2> QED BY <1>1, <1>3, <1>4, <1>5, <1>8, <1>10, <2>1
  <1> QED BY <1>9, <1>10

\* One more event, that is in turn.
LEMMA EventsGrow ==
  ASSUME NEW events \in Seq({"hold", "resume"}), NEW e \in {"hold", "resume"},
         InTurn(events), e = "hold" <=> ~(Len(events) % 2 = 1)
  PROVE  /\ Append(events, e) \in Seq({"hold", "resume"}) /\ Len(Append(events, e)) = Len(events) + 1
         /\ e = "hold" <=> Len(Append(events, e)) % 2 = 1
         /\ InTurn(Append(events, e))
  <1>1. PICK n, o : n = Len(events) /\ o = Append(events, e)
    OBVIOUS
  <1>2. /\ n \in Nat /\ Len(o) = n + 1 /\ o[n + 1] = e /\ (\A i \in 1..n : o[i] = events[i])
        /\ o \in Seq({"hold", "resume"})
    BY <1>1, AppendProperties
  <1>3. (n + 1) % 2 = 1 <=> ~(n % 2 = 1)
    BY <1>2
  <1>4. e = "hold" <=> (n + 1) % 2 = 1
    BY <1>1, <1>3
  <1>5. ASSUME NEW i \in 1..(n + 1) PROVE o[i] = IF i % 2 = 1 THEN "hold" ELSE "resume"
    <2>1. CASE i = n + 1
      BY <1>2, <1>4, <2>1
    <2>2. CASE i \in 1..n
      BY <1>1, <1>2, <2>2 DEF InTurn
    <2> QED BY <1>2, <2>1, <2>2
  <1> QED BY <1>1, <1>2, <1>4, <1>5 DEF InTurn

\* An offer makes an event when it changes what the call is.
LEMMA OfferFollows ==
  ASSUME NEW s, NEW off \in Seq({"hold", "active"}), Follows(s, off),
         NEW m, Offers(m), NEW sdp \in {"hold", "active"}, m.sdp = sdp
  PROVE  Follows(AfterOffer(s, m), Append(off, sdp))
  <1>1. PICK t : t = AfterOffer(s, m)
    OBVIOUS
  <1>2. /\ s.held \in BOOLEAN /\ s.events \in Seq({"hold", "resume"})
        /\ s.held <=> LastOf(off) = "hold"
        /\ s.held <=> Len(s.events) % 2 = 1
        /\ Len(s.events) = Cardinality(ChangesOf(off))
        /\ InTurn(s.events)
    BY DEF Follows
  <1>3. /\ LastOf(Append(off, sdp)) = sdp /\ LastOf(off) \in {"hold", "active"}
        /\ sdp = LastOf(off) => Cardinality(ChangesOf(Append(off, sdp))) = Cardinality(ChangesOf(off))
        /\ sdp # LastOf(off) => Cardinality(ChangesOf(Append(off, sdp))) = Cardinality(ChangesOf(off)) + 1
    BY ChangesGrow
  <1>4. CASE sdp = LastOf(off)
    <2>1. s.held <=> m.sdp = "hold"
      BY <1>2, <1>4
    <2>2. t = s
      BY <1>1, <1>2, <1>3, <2>1, OfferAgain
    <2> QED BY <1>1, <1>2, <1>3, <1>4, <2>2 DEF Follows
  <1>5. CASE sdp # LastOf(off) /\ sdp = "hold"
    <2>1. t.held = TRUE /\ t.events = Append(s.events, "hold")
      <3>1. m.sdp = "hold" /\ ~s.held /\ s.held \in BOOLEAN
        BY <1>2, <1>3, <1>5
      <3> QED BY <1>1, <3>1, OfferHolds
    <2>2. ~(Len(s.events) % 2 = 1)
      BY <1>2, <1>3, <1>5
    <2>3. PICK e : e = "hold"
      OBVIOUS
    <2>4. PICK events : events = s.events
      OBVIOUS
    <2>5. /\ events \in Seq({"hold", "resume"}) /\ e \in {"hold", "resume"}
          /\ InTurn(events)
          /\ e = "hold" <=> ~(Len(events) % 2 = 1)
      BY <1>2, <2>2, <2>3, <2>4
    <2>6. /\ t.events \in Seq({"hold", "resume"}) /\ Len(t.events) = Len(s.events) + 1
          /\ Len(t.events) % 2 = 1
          /\ InTurn(t.events)
      <3>1. PICK o : o = Append(events, e)
        OBVIOUS
      <3>2. /\ o \in Seq({"hold", "resume"}) /\ Len(o) = Len(events) + 1 /\ InTurn(o)
            /\ e = "hold" <=> Len(o) % 2 = 1
        BY <2>5, <3>1, EventsGrow
      <3>3. t.events = o
        BY <2>1, <2>3, <2>4, <3>1
      <3> QED BY <2>3, <2>4, <3>2, <3>3
    <2> QED BY <1>1, <1>2, <1>3, <1>5, <2>1, <2>4, <2>6 DEF Follows
  <1>6. CASE sdp # LastOf(off) /\ sdp = "active"
    <2>1. t.held = FALSE /\ t.events = Append(s.events, "resume")
      <3>1. m.sdp = "active" /\ s.held /\ s.held \in BOOLEAN
        BY <1>2, <1>3, <1>6
      <3> QED BY <1>1, <3>1, OfferResumes
    <2>2. Len(s.events) % 2 = 1
      BY <1>2, <1>3, <1>6
    <2>3. PICK e : e = "resume"
      OBVIOUS
    <2>4. PICK events : events = s.events
      OBVIOUS
    <2>5. /\ events \in Seq({"hold", "resume"}) /\ e \in {"hold", "resume"}
          /\ InTurn(events)
          /\ e = "hold" <=> ~(Len(events) % 2 = 1)
      BY <1>2, <2>2, <2>3, <2>4
    <2>6. /\ t.events \in Seq({"hold", "resume"}) /\ Len(t.events) = Len(s.events) + 1
          /\ ~(Len(t.events) % 2 = 1)
          /\ InTurn(t.events)
      BY <2>1, <2>3, <2>4, <2>5, EventsGrow
    <2> QED BY <1>1, <1>2, <1>3, <1>6, <2>1, <2>4, <2>6 DEF Follows
  <1> QED BY <1>4, <1>5, <1>6

\* A step without offers.
LEMMA HoldQuiet ==
  ASSUME State, Captured, Holding, offered' = offered, NEW n \in {1, 2}, Extends(n),
         \A i \in Places' : i \notin Places => ~Offers(msgs'[i])
  PROVE  Holding'
  <1>1. PICK s, m, k : s = HoldState(msgs) /\ m = msgs'[Len(msgs) + 1] /\ k = msgs'[Len(msgs) + 2]
    OBVIOUS
  <1>2. /\ Len(msgs) \in Nat /\ Len(msgs') = Len(msgs) + n /\ ~Offers(m) /\ (n = 2 => ~Offers(k))
    BY <1>1, PlacesGrow DEF Places
  <1>3. HoldState(msgs)' = s
    <2>1. CASE n = 1
      <3>1. HoldState(msgs)' = AfterOffer(s, m)
        BY <1>1, <2>1, HoldOne
      <3> QED BY <1>2, <3>1, OfferOther
    <2>2. CASE n = 2
      <3>1. HoldState(msgs)' = AfterOffer(AfterOffer(s, m), k)
        BY <1>1, <2>2, HoldTwo
      <3>2. AfterOffer(s, m) = s
        BY <1>2, OfferOther
      <3>3. AfterOffer(s, k) = s
        BY <1>2, <2>2, OfferOther
      <3> QED BY <3>1, <3>2, <3>3
    <2> QED BY <2>1, <2>2
  <1>4. ~Offers(msgs'[Len(msgs')])
    BY <1>1, <1>2
  <1> QED BY <1>1, <1>3, <1>4 DEF Holding

\* A new offer.
LEMMA HoldOffer ==
  ASSUME State, Captured, Holding, NEW c \in Callees, NEW side \in Sides, Offer(side, c)
  PROVE  Holding'
  <1>1. PICK method \in {"INVITE", "UPDATE"}, sdp \in {"active", "hold"}, cseq \in NextCSeq(Party(side, c)) :
            /\ Capture(<<InDialogRequest(side, c, method, cseq, sdp)>>)
            /\ offered' = Append(offered, sdp)
    BY DEF Offer
  <1>2. PICK s, m : s = HoldState(msgs) /\ m = msgs'[Len(msgs) + 1]
    OBVIOUS
  <1>3. cseq \in Nat
    BY SignallingAssumption DEF NextCSeq, State, Typed, Party
  <1>4. Extends(1) /\ Is(m, 0, method, cseq, Party(side, c), Party(Other(side), c), sdp, side)
    BY <1>1, <1>2, <1>3, InDialogSends
  <1>5. Party(Other(side), c) # NoTag
    BY Tags DEF Party, Other, Sides
  <1>6. Offers(m) /\ m.sdp = sdp
    BY <1>4, <1>5 DEF Is, Offers, InDialog
  <1>7. HoldState(msgs)' = AfterOffer(s, m)
    BY <1>2, <1>4, HoldOne
  <1>8. PICK off : off = offered /\ off \in Seq({"hold", "active"}) /\ Follows(s, off) /\ sdp \in {"hold", "active"}
    BY <1>2 DEF Holding, State, Typed
  <1>9. Follows(AfterOffer(s, m), Append(off, sdp)) /\ LastOf(Append(off, sdp)) = sdp
    BY <1>6, <1>8, OfferFollows, ChangesGrow
  <1>10. Len(msgs') = Len(msgs) + 1
    BY <1>4, PlacesGrow
  <1> QED BY <1>1, <1>2, <1>6, <1>7, <1>8, <1>9, <1>10 DEF Holding

\* The last offer sent again changes nothing.
LEMMA HoldRepeat ==
  ASSUME State, Captured, Holding, Repeat
  PROVE  Holding'
  <1>1. PICK i \in Places : \E m : /\ m = msgs'[Len(msgs) + 1] /\ Transaction(m) = Transaction(msgs[i])
                                   /\ m.sdp = msgs[i].sdp
                                   /\ i = Len(msgs) \/ IsAnswer(msgs[i]) \/ IsChallenge(msgs[i])
    BY RepeatIs
  <1>2. PICK m : /\ m = msgs'[Len(msgs) + 1] /\ Transaction(m) = Transaction(msgs[i])
                 /\ m.sdp = msgs[i].sdp
    BY <1>1
  <1>3. Extends(1) /\ offered' = offered /\ (i = Len(msgs) \/ IsAnswer(msgs[i]) \/ IsChallenge(msgs[i]))
    BY <1>1, RepeatIs DEF Repeat, dialogVars
  <1>4. m.status = msgs[i].status /\ m.method = msgs[i].method /\ m.to = msgs[i].to
    BY <1>2 DEF Transaction
  <1>5. \A j \in Places' : j \notin Places => j = Len(msgs) + 1
    BY <1>3, PlacesGrow
  <1>6. CASE ~Offers(m)
    BY <1>2, <1>3, <1>5, <1>6, HoldQuiet
  <1>7. CASE Offers(m)
    <2>1. i = Len(msgs) /\ Offers(msgs[i])
      BY <1>3, <1>4, <1>7 DEF Offers, InDialog, IsAnswer, IsChallenge
    <2>2. PICK s, off : s = HoldState(msgs) /\ off = offered
      OBVIOUS
    <2>3. m.sdp = LastOf(off) /\ Follows(s, off) /\ off \in Seq({"hold", "active"})
      BY <1>2, <2>1, <2>2 DEF Holding, State, Typed
    <2>4. LastOf(off) \in {"hold", "active"}
      BY <2>3, ChangesGrow
    <2>5. s.held <=> LastOf(off) = "hold"
      BY <2>3 DEF Follows
    <2>6. AfterOffer(s, m) = s
      BY <1>7, <2>3, <2>4, <2>5, OfferAgain
    <2>7. HoldState(msgs)' = s
      BY <1>2, <1>3, <2>2, <2>6, HoldOne
    <2>8. Len(msgs') = Len(msgs) + 1
      BY <1>3, PlacesGrow
    <2> QED BY <1>2, <1>3, <2>2, <2>3, <2>7, <2>8 DEF Holding
  <1> QED BY <1>6, <1>7

\* Every step keeps it.
LEMMA HoldingNext == Made /\ Holding /\ [SignallingNext]_signallingVars => Holding'
  <1> SUFFICES ASSUME State, Captured, Holding, [SignallingNext]_signallingVars PROVE Holding'
    BY DEF Made
  <1>1. CASE UNCHANGED signallingVars
    BY <1>1 DEF signallingVars, Holding
  <1>2. PICK m, k : m = msgs'[Len(msgs) + 1] /\ k = msgs'[Len(msgs) + 2]
    OBVIOUS
  <1>3. ASSUME Extends(1), ~Offers(m), offered' = offered PROVE Holding'
    <2>1. \A i \in Places' : i \notin Places => i = Len(msgs) + 1
      BY <1>3, PlacesGrow
    <2> QED BY <1>2, <1>3, <2>1, HoldQuiet
  <1>4. ASSUME Extends(2), ~Offers(m), ~Offers(k), offered' = offered PROVE Holding'
    <2>1. \A i \in Places' : i \notin Places => i = Len(msgs) + 1 \/ i = Len(msgs) + 2
      BY <1>4, PlacesGrow
    <2> QED BY <1>2, <1>4, <2>1, HoldQuiet
  <1>5. ASSUME Still PROVE Holding'
    <2>1. \A i \in Places' : i \notin Places => ~Offers(msgs'[i])
      BY <1>5 DEF Still, Plain, Offers, InDialog
    <2> QED BY <1>5, <2>1, HoldQuiet DEF Still
  <1>6. CASE Challenge
    <2>1. Extends(2) /\ m.status = 401 /\ k.method = "ACK"
      BY <1>2, <1>6, ChallengeSends DEF Is
    <2>2. ~Offers(m) /\ ~Offers(k)
      BY <2>1 DEF Offers, InDialog
    <2> QED BY <1>4, <1>6, <2>1, <2>2 DEF Challenge, dialogVars
  <1>7. ASSUME NEW d \in Callees, Accept(d) PROVE Holding'
    <2>1. Extends(1) /\ m.status = 200
      BY <1>2, <1>7, ResponseSends DEF Accept, Is
    <2>2. ~Offers(m)
      BY <2>1 DEF Offers, InDialog
    <2> QED BY <1>3, <1>7, <2>1, <2>2 DEF Accept, dialogVars
  <1>8. ASSUME NEW d \in Callees, NEW side \in Sides, Refer(side, d) PROVE Holding'
    <2>1. PICK cseq \in NextCSeq(Party(side, d)) : Capture(<<InDialogRequest(side, d, "REFER", cseq, "none")>>)
      BY <1>8 DEF Refer
    <2>2. cseq \in Nat
      BY SignallingAssumption DEF NextCSeq, State, Typed, Party
    <2>3. Extends(1) /\ m.method = "REFER"
      BY <1>2, <2>1, <2>2, InDialogSends DEF Is
    <2>4. ~Offers(m)
      BY <2>3 DEF Offers
    <2> QED BY <1>3, <1>8, <2>3, <2>4 DEF Refer
  <1>9. ASSUME NEW d \in Callees, NEW side \in Sides, HangUp(side, d) PROVE Holding'
    <2>1. Extends(1) /\ m.method = "BYE"
      BY <1>2, <1>9, DialogSends DEF Is
    <2>2. ~Offers(m)
      BY <2>1 DEF Offers
    <2> QED BY <1>3, <1>9, <2>1, <2>2 DEF HangUp
  <1>10. CASE Reply
    <2>1. /\ m.status # 0 /\ (pending.method = "INVITE" => k.method = "ACK")
          /\ Extends(IF pending.method = "INVITE" THEN 2 ELSE 1)
      BY <1>2, <1>10, ReplySends DEF Is
    <2>2. ~Offers(m) /\ (pending.method = "INVITE" => ~Offers(k))
      BY <2>1 DEF Offers, InDialog
    <2> QED BY <1>3, <1>4, <1>10, <2>1, <2>2 DEF Reply
  <1> QED BY <1>1, <1>5, <1>6, <1>7, <1>8, <1>9, <1>10, StillSteps, HoldOffer, HoldRepeat DEF SignallingNext

\* The loop always follows the offers.
LEMMA HoldingAlways == SignallingSpec => []Holding
  <1>1. SignallingInit => Holding
    <2> SUFFICES ASSUME SignallingInit PROVE Holding
      OBVIOUS
    <2>1. PICK one, m : /\ one = Message(0, "INVITE", 1, Caller, NoTag, "active", "caller")
                        /\ m = [one EXCEPT !.at = 1] /\ msgs = <<m>>
      BY DEF SignallingInit
    <2>2. m.to = NoTag
      BY <2>1 DEF Message
    <2>3. ~Offers(m) /\ Len(msgs) = 1 /\ msgs[1] = m
      BY <2>1, <2>2 DEF Offers, InDialog
    <2>4. HoldState(msgs) = NotHeld
      <3>1. Turns(msgs)[0] = NotHeld /\ Turns(msgs)[1] = AfterOffer(Turns(msgs)[1 - 1], msgs[1])
        BY <2>3, HoldUnfolds
      <3>2. 1 - 1 = 0
        OBVIOUS
      <3> QED BY <2>3, <3>1, <3>2, OfferOther DEF HoldState
    <2>5. offered = <<>> /\ LastOf(offered) = "active" /\ ChangesOf(offered) = {}
      BY DEF SignallingInit, LastOf, ChangesOf
    <2>6. NotHeld.held = FALSE /\ NotHeld.events = <<>> /\ Len(<<>>) = 0
      BY DEF NotHeld
    <2>7. Cardinality({}) = 0
      BY FS_EmptySet
    <2>8. Follows(NotHeld, offered)
      <3>1. PICK s : s = NotHeld
        OBVIOUS
      <3>2. s.held = FALSE /\ s.held \in BOOLEAN
        BY <2>6, <3>1
      <3>3. PICK e : e = s.events
        OBVIOUS
      <3>4. e = <<>>
        BY <2>6, <3>1, <3>3
      <3>5. Len(e) = 0 /\ e \in Seq({"hold", "resume"})
        BY <3>4, EmptySeq
      <3>6. InTurn(e) /\ ~(Len(e) % 2 = 1)
        BY <3>5 DEF InTurn
      <3>7. Len(e) = Cardinality(ChangesOf(offered)) /\ LastOf(offered) # "hold"
        BY <2>5, <2>7, <3>5
      <3> QED BY <3>1, <3>2, <3>3, <3>5, <3>6, <3>7 DEF Follows
    <2> QED BY <2>3, <2>4, <2>8 DEF Holding
  <1> QED BY <1>1, MadeAlways, HoldingNext, PTL DEF SignallingSpec

\* hold_events of build_calls alternate and are as many as the offers that changed what
\* the call was, whoever made them and however often they were sent.
THEOREM HoldsAreFaithful == SignallingSpec => []HoldsFaithful
  <1>1. ASSUME Made, Holding PROVE HoldsFaithful
    <2>1. Len(msgs) \in Nat /\ HoldEvents(msgs) = HoldState(msgs).events
      BY <1>1, HoldUnfolds DEF Made, Captured
    <2>2. PICK events : events = HoldEvents(msgs)
      OBVIOUS
    <2>3. Len(events) = Cardinality(ChangesOf(offered)) /\ InTurn(events)
      BY <1>1, <2>1, <2>2 DEF Holding, Follows
    <2> QED BY <2>2, <2>3 DEF HoldsFaithful, ChangesOf, InTurn
  <1> QED BY <1>1, HoldingAlways, MadeAlways, PTL

-----------------------------------------------------------------------------
(* The findings.                                                            *)
\* The network reacted, by more than 100 Trying, and to the INVITE of the caller.
Reacts(m) == m.status > 100 /\ m.method = "INVITE"
Initial(m) == Reacts(m) /\ m.by = "callee" /\ m.cseq \in 1..attempt

\* Every reaction is to the INVITE of the caller or comes after one, so the first one is:
\* the answers to a re-INVITE, which can have the number of an attempt, come too late.
Reacted ==
    \A i \in Places : Reacts(msgs[i]) =>
        \E j \in Places : j <= i /\ Initial(msgs[j])

\* Only an answer is acknowledged.
LEMMA AckedAnswer == ASSUME State, SignallingNext, acked' # {}, acked = {} PROVE answers # <<>>
  <1>1. PICK c \in Callees : Ack(c)
    <2>1. CASE \E c \in Callees : Ack(c)
      BY <2>1
    <2>2. CASE ~\E c \in Callees : Ack(c)
      <3>1. acked' = acked
        BY <2>2, ZenonT(30) DEF SignallingNext, Challenge, Retry, Trying, Ring, Accept, Cancel, Refuse, Offer, Refer,
              Reply, HangUp, Repeat, dialogVars, callVars
      <3> QED BY <3>1
    <2> QED BY <2>1, <2>2
  <1>2. c \in ToSet(answers)
    BY <1>1 DEF Ack, Contains, ToSet
  <1> QED BY <1>2 DEF ToSet

\* Who answered has reacted.
LEMMA AnswerReacts ==
  ASSUME Made, Witnessed, answers # <<>>
  PROVE  \E j \in Places : Initial(msgs[j])
  <1>1. State /\ Captured /\ Main \in Callees /\ Main \in ToSet(answers) /\ attempt \in Nat \ {0}
    BY DEF Made, State, Typed, Main, ToSet
  <1>2. PICK j \in Places : /\ msgs[j].status = 200 /\ msgs[j].method = "INVITE"
                            /\ msgs[j].cseq = attempt /\ msgs[j].to = Main
    BY <1>1 DEF Witnessed, Sent
  <1>3. PICK m : m = msgs[j]
    OBVIOUS
  <1>4. j \in InviteResponses(msgs) /\ Success(m)
    BY <1>2, <1>3, AnswerIsResponse
  <1>5. IsAnswer(m)
    <2>1. ~Reinvited(m)
      BY <1>1, <1>2, <1>3, Tags DEF Reinvited
    <2> QED BY <1>3, <1>4, <2>1, SuccessIs
  <1> QED BY <1>1, <1>2, <1>3, <1>5 DEF Initial, Reacts, IsAnswer

\* Every step keeps it: what is new is a reaction to the INVITE or follows an answer.
LEMMA ReactedNext == Made /\ Witnessed /\ Reacted /\ [SignallingNext]_signallingVars => Reacted'
  <1> SUFFICES ASSUME Made, Witnessed, Reacted, [SignallingNext]_signallingVars PROVE Reacted'
    OBVIOUS
  <1>1. CASE UNCHANGED signallingVars
    BY <1>1 DEF signallingVars, Reacted, Reacts, Initial, Places
  <1>2. CASE SignallingNext
    <2>1. State /\ Captured /\ State' /\ Evolves /\ Made'
      BY <1>2, StateNext, MadeNext DEF Made
    <2>2. PICK n \in {1, 2} : Extends(n)
      BY <1>2, <2>1, StepAdds, RepeatAdds DEF Adds
    <2>3. /\ Places \subseteq Places' /\ Places' \subseteq Nat /\ \A i \in Places : msgs'[i] = msgs[i]
          /\ \A i \in Places' : i \notin Places => \A j \in Places : j <= i
      BY <2>1, <2>2, PlacesGrow DEF Places
    <2>4. ASSUME NEW j \in Places, Initial(msgs[j]) PROVE Initial(msgs[j])'
      <3>1. PICK m : m = msgs[j] /\ m = msgs'[j]
        BY <2>3
      <3>2. m.status > 100 /\ m.method = "INVITE" /\ m.by = "callee" /\ m.cseq \in 1..attempt
        BY <2>4, <3>1 DEF Initial, Reacts
      <3>3. m.cseq \in 1..attempt'
        BY <2>1, <3>2 DEF Evolves, State, Typed
      <3> QED BY <3>1, <3>2, <3>3 DEF Initial, Reacts
    <2>5. ASSUME NEW i \in Places', Reacts(msgs'[i]) PROVE \E j \in Places' : j <= i /\ Initial(msgs[j])'
      <3>1. CASE i \in Places
        <4>1. PICK j \in Places : j <= i /\ Initial(msgs[j])
          BY <2>3, <2>5, <3>1 DEF Reacted, Reacts
        <4> QED BY <2>3, <2>4, <4>1
      <3>2. CASE i \notin Places
        <4>1. CASE answers # <<>>
          <5>1. PICK j \in Places : Initial(msgs[j])
            BY <4>1, AnswerReacts
          <5> QED BY <2>3, <2>4, <3>2, <5>1
        <4>2. CASE answers = <<>>
          <5>1. acked = {} /\ acked' = {}
            BY <1>2, <2>1, <4>2, AckedAnswer, SMTT(30) DEF State, Typed, ToSet
          <5>2. Initial(msgs[i])' \/ Main' \in acked'
            <6>1. PICK m : m = msgs'[i] /\ Legal(m)'
              BY <2>1, <2>5 DEF Made, Captured, Places
            <6>2. m.status > 100 /\ m.method = "INVITE" /\ attempt' \in Nat \ {0}
              BY <2>1, <2>5, <6>1 DEF Reacts, State, Typed
            <6>3. \/ IsProvisional(m)' \/ IsAnswer(m)' \/ IsChallenge(m)' \/ IsRefusal(m)'
                  \/ IsDialogReply(m)'
              BY <6>1, <6>2 DEF Legal, IsInvite, IsAckOfFailure, IsAckOfAnswer, IsCancel, IsDialogRequest,
                 IsDialogAck, IsBye
            <6>4. Main' \in acked' \/ (m.by = "callee" /\ m.cseq \in 1..attempt')
              BY <6>2, <6>3 DEF IsProvisional, IsAnswer, IsChallenge, IsRefusal, IsDialogReply
            <6> QED BY <6>1, <6>2, <6>4 DEF Initial, Reacts
          <5> QED BY <2>3, <5>1, <5>2
        <4> QED BY <4>1, <4>2
      <3> QED BY <3>1, <3>2
    <2> QED BY <2>5 DEF Reacted, Reacts
  <1> QED BY <1>1, <1>2

\* It always holds.
LEMMA ReactedAlways == SignallingSpec => []Reacted
  <1>1. SignallingInit => Reacted
    <2> SUFFICES ASSUME SignallingInit PROVE Reacted
      OBVIOUS
    <2>1. PICK one, m : /\ one = Message(0, "INVITE", 1, Caller, NoTag, "active", "caller")
                        /\ m = [one EXCEPT !.at = 1] /\ msgs = <<m>>
      BY DEF SignallingInit
    <2>2. m.status = 0
      BY <2>1 DEF Message
    <2>3. \A i \in Places : msgs[i] = m
      BY <2>1 DEF Places
    <2> QED BY <2>2, <2>3 DEF Reacted, Reacts
  <1>2. SignallingSpec => [](Made /\ Witnessed)
    BY ObservedAlways, PTL
  <1> QED BY <1>1, <1>2, ReactedNext, PTL DEF SignallingSpec

\* Two sets of numbers with the same least element.
LEMMA MinAgrees ==
  ASSUME NEW S, NEW T, T \subseteq Nat, S \subseteq T, \A t \in T : \E s \in S : s <= t, T # {}
  PROVE  S # {} /\ Min(S) \in Nat /\ Min(T) = Min(S)
  <1>1. PICK a \in Nat : a = Min(T) /\ a \in T /\ \A y \in T : a <= y
    BY MinIs
  <1>2. S \subseteq Nat /\ S # {}
    OBVIOUS
  <1>3. PICK b \in Nat : b = Min(S) /\ b \in S /\ \A y \in S : b <= y
    BY <1>2, MinIs
  <1>4. PICK s \in S : s <= a
    BY <1>1
  <1>5. b <= s /\ a <= b /\ s \in Nat
    BY <1>1, <1>2, <1>3, <1>4
  <1> QED BY <1>1, <1>2, <1>3, <1>4, <1>5

\* The call starts with the first message.
LEMMA StartIs == ASSUME Made PROVE Started(msgs) = 1
  <1>1. Captured /\ DOMAIN msgs = Places /\ Places \subseteq Nat /\ 1 \in InitialInvites(msgs)
    BY CallerIsKnown DEF Made, Captured, Places
  <1>2. InitialInvites(msgs) \subseteq Places
    BY <1>1 DEF InitialInvites, RequestsOf
  <1>3. PICK x \in Nat : x = Min(InitialInvites(msgs)) /\ x \in InitialInvites(msgs) /\ x <= 1
    BY <1>1, <1>2, MinIs
  <1>4. x = 1 /\ 1 \in Places
    BY <1>1, <1>2, <1>3 DEF Places
  <1>5. First(msgs, InitialInvites(msgs)) = msgs[1]
    BY <1>1, <1>3, <1>4 DEF First
  <1> QED BY <1>1, <1>4, <1>5 DEF Started, Captured

\* What the callees reacted to an INVITE, and when they did first.
Reactions ==
    {i \in 1..Len(msgs) : msgs[i].by = "callee" /\ msgs[i].method = "INVITE" /\ msgs[i].status > 100}
ReactionDelay == Min(Reactions) - 1

\* Without a challenge that is the first progress, and never later than it.
LEMMA WaitIs ==
  ASSUME Made, NEW end \in Nat, Reactions # {}
  PROVE  /\ ReactionDelay \in Int /\ Waited(end) \in Int
         /\ Unchallenged => Progressed # {} /\ Waited(end) = ReactionDelay
         /\ Len(msgs) <= end => ReactionDelay <= Waited(end)
  <1>1. Len(msgs) \in Nat /\ Reactions \subseteq 1..Len(msgs) /\ Progressed \subseteq Reactions
    BY DEF Made, Captured, Reactions, Progressed
  <1>2. Unchallenged => Progressed = Reactions
    BY DEF Unchallenged, Reactions, Progressed
  <1>3. PICK S, T : S = Reactions /\ T = Progressed
    OBVIOUS
  <1>4. S \subseteq Nat /\ T \subseteq Nat /\ S \subseteq 1..Len(msgs) /\ T \subseteq S /\ S # {}
    BY <1>1, <1>3
  <1>5. PICK a \in 1..Len(msgs) : a = Min(S) /\ a \in S /\ \A y \in S : a <= y
    BY <1>4, MinIs
  <1>6. CASE T = {}
    <2>1. ReactionDelay = a - 1 /\ Waited(end) = end - 1
      BY <1>3, <1>5, <1>6 DEF ReactionDelay, Waited
    <2> QED BY <1>1, <1>2, <1>3, <1>5, <1>6, <2>1
  <1>7. CASE T # {}
    <2>1. PICK b \in 1..Len(msgs) : b = Min(T) /\ b \in S
      BY <1>4, <1>7, MinIs
    <2>2. ReactionDelay = a - 1 /\ Waited(end) = b - 1
      BY <1>3, <1>5, <1>7, <2>1 DEF ReactionDelay, Waited
    <2> QED BY <1>1, <1>2, <1>3, <1>5, <1>7, <2>1, <2>2
  <1> QED BY <1>6, <1>7

\* The post-dial delay of the code runs to the first reaction.
LEMMA ReactionsAre ==
  ASSUME Made, Witnessed, Reacted
  PROVE  /\ Progress(msgs) = {} <=> Reactions = {}
         /\ Reactions # {} => Pdd(msgs) = Min(Reactions) - 1
  <1>1. /\ Captured /\ DOMAIN msgs = Places /\ Places \subseteq Nat /\ attempt \in Nat
        /\ \A i : i \in InviteResponses(msgs) <=>
              i \in Places /\ msgs[i].status > 0 /\ msgs[i].method = "INVITE" /\ msgs[i].cseq \in 1..attempt
    BY AttemptsAreKnown DEF Made
  <1>2. PICK S, T, R : /\ S = {i \in Places : Initial(msgs[i])} /\ T = Progress(msgs) /\ R = Reactions
    OBVIOUS
  <1>3. \A i \in Places : msgs[i].status \in Nat
    BY <1>1, AtPlace DEF MessageSet
  <1>4. T \subseteq {i \in Places : Reacts(msgs[i])} /\ R \subseteq {i \in Places : Reacts(msgs[i])}
    BY <1>1, <1>2 DEF Progress, Reactions, Reacts, Places
  <1>5. S \subseteq T /\ S \subseteq R
    BY <1>1, <1>2, <1>3 DEF Progress, Reactions, Initial, Reacts, Places
  <1>6. \A i \in Places : Reacts(msgs[i]) => \E j \in S : j <= i
    BY <1>2 DEF Reacted
  <1>7. T # {} => S # {} /\ Min(T) = Min(S)
    BY <1>1, <1>4, <1>5, <1>6, MinAgrees
  <1>8. R # {} => S # {} /\ Min(R) = Min(S)
    BY <1>1, <1>4, <1>5, <1>6, MinAgrees
  <1>9. ASSUME R # {} PROVE Pdd(msgs) = Min(R) - 1
    <2>1. T # {} /\ Min(T) = Min(R) /\ Min(T) \in Places
      <3>1. T # {} /\ Min(T) = Min(R)
        BY <1>5, <1>7, <1>8, <1>9
      <3>2. T \subseteq Nat
        BY <1>1, <1>4
      <3> QED BY <1>4, <3>1, <3>2, MinIs
    <2>2. First(msgs, T).at = Min(T)
      BY <1>1, <2>1 DEF First, Captured
    <2> QED BY <1>2, <2>1, <2>2, StartIs DEF Pdd
  <1> QED BY <1>2, <1>5, <1>7, <1>8, <1>9

\* The INVITE has a response for build_calls when it has any.
LEMMA SilenceIs ==
  ASSUME Made, Witnessed, Reacted
  PROVE  InviteResponses(msgs) = {} <=> \A i \in Places : msgs[i].status = 0 \/ msgs[i].method # "INVITE"
  <1>1. /\ \A i : i \in InviteResponses(msgs) <=>
              i \in Places /\ msgs[i].status > 0 /\ msgs[i].method = "INVITE" /\ msgs[i].cseq \in 1..attempt
        /\ attempt \in Nat /\ Captured
    BY AttemptsAreKnown DEF Made
  <1>2. ASSUME NEW i \in Places, msgs[i].status # 0, msgs[i].method = "INVITE" PROVE InviteResponses(msgs) # {}
    <2>1. PICK m : m = msgs[i]
      OBVIOUS
    <2>2. Legal(m) /\ m.status \in Nat /\ m.status # 0 /\ m.method = "INVITE"
      BY <1>1, <1>2, <2>1, AtPlace DEF MessageSet
    <2>3. CASE m.status > 100
      <3>1. PICK j \in Places : Initial(msgs[j])
        BY <2>1, <2>2, <2>3 DEF Reacted, Reacts
      <3>2. PICK k : k = msgs[j] /\ k.status \in Nat
        BY <1>1, AtPlace DEF MessageSet
      <3> QED BY <1>1, <3>1, <3>2 DEF Initial, Reacts
    <2>4. CASE ~(m.status > 100)
      <3>1. IsProvisional(m)
        BY <2>2, <2>4 DEF Legal, IsInvite, IsAnswer, IsChallenge, IsRefusal, IsAckOfFailure,
           IsAckOfAnswer, IsCancel, IsDialogRequest, IsDialogReply, IsDialogAck, IsBye
      <3> QED BY <1>1, <2>1, <2>2, <3>1 DEF IsProvisional
    <2> QED BY <2>3, <2>4
  <1> QED BY <1>1, <1>2

\* An answered call ended for build_calls when somebody hung up.
LEMMA TerminationIs ==
  ASSUME Made, Witnessed, FirstByes, FirstAnswered, answers # <<>>
  PROVE  TerminationObserved(msgs) <=> byes # <<>>
  <1>1. State /\ Captured /\ Places \subseteq Nat
    BY AttemptsAreKnown DEF Made
  <1>2. /\ Answered(msgs) /\ Answer(msgs).to = Main /\ Main # NoTag
        /\ {i \in RequestsOf(msgs, "BYE") : msgs[i].at >= Answer(msgs).at} = {i \in Places : msgs[i].method = "BYE"}
    BY AnswerIsFirst
  <1>3. PICK all, main : /\ all = {i \in Places : msgs[i].method = "BYE"}
                         /\ main = {i \in all : InMainDialog(msgs, msgs[i])}
    OBVIOUS
  <1>4. Bye(msgs) = First(msgs, IF main # {} THEN main ELSE all) /\ Term(msgs) = Bye(msgs)
    <2>1. Bye(msgs) = First(msgs, IF main # {} THEN main ELSE all)
      BY <1>2, <1>3 DEF Bye
    <2> QED BY <1>2, <2>1 DEF Term
  <1>5. all # {} <=> byes # <<>>
    <2>1. ASSUME byes # <<>> PROVE all # {}
      <3>1. byes[1].dialog \in Callees /\ 1 \in EndsOf(byes[1].dialog)
        BY <1>1, <2>1, Tags DEF State, Typed, Related, EndsOf
      <3>2. PICK c \in Callees : EndsOf(c) # {}
        BY <3>1
      <3>3. ByesIn(c) # {}
        BY <3>2 DEF FirstByes, Ends
      <3> QED BY <1>3, <3>3 DEF ByesIn
    <2> QED BY <1>3, <2>1, ByeIs
  <1>6. ASSUME all # {} PROVE Bye(msgs) # NoTag
    <2>1. PICK S : S = IF main # {} THEN main ELSE all
      OBVIOUS
    <2>2. S # {} /\ S \subseteq Places
      BY <1>3, <1>6, <2>1
    <2>3. Min(S) \in Places
      BY <1>1, <2>2, MinIs
    <2>4. msgs[Min(S)] # NoTag
      BY <1>1, <2>3, AtPlace, SignallingAssumption
    <2> QED BY <1>4, <2>1, <2>2, <2>4 DEF First
  <1>7. ASSUME all = {} PROVE Bye(msgs) = NoTag
    BY <1>3, <1>4, <1>7 DEF First
  <1> QED BY <1>4, <1>5, <1>6, <1>7 DEF TerminationObserved

\* There are hold events when the call was once put on hold.
LEMMA HoldIs ==
  ASSUME Made, Holding
  PROVE  HoldEvents(msgs) # <<>> <=> Contains(offered, "hold")
  <1>1. offered \in Seq({"hold", "active"}) /\ Len(offered) \in Nat /\ Len(msgs) \in Nat
    BY DEF Made, State, Typed, Captured
  <1>2. PICK events \in Seq({"hold", "resume"}) :
           events = HoldEvents(msgs) /\ Len(events) = Cardinality(ChangesOf(offered))
    BY <1>1, HoldUnfolds DEF Holding, Follows
  <1>3. ChangesOf(offered) # {} <=> \E i \in 1..Len(offered) : offered[i] = "hold"
    <2>1. ASSUME NEW i \in ChangesOf(offered) PROVE \E j \in 1..Len(offered) : offered[j] = "hold"
      <3>1. i \in 1..Len(offered) /\ offered[i] # IF i = 1 THEN "active" ELSE offered[i - 1]
        BY <2>1 DEF ChangesOf
      <3>2. CASE i = 1
        BY <1>1, <3>1, <3>2
      <3>3. CASE i # 1
        <4>1. i - 1 \in 1..Len(offered)
          BY <1>1, <3>1, <3>3
        <4>2. offered[i] \in {"hold", "active"} /\ offered[i - 1] \in {"hold", "active"} /\ offered[i] # offered[i - 1]
          BY <1>1, <3>1, <3>3, <4>1
        <4> QED BY <3>1, <4>1, <4>2
      <3> QED BY <3>2, <3>3
    <2>2. ASSUME NEW k \in 1..Len(offered), offered[k] = "hold" PROVE ChangesOf(offered) # {}
      <3>1. PICK H : H = {j \in 1..Len(offered) : offered[j] = "hold"}
        OBVIOUS
      <3>2. H \subseteq Nat /\ H # {}
        BY <1>1, <2>2, <3>1
      <3>3. PICK x \in H : \A y \in H : x <= y
        BY <3>2, NatLeast
      <3>4. x \in 1..Len(offered) /\ offered[x] = "hold"
        BY <3>1, <3>3
      <3>5. x # 1 => offered[x - 1] # "hold"
        <4>1. ASSUME x # 1, offered[x - 1] = "hold" PROVE FALSE
          <5>1. x - 1 \in H
            BY <1>1, <3>1, <3>4, <4>1
          <5> QED BY <3>2, <3>3, <5>1
        <4> QED BY <4>1
      <3> QED BY <3>4, <3>5 DEF ChangesOf
    <2> QED BY <2>1, <2>2
  <1>4. IsFiniteSet(ChangesOf(offered)) /\ (Cardinality(ChangesOf(offered)) = 0 <=> ChangesOf(offered) = {})
    <2>1. IsFiniteSet(1..Len(offered))
      BY <1>1, FS_Interval
    <2>2. IsFiniteSet(ChangesOf(offered))
      BY <2>1, FS_Subset DEF ChangesOf
    <2> QED BY <2>2, FS_EmptySet
  <1>5. events # <<>> <=> Len(events) # 0
    BY EmptySeq
  <1> QED BY <1>2, <1>3, <1>4, <1>5 DEF Contains

\* What an outcome says of the finding on the final answer.
LEMMA FailureIs ==
  ASSUME NEW outcome, NEW f,
         outcome \in {"answered", "auth_failed", "busy", "cancelled", "no_response", "in_progress"}
  PROVE  f \in UNION {Finding(outcome \in OutcomeSeverity[s] \ {"no_response"}, s, "SIP_FINAL_FAILURE") :
                          s \in DOMAIN OutcomeSeverity}
         <=> \/ outcome = "auth_failed" /\ f = [severity |-> "warning", code |-> "SIP_FINAL_FAILURE"]
             \/ outcome = "busy" /\ f = [severity |-> "info", code |-> "SIP_FINAL_FAILURE"]
  <1>1. /\ DOMAIN OutcomeSeverity = {"critical", "warning", "info"}
        /\ OutcomeSeverity["critical"] = {"no_response", "server_error", "timeout", "media_negotiation_failed"}
        /\ OutcomeSeverity["warning"] = {"auth_failed", "not_found", "rejected", "client_error", "global_failure"}
        /\ OutcomeSeverity["info"] = {"busy", "no_answer", "redirected"}
    BY DEF OutcomeSeverity
  <1>2. /\ outcome \notin OutcomeSeverity["critical"] \ {"no_response"}
        /\ outcome \in OutcomeSeverity["warning"] \ {"no_response"} <=> outcome = "auth_failed"
        /\ outcome \in OutcomeSeverity["info"] \ {"no_response"} <=> outcome = "busy"
    BY <1>1
  <1>3. \A s \in DOMAIN OutcomeSeverity :
           f \in Finding(outcome \in OutcomeSeverity[s] \ {"no_response"}, s, "SIP_FINAL_FAILURE")
           <=> outcome \in OutcomeSeverity[s] \ {"no_response"} /\ f = [severity |-> s, code |-> "SIP_FINAL_FAILURE"]
    BY DEF Finding
  <1> QED BY <1>1, <1>2, <1>3

\* The rules, one by one.
LEMMA RulesAre ==
  ASSUME NEW ms, NEW end, NEW f,
         Outcome(ms) \in {"answered", "auth_failed", "busy", "cancelled", "no_response", "in_progress"}
  PROVE  f \in CallRules(ms, end) <=>
            \/ Outcome(ms) = "auth_failed" /\ f = [severity |-> "warning", code |-> "SIP_FINAL_FAILURE"]
            \/ Outcome(ms) = "busy" /\ f = [severity |-> "info", code |-> "SIP_FINAL_FAILURE"]
            \/ /\ InviteResponses(ms) = {}
               /\ f = [severity |-> IF end - Started(ms) >= LongWait THEN "critical" ELSE "warning",
                       code |-> "SIP_NO_RESPONSE"]
            \/ MissingAckDialogs(ms) # {} /\ f = [severity |-> "critical", code |-> "SIP_MISSING_ACK"]
            \/ Forked(ms) /\ f = [severity |-> "info", code |-> "SIP_FORKED_ANSWER"]
            \/ AuthChallenges(ms) >= AuthLoop /\ f = [severity |-> "warning", code |-> "SIP_AUTH_LOOP"]
            \/ Retransmissions(ms) >= ManyRetransmissions /\ f = [severity |-> "warning", code |-> "SIP_RETRANSMISSIONS"]
            \/ /\ Progress(ms) # {} /\ Pdd(ms) >= PddWarning
               /\ f = [severity |-> IF Pdd(ms) >= PddCritical THEN "critical" ELSE "warning", code |-> "SIP_HIGH_PDD"]
            \/ Answered(ms) /\ ~TerminationObserved(ms) /\ f = [severity |-> "info", code |-> "SIP_TERMINATION_NOT_SEEN"]
            \/ HoldEvents(ms) # <<>> /\ f = [severity |-> "info", code |-> "SIP_HOLD"]
            \/ Transfers(ms) # {} /\ f = [severity |-> "info", code |-> "SIP_TRANSFER"]
  <1>1. PICK outcome, failures :
           /\ outcome = Outcome(ms)
           /\ failures = UNION {Finding(outcome \in OutcomeSeverity[s] \ {"no_response"}, s, "SIP_FINAL_FAILURE") :
                                    s \in DOMAIN OutcomeSeverity}
    OBVIOUS
  <1>2. f \in failures <=>
             \/ outcome = "auth_failed" /\ f = [severity |-> "warning", code |-> "SIP_FINAL_FAILURE"]
             \/ outcome = "busy" /\ f = [severity |-> "info", code |-> "SIP_FINAL_FAILURE"]
    BY <1>1, FailureIs
  <1>3. PICK silence, unacked, forked, loop, repeated, delayed, open, held, moved :
           /\ silence = Finding(InviteResponses(ms) = {}, IF end - Started(ms) >= LongWait THEN "critical" ELSE "warning",
                                "SIP_NO_RESPONSE")
           /\ unacked = Finding(MissingAckDialogs(ms) # {}, "critical", "SIP_MISSING_ACK")
           /\ forked = Finding(Forked(ms), "info", "SIP_FORKED_ANSWER")
           /\ loop = Finding(AuthChallenges(ms) >= AuthLoop, "warning", "SIP_AUTH_LOOP")
           /\ repeated = Finding(Retransmissions(ms) >= ManyRetransmissions, "warning", "SIP_RETRANSMISSIONS")
           /\ delayed = Finding(Progress(ms) # {} /\ Pdd(ms) >= PddWarning, IF Pdd(ms) >= PddCritical THEN "critical" ELSE "warning",
                                "SIP_HIGH_PDD")
           /\ open = Finding(Answered(ms) /\ ~TerminationObserved(ms), "info", "SIP_TERMINATION_NOT_SEEN")
           /\ held = Finding(HoldEvents(ms) # <<>>, "info", "SIP_HOLD")
           /\ moved = Finding(Transfers(ms) # {}, "info", "SIP_TRANSFER")
    OBVIOUS
  <1>4. CallRules(ms, end) = failures \cup silence \cup unacked \cup forked \cup loop \cup repeated
                                \cup delayed \cup open \cup (held \cup moved)
    BY <1>1, <1>3 DEF CallRules, EventRules
  <1>5. f \in silence <=> /\ InviteResponses(ms) = {}
                          /\ f = [severity |-> IF end - Started(ms) >= LongWait THEN "critical" ELSE "warning", code |-> "SIP_NO_RESPONSE"]
    BY <1>3 DEF Finding
  <1>6. f \in unacked <=> /\ MissingAckDialogs(ms) # {}
                          /\ f = [severity |-> "critical", code |-> "SIP_MISSING_ACK"]
    BY <1>3 DEF Finding
  <1>7. f \in forked <=> Forked(ms) /\ f = [severity |-> "info", code |-> "SIP_FORKED_ANSWER"]
    BY <1>3 DEF Finding
  <1>8. f \in loop <=> AuthChallenges(ms) >= AuthLoop /\ f = [severity |-> "warning", code |-> "SIP_AUTH_LOOP"]
    BY <1>3 DEF Finding
  <1>9. f \in repeated <=> /\ Retransmissions(ms) >= ManyRetransmissions
                           /\ f = [severity |-> "warning", code |-> "SIP_RETRANSMISSIONS"]
    BY <1>3 DEF Finding
  <1>10. f \in delayed <=> /\ Progress(ms) # {} /\ Pdd(ms) >= PddWarning
                           /\ f = [severity |-> IF Pdd(ms) >= PddCritical THEN "critical" ELSE "warning", code |-> "SIP_HIGH_PDD"]
    BY <1>3 DEF Finding
  <1>11. f \in open <=> /\ Answered(ms) /\ ~TerminationObserved(ms)
                        /\ f = [severity |-> "info", code |-> "SIP_TERMINATION_NOT_SEEN"]
    BY <1>3 DEF Finding
  <1>12. f \in held <=> HoldEvents(ms) # <<>> /\ f = [severity |-> "info", code |-> "SIP_HOLD"]
    BY <1>3 DEF Finding
  <1>13. f \in moved <=> Transfers(ms) # {} /\ f = [severity |-> "info", code |-> "SIP_TRANSFER"]
    BY <1>3 DEF Finding
  <1> QED BY <1>1, <1>2, <1>4, <1>5, <1>6, <1>7, <1>8, <1>9, <1>10, <1>11, <1>12, <1>13

\* What the report says of the call, in terms of what happened.
LEMMA FindingsAre ==
  ASSUME Made, Witnessed, FirstByes, FirstAnswered, Holding, Reacted, OutcomeFaithful, MissingAckFaithful,
         RetransmissionsFaithful, TransfersFaithful, NEW end \in Nat, NEW f
  PROVE  f \in CallRules(msgs, end) <=>
            \/ phase = "challenged" /\ f = [severity |-> "warning", code |-> "SIP_FINAL_FAILURE"]
            \/ phase = "486" /\ f = [severity |-> "info", code |-> "SIP_FINAL_FAILURE"]
            \/ /\ Silent
               /\ f = [severity |-> IF end > LongWait THEN "critical" ELSE "warning", code |-> "SIP_NO_RESPONSE"]
            \/ ToSet(answers) \ acked # {} /\ f = [severity |-> "critical", code |-> "SIP_MISSING_ACK"]
            \/ Forked(msgs) /\ f = [severity |-> "info", code |-> "SIP_FORKED_ANSWER"]
            \/ AuthChallenges(msgs) >= AuthLoop /\ f = [severity |-> "warning", code |-> "SIP_AUTH_LOOP"]
            \/ repeats >= ManyRetransmissions /\ f = [severity |-> "warning", code |-> "SIP_RETRANSMISSIONS"]
            \/ /\ Reactions # {} /\ ReactionDelay >= PddWarning
               /\ f = [severity |-> IF ReactionDelay >= PddCritical THEN "critical" ELSE "warning",
                       code |-> "SIP_HIGH_PDD"]
            \/ answers # <<>> /\ byes = <<>> /\ f = [severity |-> "info", code |-> "SIP_TERMINATION_NOT_SEEN"]
            \/ Contains(offered, "hold") /\ f = [severity |-> "info", code |-> "SIP_HOLD"]
            \/ refers # {} /\ f = [severity |-> "info", code |-> "SIP_TRANSFER"]
  <1>1. PICK outcome : outcome = Outcome(msgs)
    OBVIOUS
  <1>2. /\ outcome \in {"answered", "auth_failed", "busy", "cancelled", "no_response", "in_progress"}
        /\ outcome = "auth_failed" <=> phase = "challenged"
        /\ outcome = "busy" <=> phase = "486"
    <2>1. phase \in {"calling", "challenged", "answered", "486", "487"}
      BY DEF Made, State, Typed
    <2> QED BY <1>1, <2>1 DEF OutcomeFaithful
  <1>3. InviteResponses(msgs) = {} <=> Silent
    BY SilenceIs DEF Places, Silent
  <1>4. end - Started(msgs) >= LongWait <=> end > LongWait
    BY StartIs, ReportAssumption
  <1>5. MissingAckDialogs(msgs) = ToSet(answers) \ acked /\ Retransmissions(msgs) = repeats
    BY DEF MissingAckFaithful, RetransmissionsFaithful
  <1>6. Transfers(msgs) # {} <=> refers # {}
    BY ZenonT(30) DEF TransfersFaithful
  <1>7. /\ Progress(msgs) # {} <=> Reactions # {}
        /\ Reactions # {} => Pdd(msgs) = ReactionDelay
    BY ReactionsAre DEF ReactionDelay
  <1>8. Answered(msgs) /\ ~TerminationObserved(msgs) <=> answers # <<>> /\ byes = <<>>
    BY AnsweredIs, TerminationIs
  <1>9. HoldEvents(msgs) # <<>> <=> Contains(offered, "hold")
    BY HoldIs
  <1>10. f \in CallRules(msgs, end) <=>
            \/ outcome = "auth_failed" /\ f = [severity |-> "warning", code |-> "SIP_FINAL_FAILURE"]
            \/ outcome = "busy" /\ f = [severity |-> "info", code |-> "SIP_FINAL_FAILURE"]
            \/ /\ InviteResponses(msgs) = {}
               /\ f = [severity |-> IF end - Started(msgs) >= LongWait THEN "critical" ELSE "warning",
                       code |-> "SIP_NO_RESPONSE"]
            \/ MissingAckDialogs(msgs) # {} /\ f = [severity |-> "critical", code |-> "SIP_MISSING_ACK"]
            \/ Forked(msgs) /\ f = [severity |-> "info", code |-> "SIP_FORKED_ANSWER"]
            \/ AuthChallenges(msgs) >= AuthLoop /\ f = [severity |-> "warning", code |-> "SIP_AUTH_LOOP"]
            \/ /\ Retransmissions(msgs) >= ManyRetransmissions
               /\ f = [severity |-> "warning", code |-> "SIP_RETRANSMISSIONS"]
            \/ /\ Progress(msgs) # {} /\ Pdd(msgs) >= PddWarning
               /\ f = [severity |-> IF Pdd(msgs) >= PddCritical THEN "critical" ELSE "warning",
                       code |-> "SIP_HIGH_PDD"]
            \/ /\ Answered(msgs) /\ ~TerminationObserved(msgs)
               /\ f = [severity |-> "info", code |-> "SIP_TERMINATION_NOT_SEEN"]
            \/ HoldEvents(msgs) # <<>> /\ f = [severity |-> "info", code |-> "SIP_HOLD"]
            \/ Transfers(msgs) # {} /\ f = [severity |-> "info", code |-> "SIP_TRANSFER"]
    BY <1>1, <1>2, RulesAre
  <1>11. \/ end > LongWait /\ end - Started(msgs) >= LongWait
         \/ ~(end > LongWait) /\ ~(end - Started(msgs) >= LongWait)
    BY <1>4
  <1>12. (IF end - Started(msgs) >= LongWait THEN "critical" ELSE "warning")
         = (IF end > LongWait THEN "critical" ELSE "warning")
    BY <1>11
  <1> QED BY ONLY <1>2, <1>3, <1>5, <1>6, <1>7, <1>8, <1>9, <1>10, <1>12

\* The findings that the property calls alarms.
Alarming(f) ==
    /\ f.severity # "info" /\ f.code # "SIP_AUTH_LOOP"
    /\ f.code = "SIP_HIGH_PDD" => Unchallenged

\* The same, in words of the property.
LEMMA AlarmsAre ==
  ASSUME Made, Witnessed, FirstByes, FirstAnswered, Holding, Reacted, OutcomeFaithful, MissingAckFaithful,
         RetransmissionsFaithful, TransfersFaithful, NEW end \in Nat
  PROVE  Alarms(CallRules(msgs, end)) = Trouble(end)
  <1>1. PICK refused, quiet, unacked, repeated, delayed :
           /\ refused = Finding(phase = "challenged", "warning", "SIP_FINAL_FAILURE")
           /\ quiet = Finding(Silent, IF end > LongWait THEN "critical" ELSE "warning", "SIP_NO_RESPONSE")
           /\ unacked = Finding(ToSet(answers) \ acked # {}, "critical", "SIP_MISSING_ACK")
           /\ repeated = Finding(repeats >= ManyRetransmissions, "warning", "SIP_RETRANSMISSIONS")
           /\ delayed = Finding(Unchallenged /\ Progressed # {} /\ Waited(end) >= PddWarning,
                                IF Waited(end) >= PddCritical THEN "critical" ELSE "warning", "SIP_HIGH_PDD")
    OBVIOUS
  <1>2. ASSUME NEW f
        PROVE  f \in CallRules(msgs, end) /\ Alarming(f)
               <=> f \in refused \cup quiet \cup unacked \cup repeated \cup delayed
    <2>1. f \in refused <=> phase = "challenged" /\ f = [severity |-> "warning", code |-> "SIP_FINAL_FAILURE"]
      BY <1>1 DEF Finding
    <2>2. f \in quiet <=> /\ Silent
                          /\ f = [severity |-> IF end > LongWait THEN "critical" ELSE "warning",
                                  code |-> "SIP_NO_RESPONSE"]
      BY <1>1 DEF Finding
    <2>3. f \in unacked <=> ToSet(answers) \ acked # {} /\ f = [severity |-> "critical", code |-> "SIP_MISSING_ACK"]
      BY <1>1 DEF Finding
    <2>4. f \in repeated <=> /\ repeats >= ManyRetransmissions
                             /\ f = [severity |-> "warning", code |-> "SIP_RETRANSMISSIONS"]
      BY <1>1 DEF Finding
    <2>5. f \in delayed <=> /\ Unchallenged /\ Reactions # {} /\ ReactionDelay >= PddWarning
                            /\ f = [severity |-> IF ReactionDelay >= PddCritical THEN "critical" ELSE "warning",
                                    code |-> "SIP_HIGH_PDD"]
      <3>1. f \in delayed <=> /\ Unchallenged /\ Progressed # {} /\ Waited(end) >= PddWarning
                              /\ f = [severity |-> IF Waited(end) >= PddCritical THEN "critical" ELSE "warning",
                                      code |-> "SIP_HIGH_PDD"]
        BY <1>1 DEF Finding
      <3>2. Progressed # {} => Reactions # {}
        BY DEF Progressed, Reactions
      <3>3. Unchallenged /\ Reactions # {} => Progressed # {} /\ Waited(end) = ReactionDelay
        BY WaitIs
      <3> QED BY ONLY <3>1, <3>2, <3>3
    <2>6. f \in CallRules(msgs, end) <=>
            \/ phase = "challenged" /\ f = [severity |-> "warning", code |-> "SIP_FINAL_FAILURE"]
            \/ phase = "486" /\ f = [severity |-> "info", code |-> "SIP_FINAL_FAILURE"]
            \/ /\ Silent
               /\ f = [severity |-> IF end > LongWait THEN "critical" ELSE "warning", code |-> "SIP_NO_RESPONSE"]
            \/ ToSet(answers) \ acked # {} /\ f = [severity |-> "critical", code |-> "SIP_MISSING_ACK"]
            \/ Forked(msgs) /\ f = [severity |-> "info", code |-> "SIP_FORKED_ANSWER"]
            \/ AuthChallenges(msgs) >= AuthLoop /\ f = [severity |-> "warning", code |-> "SIP_AUTH_LOOP"]
            \/ repeats >= ManyRetransmissions /\ f = [severity |-> "warning", code |-> "SIP_RETRANSMISSIONS"]
            \/ /\ Reactions # {} /\ ReactionDelay >= PddWarning
               /\ f = [severity |-> IF ReactionDelay >= PddCritical THEN "critical" ELSE "warning", code |-> "SIP_HIGH_PDD"]
            \/ answers # <<>> /\ byes = <<>> /\ f = [severity |-> "info", code |-> "SIP_TERMINATION_NOT_SEEN"]
            \/ Contains(offered, "hold") /\ f = [severity |-> "info", code |-> "SIP_HOLD"]
            \/ refers # {} /\ f = [severity |-> "info", code |-> "SIP_TRANSFER"]
      BY FindingsAre
    <2>7. \A s, c : f = [severity |-> s, code |-> c] => f.severity = s /\ f.code = c
      OBVIOUS
    <2> QED BY ONLY <2>1, <2>2, <2>3, <2>4, <2>5, <2>6, <2>7 DEF Alarming
  <1>3. Trouble(end) = refused \cup quiet \cup unacked \cup repeated \cup delayed
    BY <1>1 DEF Trouble
  <1> QED BY <1>2, <1>3 DEF Alarms, Alarming

\* The findings that are no alarms, by their code.
LEMMA CodesAre ==
  ASSUME Made, Witnessed, FirstByes, FirstAnswered, Holding, Reacted, OutcomeFaithful, MissingAckFaithful,
         RetransmissionsFaithful, TransfersFaithful, NEW end \in Nat, NEW code
  PROVE  (\E f \in CallRules(msgs, end) : ~Alarming(f) /\ f.code = code)
         <=> \/ code = "SIP_FINAL_FAILURE" /\ phase = "486"
             \/ code = "SIP_FORKED_ANSWER" /\ Forked(msgs)
             \/ code = "SIP_AUTH_LOOP" /\ AuthChallenges(msgs) >= AuthLoop
             \/ code = "SIP_HIGH_PDD" /\ ~Unchallenged /\ Reactions # {} /\ ReactionDelay >= PddWarning
             \/ code = "SIP_TERMINATION_NOT_SEEN" /\ answers # <<>> /\ byes = <<>>
             \/ code = "SIP_HOLD" /\ Contains(offered, "hold")
             \/ code = "SIP_TRANSFER" /\ refers # {}
  <1>1. \A f, s, c : f = [severity |-> s, code |-> c] => f.severity = s /\ f.code = c
    OBVIOUS
  <1>2. ASSUME NEW f \in CallRules(msgs, end), ~Alarming(f), f.code = code
        PROVE  \/ code = "SIP_FINAL_FAILURE" /\ phase = "486"
               \/ code = "SIP_FORKED_ANSWER" /\ Forked(msgs)
               \/ code = "SIP_AUTH_LOOP" /\ AuthChallenges(msgs) >= AuthLoop
               \/ code = "SIP_HIGH_PDD" /\ ~Unchallenged /\ Reactions # {} /\ ReactionDelay >= PddWarning
               \/ code = "SIP_TERMINATION_NOT_SEEN" /\ answers # <<>> /\ byes = <<>>
               \/ code = "SIP_HOLD" /\ Contains(offered, "hold")
               \/ code = "SIP_TRANSFER" /\ refers # {}
    BY <1>1, <1>2, FindingsAre DEF Alarming
  <1>3. ASSUME phase = "486", code = "SIP_FINAL_FAILURE"
        PROVE  \E f \in CallRules(msgs, end) : ~Alarming(f) /\ f.code = code
    <2>1. PICK f : f = [severity |-> "info", code |-> "SIP_FINAL_FAILURE"]
      OBVIOUS
    <2>2. f \in CallRules(msgs, end)
      BY <1>3, <2>1, FindingsAre
    <2> QED BY <1>3, <2>1, <2>2 DEF Alarming
  <1>4. ASSUME Forked(msgs), code = "SIP_FORKED_ANSWER"
        PROVE  \E f \in CallRules(msgs, end) : ~Alarming(f) /\ f.code = code
    <2>1. PICK f : f = [severity |-> "info", code |-> "SIP_FORKED_ANSWER"]
      OBVIOUS
    <2>2. f \in CallRules(msgs, end)
      BY <1>4, <2>1, FindingsAre
    <2> QED BY <1>4, <2>1, <2>2 DEF Alarming
  <1>5. ASSUME AuthChallenges(msgs) >= AuthLoop, code = "SIP_AUTH_LOOP"
        PROVE  \E f \in CallRules(msgs, end) : ~Alarming(f) /\ f.code = code
    <2>1. PICK f : f = [severity |-> "warning", code |-> "SIP_AUTH_LOOP"]
      OBVIOUS
    <2>2. f \in CallRules(msgs, end)
      BY <1>5, <2>1, FindingsAre
    <2> QED BY <1>5, <2>1, <2>2 DEF Alarming
  <1>6. ASSUME answers # <<>>, byes = <<>>, code = "SIP_TERMINATION_NOT_SEEN"
        PROVE  \E f \in CallRules(msgs, end) : ~Alarming(f) /\ f.code = code
    <2>1. PICK f : f = [severity |-> "info", code |-> "SIP_TERMINATION_NOT_SEEN"]
      OBVIOUS
    <2>2. f \in CallRules(msgs, end)
      BY <1>6, <2>1, FindingsAre
    <2> QED BY <1>6, <2>1, <2>2 DEF Alarming
  <1>7. ASSUME Contains(offered, "hold"), code = "SIP_HOLD"
        PROVE  \E f \in CallRules(msgs, end) : ~Alarming(f) /\ f.code = code
    <2>1. PICK f : f = [severity |-> "info", code |-> "SIP_HOLD"]
      OBVIOUS
    <2>2. f \in CallRules(msgs, end)
      BY <1>7, <2>1, FindingsAre
    <2> QED BY <1>7, <2>1, <2>2 DEF Alarming
  <1>8. ASSUME refers # {}, code = "SIP_TRANSFER"
        PROVE  \E f \in CallRules(msgs, end) : ~Alarming(f) /\ f.code = code
    <2>1. PICK f : f = [severity |-> "info", code |-> "SIP_TRANSFER"]
      OBVIOUS
    <2>2. f \in CallRules(msgs, end)
      BY <1>8, <2>1, FindingsAre
    <2> QED BY <1>8, <2>1, <2>2 DEF Alarming
  <1>9. ASSUME ~Unchallenged, Reactions # {}, ReactionDelay >= PddWarning, code = "SIP_HIGH_PDD"
        PROVE  \E f \in CallRules(msgs, end) : ~Alarming(f) /\ f.code = code
    <2>1. PICK f : f = [severity |-> IF ReactionDelay >= PddCritical THEN "critical" ELSE "warning",
                        code |-> "SIP_HIGH_PDD"]
      OBVIOUS
    <2>2. f \in CallRules(msgs, end)
      BY <1>9, <2>1, FindingsAre
    <2> QED BY <1>9, <2>1, <2>2 DEF Alarming
  <1> QED BY <1>2, <1>3, <1>4, <1>5, <1>6, <1>7, <1>8, <1>9

\* _call_rules tells the trouble the call had and no other.
THEOREM DiagnosisIsFaithful == SignallingSpec => []DiagnosisFaithful
  <1>1. ASSUME Made, Witnessed, FirstByes, FirstAnswered, Holding, Reacted, OutcomeFaithful, MissingAckFaithful,
               RetransmissionsFaithful, TransfersFaithful
        PROVE  DiagnosisFaithful
    <2>1. /\ Len(msgs) \in Nat /\ Len(msgs) + LongWait \in Nat
          /\ Len(msgs) <= Len(msgs) /\ Len(msgs) <= Len(msgs) + LongWait
      BY <1>1, ReportAssumption DEF Made, Captured
    <2>2. /\ AuthChallenges(msgs) \in Loops .. Loops + repeats /\ Loops \in Int /\ repeats \in Nat
          /\ AuthLoop \in Nat
      BY <1>1, ReportAssumption DEF OutcomeFaithful, Made, State, Typed, Loops
    <2>3. /\ Loops >= AuthLoop => AuthChallenges(msgs) >= AuthLoop
          /\ AuthChallenges(msgs) >= AuthLoop => Loops + repeats >= AuthLoop
      BY <2>2
    <2>4. ASSUME NEW end \in Nat, Len(msgs) <= end, NEW findings, NEW codes,
                 findings = CallRules(msgs, end), codes = {f.code : f \in findings \ Alarms(findings)}
          PROVE  /\ Alarms(findings) = Trouble(end)
                 /\ Loops >= AuthLoop => "SIP_AUTH_LOOP" \in codes
                 /\ "SIP_AUTH_LOOP" \in codes => Loops + repeats >= AuthLoop
                 /\ "SIP_HIGH_PDD" \in codes => ~Unchallenged /\ Waited(end) >= PddWarning
                 /\ "SIP_FINAL_FAILURE" \in codes <=> phase = "486"
                 /\ "SIP_TERMINATION_NOT_SEEN" \in codes <=> answers # <<>> /\ byes = <<>>
                 /\ "SIP_HOLD" \in codes <=> Contains(offered, "hold")
                 /\ "SIP_TRANSFER" \in codes <=> refers # {}
      <3>1. Alarms(findings) = Trouble(end)
        BY <1>1, <2>4, AlarmsAre
      <3>2. ASSUME NEW code
            PROVE  code \in codes <=>
                     \/ code = "SIP_FINAL_FAILURE" /\ phase = "486"
                     \/ code = "SIP_FORKED_ANSWER" /\ Forked(msgs)
                     \/ code = "SIP_AUTH_LOOP" /\ AuthChallenges(msgs) >= AuthLoop
                     \/ code = "SIP_HIGH_PDD" /\ ~Unchallenged /\ Reactions # {} /\ ReactionDelay >= PddWarning
                     \/ code = "SIP_TERMINATION_NOT_SEEN" /\ answers # <<>> /\ byes = <<>>
                     \/ code = "SIP_HOLD" /\ Contains(offered, "hold")
                     \/ code = "SIP_TRANSFER" /\ refers # {}
        <4>1. code \in codes <=> \E f \in CallRules(msgs, end) :
                                   ~Alarming(f) /\ f.code = code
          BY <2>4 DEF Alarms, Alarming
        <4> QED BY <1>1, <4>1, CodesAre
      <3>3. Reactions # {} /\ ReactionDelay >= PddWarning => Waited(end) >= PddWarning
        BY <1>1, <2>4, WaitIs, ReportAssumption
      <3> QED BY <2>3, <3>1, <3>2, <3>3
    <2> QED BY <2>1, <2>4 DEF DiagnosisFaithful
  <1> QED BY <1>1, ObservedAlways, EndsAlways, HoldingAlways, ReactedAlways, OutcomeIsFaithful, MissingAckIsFaithful,
         RetransmissionsAreFaithful, TransfersAreFaithful, PTL
=============================================================================
