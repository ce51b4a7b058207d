----------------------------- MODULE LossLedger -----------------------------
(***************************************************************************)
(* What the loss accounting of one RTP stream promises (README.md of the   *)
(* repository, "Perda RTP"): every packet that reaches the sensor is a new *)
(* packet, a late one or a duplicate, judged by the number the sender gave *)
(* it before that number was cut to 16 bits.  RtpSequence, which only sees *)
(* the cut numbers, is shown to implement this ledger.                     *)
(***************************************************************************)
EXTENDS Integers

VARIABLES got,         \* the packets that have reached the sensor
          latest,      \* the greatest of them (None before the first)
          duplicates,  \* arrivals of a packet that had arrived before
          late         \* first arrivals that came after a greater packet

CONSTANTS None,
          Packets  \* the numbers the sender uses, before they are cut

ledgerVars == <<got, latest, duplicates, late>>

Init == got = {} /\ latest = None /\ duplicates = 0 /\ late = 0

New(n) ==
    /\ n \notin got
    /\ latest = None \/ n > latest
    /\ got' = got \cup {n}
    /\ latest' = n
    /\ UNCHANGED <<duplicates, late>>

Late(n) ==
    /\ n \notin got
    /\ latest # None /\ n < latest
    /\ got' = got \cup {n}
    /\ late' = late + 1
    /\ UNCHANGED <<latest, duplicates>>

Duplicate(n) ==
    /\ n \in got
    /\ duplicates' = duplicates + 1
    /\ UNCHANGED <<got, latest, late>>

Next == \E n \in Packets : New(n) \/ Late(n) \/ Duplicate(n)

Spec == Init /\ [][Next]_ledgerVars
=============================================================================
