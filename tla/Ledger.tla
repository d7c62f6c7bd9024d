------------------------------- MODULE Ledger -------------------------------
(***************************************************************************)
(* What the history of procflowd promises its readers, with no tables,     *)
(* watermarks or threads: three ledgers that every recorded chunk enters   *)
(* at the same moment and once.  The hour and day ledgers may forget, the  *)
(* month ledger never does, and nothing else changes what they say.        *)
(***************************************************************************)
CONSTANT Chunk

VARIABLES hour, day, month

Init == hour = {} /\ day = {} /\ month = {}

Record(c) ==
    /\ c \notin month
    /\ hour' = hour \cup {c} /\ day' = day \cup {c} /\ month' = month \cup {c}

Forget ==
    /\ hour' \subseteq hour /\ day' \subseteq day
    /\ UNCHANGED month

Next == Forget \/ \E c \in Chunk : Record(c)

Spec == Init /\ [][Next]_<<hour, day, month>>
=============================================================================
