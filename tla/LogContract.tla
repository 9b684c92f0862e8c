--------------------------- MODULE LogContract ---------------------------
(***************************************************************************)
(* What the logger promises of the records it is given, with no stream,     *)
(* mutex or short write in sight: each is delivered whole, or dropped and   *)
(* counted, and one of the two happens.                                     *)
(***************************************************************************)
EXTENDS Naturals

CONSTANT Records

VARIABLES
    given,      \* the records the logger was called with
    delivered,  \* those that can be read in full
    dropped,    \* those that cannot
    count       \* the drop counter

vars == <<given, delivered, dropped, count>>

Open == given \ (delivered \cup dropped)

Init == given = {} /\ delivered = {} /\ dropped = {} /\ count = 0

Give(rec) ==
    /\ rec \notin given
    /\ given' = given \cup {rec}
    /\ UNCHANGED <<delivered, dropped, count>>

Deliver(rec) ==
    /\ rec \in Open
    /\ delivered' = delivered \cup {rec}
    /\ UNCHANGED <<given, dropped, count>>

Drop(rec) ==
    /\ rec \in Open
    /\ dropped' = dropped \cup {rec}
    /\ count' = count + 1
    /\ UNCHANGED <<given, delivered>>

Next == \E rec \in Records : Give(rec) \/ Deliver(rec) \/ Drop(rec)

Safety == Init /\ [][Next]_vars

Spec == Safety /\ \A rec \in Records : WF_vars(Deliver(rec) \/ Drop(rec))
==========================================================================
