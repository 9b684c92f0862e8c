------------------------- MODULE RequestContract -------------------------
(***************************************************************************)
(* What the middleware chain of internal/server and internal/middleware     *)
(* promises for one request, with no middleware, recorder or panic in       *)
(* sight: the request is given exactly one response status, and then an     *)
(* access record with that very status is written.                          *)
(***************************************************************************)
CONSTANTS
    Requests,   \* the requests the server receives
    Codes,      \* the statuses a response may have
    Unset       \* no status yet, not one of Codes

VARIABLES
    answer,     \* the status the client is given
    record      \* the status in the access log

vars == <<answer, record>>

Init ==
    /\ answer = [r \in Requests |-> Unset]
    /\ record = [r \in Requests |-> Unset]

\* The response is given its status, once and for all.
Answer(r) ==
    /\ answer[r] = Unset
    /\ \E code \in Codes : answer' = [answer EXCEPT ![r] = code]
    /\ UNCHANGED record

\* The access log records the status that was given.
Record(r) ==
    /\ answer[r] # Unset
    /\ record[r] = Unset
    /\ record' = [record EXCEPT ![r] = answer[r]]
    /\ UNCHANGED answer

Next == \E r \in Requests : Answer(r) \/ Record(r)

Safety == Init /\ [][Next]_vars

\* An answered request is recorded: nothing can keep the record back for good.
Spec == Safety /\ \A r \in Requests : WF_vars(Record(r))
==========================================================================
