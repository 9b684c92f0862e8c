---------------------------- MODULE Readiness ----------------------------
(***************************************************************************)
(* GET /health/ready: each probe pings the database through the connection  *)
(* pool under a deadline of two seconds, while the database comes and goes, *)
(* clients leave, and run() ends and closes the pool.                       *)
(*                                                                          *)
(* The pool (pgxpool over puddle) is external and modelled by what the      *)
(* handler relies on: Ping takes an idle connection, dials a new one in one *)
(* of MaxConns places, or waits for a place; a ping whose context ends      *)
(* closes its connection; a dial goes on when nobody waits for it any more; *)
(* Close ends dials and waits for connections in use.                       *)
(***************************************************************************)
CONSTANTS
    Probes,     \* requests for /health/ready that may be in at once
    Conns,      \* places for a connection: MaxConns of them
    Nobody

ASSUME ReadinessAssumption == Conns # {} /\ Nobody \notin Probes

VARIABLES
    db,         \* "up", "hung" (nothing is answered) or "down" (refuses)
    main,       \* run(): "serving", "closing" (the deferred Close) or "ended"
    conn,       \* a place: "none", "dialing", "idle" or "used"
    holder,     \* the probe that uses a connection or waits for its dial
    alive,      \* connections whose session the database still has
    stage,      \* a probe: "away", "acquiring", "dialing" or "pinging"
    ctx,        \* its context: "live", "late" (deadline) or "left" (client)
    answer,     \* what it got: "none", "ok" (200), or 503 with the record
                \* "failed" or "timed out"
    heard       \* whether the database answered it (for the properties)

pool == <<conn, holder, alive>>
probes == <<stage, ctx, answer, heard>>
vars == <<db, main, pool, probes>>

\* db.Open has pinged the database once.
Init ==
    /\ db = "up"
    /\ main = "serving"
    /\ \E first \in Conns :
          /\ conn = [c \in Conns |-> IF c = first THEN "idle" ELSE "none"]
          /\ alive = {first}
    /\ holder = [c \in Conns |-> Nobody]
    /\ stage = [p \in Probes |-> "away"]
    /\ ctx = [p \in Probes |-> "live"]
    /\ answer = [p \in Probes |-> "none"]
    /\ heard = [p \in Probes |-> FALSE]

---------------------------------------------------------------------------
(* The handler.                                                             *)

\* Mutant: one context with a timeout made with the handler, for all requests.
NewContextShared(p) == UNCHANGED ctx

\* context.WithTimeout(r.Context(), readyTimeout), for each request.
NewContext(p) == ctx' = [ctx EXCEPT ![p] = "live"]

\* A request reaches the handler.  It may do so while run() is returning.
Arrive(p) ==
    /\ stage[p] = "away" /\ main # "ended"
    /\ stage' = [stage EXCEPT ![p] = "acquiring"]
    /\ NewContext(p)
    /\ answer' = [answer EXCEPT ![p] = "none"]
    /\ heard' = [heard EXCEPT ![p] = FALSE]
    /\ UNCHANGED <<db, main, pool>>

\* Mutant: the request's own context, which has no deadline.
DeadlineNever(p) == FALSE

\* The two seconds are over; a context that has ended keeps its reason.
Deadline(p) ==
    /\ stage[p] # "away" /\ ctx[p] = "live"
    /\ ctx' = [ctx EXCEPT ![p] = "late"]
    /\ UNCHANGED <<db, main, pool, stage, answer, heard>>

\* The client of the probe goes away.
ClientLeaves(p) ==
    /\ stage[p] # "away" /\ ctx[p] = "live"
    /\ ctx' = [ctx EXCEPT ![p] = "left"]
    /\ UNCHANGED <<db, main, pool, stage, answer, heard>>

\* Mutant: a ping that ran out of time is no news about the database.
StatusForLenient(err) == IF err = "failed" THEN "failed" ELSE "ok"

\* 200 without an error, else 503 with a record that tells the deadline apart.
StatusFor(err) == IF err = "none" THEN "ok" ELSE err

\* pool.Ping has returned: the handler answers and returns.
Answer(p, err) ==
    /\ stage' = [stage EXCEPT ![p] = "away"]
    /\ answer' = [answer EXCEPT ![p] = StatusFor(err)]
    /\ UNCHANGED ctx

---------------------------------------------------------------------------
(* The pool.                                                                *)

Moved(p, s) ==
    /\ stage' = [stage EXCEPT ![p] = s]
    /\ UNCHANGED <<ctx, answer, heard>>

Occupy(c, state, p) ==
    /\ conn' = [conn EXCEPT ![c] = state]
    /\ holder' = [holder EXCEPT ![c] = p]

\* A connection is given up: closed, or put back while the pool is open.
Destroy(c) == Occupy(c, "none", Nobody) /\ alive' = alive \ {c}
Release(c) ==
    IF main = "serving" THEN Occupy(c, "idle", Nobody) /\ UNCHANGED alive
    ELSE Destroy(c)

\* An idle connection is taken.
TakeIdle(p, c) ==
    /\ stage[p] = "acquiring" /\ ctx[p] = "live" /\ main = "serving"
    /\ conn[c] = "idle"
    /\ Occupy(c, "used", p)
    /\ Moved(p, "pinging")
    /\ UNCHANGED <<db, main, alive>>

\* One that was idle for a second and turns out to be dead is replaced.
Discard(p, c) ==
    /\ stage[p] = "acquiring" /\ ctx[p] = "live" /\ main = "serving"
    /\ conn[c] = "idle" /\ c \notin alive
    /\ Destroy(c)
    /\ UNCHANGED <<db, main, probes>>

\* With no idle connection, a free place is used for a new one.
Dial(p, c) ==
    /\ stage[p] = "acquiring" /\ ctx[p] = "live" /\ main = "serving"
    /\ conn[c] = "none" /\ \A d \in Conns : conn[d] # "idle"
    /\ Occupy(c, "dialing", p)
    /\ Moved(p, "dialing")
    /\ UNCHANGED <<db, main, alive>>

\* The session is there, for the probe that waits or for the pool.
Connected(c) ==
    /\ conn[c] = "dialing" /\ db = "up" /\ main = "serving"
    /\ alive' = alive \cup {c}
    /\ \/ /\ holder[c] = Nobody
          /\ Occupy(c, "idle", Nobody)
          /\ UNCHANGED probes
       \/ /\ holder[c] # Nobody
          /\ Occupy(c, "used", holder[c])
          /\ Moved(holder[c], "pinging")
    /\ UNCHANGED <<db, main>>

\* It is refused, gives up after minutes, or the pool is being closed.
DialFails(c) ==
    /\ conn[c] = "dialing" /\ (db # "up" \/ main # "serving")
    /\ Destroy(c)
    /\ IF holder[c] = Nobody THEN UNCHANGED <<stage, answer, ctx>>
       ELSE Answer(holder[c], "failed")
    /\ UNCHANGED <<db, main, heard>>

PingAnswered(p, c) ==
    /\ stage[p] = "pinging" /\ holder[c] = p
    /\ c \in alive /\ db = "up"
    /\ heard' = [heard EXCEPT ![p] = TRUE]
    /\ Release(c)
    /\ Answer(p, "none")
    /\ UNCHANGED <<db, main>>

PingFails(p, c) ==
    /\ stage[p] = "pinging" /\ holder[c] = p
    /\ c \notin alive /\ db # "hung"
    /\ Destroy(c)
    /\ Answer(p, "failed")
    /\ UNCHANGED <<db, main, heard>>

ErrorOf(p) == IF ctx[p] = "late" THEN "timed out" ELSE "failed"

\* Mutant: the handler stops waiting and leaves the ping to itself.
CancelledLeaving(p) ==
    /\ stage[p] # "away" /\ ctx[p] # "live"
    /\ Answer(p, ErrorOf(p))
    /\ UNCHANGED <<db, main, pool, heard>>

\* The context ends first.  A connection in use is closed; a dial goes on.
Cancelled(p) ==
    /\ stage[p] # "away" /\ ctx[p] # "live"
    /\ conn' = [c \in Conns |->
                  IF holder[c] = p /\ conn[c] = "used" THEN "none" ELSE conn[c]]
    /\ holder' = [c \in Conns |-> IF holder[c] = p THEN Nobody ELSE holder[c]]
    /\ alive' = alive \ {c \in Conns : holder[c] = p}
    /\ Answer(p, ErrorOf(p))
    /\ UNCHANGED <<db, main, heard>>

\* The pool is closed: ErrClosedPool.
PoolClosed(p) ==
    /\ stage[p] = "acquiring" /\ main # "serving"
    /\ Answer(p, "failed")
    /\ UNCHANGED <<db, main, pool, heard>>

\* The pool's health check: MinConns are kept, old connections are closed.
Refill(c) ==
    /\ conn[c] = "none" /\ main = "serving"
    /\ Occupy(c, "dialing", Nobody)
    /\ UNCHANGED <<db, main, alive, probes>>

Reap(c) ==
    /\ conn[c] = "idle" /\ main = "serving"
    /\ Destroy(c)
    /\ UNCHANGED <<db, main, probes>>

---------------------------------------------------------------------------
(* The database and run().                                                  *)

\* A database that goes down forgets its sessions; one that hangs keeps them.
DbChanges(s) ==
    /\ db' = s
    /\ alive' = IF s = "down" THEN {} ELSE alive
    /\ UNCHANGED <<main, conn, holder, probes>>

\* ListenAndServe returns an error: pool.Close closes what is idle.
ServerFails ==
    /\ main = "serving"
    /\ main' = "closing"
    /\ conn' = [c \in Conns |-> IF conn[c] = "idle" THEN "none" ELSE conn[c]]
    /\ alive' = alive \ {c \in Conns : conn[c] = "idle"}
    /\ UNCHANGED <<db, holder, probes>>

\* Close returns once no connection is left, and with it run().
Closed ==
    /\ main = "closing" /\ \A c \in Conns : conn[c] = "none"
    /\ main' = "ended"
    /\ UNCHANGED <<db, pool, probes>>

Acquires(p) == \E c \in Conns : TakeIdle(p, c) \/ Discard(p, c) \/ Dial(p, c)
Returns(p) == \E c \in Conns : PingAnswered(p, c) \/ PingFails(p, c)
DialEnds(c) == Connected(c) \/ DialFails(c)

Next ==
    \/ \E p \in Probes :
          \/ Arrive(p) \/ Deadline(p) \/ ClientLeaves(p)
          \/ Acquires(p) \/ Returns(p) \/ Cancelled(p) \/ PoolClosed(p)
    \/ \E c \in Conns : DialEnds(c) \/ Refill(c) \/ Reap(c)
    \/ \E s \in {"up", "hung", "down"} : DbChanges(s)
    \/ ServerFails \/ Closed

Safety == Init /\ [][Next]_vars

\* Timers fire, what has an answer gets it, dials end, Close returns.  Nothing
\* is assumed of the database, the clients and the health check.
Spec ==
    /\ Safety
    /\ \A p \in Probes :
          /\ WF_vars(Deadline(p)) /\ WF_vars(Cancelled(p))
          /\ WF_vars(Acquires(p)) /\ WF_vars(Returns(p)) /\ WF_vars(PoolClosed(p))
    /\ \A c \in Conns : WF_vars(DialEnds(c))
    /\ WF_vars(Closed)

---------------------------------------------------------------------------
(* Properties.                                                              *)

Held(p, c) == holder[c] = p /\ conn[c] = IF stage[p] = "pinging" THEN "used" ELSE "dialing"

PoolOK ==
    /\ conn \in [Conns -> {"none", "dialing", "idle", "used"}]
    /\ holder \in [Conns -> Probes \cup {Nobody}]
    /\ alive \subseteq {c \in Conns : conn[c] \in {"idle", "used"}}
    /\ \A c \in Conns :
          /\ conn[c] = "used" => holder[c] # Nobody
          /\ holder[c] # Nobody =>
                /\ Held(holder[c], c)
                /\ stage[holder[c]] \in {"dialing", "pinging"}
                /\ \A d \in Conns : holder[d] = holder[c] => d = c

(* The variables stay in their types; a connection is in use, or dialed for a
   probe, only while its holder waits for it, and a probe has one at most. *)
TypeOK ==
    /\ db \in {"up", "hung", "down"}
    /\ main \in {"serving", "closing", "ended"}
    /\ stage \in [Probes -> {"away", "acquiring", "dialing", "pinging"}]
    /\ ctx \in [Probes -> {"live", "late", "left"}]
    /\ answer \in [Probes -> {"none", "ok", "failed", "timed out"}]
    /\ heard \in [Probes -> BOOLEAN]
    /\ PoolOK

(* 200 is answered only when the database answered during this very request,
   and the record says "timed out" only of a probe whose deadline passed,
   whatever was cancelled, reused or dialed for another probe. *)
AnswersAreTrue ==
    \A p \in Probes :
        /\ answer[p] = "ok" => heard[p]
        /\ answer[p] = "timed out" => ctx[p] = "late"

(* No probe stays, whatever the database does ("so that probes do not pile
   up", ready.go:15): not when it hangs, not behind other probes. *)
ProbesEnd == \A p \in Probes : stage[p] # "away" ~> stage[p] = "away"

(* run() gets to its end: pool.Close does not wait for good for a connection
   that a probe of a hung database holds. *)
CloseReturns == main = "closing" ~> main = "ended"

Interrupted == \E p \in Probes : Deadline(p) \/ ClientLeaves(p)
Refused == \E p \in Probes : answer[p] = "none" /\ answer'[p] \in {"failed", "timed out"}

(* Readiness comes back by itself: once the database is up for good, the
   server stays, and probes are no longer cut short, no probe is told 503 any
   more, although connections died and dials were left behind meanwhile. *)
ReadyAgain ==
    <>[](db = "up" /\ main = "serving") /\ <>[][~Interrupted]_vars
        => <>[][~Refused]_vars

==========================================================================
