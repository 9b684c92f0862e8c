------------------------- MODULE ReadinessProofs -------------------------
(* Proofs about Readiness, for any number of probes and connections.        *)
EXTENDS Readiness, TLAPS

Stages == {"away", "acquiring", "dialing", "pinging"}
Answers == {"none", "ok", "failed", "timed out"}

(* TypeOK but for the pool. *)
SortsOK ==
    /\ db \in {"up", "hung", "down"}
    /\ main \in {"serving", "closing", "ended"}
    /\ stage \in [Probes -> Stages]
    /\ ctx \in [Probes -> {"live", "late", "left"}]
    /\ answer \in [Probes -> Answers]
    /\ heard \in [Probes -> BOOLEAN]

(* An answer stays true until the probe's next request: it is given from what
   the context and the database were then. *)
Inv == SortsOK /\ PoolOK /\ AnswersAreTrue

LEMMA InvIsEnough == Inv <=> TypeOK /\ AnswersAreTrue
  BY DEF Inv, SortsOK, TypeOK, Stages, Answers

LEMMA InitInv == Init => Inv
  BY DEF Init, Inv, SortsOK, Stages, Answers, PoolOK, AnswersAreTrue

LEMMA ArriveInv == ASSUME Inv, NEW p \in Probes, Arrive(p) PROVE Inv'
<1> USE DEF Inv, Arrive, NewContext, pool
<1>1. SortsOK'
  BY DEF SortsOK, Stages, Answers
<1>2. PoolOK'
  BY DEF PoolOK, Held, SortsOK
<1>3. AnswersAreTrue'
  BY DEF AnswersAreTrue, SortsOK
<1> QED
  BY <1>1, <1>2, <1>3

LEMMA ContextInv ==
  ASSUME Inv, NEW p \in Probes, Deadline(p) \/ ClientLeaves(p) PROVE Inv'
<1> USE DEF Inv, Deadline, ClientLeaves, pool
<1>1. SortsOK'
  BY DEF SortsOK
<1>2. PoolOK'
  BY DEF PoolOK, Held
<1>3. AnswersAreTrue'
  BY DEF AnswersAreTrue, SortsOK
<1> QED
  BY <1>1, <1>2, <1>3

LEMMA AcquiresInv ==
  ASSUME Inv, NEW p \in Probes, NEW c \in Conns,
         TakeIdle(p, c) \/ Discard(p, c) \/ Dial(p, c)
  PROVE  Inv'
<1> USE ReadinessAssumption
        DEF Inv, TakeIdle, Discard, Dial, Occupy, Destroy, Moved, probes
<1>1. SortsOK'
  BY DEF SortsOK, Stages
<1>2. PoolOK'
  BY DEF PoolOK, Held, SortsOK
<1>3. AnswersAreTrue'
  BY DEF AnswersAreTrue
<1> QED
  BY <1>1, <1>2, <1>3

LEMMA AnswerIsTrue ==
  ASSUME Inv, NEW p \in Probes, NEW err \in {"none", "failed", "timed out"},
         Answer(p, err), heard' \in [Probes -> BOOLEAN],
         \A q \in Probes : heard[q] => heard'[q],
         err = "none" => heard'[p], err = "timed out" => ctx[p] = "late"
  PROVE  AnswersAreTrue'
  BY DEF Inv, SortsOK, AnswersAreTrue, Answer, StatusFor

LEMMA ConnectedInv ==
  ASSUME Inv, NEW c \in Conns, Connected(c) PROVE Inv'
<1> USE ReadinessAssumption DEF Inv, Connected, Occupy, Moved, probes
<1>1. SortsOK'
  BY DEF SortsOK, Stages, PoolOK
<1>2. PoolOK'
  BY DEF PoolOK, Held, SortsOK
<1>3. AnswersAreTrue'
  BY DEF AnswersAreTrue
<1> QED
  BY <1>1, <1>2, <1>3

LEMMA DialFailsInv ==
  ASSUME Inv, NEW c \in Conns, DialFails(c) PROVE Inv'
<1> USE ReadinessAssumption DEF Inv, DialFails, Occupy, Destroy
<1>1. SortsOK'
  BY DEF SortsOK, Stages, Answers, PoolOK, Answer, StatusFor
<1>2. PoolOK'
  BY DEF PoolOK, Held, SortsOK, Answer
<1>3. AnswersAreTrue'
  BY DEF AnswersAreTrue, Answer, StatusFor, SortsOK
<1> QED
  BY <1>1, <1>2, <1>3

LEMMA ReturnsInv ==
  ASSUME Inv, NEW p \in Probes, NEW c \in Conns, PingAnswered(p, c) \/ PingFails(p, c)
  PROVE  Inv'
<1> USE ReadinessAssumption
        DEF Inv, PingAnswered, PingFails, Occupy, Destroy, Release, Answer
<1>1. SortsOK'
  BY DEF SortsOK, Stages, Answers, StatusFor
<1>2. PoolOK'
  BY DEF PoolOK, Held, SortsOK
<1>3. AnswersAreTrue'
  BY AnswerIsTrue DEF SortsOK
<1> QED
  BY <1>1, <1>2, <1>3

LEMMA EndsInv ==
  ASSUME Inv, NEW p \in Probes, Cancelled(p) \/ PoolClosed(p)
  PROVE  Inv'
<1> USE ReadinessAssumption DEF Inv, Cancelled, PoolClosed, Answer, ErrorOf, pool
<1>1. SortsOK'
  BY DEF SortsOK, Stages, Answers, StatusFor
<1>2. PoolOK'
  <2>1. CASE Cancelled(p)
    <3>1. /\ conn' \in [Conns -> {"none", "dialing", "idle", "used"}]
          /\ holder' \in [Conns -> Probes \cup {Nobody}]
      BY <2>1 DEF PoolOK
    <3>2. alive' \subseteq {c \in Conns : conn'[c] \in {"idle", "used"}}
      BY <2>1 DEF PoolOK
    <3>3. ASSUME NEW c \in Conns, holder'[c] # Nobody
          PROVE  holder'[c] = holder[c] /\ holder[c] # p /\ conn'[c] = conn[c]
      BY <2>1, <3>3 DEF PoolOK
    <3>4. ASSUME NEW c \in Conns, conn'[c] = "used" PROVE holder'[c] # Nobody
      BY <2>1, <3>4 DEF PoolOK
    <3>5. ASSUME NEW c \in Conns, holder'[c] # Nobody
          PROVE  /\ holder[c] \in Probes
                 /\ stage'[holder[c]] = stage[holder[c]]
                 /\ conn[c] = IF stage[holder[c]] = "pinging" THEN "used" ELSE "dialing"
                 /\ stage[holder[c]] \in {"dialing", "pinging"}
      <4>1. holder[c] # Nobody /\ holder[c] # p
        BY <3>3, <3>5
      <4>2. /\ holder[c] \in Probes
            /\ conn[c] = IF stage[holder[c]] = "pinging" THEN "used" ELSE "dialing"
            /\ stage[holder[c]] \in {"dialing", "pinging"}
        BY <4>1 DEF PoolOK, Held
      <4>3. stage'[holder[c]] = stage[holder[c]]
        BY <2>1, <4>1, <4>2 DEF SortsOK
      <4> QED
        BY <4>2, <4>3
    <3>6. ASSUME NEW c \in Conns, holder'[c] # Nobody, NEW d \in Conns,
                 holder'[d] = holder'[c]
          PROVE  d = c
      BY <2>1, <3>3, <3>6 DEF PoolOK
    <3>7. ASSUME NEW c \in Conns, holder'[c] # Nobody
          PROVE  /\ Held(holder[c], c)'
                 /\ stage'[holder'[c]] \in {"dialing", "pinging"}
      <4> HIDE DEF Inv, Cancelled, PoolClosed, Answer, ErrorOf
      <4>1. holder'[c] = holder[c] /\ conn'[c] = conn[c]
        BY <3>3, <3>7
      <4>2. /\ stage'[holder'[c]] = stage[holder[c]]
            /\ conn[c] = IF stage[holder[c]] = "pinging" THEN "used" ELSE "dialing"
            /\ stage[holder[c]] \in {"dialing", "pinging"}
        BY <3>5, <3>7, <4>1
      <4> QED
        BY <4>1, <4>2 DEF Held
    <3> HIDE DEF Inv, Cancelled, PoolClosed, Answer, ErrorOf
    <3> QED
      BY <3>1, <3>2, <3>4, <3>6, <3>7 DEF PoolOK
  <2>2. CASE PoolClosed(p)
    BY <2>2 DEF PoolOK, Held, SortsOK
  <2> QED
    BY <2>1, <2>2
<1>3. AnswersAreTrue'
  BY AnswerIsTrue DEF SortsOK
<1> QED
  BY <1>1, <1>2, <1>3

LEMMA PoolInv ==
  ASSUME Inv, NEW c \in Conns, Refill(c) \/ Reap(c) PROVE Inv'
<1> USE ReadinessAssumption DEF Inv, Refill, Reap, Occupy, Destroy, probes
<1>1. SortsOK'
  BY DEF SortsOK
<1>2. PoolOK'
  BY DEF PoolOK, Held
<1>3. AnswersAreTrue'
  BY DEF AnswersAreTrue
<1> QED
  BY <1>1, <1>2, <1>3

LEMMA RestInv ==
  ASSUME Inv,
         \/ \E s \in {"up", "hung", "down"} : DbChanges(s)
         \/ ServerFails
         \/ Closed
         \/ UNCHANGED vars
  PROVE  Inv'
<1> USE DEF Inv, DbChanges, ServerFails, Closed, pool, probes, vars
<1>1. SortsOK'
  BY DEF SortsOK
<1>2. PoolOK'
  BY DEF PoolOK, Held
<1>3. AnswersAreTrue'
  BY DEF AnswersAreTrue
<1> QED
  BY <1>1, <1>2, <1>3

LEMMA NextInv == Inv /\ [Next]_vars => Inv'
<1> SUFFICES ASSUME Inv, [Next]_vars PROVE Inv'
  OBVIOUS
<1>1. ASSUME NEW p \in Probes, Arrive(p) PROVE Inv'
  BY <1>1, ArriveInv
<1>2. ASSUME NEW p \in Probes, Deadline(p) \/ ClientLeaves(p) PROVE Inv'
  BY <1>2, ContextInv
<1>3. ASSUME NEW p \in Probes, Acquires(p) PROVE Inv'
  BY <1>3, AcquiresInv DEF Acquires
<1>4. ASSUME NEW p \in Probes, Returns(p) PROVE Inv'
  BY <1>4, ReturnsInv DEF Returns
<1>5. ASSUME NEW p \in Probes, Cancelled(p) \/ PoolClosed(p) PROVE Inv'
  BY <1>5, EndsInv
<1>6. ASSUME NEW c \in Conns, DialEnds(c) PROVE Inv'
  BY <1>6, ConnectedInv, DialFailsInv DEF DialEnds
<1>7. ASSUME NEW c \in Conns, Refill(c) \/ Reap(c) PROVE Inv'
  BY <1>7, PoolInv
<1> QED
  BY <1>1, <1>2, <1>3, <1>4, <1>5, <1>6, <1>7, RestInv DEF Next

LEMMA SpecInv == Spec => []Inv
  BY InitInv, NextInv, PTL DEF Spec, Safety

(* For any number of probes and places, and whatever database and clients do,
   a connection is in use or dialed for a probe only while it waits for it, and
   no probe has two. *)
THEOREM ReadinessTypeOK == Spec => []TypeOK
  BY SpecInv, InvIsEnough, PTL

(* For any number of probes and places, 200 is answered only when the database
   answered during the request, and "timed out" is recorded only of a probe
   whose deadline passed. *)
THEOREM AnswersCorrect == Spec => []AnswersAreTrue
  BY SpecInv, PTL DEF Inv

==========================================================================
