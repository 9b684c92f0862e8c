------------------------ MODULE ErrorDetailsProofs ------------------------
(***************************************************************************)
(* The immutable contract of CodedError and what redaction leaves in        *)
(* records, for any details, queries and callers.                           *)
(*                                                                          *)
(* What a reader sees of a map is a Walk, which is defined by recursion on   *)
(* its depth.  WalkSteps, WalkClosed and WalkWithin say all that the proofs  *)
(* need of that recursion: a walk is the smallest set of paths that has its  *)
(* root and goes on along slots up to MaxDepth.                             *)
(***************************************************************************)
EXTENDS ErrorDetails, SequenceTheorems, WellFoundedInduction, NaturalsInduction, TLAPS

(* A set that has 0 and with a number the next has every depth. *)
LEMMA EveryDepth ==
    ASSUME NEW S, 0 \in S, \A n \in Nat : n < MaxDepth /\ n \in S => n + 1 \in S
    PROVE  0..MaxDepth \subseteq S
<1> SUFFICES ASSUME NEW k \in 0..MaxDepth, k \notin S PROVE FALSE
  OBVIOUS
<1> DEFINE T == {n \in 0..MaxDepth : n \notin S}
<1>1. T \subseteq Nat /\ T # {}
  BY DetailsAssumption
<1>2. PICK n \in T : \A j \in T : ~(<<j, n>> \in OpToRel(<, Nat))
  BY <1>1, NatLessThanWellFounded, WFMin
<1>3. \A j \in T : ~(j < n)
  BY <1>1, <1>2 DEF OpToRel
<1>4. n # 0
  OBVIOUS
<1>5. n - 1 \in 0..MaxDepth /\ n - 1 \in Nat /\ n - 1 < MaxDepth /\ n - 1 < n
  BY <1>4, DetailsAssumption
<1>6. n - 1 \in S
  BY <1>3, <1>5
<1>7. n - 1 + 1 = n
  BY <1>5
<1> QED
  BY <1>5, <1>6, <1>7

Beyond(h, x) == {<<Append(x[1], s), h[x[2]].slots[s]>> : s \in SlotsOf(h, x[2])}
Further(h, before) == before \cup UNION {Beyond(h, x) : x \in before}
Reaches(h, v, r, k) ==
    r = [n \in 0..k |-> IF n = 0 THEN {<< << >>, v >>} ELSE Further(h, r[n - 1])]

LEMMA ReachesAt ==
    ASSUME NEW h, NEW v, NEW r, NEW k \in Nat, Reaches(h, v, r, k)
    PROVE  /\ r[0] = {<< << >>, v >>}
           /\ \A n \in 1..k : r[n] = Further(h, r[n - 1])
<1> DEFINE q == [n \in 0..k |-> IF n = 0 THEN {<< << >>, v >>} ELSE Further(h, r[n - 1])]
<1>1. r = q
  BY DEF Reaches
<1>2. q[0] = {<< << >>, v >>}
  OBVIOUS
<1>3. ASSUME NEW n \in 1..k PROVE q[n] = Further(h, r[n - 1])
  OBVIOUS
<1> HIDE DEF q
<1> QED
  BY <1>1, <1>2, <1>3

(* The recursion that defines a walk has a solution. *)
LEMMA WalkSteps ==
    ASSUME NEW h, NEW v
    PROVE  \E r : Reaches(h, v, r, MaxDepth) /\ Walk(h, v) = r[MaxDepth]
<1> DEFINE S == {k \in 0..MaxDepth : \E r : Reaches(h, v, r, k)}
<1>1. 0 \in S
  <2> DEFINE r == [n \in 0..0 |-> {<< << >>, v >>}]
  <2>1. Reaches(h, v, r, 0)
    BY DEF Reaches
  <2> QED
    BY <2>1, DetailsAssumption
<1>2. ASSUME NEW k \in Nat, k < MaxDepth, k \in S PROVE k + 1 \in S
  <2>1. PICK r : Reaches(h, v, r, k)
    BY <1>2
  <2> DEFINE q == [n \in 0..(k + 1) |-> IF n <= k THEN r[n] ELSE Further(h, r[k])]
  <2>2. ASSUME NEW n \in 0..(k + 1)
        PROVE  q[n] = IF n = 0 THEN {<< << >>, v >>} ELSE Further(h, q[n - 1])
    <3>1. CASE n = 0
      BY <2>1, <3>1 DEF Reaches
    <3>2. CASE n > 0 /\ n <= k
      <4>1. q[n] = r[n] /\ q[n - 1] = r[n - 1]
        BY <3>2
      <4>2. r[n] = Further(h, r[n - 1])
        <5>1. n \in 1..k
          BY <3>2
        <5> QED
          BY <2>1, <5>1, ReachesAt
      <4> QED
        BY <3>2, <4>1, <4>2
    <3>3. CASE n = k + 1
      BY <3>3
    <3> QED
      BY <3>1, <3>2, <3>3
  <2>3. Reaches(h, v, q, k + 1)
    BY <2>2 DEF Reaches
  <2> QED
    BY <1>2, <2>3, DetailsAssumption
<1>3. MaxDepth \in S
  <2>1. 0..MaxDepth \subseteq S
    <3> HIDE DEF S
    <3> QED
      BY <1>1, <1>2, EveryDepth
  <2> QED
    BY <2>1, DetailsAssumption
<1> QED
  BY <1>3 DEF Walk, Reaches, Further, Beyond

Slots(h) == UNION {DOMAIN h[c].slots : c \in DOMAIN h}
Along(h, x, s) == <<Append(x[1], s), h[x[2]].slots[s]>>
Pathed(h, x) == x = <<x[1], x[2]>> /\ x[1] \in Seq(Slots(h))

LEMMA AlongPathed ==
    ASSUME NEW h, NEW x, Pathed(h, x), NEW s \in SlotsOf(h, x[2])
    PROVE  /\ Pathed(h, Along(h, x, s))
           /\ Len(Along(h, x, s)[1]) = Len(x[1]) + 1
           /\ Along(h, x, s)[1] = Append(x[1], s)
           /\ Along(h, x, s)[2] = h[x[2]].slots[s]
<1>1. s \in Slots(h)
  BY DEF SlotsOf, IsCell, Slots
<1>2. /\ Append(x[1], s) \in Seq(Slots(h))
      /\ Len(Append(x[1], s)) = Len(x[1]) + 1
  BY <1>1, AppendProperties DEF Pathed
<1> QED
  BY <1>2 DEF Pathed, Along

(* What is reached at a depth: paths of this length at most, each first reached
   at the depth of its length. *)
LEMMA WalkLevels ==
    ASSUME NEW h, NEW v, NEW r, Reaches(h, v, r, MaxDepth)
    PROVE  /\ \A n \in 0..MaxDepth : r[n] \subseteq r[MaxDepth]
           /\ \A n \in 0..MaxDepth : \A x \in r[n] :
                 Pathed(h, x) /\ Len(x[1]) <= n /\ x \in r[Len(x[1])]
<1>1. /\ r[0] = {<< << >>, v >>}
      /\ \A n \in 1..MaxDepth : r[n] = Further(h, r[n - 1])
  BY ReachesAt, DetailsAssumption
<1>2. ASSUME NEW n \in Nat, n < MaxDepth
      PROVE  /\ r[n + 1] = r[n] \cup UNION {Beyond(h, x) : x \in r[n]}
             /\ r[n] \subseteq r[n + 1]
  <2>1. n + 1 \in 1..MaxDepth /\ n + 1 - 1 = n
    BY <1>2, DetailsAssumption
  <2>2. r[n + 1] = Further(h, r[n])
    BY <1>1, <2>1
  <2> QED
    BY <2>2 DEF Further
<1>3. \A n \in 0..MaxDepth : r[n] \subseteq r[MaxDepth]
  <2> DEFINE S == {n \in 0..MaxDepth : \A j \in 0..n : r[j] \subseteq r[n]}
  <2>1. 0 \in S
    BY DetailsAssumption
  <2>2. ASSUME NEW n \in Nat, n < MaxDepth, n \in S PROVE n + 1 \in S
    <3>1. ASSUME NEW j \in 0..(n + 1) PROVE r[j] \subseteq r[n + 1]
      <4>1. CASE j \in 0..n
        BY <1>2, <2>2, <4>1
      <4>2. CASE j = n + 1
        BY <4>2
      <4> QED
        BY <4>1, <4>2
    <3> QED
      BY <2>2, <3>1, DetailsAssumption
  <2>3. 0..MaxDepth \subseteq S
    <3> HIDE DEF S
    <3> QED
      BY <2>1, <2>2, EveryDepth
  <2> QED
    BY <2>3, DetailsAssumption
<1>4. \A n \in 0..MaxDepth : \A x \in r[n] :
          Pathed(h, x) /\ Len(x[1]) <= n /\ x \in r[Len(x[1])]
  <2> DEFINE Good(n, x) == Pathed(h, x) /\ Len(x[1]) <= n /\ x \in r[Len(x[1])]
             S == {n \in 0..MaxDepth : \A x \in r[n] : Good(n, x)}
  <2>1. 0 \in S
    <3>1. << >> \in Seq(Slots(h)) /\ Len(<< >>) = 0
      BY EmptySeq
    <3>2. ASSUME NEW x \in r[0] PROVE Good(0, x)
      <4>1. x[1] = << >> /\ x = <<x[1], x[2]>>
        BY <1>1, <3>2
      <4>2. Len(x[1]) = 0
        BY <3>1, <4>1
      <4> QED
        BY <3>1, <3>2, <4>1, <4>2 DEF Pathed
    <3> QED
      BY <3>2, DetailsAssumption
  <2>2. ASSUME NEW n \in Nat, n < MaxDepth, n \in S PROVE n + 1 \in S
    <3>1. ASSUME NEW x \in r[n + 1] PROVE Good(n + 1, x)
      <4>1. CASE x \in r[n]
        <5>1. Good(n, x)
          BY <2>2, <4>1
        <5>2. Len(x[1]) \in Nat
          BY <5>1, LenProperties DEF Pathed
        <5> QED
          BY <5>1, <5>2
      <4>2. CASE \E y \in r[n] : x \in Beyond(h, y)
        <5>1. PICK y \in r[n] : x \in Beyond(h, y)
          BY <4>2
        <5>2. PICK s \in SlotsOf(h, y[2]) : x = Along(h, y, s)
          BY <5>1 DEF Beyond, Along
        <5>3. Good(n, y)
          BY <2>2
        <5>4. Len(y[1]) \in Nat
          BY <5>3, LenProperties DEF Pathed
        <5>5. Pathed(h, x) /\ Len(x[1]) = Len(y[1]) + 1
          BY <5>2, <5>3, AlongPathed
        <5>6. Beyond(h, y) \subseteq r[Len(y[1]) + 1]
          <6> DEFINE n1 == Len(y[1])
          <6>1. n1 \in Nat /\ n1 < MaxDepth /\ y \in r[n1]
            BY <2>2, <5>3, <5>4, DetailsAssumption
          <6>2. r[n1 + 1] = r[n1] \cup UNION {Beyond(h, z) : z \in r[n1]}
            BY <1>2, <6>1
          <6> QED
            BY <6>1, <6>2
        <5> QED
          BY <5>1, <5>3, <5>4, <5>5, <5>6
      <4> QED
        BY <1>2, <2>2, <4>1, <4>2
    <3> QED
      BY <2>2, <3>1, DetailsAssumption
  <2>3. 0..MaxDepth \subseteq S
    <3> HIDE DEF S
    <3> QED
      BY <2>1, <2>2, EveryDepth
  <2> QED
    BY <2>3
<1> QED
  BY <1>3, <1>4

(* A walk begins at its root, and goes on along slots up to MaxDepth. *)
LEMMA WalkClosed ==
    ASSUME NEW h, NEW v
    PROVE  /\ << << >>, v >> \in Walk(h, v)
           /\ \A x \in Walk(h, v) :
                 /\ Pathed(h, x) /\ Len(x[1]) \in 0..MaxDepth
                 /\ Len(x[1]) < MaxDepth =>
                       \A s \in SlotsOf(h, x[2]) : Along(h, x, s) \in Walk(h, v)
<1>1. PICK r : Reaches(h, v, r, MaxDepth) /\ Walk(h, v) = r[MaxDepth]
  BY WalkSteps
<1>2. /\ r[0] = {<< << >>, v >>}
      /\ \A n \in 1..MaxDepth : r[n] = Further(h, r[n - 1])
  BY <1>1, ReachesAt, DetailsAssumption
<1>3. /\ \A n \in 0..MaxDepth : r[n] \subseteq r[MaxDepth]
      /\ \A n \in 0..MaxDepth : \A x \in r[n] :
            Pathed(h, x) /\ Len(x[1]) <= n /\ x \in r[Len(x[1])]
  BY <1>1, WalkLevels
<1>4. << << >>, v >> \in Walk(h, v)
  BY <1>1, <1>2, <1>3, DetailsAssumption
<1>5. ASSUME NEW x \in Walk(h, v)
      PROVE  /\ Pathed(h, x) /\ Len(x[1]) \in 0..MaxDepth
             /\ Len(x[1]) < MaxDepth =>
                   \A s \in SlotsOf(h, x[2]) : Along(h, x, s) \in Walk(h, v)
  <2>1. Pathed(h, x) /\ Len(x[1]) <= MaxDepth /\ x \in r[Len(x[1])]
    BY <1>1, <1>3, DetailsAssumption
  <2>2. Len(x[1]) \in Nat
    BY <2>1, LenProperties DEF Pathed
  <2>3. ASSUME Len(x[1]) < MaxDepth, NEW s \in SlotsOf(h, x[2])
        PROVE  Along(h, x, s) \in Walk(h, v)
    <3> DEFINE n == Len(x[1]) + 1
    <3>1. n \in 1..MaxDepth /\ n \in 0..MaxDepth /\ n - 1 = Len(x[1])
      BY <2>2, <2>3, DetailsAssumption
    <3> HIDE DEF n
    <3>2. r[n] = Further(h, r[Len(x[1])])
      BY <1>2, <3>1
    <3>3. Along(h, x, s) \in Beyond(h, x)
      BY DEF Along, Beyond
    <3> QED
      BY <1>1, <1>3, <2>1, <3>1, <3>2, <3>3 DEF Further
  <2> QED
    BY <2>1, <2>2, <2>3, DetailsAssumption
<1> QED
  BY <1>4, <1>5

(* It has nothing else. *)
LEMMA WalkWithin ==
    ASSUME NEW h, NEW v, NEW C, << << >>, v >> \in C,
           \A x \in Walk(h, v) : x \in C /\ Len(x[1]) < MaxDepth =>
               \A s \in SlotsOf(h, x[2]) : Along(h, x, s) \in C
    PROVE  Walk(h, v) \subseteq C
<1>1. PICK r : Reaches(h, v, r, MaxDepth) /\ Walk(h, v) = r[MaxDepth]
  BY WalkSteps
<1>2. /\ r[0] = {<< << >>, v >>}
      /\ \A n \in 1..MaxDepth : r[n] = Further(h, r[n - 1])
  BY <1>1, ReachesAt, DetailsAssumption
<1>3. /\ \A n \in 0..MaxDepth : r[n] \subseteq r[MaxDepth]
      /\ \A n \in 0..MaxDepth : \A x \in r[n] :
            Pathed(h, x) /\ Len(x[1]) <= n /\ x \in r[Len(x[1])]
  BY <1>1, WalkLevels
<1> DEFINE S == {n \in 0..MaxDepth : r[n] \subseteq C}
<1>4. 0 \in S
  <2>1. r[0] \subseteq C
    BY <1>2
  <2>2. 0 \in 0..MaxDepth
    BY DetailsAssumption
  <2> QED
    BY <2>1, <2>2
<1>5. ASSUME NEW n \in Nat, n < MaxDepth, n \in S PROVE n + 1 \in S
  <2>1. n + 1 \in 1..MaxDepth /\ n \in 0..MaxDepth /\ n + 1 - 1 = n
    BY <1>5, DetailsAssumption
  <2>2. r[n + 1] = Further(h, r[n])
    BY <1>2, <2>1
  <2>3. ASSUME NEW x \in r[n], NEW s \in SlotsOf(h, x[2])
        PROVE  Along(h, x, s) \in C
    <3>1. x \in Walk(h, v) /\ x \in C
      BY <1>1, <1>3, <1>5, <2>1
    <3>2. Pathed(h, x) /\ Len(x[1]) <= n
      BY <1>3, <2>1
    <3>3. Len(x[1]) < MaxDepth
      BY <1>5, <3>2, LenProperties, DetailsAssumption DEF Pathed
    <3> QED
      BY <3>1, <3>3
  <2>4. r[n + 1] \subseteq C
    BY <1>5, <2>2, <2>3 DEF Further, Beyond, Along
  <2> QED
    BY <2>1, <2>4
<1>6. 0..MaxDepth \subseteq S
  <2> HIDE DEF S
  <2> QED
    BY <1>4, <1>5, EveryDepth
<1> QED
  BY <1>1, <1>6, DetailsAssumption

(* Every path but the root's goes on from another one. *)
LEMMA WalkBack ==
    ASSUME NEW h, NEW v, NEW x \in Walk(h, v)
    PROVE  \/ x = << << >>, v >>
           \/ \E y \in Walk(h, v) : Len(y[1]) < MaxDepth /\ \E s \in SlotsOf(h, y[2]) : x = Along(h, y, s)
<1> DEFINE C == {z \in Walk(h, v) :
                  \/ z = << << >>, v >>
                  \/ \E y \in Walk(h, v) : Len(y[1]) < MaxDepth
                                          /\ \E s \in SlotsOf(h, y[2]) : z = Along(h, y, s)}
<1>1. << << >>, v >> \in C
  BY WalkClosed
<1>2. ASSUME NEW y \in Walk(h, v), Len(y[1]) < MaxDepth, NEW s \in SlotsOf(h, y[2])
      PROVE  Along(h, y, s) \in C
  BY <1>2, WalkClosed
<1>3. Walk(h, v) \subseteq C
  <2> HIDE DEF C
  <2> QED
    BY <1>1, <1>2, WalkWithin
<1> QED
  BY <1>3

(* A path leads to one place. *)
LEMMA WalkUnique ==
    ASSUME NEW h, NEW v, NEW x \in Walk(h, v), NEW y \in Walk(h, v), x[1] = y[1]
    PROVE  x = y
<1> DEFINE C == {z \in Walk(h, v) : \A w \in Walk(h, v) : w[1] = z[1] => w = z}
<1>1. ASSUME NEW z \in Walk(h, v), Len(z[1]) < MaxDepth, NEW s \in SlotsOf(h, z[2])
      PROVE  /\ Along(h, z, s) \in Walk(h, v)
             /\ Pathed(h, z) /\ s \in Slots(h)
             /\ Along(h, z, s)[1] = Append(z[1], s)
             /\ Append(z[1], s) # << >>
  <2>1. Pathed(h, z) /\ Along(h, z, s) \in Walk(h, v)
    BY <1>1, WalkClosed
  <2>2. s \in Slots(h)
    BY DEF SlotsOf, IsCell, Slots
  <2> QED
    BY <2>1, <2>2, AppendProperties, AlongPathed DEF Pathed
<1>2. << << >>, v >> \in C
  <2>1. ASSUME NEW w \in Walk(h, v), w[1] = << >> PROVE w = << << >>, v >>
    <3>1. ASSUME NEW u \in Walk(h, v), Len(u[1]) < MaxDepth, NEW t \in SlotsOf(h, u[2]),
                 w = Along(h, u, t)
          PROVE  FALSE
      BY <1>1, <2>1, <3>1
    <3> QED
      BY <3>1, WalkBack
  <2> QED
    BY <2>1, WalkClosed
<1>3. ASSUME NEW z \in C, Len(z[1]) < MaxDepth, NEW s \in SlotsOf(h, z[2])
      PROVE  Along(h, z, s) \in C
  <2>1. /\ Along(h, z, s) \in Walk(h, v) /\ Pathed(h, z) /\ s \in Slots(h)
        /\ Along(h, z, s)[1] = Append(z[1], s) /\ Append(z[1], s) # << >>
    BY <1>1, <1>3
  <2>2. ASSUME NEW w \in Walk(h, v), w[1] = Append(z[1], s) PROVE w = Along(h, z, s)
    <3>1. w # << << >>, v >>
      BY <2>1, <2>2
    <3>2. PICK u \in Walk(h, v) : Len(u[1]) < MaxDepth /\ \E t \in SlotsOf(h, u[2]) : w = Along(h, u, t)
      BY <3>1, WalkBack
    <3>3. PICK t \in SlotsOf(h, u[2]) : w = Along(h, u, t)
      BY <3>2
    <3>4. Pathed(h, u) /\ t \in Slots(h) /\ w[1] = Append(u[1], t)
      BY <1>1, <3>2, <3>3
    <3>5. u[1] = z[1] /\ t = s
      <4>1. u[1] \in Seq(Slots(h)) /\ z[1] \in Seq(Slots(h))
        BY <2>1, <3>4 DEF Pathed
      <4>2. Append(u[1], t) = Append(z[1], s)
        BY <2>2, <3>4
      <4> QED
        <5>1. \A p, q \in Seq(Slots(h)) : \A a, b \in Slots(h) :
                  Append(p, a) = Append(q, b) => p = q /\ a = b
          BY AppendInjective
        <5> QED
          BY <2>1, <3>4, <4>1, <4>2, <5>1
    <3>6. u = z
      BY <3>5, <1>3
    <3> QED
      BY <3>3, <3>5, <3>6
  <2> QED
    BY <2>1, <2>2
<1>4. Walk(h, v) \subseteq C
  <2> HIDE DEF C
  <2> QED
    BY <1>2, <1>3, WalkWithin
<1> QED
  BY <1>4

(* Two heaps that agree on values that do not lead out of each other. *)
Agree(h, g, A) ==
    \A u \in A :
        /\ u \in DOMAIN h <=> u \in DOMAIN g
        /\ u \in DOMAIN h => h[u] = g[u] /\ \A s \in DOMAIN h[u].slots : h[u].slots[s] \in A

LEMMA WalkStaysWithin ==
    ASSUME NEW h, NEW A, NEW v \in A,
           \A u \in A : u \in DOMAIN h => \A s \in DOMAIN h[u].slots : h[u].slots[s] \in A
    PROVE  \A x \in Walk(h, v) : x[2] \in A
<1> DEFINE C == {x \in Walk(h, v) : x[2] \in A}
<1>1. << << >>, v >> \in C
  BY WalkClosed
<1>2. ASSUME NEW x \in C, Len(x[1]) < MaxDepth, NEW s \in SlotsOf(h, x[2])
      PROVE  Along(h, x, s) \in C
  <2>1. Along(h, x, s) \in Walk(h, v) /\ Pathed(h, x)
    BY <1>2, WalkClosed
  <2>2. Along(h, x, s)[2] \in A
    BY DEF Along, SlotsOf, IsCell
  <2> QED
    BY <2>1, <2>2
<1>3. Walk(h, v) \subseteq C
  <2> HIDE DEF C
  <2> QED
    BY <1>1, <1>2, WalkWithin
<1> QED
  BY <1>3

LEMMA WalkInto ==
    ASSUME NEW h, NEW g, NEW A, Agree(h, g, A), NEW v \in A
    PROVE  Walk(h, v) \subseteq Walk(g, v)
<1> DEFINE C == {x \in Walk(h, v) : x[2] \in A /\ x \in Walk(g, v)}
<1>1. << << >>, v >> \in C
  BY WalkClosed
<1>2. ASSUME NEW x \in C, Len(x[1]) < MaxDepth, NEW s \in SlotsOf(h, x[2])
      PROVE  Along(h, x, s) \in C
  <2>1. Along(h, x, s) \in Walk(h, v)
    BY <1>2, WalkClosed
  <2>2. s \in SlotsOf(g, x[2]) /\ Along(g, x, s) = Along(h, x, s) /\ Along(h, x, s)[2] \in A
    BY DEF Along, SlotsOf, IsCell, Agree
  <2>3. Along(g, x, s) \in Walk(g, v)
    BY <1>2, <2>2, WalkClosed
  <2> QED
    BY <2>1, <2>2, <2>3
<1>3. Walk(h, v) \subseteq C
  <2> HIDE DEF C
  <2> QED
    BY <1>1, <1>2, WalkWithin
<1> QED
  BY <1>3

(* A reader of a value sees the same in both. *)
LEMMA SameTree ==
    ASSUME NEW h, NEW g, NEW A, Agree(h, g, A), NEW v \in A
    PROVE  Walk(h, v) = Walk(g, v) /\ Tree(h, v) = Tree(g, v)
<1>1. Agree(g, h, A)
  BY DEF Agree
<1>2. Walk(h, v) = Walk(g, v)
  BY <1>1, WalkInto
<1>3. \A x \in Walk(h, v) : x[2] \in A
  BY WalkStaysWithin DEF Agree
<1>4. \A x \in Walk(h, v) :
         (IF IsCell(h, x[2]) THEN h[x[2]].kind ELSE x[2]) =
         (IF IsCell(g, x[2]) THEN g[x[2]].kind ELSE x[2])
  BY <1>3 DEF IsCell, Agree
<1> QED
  BY <1>2, <1>4 DEF Tree

---------------------------------------------------------------------------
(* Copies.                                                                  *)

LEMMA CellParts ==
    ASSUME NEW k, NEW p
    PROVE  Cell(k, p)[1] = "cell" /\ Cell(k, p)[2] = k /\ Cell(k, p)[3] = p
BY DEF Cell

LEMMA EnteredFacts ==
    ASSUME NEW h, NEW R, NEW c
    PROVE  /\ c \in DOMAIN Entered(h, R) <=> c \in DOMAIN h /\ Copied(h, c)
           /\ c \in DOMAIN Entered(h, R) => \A s :
                 s \in DOMAIN Entered(h, R)[c].slots <=>
                     s \in DOMAIN h[c].slots /\ <<c, s>> \notin R /\ Copied(h, h[c].slots[s])
<1> DEFINE Into(d) == {s \in DOMAIN h[d].slots : <<d, s>> \notin R /\ Copied(h, h[d].slots[s])}
           Part(d) == Content(h[d].kind, [s \in Into(d) |-> h[d].slots[s]])
<1>1. Entered(h, R) = [d \in {u \in DOMAIN h : Copied(h, u)} |-> Part(d)]
  BY DEF Entered
<1>2. /\ DOMAIN Part(c).slots = Into(c)
      /\ \A s \in Into(c) : Part(c).slots[s] = h[c].slots[s]
  BY DEF Content
<1> HIDE DEF Part, Into
<1>3. c \in DOMAIN Entered(h, R) <=> c \in DOMAIN h /\ Copied(h, c)
  BY <1>1
<1>4. ASSUME c \in DOMAIN Entered(h, R) PROVE Entered(h, R)[c] = Part(c)
  BY <1>1, <1>4
<1>5. \A s : s \in Into(c) <=> s \in DOMAIN h[c].slots /\ <<c, s>> \notin R /\ Copied(h, h[c].slots[s])
  BY DEF Into
<1> QED
  BY <1>2, <1>3, <1>4, <1>5

LEMMA EnteredSlot ==
    ASSUME NEW h, NEW R, NEW c \in DOMAIN Entered(h, R), NEW s \in DOMAIN Entered(h, R)[c].slots
    PROVE  Entered(h, R)[c].slots[s] = h[c].slots[s]
<1> DEFINE Into == {t \in DOMAIN h[c].slots : <<c, t>> \notin R /\ Copied(h, h[c].slots[t])}
           F == [t \in Into |-> h[c].slots[t]]
<1>1. c \in DOMAIN h /\ Copied(h, c)
  BY EnteredFacts
<1>2. Entered(h, R)[c] = Content(h[c].kind, F)
  BY <1>1 DEF Entered
<1>3. Entered(h, R)[c].slots = F
  BY <1>2 DEF Content
<1>4. s \in Into /\ F[s] = h[c].slots[s]
  BY <1>3
<1> QED
  BY <1>3, <1>4

(* A copy goes where a reader of the original goes, but only into maps and
   arrays. *)
LEMMA EnteredWalk ==
    ASSUME NEW h, NEW R, NEW v, Copied(h, v)
    PROVE  \A x \in Walk(Entered(h, R), v) : x \in Walk(h, v) /\ Copied(h, x[2])
<1> DEFINE E == Entered(h, R)
           C == {x \in Walk(E, v) : x \in Walk(h, v) /\ Copied(h, x[2])}
<1>1. << << >>, v >> \in C
  BY WalkClosed
<1>2. ASSUME NEW x \in C, Len(x[1]) < MaxDepth, NEW s \in SlotsOf(E, x[2])
      PROVE  Along(E, x, s) \in C
  <2>1. /\ x[2] \in DOMAIN E /\ s \in DOMAIN E[x[2]].slots
        /\ E[x[2]].slots[s] = h[x[2]].slots[s]
        /\ x[2] \in DOMAIN h /\ s \in DOMAIN h[x[2]].slots
        /\ Copied(h, h[x[2]].slots[s])
    <3>1. x[2] \in DOMAIN E /\ s \in DOMAIN E[x[2]].slots
      BY <1>2 DEF SlotsOf, IsCell
    <3>2. ASSUME NEW c \in DOMAIN E, NEW t \in DOMAIN E[c].slots
          PROVE  /\ E[c].slots[t] = h[c].slots[t]
                 /\ c \in DOMAIN h /\ t \in DOMAIN h[c].slots
                 /\ Copied(h, h[c].slots[t])
      <4>1. c \in DOMAIN Entered(h, R) /\ t \in DOMAIN Entered(h, R)[c].slots
        BY <3>2
      <4>2. c \in DOMAIN h
        BY <4>1, EnteredFacts
      <4>3. Entered(h, R)[c].slots[t] = h[c].slots[t]
        BY <4>1, EnteredSlot
      <4>4. t \in DOMAIN h[c].slots
        BY <4>1, EnteredFacts
      <4>5. Copied(h, h[c].slots[t])
        BY <4>1, EnteredFacts
      <4> QED
        BY <4>2, <4>3, <4>4, <4>5
    <3> HIDE DEF E, C
    <3>3. E[x[2]].slots[s] = h[x[2]].slots[s]
      BY <3>1, <3>2
    <3>4. x[2] \in DOMAIN h
      BY <3>1, <3>2
    <3>5. s \in DOMAIN h[x[2]].slots
      BY <3>1, <3>2
    <3>6. Copied(h, h[x[2]].slots[s])
      BY <3>1, <3>2
    <3> QED
      BY <3>1, <3>3, <3>4, <3>5, <3>6
  <2>2. Along(E, x, s) = Along(h, x, s) /\ s \in SlotsOf(h, x[2])
    BY <2>1 DEF Along, SlotsOf, IsCell
  <2>3. Along(h, x, s) \in Walk(h, v) /\ Along(E, x, s) \in Walk(E, v)
    <3>1. x \in Walk(E, v) /\ x \in Walk(h, v)
      BY <1>2
    <3> HIDE DEF E
    <3>2. Along(E, x, s) \in Walk(E, v)
      BY <1>2, <3>1, WalkClosed
    <3>3. Along(h, x, s) \in Walk(h, v)
      BY <1>2, <2>2, <3>1, WalkClosed
    <3> QED
      BY <3>2, <3>3
  <2>4. Along(h, x, s)[2] = h[x[2]].slots[s]
    BY DEF Along
  <2> QED
    BY <2>1, <2>2, <2>3, <2>4
<1>3. Walk(E, v) \subseteq C
  <2> HIDE DEF C, E
  <2> QED
    BY <1>1, <1>2, WalkWithin
<1> QED
  BY <1>3

(* What a slot of a copied cell holds. *)
NewValue(h, k, R, x, s) ==
    IF <<x[2], s>> \in R THEN RedactedValue
    ELSE IF s \in SlotsOf(Entered(h, R), x[2]) THEN Cell(k, Append(x[1], s))
    ELSE h[x[2]].slots[s]

NewCell(h, k, R, x) ==
    Content(h[x[2]].kind, [s \in DOMAIN h[x[2]].slots |-> NewValue(h, k, R, x, s)])

LEMMA CopyFacts ==
    ASSUME NEW h, NEW k, NEW v, NEW R
    PROVE  /\ \A c : c \in DOMAIN CopyOf(h, k, v, R) <=>
                  \E x \in Walk(Entered(h, R), v) : c = Cell(k, x[1])
           /\ \A x \in Walk(Entered(h, R), v) :
                 CopyOf(h, k, v, R)[Cell(k, x[1])] = NewCell(h, k, R, x)
<1> DEFINE W == Walk(Entered(h, R), v)
           F == [cell \in {Cell(k, x[1]) : x \in W} |->
                    NewCell(h, k, R, CHOOSE y \in W : y[1] = cell[3])]
<1>1. CopyOf(h, k, v, R) = F
  BY DEF CopyOf, NewValue, NewCell
<1>2. ASSUME NEW x \in W PROVE F[Cell(k, x[1])] = NewCell(h, k, R, x)
  <2>1. F[Cell(k, x[1])] = NewCell(h, k, R, CHOOSE y \in W : y[1] = Cell(k, x[1])[3])
    OBVIOUS
  <2>2. (CHOOSE y \in W : y[1] = Cell(k, x[1])[3]) = x
    <3>1. \A y \in W : y[1] = x[1] => y = x
      BY WalkUnique
    <3>2. Cell(k, x[1])[3] = x[1]
      BY CellParts
    <3> HIDE DEF W
    <3> QED
      BY <3>1, <3>2
  <2> HIDE DEF F, W
  <2> QED
    BY <2>1, <2>2
<1>3. \A c : c \in DOMAIN F <=> \E x \in W : c = Cell(k, x[1])
  <2> HIDE DEF W
  <2> QED
    OBVIOUS
<1> HIDE DEF W, F
<1> QED
  BY <1>1, <1>2, <1>3 DEF W

---------------------------------------------------------------------------
(* A heap with a copy of one of its maps.                                   *)

(* Cells of the first n copies.  What looks like a cell is one, and only maps have
   keys. *)
ShapedCell(h, n, c) ==
    /\ c = Cell(c[2], c[3]) /\ c[2] \in 0..n
    /\ h[c] = Content(h[c].kind, h[c].slots)
    /\ h[c].kind \in {"map", "array"}
    /\ \A s \in DOMAIN h[c].slots :
          /\ h[c].slots[s][1] = "cell" => h[c].slots[s] \in DOMAIN h
          /\ h[c].kind # "map" => ~IsFieldKeyToRedact(s)

Shaped(h, n) == \A c \in DOMAIN h : ShapedCell(h, n, c)

Shallow(h, v) == \A x \in Walk(h, v) : Len(x[1]) < MaxDepth

LEMMA CellsAreCells ==
    ASSUME NEW h, NEW n, Shaped(h, n), NEW c \in DOMAIN h
    PROVE  c[1] = "cell"
BY CellParts DEF Shaped, ShapedCell

(* What follows is about one copy: heap h with n copies in it, the copied value v,
   the replaced slots R and the merged heap g. *)
Copying(h, n, v, R, g) ==
    /\ n \in Nat
    /\ Shaped(h, n) /\ Copied(h, v) /\ Shallow(h, v)
    /\ g = Merged(h, CopyOf(h, n + 1, v, R))

(* What a slot of a copy holds: the placeholder, a cell of the copy, or what the
   original holds, which is no map and no array. *)
NewKinds(h, n, v, R, x, s) ==
    \/ /\ <<x[2], s>> \in R
       /\ NewValue(h, n + 1, R, x, s) = RedactedValue
    \/ /\ <<x[2], s>> \notin R
       /\ NewValue(h, n + 1, R, x, s) = Cell(n + 1, Along(h, x, s)[1])
       /\ Along(h, x, s) \in Walk(Entered(h, R), v)
       /\ Copied(h, h[x[2]].slots[s])
    \/ /\ <<x[2], s>> \notin R
       /\ NewValue(h, n + 1, R, x, s) = h[x[2]].slots[s]
       /\ ~Copied(h, h[x[2]].slots[s])

LEMMA NewValues ==
    ASSUME NEW h, NEW n, NEW v, NEW R, NEW g, Copying(h, n, v, R, g),
           NEW x \in Walk(Entered(h, R), v), NEW s \in DOMAIN h[x[2]].slots
    PROVE  /\ x \in Walk(h, v) /\ Copied(h, x[2]) /\ Len(x[1]) < MaxDepth
           /\ s \in SlotsOf(h, x[2])
           /\ NewKinds(h, n, v, R, x, s)
<1> DEFINE E == Entered(h, R)
           u == h[x[2]].slots[s]
<1>1. x \in Walk(h, v) /\ Copied(h, x[2])
  BY EnteredWalk DEF Copying
<1>2. Len(x[1]) < MaxDepth
  BY <1>1 DEF Shallow, Copying
<1>3. s \in SlotsOf(h, x[2])
  BY <1>1 DEF Copied, SlotsOf
<1>4. x[2] \in DOMAIN E
  BY <1>1, EnteredFacts DEF Copied, IsCell
<1>5. s \in SlotsOf(E, x[2]) <=> <<x[2], s>> \notin R /\ Copied(h, u)
  <2>1. s \in SlotsOf(E, x[2]) <=> s \in DOMAIN E[x[2]].slots
    BY <1>4 DEF SlotsOf, IsCell
  <2>2. \A c \in DOMAIN E : \A t :
            t \in DOMAIN E[c].slots <=> t \in DOMAIN h[c].slots /\ <<c, t>> \notin R /\ Copied(h, h[c].slots[t])
    BY EnteredFacts
  <2> QED
    BY <1>4, <2>1, <2>2
<1>6. ASSUME s \in SlotsOf(E, x[2])
      PROVE  Along(h, x, s) \in Walk(E, v)
  <2>1. s \in DOMAIN E[x[2]].slots
    BY <1>4, <1>6 DEF SlotsOf, IsCell
  <2>2. E[x[2]].slots[s] = u
    BY <1>4, <2>1, EnteredSlot
  <2>3. Along(E, x, s) = Along(h, x, s)
    BY <2>2 DEF Along
  <2>4. Along(E, x, s) \in Walk(E, v)
    <3> HIDE DEF E
    <3>1. x \in Walk(E, v)
      BY DEF E
    <3> QED
      BY <1>2, <1>6, <3>1, WalkClosed
  <2> QED
    BY <2>3, <2>4
<1>7. Along(h, x, s)[1] = Append(x[1], s)
  BY DEF Along
<1>8. NewValue(h, n + 1, R, x, s) =
          IF <<x[2], s>> \in R THEN RedactedValue
          ELSE IF s \in SlotsOf(E, x[2]) THEN Cell(n + 1, Append(x[1], s)) ELSE u
  BY DEF NewValue
<1> HIDE DEF E, u
<1>9. CASE <<x[2], s>> \in R
  BY <1>1, <1>2, <1>3, <1>8, <1>9 DEF NewKinds
<1>10. CASE <<x[2], s>> \notin R /\ Copied(h, u)
  BY <1>1, <1>2, <1>3, <1>5, <1>6, <1>7, <1>8, <1>10 DEF E, u, NewKinds
<1>11. CASE <<x[2], s>> \notin R /\ ~Copied(h, u)
  BY <1>1, <1>2, <1>3, <1>5, <1>8, <1>11 DEF u, NewKinds
<1> QED
  BY <1>9, <1>10, <1>11

(* The merged heap: what was there stays as it is, the copy is new. *)
LEMMA MergedCells ==
    ASSUME NEW h, NEW n, NEW v, NEW R, NEW g, Copying(h, n, v, R, g)
    PROVE  /\ \A c \in DOMAIN h : c \in DOMAIN g /\ g[c] = h[c]
           /\ \A x \in Walk(Entered(h, R), v) :
                 /\ Cell(n + 1, x[1]) \in DOMAIN g /\ Cell(n + 1, x[1]) \notin DOMAIN h
                 /\ g[Cell(n + 1, x[1])] = NewCell(h, n + 1, R, x)
           /\ \A c \in DOMAIN g : c \in DOMAIN h \/
                 \E x \in Walk(Entered(h, R), v) : c = Cell(n + 1, x[1])
<1> DEFINE cells == CopyOf(h, n + 1, v, R)
           W == Walk(Entered(h, R), v)
<1>1. \A c : c \in DOMAIN cells <=> \E x \in W : c = Cell(n + 1, x[1])
  BY CopyFacts
<1>2. \A x \in W : cells[Cell(n + 1, x[1])] = NewCell(h, n + 1, R, x)
  BY CopyFacts
<1> HIDE DEF cells, W
<1>3. \A x \in W : Cell(n + 1, x[1]) \notin DOMAIN h
  <2> SUFFICES ASSUME NEW x \in W, Cell(n + 1, x[1]) \in DOMAIN h PROVE FALSE
    OBVIOUS
  <2>1. n \in Nat /\ Cell(n + 1, x[1])[2] \in 0..n
    BY DEF Copying, Shaped, ShapedCell
  <2> QED
    BY <2>1, CellParts
<1>4. g = Merged(h, cells)
  BY DEF Copying, cells
<1>5. DOMAIN g = DOMAIN h \cup DOMAIN cells
  BY <1>4 DEF Merged
<1>6. \A c \in DOMAIN g : g[c] = IF c \in DOMAIN cells THEN cells[c] ELSE h[c]
  BY <1>4 DEF Merged
<1>7. \A c \in DOMAIN h : c \in DOMAIN g /\ g[c] = h[c]
  BY <1>1, <1>3, <1>5, <1>6
<1>8. ASSUME NEW x \in W
      PROVE  /\ Cell(n + 1, x[1]) \in DOMAIN g /\ Cell(n + 1, x[1]) \notin DOMAIN h
             /\ g[Cell(n + 1, x[1])] = NewCell(h, n + 1, R, x)
  BY <1>1, <1>2, <1>3, <1>5, <1>6
<1>9. \A c \in DOMAIN g : c \in DOMAIN h \/ \E x \in W : c = Cell(n + 1, x[1])
  BY <1>1, <1>5
<1> QED
  BY <1>7, <1>8, <1>9 DEF W

LEMMA NewCellParts ==
    ASSUME NEW h, NEW k, NEW R, NEW x
    PROVE  /\ NewCell(h, k, R, x) = Content(NewCell(h, k, R, x).kind, NewCell(h, k, R, x).slots)
           /\ NewCell(h, k, R, x).kind = h[x[2]].kind
           /\ DOMAIN NewCell(h, k, R, x).slots = DOMAIN h[x[2]].slots
           /\ \A s \in DOMAIN h[x[2]].slots : NewCell(h, k, R, x).slots[s] = NewValue(h, k, R, x, s)
BY DEF NewCell, Content

Root(n) == Cell(n + 1, << >>)

LEMMA CopyRoot ==
    ASSUME NEW h, NEW n, NEW v, NEW R, NEW g, Copying(h, n, v, R, g)
    PROVE  Root(n) \in DOMAIN g /\ g[Root(n)].kind = h[v].kind /\ Root(n)[2] = n + 1
<1> DEFINE x == << << >>, v >>
<1>1. x \in Walk(Entered(h, R), v) /\ x[1] = << >> /\ x[2] = v
  BY WalkClosed
<1>2. Cell(n + 1, x[1]) \in DOMAIN g /\ g[Cell(n + 1, x[1])] = NewCell(h, n + 1, R, x)
  BY <1>1, MergedCells
<1> QED
  BY <1>1, <1>2, NewCellParts, CellParts DEF Root

(* What a slot of a copied cell holds, in terms of the merged heap. *)
LEMMA MergedValues ==
    ASSUME NEW h, NEW n, NEW v, NEW R, NEW g, Copying(h, n, v, R, g),
           NEW x \in Walk(Entered(h, R), v), NEW s \in DOMAIN h[x[2]].slots
    PROVE  LET u == NewValue(h, n + 1, R, x, s)
           IN  \/ u[1] # "cell"
               \/ u[1] = "cell" /\ u[2] = n + 1 /\ u \in DOMAIN g /\ u \notin DOMAIN h
<1> DEFINE u == NewValue(h, n + 1, R, x, s)
           w == h[x[2]].slots[s]
<1>1. n \in Nat /\ Shaped(h, n) /\ Copied(h, v) /\ Shallow(h, v)
  BY DEF Copying
<1>2. x[2] \in DOMAIN h
  BY <1>1, NewValues DEF Copied, IsCell
<1>3. CASE u = RedactedValue
  BY <1>3 DEF RedactedValue
<1>4. CASE u = Cell(n + 1, Along(h, x, s)[1]) /\ Along(h, x, s) \in Walk(Entered(h, R), v)
  BY <1>4, MergedCells, CellParts
<1>5. CASE u = w /\ ~Copied(h, w)
  <2>1. w[1] = "cell" => w \in DOMAIN h
    BY <1>1, <1>2 DEF Shaped, ShapedCell
  <2>2. w \notin DOMAIN h
    BY <1>1, <1>5 DEF Shaped, ShapedCell, Copied, IsCell
  <2> QED
    BY <1>5, <2>1, <2>2
<1> HIDE DEF u, w
<1>6. u = RedactedValue \/ (u = Cell(n + 1, Along(h, x, s)[1]) /\ Along(h, x, s) \in Walk(Entered(h, R), v))
                        \/ (u = w /\ ~Copied(h, w))
  <2>1. \/ NewValue(h, n + 1, R, x, s) = RedactedValue
        \/ /\ NewValue(h, n + 1, R, x, s) = Cell(n + 1, Along(h, x, s)[1])
           /\ Along(h, x, s) \in Walk(Entered(h, R), v)
        \/ /\ NewValue(h, n + 1, R, x, s) = h[x[2]].slots[s]
           /\ ~Copied(h, h[x[2]].slots[s])
    <3>1. NewKinds(h, n, v, R, x, s)
      BY NewValues
    <3> QED
      BY <3>1 DEF NewKinds
  <2> QED
    BY <2>1 DEF u, w
<1> QED
  BY <1>3, <1>4, <1>5, <1>6 DEF u

LEMMA MergedShaped ==
    ASSUME NEW h, NEW n, NEW v, NEW R, NEW g, Copying(h, n, v, R, g)
    PROVE  Shaped(g, n + 1)
<1>1. n \in Nat /\ Shaped(h, n) /\ Copied(h, v) /\ Shallow(h, v)
  BY DEF Copying
<1>2. ASSUME NEW c \in DOMAIN h
      PROVE  ShapedCell(g, n + 1, c)
  <2>1. \A d \in DOMAIN h : d \in DOMAIN g /\ g[d] = h[d]
    BY MergedCells
  <2> QED
    BY <1>1, <2>1 DEF Shaped, ShapedCell
<1>3. ASSUME NEW x \in Walk(Entered(h, R), v), NEW c, c = Cell(n + 1, x[1])
      PROVE  ShapedCell(g, n + 1, c)
  <2>1. g[c] = NewCell(h, n + 1, R, x)
    BY <1>3, MergedCells
  <2>2. x[2] \in DOMAIN h /\ h[x[2]].kind \in {"map", "array"}
    BY <1>1, EnteredWalk DEF Copied, IsCell
  <2>3. /\ g[c] = Content(g[c].kind, g[c].slots)
        /\ g[c].kind = h[x[2]].kind
        /\ DOMAIN g[c].slots = DOMAIN h[x[2]].slots
        /\ \A s \in DOMAIN h[x[2]].slots : g[c].slots[s] = NewValue(h, n + 1, R, x, s)
    BY <2>1, NewCellParts
  <2>4. ASSUME NEW s \in DOMAIN g[c].slots
        PROVE  /\ g[c].slots[s][1] = "cell" => g[c].slots[s] \in DOMAIN g
               /\ g[c].kind # "map" => ~IsFieldKeyToRedact(s)
    <3>1. g[c].slots[s] = NewValue(h, n + 1, R, x, s) /\ s \in DOMAIN h[x[2]].slots
      BY <2>3
    <3>2. NewValue(h, n + 1, R, x, s)[1] = "cell" => NewValue(h, n + 1, R, x, s) \in DOMAIN g
      BY <3>1, MergedValues
    <3>3. h[x[2]].kind # "map" => ~IsFieldKeyToRedact(s)
      BY <1>1, <2>2, <3>1 DEF Shaped, ShapedCell
    <3> QED
      BY <2>3, <3>1, <3>2, <3>3
  <2>5. c = Cell(c[2], c[3]) /\ c[2] \in 0..(n + 1)
    BY <1>1, <1>3, CellParts
  <2> QED
    BY <2>2, <2>3, <2>4, <2>5 DEF ShapedCell
<1>4. \A c \in DOMAIN g : c \in DOMAIN h \/ \E x \in Walk(Entered(h, R), v) : c = Cell(n + 1, x[1])
  BY MergedCells
<1> QED
  BY <1>2, <1>3, <1>4 DEF Shaped

(* X are the copies that belong to errors.  No cell of the others leads to one of
   them, nor theirs to another's. *)
Apart(h, X) ==
    \A c \in DOMAIN h : \A s \in DOMAIN h[c].slots :
        LET u == h[c].slots[s]
        IN u \in DOMAIN h => u[2] = c[2] \/ (c[2] \notin X /\ u[2] \notin X)

LEMMA MergedApart ==
    ASSUME NEW h, NEW n, NEW v, NEW R, NEW g, Copying(h, n, v, R, g), NEW X, Apart(h, X)
    PROVE  Apart(g, X) /\ Apart(g, X \cup {n + 1})
<1>1. n \in Nat /\ Shaped(h, n) /\ Copied(h, v) /\ Shallow(h, v)
  BY DEF Copying
<1>2. \A c \in DOMAIN h : c \in DOMAIN g /\ g[c] = h[c]
  BY MergedCells
<1>3. ASSUME NEW c \in DOMAIN h, NEW s \in DOMAIN h[c].slots,
             h[c].slots[s] \in DOMAIN g, NEW Y \in {X, X \cup {n + 1}}
      PROVE  LET u == h[c].slots[s]
             IN  u[2] = c[2] \/ (c[2] \notin Y /\ u[2] \notin Y)
  <2> DEFINE u == h[c].slots[s]
  <2>1. u[1] = "cell"
    <3>1. Shaped(g, n + 1)
      BY MergedShaped
    <3> QED
      BY <1>3, <3>1, CellsAreCells
  <2>2. u \in DOMAIN h
    BY <1>1, <2>1 DEF Shaped, ShapedCell
  <2>3. u[2] \in 0..n /\ c[2] \in 0..n
    BY <1>1, <2>2 DEF Shaped, ShapedCell
  <2>4. u[2] # n + 1 /\ c[2] # n + 1
    BY <1>1, <2>3
  <2>5. u[2] = c[2] \/ (c[2] \notin X /\ u[2] \notin X)
    BY <1>3, <2>2 DEF Apart
  <2> HIDE DEF u
  <2> QED
    BY <1>2, <2>2, <2>4, <2>5 DEF u
<1>4. ASSUME NEW x \in Walk(Entered(h, R), v), NEW c, c = Cell(n + 1, x[1]),
             NEW s \in DOMAIN g[c].slots, g[c].slots[s] \in DOMAIN g
      PROVE  g[c].slots[s][2] = c[2]
  <2>1. g[c] = NewCell(h, n + 1, R, x)
    BY <1>4, MergedCells
  <2>2. s \in DOMAIN h[x[2]].slots /\ g[c].slots[s] = NewValue(h, n + 1, R, x, s)
    BY <2>1, NewCellParts
  <2>3. g[c].slots[s][1] = "cell"
    <3>1. Shaped(g, n + 1)
      BY MergedShaped
    <3> QED
      BY <1>4, <3>1, CellsAreCells
  <2>4. g[c].slots[s][2] = n + 1
    BY <2>2, <2>3, MergedValues
  <2> QED
    BY <1>4, <2>4, CellParts
<1>5. \A c \in DOMAIN g : c \in DOMAIN h \/ \E x \in Walk(Entered(h, R), v) : c = Cell(n + 1, x[1])
  BY MergedCells
<1>6. ASSUME NEW Y \in {X, X \cup {n + 1}}
      PROVE  Apart(g, Y)
  <2> SUFFICES ASSUME NEW c \in DOMAIN g, NEW s \in DOMAIN g[c].slots,
                      g[c].slots[s] \in DOMAIN g
               PROVE  \/ g[c].slots[s][2] = c[2]
                      \/ c[2] \notin Y /\ g[c].slots[s][2] \notin Y
    BY DEF Apart
  <2>1. CASE c \in DOMAIN h
    BY <1>2, <1>3, <2>1
  <2>2. CASE c \notin DOMAIN h
    BY <1>4, <1>5, <2>2
  <2> QED
    BY <2>1, <2>2
<1> QED
  BY <1>6

(* Where a reader of the copy is, in the original. *)
Counterpart(h, n, v, R, g, y, x) ==
    /\ x \in Walk(h, v) /\ x[1] = y[1]
    /\ \/ y[2] \notin DOMAIN g
       \/ y[2] = x[2] /\ y[2] \in DOMAIN h
       \/ y[2] = Cell(n + 1, x[1]) /\ x \in Walk(Entered(h, R), v)

LEMMA CounterpartNext ==
    ASSUME NEW h, NEW n, NEW v, NEW R, NEW g, Copying(h, n, v, R, g),
           NEW y, NEW x, Counterpart(h, n, v, R, g, y, x), NEW s \in SlotsOf(g, y[2])
    PROVE  Counterpart(h, n, v, R, g, Along(g, y, s), Along(h, x, s))
<1>1. n \in Nat /\ Shaped(h, n) /\ Copied(h, v) /\ Shallow(h, v)
  BY DEF Copying
<1>2. y[2] \in DOMAIN g /\ s \in DOMAIN g[y[2]].slots
  BY DEF SlotsOf, IsCell
<1>3. x \in Walk(h, v) /\ x[1] = y[1] /\ Len(x[1]) < MaxDepth
  BY <1>1 DEF Counterpart, Shallow
<1>4. Along(g, y, s)[1] = Along(h, x, s)[1]
  BY <1>3 DEF Along
<1>5. Along(g, y, s)[2] = g[y[2]].slots[s] /\ Along(h, x, s)[2] = h[x[2]].slots[s]
  BY DEF Along
<1>6. \A u : u \in DOMAIN g => u[1] = "cell"
  BY MergedShaped, CellsAreCells
<1>7. CASE y[2] = x[2] /\ y[2] \in DOMAIN h
  <2>1. g[x[2]] = h[x[2]]
    BY <1>7, MergedCells
  <2>2. s \in SlotsOf(h, x[2])
    BY <1>2, <1>7, <2>1 DEF SlotsOf, IsCell
  <2>3. Along(h, x, s) \in Walk(h, v)
    BY <1>3, <2>2, WalkClosed
  <2>4. Along(g, y, s)[2] = Along(h, x, s)[2]
    BY <1>5, <1>7, <2>1
  <2>5. Along(h, x, s)[2][1] = "cell" => Along(h, x, s)[2] \in DOMAIN h
    <3>1. x[2] \in DOMAIN h /\ s \in DOMAIN h[x[2]].slots
      BY <1>7, <2>2 DEF SlotsOf, IsCell
    <3> QED
      BY <1>1, <1>5, <3>1 DEF Shaped, ShapedCell
  <2> QED
    BY <1>4, <1>6, <2>3, <2>4, <2>5 DEF Counterpart
<1>8. CASE y[2] = Cell(n + 1, x[1]) /\ x \in Walk(Entered(h, R), v)
  <2>1. g[y[2]] = NewCell(h, n + 1, R, x)
    BY <1>8, MergedCells
  <2>2. s \in DOMAIN h[x[2]].slots /\ Along(g, y, s)[2] = NewValue(h, n + 1, R, x, s)
    BY <1>2, <1>5, <2>1, NewCellParts
  <2>3. NewKinds(h, n, v, R, x, s) /\ s \in SlotsOf(h, x[2])
    BY <1>8, <2>2, NewValues
  <2>4. Along(h, x, s) \in Walk(h, v)
    BY <1>3, <2>3, WalkClosed
  <2>5. CASE Along(g, y, s)[2] = RedactedValue
    <3>1. RedactedValue \notin DOMAIN g
      BY <1>6 DEF RedactedValue
    <3> QED
      BY <1>4, <2>4, <2>5, <3>1 DEF Counterpart
  <2>6. CASE /\ Along(g, y, s)[2] = Cell(n + 1, Along(h, x, s)[1])
             /\ Along(h, x, s) \in Walk(Entered(h, R), v)
    BY <1>4, <2>4, <2>6 DEF Counterpart
  <2>7. CASE Along(g, y, s)[2] = Along(h, x, s)[2]
    <3>1. Along(h, x, s)[2][1] = "cell" => Along(h, x, s)[2] \in DOMAIN h
      <4>1. x[2] \in DOMAIN h
        BY <1>8, NewValues, <2>2 DEF Copied, IsCell
      <4> QED
        BY <1>1, <1>5, <2>2, <4>1 DEF Shaped, ShapedCell
    <3> QED
      BY <1>4, <1>6, <2>4, <2>7, <3>1 DEF Counterpart
  <2>8. \/ Along(g, y, s)[2] = RedactedValue
        \/ /\ Along(g, y, s)[2] = Cell(n + 1, Along(h, x, s)[1])
           /\ Along(h, x, s) \in Walk(Entered(h, R), v)
        \/ Along(g, y, s)[2] = Along(h, x, s)[2]
    BY <1>5, <2>2, <2>3 DEF NewKinds
  <2> QED
    BY <2>5, <2>6, <2>7, <2>8
<1> QED
  BY <1>2, <1>7, <1>8 DEF Counterpart

(* A copy is as deep as the original. *)
LEMMA MergedShallow ==
    ASSUME NEW h, NEW n, NEW v, NEW R, NEW g, Copying(h, n, v, R, g)
    PROVE  Shallow(g, Root(n))
<1> DEFINE C == {y \in Walk(g, Root(n)) : \E x : Counterpart(h, n, v, R, g, y, x)}
<1>1. << << >>, Root(n) >> \in C
  <2> DEFINE x == << << >>, v >>
             y == << << >>, Root(n) >>
  <2>1. x \in Walk(h, v) /\ x \in Walk(Entered(h, R), v) /\ y \in Walk(g, Root(n))
    BY WalkClosed
  <2>2. x[1] = << >> /\ y[1] = << >> /\ y[2] = Cell(n + 1, << >>)
    BY DEF Root
  <2>3. Counterpart(h, n, v, R, g, y, x)
    BY <2>1, <2>2 DEF Counterpart
  <2> QED
    BY <2>1, <2>3
<1>2. ASSUME NEW y \in C, Len(y[1]) < MaxDepth, NEW s \in SlotsOf(g, y[2])
      PROVE  Along(g, y, s) \in C
  <2>1. PICK x : Counterpart(h, n, v, R, g, y, x)
    OBVIOUS
  <2>2. Counterpart(h, n, v, R, g, Along(g, y, s), Along(h, x, s))
    BY <2>1, CounterpartNext
  <2>3. Along(g, y, s) \in Walk(g, Root(n))
    BY <1>2, WalkClosed
  <2> QED
    BY <2>2, <2>3
<1>3. Walk(g, Root(n)) \subseteq C
  <2> HIDE DEF C
  <2> QED
    BY <1>1, <1>2, WalkWithin
<1>4. ASSUME NEW y \in Walk(g, Root(n)) PROVE Len(y[1]) < MaxDepth
  <2>1. PICK x : Counterpart(h, n, v, R, g, y, x)
    BY <1>3
  <2> QED
    BY <2>1 DEF Counterpart, Copying, Shallow
<1> QED
  BY <1>4 DEF Shallow

(* Who reads what was there before sees what was there before. *)
LEMMA MergedTrees ==
    ASSUME NEW h, NEW n, NEW v, NEW R, NEW g, Copying(h, n, v, R, g),
           NEW u, u \in DOMAIN h \/ u \notin DOMAIN g
    PROVE  Walk(g, u) = Walk(h, u) /\ Tree(g, u) = Tree(h, u)
<1> DEFINE Values == UNION {{h[c].slots[s] : s \in DOMAIN h[c].slots} : c \in DOMAIN h}
           A == {w \in DOMAIN h \cup Values \cup {u} : w \in DOMAIN g => w \in DOMAIN h}
<1>1. \A c \in DOMAIN h : c \in DOMAIN g /\ g[c] = h[c]
  BY MergedCells
<1>2. Shaped(h, n)
  BY DEF Copying
<1>3. \A w \in DOMAIN g : w[1] = "cell"
  BY MergedShaped, CellsAreCells
<1>4. ASSUME NEW c \in DOMAIN h, NEW s \in DOMAIN h[c].slots
      PROVE  h[c].slots[s] \in A
  <2>1. h[c].slots[s] \in Values
    OBVIOUS
  <2>2. h[c].slots[s] \in DOMAIN g => h[c].slots[s] \in DOMAIN h
    BY <1>2, <1>3 DEF Shaped, ShapedCell
  <2> QED
    BY <2>1, <2>2
<1>5. u \in A
  BY <1>1
<1>6. \A w \in A : w \in DOMAIN h <=> w \in DOMAIN g
  BY <1>1
<1> HIDE DEF A
<1>7. Agree(g, h, A)
  BY <1>1, <1>4, <1>6 DEF Agree
<1> QED
  BY <1>5, <1>7, SameTree

---------------------------------------------------------------------------
(* The state.                                                               *)

MapIn(h, m) == m \in DOMAIN h /\ h[m].kind = "map" /\ Shallow(h, m)

\* The copies that belong to errors.
ErrorCopies == {errors[e][2] : e \in {d \in DOMAIN errors : errors[d] # Nil}}

(* What callers hold is apart from what errors hold, but for typed values. *)
Inv ==
    /\ query \in Queries
    /\ copies \in Nat /\ copies <= MaxCopies
    /\ writes \in Nat /\ writes <= MaxWrites
    /\ elements \in [TypedValues -> Leaves \cup {Nil}]
    /\ errors \in Seq({Nil} \cup DOMAIN heap) /\ Len(errors) <= MaxErrors
    /\ Shaped(heap, copies)
    /\ Apart(heap, ErrorCopies)
    /\ \A m \in held : MapIn(heap, m) /\ m[2] \notin ErrorCopies
    /\ \A e \in DOMAIN errors : errors[e] = Nil \/ MapIn(heap, errors[e])

(* The values that are reached from a map of X, or from one that is not of X. *)
LEMMA StaysApart ==
    ASSUME NEW h, NEW n, Shaped(h, n), NEW X, Apart(h, X), NEW m \in DOMAIN h
    PROVE  /\ m[2] \notin X => \A x \in Walk(h, m) :
                 x[2] \in DOMAIN h => x[2][2] \notin X
           /\ m[2] \in X => \A x \in Walk(h, m) :
                 x[2] \in DOMAIN h => x[2][2] = m[2]
<1> DEFINE Values == UNION {{h[c].slots[s] : s \in DOMAIN h[c].slots} : c \in DOMAIN h}
           A == {u \in DOMAIN h \cup Values : u \in DOMAIN h => u[2] \notin X}
           B == {u \in DOMAIN h \cup Values : u \in DOMAIN h => u[2] = m[2]}
<1>1. ASSUME NEW c \in DOMAIN h, NEW s \in DOMAIN h[c].slots
      PROVE  LET u == h[c].slots[s]
             IN  /\ u \in DOMAIN h \cup Values
                 /\ u \in DOMAIN h => u[2] = c[2] \/ (c[2] \notin X /\ u[2] \notin X)
  <2> DEFINE u == h[c].slots[s]
  <2>1. u \in Values
    OBVIOUS
  <2>2. u \in DOMAIN h => u[2] = c[2] \/ (c[2] \notin X /\ u[2] \notin X)
    BY DEF Apart
  <2> QED
    BY <2>1, <2>2
<1>2. ASSUME m[2] \notin X
      PROVE  \A x \in Walk(h, m) : x[2] \in A
  <2>1. m \in A
    BY <1>2
  <2>2. \A u \in A : u \in DOMAIN h => \A s \in DOMAIN h[u].slots : h[u].slots[s] \in A
    BY <1>1
  <2> HIDE DEF A
  <2> QED
    BY <2>1, <2>2, WalkStaysWithin
<1>3. ASSUME m[2] \in X
      PROVE  \A x \in Walk(h, m) : x[2] \in B
  <2>1. m \in B
    OBVIOUS
  <2>2. \A u \in B : u \in DOMAIN h => \A s \in DOMAIN h[u].slots : h[u].slots[s] \in B
    BY <1>1, <1>3
  <2> HIDE DEF B
  <2> QED
    BY <2>1, <2>2, WalkStaysWithin
<1> QED
  BY <1>2, <1>3

LEMMA ErrorCopiesBound ==
    ASSUME Inv
    PROVE  /\ ErrorCopies \subseteq 0..copies
           /\ \A m \in held : m[2] \in 0..copies
           /\ \A e \in DOMAIN errors : errors[e] # Nil => errors[e][2] \in ErrorCopies
           /\ copies + 1 \notin ErrorCopies
<1>1. \A c \in DOMAIN heap : c[2] \in 0..copies
  BY DEF Inv, Shaped, ShapedCell
<1>2. ErrorCopies \subseteq 0..copies
  BY <1>1 DEF Inv, ErrorCopies, MapIn
<1>3. copies + 1 \notin ErrorCopies
  BY <1>2 DEF Inv
<1> QED
  BY <1>1, <1>2, <1>3 DEF Inv, MapIn, ErrorCopies

(* A step that makes a copy. *)
LEMMA CopyStep ==
    ASSUME Inv, NEW m, MapIn(heap, m), NEW R, copies < MaxCopies, copies' = copies + 1,
           heap' = Merged(heap, CopyOf(heap, copies + 1, m, R))
    PROVE  /\ copies' \in Nat /\ copies' <= MaxCopies
           /\ Shaped(heap', copies')
           /\ Apart(heap', ErrorCopies) /\ Apart(heap', ErrorCopies \cup {copies + 1})
           /\ MapIn(heap', Root(copies)) /\ Root(copies)[2] = copies + 1
           /\ \A u : MapIn(heap, u) => MapIn(heap', u)
           /\ \A c \in DOMAIN heap : c \in DOMAIN heap'
           /\ \A e \in DOMAIN errors : Tree(heap', errors[e]) = Tree(heap, errors[e])
<1>1. Copying(heap, copies, m, R, heap')
  BY DEF Copying, Inv, MapIn, Copied, IsCell
<1>2. copies' \in Nat /\ copies' <= MaxCopies
  BY DetailsAssumption DEF Inv
<1>3. Shaped(heap', copies')
  BY <1>1, MergedShaped
<1>4. Apart(heap', ErrorCopies) /\ Apart(heap', ErrorCopies \cup {copies + 1})
  BY <1>1, MergedApart DEF Inv
<1>5. MapIn(heap', Root(copies)) /\ Root(copies)[2] = copies + 1
  BY <1>1, CopyRoot, MergedShallow DEF MapIn
<1>6. \A c \in DOMAIN heap : c \in DOMAIN heap' /\ heap'[c] = heap[c]
  BY <1>1, MergedCells
<1>7. ASSUME NEW u, MapIn(heap, u) PROVE MapIn(heap', u)
  <2>1. Walk(heap', u) = Walk(heap, u)
    BY <1>1, <1>7, MergedTrees DEF MapIn
  <2> QED
    BY <1>6, <1>7, <2>1 DEF MapIn, Shallow
<1>8. ASSUME NEW e \in DOMAIN errors PROVE Tree(heap', errors[e]) = Tree(heap, errors[e])
  <2>1. Nil \notin DOMAIN heap'
    <3>1. \A c \in DOMAIN heap' : c[1] = "cell"
      BY <1>3, CellsAreCells
    <3> QED
      BY <3>1 DEF Nil
  <2>2. errors[e] \in DOMAIN heap \/ errors[e] \notin DOMAIN heap'
    BY <2>1 DEF Inv, MapIn
  <2> QED
    BY <1>1, <2>2, MergedTrees
<1> QED
  BY <1>2, <1>3, <1>4, <1>5, <1>6, <1>7, <1>8

Contents ==
    \A e \in DOMAIN errors :
        errors'[e] = errors[e] /\ Tree(heap', errors'[e]) = Tree(heap, errors[e])

(* A step that makes an error. *)
LEMMA ErrorStep ==
    ASSUME Inv, NEW d, d = Nil \/ d \in DOMAIN heap', AddError(d),
           \A c \in DOMAIN heap : c \in DOMAIN heap'
    PROVE  /\ errors' \in Seq({Nil} \cup DOMAIN heap') /\ Len(errors') <= MaxErrors
           /\ \A e \in DOMAIN errors : e \in DOMAIN errors' /\ errors'[e] = errors[e]
           /\ \A e \in DOMAIN errors' : e \in DOMAIN errors \/ errors'[e] = d
           /\ d = Nil => ErrorCopies' = ErrorCopies
           /\ d # Nil => ErrorCopies' = ErrorCopies \cup {d[2]}
<1> DEFINE S == {Nil} \cup DOMAIN heap
           T == {Nil} \cup DOMAIN heap'
<1>1. errors \in Seq(S)
  BY DEF Inv
<1>2. S \subseteq T
  OBVIOUS
<1> HIDE DEF S
<1>3. errors \in Seq(T)
  <2> HIDE DEF T
  <2> QED
    BY <1>1, <1>2, SeqMonotonic
<1>4. d \in T /\ errors' = Append(errors, d) /\ Len(errors) < MaxErrors
  BY DEF AddError
<1> HIDE DEF T
<1>5. /\ Append(errors, d) \in Seq(T)
      /\ Len(Append(errors, d)) = Len(errors) + 1
      /\ \A i \in 1..Len(errors) : Append(errors, d)[i] = errors[i]
      /\ Append(errors, d)[Len(errors) + 1] = d
  BY <1>3, <1>4, AppendProperties
<1>6. /\ Len(errors) \in Nat /\ DOMAIN errors = 1..Len(errors)
      /\ DOMAIN errors' = 1..Len(errors')
  <2>1. errors' \in Seq(T)
    BY <1>4, <1>5
  <2> QED
    BY <1>3, <2>1, LenProperties
<1>7. Len(errors') <= MaxErrors
  BY <1>4, <1>5, <1>6, DetailsAssumption
<1>8. \A e \in DOMAIN errors : e \in DOMAIN errors' /\ errors'[e] = errors[e]
  BY <1>4, <1>5, <1>6
<1>9. \A e \in DOMAIN errors' : e \in DOMAIN errors \/ errors'[e] = d
  BY <1>4, <1>5, <1>6
<1>10. \E e \in DOMAIN errors' : errors'[e] = d
  <2>1. Len(errors) + 1 \in DOMAIN errors'
    BY <1>4, <1>5, <1>6
  <2> QED
    BY <1>4, <1>5, <2>1
<1>11. ErrorCopies' = {errors'[e][2] : e \in {f \in DOMAIN errors' : errors'[f] # Nil}}
  BY DEF ErrorCopies
<1>12. d = Nil => ErrorCopies' = ErrorCopies
  BY <1>8, <1>9, <1>11 DEF ErrorCopies
<1>13. d # Nil => ErrorCopies' = ErrorCopies \cup {d[2]}
  BY <1>8, <1>9, <1>10, <1>11 DEF ErrorCopies
<1> QED
  BY <1>4, <1>5, <1>7, <1>8, <1>9, <1>12, <1>13 DEF T

LEMMA NewStep ==
    ASSUME Inv, New
    PROVE  Inv' /\ Contents
<1>1. heap' = heap /\ AddError(Nil) /\ UNCHANGED <<query, elements, held, copies, writes>>
  BY DEF New
<1>2. /\ errors' \in Seq({Nil} \cup DOMAIN heap') /\ Len(errors') <= MaxErrors
      /\ \A e \in DOMAIN errors : e \in DOMAIN errors' /\ errors'[e] = errors[e]
      /\ \A e \in DOMAIN errors' : e \in DOMAIN errors \/ errors'[e] = Nil
      /\ ErrorCopies' = ErrorCopies
  BY <1>1, ErrorStep
<1>3. Contents
  BY <1>1, <1>2 DEF Contents
<1>4. \A e \in DOMAIN errors' : errors'[e] = Nil \/ MapIn(heap', errors'[e])
  BY <1>1, <1>2 DEF Inv
<1>5. Shaped(heap', copies') /\ Apart(heap', ErrorCopies')
  BY <1>1, <1>2 DEF Inv
<1>6. \A m \in held' : MapIn(heap', m) /\ m[2] \notin ErrorCopies'
  BY <1>1, <1>2 DEF Inv
<1>7. /\ query' \in Queries /\ elements' \in [TypedValues -> Leaves \cup {Nil}]
      /\ copies' \in Nat /\ copies' <= MaxCopies /\ writes' \in Nat /\ writes' <= MaxWrites
  BY <1>1 DEF Inv
<1> QED
  BY <1>2, <1>3, <1>4, <1>5, <1>6, <1>7 DEF Inv

LEMMA WrapStep ==
    ASSUME Inv, NEW e \in DOMAIN errors, Wrap(e)
    PROVE  Inv' /\ Contents
<1>1. heap' = heap /\ AddError(errors[e]) /\ UNCHANGED <<query, elements, held, copies, writes>>
  BY DEF Wrap
<1>2. errors[e] = Nil \/ MapIn(heap, errors[e])
  BY DEF Inv
<1>3. errors[e] # Nil => errors[e][2] \in ErrorCopies
  BY DEF ErrorCopies
<1>4. /\ errors' \in Seq({Nil} \cup DOMAIN heap') /\ Len(errors') <= MaxErrors
      /\ \A f \in DOMAIN errors : f \in DOMAIN errors' /\ errors'[f] = errors[f]
      /\ \A f \in DOMAIN errors' : f \in DOMAIN errors \/ errors'[f] = errors[e]
      /\ ErrorCopies' = ErrorCopies
  <2> DEFINE d == errors[e]
  <2>1. d = Nil \/ d \in DOMAIN heap'
    BY <1>1, <1>2 DEF MapIn
  <2>2. AddError(d)
    BY <1>1
  <2>3. d = Nil => ErrorCopies' = ErrorCopies
    <3> HIDE DEF d
    <3> QED
      BY <1>1, <2>1, <2>2, ErrorStep
  <2>4. d # Nil => ErrorCopies' = ErrorCopies \cup {d[2]}
    <3> HIDE DEF d
    <3> QED
      BY <1>1, <2>1, <2>2, ErrorStep
  <2>5. /\ errors' \in Seq({Nil} \cup DOMAIN heap') /\ Len(errors') <= MaxErrors
        /\ \A f \in DOMAIN errors : f \in DOMAIN errors' /\ errors'[f] = errors[f]
        /\ \A f \in DOMAIN errors' : f \in DOMAIN errors \/ errors'[f] = d
    <3> HIDE DEF d
    <3> QED
      BY <1>1, <2>1, <2>2, ErrorStep
  <2> QED
    BY <1>3, <2>3, <2>4, <2>5
<1>5. Contents
  BY <1>1, <1>4 DEF Contents
<1>6. \A f \in DOMAIN errors' : errors'[f] = Nil \/ MapIn(heap', errors'[f])
  BY <1>1, <1>2, <1>4 DEF Inv
<1>7. Shaped(heap', copies') /\ Apart(heap', ErrorCopies')
  BY <1>1, <1>4 DEF Inv
<1>8. \A m \in held' : MapIn(heap', m) /\ m[2] \notin ErrorCopies'
  BY <1>1, <1>4 DEF Inv
<1>9. /\ query' \in Queries /\ elements' \in [TypedValues -> Leaves \cup {Nil}]
      /\ copies' \in Nat /\ copies' <= MaxCopies /\ writes' \in Nat /\ writes' <= MaxWrites
  BY <1>1 DEF Inv
<1> QED
  BY <1>4, <1>5, <1>6, <1>7, <1>8, <1>9 DEF Inv

LEMMA WithDetailsStep ==
    ASSUME Inv, NEW m \in held, WithDetails(m)
    PROVE  Inv' /\ Contents
<1>1. /\ copies < MaxCopies /\ copies' = copies + 1
      /\ heap' = Merged(heap, CopyOf(heap, copies + 1, m, {}))
      /\ AddError(Root(copies)) /\ UNCHANGED <<query, elements, held, writes>>
  BY DEF WithDetails, Put, cloneDetails, Root, NewCopy
<1>2. MapIn(heap, m)
  BY DEF Inv
<1>3. /\ copies' \in Nat /\ copies' <= MaxCopies
      /\ Shaped(heap', copies')
      /\ Apart(heap', ErrorCopies) /\ Apart(heap', ErrorCopies \cup {copies + 1})
      /\ MapIn(heap', Root(copies)) /\ Root(copies)[2] = copies + 1
      /\ \A u : MapIn(heap, u) => MapIn(heap', u)
      /\ \A c \in DOMAIN heap : c \in DOMAIN heap'
      /\ \A e \in DOMAIN errors : Tree(heap', errors[e]) = Tree(heap, errors[e])
  BY <1>1, <1>2, CopyStep
<1>4. Root(copies) \in DOMAIN heap' /\ Root(copies) # Nil
  <2>1. Root(copies)[1] = "cell"
    BY CellParts DEF Root
  <2> QED
    BY <1>3, <2>1 DEF MapIn, Nil
<1> DEFINE d == Root(copies)
<1>5. /\ errors' \in Seq({Nil} \cup DOMAIN heap') /\ Len(errors') <= MaxErrors
      /\ \A e \in DOMAIN errors : e \in DOMAIN errors' /\ errors'[e] = errors[e]
      /\ \A e \in DOMAIN errors' : e \in DOMAIN errors \/ errors'[e] = d
      /\ ErrorCopies' = ErrorCopies \cup {d[2]}
  <2> HIDE DEF d
  <2>1. d \in DOMAIN heap' /\ d # Nil /\ AddError(d)
    BY <1>1, <1>4 DEF d
  <2> QED
    BY <1>3, <2>1, ErrorStep
<1>6. ErrorCopies' = ErrorCopies \cup {copies + 1}
  BY <1>3, <1>5
<1>7. Contents
  BY <1>3, <1>5 DEF Contents
<1>8. \A e \in DOMAIN errors' : errors'[e] = Nil \/ MapIn(heap', errors'[e])
  <2> TAKE e \in DOMAIN errors'
  <2>1. CASE e \in DOMAIN errors
    BY <1>3, <1>5, <2>1 DEF Inv
  <2>2. CASE errors'[e] = d
    BY <1>3, <2>2
  <2> QED
    BY <1>5, <2>1, <2>2
<1>9. \A u \in held' : MapIn(heap', u) /\ u[2] \notin ErrorCopies'
  <2> TAKE u \in held'
  <2>1. MapIn(heap, u) /\ u[2] \notin ErrorCopies /\ u[2] \in 0..copies
    BY <1>1, ErrorCopiesBound DEF Inv
  <2>2. u[2] # copies + 1
    BY <2>1 DEF Inv
  <2> QED
    BY <1>3, <1>6, <2>1, <2>2
<1>10. /\ query' \in Queries /\ elements' \in [TypedValues -> Leaves \cup {Nil}]
       /\ writes' \in Nat /\ writes' <= MaxWrites
  BY <1>1 DEF Inv
<1>11. Apart(heap', ErrorCopies')
  BY <1>3, <1>6
<1> QED
  BY <1>3, <1>5, <1>7, <1>8, <1>9, <1>10, <1>11 DEF Inv

(* A step that gives a copy to a caller. *)
LEMMA GivenStep ==
    ASSUME Inv, NEW m, MapIn(heap, m), NEW R, Put(CopyOf(heap, copies + 1, m, R)),
           held' = held \cup {NewCopy}, UNCHANGED <<query, elements, errors, writes>>
    PROVE  Inv' /\ Contents
<1>1. /\ copies < MaxCopies /\ copies' = copies + 1
      /\ heap' = Merged(heap, CopyOf(heap, copies + 1, m, R))
  BY DEF Put
<1>2. /\ copies' \in Nat /\ copies' <= MaxCopies
      /\ Shaped(heap', copies')
      /\ Apart(heap', ErrorCopies)
      /\ MapIn(heap', Root(copies)) /\ Root(copies)[2] = copies + 1
      /\ \A u : MapIn(heap, u) => MapIn(heap', u)
      /\ \A c \in DOMAIN heap : c \in DOMAIN heap'
      /\ \A e \in DOMAIN errors : Tree(heap', errors[e]) = Tree(heap, errors[e])
  BY <1>1, CopyStep
<1>3. ErrorCopies' = ErrorCopies
  BY DEF ErrorCopies
<1>4. Contents
  BY <1>2 DEF Contents
<1>5. errors' \in Seq({Nil} \cup DOMAIN heap')
  <2>1. {Nil} \cup DOMAIN heap \subseteq {Nil} \cup DOMAIN heap'
    BY <1>2
  <2>2. errors \in Seq({Nil} \cup DOMAIN heap) /\ errors' = errors
    BY DEF Inv
  <2> DEFINE S == {Nil} \cup DOMAIN heap
             T == {Nil} \cup DOMAIN heap'
  <2>3. S \subseteq T /\ errors \in Seq(S)
    BY <2>1, <2>2
  <2> HIDE DEF S, T
  <2>4. errors \in Seq(T)
    BY <2>3, SeqMonotonic
  <2> QED
    BY <2>2, <2>4 DEF T
<1>6. \A e \in DOMAIN errors' : errors'[e] = Nil \/ MapIn(heap', errors'[e])
  BY <1>2 DEF Inv
<1>7. \A u \in held' : MapIn(heap', u) /\ u[2] \notin ErrorCopies'
  <2> TAKE u \in held'
  <2>1. CASE u \in held
    BY <1>2, <1>3, <2>1 DEF Inv
  <2>2. CASE u = Root(copies)
    <3>1. copies + 1 \notin ErrorCopies
      BY ErrorCopiesBound
    <3> QED
      BY <1>2, <1>3, <2>2, <3>1
  <2>3. NewCopy = Root(copies)
    BY DEF NewCopy, Root
  <2> QED
    BY <2>1, <2>2, <2>3
<1>8. /\ query' \in Queries /\ elements' \in [TypedValues -> Leaves \cup {Nil}]
      /\ writes' \in Nat /\ writes' <= MaxWrites
      /\ Len(errors') <= MaxErrors
  BY DEF Inv
<1>9. Apart(heap', ErrorCopies')
  BY <1>2, <1>3
<1> QED
  BY <1>2, <1>4, <1>5, <1>6, <1>7, <1>8, <1>9 DEF Inv

LEMMA DetailsStep ==
    ASSUME Inv, NEW e \in DOMAIN errors, Details(e)
    PROVE  Inv' /\ Contents
<1>1. MapIn(heap, errors[e])
  BY DEF Details, Inv
<1>2. Put(CopyOf(heap, copies + 1, errors[e], {}))
  BY DEF Details, cloneDetails
<1> DEFINE m == errors[e]
           R == {}
<1>3. MapIn(heap, m) /\ Put(CopyOf(heap, copies + 1, m, R))
  BY <1>1, <1>2
<1>4. held' = held \cup {NewCopy} /\ UNCHANGED <<query, elements, errors, writes>>
  BY DEF Details
<1> HIDE DEF m, R
<1> QED
  BY <1>3, <1>4, GivenStep

LEMMA LogDetailsStep ==
    ASSUME Inv, NEW m \in held, LogDetails(m)
    PROVE  Inv' /\ Contents
<1>1. MapIn(heap, m)
  BY DEF Inv
<1> DEFINE R == ToRedact(heap)
<1>2. Put(CopyOf(heap, copies + 1, m, R))
  BY DEF LogDetails, RedactMap
<1>3. held' = held \cup {NewCopy} /\ UNCHANGED <<query, elements, errors, writes>>
  BY DEF LogDetails
<1> HIDE DEF R
<1> QED
  BY <1>1, <1>2, <1>3, GivenStep

(* What a write leaves of a heap. *)
Written(h, c, s, v, g) ==
    /\ DOMAIN g = DOMAIN h
    /\ \A d \in DOMAIN h : d # c => g[d] = h[d]
    /\ g[c] = Content(h[c].kind, g[c].slots)
    /\ DOMAIN g[c].slots = DOMAIN h[c].slots \cup {s}
    /\ g[c].slots[s] = v
    /\ \A t \in DOMAIN h[c].slots : t # s => g[c].slots[t] = h[c].slots[t]

LEMMA WriteIsWritten ==
    ASSUME Inv, NEW c \in DOMAIN heap, NEW s, NEW v, Write(c, s, v)
    PROVE  Written(heap, c, s, v, heap')
<1>1. heap' = [heap EXCEPT ![c].slots = Merged(@, [t \in {s} |-> v])]
  BY DEF Write
<1>2. heap[c] = Content(heap[c].kind, heap[c].slots)
  BY DEF Inv, Shaped, ShapedCell
<1> DEFINE f == Merged(heap[c].slots, [t \in {s} |-> v])
<1>3. /\ DOMAIN f = DOMAIN heap[c].slots \cup {s}
      /\ f[s] = v
      /\ \A t \in DOMAIN heap[c].slots : t # s => f[t] = heap[c].slots[t]
  BY DEF Merged
<1> HIDE DEF f
<1>4. heap' = [heap EXCEPT ![c].slots = f]
  BY <1>1 DEF f
<1>5. DOMAIN heap' = DOMAIN heap /\ \A d \in DOMAIN heap : d # c => heap'[d] = heap[d]
  BY <1>4
<1>6. heap'[c] = [heap[c] EXCEPT !.slots = f]
  BY <1>4
<1>7. heap'[c] = Content(heap[c].kind, f) /\ heap'[c].slots = f
  BY <1>2, <1>6 DEF Content
<1> QED
  BY <1>3, <1>5, <1>7 DEF Written

(* Callers reach no cell of an error. *)
LEMMA CallersAreApart ==
    ASSUME Inv, NEW c \in Callers
    PROVE  c \in DOMAIN heap /\ c[2] \notin ErrorCopies
<1>1. PICK m \in held : c \in CellsUnder(heap, m)
  BY DEF Callers
<1>2. PICK x \in Walk(heap, m) : IsCell(heap, x[2]) /\ c = x[2]
  BY <1>1 DEF CellsUnder
<1>3. m \in DOMAIN heap /\ m[2] \notin ErrorCopies
  BY DEF Inv, MapIn
<1>4. Shaped(heap, copies) /\ Apart(heap, ErrorCopies)
  BY DEF Inv
<1>5. x[2] \in DOMAIN heap => x[2][2] \notin ErrorCopies
  BY <1>3, <1>4, StaysApart
<1> QED
  BY <1>2, <1>5 DEF IsCell

LEMMA WriteStep ==
    ASSUME Inv, NEW c \in Callers, NEW s \in Keys \cup DOMAIN heap[c].slots,
           NEW v \in Leaves \cup TypedValues \cup held, Write(c, s, v)
    PROVE  Inv' /\ Contents
<1>1. heap[c].kind = "array" => s \in DOMAIN heap[c].slots
  BY DEF Write
<1>2. c \in DOMAIN heap /\ c[2] \notin ErrorCopies
  BY CallersAreApart
<1>3. Written(heap, c, s, v, heap')
  BY <1>2, WriteIsWritten
<1>4. UNCHANGED <<query, elements, held, errors, copies>>
  BY DEF Write
<1>5. Shaped(heap, copies) /\ Apart(heap, ErrorCopies)
  BY DEF Inv
<1>6. v[1] = "cell" => v \in DOMAIN heap
  BY DetailsAssumption DEF Inv, MapIn
<1>7. v \in DOMAIN heap => v[2] \notin ErrorCopies
  <2>1. \A u \in DOMAIN heap : u[1] = "cell"
    BY <1>5, CellsAreCells
  <2>2. v \in Leaves \cup TypedValues => v \notin DOMAIN heap
    BY <2>1, DetailsAssumption
  <2> QED
    BY <2>2 DEF Inv
<1>8. \A d \in DOMAIN heap : heap'[d].kind = heap[d].kind /\ heap'[d] = Content(heap'[d].kind, heap'[d].slots)
  <2> TAKE d \in DOMAIN heap
  <2>1. CASE d = c
    BY <1>3, <2>1 DEF Written, Content
  <2>2. CASE d # c
    BY <1>3, <1>5, <2>2 DEF Written, Shaped, ShapedCell
  <2> QED
    BY <2>1, <2>2
<1>9. DOMAIN heap' = DOMAIN heap
  BY <1>3 DEF Written
<1>10. Shaped(heap', copies')
  <2> SUFFICES ASSUME NEW d \in DOMAIN heap PROVE ShapedCell(heap', copies, d)
    BY <1>4, <1>9 DEF Shaped
  <2>1. ShapedCell(heap, copies, d)
    BY <1>5 DEF Shaped
  <2>2. ASSUME NEW t \in DOMAIN heap'[d].slots
        PROVE  /\ heap'[d].slots[t][1] = "cell" => heap'[d].slots[t] \in DOMAIN heap'
               /\ heap'[d].kind # "map" => ~IsFieldKeyToRedact(t)
    <3>1. CASE d # c
      BY <1>3, <1>9, <2>1, <2>2, <3>1 DEF ShapedCell, Written
    <3>2. CASE d = c
      <4>1. heap'[c].kind \in {"map", "array"} /\ heap'[c].kind = heap[c].kind
        BY <1>1, <1>8, <2>1, <3>2 DEF ShapedCell
      <4>2. t = s => heap'[c].slots[t] = v
        BY <1>3 DEF Written
      <4>3. t # s => t \in DOMAIN heap[c].slots /\ heap'[c].slots[t] = heap[c].slots[t]
        BY <1>3, <2>2, <3>2 DEF Written
      <4>4. heap'[c].slots[t][1] = "cell" => heap'[c].slots[t] \in DOMAIN heap
        BY <1>6, <2>1, <3>2, <4>2, <4>3 DEF ShapedCell
      <4>5. heap'[c].kind # "map" => ~IsFieldKeyToRedact(t)
        <5>1. heap'[c].kind # "map" => t \in DOMAIN heap[c].slots
          BY <1>1, <4>1, <4>3
        <5> QED
          BY <2>1, <3>2, <4>1, <5>1 DEF ShapedCell
      <4> QED
        BY <1>9, <3>2, <4>1, <4>4, <4>5
    <3> QED
      BY <3>1, <3>2
  <2> QED
    BY <1>8, <1>9, <2>1, <2>2 DEF ShapedCell
<1>11. ErrorCopies' = ErrorCopies
  BY <1>4 DEF ErrorCopies
<1>12. Apart(heap', ErrorCopies)
  <2> SUFFICES ASSUME NEW d \in DOMAIN heap,
                      NEW t \in DOMAIN heap'[d].slots, heap'[d].slots[t] \in DOMAIN heap
               PROVE  LET u == heap'[d].slots[t]
                      IN  \/ u[2] = d[2]
                          \/ d[2] \notin ErrorCopies /\ u[2] \notin ErrorCopies
    BY <1>8, <1>9 DEF Apart
  <2>1. CASE d = c /\ t = s
    BY <1>2, <1>3, <1>7, <2>1 DEF Written
  <2>2. CASE d # c \/ t # s
    <3>1. t \in DOMAIN heap[d].slots /\ heap'[d].slots[t] = heap[d].slots[t]
      BY <1>3, <2>2 DEF Written
    <3> QED
      BY <1>5, <3>1 DEF Apart
  <2> QED
    BY <2>1, <2>2
<1>13. ASSUME NEW m, MapIn(heap, m), m[2] \in ErrorCopies
       PROVE  Walk(heap', m) = Walk(heap, m) /\ Tree(heap', m) = Tree(heap, m)
  <2> DEFINE Values == UNION {{heap[d].slots[t] : t \in DOMAIN heap[d].slots} : d \in DOMAIN heap}
             A == {u \in DOMAIN heap \cup Values :
                      u \in DOMAIN heap => u[2] \in ErrorCopies}
  <2>1. ASSUME NEW u \in A, u \in DOMAIN heap
        PROVE  /\ u # c /\ heap'[u] = heap[u]
               /\ \A t \in DOMAIN heap[u].slots : heap[u].slots[t] \in A
    <3>1. u # c
      BY <1>2, <2>1
    <3>2. heap'[u] = heap[u]
      BY <1>3, <2>1, <3>1 DEF Written
    <3>3. ASSUME NEW t \in DOMAIN heap[u].slots PROVE heap[u].slots[t] \in A
      <4> DEFINE w == heap[u].slots[t]
      <4>1. w \in DOMAIN heap \cup Values
        BY <2>1
      <4>2. w \in DOMAIN heap =>
                w[2] = u[2] \/ (u[2] \notin ErrorCopies /\ w[2] \notin ErrorCopies)
        BY <1>5, <2>1 DEF Apart
      <4> QED
        BY <2>1, <4>1, <4>2
    <3> QED
      BY <3>1, <3>2, <3>3
  <2>2. m \in A
    BY <1>13 DEF MapIn
  <2> HIDE DEF A
  <2>3. Agree(heap', heap, A)
    BY <1>9, <2>1 DEF Agree
  <2> QED
    BY <2>2, <2>3, SameTree
<1>14. Contents
  <2> SUFFICES ASSUME NEW e \in DOMAIN errors PROVE Tree(heap', errors[e]) = Tree(heap, errors[e])
    BY <1>4 DEF Contents
  <2>1. CASE errors[e] # Nil
    <3>1. MapIn(heap, errors[e]) /\ errors[e][2] \in ErrorCopies
      BY <2>1, ErrorCopiesBound DEF Inv
    <3> QED
      BY <1>13, <3>1
  <2>2. CASE errors[e] = Nil
    <3>1. Nil \notin DOMAIN heap
      <4>1. \A u \in DOMAIN heap : u[1] = "cell"
        BY <1>5, CellsAreCells
      <4> QED
        BY <4>1 DEF Nil
    <3>2. Agree(heap', heap, {Nil})
      BY <1>9, <3>1 DEF Agree
    <3>3. Tree(heap', Nil) = Tree(heap, Nil)
      BY <3>2, SameTree
    <3> QED
      BY <2>2, <3>3
  <2> QED
    BY <2>1, <2>2
<1>15. \A e \in DOMAIN errors' : errors'[e] = Nil \/ MapIn(heap', errors'[e])
  <2> SUFFICES ASSUME NEW e \in DOMAIN errors, errors[e] # Nil PROVE MapIn(heap', errors[e])
    BY <1>4
  <2>1. MapIn(heap, errors[e]) /\ errors[e][2] \in ErrorCopies
    BY ErrorCopiesBound DEF Inv
  <2>2. Walk(heap', errors[e]) = Walk(heap, errors[e])
    BY <1>13, <2>1
  <2> QED
    BY <1>8, <1>9, <2>1, <2>2 DEF MapIn, Shallow
<1>16. \A m \in held' : MapIn(heap', m) /\ m[2] \notin ErrorCopies'
  <2> SUFFICES ASSUME NEW m \in held PROVE MapIn(heap', m) /\ m[2] \notin ErrorCopies
    BY <1>4, <1>11
  <2>1. MapIn(heap, m) /\ m[2] \notin ErrorCopies
    BY DEF Inv
  <2>2. Shallow(heap', m)
    BY DEF Write, Shallow
  <2> QED
    BY <1>8, <1>9, <2>1, <2>2 DEF MapIn
<1>17. writes' \in Nat /\ writes' <= MaxWrites
  BY DetailsAssumption DEF Write, Inv
<1>18. /\ query' \in Queries /\ elements' \in [TypedValues -> Leaves \cup {Nil}]
       /\ copies' \in Nat /\ copies' <= MaxCopies
       /\ errors' \in Seq({Nil} \cup DOMAIN heap') /\ Len(errors') <= MaxErrors
  BY <1>4, <1>9 DEF Inv
<1>19. Apart(heap', ErrorCopies')
  BY <1>11, <1>12
<1> QED
  BY <1>10, <1>14, <1>15, <1>16, <1>17, <1>18, <1>19 DEF Inv

(* Nothing but a typed value is changed, and none of the above looks into one. *)
LEMMA WriteElementStep ==
    ASSUME Inv, NEW t \in TypedValues, NEW v \in Leaves, WriteElement(t, v)
    PROVE  Inv' /\ Contents
<1>1. /\ UNCHANGED <<query, heap, held>> /\ UNCHANGED <<errors, copies>>
      /\ ErrorCopies' = ErrorCopies
  BY DEF WriteElement, ErrorCopies
<1>2. elements' \in [TypedValues -> Leaves \cup {Nil}]
  BY DEF WriteElement, Inv
<1>3. writes' \in Nat /\ writes' <= MaxWrites
  BY DetailsAssumption DEF WriteElement, Inv
<1>4. Contents
  BY <1>1 DEF Contents
<1>5. Inv'
  BY <1>1, <1>2, <1>3 DEF Inv
<1> QED
  BY <1>4, <1>5

LEMMA InvariantStep ==
    ASSUME Inv, [Next]_vars
    PROVE  Inv' /\ Contents
<1>1. CASE New
  BY <1>1, NewStep
<1>2. ASSUME NEW m \in held, WithDetails(m) PROVE Inv' /\ Contents
  BY <1>2, WithDetailsStep
<1>3. ASSUME NEW m \in held, LogDetails(m) PROVE Inv' /\ Contents
  BY <1>3, LogDetailsStep
<1>4. ASSUME NEW e \in DOMAIN errors, Wrap(e) PROVE Inv' /\ Contents
  BY <1>4, WrapStep
<1>5. ASSUME NEW e \in DOMAIN errors, Details(e) PROVE Inv' /\ Contents
  BY <1>5, DetailsStep
<1>6. ASSUME NEW c \in Callers, NEW s \in Keys \cup DOMAIN heap[c].slots,
             NEW v \in Leaves \cup TypedValues \cup held, Write(c, s, v)
      PROVE  Inv' /\ Contents
  BY <1>6, WriteStep
<1>7. ASSUME NEW t \in TypedValues, NEW v \in Leaves, WriteElement(t, v)
      PROVE  Inv' /\ Contents
  BY <1>7, WriteElementStep
<1>8. CASE UNCHANGED vars
  <2>1. /\ UNCHANGED <<query, heap, elements, held>> /\ UNCHANGED <<errors, copies, writes>>
        /\ ErrorCopies' = ErrorCopies
    BY <1>8 DEF vars, ErrorCopies
  <2>2. Contents
    BY <2>1 DEF Contents
  <2>3. Inv'
    BY <2>1 DEF Inv
  <2> QED
    BY <2>2, <2>3
<1> QED
  BY <1>1, <1>2, <1>3, <1>4, <1>5, <1>6, <1>7, <1>8 DEF Next

(* What a handler reads from a query is no cell. *)
LEMMA ReadValues ==
    ASSUME NEW q \in Queries
    PROVE  \A n \in DOMAIN ParseQuery(q) : ParseQuery(q)[n][1] # "cell"
<1> SUFFICES ASSUME NEW n \in DOMAIN ParseQuery(q) PROVE ParseQuery(q)[n][1] # "cell"
  OBVIOUS
<1> DEFINE Named == {i \in Readable(q) : NameIn(q[i].key) = n}
<1>1. n \in {NameIn(q[i].key) : i \in Readable(q)} /\ ParseQuery(q)[n] = q[Min(Named)].value
  BY DEF ParseQuery
<1>2. Readable(q) \subseteq DOMAIN q /\ DOMAIN q \subseteq Nat
  BY DetailsAssumption DEF Readable
<1>3. Named \subseteq DOMAIN q /\ Named \subseteq Nat /\ Named # {}
  BY <1>1, <1>2
<1> HIDE DEF Named
<1>4. PICK k \in Named : \A j \in Named : ~(<<j, k>> \in OpToRel(<, Nat))
  BY <1>3, NatLessThanWellFounded, WFMin
<1>5. \A j \in Named : k <= j
  <2>1. \A j \in Named : ~(j < k)
    BY <1>3, <1>4 DEF OpToRel
  <2> QED
    BY <1>3, <2>1
<1>6. Min(Named) \in Named
  BY <1>5 DEF Min
<1>7. q[Min(Named)].value[1] # "cell"
  BY <1>3, <1>6, DetailsAssumption
<1> QED
  BY <1>1, <1>7

(* A handler's details. *)
DetailsOf(h, root, list, item, read) ==
    /\ DOMAIN h = {root, list, item}
    /\ h[root].kind = "map" /\ h[root].slots = [list |-> list]
    /\ h[list].kind = "array" /\ h[list].slots = [i \in {"0"} |-> item]
    /\ h[item].kind = "map" /\ h[item].slots = read
    /\ \A c \in DOMAIN h : h[c] = Content(h[c].kind, h[c].slots)

LEMMA ReceivedParts ==
    ASSUME NEW read
    PROVE  DetailsOf(Received(read), Cell(0, << >>), Cell(0, <<"list">>),
                     Cell(0, <<"list", "0">>), read)
<1> DEFINE h == Received(read)
           root == Cell(0, << >>)
           list == Cell(0, <<"list">>)
           item == Cell(0, <<"list", "0">>)
<1>1. root # list /\ root # item /\ list # item
  BY DEF Cell
<1>2. /\ DOMAIN h = {root, list, item}
      /\ h[root] = Content("map", [list |-> list])
      /\ h[list] = Content("array", [i \in {"0"} |-> item])
      /\ h[item] = Content("map", read)
  <2> DEFINE Holds(c) ==
               CASE c = list -> Content("array", [i \in {"0"} |-> item])
                 [] c = item -> Content("map", read)
                 [] OTHER -> Content("map", [list |-> list])
  <2>1. h = [c \in {root, list, item} |-> Holds(c)]
    BY DEF Received
  <2>2. list # item /\ root # list /\ root # item
    BY <1>1
  <2> HIDE DEF root, list, item
  <2>3. /\ Holds(list) = Content("array", [i \in {"0"} |-> item])
        /\ Holds(item) = Content("map", read)
        /\ Holds(root) = Content("map", [list |-> list])
    BY <2>2
  <2> HIDE DEF Holds
  <2> QED
    BY <2>1, <2>3
<1>3. \A k, s : Content(k, s).kind = k /\ Content(k, s).slots = s
  BY DEF Content
<1> HIDE DEF h, root, list, item
<1>4. /\ h[root].kind = "map" /\ h[root].slots = [list |-> list]
      /\ h[list].kind = "array" /\ h[list].slots = [i \in {"0"} |-> item]
      /\ h[item].kind = "map" /\ h[item].slots = read
    BY <1>2, <1>3
<1>5. \A c \in DOMAIN h : h[c] = Content(h[c].kind, h[c].slots)
  BY <1>2, <1>4
<1> QED
  <2> DetailsOf(h, root, list, item, read)
    BY <1>2, <1>4, <1>5 DEF DetailsOf
  <2> QED
    BY DEF h, root, list, item

LEMMA InitialShallow ==
    ASSUME NEW read, \A s \in DOMAIN read : read[s][1] # "cell", NEW h, h = Received(read)
    PROVE  Shallow(h, Cell(0, << >>))
<1> DEFINE root == Cell(0, << >>)
           list == Cell(0, <<"list">>)
           item == Cell(0, <<"list", "0">>)
           Level(u, k) == \/ u = root /\ k = 0
                          \/ u = list /\ k = 1
                          \/ u = item /\ k = 2
                          \/ u \notin DOMAIN h /\ k \in 0..3
           C == {x \in Walk(h, root) : Level(x[2], Len(x[1]))}
<1>1. /\ DOMAIN h = {root, list, item}
      /\ h[root].slots = [list |-> list]
      /\ h[list].slots = [i \in {"0"} |-> item]
      /\ h[item].slots = read
  <2>1. DetailsOf(h, root, list, item, read)
    BY ReceivedParts
  <2> HIDE DEF root, list, item
  <2> QED
    BY <2>1 DEF DetailsOf
<1>2. \A u \in DOMAIN h : u[1] = "cell"
  BY <1>1, CellParts
<1> HIDE DEF root, list, item
<1>3. ASSUME NEW u \in DOMAIN h, NEW k, Level(u, k), NEW s \in DOMAIN h[u].slots
      PROVE  Level(h[u].slots[s], k + 1)
  <2>1. CASE u = root /\ k = 0
    <3>1. h[u].slots[s] = list
      BY <1>1, <1>3, <2>1
    <3> QED
      BY <2>1, <3>1
  <2>2. CASE u = list /\ k = 1
    <3>1. h[u].slots[s] = item
      BY <1>1, <1>3, <2>2
    <3> QED
      BY <2>2, <3>1
  <2>3. CASE u = item /\ k = 2
    <3>1. h[u].slots[s] \notin DOMAIN h
      BY <1>1, <1>2, <1>3, <2>3
    <3> QED
      BY <2>3, <3>1
  <2> QED
    BY <1>3, <2>1, <2>2, <2>3
<1>4. Level(root, 0) /\ \A u, k : Level(u, k) => k \in 0..3
  OBVIOUS
<1> HIDE DEF Level
<1>5. << << >>, root >> \in C
  <2> DEFINE z == << << >>, root >>
  <2>1. z \in Walk(h, root)
    BY WalkClosed
  <2>2. z[2] = root /\ Len(z[1]) = 0
    BY EmptySeq
  <2> QED
    BY <1>4, <2>1, <2>2
<1>6. ASSUME NEW x \in C, Len(x[1]) < MaxDepth, NEW s \in SlotsOf(h, x[2])
      PROVE  Along(h, x, s) \in C
  <2>1. Along(h, x, s) \in Walk(h, root) /\ Pathed(h, x)
    BY <1>6, WalkClosed
  <2>2. Len(Along(h, x, s)[1]) = Len(x[1]) + 1 /\ Along(h, x, s)[2] = h[x[2]].slots[s]
    BY <2>1, AlongPathed
  <2>3. x[2] \in DOMAIN h /\ s \in DOMAIN h[x[2]].slots
    BY DEF SlotsOf, IsCell
  <2>4. Level(h[x[2]].slots[s], Len(x[1]) + 1)
    BY <1>3, <2>3
  <2> QED
    BY <2>1, <2>2, <2>4
<1>7. Walk(h, root) \subseteq C
  <2> HIDE DEF C
  <2> QED
    BY <1>5, <1>6, WalkWithin
<1>8. ASSUME NEW x \in Walk(h, root) PROVE Len(x[1]) \in 0..3
  <2> DEFINE u == x[2]
             k == Len(x[1])
  <2>1. Level(u, k)
    BY <1>7
  <2> HIDE DEF u, k
  <2>2. k \in 0..3
    BY <1>4, <2>1
  <2> QED
    BY <2>2 DEF k
<1>9. \A k \in 0..3 : k < MaxDepth
  BY DetailsAssumption
<1>10. \A x \in Walk(h, root) : Len(x[1]) < MaxDepth
  BY <1>8, <1>9
<1> QED
  BY <1>10 DEF Shallow, root

LEMMA InitialInvariant ==
    ASSUME Init
    PROVE  Inv
<1> DEFINE read == ParseQuery(query)
           root == Cell(0, << >>)
           list == Cell(0, <<"list">>)
           item == Cell(0, <<"list", "0">>)
<1>1. /\ query \in Queries /\ heap = Received(read) /\ held = {root}
      /\ errors = << >> /\ copies = 0 /\ writes = 0
      /\ elements \in [TypedValues -> Leaves \cup {Nil}]
  BY DEF Init
<1>2. \A s \in DOMAIN read : read[s][1] # "cell"
  BY <1>1, ReadValues
<1> HIDE DEF read
<1>3. /\ DOMAIN heap = {root, list, item}
      /\ heap[root].kind = "map"
      /\ heap[root].slots = [list |-> list]
      /\ heap[list].kind = "array"
      /\ heap[list].slots = [i \in {"0"} |-> item]
      /\ heap[item].kind = "map"
      /\ heap[item].slots = read
      /\ \A c \in DOMAIN heap : heap[c] = Content(heap[c].kind, heap[c].slots)
  <2>1. DetailsOf(heap, root, list, item, read)
    BY <1>1, ReceivedParts
  <2> HIDE DEF root, list, item
  <2> QED
    BY <2>1 DEF DetailsOf
<1>4. Shallow(heap, root)
  BY <1>1, <1>2, InitialShallow
<1>5. \A c \in DOMAIN heap : c = Cell(c[2], c[3]) /\ c[2] = 0
  BY <1>3, CellParts
<1>6. ErrorCopies = {}
  BY <1>1 DEF ErrorCopies
<1>7. root # list /\ root # item /\ list # item
  BY DEF Cell
<1>8. ~IsFieldKeyToRedact("0")
  BY DEF IsFieldKeyToRedact, ToLower, Capitals, fieldKeysToRedact
<1>9. MapIn(heap, root)
  BY <1>3, <1>4 DEF MapIn
<1> HIDE DEF root, list, item
<1>10. Shaped(heap, 0)
  <2> SUFFICES ASSUME NEW c \in DOMAIN heap PROVE ShapedCell(heap, 0, c)
    BY DEF Shaped
  <2>1. c = Cell(c[2], c[3]) /\ c[2] \in 0..0
    BY <1>5
  <2>2. heap[c].kind \in {"map", "array"}
    BY <1>3
  <2>3. ASSUME NEW s \in DOMAIN heap[c].slots
        PROVE  /\ heap[c].slots[s][1] = "cell" => heap[c].slots[s] \in DOMAIN heap
               /\ heap[c].kind # "map" => ~IsFieldKeyToRedact(s)
    <3>1. CASE c = root
      BY <1>3, <2>3, <3>1
    <3>2. CASE c = list
      BY <1>3, <1>8, <2>3, <3>2
    <3>3. CASE c = item
      BY <1>2, <1>3, <2>3, <3>3
    <3> QED
      BY <1>3, <3>1, <3>2, <3>3
  <2> QED
    BY <1>3, <2>1, <2>2, <2>3 DEF ShapedCell
<1>11. Apart(heap, {})
  BY DEF Apart
<1>12. errors \in Seq({Nil} \cup DOMAIN heap) /\ Len(errors) = 0 /\ DOMAIN errors = {}
  BY <1>1, EmptySeq
<1> QED
  BY <1>1, <1>6, <1>9, <1>10, <1>11, <1>12, DetailsAssumption DEF Inv

LEMMA Invariant == Spec => []Inv
<1>1. Init => Inv
  BY InitialInvariant
<1>2. Inv /\ [Next]_vars => Inv'
  BY InvariantStep
<1> QED
  BY <1>1, <1>2, PTL DEF Spec

(* Errors keep their contents, for any number of errors, copies and writes: what
   WithDetails, Details, ToResponse and RedactMap hand out shares no map and no
   array with an error.  It may share typed values, whose holdings are not part of
   the property. *)
THEOREM ErrorContents == Spec => ErrorsKeepContents
<1>1. Inv /\ [Next]_vars =>
          [\A e \in DOMAIN errors :
              errors'[e] = errors[e] /\ Tree(heap', errors'[e]) = Tree(heap, errors[e])]_vars
  BY InvariantStep DEF Contents
<1> QED
  BY <1>1, Invariant, PTL DEF Spec, ErrorsKeepContents

(* Every cell that is referred to exists, and the maps and arrays in the details of
   an error are a tree of their own. *)
THEOREM ErrorDetailsTypeOK == Spec => []TypeOK
<1>1. ASSUME Inv PROVE TypeOK
  <2>1. \A c \in DOMAIN heap : \A s \in DOMAIN heap[c].slots :
            heap[c].slots[s][1] = "cell" => heap[c].slots[s] \in DOMAIN heap
    BY <1>1 DEF Inv, Shaped, ShapedCell
  <2>2. ASSUME NEW e \in DOMAIN errors, errors[e] # Nil, NEW c \in CellsUnder(heap, errors[e])
        PROVE  c[2] = errors[e][2]
    <3>1. errors[e] \in DOMAIN heap /\ errors[e][2] \in ErrorCopies
      BY <1>1, <2>2, ErrorCopiesBound DEF Inv, MapIn
    <3>2. \A x \in Walk(heap, errors[e]) :
              x[2] \in DOMAIN heap => x[2][2] = errors[e][2]
      <4> DEFINE m == errors[e]
      <4>1. m \in DOMAIN heap /\ m[2] \in ErrorCopies /\ Shaped(heap, copies) /\ Apart(heap, ErrorCopies)
        BY <1>1, <3>1 DEF Inv
      <4> HIDE DEF m
      <4>2. \A x \in Walk(heap, m) : x[2] \in DOMAIN heap => x[2][2] = m[2]
        BY <4>1, StaysApart
      <4> QED
        BY <4>2 DEF m
    <3> QED
      BY <2>2, <3>2 DEF CellsUnder, IsCell
  <2>3. /\ held \subseteq DOMAIN heap /\ Len(errors) <= MaxErrors
        /\ copies <= MaxCopies /\ writes <= MaxWrites
        /\ elements \in [TypedValues -> Leaves \cup {Nil}]
    BY <1>1 DEF Inv, MapIn
  <2> QED
    BY <2>1, <2>2, <2>3 DEF TypeOK
<1> QED
  BY <1>1, Invariant, PTL

(* Of any query, with pairs that cannot be decoded among it: the record has every
   pair in its place, the value of none that a handler reads under a listed key, and
   the value of every other one that it reads. *)
THEOREM QueriesAreRedacted == Spec => []QueryRedacted
<1>1. ASSUME Inv PROVE QueryRedacted
  <2> DEFINE Redacted(i) == [query[i] EXCEPT !.value = RedactedValue]
             Secret(i) == query[i].hasEq /\ IsFieldKeyToRedact(NameIn(query[i].key))
             Replaced(i) == Names(Decoded(query[i].key)) /\ query[i].hasEq
             logged == redactQueryString(query)
  <2>1. ~IsFieldKeyToRedact("%")
    BY DEF IsFieldKeyToRedact, ToLower, Capitals, fieldKeysToRedact
  <2>2. ASSUME NEW i \in Readable(query)
        PROVE  i \in DOMAIN query /\ (Replaced(i) <=> Secret(i))
    <3> DEFINE key == query[i].key
    <3>1. i \in DOMAIN query /\ ~key.broken
      BY DEF Readable
    <3>2. key \in [name : STRING, encoded : Nat, broken : BOOLEAN]
      BY <1>1, <3>1, DetailsAssumption DEF Inv
    <3> HIDE DEF key
    <3>3. Decoded(key).name = key.name /\ Decoded(key).broken = key.broken
      BY <3>2 DEF Decoded
    <3>4. Names(Decoded(key)) <=> IsFieldKeyToRedact(NameIn(key))
      BY <2>1, <3>1, <3>3 DEF Names, NameIn
    <3> QED
      BY <3>1, <3>4 DEF key
  <2>3. /\ DOMAIN logged = DOMAIN query
        /\ \A i \in DOMAIN query : logged[i] = IF Replaced(i) THEN Redacted(i) ELSE query[i]
    BY DEF redactQueryString
  <2> HIDE DEF logged, Redacted, Replaced, Secret
  <2>4. \A i \in DOMAIN query : logged[i] \in {query[i], Redacted(i)}
    BY <2>3
  <2>5. \A i \in Readable(query) : logged[i] = IF Secret(i) THEN Redacted(i) ELSE query[i]
    BY <2>2, <2>3
  <2> QED
    BY <2>3, <2>4, <2>5 DEF QueryRedacted, logged, Redacted, Secret
<1> QED
  BY <1>1, Invariant, PTL

---------------------------------------------------------------------------
(* What a record of details shows.                                          *)

LEMMA ToRedactFacts ==
    ASSUME NEW h, NEW c \in DOMAIN h, NEW s \in DOMAIN h[c].slots
    PROVE  <<c, s>> \in ToRedact(h) <=> h[c].kind = "map" /\ IsFieldKeyToRedact(s)
<1> DEFINE Of(d) == {<<d, t>> : t \in {u \in DOMAIN h[d].slots : IsFieldKeyToRedact(u)}}
           Maps == {d \in DOMAIN h : h[d].kind = "map"}
<1>1. ToRedact(h) = UNION {Of(d) : d \in Maps}
  BY DEF ToRedact
<1>2. \A d : <<c, s>> \in Of(d) <=> d = c /\ IsFieldKeyToRedact(s)
  OBVIOUS
<1>3. c \in Maps <=> h[c].kind = "map"
  OBVIOUS
<1> HIDE DEF Of, Maps
<1> QED
  BY <1>1, <1>2, <1>3

Clean(p) == \A i \in DOMAIN p : ~IsFieldKeyToRedact(p[i])
Label(h, u) == IF IsCell(h, u) THEN h[u].kind ELSE u

(* What a reader of the copy finds where the original has x, when no key on the way
   is to be redacted. *)
Image(h, n, v, g, y, x) ==
    /\ y[1] = x[1]
    /\ \/ y[2] = Cell(n + 1, x[1]) /\ x \in Walk(Entered(h, ToRedact(h)), v)
       \/ y[2] = x[2] /\ ~Copied(h, x[2]) /\ (x[2] \in DOMAIN g => x[2] \in DOMAIN h)

LEMMA ImageLabel ==
    ASSUME NEW h, NEW n, NEW v, NEW g, Copying(h, n, v, ToRedact(h), g),
           NEW y, NEW x, Image(h, n, v, g, y, x)
    PROVE  Label(g, y[2]) = Label(h, x[2])
<1>1. CASE y[2] = Cell(n + 1, x[1]) /\ x \in Walk(Entered(h, ToRedact(h)), v)
  <2>1. y[2] \in DOMAIN g /\ g[y[2]] = NewCell(h, n + 1, ToRedact(h), x)
    BY <1>1, MergedCells
  <2>2. g[y[2]].kind = h[x[2]].kind
    BY <2>1, NewCellParts
  <2>3. x[2] \in DOMAIN h
    BY <1>1, EnteredWalk DEF Copying, Copied, IsCell
  <2> QED
    BY <2>1, <2>2, <2>3 DEF Label, IsCell
<1>2. CASE y[2] = x[2] /\ (x[2] \in DOMAIN g => x[2] \in DOMAIN h)
  <2>1. \A c \in DOMAIN h : c \in DOMAIN g /\ g[c] = h[c]
    BY MergedCells
  <2> QED
    BY <1>2, <2>1 DEF Label, IsCell
<1> QED
  BY <1>1, <1>2 DEF Image

LEMMA ImageNext ==
    ASSUME NEW h, NEW n, NEW v, NEW g, Copying(h, n, v, ToRedact(h), g),
           NEW y, NEW x, Image(h, n, v, g, y, x), NEW s
    PROVE  /\ s \in SlotsOf(g, y[2]) <=> s \in SlotsOf(h, x[2])
           /\ s \in SlotsOf(h, x[2]) /\ ~IsFieldKeyToRedact(s) =>
                 Image(h, n, v, g, Along(g, y, s), Along(h, x, s))
           /\ s \in SlotsOf(h, x[2]) /\ IsFieldKeyToRedact(s) =>
                 Along(g, y, s)[2] = RedactedValue
<1> DEFINE R == ToRedact(h)
<1>1. n \in Nat /\ Shaped(h, n) /\ Copied(h, v) /\ Shallow(h, v) /\ Copying(h, n, v, R, g)
  BY DEF Copying
<1>2. /\ Along(g, y, s)[2] = g[y[2]].slots[s] /\ Along(h, x, s)[2] = h[x[2]].slots[s]
      /\ Along(g, y, s)[1] = Along(h, x, s)[1]
  BY DEF Along, Image
<1>3. \A u : u \in DOMAIN g => u[1] = "cell"
  BY MergedShaped, CellsAreCells
<1>4. \A c \in DOMAIN h : c \in DOMAIN g /\ g[c] = h[c]
  BY MergedCells
<1>5. CASE y[2] = Cell(n + 1, x[1]) /\ x \in Walk(Entered(h, R), v)
  <2> HIDE DEF R
  <2>1. y[2] \in DOMAIN g /\ g[y[2]] = NewCell(h, n + 1, R, x)
    BY <1>1, <1>5, MergedCells
  <2>2. /\ DOMAIN g[y[2]].slots = DOMAIN h[x[2]].slots
        /\ \A t \in DOMAIN h[x[2]].slots : g[y[2]].slots[t] = NewValue(h, n + 1, R, x, t)
    BY <2>1, NewCellParts
  <2>3. x[2] \in DOMAIN h /\ Copied(h, x[2])
    BY <1>1, <1>5, EnteredWalk DEF Copied, IsCell
  <2>4. s \in SlotsOf(g, y[2]) <=> s \in SlotsOf(h, x[2])
    BY <2>1, <2>2, <2>3 DEF SlotsOf, IsCell
  <2>5. ASSUME s \in SlotsOf(h, x[2])
        PROVE  /\ Along(g, y, s)[2] = NewValue(h, n + 1, R, x, s)
               /\ NewKinds(h, n, v, R, x, s)
               /\ <<x[2], s>> \in R <=> IsFieldKeyToRedact(s)
    <3>1. s \in DOMAIN h[x[2]].slots
      BY <2>3, <2>5 DEF SlotsOf, IsCell
    <3>2. NewKinds(h, n, v, R, x, s)
      BY <1>1, <1>5, <3>1, NewValues
    <3>3. <<x[2], s>> \in R <=> h[x[2]].kind = "map" /\ IsFieldKeyToRedact(s)
      BY <2>3, <3>1, ToRedactFacts DEF R
    <3>4. h[x[2]].kind # "map" => ~IsFieldKeyToRedact(s)
      BY <1>1, <2>3, <3>1 DEF Shaped, ShapedCell
    <3> QED
      BY <1>2, <2>2, <3>1, <3>2, <3>3, <3>4
  <2>6. ASSUME s \in SlotsOf(h, x[2]), ~IsFieldKeyToRedact(s)
        PROVE  Image(h, n, v, g, Along(g, y, s), Along(h, x, s))
    <3>1. CASE /\ NewValue(h, n + 1, R, x, s) = Cell(n + 1, Along(h, x, s)[1])
               /\ Along(h, x, s) \in Walk(Entered(h, R), v)
      BY <1>2, <2>5, <2>6, <3>1 DEF Image, R
    <3>2. CASE /\ NewValue(h, n + 1, R, x, s) = h[x[2]].slots[s]
               /\ ~Copied(h, h[x[2]].slots[s])
      <4>1. s \in DOMAIN h[x[2]].slots
        BY <2>3, <2>6 DEF SlotsOf, IsCell
      <4>2. h[x[2]].slots[s][1] = "cell" => h[x[2]].slots[s] \in DOMAIN h
        BY <1>1, <2>3, <4>1 DEF Shaped, ShapedCell
      <4> QED
        BY <1>2, <1>3, <2>5, <2>6, <3>2, <4>2 DEF Image
    <3> QED
      BY <2>5, <2>6, <3>1, <3>2 DEF NewKinds
  <2>7. ASSUME s \in SlotsOf(h, x[2]), IsFieldKeyToRedact(s)
        PROVE  Along(g, y, s)[2] = RedactedValue
    BY <2>5, <2>7 DEF NewKinds
  <2> QED
    BY <2>4, <2>6, <2>7
<1>6. CASE y[2] = x[2] /\ ~Copied(h, x[2]) /\ (x[2] \in DOMAIN g => x[2] \in DOMAIN h)
  <2>1. x[2] \notin DOMAIN h
    BY <1>1, <1>6 DEF Shaped, ShapedCell, Copied, IsCell
  <2> QED
    BY <1>6, <2>1 DEF SlotsOf, IsCell
<1> QED
  BY <1>5, <1>6 DEF Image

LEMMA CleanAppend ==
    ASSUME NEW S, NEW p \in Seq(S), NEW s \in S
    PROVE  /\ Clean(Append(p, s)) <=> Clean(p) /\ ~IsFieldKeyToRedact(s)
           /\ Clean(p) /\ IsFieldKeyToRedact(s) => FirstRedacted(Append(p, s), Len(Append(p, s)))
           /\ \A i \in DOMAIN Append(p, s) : FirstRedacted(Append(p, s), i) =>
                 \/ i \in DOMAIN p /\ FirstRedacted(p, i)
                    /\ SubSeq(Append(p, s), 1, i) = SubSeq(p, 1, i)
                 \/ Clean(p) /\ IsFieldKeyToRedact(s) /\ SubSeq(Append(p, s), 1, i) = Append(p, s)
<1> DEFINE q == Append(p, s)
           k == Len(p)
<1>1. /\ q \in Seq(S) /\ Len(q) = k + 1
      /\ \A i \in 1..k : q[i] = p[i]
      /\ q[k + 1] = s
  BY AppendProperties
<1>2. k \in Nat /\ DOMAIN p = 1..k /\ DOMAIN q = 1..(k + 1)
  BY <1>1, LenProperties
<1>3. /\ \A i \in 1..k : p[i] \in S /\ q[i] \in S
      /\ SubSeq(q, 1, Len(q)) = q
  <2>1. \A i \in 1..k : p[i] \in S
    BY ElementOfSeq
  <2>2. SubSeq(q, 1, Len(q)) = q
    <3> HIDE DEF q
    <3> QED
      BY <1>1, SubSeqFull
  <2> QED
    BY <1>1, <2>1, <2>2
<1> HIDE DEF q, k
<1>4. Clean(q) <=> Clean(p) /\ ~IsFieldKeyToRedact(s)
  BY <1>1, <1>2 DEF Clean
<1>5. Clean(p) /\ IsFieldKeyToRedact(s) => FirstRedacted(q, Len(q))
  BY <1>1, <1>2 DEF Clean, FirstRedacted
<1>6. ASSUME NEW i \in 1..k, FirstRedacted(q, i)
      PROVE  FirstRedacted(p, i) /\ SubSeq(q, 1, i) = SubSeq(p, 1, i)
  <2>1. FirstRedacted(p, i)
    BY <1>1, <1>2, <1>6 DEF FirstRedacted
  <2>2. /\ SubSeq(q, 1, i) \in Seq(S) /\ Len(SubSeq(q, 1, i)) = i
        /\ \A j \in 1..i : SubSeq(q, 1, i)[j] = q[j]
    BY <1>2, <1>3, SubSeqProperties
  <2>3. /\ SubSeq(p, 1, i) \in Seq(S) /\ Len(SubSeq(p, 1, i)) = i
        /\ \A j \in 1..i : SubSeq(p, 1, i)[j] = p[j]
    BY <1>2, <1>3, SubSeqProperties
  <2>4. \A j \in 1..i : q[j] = p[j]
    BY <1>1, <1>2
  <2> QED
    BY <2>1, <2>2, <2>3, <2>4, SeqEqual
<1>7. ASSUME FirstRedacted(q, k + 1)
      PROVE  Clean(p) /\ IsFieldKeyToRedact(s) /\ SubSeq(q, 1, k + 1) = q
  BY <1>1, <1>2, <1>3, <1>7 DEF Clean, FirstRedacted
<1>8. \A i \in DOMAIN q : i \in 1..k \/ i = k + 1
  BY <1>2
<1>9. \A i \in DOMAIN q : FirstRedacted(q, i) =>
          \/ i \in DOMAIN p /\ FirstRedacted(p, i) /\ SubSeq(q, 1, i) = SubSeq(p, 1, i)
          \/ Clean(p) /\ IsFieldKeyToRedact(s) /\ SubSeq(q, 1, i) = q
  BY <1>2, <1>6, <1>7, <1>8
<1> QED
  BY <1>4, <1>5, <1>9 DEF q

(* Each path of a copy is one of the original, up to the first key to redact. *)
LEMMA CopyToOriginal ==
    ASSUME NEW h, NEW n, NEW v, NEW g, Copying(h, n, v, ToRedact(h), g),
           NEW y \in Walk(g, Root(n))
    PROVE  \E x \in Walk(h, v) :
               \/ Clean(x[1]) /\ Image(h, n, v, g, y, x)
               \/ /\ y = <<x[1], RedactedValue>>
                  /\ FirstRedacted(x[1], Len(x[1]))
<1> DEFINE From(z, x) ==
               \/ Clean(x[1]) /\ Image(h, n, v, g, z, x)
               \/ z = <<x[1], RedactedValue>> /\ FirstRedacted(x[1], Len(x[1]))
           C == {z \in Walk(g, Root(n)) : \E x \in Walk(h, v) : From(z, x)}
<1>1. << << >>, Root(n) >> \in C
  <2> DEFINE x == << << >>, v >>
             z == << << >>, Root(n) >>
  <2>1. x \in Walk(h, v) /\ x \in Walk(Entered(h, ToRedact(h)), v) /\ z \in Walk(g, Root(n))
    BY WalkClosed
  <2>2. x[1] = << >> /\ z[1] = x[1] /\ z[2] = Cell(n + 1, x[1])
    BY DEF Root
  <2>3. Clean(x[1])
    BY DEF Clean
  <2>4. Image(h, n, v, g, z, x)
    BY <2>1, <2>2 DEF Image
  <2> QED
    BY <2>1, <2>3, <2>4
<1>2. RedactedValue \notin DOMAIN g
  <2>1. \A c \in DOMAIN g : c[1] = "cell"
    BY MergedShaped, CellsAreCells
  <2> QED
    BY <2>1 DEF RedactedValue
<1>3. ASSUME NEW z \in C, Len(z[1]) < MaxDepth, NEW s \in SlotsOf(g, z[2])
      PROVE  Along(g, z, s) \in C
  <2>1. PICK x \in Walk(h, v) : From(z, x)
    OBVIOUS
  <2>2. z[2] \in DOMAIN g
    BY DEF SlotsOf, IsCell
  <2>3. z # <<x[1], RedactedValue>>
    BY <1>2, <2>2
  <2>4. Clean(x[1]) /\ Image(h, n, v, g, z, x)
    BY <2>1, <2>3
  <2>5. s \in SlotsOf(h, x[2])
    BY <2>4, ImageNext
  <2>6. Along(g, z, s) \in Walk(g, Root(n))
    BY <1>3, WalkClosed
  <2>7. /\ Along(h, x, s) \in Walk(h, v) /\ Pathed(h, x)
        /\ Along(g, z, s)[1] = Along(h, x, s)[1]
        /\ Along(g, z, s) = <<Along(g, z, s)[1], Along(g, z, s)[2]>>
    <3>1. Len(x[1]) < MaxDepth
      BY <1>3, <2>4 DEF Image
    <3>2. Along(g, z, s)[1] = Along(h, x, s)[1]
      BY <2>4 DEF Along, Image
    <3> QED
      BY <2>5, <3>1, <3>2, WalkClosed DEF Along
  <2>8. s \in Slots(h) /\ x[1] \in Seq(Slots(h)) /\ Along(h, x, s)[1] = Append(x[1], s)
    BY <2>5, <2>7, AlongPathed DEF SlotsOf, IsCell, Slots, Pathed
  <2>9. /\ Clean(Append(x[1], s)) <=> Clean(x[1]) /\ ~IsFieldKeyToRedact(s)
        /\ Clean(x[1]) /\ IsFieldKeyToRedact(s) =>
              FirstRedacted(Append(x[1], s), Len(Append(x[1], s)))
    BY <2>8, CleanAppend
  <2>10. CASE IsFieldKeyToRedact(s)
    <3>1. Along(g, z, s)[2] = RedactedValue
      BY <2>4, <2>5, <2>10, ImageNext
    <3>2. Along(g, z, s) = <<Along(h, x, s)[1], RedactedValue>>
      BY <2>7, <3>1
    <3>3. FirstRedacted(Along(h, x, s)[1], Len(Along(h, x, s)[1]))
      BY <2>4, <2>8, <2>9, <2>10
    <3>4. From(Along(g, z, s), Along(h, x, s))
      BY <3>2, <3>3
    <3> QED
      BY <2>6, <2>7, <3>4
  <2>11. CASE ~IsFieldKeyToRedact(s)
    <3>1. Image(h, n, v, g, Along(g, z, s), Along(h, x, s))
      BY <2>4, <2>5, <2>11, ImageNext
    <3>2. Clean(Along(h, x, s)[1])
      BY <2>4, <2>8, <2>9, <2>11
    <3>3. From(Along(g, z, s), Along(h, x, s))
      BY <3>1, <3>2
    <3> QED
      BY <2>6, <2>7, <3>3
  <2> QED
    BY <2>10, <2>11
<1>4. Walk(g, Root(n)) \subseteq C
  <2> HIDE DEF C
  <2> QED
    BY <1>1, <1>3, WalkWithin
<1> QED
  BY <1>4

(* Each path of the original is in the copy, up to its first key to redact. *)
InCopy(h, n, v, g, x) ==
    /\ Clean(x[1]) => \E y \in Walk(g, Root(n)) : Image(h, n, v, g, y, x)
    /\ \A i \in DOMAIN x[1] : FirstRedacted(x[1], i) =>
          <<SubSeq(x[1], 1, i), RedactedValue>> \in Walk(g, Root(n))

LEMMA OriginalToCopy ==
    ASSUME NEW h, NEW n, NEW v, NEW g, Copying(h, n, v, ToRedact(h), g),
           NEW w \in Walk(h, v)
    PROVE  InCopy(h, n, v, g, w)
<1> DEFINE C == {x \in Walk(h, v) : InCopy(h, n, v, g, x)}
<1>1. << << >>, v >> \in C
  <2> DEFINE x == << << >>, v >>
             y == << << >>, Root(n) >>
  <2>1. x \in Walk(h, v) /\ x \in Walk(Entered(h, ToRedact(h)), v) /\ y \in Walk(g, Root(n))
    BY WalkClosed
  <2>2. x[1] = << >> /\ y[1] = x[1] /\ y[2] = Cell(n + 1, x[1])
    BY DEF Root
  <2>3. DOMAIN x[1] = {}
    BY <2>2
  <2>4. Image(h, n, v, g, y, x)
    BY <2>1, <2>2 DEF Image
  <2> HIDE DEF x, y
  <2>5. InCopy(h, n, v, g, x)
    BY <2>1, <2>3, <2>4 DEF InCopy
  <2> QED
    BY <2>1, <2>5 DEF x
<1>2. ASSUME NEW x \in C, Len(x[1]) < MaxDepth, NEW s \in SlotsOf(h, x[2])
      PROVE  Along(h, x, s) \in C
  <2>1. Along(h, x, s) \in Walk(h, v) /\ Pathed(h, x) /\ InCopy(h, n, v, g, x)
    BY <1>2, WalkClosed
  <2>2. s \in Slots(h) /\ x[1] \in Seq(Slots(h)) /\ Along(h, x, s)[1] = Append(x[1], s)
    BY <2>1, AlongPathed DEF SlotsOf, IsCell, Slots, Pathed
  <2> DEFINE p == x[1]
             q == Append(p, s)
  <2>3. /\ Clean(q) <=> Clean(p) /\ ~IsFieldKeyToRedact(s)
        /\ \A i \in DOMAIN q : FirstRedacted(q, i) =>
              \/ i \in DOMAIN p /\ FirstRedacted(p, i) /\ SubSeq(q, 1, i) = SubSeq(p, 1, i)
              \/ Clean(p) /\ IsFieldKeyToRedact(s) /\ SubSeq(q, 1, i) = q
    BY <2>2, CleanAppend
  <2>4. ASSUME Clean(p)
        PROVE  \E y \in Walk(g, Root(n)) :
                   /\ Along(g, y, s) \in Walk(g, Root(n))
                   /\ ~IsFieldKeyToRedact(s) => Image(h, n, v, g, Along(g, y, s), Along(h, x, s))
                   /\ IsFieldKeyToRedact(s) => Along(g, y, s) = <<q, RedactedValue>>
    <3>1. PICK y \in Walk(g, Root(n)) : Image(h, n, v, g, y, x)
      BY <2>1, <2>4 DEF InCopy
    <3>2. s \in SlotsOf(g, y[2])
      BY <3>1, ImageNext
    <3>3. y[1] = x[1]
      BY <3>1 DEF Image
    <3>4. Along(g, y, s) \in Walk(g, Root(n))
      BY <1>2, <3>2, <3>3, WalkClosed
    <3>5. ~IsFieldKeyToRedact(s) => Image(h, n, v, g, Along(g, y, s), Along(h, x, s))
      BY <3>1, ImageNext
    <3>6. IsFieldKeyToRedact(s) => Along(g, y, s)[2] = RedactedValue
      BY <3>1, ImageNext
    <3>7. IsFieldKeyToRedact(s) => Along(g, y, s) = <<q, RedactedValue>>
      BY <3>3, <3>6 DEF Along
    <3> QED
      BY <3>4, <3>5, <3>7
  <2>5. Clean(q) => \E y \in Walk(g, Root(n)) : Image(h, n, v, g, y, Along(h, x, s))
    BY <2>3, <2>4
  <2>6. ASSUME NEW i \in DOMAIN q, FirstRedacted(q, i)
        PROVE  <<SubSeq(q, 1, i), RedactedValue>> \in Walk(g, Root(n))
    <3>1. CASE i \in DOMAIN p /\ FirstRedacted(p, i) /\ SubSeq(q, 1, i) = SubSeq(p, 1, i)
      BY <2>1, <3>1 DEF InCopy
    <3>2. CASE Clean(p) /\ IsFieldKeyToRedact(s) /\ SubSeq(q, 1, i) = q
      BY <2>4, <3>2
    <3> QED
      BY <2>3, <2>6, <3>1, <3>2
  <2>7. InCopy(h, n, v, g, Along(h, x, s))
    BY <2>2, <2>5, <2>6 DEF InCopy
  <2> QED
    BY <2>1, <2>7
<1>3. Walk(h, v) \subseteq C
  <2> HIDE DEF C
  <2> QED
    BY <1>1, <1>2, WalkWithin
<1> QED
  BY <1>3

(* The details of a record: the placeholder where the original has a key of the
   list for the first time, nothing below it, and all else as it was. *)
LEMMA RedactedTree ==
    ASSUME NEW h, NEW n, NEW v, NEW g, Copying(h, n, v, ToRedact(h), g), NEW t
    PROVE  t \in Tree(g, Root(n)) <=>
              \/ t \in Tree(h, v) /\ Clean(t[1])
              \/ \E z \in Tree(h, v) : \E i \in DOMAIN z[1] :
                    FirstRedacted(z[1], i) /\ t = <<SubSeq(z[1], 1, i), RedactedValue>>
<1>1. \A k, u : Tree(k, u) = {<<x[1], Label(k, x[2])>> : x \in Walk(k, u)}
  BY DEF Tree, Label
<1>2. Label(g, RedactedValue) = RedactedValue
  <2>1. \A c \in DOMAIN g : c[1] = "cell"
    BY MergedShaped, CellsAreCells
  <2> QED
    BY <2>1 DEF RedactedValue, Label, IsCell
<1>3. ASSUME t \in Tree(g, Root(n))
      PROVE  \/ t \in Tree(h, v) /\ Clean(t[1])
             \/ \E z \in Tree(h, v) : \E i \in DOMAIN z[1] :
                   FirstRedacted(z[1], i) /\ t = <<SubSeq(z[1], 1, i), RedactedValue>>
  <2>1. PICK y \in Walk(g, Root(n)) : t = <<y[1], Label(g, y[2])>>
    BY <1>1, <1>3
  <2>2. PICK x \in Walk(h, v) :
            \/ Clean(x[1]) /\ Image(h, n, v, g, y, x)
            \/ y = <<x[1], RedactedValue>> /\ FirstRedacted(x[1], Len(x[1]))
    BY CopyToOriginal
  <2>3. CASE Clean(x[1]) /\ Image(h, n, v, g, y, x)
    <3>1. y[1] = x[1] /\ Label(g, y[2]) = Label(h, x[2])
      BY <2>3, ImageLabel DEF Image
    <3>2. t = <<x[1], Label(h, x[2])>> /\ t[1] = x[1]
      BY <2>1, <3>1
    <3> QED
      BY <1>1, <2>3, <3>2
  <2>4. CASE y = <<x[1], RedactedValue>> /\ FirstRedacted(x[1], Len(x[1]))
    <3> DEFINE z == <<x[1], Label(h, x[2])>>
               k == Len(x[1])
    <3>1. z \in Tree(h, v) /\ z[1] = x[1]
      BY <1>1
    <3>2. Pathed(h, x)
      BY WalkClosed
    <3>3. SubSeq(x[1], 1, k) = x[1] /\ k \in Nat /\ DOMAIN x[1] = 1..k
      BY <3>2, SubSeqFull, LenProperties DEF Pathed
    <3>4. k \in DOMAIN x[1]
      <4>1. ASSUME k = 0 PROVE FALSE
        <5> DEFINE r == << << >>, Root(n) >>
        <5>1. x[1] = << >> /\ y[1] = x[1] /\ y[2] = RedactedValue
          BY <2>4, <3>2, <4>1, EmptySeq DEF Pathed
        <5>2. r \in Walk(g, Root(n)) /\ y[1] = r[1]
          BY <5>1, WalkClosed
        <5> HIDE DEF r
        <5>3. y = r
          BY <5>2, WalkUnique
        <5>4. RedactedValue = Root(n)
          BY <5>1, <5>3 DEF r
        <5> QED
          BY <5>4, CellParts DEF Root, RedactedValue
      <4> QED
        BY <3>3, <4>1
    <3>5. t = <<x[1], RedactedValue>>
      BY <1>2, <2>1, <2>4
    <3> QED
      BY <2>4, <3>1, <3>3, <3>4, <3>5
  <2> QED
    BY <2>2, <2>3, <2>4
<1>4. ASSUME t \in Tree(h, v), Clean(t[1])
      PROVE  t \in Tree(g, Root(n))
  <2>1. PICK x \in Walk(h, v) : t = <<x[1], Label(h, x[2])>>
    BY <1>1, <1>4
  <2>2. PICK y \in Walk(g, Root(n)) : Image(h, n, v, g, y, x)
    <3>1. Clean(x[1])
      BY <1>4, <2>1
    <3> QED
      BY <3>1, OriginalToCopy DEF InCopy
  <2>3. y[1] = x[1] /\ Label(g, y[2]) = Label(h, x[2])
    BY <2>2, ImageLabel DEF Image
  <2>4. t = <<y[1], Label(g, y[2])>>
    BY <2>1, <2>3
  <2> QED
    BY <1>1, <2>4
<1>5. ASSUME NEW z \in Tree(h, v), NEW i \in DOMAIN z[1], FirstRedacted(z[1], i),
             t = <<SubSeq(z[1], 1, i), RedactedValue>>
      PROVE  t \in Tree(g, Root(n))
  <2>1. PICK x \in Walk(h, v) : z = <<x[1], Label(h, x[2])>>
    BY <1>1
  <2>2. z[1] = x[1]
    BY <2>1
  <2>3. t \in Walk(g, Root(n))
    BY <1>5, <2>2, OriginalToCopy DEF InCopy
  <2>4. t = <<t[1], Label(g, t[2])>>
    BY <1>2, <1>5
  <2> QED
    BY <1>1, <2>3, <2>4
<1> QED
  BY <1>3, <1>4, <1>5

(* A record of details shows the placeholder for the value of every key of the list,
   however deep, and all else as it was: of RedactMap, for any details. *)
THEOREM RecordsAreRedacted == Spec => []DetailsRedacted
<1>1. ASSUME Inv PROVE DetailsRedacted
  <2> SUFFICES ASSUME NEW m \in held
               PROVE  Tree(Merged(heap, RedactMap(heap, copies + 1, m)), NewCopy) =
                          {x \in Tree(heap, m) : \A i \in DOMAIN x[1] : ~IsFieldKeyToRedact(x[1][i])}
                          \cup
                          UNION {{<<SubSeq(x[1], 1, i), RedactedValue>> :
                                     i \in {j \in DOMAIN x[1] : FirstRedacted(x[1], j)}} :
                                 x \in Tree(heap, m)}
    BY DEF DetailsRedacted
  <2> DEFINE g == Merged(heap, RedactMap(heap, copies + 1, m))
             from == Tree(heap, m)
             Kept == {x \in from : \A i \in DOMAIN x[1] : ~IsFieldKeyToRedact(x[1][i])}
             Cut(x) == {<<SubSeq(x[1], 1, i), RedactedValue>> :
                           i \in {j \in DOMAIN x[1] : FirstRedacted(x[1], j)}}
  <2>1. MapIn(heap, m)
    BY <1>1 DEF Inv
  <2>2. Copying(heap, copies, m, ToRedact(heap), g)
    BY <1>1, <2>1 DEF Copying, Inv, MapIn, Copied, IsCell, RedactMap
  <2>3. NewCopy = Root(copies)
    BY DEF NewCopy, Root
  <2> HIDE DEF g
  <2>4. ASSUME NEW t
        PROVE  t \in Tree(g, Root(copies)) <=>
                  \/ t \in from /\ Clean(t[1])
                  \/ \E z \in from : \E i \in DOMAIN z[1] :
                        FirstRedacted(z[1], i) /\ t = <<SubSeq(z[1], 1, i), RedactedValue>>
    BY <2>2, RedactedTree
  <2> HIDE DEF from
  <2>5. \A t : t \in Kept <=> t \in from /\ Clean(t[1])
    BY DEF Clean
  <2>6. \A t, z : t \in Cut(z) <=> \E i \in DOMAIN z[1] :
            FirstRedacted(z[1], i) /\ t = <<SubSeq(z[1], 1, i), RedactedValue>>
    OBVIOUS
  <2> HIDE DEF Kept, Cut
  <2>7. \A t : t \in Tree(g, Root(copies)) <=> t \in Kept \cup UNION {Cut(x) : x \in from}
    BY <2>4, <2>5, <2>6
  <2>8. Tree(g, Root(copies)) = Kept \cup UNION {Cut(x) : x \in from}
    BY <2>7
  <2> QED
    BY <2>3, <2>8 DEF g, from, Kept, Cut
<1> QED
  BY <1>1, Invariant, PTL

===========================================================================
