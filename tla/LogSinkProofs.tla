-------------------------- MODULE LogSinkProofs --------------------------
(* Proofs about LogSink, for any number of goroutines, records and pieces   *)
(* and whatever progress a failed write reports.                            *)
EXTENDS LogSink, SequenceTheorems, TLAPS

Recs == Writers \X (1 .. MaxRecords)

(* A goroutine is inside FallbackWriter.Write exactly when it has the mutex. *)
Inside(w) == pc[w] \in {"primary", "fallback"}
MutexOK == \A w \in Writers : Inside(w) <=> mutex = w

(* A goroutine that is not between two calls is in one. *)
InCall == \A w \in Writers : At(w, "idle") \/ calls[w] > 0

(* The writes of a record that may have happened, from where its goroutine is:
   none before FallbackWriter's first, and none on stderr before its second. *)
Begun(rec) ==
    /\ rec[2] <= calls[rec[1]]
    /\ rec = Record(rec[1]) => pc[rec[1]] \in {"fallback", "idle"}
OutBegun == \A i \in DOMAIN stdout : Begun(stdout[i][1])
ErrEnded == \A i \in DOMAIN stderr :
    stderr[i][1][2] <= calls[stderr[i][1][1]] /\ Ended(stderr[i][1])

(* Between the two writes pn is what stdout has of the record. *)
CutOK == \A w \in Writers : At(w, "fallback") =>
    \A n \in 1 .. Pieces : On(stdout, <<Record(w), n>>) <=> n <= pn[w]

(* ... and it is the last that stdout has of anything. *)
CutIsLast == \A w \in Writers : At(w, "fallback") =>
    \A i, j \in DOMAIN stdout :
        i < j /\ stdout[i][1] = Record(w) => stdout[j][1] = Record(w)

WhereOK == TypeOK /\ InCall /\ MutexOK /\ OutBegun /\ ErrEnded /\ CutOK /\ CutIsLast
Inv == WhereOK /\ NoPieceTwice /\ StreamsAgree

---------------------------------------------------------------------------
(* What one write appends.                                                  *)

(* c is the pieces a + 1 to b of rec, in order. *)
IsChunk(c, rec, a, b) ==
    /\ c \in Seq(PieceSet)
    /\ Len(c) = b - a
    /\ \A i \in 1 .. (b - a) : c[i] = <<rec, a + i>>

(* t is the stream s with those pieces at its end. *)
Grown(s, t, rec, a, b) ==
    /\ t \in Seq(PieceSet)
    /\ Len(t) = Len(s) + (b - a)
    /\ \A i \in 1 .. Len(s) : t[i] = s[i]
    /\ \A i \in (Len(s) + 1) .. Len(t) : t[i] = <<rec, a + (i - Len(s))>>

LEMMA AfterIsChunk ==
  ASSUME NEW rec \in Recs, NEW n \in 0 .. Pieces
  PROVE  IsChunk(After(rec, n), rec, n, Pieces)
<1> DEFINE c == After(rec, n)
<1>1. c \in [1 .. (Pieces - n) -> PieceSet]
  BY SinkAssumption DEF After, PieceSet, Recs
<1>2. Pieces - n \in Nat
  BY SinkAssumption
<1>3. c \in Seq(PieceSet)
  BY <1>1, <1>2, SeqDef
<1>4. Len(c) = Pieces - n
  BY <1>1, <1>2, <1>3, LenProperties DEF After
<1>5. \A i \in 1 .. (Pieces - n) : c[i] = <<rec, n + i>>
  BY DEF After
<1> QED
  BY <1>3, <1>4, <1>5 DEF IsChunk

LEMMA FirstIsChunk ==
  ASSUME NEW rec \in Recs, NEW a \in Nat, NEW b \in Nat, NEW n \in 0 .. (b - a),
         NEW c, IsChunk(c, rec, a, b)
  PROVE  IsChunk(FirstOf(c, n), rec, a, a + n)
<1>1. c \in Seq(PieceSet) /\ Len(c) = b - a /\ 1 \in Int /\ n \in Int
  BY DEF IsChunk
<1>2. \A i \in 1 .. n : c[i] \in PieceSet
  BY <1>1, ElementOfSeq
<1>3. /\ SubSeq(c, 1, n) \in Seq(PieceSet)
      /\ Len(SubSeq(c, 1, n)) = IF 1 <= n THEN n - 1 + 1 ELSE 0
      /\ \A i \in 1 .. (n - 1 + 1) : SubSeq(c, 1, n)[i] = c[1 + i - 1]
  BY <1>1, <1>2, SubSeqProperties
<1>4. \A i \in 1 .. n : c[1 + i - 1] = <<rec, a + i>>
  BY DEF IsChunk
<1> QED
  BY <1>3, <1>4 DEF IsChunk, FirstOf

LEMMA AppendedChunk ==
  ASSUME NEW s \in Seq(PieceSet), NEW rec \in Recs, NEW a \in Nat, NEW b \in Nat, a <= b,
         NEW c, IsChunk(c, rec, a, b)
  PROVE  Grown(s, s \o c, rec, a, b)
<1>1. c \in Seq(PieceSet) /\ Len(c) = b - a /\ Len(s) \in Nat
  BY LenProperties DEF IsChunk
<1>2. /\ s \o c \in Seq(PieceSet)
      /\ Len(s \o c) = Len(s) + Len(c)
      /\ \A i \in 1 .. Len(s) + Len(c) : (s \o c)[i] =
                     IF i <= Len(s) THEN s[i] ELSE c[i - Len(s)]
  BY <1>1, ConcatProperties
<1>3. \A i \in 1 .. Len(s) : (s \o c)[i] = s[i]
  BY <1>1, <1>2
<1>4. \A i \in (Len(s) + 1) .. (Len(s) + Len(c)) :
          (s \o c)[i] = c[i - Len(s)] /\ i - Len(s) \in 1 .. (b - a)
  BY <1>1, <1>2
<1>5. \A i \in (Len(s) + 1) .. Len(s \o c) : (s \o c)[i] = <<rec, a + (i - Len(s))>>
  BY <1>1, <1>2, <1>4 DEF IsChunk
<1> QED
  BY <1>1, <1>2, <1>3, <1>5 DEF Grown

(* What is on the longer stream. *)
LEMMA OnGrown ==
  ASSUME NEW s \in Seq(PieceSet), NEW t, NEW rec, NEW a \in Nat, NEW b \in Nat, a <= b,
         Grown(s, t, rec, a, b), NEW r, NEW n
  PROVE  On(t, <<r, n>>) <=> On(s, <<r, n>>) \/ (r = rec /\ n \in (a + 1) .. b)
<1>1. /\ Len(s) \in Nat /\ DOMAIN s = 1 .. Len(s)
      /\ Len(t) = Len(s) + (b - a) /\ DOMAIN t = 1 .. Len(t)
  BY LenProperties DEF Grown
<1>2. ASSUME On(t, <<r, n>>)
      PROVE  On(s, <<r, n>>) \/ (r = rec /\ n \in (a + 1) .. b)
  <2>1. PICK i \in DOMAIN t : t[i] = <<r, n>>
    BY <1>2 DEF On
  <2>2. CASE i <= Len(s)
    BY <1>1, <2>1, <2>2 DEF On, Grown
  <2>3. CASE ~(i <= Len(s))
    <3>1. <<r, n>> = <<rec, a + (i - Len(s))>>
      BY <1>1, <2>1, <2>3 DEF Grown
    <3> QED
      BY <1>1, <2>1, <2>3, <3>1
  <2> QED
    BY <2>2, <2>3
<1>3. ASSUME On(s, <<r, n>>) PROVE On(t, <<r, n>>)
  BY <1>1, <1>3 DEF On, Grown
<1>4. ASSUME r = rec, n \in (a + 1) .. b PROVE On(t, <<r, n>>)
  <2>1. Len(s) + (n - a) \in (Len(s) + 1) .. Len(t)
    BY <1>1, <1>4
  <2>2. t[Len(s) + (n - a)] = <<rec, a + ((Len(s) + (n - a)) - Len(s))>>
    BY <2>1 DEF Grown
  <2>3. a + ((Len(s) + (n - a)) - Len(s)) = n
    BY <1>1, <1>4
  <2> QED
    BY <1>1, <1>4, <2>1, <2>2, <2>3 DEF On
<1> QED
  BY <1>2, <1>3, <1>4

(* The new entries are of rec and follow the old ones. *)
LEMMA IndexGrown ==
  ASSUME NEW s \in Seq(PieceSet), NEW t, NEW rec, NEW a \in Nat, NEW b \in Nat, a <= b,
         Grown(s, t, rec, a, b), NEW i \in DOMAIN t
  PROVE  /\ i \in Nat
         /\ \/ i \in DOMAIN s /\ t[i] = s[i]
            \/ t[i][1] = rec /\ \A j \in DOMAIN s : j < i
<1>1. /\ Len(s) \in Nat /\ DOMAIN s = 1 .. Len(s)
      /\ Len(t) = Len(s) + (b - a) /\ DOMAIN t = 1 .. Len(t)
  BY LenProperties DEF Grown
<1>2. CASE i <= Len(s)
  BY <1>1, <1>2 DEF Grown
<1>3. CASE ~(i <= Len(s))
  BY <1>1, <1>3 DEF Grown
<1> QED
  BY <1>2, <1>3

(* No piece comes twice if none of the new ones was there. *)
LEMMA DistinctGrown ==
  ASSUME NEW s \in Seq(PieceSet), NEW t, NEW rec, NEW a \in Nat, NEW b \in Nat, a <= b,
         Grown(s, t, rec, a, b),
         \A i, j \in DOMAIN s : i # j => s[i] # s[j],
         \A n \in (a + 1) .. b : ~On(s, <<rec, n>>)
  PROVE  \A i, j \in DOMAIN t : i # j => t[i] # t[j]
<1>1. /\ Len(s) \in Nat /\ DOMAIN s = 1 .. Len(s)
      /\ Len(t) = Len(s) + (b - a) /\ DOMAIN t = 1 .. Len(t)
  BY LenProperties DEF Grown
<1>2. SUFFICES ASSUME NEW i \in DOMAIN t, NEW j \in DOMAIN t, i < j
               PROVE  t[i] # t[j]
  BY <1>1
<1>3. CASE j <= Len(s)
  BY <1>1, <1>2, <1>3 DEF Grown
<1>4. CASE ~(j <= Len(s))
  <2>1. t[j] = <<rec, a + (j - Len(s))>> /\ a + (j - Len(s)) \in (a + 1) .. b
    BY <1>1, <1>4 DEF Grown
  <2>2. CASE i <= Len(s)
    <3>1. t[i] = s[i] /\ i \in DOMAIN s
      BY <1>1, <2>2 DEF Grown
    <3>2. ~On(s, <<rec, a + (j - Len(s))>>)
      BY <2>1
    <3>3. On(s, s[i])
      BY <3>1 DEF On
    <3> QED
      BY <2>1, <3>1, <3>2, <3>3
  <2>3. CASE ~(i <= Len(s))
    <3>0. i \in (Len(s) + 1) .. Len(t)
      BY <1>1, <2>3
    <3>1. t[i] = <<rec, a + (i - Len(s))>>
      BY <3>0 DEF Grown
    <3>2. a + (i - Len(s)) # a + (j - Len(s))
      BY <1>1, <1>2
    <3> QED
      BY <2>1, <3>1, <3>2
  <2> QED
    BY <2>2, <2>3
<1> QED
  BY <1>3, <1>4

---------------------------------------------------------------------------
(* What the two writes do, in these terms.                                  *)

LEMMA OneRecord ==
  ASSUME TypeOK, InCall, NEW w \in Writers, ~At(w, "idle")
  PROVE  Record(w) \in Recs
<1>1. calls[w] \in 1 .. MaxRecords
  BY SinkAssumption DEF TypeOK, InCall
<1> QED
  BY <1>1 DEF Record, Recs

(* The write to stdout ends the call, or leaves what b counts. *)
PrimaryEffect(w, b) ==
    /\ Grown(stdout, stdout', Record(w), 0, b)
    /\ \/ b = Pieces /\ Return(w) /\ UNCHANGED pn
       \/ b < Pieces /\ pn' = [pn EXCEPT ![w] = b] /\ Goto(w, "fallback") /\ UNCHANGED mutex
    /\ UNCHANGED <<calls, stderr, drops>>

LEMMA PrimaryDoes ==
  ASSUME TypeOK, InCall, NEW w \in Writers, WritePrimary(w)
  PROVE  \E b \in 0 .. Pieces : PrimaryEffect(w, b)
<1> DEFINE c == After(Record(w), 0)
<1>1. Record(w) \in Recs
  BY OneRecord DEF WritePrimary, At
<1>2. Pieces \in Nat /\ 0 \in 0 .. Pieces /\ Pieces \in 0 .. Pieces /\ 0 \in Nat /\ 0 <= Pieces
  BY SinkAssumption
<1>3. IsChunk(c, Record(w), 0, Pieces)
  BY <1>1, <1>2, AfterIsChunk
<1>4. stdout \in Seq(PieceSet)
  BY DEF TypeOK
<1>5. CASE stdout' = stdout \o c /\ Return(w) /\ UNCHANGED pn
  <2>1. Grown(stdout, stdout', Record(w), 0, Pieces)
    BY <1>1, <1>2, <1>3, <1>4, <1>5, AppendedChunk
  <2> QED
    BY <1>2, <1>5, <2>1 DEF PrimaryEffect, WritePrimary
<1>6. ASSUME NEW n \in ErrorReports, stdout' = stdout \o FirstOf(c, n),
             pn' = [pn EXCEPT ![w] = n], Goto(w, "fallback"), UNCHANGED mutex
      PROVE  PrimaryEffect(w, n) /\ n \in 0 .. Pieces
  <2>1. n \in 0 .. (Pieces - 0) /\ n \in Nat /\ n < Pieces /\ 0 <= n /\ 0 + n = n
    BY SinkAssumption
  <2>2. IsChunk(FirstOf(c, n), Record(w), 0, 0 + n)
    BY <1>1, <1>2, <1>3, <2>1, FirstIsChunk
  <2>3. Grown(stdout, stdout', Record(w), 0, n)
    BY <1>1, <1>2, <1>4, <1>6, <2>1, <2>2, AppendedChunk
  <2> QED
    BY <1>2, <1>6, <2>1, <2>3 DEF PrimaryEffect, WritePrimary
<1> QED
  BY <1>2, <1>5, <1>6 DEF WritePrimary

(* The write to stderr ends the call, and counts a drop when it falls short. *)
FallbackEffect(w, b) ==
    /\ Grown(stderr, stderr', Record(w), pn[w], b)
    /\ Return(w)
    /\ drops' = IF b = Pieces THEN drops ELSE drops + 1
    /\ UNCHANGED <<calls, pn, stdout>>

LEMMA FallbackDoes ==
  ASSUME TypeOK, InCall, NEW w \in Writers, WriteFallback(w)
  PROVE  \E b \in pn[w] .. Pieces : FallbackEffect(w, b)
<1> DEFINE c == Remaining(w)
<1>1. Record(w) \in Recs
  BY OneRecord DEF WriteFallback, At
<1>2. Pieces \in Nat /\ pn[w] \in Nat /\ pn[w] \in 0 .. Pieces /\ pn[w] <= Pieces
      /\ Pieces \in pn[w] .. Pieces
  BY SinkAssumption DEF TypeOK
<1>3. IsChunk(c, Record(w), pn[w], Pieces)
  BY <1>1, <1>2, AfterIsChunk DEF Remaining
<1>4. stderr \in Seq(PieceSet)
  BY DEF TypeOK
<1>5. CASE stderr' = stderr \o c /\ Return(w) /\ UNCHANGED drops
  <2>1. Grown(stderr, stderr', Record(w), pn[w], Pieces)
    BY <1>1, <1>2, <1>3, <1>4, <1>5, AppendedChunk
  <2>2. UNCHANGED <<calls, pn, stdout>>
    BY DEF WriteFallback
  <2>3. FallbackEffect(w, Pieces)
    BY <1>5, <2>1, <2>2 DEF FallbackEffect
  <2> QED
    BY <1>2, <2>3
<1>6. ASSUME NEW n \in ErrorReports, n < Len(c), stderr' = stderr \o FirstOf(c, n),
             drops' = drops + 1, Return(w)
      PROVE  FallbackEffect(w, pn[w] + n) /\ pn[w] + n \in pn[w] .. Pieces
  <2>1. n \in Nat /\ n < Pieces - pn[w]
    BY <1>3, <1>6, SinkAssumption DEF IsChunk
  <2>2. n \in 0 .. (Pieces - pn[w]) /\ pn[w] + n \in Nat
        /\ pn[w] <= pn[w] + n /\ pn[w] + n < Pieces
    BY <1>2, <2>1
  <2>3. IsChunk(FirstOf(c, n), Record(w), pn[w], pn[w] + n)
    BY <1>1, <1>2, <1>3, <2>2, FirstIsChunk
  <2>4. Grown(stderr, stderr', Record(w), pn[w], pn[w] + n)
    BY <1>1, <1>2, <1>4, <1>6, <2>2, <2>3, AppendedChunk
  <2> QED
    BY <1>2, <1>6, <2>2, <2>4 DEF FallbackEffect, WriteFallback
<1> QED
  BY <1>2, <1>5, <1>6 DEF WriteFallback, FallbackFails

---------------------------------------------------------------------------
(* The invariant.                                                           *)

LEMMA InitInv == Init => Inv
<1> SUFFICES ASSUME Init PROVE Inv
  OBVIOUS
<1>1. stdout \in Seq(PieceSet) /\ stderr \in Seq(PieceSet)
  BY EmptySeq DEF Init
<1>2. DOMAIN stdout = {} /\ DOMAIN stderr = {}
  BY DEF Init
<1>3. TypeOK
  <2>1. 0 \in 0 .. MaxRecords /\ 0 \in 0 .. (Pieces - 1) /\ 0 \in Nat
    BY SinkAssumption
  <2> QED
    BY <1>1, <2>1 DEF Init, TypeOK
<1>4. \A w \in Writers : At(w, "idle") /\ ~At(w, "fallback") /\ ~Inside(w)
  BY DEF Init, At, Inside
<1>5. InCall /\ MutexOK /\ CutOK /\ CutIsLast
  BY <1>4, SinkAssumption DEF Init, InCall, MutexOK, CutOK, CutIsLast
<1>6. OutBegun /\ ErrEnded
  BY <1>2 DEF OutBegun, ErrEnded
<1>7. NoPieceTwice /\ StreamsAgree
  BY <1>2 DEF NoPieceTwice, StreamsAgree, On
<1> QED
  BY <1>3, <1>5, <1>6, <1>7 DEF Inv, WhereOK

(* The steps that write nothing keep what is said of the streams alone. *)
LEMMA SameStreams ==
  ASSUME Inv, UNCHANGED <<stdout, stderr>>
  PROVE  NoPieceTwice' /\ StreamsAgree'
  BY DEF Inv, NoPieceTwice, StreamsAgree, On

LEMMA LogInv == ASSUME Inv, NEW w \in Writers, Log(w) PROVE Inv'
<1> USE DEF Inv, WhereOK
<1>1. TypeOK'
  BY SinkAssumption DEF Log, TypeOK, Goto
<1>2. /\ calls'[w] = calls[w] + 1 /\ calls[w] \in Nat /\ pc'[w] = "formatted"
      /\ \A v \in Writers \ {w} : calls'[v] = calls[v] /\ pc'[v] = pc[v]
  BY SinkAssumption DEF Log, TypeOK, Goto
<1>3. InCall'
  BY <1>2 DEF InCall, At
<1>4. MutexOK'
  BY <1>2 DEF MutexOK, Inside, Log, At
<1>5. ASSUME NEW v \in Writers, NEW k \in Nat, k <= calls[v]
      PROVE  /\ k <= calls'[v]
             /\ <<v, k>> = Record(v)' => <<v, k>> = Record(v) /\ v # w
  BY <1>2, <1>5 DEF Record
<1>6. \A i \in DOMAIN stdout : stdout[i][1] \in Writers \X Nat
  BY ElementOfSeq, LenProperties, SinkAssumption DEF TypeOK, PieceSet
<1>7. \A i \in DOMAIN stderr : stderr[i][1] \in Writers \X Nat
  BY ElementOfSeq, LenProperties, SinkAssumption DEF TypeOK, PieceSet
<1>8. OutBegun'
  BY <1>2, <1>5, <1>6 DEF OutBegun, Begun, Log
<1>9. ErrEnded'
  BY <1>2, <1>5, <1>7 DEF ErrEnded, Ended, Log, At
<1>10. \A v \in Writers : At(v, "fallback")' =>
           v # w /\ At(v, "fallback") /\ Record(v)' = Record(v)
  BY <1>2 DEF At, Record
<1>11. CutOK' /\ CutIsLast'
  BY <1>10 DEF CutOK, CutIsLast, Log, On
<1> QED
  BY <1>1, <1>3, <1>4, <1>8, <1>9, <1>11, SameStreams DEF Log

LEMMA LockInv == ASSUME Inv, NEW w \in Writers, Lock(w) PROVE Inv'
<1> USE DEF Inv, WhereOK
<1>1. TypeOK'
  BY DEF Lock, TypeOK, Goto
<1>2. /\ pc'[w] = "primary" /\ pc[w] = "formatted"
      /\ \A v \in Writers \ {w} : pc'[v] = pc[v]
      /\ calls' = calls
  BY DEF Lock, TypeOK, Goto, At
<1>3. InCall'
  BY <1>2 DEF InCall, At
<1>4. MutexOK'
  BY <1>2, SinkAssumption DEF MutexOK, Inside, Lock
<1>5. \A i \in DOMAIN stdout : stdout[i][1] \in Writers \X Nat
  BY ElementOfSeq, LenProperties, SinkAssumption DEF TypeOK, PieceSet
<1>6. \A i \in DOMAIN stderr : stderr[i][1] \in Writers \X Nat
  BY ElementOfSeq, LenProperties, SinkAssumption DEF TypeOK, PieceSet
<1>7. OutBegun'
  BY <1>2, <1>5 DEF OutBegun, Begun, Lock, Record
<1>8. ErrEnded'
  BY <1>2, <1>6 DEF ErrEnded, Ended, Lock, At, Record
<1>9. CutOK' /\ CutIsLast'
  BY <1>2 DEF CutOK, CutIsLast, Lock, On, At, Record
<1> QED
  BY <1>1, <1>3, <1>4, <1>7, <1>8, <1>9, SameStreams DEF Lock

LEMMA ReaderInv == ASSUME Inv, Clog \/ Unclog \/ UNCHANGED vars PROVE Inv'
<1> USE DEF Inv, WhereOK
<1>1. UNCHANGED <<pc, calls, mutex, pn, stdout, stderr, drops>> /\ clogged' \in BOOLEAN
  BY DEF Clog, Unclog, vars, TypeOK
<1>2. TypeOK' /\ InCall' /\ MutexOK' /\ OutBegun' /\ ErrEnded'
  BY <1>1 DEF TypeOK, InCall, MutexOK, OutBegun, ErrEnded, Begun, Ended, Inside, At, Record
<1>3. CutOK' /\ CutIsLast'
  BY <1>1 DEF CutOK, CutIsLast, On, At, Record
<1> QED
  BY <1>1, <1>2, <1>3, SameStreams

(* stdout gets a record of which neither stream has a piece. *)
LEMMA PrimaryFresh ==
  ASSUME Inv, NEW w \in Writers, At(w, "primary"), NEW n
  PROVE  ~On(stdout, <<Record(w), n>>) /\ ~On(stderr, <<Record(w), n>>)
<1>1. ASSUME NEW i \in DOMAIN stdout, stdout[i] = <<Record(w), n>> PROVE FALSE
  <2>1. Begun(Record(w))
    BY <1>1 DEF Inv, WhereOK, OutBegun
  <2> QED
    BY <2>1 DEF Begun, Record, At
<1>2. ASSUME NEW i \in DOMAIN stderr, stderr[i] = <<Record(w), n>> PROVE FALSE
  <2>1. Ended(Record(w))
    BY <1>2 DEF Inv, WhereOK, ErrEnded
  <2> QED
    BY <2>1 DEF Ended, Record, At
<1> QED
  BY <1>1, <1>2 DEF On

(* Of a record cut in two stderr has nothing yet. *)
LEMMA FallbackFresh ==
  ASSUME Inv, NEW w \in Writers, At(w, "fallback"),
         NEW i \in DOMAIN stderr
  PROVE  stderr[i][1] # Record(w)
<1>1. Ended(stderr[i][1])
  BY DEF Inv, WhereOK, ErrEnded
<1> QED
  BY <1>1 DEF Ended, Record, At

LEMMA PrimaryInv == ASSUME Inv, NEW w \in Writers, WritePrimary(w) PROVE Inv'
<1> USE DEF Inv, WhereOK
<1>1. PICK b \in 0 .. Pieces : PrimaryEffect(w, b)
  BY PrimaryDoes
<1>2. /\ At(w, "primary") /\ Record(w) \in Recs /\ b \in Nat /\ 0 \in Nat /\ 0 <= b
      /\ Grown(stdout, stdout', Record(w), 0, b)
      /\ stdout \in Seq(PieceSet) /\ calls' = calls /\ stderr' = stderr
      /\ clogged' = clogged /\ drops' = drops
  BY <1>1, OneRecord, SinkAssumption DEF PrimaryEffect, WritePrimary, At, TypeOK
<1>3. \A i \in DOMAIN stdout' :
           /\ i \in Nat
           /\ \/ i \in DOMAIN stdout /\ stdout'[i] = stdout[i]
              \/ stdout'[i][1] = Record(w) /\ \A j \in DOMAIN stdout : j < i
  BY <1>2, IndexGrown
<1>4. /\ pc' \in [Writers -> {"idle", "formatted", "primary", "fallback"}]
      /\ pc'[w] \in {"idle", "fallback"} /\ pc[w] = "primary" /\ mutex = w
      /\ \A v \in Writers \ {w} : pc'[v] = pc[v]
      /\ pc'[w] = "idle" => mutex' = None
      /\ pc'[w] = "fallback" => mutex' = w /\ b < Pieces /\ pn' = [pn EXCEPT ![w] = b]
      /\ mutex' \in {w, None} /\ pn' \in [Writers -> 0 .. (Pieces - 1)]
  <2>1. CASE Return(w) /\ UNCHANGED pn
    BY <1>2, <2>1 DEF Return, Goto, TypeOK, MutexOK, Inside, At
  <2>2. CASE b < Pieces /\ pn' = [pn EXCEPT ![w] = b] /\ Goto(w, "fallback") /\ UNCHANGED mutex
    BY <1>2, <2>2, SinkAssumption DEF Goto, TypeOK, MutexOK, Inside, At
  <2> QED
    BY <1>1, <2>1, <2>2 DEF PrimaryEffect
<1>5. \A v \in Writers : Record(v)' = Record(v)
  BY <1>2 DEF Record
<1>6. TypeOK'
  BY <1>2, <1>4 DEF TypeOK, Grown
<1>7. InCall'
  BY <1>2, <1>4 DEF InCall, At
<1>8. MutexOK'
  BY <1>4, SinkAssumption DEF MutexOK, Inside
<1>9. OutBegun'
  <2> SUFFICES ASSUME NEW i \in DOMAIN stdout' PROVE Begun(stdout[i][1])'
    BY DEF OutBegun
  <2>1. CASE i \in DOMAIN stdout /\ stdout'[i] = stdout[i]
    <3>1. stdout[i] \in PieceSet
      BY <2>1, ElementOfSeq, LenProperties DEF TypeOK
    <3>2. Begun(stdout[i][1])
      BY <2>1 DEF OutBegun
    <3> QED
      BY <1>2, <1>4, <1>5, <2>1, <3>1, <3>2 DEF Begun, Record, PieceSet
  <2>2. CASE stdout'[i][1] = Record(w)
    <3>1. calls[w] <= calls[w]
      BY SinkAssumption DEF TypeOK
    <3> QED
      BY <1>2, <1>4, <1>5, <2>2, <3>1 DEF Begun, Record
  <2> QED
    BY <1>3, <2>1, <2>2
<1>10. ErrEnded'
  <2> SUFFICES ASSUME NEW i \in DOMAIN stderr
               PROVE  (stderr[i][1][2] <= calls[stderr[i][1][1]])' /\ Ended(stderr[i][1])'
    BY <1>2 DEF ErrEnded
  <2>1. stderr[i] \in PieceSet
    BY ElementOfSeq, LenProperties DEF TypeOK
  <2>2. Ended(stderr[i][1]) /\ stderr[i][1][2] <= calls[stderr[i][1][1]]
    BY DEF ErrEnded
  <2>3. stderr[i][1][1] # w \/ stderr[i][1] # Record(w)
    BY <1>4, <2>2 DEF Ended, At
  <2> QED
    BY <1>2, <1>4, <1>5, <2>1, <2>2, <2>3 DEF Ended, At, Record, PieceSet
<1>11. CutOK'
  <2> SUFFICES ASSUME NEW v \in Writers, At(v, "fallback")', NEW n \in 1 .. Pieces
               PROVE  (On(stdout, <<Record(v), n>>) <=> n <= pn[v])'
    BY DEF CutOK
  <2>1. v = w
    BY <1>4 DEF At, MutexOK, Inside
  <2>2. b < Pieces /\ pn'[w] = b
    BY <1>4, <2>1 DEF At, TypeOK
  <2>3. On(stdout', <<Record(w), n>>) <=>
        On(stdout, <<Record(w), n>>) \/ (Record(w) = Record(w) /\ n \in (0 + 1) .. b)
    BY <1>2, OnGrown
  <2>4. ~On(stdout, <<Record(w), n>>)
    BY <1>2, PrimaryFresh
  <2>5. n \in (0 + 1) .. b <=> n <= b
    BY <1>2
  <2>6. On(stdout', <<Record(w), n>>) <=> n <= b
    BY <2>3, <2>4, <2>5
  <2> QED
    BY <1>5, <2>1, <2>2, <2>6 DEF On
<1>12. CutIsLast'
  <2> SUFFICES ASSUME NEW v \in Writers, At(v, "fallback")',
                      NEW i \in DOMAIN stdout', NEW j \in DOMAIN stdout',
                      i < j, stdout'[i][1] = Record(v)
               PROVE  stdout'[j][1] = Record(v)
    BY <1>5 DEF CutIsLast
  <2>1. v = w
    BY <1>4 DEF At, MutexOK, Inside
  <2>2. stdout'[i] = <<Record(w), stdout'[i][2]>>
    BY <1>2, <2>1, ElementOfSeq, LenProperties DEF Grown, PieceSet
  <2>3. ~(i \in DOMAIN stdout /\ stdout'[i] = stdout[i])
    BY <1>2, <2>2, PrimaryFresh DEF On
  <2>4. \A k \in DOMAIN stdout : k < i
    BY <2>3, <1>3
  <2>5. i \in Nat /\ j \in Nat
    BY <1>3
  <2>6. j \notin DOMAIN stdout
    BY <2>4, <2>5
  <2> QED
    BY <1>3, <2>1, <2>6
<1>13. NoPieceTwice'
  <2>1. \A i, j \in DOMAIN stdout' : i # j => stdout'[i] # stdout'[j]
    <3>1. \A i, j \in DOMAIN stdout : i # j => stdout[i] # stdout[j]
      BY DEF NoPieceTwice
    <3>2. \A n \in (0 + 1) .. b : ~On(stdout, <<Record(w), n>>)
      BY <1>2, PrimaryFresh
    <3> QED
      BY <1>2, <3>1, <3>2, DistinctGrown
  <2>2. ASSUME NEW piece \in PieceSet PROVE ~(On(stdout', piece) /\ On(stderr, piece))
    <3>1. piece = <<piece[1], piece[2]>>
      BY DEF PieceSet
    <3>2. On(stdout', piece) => On(stdout, piece) \/ piece[1] = Record(w)
      BY <1>2, <3>1, OnGrown
    <3>3. piece[1] = Record(w) => ~On(stderr, piece)
      BY <1>2, <3>1, PrimaryFresh
    <3> QED
      BY <3>2, <3>3 DEF NoPieceTwice
  <2>3. \A i, j \in DOMAIN stderr : i # j => stderr[i] # stderr[j]
    BY DEF NoPieceTwice
  <2> QED
    BY <1>2, <2>1, <2>2, <2>3 DEF NoPieceTwice, On
<1>14. StreamsAgree'
  <2> SUFFICES ASSUME NEW i \in DOMAIN stdout', NEW j \in DOMAIN stdout',
                      NEW k \in DOMAIN stderr, NEW l \in DOMAIN stderr,
                      i < j, k < l, stdout'[i][1] = stderr[l][1],
                      stdout'[j][1] = stderr[k][1]
               PROVE  stdout'[i][1] = stdout'[j][1]
    BY <1>2 DEF StreamsAgree
  <2>1. \A m \in DOMAIN stderr : stderr[m][1] # Record(w)
    <3> SUFFICES ASSUME NEW m \in DOMAIN stderr, stderr[m][1] = Record(w) PROVE FALSE
      OBVIOUS
    <3>1. stderr[m] = <<Record(w), stderr[m][2]>>
      BY ElementOfSeq, LenProperties DEF TypeOK, PieceSet
    <3> QED
      BY <1>2, <3>1, PrimaryFresh DEF On
  <2>2. i \in DOMAIN stdout /\ stdout'[i] = stdout[i]
    BY <1>3, <2>1
  <2>3. j \in DOMAIN stdout /\ stdout'[j] = stdout[j]
    BY <1>3, <2>1
  <2> QED
    BY <2>2, <2>3 DEF StreamsAgree
<1> QED
  BY <1>6, <1>7, <1>8, <1>9, <1>10, <1>11, <1>12, <1>13, <1>14

LEMMA FallbackInv == ASSUME Inv, NEW w \in Writers, WriteFallback(w) PROVE Inv'
<1> USE DEF Inv, WhereOK
<1>1. PICK b \in pn[w] .. Pieces : FallbackEffect(w, b)
  BY FallbackDoes
<1>2. /\ At(w, "fallback") /\ Record(w) \in Recs
      /\ pn[w] \in Nat /\ b \in Nat /\ pn[w] <= b /\ b <= Pieces
      /\ Grown(stderr, stderr', Record(w), pn[w], b)
      /\ stderr \in Seq(PieceSet) /\ calls' = calls /\ stdout' = stdout /\ pn' = pn
      /\ clogged' = clogged /\ drops' \in Nat
  <2>1. pn[w] \in Nat /\ pn[w] \in 0 .. (Pieces - 1) /\ stderr \in Seq(PieceSet)
    BY SinkAssumption DEF TypeOK
  <2>2. b \in Nat /\ pn[w] <= b /\ b <= Pieces
    BY <2>1, SinkAssumption
  <2>3. At(w, "fallback") /\ Record(w) \in Recs /\ clogged' = clogged
    BY OneRecord DEF WriteFallback, At
  <2>4. drops' \in Nat
    BY <1>1 DEF FallbackEffect, TypeOK
  <2> QED
    BY <1>1, <2>1, <2>2, <2>3, <2>4 DEF FallbackEffect
<1>3. \A i \in DOMAIN stderr' :
           /\ i \in Nat
           /\ \/ i \in DOMAIN stderr /\ stderr'[i] = stderr[i]
              \/ stderr'[i][1] = Record(w) /\ \A j \in DOMAIN stderr : j < i
  BY <1>2, IndexGrown
<1>4. /\ pc' \in [Writers -> {"idle", "formatted", "primary", "fallback"}]
      /\ pc'[w] = "idle" /\ pc[w] = "fallback" /\ mutex = w /\ mutex' = None
      /\ \A v \in Writers \ {w} : pc'[v] = pc[v]
  BY <1>1, <1>2 DEF FallbackEffect, Return, Goto, TypeOK, MutexOK, Inside, At
<1>5. \A v \in Writers : Record(v)' = Record(v)
  BY <1>2 DEF Record
<1>6. TypeOK'
  BY <1>2, <1>4 DEF TypeOK, Grown
<1>7. InCall'
  BY <1>2, <1>4 DEF InCall, At
<1>8. MutexOK'
  BY <1>4, SinkAssumption DEF MutexOK, Inside
<1>9. OutBegun'
  <2> SUFFICES ASSUME NEW i \in DOMAIN stdout PROVE Begun(stdout[i][1])'
    BY <1>2 DEF OutBegun
  <2>1. stdout[i] \in PieceSet
    BY ElementOfSeq, LenProperties DEF TypeOK
  <2>2. Begun(stdout[i][1])
    BY DEF OutBegun
  <2> QED
    BY <1>2, <1>4, <1>5, <2>1, <2>2 DEF Begun, Record, PieceSet
<1>10. ErrEnded'
  <2> SUFFICES ASSUME NEW i \in DOMAIN stderr'
               PROVE  (stderr[i][1][2] <= calls[stderr[i][1][1]])' /\ Ended(stderr[i][1])'
    BY DEF ErrEnded
  <2>1. CASE i \in DOMAIN stderr /\ stderr'[i] = stderr[i]
    <3>1. stderr[i] \in PieceSet
      BY <2>1, ElementOfSeq, LenProperties DEF TypeOK
    <3>2. Ended(stderr[i][1]) /\ stderr[i][1][2] <= calls[stderr[i][1][1]]
      BY <2>1 DEF ErrEnded
    <3> QED
      BY <1>2, <1>4, <1>5, <2>1, <3>1, <3>2 DEF Ended, At, Record, PieceSet
  <2>2. CASE stderr'[i][1] = Record(w)
    <3>1. calls[w] <= calls[w]
      BY SinkAssumption DEF TypeOK
    <3> QED
      BY <1>2, <1>4, <2>2, <3>1 DEF Ended, At, Record
  <2> QED
    BY <1>3, <2>1, <2>2
<1>11. CutOK' /\ CutIsLast'
  <2>1. \A v \in Writers : ~At(v, "fallback")'
    BY <1>4, SinkAssumption DEF At, MutexOK, Inside
  <2> QED
    BY <2>1 DEF CutOK, CutIsLast
<1>12. \A n \in (pn[w] + 1) .. b : ~On(stdout, <<Record(w), n>>)
  <2> SUFFICES ASSUME NEW n \in (pn[w] + 1) .. b PROVE ~On(stdout, <<Record(w), n>>)
    OBVIOUS
  <2>1. n \in 1 .. Pieces /\ ~(n <= pn[w])
    BY <1>2, SinkAssumption
  <2> QED
    BY <1>2, <2>1 DEF CutOK
<1>13. NoPieceTwice'
  <2>1. \A i, j \in DOMAIN stderr' : i # j => stderr'[i] # stderr'[j]
    <3>1. \A i, j \in DOMAIN stderr : i # j => stderr[i] # stderr[j]
      BY DEF NoPieceTwice
    <3>2. \A n \in (pn[w] + 1) .. b : ~On(stderr, <<Record(w), n>>)
      BY <1>2, FallbackFresh DEF On
    <3> QED
      BY <1>2, <3>1, <3>2, DistinctGrown
  <2>2. ASSUME NEW piece \in PieceSet PROVE ~(On(stdout, piece) /\ On(stderr', piece))
    <3>1. piece = <<piece[1], piece[2]>>
      BY DEF PieceSet
    <3>2. On(stderr', piece) =>
              On(stderr, piece) \/ (piece[1] = Record(w) /\ piece[2] \in (pn[w] + 1) .. b)
      BY <1>2, <3>1, OnGrown
    <3>3. piece[1] = Record(w) /\ piece[2] \in (pn[w] + 1) .. b => ~On(stdout, piece)
      BY <1>12, <3>1
    <3> QED
      BY <3>2, <3>3 DEF NoPieceTwice
  <2>3. \A i, j \in DOMAIN stdout : i # j => stdout[i] # stdout[j]
    BY DEF NoPieceTwice
  <2> QED
    BY <1>2, <2>1, <2>2, <2>3 DEF NoPieceTwice, On
<1>14. StreamsAgree'
  <2> SUFFICES ASSUME NEW i \in DOMAIN stdout, NEW j \in DOMAIN stdout,
                      NEW k \in DOMAIN stderr', NEW l \in DOMAIN stderr',
                      i < j, k < l, stdout[i][1] = stderr'[l][1],
                      stdout[j][1] = stderr'[k][1]
               PROVE  stdout[i][1] = stdout[j][1]
    BY <1>2 DEF StreamsAgree
  <2>1. CASE stderr'[l][1] = Record(w)
    BY <1>2, <2>1 DEF CutIsLast
  <2>2. CASE l \in DOMAIN stderr /\ stderr'[l] = stderr[l]
    <3>1. k \in Nat /\ l \in Nat /\ ~(l < k)
      BY <1>3
    <3>2. k \in DOMAIN stderr /\ stderr'[k] = stderr[k]
      BY <1>3, <2>2, <3>1
    <3> QED
      BY <2>2, <3>2 DEF StreamsAgree
  <2> QED
    BY <1>3, <2>1, <2>2
<1> QED
  BY <1>6, <1>7, <1>8, <1>9, <1>10, <1>11, <1>13, <1>14

LEMMA StepInv == Inv /\ [Next]_vars => Inv'
  BY LogInv, LockInv, PrimaryInv, FallbackInv, ReaderInv DEF Next, Step

LEMMA AlwaysInv == Safety => []Inv
<1>1. Init => Inv
  BY InitInv
<1>2. Inv /\ [Next]_vars => Inv'
  BY StepInv
<1> QED
  BY <1>1, <1>2, PTL DEF Safety

(* Every variable keeps its type, whatever the streams do. *)
THEOREM LogSinkTypeOK == Safety => []TypeOK
<1>1. Inv => TypeOK
  BY DEF Inv, WhereOK
<1> QED
  BY <1>1, AlwaysInv, PTL

(* No piece of a record is written twice, on one stream or on both: stderr gets
   what stdout did not take, counted from where stdout stopped. *)
THEOREM NothingTwice == Safety => []NoPieceTwice
<1>1. Inv => NoPieceTwice
  BY DEF Inv
<1> QED
  BY <1>1, AlwaysInv, PTL

(* Both streams have their records in one order: the handler's mutex covers
   the fallback, so that what stdout has of a record cut in two is the last on
   stdout until the rest of it is on stderr. *)
THEOREM OneOrder == Safety => []StreamsAgree
<1>1. Inv => StreamsAgree
  BY DEF Inv
<1> QED
  BY <1>1, AlwaysInv, PTL

---------------------------------------------------------------------------
(* LogSink implements what LogContract says of single steps.                *)

(* A step leaves every record but rec as whole and as ended as it was. *)
OthersSame(rec) == \A r \in Recs : r # rec =>
    (Whole(r)' <=> Whole(r)) /\ (Ended(r)' <=> Ended(r))

(* rec is the record of a call that is not over, and given it stays. *)
Open(rec) == rec \in Given /\ rec \in Recs /\ ~Ended(rec) /\ ~Whole(rec)

LEMMA GivenRecord ==
  ASSUME TypeOK, InCall, NEW w \in Writers, ~At(w, "idle")
  PROVE  Record(w) \in Given /\ Record(w) \in Recs /\ ~Ended(Record(w))
<1>1. Record(w) \in Recs /\ calls[w] <= calls[w]
  BY OneRecord, SinkAssumption DEF TypeOK
<1> QED
  BY <1>1 DEF Given, Recs, Record, Ended

LEMMA SameGiven == ASSUME calls' = calls PROVE Given' = Given /\ Given \subseteq Recs
  BY DEF Given, Recs

LEMMA ContractDelivers ==
  ASSUME NEW rec, Open(rec), calls' = calls, OthersSame(rec), Whole(rec)', drops' = drops
  PROVE  Contract!Deliver(rec)
<1>1. Given' = Given /\ Given \subseteq Recs
  BY SameGiven
<1>2. {r \in Given' : Whole(r)'} = {r \in Given : Whole(r)} \cup {rec}
  BY <1>1 DEF OthersSame, Open
<1>3. {r \in Given' : Ended(r)' /\ ~Whole(r)'} = {r \in Given : Ended(r) /\ ~Whole(r)}
  BY <1>1 DEF OthersSame, Open
<1> QED
  BY <1>1, <1>2, <1>3 DEF Open, Contract!Deliver, Contract!Open

LEMMA ContractDrops ==
  ASSUME NEW rec, Open(rec), calls' = calls, OthersSame(rec), ~Whole(rec)', Ended(rec)',
         drops' = drops + 1
  PROVE  Contract!Drop(rec)
<1>1. Given' = Given /\ Given \subseteq Recs
  BY SameGiven
<1>2. {r \in Given' : Whole(r)'} = {r \in Given : Whole(r)}
  BY <1>1 DEF OthersSame, Open
<1>3. {r \in Given' : Ended(r)' /\ ~Whole(r)'}
          = {r \in Given : Ended(r) /\ ~Whole(r)} \cup {rec}
  BY <1>1 DEF OthersSame, Open
<1> QED
  BY <1>1, <1>2, <1>3 DEF Open, Contract!Drop, Contract!Open

LEMMA ContractStutters ==
  ASSUME NEW rec, Open(rec), calls' = calls, OthersSame(rec), ~Whole(rec)', ~Ended(rec)',
         drops' = drops
  PROVE  UNCHANGED Contract!vars
<1>1. Given' = Given /\ Given \subseteq Recs
  BY SameGiven
<1>2. {r \in Given' : Whole(r)'} = {r \in Given : Whole(r)}
  BY <1>1 DEF OthersSame, Open
<1>3. {r \in Given' : Ended(r)' /\ ~Whole(r)'} = {r \in Given : Ended(r) /\ ~Whole(r)}
  BY <1>1 DEF OthersSame, Open
<1> QED
  BY <1>1, <1>2, <1>3 DEF Contract!vars

(* The other goroutines stay where they are. *)
LEMMA OthersEnded ==
  ASSUME NEW w \in Writers, calls' = calls, \A v \in Writers \ {w} : pc'[v] = pc[v],
         NEW rec \in Recs, rec # Record(w)
  PROVE  Ended(rec)' <=> Ended(rec)
  BY DEF Ended, At, Record, Recs

(* A call of the logger gives a record of which no piece is anywhere. *)
LEMMA LogGives ==
  ASSUME Inv, NEW w \in Writers, Log(w)
  PROVE  Contract!Give(<<w, calls[w] + 1>>)
\* A name that priming leaves alone.
<1> PICK new : new = <<w, calls[w] + 1>>
  OBVIOUS
<1>1. /\ calls[w] \in Nat /\ calls[w] < MaxRecords /\ pc[w] = "idle"
      /\ calls' = [calls EXCEPT ![w] = @ + 1] /\ calls \in [Writers -> 0 .. MaxRecords]
      /\ pc'[w] = "formatted" /\ \A v \in Writers \ {w} : pc'[v] = pc[v]
      /\ UNCHANGED <<stdout, stderr, drops>>
  BY SinkAssumption DEF Inv, WhereOK, TypeOK, Log, At, Goto
<1>2. new \in Recs /\ ~(calls[w] + 1 <= calls[w])
  BY <1>1, SinkAssumption DEF Recs
<1>3. ASSUME NEW rec \in Recs
      PROVE  rec \in Given' <=> rec \in Given \/ rec = new
  <2>1. PICK v \in Writers, k \in 1 .. MaxRecords : rec = <<v, k>>
    BY DEF Recs
  <2>2. rec \in Given <=> k <= calls[v]
    BY <2>1 DEF Given
  <2>3. rec \in Given' <=> k <= calls'[v]
    BY <2>1 DEF Given
  <2>4. CASE v # w
    BY <1>1, <2>1, <2>2, <2>3, <2>4
  <2>5. CASE v = w
    <3>1. calls'[w] = calls[w] + 1 /\ k \in Nat
      BY <1>1, SinkAssumption
    <3>2. k <= calls[w] + 1 <=> k <= calls[w] \/ k = calls[w] + 1
      BY <1>1, <3>1
    <3> QED
      BY <2>1, <2>2, <2>3, <2>5, <3>1, <3>2
  <2> QED
    BY <2>4, <2>5
<1>4. Given \subseteq Recs /\ Given' \subseteq Recs
  BY DEF Given, Recs
<1>5. new \notin Given
  BY <1>2 DEF Given, Recs
<1>6. Given' = Given \cup {new}
  BY <1>2, <1>3, <1>4
<1>7. \A rec \in Recs : Whole(rec)' <=> Whole(rec)
  BY <1>1 DEF Whole, On
<1>8. ~Whole(new)
  <2>1. 1 \in 1 .. Pieces
    BY SinkAssumption
  <2>2. ~On(stdout, <<new, 1>>)
    <3> SUFFICES ASSUME NEW i \in DOMAIN stdout, stdout[i] = <<new, 1>> PROVE FALSE
      BY DEF On
    <3>1. Begun(new)
      BY DEF Inv, WhereOK, OutBegun
    <3> QED
      BY <1>2, <3>1 DEF Begun
  <2>3. ~On(stderr, <<new, 1>>)
    <3> SUFFICES ASSUME NEW i \in DOMAIN stderr, stderr[i] = <<new, 1>> PROVE FALSE
      BY DEF On
    <3>1. new[2] <= calls[new[1]]
      BY DEF Inv, WhereOK, ErrEnded
    <3> QED
      BY <1>2, <3>1
  <2> QED
    BY <2>1, <2>2, <2>3 DEF Whole
<1>9. \A rec \in Given : Ended(rec)' <=> Ended(rec)
  BY <1>1, <1>2 DEF Given, Ended, At, Record
<1>10. ~Ended(new)'
  BY <1>1 DEF Ended, At, Record
<1>11. {rec \in Given' : Whole(rec)'} = {rec \in Given : Whole(rec)}
  BY <1>2, <1>4, <1>6, <1>7, <1>8
<1>12. {rec \in Given' : Ended(rec)' /\ ~Whole(rec)'} = {rec \in Given : Ended(rec) /\ ~Whole(rec)}
  BY <1>4, <1>6, <1>7, <1>9, <1>10
<1> QED
  BY <1>1, <1>5, <1>6, <1>11, <1>12 DEF Contract!Give

LEMMA LockStutters ==
  ASSUME Inv, NEW w \in Writers, Lock(w) PROVE UNCHANGED Contract!vars
<1>1. /\ pc[w] = "formatted" /\ pc'[w] = "primary"
      /\ \A v \in Writers \ {w} : pc'[v] = pc[v]
      /\ UNCHANGED <<calls, stdout, stderr, drops>>
  BY DEF Inv, WhereOK, TypeOK, Lock, At, Goto
<1>2. \A rec \in Given : (Ended(rec)' <=> Ended(rec)) /\ (Whole(rec)' <=> Whole(rec))
  BY <1>1 DEF Given, Ended, Whole, On, At, Record
<1>3. Given' = Given
  BY <1>1, SameGiven
<1> QED
  BY <1>1, <1>2, <1>3 DEF Contract!vars

(* A record stdout takes whole is delivered; one it does not is still open. *)
LEMMA PrimaryRefines ==
  ASSUME Inv, NEW w \in Writers, WritePrimary(w)
  PROVE  Contract!Deliver(Record(w)) \/ UNCHANGED Contract!vars
\* A name that priming leaves alone.
<1> PICK rec : rec = Record(w)
  OBVIOUS
<1>1. PICK b \in 0 .. Pieces : PrimaryEffect(w, b)
  BY PrimaryDoes DEF Inv, WhereOK
<1>2. /\ At(w, "primary") /\ ~At(w, "idle") /\ b \in Nat /\ 0 \in Nat /\ 0 <= b
      /\ Grown(stdout, stdout', rec, 0, b)
      /\ UNCHANGED <<calls, stderr, drops>> /\ stdout \in Seq(PieceSet)
      /\ pc \in [Writers -> {"idle", "formatted", "primary", "fallback"}]
  BY <1>1, SinkAssumption DEF PrimaryEffect, WritePrimary, At, Inv, WhereOK, TypeOK
<1>3. \A r, n : On(stdout', <<r, n>>) <=>
          On(stdout, <<r, n>>) \/ (r = rec /\ n \in (0 + 1) .. b)
  <2> TAKE r, n
  <2> QED
    BY <1>2, OnGrown
<1>4. \A n : ~On(stdout, <<rec, n>>) /\ ~On(stderr, <<rec, n>>)
  BY <1>2, PrimaryFresh
<1>5. \A v \in Writers \ {w} : pc'[v] = pc[v]
  BY <1>1, <1>2 DEF PrimaryEffect, Return, Goto
<1>6. Open(rec)
  <2>1. rec \in Given /\ rec \in Recs /\ ~Ended(rec)
    BY <1>2, GivenRecord DEF Inv, WhereOK
  <2>2. 1 \in 1 .. Pieces
    BY SinkAssumption
  <2> QED
    BY <1>4, <2>1, <2>2 DEF Open, Whole
<1>7. OthersSame(rec)
  <2>1. \A r \in Recs : r # rec => (Ended(r)' <=> Ended(r))
    BY <1>2, <1>5, OthersEnded
  <2>2. \A r \in Recs : r # rec => (Whole(r)' <=> Whole(r))
    BY <1>2, <1>3 DEF Whole, On
  <2> QED
    BY <2>1, <2>2 DEF OthersSame
<1>8. CASE b = Pieces
  <2>1. \A n \in 1 .. Pieces : On(stdout', <<rec, n>>)
    BY <1>3, <1>8
  <2>2. Whole(rec)'
    BY <2>1 DEF Whole, On
  <2> QED
    BY <1>2, <1>6, <1>7, <2>2, ContractDelivers
<1>9. CASE b # Pieces
  <2>1. Pieces \in 1 .. Pieces /\ Pieces \notin (0 + 1) .. b
    BY <1>2, <1>9, SinkAssumption
  <2>2. ~On(stdout', <<rec, Pieces>>) /\ ~On(stderr', <<rec, Pieces>>)
    BY <1>2, <1>3, <1>4, <2>1
  <2>3. ~Whole(rec)'
    BY <2>1, <2>2 DEF Whole, On
  <2>4. pc'[w] = "fallback"
    BY <1>1, <1>2, <1>9 DEF PrimaryEffect, Goto
  <2>5. ~Ended(rec)'
    BY <1>2, <2>4 DEF Ended, At, Record
  <2> QED
    BY <1>2, <1>6, <1>7, <2>3, <2>5, ContractStutters
<1> QED
  BY <1>8, <1>9

(* What stderr completes is delivered, what it does not is dropped and counted. *)
LEMMA FallbackRefines ==
  ASSUME Inv, NEW w \in Writers, WriteFallback(w)
  PROVE  Contract!Deliver(Record(w)) \/ Contract!Drop(Record(w))
\* A name that priming leaves alone.
<1> PICK rec : rec = Record(w)
  OBVIOUS
<1>1. PICK b \in pn[w] .. Pieces : FallbackEffect(w, b)
  BY FallbackDoes DEF Inv, WhereOK
<1>2. pn[w] \in 0 .. (Pieces - 1) /\ pn[w] \in Nat /\ b \in Nat /\ pn[w] <= b /\ b <= Pieces
  <2>1. pn[w] \in 0 .. (Pieces - 1)
    BY DEF Inv, WhereOK, TypeOK
  <2> QED
    BY <2>1, SinkAssumption
<1>3. /\ At(w, "fallback") /\ ~At(w, "idle")
      /\ Grown(stderr, stderr', rec, pn[w], b)
      /\ UNCHANGED <<calls, stdout>> /\ stderr \in Seq(PieceSet)
      /\ pc \in [Writers -> {"idle", "formatted", "primary", "fallback"}]
  BY <1>1 DEF FallbackEffect, WriteFallback, At, Inv, WhereOK, TypeOK
<1>4. \A r, n : On(stderr', <<r, n>>) <=>
          On(stderr, <<r, n>>) \/ (r = rec /\ n \in (pn[w] + 1) .. b)
  <2> TAKE r, n
  <2> QED
    BY <1>2, <1>3, OnGrown
<1>5. \A n : ~On(stderr, <<rec, n>>)
  BY <1>3, FallbackFresh DEF On
<1>6. \A n \in 1 .. Pieces : On(stdout, <<rec, n>>) <=> n <= pn[w]
  BY <1>3 DEF Inv, WhereOK, CutOK
<1>7. Pieces \in 1 .. Pieces /\ ~(Pieces <= pn[w])
  BY <1>2, SinkAssumption
<1>8. pc'[w] = "idle" /\ \A v \in Writers \ {w} : pc'[v] = pc[v]
  BY <1>1, <1>3 DEF FallbackEffect, Return, Goto
<1>9. Open(rec)
  <2>1. rec \in Given /\ rec \in Recs /\ ~Ended(rec)
    BY <1>3, GivenRecord DEF Inv, WhereOK
  <2>2. ~On(stdout, <<rec, Pieces>>) /\ ~On(stderr, <<rec, Pieces>>)
    BY <1>5, <1>6, <1>7
  <2> QED
    BY <1>7, <2>1, <2>2 DEF Open, Whole
<1>10. OthersSame(rec)
  <2>1. \A r \in Recs : r # rec => (Ended(r)' <=> Ended(r))
    BY <1>3, <1>8, OthersEnded
  <2>2. \A r \in Recs : r # rec => (Whole(r)' <=> Whole(r))
    BY <1>3, <1>4 DEF Whole, On
  <2> QED
    BY <2>1, <2>2 DEF OthersSame
<1>11. CASE b = Pieces
  <2>1. ASSUME NEW n \in 1 .. Pieces PROVE On(stdout, <<rec, n>>) \/ On(stderr', <<rec, n>>)
    <3>1. n <= pn[w] \/ n \in (pn[w] + 1) .. b
      BY <1>2, <1>11, SinkAssumption
    <3> QED
      BY <1>4, <1>6, <3>1
  <2>2. Whole(rec)'
    BY <1>3, <2>1 DEF Whole, On
  <2>3. drops' = drops
    BY <1>1, <1>11 DEF FallbackEffect
  <2> QED
    BY <1>3, <1>9, <1>10, <2>2, <2>3, ContractDelivers
<1>12. CASE b # Pieces
  <2>1. Pieces \notin (pn[w] + 1) .. b
    BY <1>2, <1>12, SinkAssumption
  <2>2. ~On(stdout', <<rec, Pieces>>) /\ ~On(stderr', <<rec, Pieces>>)
    BY <1>3, <1>4, <1>5, <1>6, <1>7, <2>1
  <2>3. ~Whole(rec)'
    BY <1>7, <2>2 DEF Whole, On
  <2>4. Ended(rec)'
    BY <1>3, <1>8 DEF Ended, At, Record
  <2>5. drops' = drops + 1
    BY <1>1, <1>12 DEF FallbackEffect
  <2> QED
    BY <1>3, <1>9, <1>10, <2>3, <2>4, <2>5, ContractDrops
<1> QED
  BY <1>11, <1>12

LEMMA ReaderStutters ==
  ASSUME Clog \/ Unclog \/ UNCHANGED vars PROVE UNCHANGED Contract!vars
<1>1. UNCHANGED <<pc, calls, stdout, stderr, drops>>
  BY DEF Clog, Unclog, vars
<1> QED
  BY <1>1 DEF Contract!vars, Given, Whole, Ended, On, At, Record

LEMMA InitRefines == Init => Contract!Init
<1> SUFFICES ASSUME Init PROVE Contract!Init
  OBVIOUS
<1>1. Given = {}
  <2> SUFFICES ASSUME NEW rec \in Given PROVE FALSE
    OBVIOUS
  <2>1. PICK v \in Writers, k \in 1 .. MaxRecords : rec = <<v, k>> /\ k <= calls[v]
    BY DEF Given
  <2>2. calls[v] = 0
    BY DEF Init
  <2> QED
    BY <2>1, <2>2, SinkAssumption
<1>2. drops = 0
  BY DEF Init
<1> QED
  BY <1>1, <1>2 DEF Contract!Init

LEMMA StepRefines == Inv /\ [Next]_vars => [Contract!Next]_(Contract!vars)
<1> SUFFICES ASSUME Inv, [Next]_vars PROVE Contract!Next \/ UNCHANGED Contract!vars
  OBVIOUS
<1>1. CASE Clog \/ Unclog \/ UNCHANGED vars
  BY <1>1, ReaderStutters
<1>2. ASSUME NEW w \in Writers, Log(w) PROVE Contract!Next
  <2>1. Contract!Give(<<w, calls[w] + 1>>)
    BY <1>2, LogGives
  <2>2. <<w, calls[w] + 1>> \in Writers \X (1 .. MaxRecords)
    BY <1>2, SinkAssumption DEF Log, Inv, WhereOK, TypeOK
  <2> QED
    BY <2>1, <2>2 DEF Contract!Next
<1>3. ASSUME NEW w \in Writers, Lock(w) PROVE UNCHANGED Contract!vars
  BY <1>3, LockStutters
<1>4. ASSUME NEW w \in Writers, Step(w) PROVE Contract!Next \/ UNCHANGED Contract!vars
  <2>1. Record(w) \in Writers \X (1 .. MaxRecords)
    BY <1>4, OneRecord DEF Step, WritePrimary, WriteFallback, At, Inv, WhereOK, Recs
  <2>2. \/ Contract!Deliver(Record(w)) \/ Contract!Drop(Record(w))
        \/ UNCHANGED Contract!vars
    BY <1>4, PrimaryRefines, FallbackRefines DEF Step
  <2> QED
    BY <2>1, <2>2 DEF Contract!Next
<1> QED
  BY <1>1, <1>2, <1>3, <1>4 DEF Next

(* Each record that any goroutine gives the logger is delivered whole or counted
   as dropped, never both and never twice, and the counter counts nothing else:
   the part of ImplementsLogContract that is about single steps.            *)
THEOREM RecordsAreDeliveredOrCounted == Safety => Contract!Safety
<1>1. Init => Contract!Init
  BY InitRefines
<1>2. Inv /\ [Next]_vars => [Contract!Next]_(Contract!vars)
  BY StepRefines
<1> QED
  BY <1>1, <1>2, AlwaysInv, PTL DEF Safety, Contract!Safety
==========================================================================
