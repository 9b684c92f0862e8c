----------------------------- MODULE LogSink -----------------------------
(***************************************************************************)
(* How log records reach the outside: goroutines call the logger, slog's    *)
(* handler formats a record and makes one Write of it under its mutex, and  *)
(* that Write is FallbackWriter's: to stdout, what stdout did not take to   *)
(* stderr, and if that fails too the record counts as dropped.              *)
(*                                                                          *)
(* A record is Pieces pieces, a piece standing for some bytes and the last  *)
(* one for its newline.  stdout and stderr are what New and Default give    *)
(* the writer, files; slog and the files are external.                      *)
(*                                                                          *)
(* A definition marked "Mutant:" is a plausible mistake in the code behind  *)
(* the definition that follows it; no specification uses it.                *)
(***************************************************************************)
EXTENDS Naturals, Sequences, FiniteSets

CONSTANTS
    Writers,        \* the goroutines that log
    Pieces,         \* the length of a record
    ErrorReports,   \* how many pieces a Write that fails may have written
    MaxRecords,     \* bound: records per goroutine
    None            \* no goroutine

\* A file that reports an error has written less than it was given.
ASSUME SinkAssumption ==
    /\ Pieces \in Nat \ {0}
    /\ ErrorReports \subseteq 0 .. (Pieces - 1)
    /\ MaxRecords \in Nat
    /\ None \notin Writers

VARIABLES
    pc,         \* where in the call of the logger a goroutine is
    calls,      \* how often a goroutine called it
    mutex,      \* the goroutine in slog's handler
    pn,         \* what stdout took of the goroutine's record
    stdout,     \* the pieces written, in order
    stderr,
    drops,      \* FallbackWriter.drops
    clogged     \* nobody reads stdout and its pipe is full: a Write blocks

vars == <<pc, calls, mutex, pn, stdout, stderr, drops, clogged>>

Goto(w, label) == pc' = [pc EXCEPT ![w] = label]
At(w, label) == pc[w] = label

\* The k-th record of w is <<w, k>>.
Record(w) == <<w, calls[w]>>

\* Mutant: the slice starts in the right place and has the wrong length.
AfterTooLong(rec, n) == [i \in 1 .. Pieces |-> <<rec, n + i>>]

\* The pieces of a record after the first n.
After(rec, n) == [i \in 1 .. (Pieces - n) |-> <<rec, n + i>>]
FirstOf(pieces, n) == SubSeq(pieces, 1, n)

\* The call ends without an error, always, and slog's handler unlocks.
Return(w) == Goto(w, "idle") /\ mutex' = None

Init ==
    /\ pc = [w \in Writers |-> "idle"]
    /\ calls = [w \in Writers |-> 0]
    /\ mutex = None
    /\ pn = [w \in Writers |-> 0]
    /\ stdout = <<>>
    /\ stderr = <<>>
    /\ drops = 0
    /\ clogged = FALSE

\* Logger.log builds the record and slog formats it, before any lock.
Log(w) ==
    /\ At(w, "idle")
    /\ calls[w] < MaxRecords
    /\ calls' = [calls EXCEPT ![w] = @ + 1]
    /\ Goto(w, "formatted")
    /\ UNCHANGED <<mutex, pn, stdout, stderr, drops, clogged>>

\* Mutant: each caller makes a Logger, so a handler and a mutex, of its own.
LockOfOnesOwn(w) ==
    /\ At(w, "formatted")
    /\ Goto(w, "primary")
    /\ UNCHANGED <<calls, mutex, pn, stdout, stderr, drops, clogged>>

\* The mutex of the one handler that New makes and all goroutines share.
Lock(w) ==
    /\ At(w, "formatted")
    /\ mutex = None
    /\ mutex' = w
    /\ Goto(w, "primary")
    /\ UNCHANGED <<calls, pn, stdout, stderr, drops, clogged>>

\* FallbackWriter.Write: stdout takes the record, or fails having taken a part.
\* The write of a file blocks for as long as the pipe is full.
WritePrimary(w) ==
    /\ At(w, "primary")
    /\ ~clogged
    /\ LET p == After(Record(w), 0) IN
       \/ stdout' = stdout \o p /\ Return(w) /\ UNCHANGED pn
       \/ \E n \in ErrorReports :
            /\ stdout' = stdout \o FirstOf(p, n)
            /\ pn' = [pn EXCEPT ![w] = n]
            /\ Goto(w, "fallback")
            /\ UNCHANGED mutex
    /\ UNCHANGED <<calls, stderr, drops, clogged>>

\* Mutant: stderr gets the whole record again.
RemainingAll(w) == After(Record(w), 0)

Remaining(w) == After(Record(w), pn[w])

\* Mutant: only a failure without any progress counts as a drop.
FallbackFailsUncounted(w) ==
    \E n \in ErrorReports :
        /\ n < Len(Remaining(w))
        /\ stderr' = stderr \o FirstOf(Remaining(w), n)
        /\ drops' = IF n = 0 /\ pn[w] = 0 THEN drops + 1 ELSE drops
        /\ Return(w)

FallbackFails(w) ==
    \E n \in ErrorReports :
        /\ n < Len(Remaining(w))
        /\ stderr' = stderr \o FirstOf(Remaining(w), n)
        /\ drops' = drops + 1
        /\ Return(w)

WriteFallback(w) ==
    /\ At(w, "fallback")
    /\ \/ stderr' = stderr \o Remaining(w) /\ Return(w) /\ UNCHANGED drops
       \/ FallbackFails(w)
    /\ UNCHANGED <<calls, pn, stdout, clogged>>

\* Whoever reads stdout stops for a while, or goes on.
Clog == ~clogged /\ clogged' = TRUE
        /\ UNCHANGED <<pc, calls, mutex, pn, stdout, stderr, drops>>
Unclog == clogged /\ clogged' = FALSE
          /\ UNCHANGED <<pc, calls, mutex, pn, stdout, stderr, drops>>

Step(w) == WritePrimary(w) \/ WriteFallback(w)

Next == Clog \/ Unclog \/ \E w \in Writers : Log(w) \/ Lock(w) \/ Step(w)

Safety == Init /\ [][Next]_vars

\* Goroutines run on, a Go mutex starves nobody, and neither does a pipe that
\* has room again and again.
Spec == Safety /\ \A w \in Writers : SF_vars(Step(w)) /\ SF_vars(Lock(w))

\* And whoever reads stdout always goes on.
DrainedSpec == Spec /\ WF_vars(Unclog)

---------------------------------------------------------------------------
(* Properties.                                                              *)

Given == {rec \in Writers \X (1 .. MaxRecords) : rec[2] <= calls[rec[1]]}
PieceSet == (Writers \X (1 .. MaxRecords)) \X (1 .. Pieces)

\* Every variable keeps its type.
TypeOK ==
    /\ pc \in [Writers -> {"idle", "formatted", "primary", "fallback"}]
    /\ calls \in [Writers -> 0 .. MaxRecords]
    /\ mutex \in Writers \cup {None}
    /\ pn \in [Writers -> 0 .. (Pieces - 1)]
    /\ stdout \in Seq(PieceSet)
    /\ stderr \in Seq(PieceSet)
    /\ drops \in Nat
    /\ clogged \in BOOLEAN

On(stream, piece) == \E i \in DOMAIN stream : stream[i] = piece

\* FallbackWriter gives stderr only what stdout did not take: no piece of a
\* record is written twice, on one stream or on both, after whatever failures.
NoPieceTwice ==
    /\ \A piece \in PieceSet : ~(On(stdout, piece) /\ On(stderr, piece))
    /\ \A stream \in {stdout, stderr} : \A i, j \in DOMAIN stream :
           i # j => stream[i] # stream[j]

\* Records are in the same order on both streams, so that a record cut in two
\* can be put together again: a fallback is over before the next Write begins.
StreamsAgree ==
    \A i, j \in DOMAIN stdout, k, l \in DOMAIN stderr :
        ~ /\ i < j /\ k < l
          /\ stdout[i][1] = stderr[l][1]
          /\ stdout[j][1] = stderr[k][1]
          /\ stdout[i][1] # stdout[j][1]

Whole(rec) == \A n \in 1 .. Pieces : On(stdout, <<rec, n>>) \/ On(stderr, <<rec, n>>)
Ended(rec) == rec # Record(rec[1]) \/ At(rec[1], "idle")

Contract == INSTANCE LogContract WITH
    Records <- Writers \X (1 .. MaxRecords),
    given <- Given,
    delivered <- {rec \in Given : Whole(rec)},
    dropped <- {rec \in Given : Ended(rec) /\ ~Whole(rec)},
    count <- drops

\* The logger keeps LogContract's promise while stdout is read: every record
\* can be read in full on the two streams or is in the drop counter, exactly
\* once, and every call of the logger comes to an end.
ImplementsLogContract == Contract!Spec

==========================================================================
