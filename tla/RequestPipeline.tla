------------------------- MODULE RequestPipeline -------------------------
(***************************************************************************)
(* The life of HTTP requests inside the core server.  server.New wraps the  *)
(* mux as  RequestID( AccessLog( Recover( mux ) ) ),  net/http runs one     *)
(* goroutine per request, and the goroutines share the log and the counter  *)
(* of fallback request IDs.                                                 *)
(*                                                                          *)
(* A response goes through two statusRecorders before it reaches net/http:  *)
(*                                                                          *)
(*     handler -> inner (made by Recover) -> outer (made by AccessLog)      *)
(*             -> net/http's response writer -> the client                  *)
(*                                                                          *)
(* Recover decides by inner whether it may still answer 500, AccessLog      *)
(* logs outer.status, the client sees what net/http committed.  The module  *)
(* is about whether these three views of one response agree, whatever a     *)
(* handler does: write, flush, hijack, panic at any point, or nothing.      *)
(*                                                                          *)
(* The handler is any handler: at each step it performs one of the calls    *)
(* the ResponseWriter it is given offers, panics, or returns.  net/http is  *)
(* external and modelled from how this code uses it.                        *)
(*                                                                          *)
(* A definition marked "Mutant:" is a plausible mistake in the code behind  *)
(* the definition that follows it; no specification uses it.                *)
(***************************************************************************)
EXTENDS Naturals, Sequences, FiniteSets

CONSTANTS
    Requests,           \* one element per request (and per goroutine)
    ValidHeaders,       \* X-Request-Id values that isValidRequestID accepts
    InvalidHeaders,     \* non-empty values that it rejects
    NoHeader,           \* the client sent no X-Request-Id
    HandlerCodes,       \* status codes handlers pass to WriteHeader
    HandlerOps,         \* what handlers may do, a subset of AllOps
    MaxOps              \* bound: calls one handler makes before it returns

AllOps == {"WriteHeader", "Write", "Flush", "Hijack", "Panic", "PanicUnprintable"}

NoId == <<>>        \* no X-Request-Id

ASSUME HeadersAssumption ==
    /\ NoHeader \notin ValidHeaders \cup InvalidHeaders
    /\ ValidHeaders \cap InvalidHeaders = {}
    /\ NoId \notin ValidHeaders     \* isValidRequestID rejects an empty value
ASSUME HandlerAssumption ==
    /\ HandlerCodes \subseteq Nat \ {0}
    /\ HandlerOps \subseteq AllOps
    /\ MaxOps \in Nat

NoStatus == 0       \* the status line is not written yet
NoPanic == [value |-> "none", sent |-> NoStatus]

VARIABLES
    pc,             \* where the goroutine of a request is
    client,         \* sanitised X-Request-Id kept in the context when invalid
    rid,            \* request ID in the request's context
    inner, outer,   \* the statusRecorders of Recover and of AccessLog
    wire,           \* net/http's response, see Response
    conn,           \* the client's connection
    panicked,       \* the value the handler panicked with, and the status
                    \* that had been sent by then (kept for the properties)
    ops,            \* calls the handler has made
    uuids,          \* UUIDs generated so far
    fallbackSeq,    \* request_id.go's counter of fallback IDs
    log             \* the records the logger was given, oldest first

response == <<inner, outer, wire>>
ids == <<client, rid, uuids, fallbackSeq>>
vars == <<pc, client, rid, inner, outer, wire, conn, panicked, ops, uuids,
          fallbackSeq, log>>

---------------------------------------------------------------------------
(* net/http's response writer.  header is the X-Request-Id in the header    *)
(* map, sentId the one that left with the status line, body the kinds of    *)
(* content written, refused the ways in which net/http declined to take a   *)
(* WriteHeader as the response's status: "superfluous" (there is one        *)
(* already), "informational" (1xx, sent at once and followed by the real    *)
(* one), "invalid" (no such status: net/http panics).                       *)

EmptyResponse == [header |-> NoId, sentId |-> NoId, status |-> NoStatus,
                  body |-> {}, refused |-> {}]

Informational(code) == code \in 100..199 /\ code # 101
Invalid(code) == code \notin 100..999

Commit(w, code) == [w EXCEPT !.status = code, !.sentId = w.header]
Refuse(w, why) == [w EXCEPT !.refused = @ \cup {why}]

\* c is the connection's state: once hijacked it is the handler's alone.
NetWriteHeader(w, c, code) ==
    IF c = "hijacked" THEN w
    ELSE IF w.status # NoStatus THEN Refuse(w, "superfluous")
    ELSE IF Invalid(code) THEN Refuse(w, "invalid")
    ELSE IF Informational(code) THEN Refuse(w, "informational")
    ELSE Commit(w, code)

\* Whatever writes the first body byte, flushes or ends the response first
\* commits an implicit 200.
NetCommit(w, c) ==
    IF c = "hijacked" \/ w.status # NoStatus THEN w ELSE Commit(w, 200)

NetWrite(w, c, content) ==
    IF c = "hijacked" THEN w
    ELSE [NetCommit(w, c) EXCEPT !.body = @ \cup {content}]

---------------------------------------------------------------------------
(* middleware.statusRecorder                                                *)

\* Mutant: the recorder does not start from the implicit 200.
NewRecorderWithoutDefault == [status |-> NoStatus, wroteHeader |-> FALSE]

NewRecorder == [status |-> 200, wroteHeader |-> FALSE]

\* Mutant: the recorder keeps the last status it is given.
RecordedLast(rec, code) == [status |-> code, wroteHeader |-> TRUE]

\* statusRecorder.WriteHeader: the first call counts, later ones are dropped.
Recorded(rec, code) ==
    IF rec.wroteHeader THEN rec ELSE [status |-> code, wroteHeader |-> TRUE]

Hijacked(r) == conn[r] = "hijacked"

\* Mutant: the recorders take note, and forward every call all the same.
WriteHeaderForwarded(r, code) ==
    /\ inner' = [inner EXCEPT ![r] = Recorded(@, code)]
    /\ outer' = [outer EXCEPT ![r] = Recorded(@, code)]
    /\ wire' = [wire EXCEPT ![r] = NetWriteHeader(@, conn[r], code)]

\* WriteHeader(code) on the inner recorder, and what it forwards.
WriteHeader(r, code) ==
    /\ inner' = [inner EXCEPT ![r] = Recorded(@, code)]
    /\ outer' = IF inner[r].wroteHeader THEN outer
                ELSE [outer EXCEPT ![r] = Recorded(@, code)]
    /\ wire' = IF inner[r].wroteHeader \/ outer[r].wroteHeader THEN wire
               ELSE [wire EXCEPT ![r] = NetWriteHeader(@, conn[r], code)]

\* Write on the inner recorder: each recorder first writes an implicit 200
\* if it has seen no WriteHeader, then forwards the bytes.
Write(r, content) ==
    /\ inner' = [inner EXCEPT ![r] = Recorded(@, 200)]
    /\ outer' = [outer EXCEPT ![r] = Recorded(@, 200)]
    /\ wire' = [wire EXCEPT ![r] =
                  LET w == IF outer[r].wroteHeader THEN @
                           ELSE NetWriteHeader(@, conn[r], 200)
                  IN  NetWrite(w, conn[r], content)]

\* Flush goes straight through both recorders, and neither takes note.
Flush(r) ==
    /\ wire' = [wire EXCEPT ![r] = NetCommit(@, conn[r])]
    /\ UNCHANGED <<inner, outer>>

---------------------------------------------------------------------------
(* The logger, as the middlewares use it: one call, one record.             *)

\* Mutant: an off-by-one at 500.
LevelFromStatusAbove(status) ==
    CASE status > 500 -> "ERROR"
      [] status \in 400..500 -> "WARN"
      [] OTHER -> "INFO"

LevelFromStatus(status) ==
    CASE status >= 500 -> "ERROR"
      [] status \in 400..499 -> "WARN"
      [] OTHER -> "INFO"

Entry(r, kind, level, status) ==
    [req |-> r, kind |-> kind, rid |-> rid[r], client |-> client[r],
     level |-> level, status |-> status]

Emit(r, kind, level, status) == log' = Append(log, Entry(r, kind, level, status))

Goto(r, label) == pc' = [pc EXCEPT ![r] = label]
At(r, label) == pc[r] = label
---------------------------------------------------------------------------
Init ==
    /\ pc = [r \in Requests |-> "idle"]
    /\ client = [r \in Requests |-> NoHeader]
    /\ rid = [r \in Requests |-> NoId]
    /\ inner = [r \in Requests |-> NewRecorder]
    /\ outer = [r \in Requests |-> NewRecorder]
    /\ wire = [r \in Requests |-> EmptyResponse]
    /\ conn = [r \in Requests |-> "open"]
    /\ panicked = [r \in Requests |-> NoPanic]
    /\ ops = [r \in Requests |-> 0]
    /\ uuids = 0
    /\ fallbackSeq = 0
    /\ log = <<>>

Sanitized(header) == <<"sanitized", header>>

\* Mutant: the response header is left to be set after next.
IdentifyContextOnly(r, id, rejected) ==
    /\ rid' = [rid EXCEPT ![r] = id]
    /\ client' = [client EXCEPT ![r] = rejected]
    /\ UNCHANGED wire

\* The ID goes into the context and, before next is called, into the response
\* header; a rejected client value stays in the context for the access log.
Identify(r, id, rejected) ==
    /\ rid' = [rid EXCEPT ![r] = id]
    /\ client' = [client EXCEPT ![r] = rejected]
    /\ wire' = [wire EXCEPT ![r].header = id]

\* newRequestID: a fresh UUID, or when that fails an ID made of the host, the
\* PID, the time and an atomic counter.  Within a process the counter alone
\* tells two fallback IDs apart; the rest of the ID is left out.
UuidV7(r, rejected) ==
    /\ uuids' = uuids + 1
    /\ Identify(r, <<"uuid", uuids + 1>>, rejected)
    /\ UNCHANGED fallbackSeq

\* Mutant: the counter is read and not incremented.
FallbackIDUncounted(r, rejected) ==
    /\ Identify(r, <<"fallback", fallbackSeq + 1>>, rejected)
    /\ UNCHANGED <<uuids, fallbackSeq>>

FallbackID(r, rejected) ==
    /\ fallbackSeq' = fallbackSeq + 1
    /\ Identify(r, <<"fallback", fallbackSeq + 1>>, rejected)
    /\ UNCHANGED uuids

NewRequestID(r, rejected) == UuidV7(r, rejected) \/ FallbackID(r, rejected)

\* RequestID adopts a valid client ID and makes one otherwise.
RequestID(r) ==
    /\ At(r, "idle")
    /\ \/ \E header \in ValidHeaders :
             Identify(r, header, NoHeader) /\ UNCHANGED <<uuids, fallbackSeq>>
       \/ \E header \in InvalidHeaders : NewRequestID(r, Sanitized(header))
       \/ NewRequestID(r, NoHeader)
    /\ Goto(r, "access_log")
    /\ UNCHANGED <<inner, outer, conn, panicked, ops, log>>

\* AccessLog puts its recorder around the response and calls next.
AccessLog(r) ==
    /\ At(r, "access_log")
    /\ outer' = [outer EXCEPT ![r] = NewRecorder]
    /\ Goto(r, "recover")
    /\ UNCHANGED <<ids, inner, wire, conn, panicked, ops, log>>

\* Recover puts its own around that one and calls the handler.
Recover(r) ==
    /\ At(r, "recover")
    /\ inner' = [inner EXCEPT ![r] = NewRecorder]
    /\ Goto(r, "handler")
    /\ UNCHANGED <<ids, outer, wire, conn, panicked, ops, log>>

---------------------------------------------------------------------------
(* The handler.                                                             *)

Calls(r, op) ==
    /\ At(r, "handler")
    /\ op \in HandlerOps
    /\ ops[r] < MaxOps
    /\ ops' = [ops EXCEPT ![r] = @ + 1]

\* The panic starts to unwind; panicked keeps the status sent by then.
Raise(r, value) ==
    /\ Goto(r, "recovering")
    /\ panicked' = [panicked EXCEPT ![r] = [value |-> value, sent |-> wire[r].status]]

\* net/http panics when it is given a status that does not exist.
HandlerWritesHeader(r) ==
    /\ Calls(r, "WriteHeader")
    /\ \E code \in HandlerCodes : WriteHeader(r, code)
    /\ IF "invalid" \in wire'[r].refused \ wire[r].refused
       THEN Raise(r, "plain")
       ELSE UNCHANGED <<pc, panicked>>
    /\ UNCHANGED <<ids, conn, log>>

HandlerWrites(r) ==
    /\ Calls(r, "Write")
    /\ Write(r, "handler")
    /\ UNCHANGED <<pc, ids, conn, panicked, log>>

HandlerFlushes(r) ==
    /\ Calls(r, "Flush")
    /\ Flush(r)
    /\ UNCHANGED <<pc, ids, conn, panicked, log>>

\* After Hijack the connection is the handler's; a second one returns an error.
HandlerHijacks(r) ==
    /\ Calls(r, "Hijack")
    /\ conn' = [conn EXCEPT ![r] = "hijacked"]
    /\ UNCHANGED <<pc, ids, response, panicked, log>>

HandlerPanics(r) ==
    /\ \/ Calls(r, "Panic") /\ UNCHANGED response /\ Raise(r, "plain")
       \/ Calls(r, "PanicUnprintable") /\ UNCHANGED response /\ Raise(r, "unprintable")
    /\ UNCHANGED <<ids, conn, log>>

HandlerReturns(r) ==
    /\ At(r, "handler")
    /\ Goto(r, "logging")
    /\ UNCHANGED <<ids, response, conn, panicked, ops, log>>

---------------------------------------------------------------------------
(* Recover's deferred function.                                             *)

\* Mutant: Recover does not ask.
AlreadyWrittenNever(r) == FALSE

AlreadyWritten(r) == inner[r].wroteHeader

\* Mutant: access_log inside recover, so that its defer runs during the panic.
RecoverLogsOutside(r) ==
    /\ At(r, "recovering")
    /\ log' = log \o << Entry(r, "access", LevelFromStatus(outer[r].status), outer[r].status),
                        Entry(r, "panic", "ERROR", NoStatus) >>
    /\ Goto(r, IF AlreadyWritten(r) THEN "finishing" ELSE "answering")
    /\ UNCHANGED <<ids, response, conn, panicked, ops>>

\* The panic is logged with its stack; logger.log calls Error() of the panic
\* value, and when that panics too, no record is written and the second panic
\* leaves Recover.
RecoverLogs(r) ==
    /\ At(r, "recovering")
    /\ IF panicked[r].value = "unprintable"
       THEN Goto(r, "unwinding") /\ UNCHANGED log
       ELSE /\ Emit(r, "panic", "ERROR",
                    IF AlreadyWritten(r) THEN inner[r].status ELSE NoStatus)
            /\ Goto(r, IF AlreadyWritten(r) THEN "logging" ELSE "answering")
    /\ UNCHANGED <<ids, response, conn, panicked, ops>>

\* apperror.WriteJSON(rw, 500, ...): the status line, then the JSON document.
RecoverWritesHeader(r) ==
    /\ At(r, "answering")
    /\ WriteHeader(r, 500)
    /\ Goto(r, "answering_body")
    /\ UNCHANGED <<ids, conn, panicked, ops, log>>

\* Writing to a hijacked connection fails, to one the client left may fail.
RecoverWritesBody(r) ==
    /\ At(r, "answering_body")
    /\ Write(r, "error")
    /\ \/ ~Hijacked(r) /\ Goto(r, "logging")
       \/ conn[r] # "open" /\ Goto(r, "write_failed")
    /\ UNCHANGED <<ids, conn, panicked, ops, log>>

RecoverLogsWriteError(r) ==
    /\ At(r, "write_failed")
    /\ Emit(r, "write_error", "ERROR", NoStatus)
    /\ Goto(r, "logging")
    /\ UNCHANGED <<ids, response, conn, panicked, ops>>
---------------------------------------------------------------------------
(* AccessLog's deferred function runs on a return and on a panic that left  *)
(* Recover alike; then net/http ends the response, or drops the connection. *)

\* Mutant: the access record is written after next returns, without defer.
AccessLogRecordsOnReturn(r) ==
    /\ At(r, "logging")
    /\ Emit(r, "access", LevelFromStatus(outer[r].status), outer[r].status)
    /\ Goto(r, "finishing")
    /\ UNCHANGED <<ids, response, conn, panicked, ops>>

AccessLogRecords(r) ==
    /\ At(r, "logging") \/ At(r, "unwinding")
    /\ Emit(r, "access", LevelFromStatus(outer[r].status), outer[r].status)
    /\ Goto(r, IF At(r, "logging") THEN "finishing" ELSE "aborting")
    /\ UNCHANGED <<ids, response, conn, panicked, ops>>

NetFinishes(r) ==
    /\ At(r, "finishing")
    /\ wire' = [wire EXCEPT ![r] = NetCommit(@, conn[r])]
    /\ Goto(r, "done")
    /\ UNCHANGED <<ids, inner, outer, conn, panicked, ops, log>>

NetAborts(r) ==
    /\ At(r, "aborting")
    /\ conn' = [conn EXCEPT ![r] = IF Hijacked(r) THEN @ ELSE "aborted"]
    /\ Goto(r, "done")
    /\ UNCHANGED <<ids, response, panicked, ops, log>>

---------------------------------------------------------------------------
\* The client goes away while its request is served.
ClientLeaves(r) ==
    /\ ~At(r, "idle") /\ ~At(r, "done")
    /\ conn[r] = "open"
    /\ conn' = [conn EXCEPT ![r] = "gone"]
    /\ UNCHANGED <<pc, ids, response, panicked, ops, log>>

\* What a request's goroutine does once net/http has called the handler chain.
Serve(r) ==
    \/ AccessLog(r) \/ Recover(r)
    \/ HandlerWritesHeader(r) \/ HandlerWrites(r) \/ HandlerFlushes(r)
    \/ HandlerHijacks(r) \/ HandlerPanics(r) \/ HandlerReturns(r)
    \/ RecoverLogs(r) \/ RecoverWritesHeader(r) \/ RecoverWritesBody(r)
    \/ RecoverLogsWriteError(r)
    \/ AccessLogRecords(r) \/ NetFinishes(r) \/ NetAborts(r)

\* All requests are served: the only state in which nothing is left to do.
Served == (\A r \in Requests : At(r, "done")) /\ UNCHANGED vars

Next == Served \/ \E r \in Requests : RequestID(r) \/ Serve(r) \/ ClientLeaves(r)

\* The Go scheduler runs every runnable goroutine, and a handler makes
\* finitely many calls; a request need not arrive and a client need not leave.
Spec == Init /\ [][Next]_vars /\ \A r \in Requests : WF_vars(Serve(r))
---------------------------------------------------------------------------
(* Properties                                                               *)

Places == {"idle", "access_log", "recover", "handler", "recovering", "answering",
           "answering_body", "write_failed", "logging", "unwinding", "finishing",
           "aborting", "done"}
Generated == {"uuid", "fallback"} \X Nat
RequestIDs == ValidHeaders \cup Generated
Noted == {Sanitized(header) : header \in InvalidHeaders} \cup {NoHeader}
Codes == HandlerCodes \cup {200, 500}
Recorder == [status : Codes, wroteHeader : BOOLEAN]
Response == [header : RequestIDs \cup {NoId}, sentId : RequestIDs \cup {NoId},
             status : Codes \cup {NoStatus}, body : SUBSET {"handler", "error"},
             refused : SUBSET {"superfluous", "informational", "invalid"}]
LogRecord == [req : Requests, kind : {"panic", "write_error", "access"},
              rid : RequestIDs \cup {NoId}, client : Noted,
              level : {"INFO", "WARN", "ERROR"}, status : Codes \cup {NoStatus}]

\* Every variable keeps its type.
TypeOK ==
    /\ pc \in [Requests -> Places]
    /\ client \in [Requests -> Noted]
    /\ rid \in [Requests -> RequestIDs \cup {NoId}]
    /\ inner \in [Requests -> Recorder]
    /\ outer \in [Requests -> Recorder]
    /\ wire \in [Requests -> Response]
    /\ conn \in [Requests -> {"open", "gone", "hijacked", "aborted"}]
    /\ panicked \in [Requests -> [value : {"none", "plain", "unprintable"},
                                  sent : Codes \cup {NoStatus}]]
    /\ ops \in [Requests -> 0..MaxOps]
    /\ uuids \in Nat
    /\ fallbackSeq \in Nat
    /\ log \in Seq(LogRecord)

\* net/http's response is not what the recorders forwarded: it declined one of
\* their WriteHeader calls, or the connection was taken away from it.
Bypassed(r) == wire[r].refused # {} \/ conn[r] \in {"hijacked", "aborted"}

\* The status and the level in the access record are those of the response the
\* client was sent, however the handler ended (server.go: access_log observes
\* the status that recover made of a panic), unless net/http was bypassed.
AccessStatusIsSent ==
    \A i \in DOMAIN log :
        LET r == log[i].req IN
        log[i].kind = "access" /\ At(r, "done") /\ ~Bypassed(r) =>
            /\ log[i].status = wire[r].status
            /\ log[i].level = LevelFromStatus(wire[r].status)

\* AccessLog's defer writes one access record per request, after every other
\* record of the request, also when a second panic unwinds through it.  (The run
\* that checks this has no panic value whose Error panics; for those it is proved,
\* see AccessRecordIsLast.)
OneAccessRecordComesLast ==
    /\ \A r \in Requests : pc[r] \in {"finishing", "aborting", "done"} =>
           \E i \in DOMAIN log : log[i].req = r /\ log[i].kind = "access"
    /\ \A i, j \in DOMAIN log :
           i < j /\ log[i].req = log[j].req => log[i].kind # "access"

\* The X-Request-Id the client receives is the one in every record of its
\* request: RequestID sets it before anything can commit the response.
RecordsCarrySentId ==
    \A i \in DOMAIN log :
        LET w == wire[log[i].req] IN
        w.status # NoStatus => log[i].rid = w.sentId /\ log[i].rid # NoId

\* A panic before the response's status is answered with 500 and the error
\* document alone, and logged as ERROR twice under the ID the client was given:
\* by Recover first, by AccessLog at the end.
PanicIsAnswered ==
    \A r \in Requests :
        At(r, "done") /\ panicked[r].value = "plain" /\ panicked[r].sent = NoStatus
            /\ ~Bypassed(r) =>
        /\ wire[r].status = 500
        /\ wire[r].body = {"error"}
        /\ \E i, j \in DOMAIN log :
             /\ i < j
             /\ log[i].req = r /\ log[i].kind = "panic"
             /\ log[j].req = r /\ log[j].kind = "access"
             /\ {log[i].level, log[j].level} = {"ERROR"}
             /\ {log[i].rid, log[j].rid} = {wire[r].sentId}

\* Recover never adds its error document to content a handler has written, and
\* sends it under another status than 500 only if a Flush had committed one.
ErrorDocumentStandsAlone ==
    \A r \in Requests : "error" \in wire[r].body =>
        /\ wire[r].body = {"error"}
        /\ wire[r].status = 500 \/ "superfluous" \in wire[r].refused

\* Without Flush net/http never sees a second WriteHeader: whatever handlers
\* and Recover call, the recorders let the first one through and no other.
OneStatusLine ==
    "Flush" \notin HandlerOps => \A r \in Requests : "superfluous" \notin wire[r].refused

\* Two requests never get the same generated ID, also when some IDs come from
\* the UUID generator and others from the fallback counter.
GeneratedIdsDiffer ==
    \A r, s \in Requests :
        r # s /\ rid[r] = rid[s] => rid[r] \in ValidHeaders \cup {NoId}

---------------------------------------------------------------------------
\* Every request that reaches the chain is ended and has its access record:
\* no panic, write error, or client that left keeps it from happening.
EveryRequestIsRecorded ==
    \A r \in Requests :
        ~At(r, "idle") ~> /\ At(r, "done")
                          /\ \E i \in DOMAIN log : log[i].req = r /\ log[i].kind = "access"

\* The status the client is given: the committed one, or the implicit 200 of a
\* chain that returned without a status line.
AnswerGiven ==
    [r \in Requests |->
        IF wire[r].status # NoStatus THEN wire[r].status
        ELSE IF pc[r] \in {"logging", "finishing"} THEN 200
        ELSE NoStatus]

AccessStatus ==
    [r \in Requests |->
        IF \E i \in DOMAIN log : log[i].req = r /\ log[i].kind = "access"
        THEN log[CHOOSE i \in DOMAIN log : log[i].req = r /\ log[i].kind = "access"].status
        ELSE NoStatus]

Contract == INSTANCE RequestContract WITH
    Unset <- NoStatus, answer <- AnswerGiven, record <- AccessStatus

\* The chain keeps RequestContract's promise, whatever a handler does that
\* writes through the recorders: one answer, then a record of that answer.
ImplementsContract == Contract!Spec

---------------------------------------------------------------------------
(* What recover.go says of every panic, and does not keep for all of them.  *)

\* recover.go: a panic is answered with 500 unless a response was already sent.
EveryEarlyPanicGets500 ==
    \A r \in Requests :
        At(r, "done") /\ panicked[r].value # "none" /\ panicked[r].sent = NoStatus
            /\ conn[r] # "hijacked" => wire[r].status = 500
==========================================================================
