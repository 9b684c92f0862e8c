---------------------- MODULE RequestPipelineProofs ----------------------
(***************************************************************************)
(* Proofs about RequestPipeline, for any number of concurrent requests, any *)
(* client headers, any handlers and any statuses they write: what the       *)
(* client is answered, what the log says of it, and that both keep          *)
(* RequestContract.                                                         *)
(***************************************************************************)
EXTENDS RequestPipeline, SequenceTheorems, TLAPS

---------------------------------------------------------------------------
(* The response operators keep their types.                                 *)

LEMMA NetTypes ==
    ASSUME NEW w \in Response, NEW c, NEW code \in Codes,
           NEW content \in {"handler", "error"}
    PROVE  /\ NetWriteHeader(w, c, code) \in Response
           /\ NetCommit(w, c) \in Response
           /\ NetWrite(w, c, content) \in Response
<1>1. ASSUME NEW s \in Codes PROVE Commit(w, s) \in Response
  BY <1>1 DEF Commit, Response
<1>2. ASSUME NEW why \in {"superfluous", "informational", "invalid"}
      PROVE  Refuse(w, why) \in Response
  BY <1>2 DEF Refuse, Response
<1>3. NetWriteHeader(w, c, code) \in Response
  BY <1>1, <1>2 DEF NetWriteHeader
<1>4. NetCommit(w, c) \in Response
  BY <1>1 DEF NetCommit, Codes
<1>5. NetWrite(w, c, content) \in Response
  BY <1>4 DEF NetWrite, Response
<1> QED BY <1>3, <1>4, <1>5

LEMMA HeaderType ==
    ASSUME NEW w \in Response, NEW id \in RequestIDs
    PROVE  [w EXCEPT !.header = id] \in Response
BY DEF Response

LEMMA RecordedType ==
    ASSUME NEW rec \in Recorder, NEW code \in Codes
    PROVE  Recorded(rec, code) \in Recorder
BY DEF Recorded, Recorder

LEMMA CallTypes ==
    ASSUME TypeOK, NEW r \in Requests, NEW code \in Codes,
           NEW content \in {"handler", "error"},
           \/ WriteHeader(r, code)
           \/ Write(r, content)
           \/ Flush(r)
    PROVE  /\ inner' \in [Requests -> Recorder]
           /\ outer' \in [Requests -> Recorder]
           /\ wire' \in [Requests -> Response]
<1> USE DEF TypeOK
<1>0. 200 \in Codes /\ wire[r] \in Response
  BY DEF Codes
<1>1. CASE WriteHeader(r, code)
  BY <1>0, <1>1, RecordedType, NetTypes DEF WriteHeader
<1>2. CASE Write(r, content)
  <2>1. inner' \in [Requests -> Recorder] /\ outer' \in [Requests -> Recorder]
    BY <1>0, <1>2, RecordedType DEF Write
  <2> DEFINE w == IF outer[r].wroteHeader THEN wire[r]
                  ELSE NetWriteHeader(wire[r], conn[r], 200)
  <2>2. w \in Response
    BY <1>0, NetTypes
  <2>3. NetWrite(w, conn[r], content) \in Response
    BY <1>0, <2>2, NetTypes
  <2>4. wire' = [wire EXCEPT ![r] = NetWrite(w, conn[r], content)]
    BY <1>2 DEF Write
  <2> QED BY <2>1, <2>3, <2>4
<1>3. CASE Flush(r)
  BY <1>0, <1>3, NetTypes DEF Flush
<1> QED BY <1>1, <1>2, <1>3

LEMMA EmitType ==
    ASSUME TypeOK, NEW r \in Requests, NEW kind \in {"panic", "write_error", "access"},
           NEW level \in {"INFO", "WARN", "ERROR"}, NEW status \in Codes \cup {NoStatus},
           Emit(r, kind, level, status)
    PROVE  log' \in Seq(LogRecord)
<1>1. Entry(r, kind, level, status) \in LogRecord
  BY DEF TypeOK, LogRecord, Entry
<1>2. log' = Append(log, Entry(r, kind, level, status))
  BY DEF Emit
<1>3. log \in Seq(LogRecord)
  BY DEF TypeOK
<1> QED BY <1>1, <1>2, <1>3, AppendProperties

LEMMA GotoType ==
    ASSUME TypeOK, NEW r \in Requests, NEW label \in Places, Goto(r, label)
    PROVE  pc' \in [Requests -> Places]
BY DEF Goto, TypeOK

\* RequestID: whichever way the ID was found, it is a request ID.
LEMMA RequestIDType ==
    ASSUME TypeOK, NEW r \in Requests, RequestID(r)
    PROVE  TypeOK'
<1> USE DEF TypeOK
<1>1. pc' \in [Requests -> Places]
  BY GotoType DEF RequestID, Places
<1>2. ASSUME NEW id \in RequestIDs, NEW rejected \in Noted, Identify(r, id, rejected)
      PROVE  /\ rid' \in [Requests -> RequestIDs \cup {NoId}]
             /\ client' \in [Requests -> Noted]
             /\ wire' \in [Requests -> Response]
  <2>1. [wire[r] EXCEPT !.header = id] \in Response
    BY HeaderType
  <2>2. wire' = [wire EXCEPT ![r] = [wire[r] EXCEPT !.header = id]]
    BY <1>2 DEF Identify
  <2> QED BY <1>2, <2>1, <2>2 DEF Identify
<1>3. ASSUME NEW rejected \in Noted, NewRequestID(r, rejected)
      PROVE  /\ \E id \in RequestIDs : Identify(r, id, rejected)
             /\ uuids' \in Nat /\ fallbackSeq' \in Nat
  BY <1>3 DEF NewRequestID, UuidV7, FallbackID, RequestIDs, Generated
<1>4. /\ \E id \in RequestIDs, rejected \in Noted : Identify(r, id, rejected)
      /\ uuids' \in Nat /\ fallbackSeq' \in Nat
  <2>1. CASE \E header \in ValidHeaders :
               Identify(r, header, NoHeader) /\ UNCHANGED <<uuids, fallbackSeq>>
    BY <2>1 DEF RequestIDs, Noted
  <2>2. CASE \E header \in InvalidHeaders : NewRequestID(r, Sanitized(header))
    BY <2>2, <1>3 DEF Noted
  <2>3. CASE NewRequestID(r, NoHeader)
    BY <2>3, <1>3 DEF Noted
  <2> QED BY <2>1, <2>2, <2>3 DEF RequestID
<1>5. UNCHANGED <<inner, outer, conn, panicked, ops, log>>
  BY DEF RequestID
<1> QED BY <1>1, <1>2, <1>4, <1>5

\* The handler's calls.
LEMMA HandlerType ==
    ASSUME TypeOK, NEW r \in Requests,
           \/ HandlerWritesHeader(r) \/ HandlerWrites(r) \/ HandlerFlushes(r)
           \/ HandlerHijacks(r) \/ HandlerPanics(r) \/ HandlerReturns(r)
    PROVE  TypeOK'
<1> USE DEF TypeOK
<1>1. ASSUME NEW op, Calls(r, op) PROVE ops' \in [Requests -> 0..MaxOps]
  BY <1>1, HandlerAssumption DEF Calls
<1>2. ASSUME NEW value \in {"plain", "unprintable"}, Raise(r, value)
      PROVE  pc' \in [Requests -> Places]
             /\ panicked' \in [Requests -> [value : {"none", "plain", "unprintable"},
                                            sent : Codes \cup {NoStatus}]]
  <2>1. [value |-> value, sent |-> wire[r].status] \in
          [value : {"none", "plain", "unprintable"}, sent : Codes \cup {NoStatus}]
    BY <1>2 DEF Response
  <2>2. pc' \in [Requests -> Places]
    BY <1>2, GotoType DEF Raise, Places
  <2> QED BY <1>2, <2>1, <2>2 DEF Raise
<1>3. CASE HandlerWritesHeader(r)
  <2>1. PICK code \in Codes : WriteHeader(r, code)
    BY <1>3 DEF HandlerWritesHeader, Codes
  <2>2. /\ pc' \in [Requests -> Places]
        /\ panicked' \in [Requests -> [value : {"none", "plain", "unprintable"},
                                       sent : Codes \cup {NoStatus}]]
    BY <1>2, <1>3 DEF HandlerWritesHeader
  <2>3. UNCHANGED <<ids, conn, log>> /\ ops' \in [Requests -> 0..MaxOps]
    BY <1>1, <1>3 DEF HandlerWritesHeader
  <2>4. /\ inner' \in [Requests -> Recorder]
        /\ outer' \in [Requests -> Recorder]
        /\ wire' \in [Requests -> Response]
    BY <2>1, CallTypes
  <2> QED BY <2>2, <2>3, <2>4 DEF ids
<1>4. CASE HandlerWrites(r)
  <2>1. /\ inner' \in [Requests -> Recorder]
        /\ outer' \in [Requests -> Recorder]
        /\ wire' \in [Requests -> Response]
    BY <1>4, CallTypes DEF HandlerWrites, Codes
  <2> QED BY <1>1, <1>4, <2>1 DEF HandlerWrites, ids
<1>5. CASE HandlerFlushes(r)
  <2>1. /\ inner' \in [Requests -> Recorder]
        /\ outer' \in [Requests -> Recorder]
        /\ wire' \in [Requests -> Response]
    BY <1>5, CallTypes DEF HandlerFlushes, Codes
  <2> QED BY <1>1, <1>5, <2>1 DEF HandlerFlushes, ids
<1>6. CASE HandlerHijacks(r)
  BY <1>1, <1>6 DEF HandlerHijacks, ids, response
<1>7. CASE HandlerPanics(r)
  BY <1>1, <1>2, <1>7 DEF HandlerPanics, ids, response
<1>8. CASE HandlerReturns(r)
  BY <1>8, GotoType DEF HandlerReturns, Places, ids, response
<1> QED BY <1>3, <1>4, <1>5, <1>6, <1>7, <1>8

\* What the deferred functions of Recover and AccessLog do, and net/http after.
LEMMA UnwindType ==
    ASSUME TypeOK, NEW r \in Requests,
           \/ RecoverLogs(r) \/ RecoverWritesHeader(r) \/ RecoverWritesBody(r)
           \/ RecoverLogsWriteError(r) \/ AccessLogRecords(r)
           \/ NetFinishes(r) \/ NetAborts(r)
    PROVE  TypeOK'
<1> USE DEF TypeOK
<1>0. inner[r].status \in Codes /\ outer[r].status \in Codes
      /\ \A status \in Codes : LevelFromStatus(status) \in {"INFO", "WARN", "ERROR"}
  BY DEF Recorder, LevelFromStatus
<1>1. CASE RecoverLogs(r)
  <2>1. pc' \in [Requests -> Places]
    BY <1>1, GotoType DEF RecoverLogs, Places
  <2>2. log' \in Seq(LogRecord)
    BY <1>0, <1>1, EmitType DEF RecoverLogs
  <2> QED BY <1>1, <2>1, <2>2 DEF RecoverLogs, ids, response
<1>2. CASE RecoverWritesHeader(r)
  <2>1. /\ inner' \in [Requests -> Recorder]
        /\ outer' \in [Requests -> Recorder]
        /\ wire' \in [Requests -> Response]
    BY <1>2, CallTypes DEF RecoverWritesHeader, Codes
  <2>2. pc' \in [Requests -> Places]
    BY <1>2, GotoType DEF RecoverWritesHeader, Places
  <2> QED BY <1>2, <2>1, <2>2 DEF RecoverWritesHeader, ids
<1>3. CASE RecoverWritesBody(r)
  <2>1. /\ inner' \in [Requests -> Recorder]
        /\ outer' \in [Requests -> Recorder]
        /\ wire' \in [Requests -> Response]
    BY <1>3, CallTypes DEF RecoverWritesBody, Codes
  <2>2. pc' \in [Requests -> Places]
    BY <1>3, GotoType DEF RecoverWritesBody, Places
  <2> QED BY <1>3, <2>1, <2>2 DEF RecoverWritesBody, ids
<1>4. CASE RecoverLogsWriteError(r)
  BY <1>4, GotoType, EmitType DEF RecoverLogsWriteError, Places, ids, response
<1>5. CASE AccessLogRecords(r)
  <2>1. log' \in Seq(LogRecord)
    BY <1>0, <1>5, EmitType DEF AccessLogRecords
  <2>2. pc' \in [Requests -> Places]
    BY <1>5, GotoType DEF AccessLogRecords, Places
  <2> QED BY <1>5, <2>1, <2>2 DEF AccessLogRecords, ids, response
<1>6. CASE NetFinishes(r)
  <2>1. wire' \in [Requests -> Response]
    <3>1. NetCommit(wire[r], conn[r]) \in Response
      <4>1. wire[r] \in Response /\ 200 \in Codes
        BY DEF Codes
      <4> QED BY <4>1, NetTypes
    <3> QED BY <1>6, <3>1 DEF NetFinishes
  <2> QED BY <1>6, <2>1, GotoType DEF NetFinishes, Places, ids
<1>7. CASE NetAborts(r)
  BY <1>7, GotoType DEF NetAborts, Places, ids, response
<1> QED BY <1>1, <1>2, <1>3, <1>4, <1>5, <1>6, <1>7

\* Every step of the server keeps every variable in its type.
THEOREM PipelineTypeOK == Spec => []TypeOK
<1>1. Init => TypeOK
  <2> SUFFICES ASSUME Init PROVE TypeOK
    OBVIOUS
  <2>1. NewRecorder \in Recorder /\ EmptyResponse \in Response
    BY DEF NewRecorder, Recorder, EmptyResponse, Response, Codes
  <2>2. NoPanic \in [value : {"none", "plain", "unprintable"}, sent : Codes \cup {NoStatus}]
    BY DEF NoPanic
  <2>3. log \in Seq(LogRecord)
    BY DEF Init
  <2> QED BY <2>1, <2>2, <2>3, HandlerAssumption DEF Init, TypeOK, Places, Noted
<1>2. TypeOK /\ [Next]_vars => TypeOK'
  <2> SUFFICES ASSUME TypeOK, [Next]_vars PROVE TypeOK'
    OBVIOUS
  <2>1. CASE UNCHANGED vars
    BY <2>1 DEF vars, TypeOK
  <2>2. ASSUME NEW r \in Requests, RequestID(r) PROVE TypeOK'
    BY <2>2, RequestIDType
  <2>3. ASSUME NEW r \in Requests, Serve(r) PROVE TypeOK'
    <3>1. CASE AccessLog(r)
      BY <3>1, GotoType DEF AccessLog, TypeOK, Places, ids, NewRecorder, Recorder, Codes
    <3>2. CASE Recover(r)
      BY <3>2, GotoType DEF Recover, TypeOK, Places, ids, NewRecorder, Recorder, Codes
    <3> QED BY <2>3, <3>1, <3>2, HandlerType, UnwindType DEF Serve
  <2>4. ASSUME NEW r \in Requests, ClientLeaves(r) PROVE TypeOK'
    BY <2>4 DEF ClientLeaves, TypeOK, ids, response
  <2> QED BY <2>1, <2>2, <2>3, <2>4 DEF Next, Served
<1> QED BY <1>1, <1>2, PTL DEF Spec

---------------------------------------------------------------------------
(* The access record has the status of the response.  AccessStatusIsSent    *)
(* speaks of ended requests only; it is inductive together with what        *)
(* AccessLog's recorder and net/http's response owe each other before: as   *)
(* long as net/http was not bypassed, a recorder that took note of a        *)
(* WriteHeader has the committed status, and one that did not still has the *)
(* 200 that net/http has committed (by a Flush) or will commit.             *)

Agree(r) ==
    /\ ~outer[r].wroteHeader => outer[r].status = 200
    /\ ~Bypassed(r) => /\ outer[r].wroteHeader => wire[r].status = outer[r].status
                       /\ ~outer[r].wroteHeader => wire[r].status \in {NoStatus, 200}

RequestInv(r) ==
    /\ Agree(r)
    /\ pc[r] \in {"idle", "access_log"} => wire[r].status = NoStatus
    /\ At(r, "done") /\ ~Bypassed(r) => wire[r].status = outer[r].status

RecordInv ==
    \A i \in DOMAIN log :
        LET r == log[i].req IN
        log[i].kind = "access" =>
            /\ pc[r] \in {"finishing", "aborting", "done"}
            /\ log[i].status = outer[r].status
            /\ log[i].level = LevelFromStatus(outer[r].status)

AccessInv == (\A r \in Requests : RequestInv(r)) /\ RecordInv

\* net/http on a response that is not hijacked: a WriteHeader it does not
\* refuse becomes the status, anything else commits 200 if nothing is yet.
LEMMA CommitStatus ==
    ASSUME NEW w \in Response, NEW code \in Codes
    PROVE  /\ Commit(w, code).status = code
           /\ Commit(w, code).refused = w.refused
           /\ Commit(w, code) \in Response
BY DEF Commit, Response

LEMMA NetWriteHeaderStatus ==
    ASSUME NEW w \in Response, NEW code \in Codes, NEW c, c # "hijacked",
           NetWriteHeader(w, c, code).refused = {}
    PROVE  NetWriteHeader(w, c, code).status = code /\ w.refused = {}
<1>1. \A why : Refuse(w, why).refused # {}
  BY DEF Refuse, Response
<1> QED BY <1>1, CommitStatus DEF NetWriteHeader

LEMMA NetCommitStatus ==
    ASSUME NEW w \in Response, NEW c, c # "hijacked"
    PROVE  /\ NetCommit(w, c).refused = w.refused
           /\ NetCommit(w, c).status = IF w.status = NoStatus THEN 200 ELSE w.status
           /\ NetCommit(w, c) \in Response
BY CommitStatus DEF NetCommit, Codes

LEMMA BodyOnly ==
    ASSUME NEW w \in Response, NEW content \in {"handler", "error"}
    PROVE  /\ [w EXCEPT !.body = @ \cup {content}].refused = w.refused
           /\ [w EXCEPT !.body = @ \cup {content}].status = w.status
BY DEF Response

LEMMA NetWriteStatus ==
    ASSUME NEW w \in Response, NEW content \in {"handler", "error"},
           NEW c, c # "hijacked"
    PROVE  /\ NetWrite(w, c, content).refused = w.refused
           /\ NetWrite(w, c, content).status =
                  IF w.status = NoStatus THEN 200 ELSE w.status
<1>1. PICK v \in Response : v = NetCommit(w, c)
  BY NetCommitStatus
<1>2. NetWrite(w, c, content) = [v EXCEPT !.body = @ \cup {content}]
  BY <1>1 DEF NetWrite
<1>3. v.refused = w.refused /\ v.status = IF w.status = NoStatus THEN 200 ELSE w.status
  BY <1>1, NetCommitStatus
<1> QED BY <1>2, <1>3, BodyOnly

\* A call on the inner recorder keeps AccessLog's recorder and the response in
\* agreement, whether or not the inner recorder forwards it.
LEMMA CallsAgree ==
    ASSUME TypeOK, NEW r \in Requests, Agree(r), conn' = conn,
           NEW code \in Codes, NEW content \in {"handler", "error"},
           WriteHeader(r, code) \/ Write(r, content) \/ Flush(r)
    PROVE  Agree(r)'
<1>0. /\ wire \in [Requests -> Response] /\ wire[r] \in Response
      /\ outer \in [Requests -> Recorder] /\ outer[r] \in Recorder
      /\ 200 \in Codes
  BY DEF TypeOK, Codes
<1>a. outer'[r] \in Recorder /\ (~outer'[r].wroteHeader => outer'[r].status = 200)
  BY <1>0, CallTypes DEF WriteHeader, Write, Flush, Recorded, Agree
<1> SUFFICES ASSUME ~Bypassed(r)'
             PROVE  /\ outer'[r].wroteHeader => wire'[r].status = outer'[r].status
                    /\ ~outer'[r].wroteHeader => wire'[r].status \in {NoStatus, 200}
  BY <1>a DEF Agree
<1>b. conn[r] \notin {"hijacked", "aborted"} /\ wire'[r].refused = {}
  BY DEF Bypassed
<1>c. wire[r].refused = {} => ~Bypassed(r)
  BY <1>b DEF Bypassed
<1>d. outer[r].status # NoStatus /\ NoStatus # 200
  BY <1>0, HandlerAssumption DEF Recorder, Codes, NoStatus
<1>1. CASE WriteHeader(r, code)
  <2>1. CASE inner[r].wroteHeader \/ outer[r].wroteHeader
    <3>1. wire' = wire /\ outer'[r] = outer[r]
      BY <1>0, <1>1, <2>1 DEF WriteHeader, Recorded
    <3> QED BY <1>b, <1>c, <3>1 DEF Agree
  <2>2. CASE ~inner[r].wroteHeader /\ ~outer[r].wroteHeader
    <3>1. outer'[r] = [status |-> code, wroteHeader |-> TRUE]
      BY <1>0, <1>1, <2>2 DEF WriteHeader, Recorded
    <3>2. wire'[r] = NetWriteHeader(wire[r], conn[r], code)
      BY <1>0, <1>1, <1>b, <2>2 DEF WriteHeader
    <3>3. wire'[r].status = code
      BY <1>0, <1>b, <3>2, NetWriteHeaderStatus
    <3> QED BY <3>1, <3>3
  <2> QED BY <2>1, <2>2
<1>2. CASE Write(r, content)
  <2>1. PICK w \in Response :
           /\ w = IF outer[r].wroteHeader THEN wire[r] ELSE NetWriteHeader(wire[r], conn[r], 200)
           /\ wire'[r] = NetWrite(w, conn[r], content)
    BY <1>0, <1>2, <1>b, NetTypes DEF Write
  <2>2. outer'[r] = Recorded(outer[r], 200)
    BY <1>0, <1>2 DEF Write
  <2>3. /\ w.refused = {}
        /\ wire'[r].status = IF w.status = NoStatus THEN 200 ELSE w.status
    BY <1>b, <2>1, NetWriteStatus
  <2>4. CASE outer[r].wroteHeader
    <3>1. outer'[r] = outer[r] /\ w = wire[r]
      BY <2>1, <2>2, <2>4 DEF Recorded
    <3> QED BY <1>c, <1>d, <2>3, <2>4, <3>1 DEF Agree
  <2>5. CASE ~outer[r].wroteHeader
    <3>1. outer'[r] = [status |-> 200, wroteHeader |-> TRUE]
      BY <2>2, <2>5 DEF Recorded
    <3>2. w = NetWriteHeader(wire[r], conn[r], 200)
      BY <2>1, <2>5
    <3>3. w.status = 200
      BY <1>0, <1>b, <2>3, <3>2, NetWriteHeaderStatus
    <3> QED BY <1>d, <2>3, <3>1, <3>3
  <2> QED BY <2>4, <2>5
<1>3. CASE Flush(r)
  <2>1. wire'[r] = NetCommit(wire[r], conn[r]) /\ outer' = outer
    BY <1>0, <1>3, <1>b DEF Flush
  <2>2. /\ wire[r].refused = {}
        /\ wire'[r].status = IF wire[r].status = NoStatus THEN 200 ELSE wire[r].status
    BY <1>0, <1>b, <2>1, NetCommitStatus
  <2> QED BY <1>c, <1>d, <2>1, <2>2 DEF Agree
<1> QED BY <1>1, <1>2, <1>3

\* A step of one request leaves every other request alone.
LEMMA Frame ==
    ASSUME TypeOK, NEW r \in Requests, NEW s \in Requests, s # r,
           RequestID(r) \/ Serve(r) \/ ClientLeaves(r)
    PROVE  pc'[s] = pc[s] /\ outer'[s] = outer[s] /\ wire'[s] = wire[s] /\ conn'[s] = conn[s]
<1> USE DEF TypeOK, Goto, ids, response
<1>1. CASE RequestID(r)
  BY <1>1 DEF RequestID, Identify, NewRequestID, UuidV7, FallbackID
<1>2. CASE AccessLog(r) \/ Recover(r)
  BY <1>2 DEF AccessLog, Recover
<1>3. CASE HandlerWritesHeader(r)
  BY <1>3 DEF HandlerWritesHeader, WriteHeader, Raise
<1>4. CASE HandlerWrites(r) \/ HandlerFlushes(r) \/ HandlerHijacks(r)
  BY <1>4 DEF HandlerWrites, HandlerFlushes, HandlerHijacks, Write, Flush
<1>5. CASE HandlerPanics(r) \/ HandlerReturns(r)
  BY <1>5 DEF HandlerPanics, HandlerReturns, Raise
<1>6. CASE RecoverLogs(r) \/ RecoverLogsWriteError(r) \/ AccessLogRecords(r)
  BY <1>6 DEF RecoverLogs, RecoverLogsWriteError, AccessLogRecords
<1>7. CASE RecoverWritesHeader(r)
  BY <1>7 DEF RecoverWritesHeader, WriteHeader
<1>8. CASE RecoverWritesBody(r)
  BY <1>8 DEF RecoverWritesBody, Write
<1>9. CASE NetFinishes(r) \/ NetAborts(r) \/ ClientLeaves(r)
  BY <1>9 DEF NetFinishes, NetAborts, ClientLeaves
<1> QED BY <1>1, <1>2, <1>3, <1>4, <1>5, <1>6, <1>7, <1>8, <1>9 DEF Serve

LEMMA RecordRequest ==
    ASSUME TypeOK, NEW i \in DOMAIN log
    PROVE  log[i].req \in Requests
<1>1. log \in Seq(LogRecord)
  BY DEF TypeOK
<1>2. log[i] \in LogRecord
  BY <1>1
<1> QED BY <1>2 DEF LogRecord

LEMMA EmitAppends ==
    ASSUME TypeOK, NEW r \in Requests, NEW kind, NEW level, NEW status,
           Emit(r, kind, level, status), NEW i \in DOMAIN log'
    PROVE  \/ i \in DOMAIN log /\ log'[i] = log[i]
           \/ /\ log'[i].req = r /\ log'[i].kind = kind
              /\ log'[i].level = level /\ log'[i].status = status
<1>1. PICK new : /\ new = [req |-> r, kind |-> kind, rid |-> rid[r], client |-> client[r],
                            level |-> level, status |-> status]
                 /\ log' = Append(log, new)
  BY DEF Emit, Entry
<1>2. log \in Seq(LogRecord)
  BY DEF TypeOK
<1>3. CASE i \in 1..Len(log)
  BY <1>1, <1>2, <1>3
<1>4. CASE i = Len(log) + 1
  BY <1>1, <1>2, <1>4
<1> QED BY <1>1, <1>2, <1>3, <1>4

\* Only AccessLogRecords adds an access record, and it is outer's.
LEMMA NewRecords ==
    ASSUME TypeOK, NEW r \in Requests, RequestID(r) \/ Serve(r) \/ ClientLeaves(r),
           NEW i \in DOMAIN log', log'[i].kind = "access"
    PROVE  \/ i \in DOMAIN log /\ log'[i] = log[i]
           \/ /\ AccessLogRecords(r)
              /\ log'[i].req = r
              /\ log'[i].status = outer[r].status
              /\ log'[i].level = LevelFromStatus(outer[r].status)
<1>1. CASE RecoverLogs(r)
  BY <1>1, EmitAppends DEF RecoverLogs
<1>2. CASE RecoverLogsWriteError(r)
  BY <1>2, EmitAppends DEF RecoverLogsWriteError
<1>3. CASE AccessLogRecords(r)
  BY <1>3, EmitAppends DEF AccessLogRecords
<1>4. CASE UNCHANGED log
  BY <1>4
<1> QED BY <1>1, <1>2, <1>3, <1>4
     DEF Serve, RequestID, AccessLog, Recover, HandlerWritesHeader, HandlerWrites,
         HandlerFlushes, HandlerHijacks, HandlerPanics, HandlerReturns,
         RecoverWritesHeader, RecoverWritesBody, NetFinishes, NetAborts, ClientLeaves

\* Once the access record is written, AccessLog's recorder is not used again.
LEMMA AfterRecord ==
    ASSUME TypeOK, NEW r \in Requests, RequestID(r) \/ Serve(r) \/ ClientLeaves(r),
           pc[r] \in {"finishing", "aborting", "done"}
    PROVE  /\ pc'[r] \in {"finishing", "aborting", "done"}
           /\ outer'[r] = outer[r]
<1>1. NetFinishes(r) \/ NetAborts(r) \/ ClientLeaves(r)
  BY DEF Serve, RequestID, AccessLog, Recover, HandlerWritesHeader, HandlerWrites,
         HandlerFlushes, HandlerHijacks, HandlerPanics, HandlerReturns, Calls, RecoverLogs,
         RecoverWritesHeader, RecoverWritesBody, RecoverLogsWriteError, AccessLogRecords, At
<1> QED BY <1>1 DEF NetFinishes, NetAborts, ClientLeaves, Goto, response, TypeOK

\* Each step of a request keeps what is known of that request.
LEMMA RequestStep ==
    ASSUME TypeOK, NEW r \in Requests, RequestInv(r), RecordInv,
           RequestID(r) \/ Serve(r) \/ ClientLeaves(r)
    PROVE  RequestInv(r)'
<1>0. /\ wire \in [Requests -> Response] /\ wire[r] \in Response
      /\ outer \in [Requests -> Recorder] /\ outer[r] \in Recorder
      /\ conn \in [Requests -> {"open", "gone", "hijacked", "aborted"}]
      /\ pc \in [Requests -> Places]
      /\ Agree(r)
  BY DEF TypeOK, RequestInv
\* Steps that call the inner recorder, from places where the chain is running.
<1>1. ASSUME NEW code \in Codes, NEW content \in {"handler", "error"},
             WriteHeader(r, code) \/ Write(r, content) \/ Flush(r), conn' = conn,
             pc'[r] \notin {"idle", "access_log", "done"}
      PROVE  RequestInv(r)'
  BY <1>0, <1>1, CallsAgree DEF RequestInv, At
\* Steps that touch neither view of the response.
<1>2. ASSUME UNCHANGED <<outer, wire, conn>>,
             pc'[r] \notin {"idle", "access_log", "done"}
      PROVE  RequestInv(r)'
  BY <1>0, <1>2 DEF RequestInv, Agree, Bypassed, At
<1>3. CASE RequestID(r)
  <2>1. /\ pc[r] = "idle" /\ pc'[r] = "access_log"
        /\ outer' = outer /\ conn' = conn
    BY <1>0, <1>3 DEF RequestID, Goto, At
  <2>2. PICK id : wire' = [wire EXCEPT ![r].header = id]
    BY <1>3 DEF RequestID, NewRequestID, UuidV7, FallbackID, Identify
  <2>3. wire'[r].status = wire[r].status /\ wire'[r].refused = wire[r].refused
    BY <1>0, <2>2 DEF Response
  <2>4. wire[r].status = NoStatus
    BY <2>1 DEF RequestInv
  <2> QED BY <1>0, <2>1, <2>3, <2>4 DEF RequestInv, Agree, Bypassed, At
<1>4. CASE AccessLog(r)
  <2>1. /\ outer'[r] = NewRecorder /\ wire' = wire /\ conn' = conn
        /\ pc'[r] = "recover" /\ wire[r].status = NoStatus
    BY <1>0, <1>4 DEF AccessLog, Goto, At, RequestInv
  <2> QED BY <2>1 DEF RequestInv, Agree, Bypassed, NewRecorder, At
<1>5. CASE Recover(r)
  BY <1>0, <1>2, <1>5 DEF Recover, Goto
<1>6. CASE HandlerWritesHeader(r)
  <2>1. PICK code \in Codes : WriteHeader(r, code)
    BY <1>6 DEF HandlerWritesHeader, Codes
  <2>2. conn' = conn /\ pc'[r] \in {"handler", "recovering"}
    BY <1>0, <1>6 DEF HandlerWritesHeader, Raise, Goto, Calls, At
  <2> QED BY <1>1, <2>1, <2>2
<1>7. CASE HandlerWrites(r) \/ HandlerFlushes(r)
  <2>1. conn' = conn /\ pc'[r] = "handler" /\ 200 \in Codes
    BY <1>0, <1>7 DEF HandlerWrites, HandlerFlushes, Calls, At, Codes
  <2> QED BY <1>1, <1>7, <2>1 DEF HandlerWrites, HandlerFlushes
<1>8. CASE HandlerHijacks(r)
  <2>1. /\ outer' = outer /\ wire' = wire /\ pc'[r] = "handler"
        /\ conn'[r] = "hijacked"
    BY <1>0, <1>8 DEF HandlerHijacks, Calls, At, response
  <2> QED BY <1>0, <2>1 DEF RequestInv, Agree, Bypassed, At
<1>9. CASE HandlerPanics(r) \/ HandlerReturns(r)
  BY <1>0, <1>2, <1>9 DEF HandlerPanics, HandlerReturns, Raise, Goto, response
<1>10. CASE RecoverLogs(r) \/ RecoverLogsWriteError(r) \/ AccessLogRecords(r)
  BY <1>0, <1>2, <1>10 DEF RecoverLogs, RecoverLogsWriteError, AccessLogRecords, Goto, response
<1>11. CASE RecoverWritesHeader(r)
  <2>1. conn' = conn /\ pc'[r] = "answering_body" /\ 500 \in Codes
    BY <1>0, <1>11 DEF RecoverWritesHeader, Goto, Codes
  <2> QED BY <1>1, <1>11, <2>1 DEF RecoverWritesHeader
<1>12. CASE RecoverWritesBody(r)
  <2>1. conn' = conn /\ pc'[r] \in {"logging", "write_failed"} /\ 500 \in Codes
    BY <1>0, <1>12 DEF RecoverWritesBody, Goto, Codes
  <2> QED BY <1>1, <1>12, <2>1 DEF RecoverWritesBody
<1>13. CASE NetFinishes(r)
  <2>1. /\ pc[r] = "finishing" /\ pc'[r] = "done" /\ outer' = outer /\ conn' = conn
        /\ wire'[r] = NetCommit(wire[r], conn[r])
    BY <1>0, <1>13 DEF NetFinishes, Goto, At
  <2>2. ASSUME ~Bypassed(r)' PROVE wire'[r].status = outer[r].status
    <3>1. conn[r] \notin {"hijacked", "aborted"} /\ wire'[r].refused = {}
      BY <2>1, <2>2 DEF Bypassed
    <3>2. /\ wire[r].refused = {}
          /\ wire'[r].status = IF wire[r].status = NoStatus THEN 200 ELSE wire[r].status
      BY <1>0, <2>1, <3>1, NetCommitStatus
    <3>3. ~Bypassed(r) /\ outer[r].status # NoStatus
      BY <1>0, <3>1, <3>2, HandlerAssumption DEF Bypassed, Recorder, Codes, NoStatus
    <3> QED BY <1>0, <3>2, <3>3 DEF Agree
  <2>3. ~outer[r].wroteHeader => outer[r].status = 200
    BY <1>0 DEF Agree
  <2> QED BY <2>1, <2>2, <2>3 DEF RequestInv, Agree, At
<1>14. CASE NetAborts(r)
  <2>1. /\ outer' = outer /\ wire' = wire /\ pc'[r] = "done"
        /\ conn'[r] \in {"hijacked", "aborted"}
    BY <1>0, <1>14 DEF NetAborts, Goto, Hijacked, response
  <2> QED BY <1>0, <2>1 DEF RequestInv, Agree, Bypassed, At
<1>15. CASE ClientLeaves(r)
  <2>1. /\ outer' = outer /\ wire' = wire /\ pc' = pc
        /\ conn[r] = "open" /\ conn'[r] = "gone"
    BY <1>0, <1>15 DEF ClientLeaves, response
  <2> QED BY <1>0, <2>1 DEF RequestInv, Agree, Bypassed, At
<1> QED BY <1>3, <1>4, <1>5, <1>6, <1>7, <1>8, <1>9, <1>10, <1>11, <1>12, <1>13,
           <1>14, <1>15 DEF Serve

LEMMA AccessInvStep ==
    ASSUME TypeOK, AccessInv, [Next]_vars
    PROVE  AccessInv'
<1>1. CASE UNCHANGED vars
  BY <1>1 DEF vars, AccessInv, RequestInv, RecordInv, Agree, Bypassed, At
<1>2. ASSUME NEW r \in Requests, RequestID(r) \/ Serve(r) \/ ClientLeaves(r)
      PROVE  AccessInv'
  <2>1. RequestInv(r)'
    BY <1>2, RequestStep DEF AccessInv
  <2>2. ASSUME NEW s \in Requests, s # r PROVE RequestInv(s)'
    BY <1>2, <2>2, Frame DEF AccessInv, RequestInv, Agree, Bypassed, At
  <2>3. ASSUME NEW i \in DOMAIN log', log'[i].kind = "access"
        PROVE  LET q == log'[i].req IN
               /\ pc'[q] \in {"finishing", "aborting", "done"}
               /\ log'[i].status = outer'[q].status
               /\ log'[i].level = LevelFromStatus(outer'[q].status)
    <3>1. CASE i \in DOMAIN log /\ log'[i] = log[i]
      <4>1. /\ pc[log[i].req] \in {"finishing", "aborting", "done"}
            /\ log[i].status = outer[log[i].req].status
            /\ log[i].level = LevelFromStatus(outer[log[i].req].status)
        BY <2>3, <3>1 DEF AccessInv, RecordInv
      <4>2. log[i].req \in Requests
        BY <3>1, RecordRequest
      <4>3. CASE log[i].req = r
        BY <1>2, <3>1, <4>1, <4>3, AfterRecord
      <4>4. CASE log[i].req # r
        BY <1>2, <3>1, <4>1, <4>2, <4>4, Frame
      <4> QED BY <4>3, <4>4
    <3>2. CASE /\ AccessLogRecords(r)
               /\ log'[i].req = r
               /\ log'[i].status = outer[r].status
               /\ log'[i].level = LevelFromStatus(outer[r].status)
      <4>1. outer' = outer /\ pc'[r] \in {"finishing", "aborting"}
        BY <3>2 DEF AccessLogRecords, Goto, response, TypeOK
      <4> QED BY <3>2, <4>1
    <3> QED BY <1>2, <2>3, <3>1, <3>2, NewRecords
  <2> QED BY <2>1, <2>2, <2>3 DEF AccessInv, RecordInv
<1> QED BY <1>1, <1>2 DEF Next, Served

LEMMA InitAccess == Init => AccessInv
  BY DEF Init, AccessInv, RequestInv, RecordInv, Agree, NewRecorder, EmptyResponse, NoStatus, At

\* The status and level of an access record are those of the response the
\* client was sent, for every set of requests, handlers and statuses.
THEOREM AccessStatusCorrect == Spec => []AccessStatusIsSent
<1>1. Init => AccessInv
  BY InitAccess
<1>2. TypeOK /\ AccessInv /\ [Next]_vars => AccessInv'
  BY AccessInvStep
<1>3. TypeOK /\ AccessInv => AccessStatusIsSent
  <2> SUFFICES ASSUME TypeOK, AccessInv, NEW i \in DOMAIN log, log[i].kind = "access",
                      At(log[i].req, "done"), ~Bypassed(log[i].req)
               PROVE  /\ log[i].status = wire[log[i].req].status
                      /\ log[i].level = LevelFromStatus(wire[log[i].req].status)
    BY DEF AccessStatusIsSent
  <2>1. log[i].req \in Requests
    BY RecordRequest
  <2> QED BY <2>1 DEF AccessInv, RequestInv, RecordInv
<1> QED BY <1>1, <1>2, <1>3, PipelineTypeOK, PTL DEF Spec

---------------------------------------------------------------------------
(* What the client is answered and what the log says of it: the invariant.  *)

Early == {"idle", "access_log", "recover"}
Unanswered == Early \cup {"handler", "recovering", "answering", "answering_body"}
Recorded500 == {"write_failed", "logging", "finishing", "done"}
Logged == {"finishing", "aborting", "done"}

(* Every call reaches both recorders or neither, so they are never apart;
   they are new when the handler is called. *)
RecordersAgree(r) ==
    /\ inner[r] = outer[r]
    /\ pc[r] \in Early =>
           outer[r] = NewRecorder /\ wire[r].status = NoStatus /\ wire[r].body = {}
    /\ pc[r] \in Early \cup {"handler"} => panicked[r].value = "none"

(* RequestID's header is there before anything can commit it. *)
HeaderIsRid(r) ==
    /\ ~At(r, "idle") => wire[r].header = rid[r] /\ rid[r] # NoId
    /\ wire[r].status # NoStatus => wire[r].sentId = rid[r]

(* Nothing is in the body that inner does not know of, until Recover, which
   answers only if inner knows of nothing, has put its document there. *)
BodyInv(r) ==
    /\ pc[r] \in Unanswered => "error" \notin wire[r].body
    /\ wire[r].body # {} => inner[r].wroteHeader
    /\ At(r, "answering") => ~inner[r].wroteHeader
    /\ At(r, "answering_body") =>
           /\ wire[r].body = {}
           /\ inner[r].wroteHeader
           /\ \/ Hijacked(r)
              \/ wire[r].status = 500
              \/ "superfluous" \in wire[r].refused /\ wire[r].status # NoStatus
    /\ "error" \in wire[r].body =>
           /\ wire[r].body = {"error"}
           /\ wire[r].status = 500 \/ "superfluous" \in wire[r].refused

(* Without Flush a status line is written only under the recorders' eyes. *)
StatusLineInv(r) ==
    "Flush" \notin HandlerOps =>
        /\ "superfluous" \notin wire[r].refused
        /\ ~outer[r].wroteHeader /\ ~At(r, "done") => wire[r].status = NoStatus

(* A panic that Recover can print and that came before the response. *)
EarlyPanic(r) ==
    panicked[r].value = "plain" /\ panicked[r].sent = NoStatus /\ ~Bypassed(r)

PanicInv(r) ==
    /\ panicked[r].value = "plain" =>
           pc[r] \in {"recovering", "answering", "answering_body"} \cup Recorded500
    /\ EarlyPanic(r) =>
           /\ pc[r] \in {"recovering", "answering"} => wire[r].status = NoStatus
           /\ At(r, "answering_body") => wire[r].status = 500 /\ outer[r].status = 500
           /\ pc[r] \in Recorded500 => /\ wire[r].status = 500 /\ outer[r].status = 500
                                       /\ wire[r].body = {"error"}

ChainInv(r) ==
    RecordersAgree(r) /\ HeaderIsRid(r) /\ BodyInv(r) /\ StatusLineInv(r) /\ PanicInv(r)

(* A record is of a request that has its ID, and carries it. *)
LogIds == \A i \in DOMAIN log : ~At(log[i].req, "idle") /\ log[i].rid = rid[log[i].req]

HasRecord(r, kind) == \E i \in DOMAIN log : log[i].req = r /\ log[i].kind = kind

(* The access record is there, and comes last, once AccessLog's defer has run;
   Recover's is there once it has gone on from a panic it could print. *)
LogInv ==
    /\ LogIds
    /\ \A i, j \in DOMAIN log :
           i < j /\ log[i].req = log[j].req => log[i].kind # "access"
    /\ \A r \in Requests : pc[r] \in Logged => HasRecord(r, "access")
    /\ \A r \in Requests :
           panicked[r].value = "plain" /\ ~At(r, "recovering") => HasRecord(r, "panic")
    /\ \A i \in DOMAIN log : log[i].kind = "panic" => log[i].level = "ERROR"

(* Which generated IDs are in use. *)
IssuedBy(kind, n) == {<<kind, k>> : k \in 1 .. n}
IdInv ==
    /\ \A r \in Requests : rid[r] \in ValidHeaders \cup {NoId}
                               \cup IssuedBy("uuid", uuids) \cup IssuedBy("fallback", fallbackSeq)
    /\ GeneratedIdsDiffer

Inv == /\ TypeOK /\ AccessInv /\ LogInv /\ IdInv
       /\ \A r \in Requests : ChainInv(r)

---------------------------------------------------------------------------
(* What the calls of a response writer do to each of its fields.            *)

LEMMA CommitFields ==
  ASSUME NEW w \in Response, NEW code \in Codes
  PROVE  /\ Commit(w, code) \in Response
         /\ Commit(w, code).header = w.header /\ Commit(w, code).body = w.body
         /\ Commit(w, code).status = code /\ Commit(w, code).sentId = w.header
         /\ Commit(w, code).refused = w.refused
  BY DEF Commit, Response

LEMMA RefuseFields ==
  ASSUME NEW w \in Response, NEW why \in {"superfluous", "informational", "invalid"}
  PROVE  /\ Refuse(w, why) \in Response
         /\ Refuse(w, why).header = w.header /\ Refuse(w, why).body = w.body
         /\ Refuse(w, why).status = w.status /\ Refuse(w, why).sentId = w.sentId
         /\ Refuse(w, why).refused = w.refused \cup {why}
  BY DEF Refuse, Response

(* v is w, or w after it has been given the status code. *)
SameStatus(v, w) == v.status = w.status /\ v.sentId = w.sentId
Given(v, w, code) == v.status = code /\ v.sentId = w.header /\ v.refused = w.refused

LEMMA NetWriteHeaderFields ==
  ASSUME NEW w \in Response, NEW c, NEW code \in Codes, NEW v, v = NetWriteHeader(w, c, code)
  PROVE  /\ v \in Response /\ v.header = w.header /\ v.body = w.body
         /\ c = "hijacked" => v = w
         /\ c # "hijacked" /\ w.status # NoStatus =>
                SameStatus(v, w) /\ v.refused = w.refused \cup {"superfluous"}
         /\ c # "hijacked" /\ w.status = NoStatus =>
                \/ ~Invalid(code) /\ ~Informational(code) /\ Given(v, w, code)
                \/ Invalid(code) /\ SameStatus(v, w) /\ v.refused = w.refused \cup {"invalid"}
                \/ /\ ~Invalid(code) /\ Informational(code)
                   /\ SameStatus(v, w) /\ v.refused = w.refused \cup {"informational"}
<1>1. CASE c = "hijacked"
  BY <1>1 DEF NetWriteHeader
<1>2. CASE c # "hijacked" /\ w.status # NoStatus
  BY <1>2, RefuseFields DEF NetWriteHeader, SameStatus
<1>3. CASE c # "hijacked" /\ w.status = NoStatus
  BY <1>3, RefuseFields, CommitFields DEF NetWriteHeader, SameStatus, Given
<1> QED
  BY <1>1, <1>2, <1>3

LEMMA NetCommitFields ==
  ASSUME NEW w \in Response, NEW c, NEW v, v = NetCommit(w, c)
  PROVE  /\ v \in Response /\ v.header = w.header /\ v.body = w.body
         /\ v.refused = w.refused
         /\ c = "hijacked" \/ w.status # NoStatus => v = w
         /\ c # "hijacked" /\ w.status = NoStatus => Given(v, w, 200)
<1>1. 200 \in Codes
  BY DEF Codes
<1> QED
  BY <1>1, CommitFields DEF NetCommit, Given

LEMMA NetWriteFields ==
  ASSUME NEW w \in Response, NEW c, NEW content \in {"handler", "error"},
         NEW v, v = NetWrite(w, c, content)
  PROVE  /\ v \in Response /\ v.header = w.header /\ v.refused = w.refused
         /\ c = "hijacked" => v = w
         /\ c # "hijacked" => v.body = w.body \cup {content}
         /\ c # "hijacked" /\ w.status # NoStatus => SameStatus(v, w)
         /\ c # "hijacked" /\ w.status = NoStatus => Given(v, w, 200)
<1>1. CASE c = "hijacked"
  BY <1>1 DEF NetWrite
<1>2. CASE c # "hijacked"
  <2>1. PICK u : u = NetCommit(w, c)
    OBVIOUS
  <2>2. /\ u \in Response /\ u.header = w.header /\ u.body = w.body
        /\ u.refused = w.refused
        /\ w.status # NoStatus => u = w
        /\ w.status = NoStatus => Given(u, w, 200)
    BY <1>2, <2>1, NetCommitFields
  <2>3. v = [u EXCEPT !.body = @ \cup {content}]
    BY <1>2, <2>1 DEF NetWrite
  <2>4. /\ v \in Response /\ v.header = u.header /\ v.refused = u.refused
        /\ v.body = u.body \cup {content} /\ SameStatus(v, u)
    BY <2>2, <2>3 DEF Response, SameStatus
  <2> QED
    BY <1>2, <2>2, <2>4 DEF SameStatus, Given
<1> QED
  BY <1>1, <1>2

---------------------------------------------------------------------------
(* What the calls of the inner recorder do, when the recorders agree.       *)

LEMMA WriteHeaderDoes ==
  ASSUME TypeOK, NEW r \in Requests, inner[r] = outer[r], NEW code \in Codes,
         WriteHeader(r, code)
  PROVE  /\ inner'[r] = outer'[r] /\ outer'[r].wroteHeader
         /\ outer[r].wroteHeader => outer'[r] = outer[r] /\ wire'[r] = wire[r]
         /\ ~outer[r].wroteHeader =>
                /\ outer'[r].status = code
                /\ wire'[r] = NetWriteHeader(wire[r], conn[r], code)
<1>1. outer \in [Requests -> Recorder] /\ inner \in [Requests -> Recorder]
      /\ wire \in [Requests -> Response]
  BY DEF TypeOK
<1>2. CASE outer[r].wroteHeader
  BY <1>1, <1>2 DEF WriteHeader, Recorded
<1>3. CASE ~outer[r].wroteHeader
  BY <1>1, <1>3 DEF WriteHeader, Recorded
<1> QED
  BY <1>2, <1>3

LEMMA WriteDoes ==
  ASSUME TypeOK, NEW r \in Requests, inner[r] = outer[r],
         NEW content \in {"handler", "error"}, Write(r, content)
  PROVE  LET w == wire[r] v == wire'[r] IN
         /\ inner'[r] = outer'[r] /\ outer'[r].wroteHeader
         /\ outer[r].wroteHeader => outer'[r] = outer[r]
         /\ ~outer[r].wroteHeader => outer'[r].status = 200
         /\ v \in Response /\ v.header = w.header
         /\ conn[r] = "hijacked" => v = w
         /\ conn[r] # "hijacked" => v.body = w.body \cup {content}
         /\ conn[r] # "hijacked" /\ w.status = NoStatus => Given(v, w, 200)
         /\ conn[r] # "hijacked" /\ w.status # NoStatus =>
                /\ SameStatus(v, w)
                /\ v.refused = IF outer[r].wroteHeader THEN w.refused
                               ELSE w.refused \cup {"superfluous"}
<1> DEFINE w == wire[r]
           v == wire'[r]
<1>1. /\ outer \in [Requests -> Recorder] /\ inner \in [Requests -> Recorder]
      /\ wire \in [Requests -> Response] /\ w \in Response /\ 200 \in Codes
  BY DEF TypeOK, Codes
<1>2. /\ inner'[r] = outer'[r] /\ outer'[r].wroteHeader
      /\ outer[r].wroteHeader => outer'[r] = outer[r]
      /\ ~outer[r].wroteHeader => outer'[r].status = 200
  BY <1>1 DEF Write, Recorded
<1>3. PICK u : /\ u = IF outer[r].wroteHeader THEN w ELSE NetWriteHeader(w, conn[r], 200)
               /\ v = NetWrite(u, conn[r], content)
  BY <1>1 DEF Write
<1>4. ~Invalid(200) /\ ~Informational(200) /\ 200 # NoStatus
  BY DEF Invalid, Informational, NoStatus
<1>5. CASE outer[r].wroteHeader
  BY <1>1, <1>2, <1>3, <1>5, NetWriteFields
<1>6. CASE ~outer[r].wroteHeader
  <2>1. /\ u \in Response /\ u.header = w.header /\ u.body = w.body
        /\ conn[r] = "hijacked" => u = w
        /\ conn[r] # "hijacked" /\ w.status # NoStatus =>
               SameStatus(u, w) /\ u.refused = w.refused \cup {"superfluous"}
        /\ conn[r] # "hijacked" /\ w.status = NoStatus => Given(u, w, 200)
    BY <1>1, <1>3, <1>4, <1>6, NetWriteHeaderFields
  <2>2. /\ v \in Response /\ v.header = u.header /\ v.refused = u.refused
        /\ conn[r] = "hijacked" => v = u
        /\ conn[r] # "hijacked" => v.body = u.body \cup {content}
        /\ conn[r] # "hijacked" /\ u.status # NoStatus => SameStatus(v, u)
        /\ conn[r] # "hijacked" /\ u.status = NoStatus => Given(v, u, 200)
    BY <1>3, <2>1, NetWriteFields
  <2> QED
    BY <1>2, <1>4, <1>6, <2>1, <2>2 DEF SameStatus, Given
<1> QED
  BY <1>5, <1>6

---------------------------------------------------------------------------
(* Each step of a request keeps ChainInv of that request.                   *)

LEMMA Sorts ==
  ASSUME TypeOK, NEW r \in Requests
  PROVE  /\ wire \in [Requests -> Response] /\ wire[r] \in Response
         /\ wire[r].body \subseteq {"handler", "error"}
         /\ outer \in [Requests -> Recorder] /\ inner \in [Requests -> Recorder]
         /\ outer[r] \in Recorder /\ outer[r].status # NoStatus
         /\ conn \in [Requests -> {"open", "gone", "hijacked", "aborted"}]
         /\ pc \in [Requests -> Places] /\ rid \in [Requests -> RequestIDs \cup {NoId}]
         /\ panicked \in [Requests -> [value : {"none", "plain", "unprintable"},
                                       sent : Codes \cup {NoStatus}]]
         /\ 200 \in Codes /\ 500 \in Codes
<1>1. NoStatus \notin Codes
  BY HandlerAssumption DEF Codes, NoStatus
<1> QED
  BY <1>1 DEF TypeOK, Response, Recorder, Codes

LEMMA ArrivalChain ==
  ASSUME TypeOK, NEW r \in Requests, ChainInv(r), RequestInv(r), RequestID(r)
  PROVE  ChainInv(r)'
<1>1. /\ pc[r] = "idle" /\ pc'[r] = "access_log"
      /\ UNCHANGED <<inner, outer, conn, panicked>>
  BY Sorts DEF RequestID, Goto, At
<1>2. PICK id \in RequestIDs : wire' = [wire EXCEPT ![r].header = id] /\ rid'[r] = id
  <2>1. PICK id, rejected : id \in RequestIDs /\ Identify(r, id, rejected)
    <3>1. <<"uuid", uuids + 1>> \in RequestIDs /\ <<"fallback", fallbackSeq + 1>> \in RequestIDs
      BY DEF RequestIDs, Generated, TypeOK
    <3>2. ASSUME NEW rejected, NewRequestID(r, rejected)
          PROVE  \E id \in RequestIDs : Identify(r, id, rejected)
      BY <3>1, <3>2 DEF NewRequestID, UuidV7, FallbackID
    <3> QED
      BY <3>2 DEF RequestID, RequestIDs
  <2> QED
    BY <2>1, Sorts DEF Identify
<1>3. /\ wire'[r].header = id /\ wire'[r].status = wire[r].status
      /\ wire'[r].body = wire[r].body /\ wire'[r].refused = wire[r].refused
  BY <1>2, Sorts DEF Response
<1>4. id # NoId
  BY HeadersAssumption DEF RequestIDs, Generated, NoId
<1>5. wire[r].status = NoStatus /\ wire[r].body = {}
  BY <1>1 DEF ChainInv, RecordersAgree, Early
<1> QED
  BY <1>1, <1>2, <1>3, <1>4, <1>5
  DEF ChainInv, RecordersAgree, HeaderIsRid, BodyInv, StatusLineInv, PanicInv, EarlyPanic,
      Bypassed, Early, Unanswered, Recorded500, At, Hijacked

(* The two middlewares on the way in. *)
LEMMA WrapChain ==
  ASSUME TypeOK, NEW r \in Requests, ChainInv(r), AccessLog(r) \/ Recover(r)
  PROVE  ChainInv(r)'
<1>1. /\ pc[r] \in {"access_log", "recover"} /\ pc'[r] \in {"recover", "handler"}
      /\ inner'[r] = NewRecorder /\ outer'[r] = NewRecorder
      /\ wire' = wire /\ conn' = conn /\ panicked' = panicked /\ rid' = rid
  BY Sorts DEF AccessLog, Recover, Goto, At, ChainInv, RecordersAgree, Early, ids
<1> QED
  BY <1>1
  DEF ChainInv, RecordersAgree, HeaderIsRid, BodyInv, StatusLineInv, PanicInv, EarlyPanic,
      Bypassed, Early, Unanswered, Recorded500, At, Hijacked

LEMMA HandlerWritesHeaderChain ==
  ASSUME TypeOK, NEW r \in Requests, ChainInv(r), HandlerWritesHeader(r)
  PROVE  ChainInv(r)'
<1>1. PICK code \in Codes : WriteHeader(r, code)
  BY DEF HandlerWritesHeader, Codes
<1>2. inner[r] = outer[r]
  BY DEF ChainInv, RecordersAgree
<1>3. /\ pc[r] = "handler" /\ conn' = conn /\ rid' = rid
      /\ \/ pc'[r] = "handler" /\ panicked'[r] = panicked[r]
         \/ /\ pc'[r] = "recovering" /\ panicked'[r].value = "plain"
            /\ "invalid" \in wire'[r].refused
  BY Sorts DEF HandlerWritesHeader, Calls, Raise, Goto, At, ids
<1>4. /\ inner'[r] = outer'[r] /\ outer'[r].wroteHeader
      /\ outer[r].wroteHeader => outer'[r] = outer[r] /\ wire'[r] = wire[r]
      /\ ~outer[r].wroteHeader => wire'[r] = NetWriteHeader(wire[r], conn[r], code)
  BY <1>1, <1>2, WriteHeaderDoes
<1>5. CASE outer[r].wroteHeader
  BY <1>2, <1>3, <1>4, <1>5
  DEF ChainInv, RecordersAgree, HeaderIsRid, BodyInv, StatusLineInv, PanicInv, EarlyPanic,
      Bypassed, Early, Unanswered, Recorded500, At, Hijacked
<1>6. CASE ~outer[r].wroteHeader
  <2>1. /\ wire'[r].header = wire[r].header /\ wire'[r].body = wire[r].body
        /\ wire[r].refused \subseteq wire'[r].refused
        /\ SameStatus(wire'[r], wire[r]) \/ Given(wire'[r], wire[r], code)
        /\ wire[r].status = NoStatus /\ "superfluous" \notin wire[r].refused =>
               "superfluous" \notin wire'[r].refused
    BY <1>4, <1>6, Sorts, NetWriteHeaderFields DEF SameStatus, Given
  <2> QED
    BY <1>2, <1>3, <1>4, <1>6, <2>1
    DEF ChainInv, RecordersAgree, HeaderIsRid, BodyInv, StatusLineInv, PanicInv, EarlyPanic,
        Bypassed, Early, Unanswered, Recorded500, At, Hijacked, SameStatus, Given
<1> QED
  BY <1>5, <1>6

LEMMA HandlerWritesChain ==
  ASSUME TypeOK, NEW r \in Requests, ChainInv(r), HandlerWrites(r)
  PROVE  ChainInv(r)'
<1>1. inner[r] = outer[r]
  BY DEF ChainInv, RecordersAgree
<1>2. pc[r] = "handler" /\ UNCHANGED <<pc, conn, rid, panicked>> /\ Write(r, "handler")
  BY DEF HandlerWrites, Calls, At, ids
<1>3. /\ inner'[r] = outer'[r] /\ outer'[r].wroteHeader
      /\ wire'[r].header = wire[r].header
      /\ wire'[r].body \subseteq wire[r].body \cup {"handler"}
      /\ SameStatus(wire'[r], wire[r]) \/ Given(wire'[r], wire[r], 200)
      /\ "superfluous" \in wire'[r].refused =>
             \/ "superfluous" \in wire[r].refused
             \/ ~outer[r].wroteHeader /\ wire[r].status # NoStatus
  BY <1>1, <1>2, WriteDoes DEF SameStatus, Given
<1> QED
  BY <1>1, <1>2, <1>3
  DEF ChainInv, RecordersAgree, HeaderIsRid, BodyInv, StatusLineInv, PanicInv, EarlyPanic,
      Bypassed, Early, Unanswered, Recorded500, At, Hijacked, SameStatus, Given

LEMMA HandlerFlushesChain ==
  ASSUME TypeOK, NEW r \in Requests, ChainInv(r), HandlerFlushes(r)
  PROVE  ChainInv(r)'
<1>1. /\ pc[r] = "handler" /\ UNCHANGED <<pc, conn, rid, panicked, inner, outer>>
      /\ wire'[r] = NetCommit(wire[r], conn[r]) /\ "Flush" \in HandlerOps
  BY Sorts DEF HandlerFlushes, Calls, At, ids, Flush
<1>2. /\ wire'[r].header = wire[r].header /\ wire'[r].body = wire[r].body
      /\ wire'[r].refused = wire[r].refused
      /\ SameStatus(wire'[r], wire[r]) \/ Given(wire'[r], wire[r], 200)
  BY <1>1, Sorts, NetCommitFields DEF SameStatus
<1> QED
  BY <1>1, <1>2
  DEF ChainInv, RecordersAgree, HeaderIsRid, BodyInv, StatusLineInv, PanicInv, EarlyPanic,
      Bypassed, Early, Unanswered, Recorded500, At, Hijacked, SameStatus, Given

(* What the handler does to anything but the response. *)
LEMMA HandlerMovesChain ==
  ASSUME TypeOK, NEW r \in Requests, ChainInv(r),
         HandlerHijacks(r) \/ HandlerPanics(r) \/ HandlerReturns(r)
  PROVE  ChainInv(r)'
<1>1. /\ pc[r] = "handler" /\ UNCHANGED <<rid, inner, outer, wire>>
      /\ conn'[r] = conn[r] \/ conn'[r] = "hijacked"
      /\ \/ pc'[r] \in {"handler", "logging"} /\ panicked'[r] = panicked[r]
         \/ /\ pc'[r] = "recovering" /\ panicked'[r].value \in {"plain", "unprintable"}
            /\ panicked'[r].sent = wire[r].status
  BY Sorts DEF HandlerHijacks, HandlerPanics, HandlerReturns, Calls, At, ids, response, Raise,
               Goto
<1> QED
  BY <1>1
  DEF ChainInv, RecordersAgree, HeaderIsRid, BodyInv, StatusLineInv, PanicInv, EarlyPanic,
      Bypassed, Early, Unanswered, Recorded500, At, Hijacked

(* Recover goes on to answer only if nothing is in the way. *)
LEMMA RecoverLogsChain ==
  ASSUME TypeOK, NEW r \in Requests, ChainInv(r), Agree(r), RecoverLogs(r)
  PROVE  ChainInv(r)'
<1>1. /\ pc[r] = "recovering" /\ UNCHANGED <<rid, inner, outer, wire, conn, panicked>>
      /\ \/ panicked[r].value = "unprintable" /\ pc'[r] = "unwinding"
         \/ inner[r].wroteHeader /\ pc'[r] = "logging"
         \/ ~inner[r].wroteHeader /\ pc'[r] = "answering"
  BY Sorts DEF RecoverLogs, AlreadyWritten, At, ids, response, Goto
<1>2. ~Bypassed(r) /\ inner[r].wroteHeader => wire[r].status # NoStatus
  BY Sorts DEF ChainInv, RecordersAgree, Agree
<1> QED
  BY <1>1, <1>2
  DEF ChainInv, RecordersAgree, HeaderIsRid, BodyInv, StatusLineInv, PanicInv, EarlyPanic,
      Bypassed, Early, Unanswered, Recorded500, At, Hijacked

LEMMA RecoverWritesHeaderChain ==
  ASSUME TypeOK, NEW r \in Requests, ChainInv(r), RecoverWritesHeader(r)
  PROVE  ChainInv(r)'
<1>1. /\ pc[r] = "answering" /\ pc'[r] = "answering_body" /\ WriteHeader(r, 500)
      /\ UNCHANGED <<rid, conn, panicked>>
  BY Sorts DEF RecoverWritesHeader, Goto, At, ids
<1>2. inner[r] = outer[r] /\ ~outer[r].wroteHeader /\ wire[r].body = {}
  BY <1>1 DEF ChainInv, RecordersAgree, BodyInv, At
<1>3. /\ inner'[r] = outer'[r] /\ outer'[r].wroteHeader /\ outer'[r].status = 500
      /\ wire'[r] = NetWriteHeader(wire[r], conn[r], 500)
  BY <1>1, <1>2, Sorts, WriteHeaderDoes
<1>4. ~Invalid(500) /\ ~Informational(500) /\ 500 # NoStatus
  BY DEF Invalid, Informational, NoStatus
<1>5. /\ wire'[r].header = wire[r].header /\ wire'[r].body = wire[r].body
      /\ SameStatus(wire'[r], wire[r]) \/ Given(wire'[r], wire[r], 500)
      /\ wire[r].refused \subseteq wire'[r].refused
      /\ wire[r].status = NoStatus /\ "superfluous" \notin wire[r].refused =>
             "superfluous" \notin wire'[r].refused
      /\ conn[r] # "hijacked" /\ wire[r].status = NoStatus => wire'[r].status = 500
      /\ conn[r] # "hijacked" /\ wire[r].status # NoStatus =>
             wire'[r].status = wire[r].status /\ "superfluous" \in wire'[r].refused
  BY <1>3, <1>4, Sorts, NetWriteHeaderFields DEF SameStatus, Given
<1> QED
  BY <1>1, <1>2, <1>3, <1>4, <1>5
  DEF ChainInv, RecordersAgree, HeaderIsRid, BodyInv, StatusLineInv, PanicInv, EarlyPanic,
      Bypassed, Early, Unanswered, Recorded500, At, Hijacked, SameStatus, Given

LEMMA RecoverWritesBodyChain ==
  ASSUME TypeOK, NEW r \in Requests, ChainInv(r), RecoverWritesBody(r)
  PROVE  ChainInv(r)'
<1>1. /\ pc[r] = "answering_body" /\ pc'[r] \in {"logging", "write_failed"}
      /\ Write(r, "error") /\ UNCHANGED <<rid, conn, panicked>>
  BY Sorts DEF RecoverWritesBody, Goto, At, ids
<1>2. inner[r] = outer[r] /\ outer[r].wroteHeader /\ wire[r].body = {}
      /\ (conn[r] = "hijacked" \/ wire[r].status # NoStatus)
  BY <1>1 DEF ChainInv, RecordersAgree, BodyInv, At, Hijacked, NoStatus
<1>3. /\ inner'[r] = outer'[r] /\ outer'[r] = outer[r]
      /\ wire'[r].header = wire[r].header
      /\ conn[r] = "hijacked" => wire'[r] = wire[r]
      /\ conn[r] # "hijacked" => /\ wire'[r].body = {"error"}
                                 /\ SameStatus(wire'[r], wire[r])
                                 /\ wire'[r].refused = wire[r].refused
  BY <1>1, <1>2, WriteDoes
<1>4. CASE conn[r] = "hijacked"
  BY <1>1, <1>2, <1>3, <1>4
  DEF ChainInv, RecordersAgree, HeaderIsRid, BodyInv, StatusLineInv, PanicInv, EarlyPanic,
      Bypassed, Early, Unanswered, Recorded500, At, Hijacked
<1>5. CASE conn[r] # "hijacked"
  BY <1>1, <1>2, <1>3, <1>5
  DEF ChainInv, RecordersAgree, HeaderIsRid, BodyInv, StatusLineInv, PanicInv, EarlyPanic,
      Bypassed, Early, Unanswered, Recorded500, At, Hijacked, SameStatus
<1> QED
  BY <1>4, <1>5

(* The steps after the answer, and the client's. *)
LEMMA AfterAnswerChain ==
  ASSUME TypeOK, NEW r \in Requests, ChainInv(r),
         \/ RecoverLogsWriteError(r) \/ AccessLogRecords(r) \/ NetAborts(r) \/ ClientLeaves(r)
  PROVE  ChainInv(r)'
<1>1. /\ UNCHANGED <<rid, inner, outer, wire, panicked>>
      /\ \/ pc[r] = "write_failed" /\ pc'[r] = "logging" /\ conn'[r] = conn[r]
         \/ pc[r] = "logging" /\ pc'[r] = "finishing" /\ conn'[r] = conn[r]
         \/ pc[r] = "unwinding" /\ pc'[r] = "aborting" /\ conn'[r] = conn[r]
         \/ /\ pc[r] = "aborting" /\ pc'[r] = "done"
            /\ conn'[r] \in {"hijacked", "aborted"}
         \/ pc'[r] = pc[r] /\ conn[r] = "open" /\ conn'[r] = "gone"
  BY Sorts DEF RecoverLogsWriteError, AccessLogRecords, NetAborts, ClientLeaves, At, ids,
               response, Goto, Hijacked
<1> QED
  BY <1>1
  DEF ChainInv, RecordersAgree, HeaderIsRid, BodyInv, StatusLineInv, PanicInv, EarlyPanic,
      Bypassed, Early, Unanswered, Recorded500, At, Hijacked

LEMMA FinishChain ==
  ASSUME TypeOK, NEW r \in Requests, ChainInv(r), NetFinishes(r)
  PROVE  ChainInv(r)'
<1>1. /\ pc[r] = "finishing" /\ pc'[r] = "done"
      /\ UNCHANGED <<rid, inner, outer, conn, panicked>>
      /\ wire'[r] = NetCommit(wire[r], conn[r])
  BY Sorts DEF NetFinishes, Goto, At, ids
<1>2. /\ wire'[r].header = wire[r].header /\ wire'[r].body = wire[r].body
      /\ wire'[r].refused = wire[r].refused
      /\ wire[r].status # NoStatus => SameStatus(wire'[r], wire[r])
      /\ SameStatus(wire'[r], wire[r]) \/ Given(wire'[r], wire[r], 200)
  BY <1>1, Sorts, NetCommitFields DEF SameStatus
<1> QED
  BY <1>1, <1>2
  DEF ChainInv, RecordersAgree, HeaderIsRid, BodyInv, StatusLineInv, PanicInv, EarlyPanic,
      Bypassed, Early, Unanswered, Recorded500, At, Hijacked, SameStatus, Given, NoStatus

LEMMA ChainStep ==
  ASSUME TypeOK, NEW r \in Requests, ChainInv(r), RequestInv(r),
         RequestID(r) \/ Serve(r) \/ ClientLeaves(r)
  PROVE  ChainInv(r)'
  BY ArrivalChain, WrapChain, HandlerWritesHeaderChain, HandlerWritesChain,
     HandlerFlushesChain, HandlerMovesChain, RecoverLogsChain, RecoverWritesHeaderChain,
     RecoverWritesBodyChain, AfterAnswerChain, FinishChain
  DEF Serve, RequestInv

(* A step of one request leaves every other request's ChainInv alone. *)
LEMMA OtherChains ==
  ASSUME TypeOK, NEW r \in Requests, NEW s \in Requests, s # r,
         RequestID(r) \/ Serve(r) \/ ClientLeaves(r)
  PROVE  /\ pc'[s] = pc[s] /\ rid'[s] = rid[s] /\ panicked'[s] = panicked[s]
         /\ ChainInv(s) => ChainInv(s)'
<1> USE DEF TypeOK, Goto, ids, response
<1>1. inner'[s] = inner[s] /\ rid'[s] = rid[s] /\ panicked'[s] = panicked[s]
  <2>1. CASE RequestID(r)
    BY <2>1 DEF RequestID, Identify, NewRequestID, UuidV7, FallbackID
  <2>2. CASE AccessLog(r) \/ Recover(r)
    BY <2>2 DEF AccessLog, Recover
  <2>3. CASE HandlerWritesHeader(r)
    BY <2>3 DEF HandlerWritesHeader, WriteHeader, Raise
  <2>4. CASE HandlerWrites(r) \/ HandlerFlushes(r) \/ HandlerHijacks(r)
    BY <2>4 DEF HandlerWrites, HandlerFlushes, HandlerHijacks, Write, Flush
  <2>5. CASE HandlerPanics(r) \/ HandlerReturns(r)
    BY <2>5 DEF HandlerPanics, HandlerReturns, Raise
  <2>6. CASE RecoverLogs(r) \/ RecoverLogsWriteError(r) \/ AccessLogRecords(r)
    BY <2>6 DEF RecoverLogs, RecoverLogsWriteError, AccessLogRecords
  <2>7. CASE RecoverWritesHeader(r) \/ RecoverWritesBody(r)
    BY <2>7 DEF RecoverWritesHeader, WriteHeader, RecoverWritesBody, Write
  <2>8. CASE NetFinishes(r) \/ NetAborts(r) \/ ClientLeaves(r)
    BY <2>8 DEF NetFinishes, NetAborts, ClientLeaves
  <2> QED
    BY <2>1, <2>2, <2>3, <2>4, <2>5, <2>6, <2>7, <2>8 DEF Serve
<1>2. pc'[s] = pc[s] /\ outer'[s] = outer[s] /\ wire'[s] = wire[s] /\ conn'[s] = conn[s]
  BY Frame
<1> QED
  BY <1>1, <1>2
  DEF ChainInv, RecordersAgree, HeaderIsRid, BodyInv, StatusLineInv, PanicInv, EarlyPanic,
      Bypassed, At, Hijacked

---------------------------------------------------------------------------
(* The log.                                                                 *)

(* e is what a step of r, if it logs, adds to the log. *)
Added(r, e) ==
    /\ log' = Append(log, e)
    /\ e \in LogRecord
    /\ e.req = r /\ e.rid = rid[r]
    /\ pc[r] \notin Logged \cup {"idle"}
    /\ e.kind = "access" <=> AccessLogRecords(r)
    /\ RecoverLogs(r) => e.kind = "panic"
    /\ e.kind = "panic" => e.level = "ERROR"

LEMMA LogGrows ==
  ASSUME TypeOK, NEW r \in Requests, RequestID(r) \/ Serve(r) \/ ClientLeaves(r)
  PROVE  \/ log' = log /\ ~AccessLogRecords(r)
                       /\ (RecoverLogs(r) => panicked[r].value = "unprintable")
         \/ \E e : Added(r, e)
<1>1. ASSUME NEW kind \in {"panic", "write_error", "access"},
             NEW level \in {"INFO", "WARN", "ERROR"}, NEW status \in Codes \cup {NoStatus},
             Emit(r, kind, level, status)
      PROVE  \E e : /\ log' = Append(log, e) /\ e \in LogRecord
                    /\ e.req = r /\ e.rid = rid[r]
                    /\ e.kind = kind /\ e.level = level
  <2>1. Entry(r, kind, level, status) \in LogRecord
    BY DEF TypeOK, LogRecord, Entry
  <2>2. /\ Entry(r, kind, level, status).req = r
        /\ Entry(r, kind, level, status).rid = rid[r]
        /\ Entry(r, kind, level, status).kind = kind
        /\ Entry(r, kind, level, status).level = level
    BY DEF Entry
  <2> QED
    BY <1>1, <2>1, <2>2 DEF Emit
<1>2. /\ inner[r].status \in Codes /\ outer[r].status \in Codes
      /\ LevelFromStatus(outer[r].status) \in {"INFO", "WARN", "ERROR"}
  BY DEF TypeOK, Recorder, LevelFromStatus
<1>3. RecoverLogs(r) => ~AccessLogRecords(r) /\ pc[r] = "recovering"
  BY DEF RecoverLogs, AccessLogRecords, At
<1>4. CASE RecoverLogs(r) /\ panicked[r].value = "unprintable"
  BY <1>3, <1>4 DEF RecoverLogs
<1>5. CASE RecoverLogs(r) /\ panicked[r].value # "unprintable"
  <2>1. PICK status \in Codes \cup {NoStatus} : Emit(r, "panic", "ERROR", status)
    BY <1>2, <1>5 DEF RecoverLogs
  <2>2. PICK e : /\ log' = Append(log, e) /\ e \in LogRecord
                 /\ e.req = r /\ e.rid = rid[r]
                 /\ e.kind = "panic" /\ e.level = "ERROR"
    BY <1>1, <2>1
  <2>3. Added(r, e)
    BY <1>3, <1>5, <2>2 DEF Added, Logged
  <2> QED
    BY <2>3
<1>6. CASE RecoverLogsWriteError(r)
  <2>1. PICK e : /\ log' = Append(log, e) /\ e \in LogRecord
                 /\ e.req = r /\ e.rid = rid[r]
                 /\ e.kind = "write_error" /\ e.level = "ERROR"
    BY <1>1, <1>6 DEF RecoverLogsWriteError
  <2>2. pc[r] = "write_failed" /\ ~AccessLogRecords(r) /\ ~RecoverLogs(r)
    BY <1>6 DEF RecoverLogsWriteError, AccessLogRecords, RecoverLogs, At
  <2>3. Added(r, e)
    BY <2>1, <2>2 DEF Added, Logged
  <2> QED
    BY <2>3
<1>7. CASE AccessLogRecords(r)
  <2>1. PICK e : /\ log' = Append(log, e) /\ e \in LogRecord
                 /\ e.req = r /\ e.rid = rid[r]
                 /\ e.kind = "access" /\ e.level = LevelFromStatus(outer[r].status)
    BY <1>1, <1>2, <1>7 DEF AccessLogRecords
  <2>2. pc[r] \in {"logging", "unwinding"} /\ ~RecoverLogs(r)
    BY <1>7 DEF AccessLogRecords, RecoverLogs, At
  <2>3. Added(r, e)
    BY <1>7, <2>1, <2>2 DEF Added, Logged
  <2> QED
    BY <2>3
<1>8. CASE ~RecoverLogs(r) /\ ~RecoverLogsWriteError(r) /\ ~AccessLogRecords(r)
  BY <1>8
  DEF Serve, RequestID, AccessLog, Recover, HandlerWritesHeader, HandlerWrites,
      HandlerFlushes, HandlerHijacks, HandlerPanics, HandlerReturns,
      RecoverWritesHeader, RecoverWritesBody, NetFinishes, NetAborts, ClientLeaves
<1> QED
  BY <1>4, <1>5, <1>6, <1>7, <1>8

(* How a request comes to the places LogInv speaks of. *)
LEMMA LogPlaces ==
  ASSUME TypeOK, NEW r \in Requests, RequestID(r) \/ Serve(r) \/ ClientLeaves(r)
  PROVE  /\ pc'[r] # "idle" /\ (pc[r] # "idle" => rid'[r] = rid[r])
         /\ pc'[r] \in Logged => pc[r] \in Logged \/ AccessLogRecords(r)
         /\ panicked'[r].value = "plain" /\ pc'[r] # "recovering" =>
                /\ panicked[r].value = "plain"
                /\ pc[r] # "recovering" \/ RecoverLogs(r)
<1> USE Sorts DEF Logged, At, Goto, ids, response
<1>1. CASE RequestID(r) \/ AccessLog(r) \/ Recover(r)
  BY <1>1 DEF RequestID, AccessLog, Recover
<1>2. CASE HandlerWritesHeader(r) \/ HandlerPanics(r)
  BY <1>2 DEF HandlerWritesHeader, HandlerPanics, Calls, Raise
<1>3. CASE HandlerWrites(r) \/ HandlerFlushes(r) \/ HandlerHijacks(r) \/ HandlerReturns(r)
  BY <1>3 DEF HandlerWrites, HandlerFlushes, HandlerHijacks, HandlerReturns, Calls
<1>4. CASE RecoverLogs(r) \/ RecoverLogsWriteError(r) \/ AccessLogRecords(r)
  BY <1>4 DEF RecoverLogs, RecoverLogsWriteError, AccessLogRecords
<1>5. CASE RecoverWritesHeader(r) \/ RecoverWritesBody(r)
  BY <1>5 DEF RecoverWritesHeader, RecoverWritesBody
<1>6. CASE NetFinishes(r) \/ NetAborts(r) \/ ClientLeaves(r)
  BY <1>6 DEF NetFinishes, NetAborts, ClientLeaves
<1> QED
  BY <1>1, <1>2, <1>3, <1>4, <1>5, <1>6 DEF Serve

LEMMA OldRecord ==
  ASSUME TypeOK, NEW e \in LogRecord, log' = Append(log, e)
  PROVE  /\ Len(log) \in Nat /\ DOMAIN log = 1 .. Len(log)
         /\ DOMAIN log' = 1 .. (Len(log) + 1)
         /\ \A i \in DOMAIN log : log'[i] = log[i]
         /\ log'[Len(log) + 1] = e
<1>1. log \in Seq(LogRecord)
  BY DEF TypeOK
<1>2. /\ Append(log, e) \in Seq(LogRecord)
      /\ Len(Append(log, e)) = Len(log) + 1
      /\ \A i \in 1 .. Len(log) : Append(log, e)[i] = log[i]
      /\ Append(log, e)[Len(log) + 1] = e
  BY <1>1, AppendProperties
<1>3. Len(log) \in Nat /\ DOMAIN log = 1 .. Len(log)
      /\ DOMAIN Append(log, e) = 1 .. Len(Append(log, e))
  BY <1>1, <1>2, LenProperties
<1> QED
  BY <1>2, <1>3

(* A record that was there stays there. *)
LEMMA RecordsStay ==
  ASSUME TypeOK, NEW r \in Requests, RequestID(r) \/ Serve(r) \/ ClientLeaves(r),
         NEW s, NEW kind, HasRecord(s, kind)
  PROVE  HasRecord(s, kind)'
<1>1. CASE log' = log
  BY <1>1 DEF HasRecord
<1>2. CASE \E e : Added(r, e)
  <2>1. PICK e : Added(r, e)
    BY <1>2
  <2>2. /\ Len(log) \in Nat /\ DOMAIN log = 1 .. Len(log)
        /\ DOMAIN log' = 1 .. (Len(log) + 1)
        /\ \A i \in DOMAIN log : log'[i] = log[i]
    BY <2>1, OldRecord DEF Added
  <2>3. PICK i \in DOMAIN log : log[i].req = s /\ log[i].kind = kind
    BY DEF HasRecord
  <2>4. i \in DOMAIN log' /\ log'[i].req = s /\ log'[i].kind = kind
    BY <2>2, <2>3
  <2> QED
    BY <2>4 DEF HasRecord
<1> QED
  BY <1>1, <1>2, LogGrows

LEMMA NewRecord ==
  ASSUME TypeOK, NEW r \in Requests, NEW e, Added(r, e)
  PROVE  HasRecord(r, e.kind)'
<1>1. /\ Len(log) \in Nat /\ DOMAIN log' = 1 .. (Len(log) + 1)
      /\ log'[Len(log) + 1] = e /\ e.req = r
  BY OldRecord DEF Added
<1>2. Len(log) + 1 \in DOMAIN log'
  BY <1>1
<1> QED
  BY <1>1, <1>2 DEF HasRecord

LEMMA LogInvStep ==
  ASSUME TypeOK, AccessInv, LogInv, NEW r \in Requests,
         RequestID(r) \/ Serve(r) \/ ClientLeaves(r)
  PROVE  LogInv'
<1>1. \A q \in Requests : /\ pc[q] # "idle" => pc'[q] # "idle" /\ rid'[q] = rid[q]
                          /\ q # r => /\ pc'[q] = pc[q] /\ panicked'[q] = panicked[q]
  BY LogPlaces, OtherChains
<1>2. \A i \in DOMAIN log : log[i].req \in Requests
  BY RecordRequest
<1>3. LogIds' /\ (\A i, j \in DOMAIN log' :
           i < j /\ log'[i].req = log'[j].req => log'[i].kind # "access")
      /\ (\A i \in DOMAIN log' : log'[i].kind = "panic" => log'[i].level = "ERROR")
  <2>1. CASE log' = log
    BY <1>1, <1>2, <2>1 DEF LogInv, LogIds, At
  <2>2. CASE \E e : Added(r, e)
    <3>1. PICK e : Added(r, e)
      BY <2>2
    <3>2. /\ Len(log) \in Nat /\ DOMAIN log = 1 .. Len(log)
          /\ DOMAIN log' = 1 .. (Len(log) + 1)
          /\ \A i \in DOMAIN log : log'[i] = log[i]
          /\ log'[Len(log) + 1] = e
      BY <3>1, OldRecord DEF Added
    <3>3. \A i \in DOMAIN log' : \/ i \in DOMAIN log /\ log'[i] = log[i]
                                 \/ i = Len(log) + 1 /\ log'[i] = e
      BY <3>2
    <3>4. /\ e.req = r /\ e.rid = rid[r] /\ pc[r] # "idle" /\ pc[r] \notin Logged
          /\ e.kind = "panic" => e.level = "ERROR"
      BY <3>1 DEF Added
    <3>5. ASSUME NEW i \in DOMAIN log'
          PROVE  pc'[log'[i].req] # "idle" /\ log'[i].rid = rid'[log'[i].req]
      <4>1. CASE i \in DOMAIN log /\ log'[i] = log[i]
        BY <1>1, <1>2, <4>1 DEF LogInv, LogIds, At
      <4>2. CASE log'[i] = e
        BY <1>1, <3>4, <4>2
      <4> QED
        BY <3>3, <4>1, <4>2
    <3>6. ASSUME NEW i \in DOMAIN log', NEW j \in DOMAIN log', i < j,
                 log'[i].req = log'[j].req
          PROVE  log'[i].kind # "access"
      <4>1. i \in DOMAIN log /\ log'[i] = log[i]
        BY <3>2, <3>3, <3>6
      <4>2. CASE j \in DOMAIN log /\ log'[j] = log[j]
        BY <3>6, <4>1, <4>2 DEF LogInv
      <4>3. CASE log'[j] = e
        <5>1. log[i].req = r
          BY <3>4, <3>6, <4>1, <4>3
        <5>2. log[i].kind = "access" => pc[r] \in Logged
          BY <4>1, <5>1 DEF AccessInv, RecordInv, Logged
        <5> QED
          BY <3>4, <4>1, <5>2
      <4> QED
        BY <3>3, <4>2, <4>3
    <3>7. \A i \in DOMAIN log' : log'[i].kind = "panic" => log'[i].level = "ERROR"
      BY <3>3, <3>4 DEF LogInv
    <3> QED
      BY <3>5, <3>6, <3>7 DEF LogIds, At
  <2> QED
    BY <2>1, <2>2, LogGrows
<1>4. ASSUME NEW q \in Requests, pc'[q] \in Logged PROVE HasRecord(q, "access")'
  <2>1. CASE pc[q] \in Logged
    BY <2>1, RecordsStay DEF LogInv
  <2>2. CASE pc[q] \notin Logged
    <3>1. q = r /\ AccessLogRecords(r)
      BY <1>1, <1>4, <2>2, LogPlaces
    <3>2. PICK e : Added(r, e)
      BY <3>1, LogGrows
    <3>3. e.kind = "access"
      BY <3>1, <3>2 DEF Added
    <3> QED
      BY <3>1, <3>2, <3>3, NewRecord
  <2> QED
    BY <2>1, <2>2
<1>5. ASSUME NEW q \in Requests, panicked'[q].value = "plain", pc'[q] # "recovering"
      PROVE  HasRecord(q, "panic")'
  <2>1. CASE panicked[q].value = "plain" /\ pc[q] # "recovering"
    BY <2>1, RecordsStay DEF LogInv, At
  <2>2. CASE ~(panicked[q].value = "plain" /\ pc[q] # "recovering")
    <3>1. q = r /\ panicked[r].value = "plain" /\ RecoverLogs(r)
      BY <1>1, <1>5, <2>2, LogPlaces
    <3>2. PICK e : Added(r, e)
      BY <3>1, LogGrows
    <3>3. e.kind = "panic"
      BY <3>1, <3>2 DEF Added
    <3> QED
      BY <3>1, <3>2, <3>3, NewRecord
  <2> QED
    BY <2>1, <2>2
<1> QED
  BY <1>3, <1>4, <1>5 DEF LogInv, At

---------------------------------------------------------------------------
(* The generated IDs.                                                       *)

LEMMA NextIssued ==
  ASSUME NEW n \in Nat, NEW kind
  PROVE  /\ IssuedBy(kind, n + 1) = IssuedBy(kind, n) \cup {<<kind, n + 1>>}
         /\ <<kind, n + 1>> \notin IssuedBy(kind, n)
         /\ \A other : other # kind =>
                \A m \in Nat : <<kind, n + 1>> \notin IssuedBy(other, m)
<1>1. 1 .. (n + 1) = (1 .. n) \cup {n + 1} /\ n + 1 \notin 1 .. n
  OBVIOUS
<1> QED
  BY <1>1 DEF IssuedBy

LEMMA IdInvStep ==
  ASSUME TypeOK, IdInv, NEW r \in Requests, RequestID(r) \/ Serve(r) \/ ClientLeaves(r)
  PROVE  IdInv'
<1>1. uuids \in Nat /\ fallbackSeq \in Nat /\ rid \in [Requests -> RequestIDs \cup {NoId}]
  BY DEF TypeOK
<1>2. CASE RequestID(r)
  <2>1. PICK id : /\ rid' = [rid EXCEPT ![r] = id]
                  /\ \/ id \in ValidHeaders /\ UNCHANGED <<uuids, fallbackSeq>>
                     \/ id = <<"uuid", uuids + 1>> /\ uuids' = uuids + 1
                            /\ UNCHANGED fallbackSeq
                     \/ id = <<"fallback", fallbackSeq + 1>> /\ fallbackSeq' = fallbackSeq + 1
                            /\ UNCHANGED uuids
    <3>1. ASSUME NEW rejected, NewRequestID(r, rejected)
          PROVE  \/ /\ rid' = [rid EXCEPT ![r] = <<"uuid", uuids + 1>>]
                    /\ uuids' = uuids + 1 /\ UNCHANGED fallbackSeq
                 \/ /\ rid' = [rid EXCEPT ![r] = <<"fallback", fallbackSeq + 1>>]
                    /\ fallbackSeq' = fallbackSeq + 1 /\ UNCHANGED uuids
      BY <3>1 DEF NewRequestID, UuidV7, FallbackID, Identify
    <3>2. CASE \E header \in ValidHeaders :
                   Identify(r, header, NoHeader) /\ UNCHANGED <<uuids, fallbackSeq>>
      BY <3>2 DEF Identify
    <3> QED
      BY <1>2, <3>1, <3>2 DEF RequestID
  <2>2. rid'[r] = id /\ \A s \in Requests : s # r => rid'[s] = rid[s]
    BY <1>1, <2>1
  <2>3. CASE id \in ValidHeaders /\ UNCHANGED <<uuids, fallbackSeq>>
    BY <2>2, <2>3 DEF IdInv, GeneratedIdsDiffer
  <2>4. CASE id = <<"uuid", uuids + 1>> /\ uuids' = uuids + 1 /\ UNCHANGED fallbackSeq
    <3>1. /\ IssuedBy("uuid", uuids') = IssuedBy("uuid", uuids) \cup {id}
          /\ id \notin IssuedBy("uuid", uuids) /\ id \notin IssuedBy("fallback", fallbackSeq)
      BY <1>1, <2>4, NextIssued
    <3>2. \A s \in Requests : rid[s] = id => id \in ValidHeaders \cup {NoId}
      BY <3>1 DEF IdInv
    <3> QED
      BY <2>2, <2>4, <3>1, <3>2 DEF IdInv, GeneratedIdsDiffer
  <2>5. CASE /\ id = <<"fallback", fallbackSeq + 1>> /\ fallbackSeq' = fallbackSeq + 1
             /\ UNCHANGED uuids
    <3>1. /\ IssuedBy("fallback", fallbackSeq') = IssuedBy("fallback", fallbackSeq) \cup {id}
          /\ id \notin IssuedBy("uuid", uuids) /\ id \notin IssuedBy("fallback", fallbackSeq)
      BY <1>1, <2>5, NextIssued
    <3>2. \A s \in Requests : rid[s] = id => id \in ValidHeaders \cup {NoId}
      BY <3>1 DEF IdInv
    <3> QED
      BY <2>2, <2>5, <3>1, <3>2 DEF IdInv, GeneratedIdsDiffer
  <2> QED
    BY <2>1, <2>3, <2>4, <2>5
<1>3. CASE UNCHANGED ids
  BY <1>3 DEF IdInv, GeneratedIdsDiffer, ids
<1>4. Serve(r) \/ ClientLeaves(r) => UNCHANGED ids
  BY DEF Serve, AccessLog, Recover, HandlerWritesHeader, HandlerWrites,
         HandlerFlushes, HandlerHijacks, HandlerPanics, HandlerReturns, RecoverLogs,
         RecoverWritesHeader, RecoverWritesBody, RecoverLogsWriteError, AccessLogRecords,
         NetFinishes, NetAborts, ClientLeaves
<1> QED
  BY <1>2, <1>3, <1>4

---------------------------------------------------------------------------
LEMMA InitAnswer == Init => LogInv /\ IdInv /\ \A r \in Requests : ChainInv(r)
<1> SUFFICES ASSUME Init PROVE LogInv /\ IdInv /\ \A r \in Requests : ChainInv(r)
  OBVIOUS
<1>1. DOMAIN log = {} /\ \A r \in Requests :
          /\ pc[r] = "idle" /\ rid[r] = NoId /\ inner[r] = NewRecorder
          /\ outer[r] = NewRecorder /\ wire[r] = EmptyResponse /\ panicked[r] = NoPanic
  BY DEF Init
<1>2. /\ EmptyResponse.status = NoStatus /\ EmptyResponse.body = {}
      /\ EmptyResponse.refused = {} /\ NoPanic.value = "none"
  BY DEF EmptyResponse, NoPanic
<1>3. LogInv
  BY <1>1, <1>2 DEF LogInv, LogIds, Logged
<1>4. IdInv
  BY <1>1 DEF IdInv, GeneratedIdsDiffer
<1>5. \A r \in Requests : ChainInv(r)
  BY <1>1, <1>2
  DEF ChainInv, RecordersAgree, HeaderIsRid, BodyInv, StatusLineInv, PanicInv, EarlyPanic,
      Early, Unanswered, Recorded500, At
<1> QED
  BY <1>3, <1>4, <1>5

LEMMA InvStep ==
  ASSUME TypeOK, AccessInv, LogInv, IdInv, \A r \in Requests : ChainInv(r), [Next]_vars
  PROVE  LogInv' /\ IdInv' /\ \A r \in Requests : ChainInv(r)'
<1>1. CASE UNCHANGED vars
  <2>1. LogInv'
    BY <1>1 DEF vars, LogInv, LogIds, HasRecord, At
  <2>2. IdInv'
    BY <1>1 DEF vars, IdInv, GeneratedIdsDiffer
  <2>3. \A r \in Requests : ChainInv(r)'
    BY <1>1
    DEF vars, ChainInv, RecordersAgree, HeaderIsRid, BodyInv, StatusLineInv, PanicInv,
        EarlyPanic, Bypassed, At, Hijacked
  <2> QED
    BY <2>1, <2>2, <2>3
<1>2. ASSUME NEW r \in Requests, RequestID(r) \/ Serve(r) \/ ClientLeaves(r)
      PROVE  LogInv' /\ IdInv' /\ \A s \in Requests : ChainInv(s)'
  <2>1. LogInv' /\ IdInv'
    BY <1>2, LogInvStep, IdInvStep
  <2>2. ChainInv(r)'
    BY <1>2, ChainStep DEF AccessInv
  <2>3. ASSUME NEW s \in Requests, s # r PROVE ChainInv(s)'
    BY <1>2, <2>3, OtherChains
  <2> QED
    BY <2>1, <2>2, <2>3
<1> QED
  BY <1>1, <1>2 DEF Next, Served

LEMMA AlwaysInv == Spec => []Inv
<1>1. Init => AccessInv /\ LogInv /\ IdInv /\ \A r \in Requests : ChainInv(r)
  BY InitAccess, InitAnswer
<1>2. TypeOK /\ AccessInv /\ LogInv /\ IdInv /\ (\A r \in Requests : ChainInv(r)) /\ [Next]_vars
      => AccessInv' /\ LogInv' /\ IdInv' /\ (\A r \in Requests : ChainInv(r))'
  BY InvStep, AccessInvStep
<1>3. TypeOK /\ AccessInv /\ LogInv /\ IdInv /\ (\A r \in Requests : ChainInv(r)) <=> Inv
  BY DEF Inv
<1> QED
  BY <1>1, <1>2, <1>3, PipelineTypeOK, PTL DEF Spec

---------------------------------------------------------------------------
(* What follows.                                                            *)

(* Every record of a request carries the X-Request-Id its client was sent: the
   header is set before anything can commit the response, and never again. *)
THEOREM RecordsHaveTheClientsId == Spec => []RecordsCarrySentId
<1>1. Inv => RecordsCarrySentId
  <2> SUFFICES ASSUME Inv, NEW i \in DOMAIN log, wire[log[i].req].status # NoStatus
               PROVE  log[i].rid = wire[log[i].req].sentId /\ log[i].rid # NoId
    BY DEF RecordsCarrySentId
  <2>1. log[i].req \in Requests
    BY RecordRequest DEF Inv
  <2>2. HeaderIsRid(log[i].req)
    BY <2>1 DEF Inv, ChainInv
  <2>3. pc[log[i].req] # "idle" /\ log[i].rid = rid[log[i].req]
    BY DEF Inv, LogInv, LogIds, At
  <2> QED
    BY <2>2, <2>3 DEF HeaderIsRid, At
<1> QED
  BY <1>1, AlwaysInv, PTL

(* An ended request has one access record, and it is the request's last, also
   when a panic passes through AccessLog. *)
THEOREM AccessRecordIsLast == Spec => []OneAccessRecordComesLast
<1>1. Inv => OneAccessRecordComesLast
  BY DEF Inv, LogInv, HasRecord, Logged, OneAccessRecordComesLast
<1> QED
  BY <1>1, AlwaysInv, PTL

(* Two requests never share a generated ID, whichever generator each is from. *)
THEOREM GeneratedIdsAreUnique == Spec => []GeneratedIdsDiffer
<1>1. Inv => GeneratedIdsDiffer
  BY DEF Inv, IdInv
<1> QED
  BY <1>1, AlwaysInv, PTL

(* Handlers that do not flush cannot make the recorders forward a second
   WriteHeader, whatever else they do. *)
THEOREM StatusIsWrittenOnce == Spec => []OneStatusLine
<1>1. Inv => OneStatusLine
  BY DEF Inv, ChainInv, StatusLineInv, OneStatusLine
<1> QED
  BY <1>1, AlwaysInv, PTL

(* Recover's document is never mixed with content of the handler. *)
THEOREM ErrorIsNeverAppended == Spec => []ErrorDocumentStandsAlone
<1>1. Inv => ErrorDocumentStandsAlone
  BY DEF Inv, ChainInv, BodyInv, ErrorDocumentStandsAlone
<1> QED
  BY <1>1, AlwaysInv, PTL

LEMMA EarlyPanicEnds ==
  ASSUME Inv, NEW r \in Requests, At(r, "done"), EarlyPanic(r)
  PROVE  /\ wire[r].status = 500 /\ wire[r].body = {"error"}
         /\ \E i, j \in DOMAIN log :
              /\ i < j
              /\ log[i].req = r /\ log[i].kind = "panic"
              /\ log[j].req = r /\ log[j].kind = "access"
              /\ log[i].level = "ERROR" /\ log[j].level = "ERROR"
              /\ log[i].rid = wire[r].sentId /\ log[j].rid = wire[r].sentId
<1>1. wire[r].status = 500 /\ wire[r].body = {"error"} /\ outer[r].status = 500
  BY DEF Inv, ChainInv, PanicInv, Recorded500, At
<1>2. HasRecord(r, "panic") /\ HasRecord(r, "access")
  BY DEF Inv, LogInv, Logged, EarlyPanic, At
<1>3. PICK i \in DOMAIN log : log[i].req = r /\ log[i].kind = "panic"
  BY <1>2 DEF HasRecord
<1>4. PICK j \in DOMAIN log : log[j].req = r /\ log[j].kind = "access"
  BY <1>2 DEF HasRecord
<1>5. i \in Nat /\ j \in Nat
  <2>1. log \in Seq(LogRecord)
    BY DEF Inv, TypeOK
  <2> QED
    BY <2>1, LenProperties
<1>6. ~(j < i) /\ i # j
  BY <1>3, <1>4 DEF Inv, LogInv
<1>7. log[i].level = "ERROR"
  BY <1>3 DEF Inv, LogInv
<1>8. log[j].level = "ERROR"
  <2>1. log[j].level = LevelFromStatus(500)
    BY <1>1, <1>4 DEF Inv, AccessInv, RecordInv
  <2> QED
    BY <2>1 DEF LevelFromStatus
<1>9. log[i].rid = wire[r].sentId /\ log[j].rid = wire[r].sentId
  <2>1. wire[r].sentId = rid[r]
    BY <1>1 DEF Inv, ChainInv, HeaderIsRid, NoStatus
  <2> QED
    BY <1>3, <1>4, <2>1 DEF Inv, LogInv, LogIds
<1> QED
  BY <1>1, <1>3, <1>4, <1>5, <1>6, <1>7, <1>8, <1>9

(* A handler that panics before the response is answered 500 with the error
   document alone, and leaves two ERROR records under the ID the client got. *)
THEOREM EarlyPanicIsAnswered == Spec => []PanicIsAnswered
<1>1. Inv => PanicIsAnswered
  <2> SUFFICES ASSUME Inv, NEW r \in Requests, At(r, "done"), EarlyPanic(r)
               PROVE  /\ wire[r].status = 500 /\ wire[r].body = {"error"}
                      /\ \E i, j \in DOMAIN log :
                           /\ i < j
                           /\ log[i].req = r /\ log[i].kind = "panic"
                           /\ log[j].req = r /\ log[j].kind = "access"
                           /\ {log[i].level, log[j].level} = {"ERROR"}
                           /\ {log[i].rid, log[j].rid} = {wire[r].sentId}
    BY DEF PanicIsAnswered, EarlyPanic
  <2> QED
    BY EarlyPanicEnds
<1> QED
  BY <1>1, AlwaysInv, PTL

---------------------------------------------------------------------------
(* RequestContract, for handlers that write through the recorders: they may *)
(* do anything but flush, hijack or panic with a value that panics itself,  *)
(* and write no status but final ones.                                      *)

WritesThrough ==
    /\ HandlerOps \subseteq {"WriteHeader", "Write", "Panic"}
    /\ HandlerCodes \subseteq 200 .. 999

(* Then net/http is never bypassed and AccessLog's defer runs on a return. *)
ThroughInv(r) ==
    /\ wire[r].refused = {}
    /\ conn[r] \in {"open", "gone"}
    /\ panicked[r].value # "unprintable"
    /\ pc[r] \notin {"unwinding", "aborting"}
    /\ At(r, "write_failed") => wire[r].status # NoStatus

(* What ThroughInv adds to ChainInv: the recorders have seen every status. *)
LEMMA SeenStatus ==
  ASSUME WritesThrough, TypeOK, NEW r \in Requests, ChainInv(r), Agree(r), ThroughInv(r)
  PROVE  /\ inner[r] = outer[r] /\ ~Bypassed(r)
         /\ outer[r].wroteHeader => wire[r].status = outer[r].status
         /\ ~outer[r].wroteHeader => outer[r].status = 200
         /\ ~outer[r].wroteHeader /\ ~At(r, "done") => wire[r].status = NoStatus
         /\ outer[r].wroteHeader => wire[r].status # NoStatus
<1>1. "Flush" \notin HandlerOps
  BY DEF WritesThrough
<1> QED
  BY <1>1, Sorts
  DEF ChainInv, RecordersAgree, StatusLineInv, Agree, ThroughInv, Bypassed

AnswerOf(r) ==
    IF wire[r].status # NoStatus THEN wire[r].status
    ELSE IF pc[r] \in {"logging", "finishing"} THEN 200
    ELSE NoStatus

(* A step of a request keeps ThroughInv, and gives the answer at most once. *)
OneAnswer(r) ==
    /\ ThroughInv(r)'
    /\ \/ AnswerOf(r)' = AnswerOf(r)
       \/ AnswerOf(r) = NoStatus /\ AnswerOf(r)' \in Codes

LEMMA WayInAnswers ==
  ASSUME WritesThrough, TypeOK, NEW r \in Requests, ChainInv(r), ThroughInv(r),
         RequestID(r) \/ AccessLog(r) \/ Recover(r)
  PROVE  OneAnswer(r)
<1>1. /\ pc[r] \in Early /\ pc'[r] \in {"access_log", "recover", "handler"}
      /\ UNCHANGED <<conn, panicked>>
  BY Sorts DEF RequestID, AccessLog, Recover, Goto, At, Early
<1>2. wire'[r].status = wire[r].status /\ wire'[r].refused = wire[r].refused
  <2>1. CASE RequestID(r)
    <3>1. PICK id : wire' = [wire EXCEPT ![r].header = id]
      BY <2>1 DEF RequestID, NewRequestID, UuidV7, FallbackID, Identify
    <3> QED
      BY <3>1, Sorts DEF Response
  <2>2. CASE AccessLog(r) \/ Recover(r)
    BY <2>2 DEF AccessLog, Recover
  <2> QED
    BY <2>1, <2>2
<1> QED
  BY <1>1, <1>2 DEF OneAnswer, AnswerOf, ThroughInv, Early, At

LEMMA HandlerAnswers ==
  ASSUME WritesThrough, TypeOK, NEW r \in Requests, ChainInv(r), Agree(r), ThroughInv(r),
         \/ HandlerWritesHeader(r) \/ HandlerWrites(r) \/ HandlerFlushes(r)
         \/ HandlerHijacks(r) \/ HandlerPanics(r) \/ HandlerReturns(r)
  PROVE  OneAnswer(r)
<1>1. pc[r] = "handler" /\ ~HandlerFlushes(r) /\ ~HandlerHijacks(r)
  BY DEF WritesThrough, HandlerWritesHeader, HandlerWrites, HandlerFlushes, HandlerHijacks,
         HandlerPanics, HandlerReturns, Calls, At
<1>2. /\ inner[r] = outer[r] /\ conn[r] # "hijacked"
      /\ ~outer[r].wroteHeader => wire[r].status = NoStatus
  BY <1>1, SeenStatus DEF ThroughInv, At
<1>3. CASE HandlerWritesHeader(r)
  <2>1. PICK code \in HandlerCodes : WriteHeader(r, code)
    BY <1>3 DEF HandlerWritesHeader
  <2>2. code \in Codes /\ ~Invalid(code) /\ ~Informational(code)
    <3>1. code \in 200 .. 999
      BY DEF WritesThrough
    <3>2. code \in Nat /\ 200 <= code /\ code <= 999
      BY <3>1
    <3> QED
      BY <3>2 DEF Codes, Invalid, Informational
  <2>3. /\ outer[r].wroteHeader => wire'[r] = wire[r]
        /\ ~outer[r].wroteHeader => wire'[r] = NetWriteHeader(wire[r], conn[r], code)
    BY <1>2, <2>1, <2>2, WriteHeaderDoes
  <2>4. wire'[r] = wire[r] \/ (wire[r].status = NoStatus /\ Given(wire'[r], wire[r], code))
    BY <1>2, <2>2, <2>3, Sorts, NetWriteHeaderFields
  <2>5. "invalid" \notin wire'[r].refused
    BY <2>4 DEF Given, ThroughInv
  <2>6. UNCHANGED <<pc, conn, panicked>>
    BY <1>3, <2>5 DEF HandlerWritesHeader
  <2> QED
    BY <1>1, <2>2, <2>4, <2>6 DEF OneAnswer, AnswerOf, ThroughInv, At, Given
<1>4. CASE HandlerWrites(r)
  <2>1. UNCHANGED <<pc, conn, panicked>> /\ Write(r, "handler")
    BY <1>4 DEF HandlerWrites
  <2>2. \/ SameStatus(wire'[r], wire[r]) /\ wire'[r].refused = wire[r].refused
        \/ wire[r].status = NoStatus /\ Given(wire'[r], wire[r], 200)
    BY <1>2, <2>1, WriteDoes
  <2> QED
    BY <1>1, <2>1, <2>2, Sorts
    DEF OneAnswer, AnswerOf, ThroughInv, At, Given, SameStatus
<1>5. CASE HandlerPanics(r)
  <2>1. "PanicUnprintable" \notin HandlerOps
    BY DEF WritesThrough
  <2>2. /\ UNCHANGED <<wire, conn>> /\ pc'[r] = "recovering"
        /\ panicked'[r].value = "plain"
    BY <1>5, <2>1, Sorts DEF HandlerPanics, Calls, Raise, Goto, response
  <2> QED
    BY <1>1, <2>2 DEF OneAnswer, AnswerOf, ThroughInv, At
<1>6. CASE HandlerReturns(r)
  <2>1. UNCHANGED <<wire, conn, panicked>> /\ pc'[r] = "logging"
    BY <1>6, Sorts DEF HandlerReturns, Goto, response
  <2> QED
    BY <1>1, <2>1, Sorts DEF OneAnswer, AnswerOf, ThroughInv, At
<1> QED
  BY <1>1, <1>3, <1>4, <1>5, <1>6

LEMMA RecoverAnswers ==
  ASSUME WritesThrough, TypeOK, NEW r \in Requests, ChainInv(r), Agree(r), ThroughInv(r),
         \/ RecoverLogs(r) \/ RecoverWritesHeader(r) \/ RecoverWritesBody(r)
         \/ RecoverLogsWriteError(r)
  PROVE  OneAnswer(r)
<1>1. /\ inner[r] = outer[r] /\ conn[r] # "hijacked"
      /\ ~outer[r].wroteHeader /\ ~At(r, "done") => wire[r].status = NoStatus
      /\ outer[r].wroteHeader => wire[r].status # NoStatus
  BY SeenStatus DEF ThroughInv
<1>2. CASE RecoverLogs(r)
  <2>1. /\ pc[r] = "recovering" /\ UNCHANGED <<wire, conn, panicked>>
        /\ \/ inner[r].wroteHeader /\ pc'[r] = "logging"
           \/ pc'[r] = "answering"
    BY <1>2, Sorts DEF RecoverLogs, AlreadyWritten, At, response, Goto, ThroughInv
  <2> QED
    BY <1>1, <2>1 DEF OneAnswer, AnswerOf, ThroughInv, At
<1>3. CASE RecoverWritesHeader(r)
  <2>1. /\ pc[r] = "answering" /\ pc'[r] = "answering_body" /\ WriteHeader(r, 500)
        /\ UNCHANGED <<conn, panicked>>
    BY <1>3, Sorts DEF RecoverWritesHeader, Goto, At
  <2>2. ~outer[r].wroteHeader /\ wire[r].status = NoStatus
    BY <1>1, <2>1 DEF ChainInv, BodyInv, At
  <2>3. wire'[r] = NetWriteHeader(wire[r], conn[r], 500)
    BY <1>1, <2>1, <2>2, Sorts, WriteHeaderDoes
  <2>4. ~Invalid(500) /\ ~Informational(500)
    BY DEF Invalid, Informational
  <2>5. Given(wire'[r], wire[r], 500)
    BY <1>1, <2>2, <2>3, <2>4, Sorts, NetWriteHeaderFields
  <2> QED
    BY <2>1, <2>2, <2>5, Sorts DEF OneAnswer, AnswerOf, ThroughInv, At, Given, NoStatus
<1>4. CASE RecoverWritesBody(r)
  <2>1. /\ pc[r] = "answering_body" /\ pc'[r] \in {"logging", "write_failed"}
        /\ Write(r, "error") /\ UNCHANGED <<conn, panicked>>
    BY <1>4, Sorts DEF RecoverWritesBody, Goto, At
  <2>2. outer[r].wroteHeader /\ wire[r].status # NoStatus
    BY <1>1, <2>1 DEF ChainInv, BodyInv, At
  <2>3. SameStatus(wire'[r], wire[r]) /\ wire'[r].refused = wire[r].refused
    BY <1>1, <2>1, <2>2, WriteDoes
  <2> QED
    BY <2>1, <2>2, <2>3 DEF OneAnswer, AnswerOf, ThroughInv, At, SameStatus
<1>5. CASE RecoverLogsWriteError(r)
  <2>1. /\ pc[r] = "write_failed" /\ pc'[r] = "logging" /\ UNCHANGED <<wire, conn, panicked>>
    BY <1>5, Sorts DEF RecoverLogsWriteError, At, response, Goto
  <2> QED
    BY <2>1 DEF OneAnswer, AnswerOf, ThroughInv, At
<1> QED
  BY <1>2, <1>3, <1>4, <1>5

LEMMA EndAnswers ==
  ASSUME WritesThrough, TypeOK, NEW r \in Requests, ChainInv(r), ThroughInv(r),
         AccessLogRecords(r) \/ NetFinishes(r) \/ NetAborts(r) \/ ClientLeaves(r)
  PROVE  OneAnswer(r)
<1>1. CASE AccessLogRecords(r)
  <2>1. pc[r] = "logging" /\ pc'[r] = "finishing" /\ UNCHANGED <<wire, conn, panicked>>
    BY <1>1, Sorts DEF AccessLogRecords, At, response, Goto, ThroughInv
  <2> QED
    BY <2>1 DEF OneAnswer, AnswerOf, ThroughInv, At
<1>2. CASE NetFinishes(r)
  <2>1. /\ pc[r] = "finishing" /\ pc'[r] = "done" /\ UNCHANGED <<conn, panicked>>
        /\ wire'[r] = NetCommit(wire[r], conn[r]) /\ conn[r] # "hijacked"
    BY <1>2, Sorts DEF NetFinishes, Goto, At, ThroughInv
  <2>2. \/ wire'[r] = wire[r] /\ wire[r].status # NoStatus
        \/ wire[r].status = NoStatus /\ Given(wire'[r], wire[r], 200)
    BY <2>1, Sorts, NetCommitFields
  <2> QED
    BY <2>1, <2>2 DEF OneAnswer, AnswerOf, ThroughInv, At, Given, NoStatus
<1>3. CASE NetAborts(r)
  BY <1>3 DEF NetAborts, ThroughInv, At
<1>4. CASE ClientLeaves(r)
  <2>1. UNCHANGED <<pc, wire, panicked>> /\ conn'[r] = "gone"
    BY <1>4, Sorts DEF ClientLeaves, response
  <2> QED
    BY <2>1 DEF OneAnswer, AnswerOf, ThroughInv, At
<1> QED
  BY <1>1, <1>2, <1>3, <1>4

LEMMA StepAnswers ==
  ASSUME WritesThrough, TypeOK, NEW r \in Requests, ChainInv(r), Agree(r), ThroughInv(r),
         RequestID(r) \/ Serve(r) \/ ClientLeaves(r)
  PROVE  OneAnswer(r)
  BY WayInAnswers, HandlerAnswers, RecoverAnswers, EndAnswers DEF Serve
(* The status in the access record of s in the log l, as AccessStatus has it. *)
IsAccess(l, i, s) == l[i].req = s /\ l[i].kind = "access"
AccessIn(l, s) ==
    IF \E i \in DOMAIN l : IsAccess(l, i, s)
    THEN l[CHOOSE i \in DOMAIN l : IsAccess(l, i, s)].status
    ELSE NoStatus

LEMMA TheAccessRecord ==
  ASSUME NEW l \in Seq(LogRecord), NEW s, NEW i \in DOMAIN l, IsAccess(l, i, s),
         \A j, k \in DOMAIN l : j < k /\ l[j].req = l[k].req => l[j].kind # "access"
  PROVE  AccessIn(l, s) = l[i].status
<1>1. \A j \in DOMAIN l : j \in Nat
  BY LenProperties
<1>2. ASSUME NEW j \in DOMAIN l, IsAccess(l, j, s) PROVE j = i
  BY <1>1, <1>2 DEF IsAccess
<1>3. (CHOOSE j \in DOMAIN l : IsAccess(l, j, s)) = i
  BY <1>2
<1> QED
  BY <1>3 DEF AccessIn

(* AccessLog's deferred function is the only one to write an access record. *)
LEMMA OtherStepsRecordNothing ==
  ASSUME Inv, Inv', NEW r \in Requests, RequestID(r) \/ Serve(r) \/ ClientLeaves(r),
         NEW s \in Requests, ~(s = r /\ AccessLogRecords(r))
  PROVE  AccessIn(log', s) = AccessIn(log, s)
<1>1. /\ TypeOK /\ log \in Seq(LogRecord) /\ log' \in Seq(LogRecord)
      /\ \A j, k \in DOMAIN log : j < k /\ log[j].req = log[k].req => log[j].kind # "access"
      /\ \A j, k \in DOMAIN log' : j < k /\ log'[j].req = log'[k].req => log'[j].kind # "access"
  BY DEF Inv, TypeOK, LogInv
<1>2. CASE \E i \in DOMAIN log : IsAccess(log, i, s)
  <2>1. PICK i \in DOMAIN log : IsAccess(log, i, s)
    BY <1>2
  <2>2. i \in DOMAIN log' /\ log'[i] = log[i]
    <3>1. CASE log' = log
      BY <3>1
    <3>2. CASE \E e : Added(r, e)
      <4>1. PICK e : Added(r, e)
        BY <3>2
      <4>2. /\ Len(log) \in Nat /\ DOMAIN log = 1 .. Len(log)
            /\ DOMAIN log' = 1 .. (Len(log) + 1)
            /\ \A j \in DOMAIN log : log'[j] = log[j]
        BY <1>1, <4>1, OldRecord DEF Added
      <4> QED
        BY <4>2
    <3> QED
      BY <1>1, <3>1, <3>2, LogGrows
  <2>3. IsAccess(log', i, s)
    BY <2>1, <2>2 DEF IsAccess
  <2>4. AccessIn(log, s) = log[i].status
    BY <1>1, <2>1, TheAccessRecord
  <2>5. AccessIn(log', s) = log'[i].status
    BY <1>1, <2>2, <2>3, TheAccessRecord
  <2> QED
    BY <2>2, <2>4, <2>5
<1>3. CASE ~\E i \in DOMAIN log : IsAccess(log, i, s)
  <2>1. ASSUME NEW i \in DOMAIN log', IsAccess(log', i, s) PROVE FALSE
    <3>1. \/ i \in DOMAIN log /\ log'[i] = log[i]
          \/ AccessLogRecords(r) /\ log'[i].req = r
      BY <1>1, <2>1, NewRecords DEF IsAccess
    <3> QED
      BY <1>3, <2>1, <3>1 DEF IsAccess
  <2> QED
    BY <1>3, <2>1 DEF AccessIn
<1> QED
  BY <1>2, <1>3

LEMMA TheRecordIsOuters ==
  ASSUME Inv, Inv', NEW r \in Requests, AccessLogRecords(r)
  PROVE  AccessIn(log, r) = NoStatus /\ AccessIn(log', r) = outer[r].status
<1>1. /\ TypeOK /\ log' \in Seq(LogRecord) /\ Serve(r) /\ pc[r] \in {"logging", "unwinding"}
      /\ \A j, k \in DOMAIN log' : j < k /\ log'[j].req = log'[k].req => log'[j].kind # "access"
  BY DEF Inv, TypeOK, LogInv, Serve, AccessLogRecords, At
<1>2. ~\E i \in DOMAIN log : IsAccess(log, i, r)
  BY <1>1 DEF Inv, AccessInv, RecordInv, IsAccess
<1>3. PICK e : Added(r, e) /\ e.kind = "access"
  BY <1>1, LogGrows DEF Added
<1>4. PICK i \in DOMAIN log' : IsAccess(log', i, r)
  BY <1>1, <1>3, NewRecord DEF HasRecord, IsAccess
<1>5. log'[i].status = outer[r].status
  <2>1. \/ i \in DOMAIN log /\ log'[i] = log[i]
        \/ log'[i].status = outer[r].status
    BY <1>1, <1>4, NewRecords DEF IsAccess
  <2> QED
    BY <1>2, <1>4, <2>1 DEF IsAccess
<1>6. AccessIn(log', r) = log'[i].status
  BY <1>1, <1>4, TheAccessRecord
<1> QED
  BY <1>2, <1>5, <1>6 DEF AccessIn

(* Both sides of the refinement mapping, one request at a time. *)
LEMMA Mapped ==
  /\ AnswerGiven = [s \in Requests |-> AnswerOf(s)]
  /\ AccessStatus = [s \in Requests |-> AccessIn(log, s)]
  /\ AnswerGiven' = [s \in Requests |-> AnswerOf(s)']
  /\ AccessStatus' = [s \in Requests |-> AccessIn(log', s)]
  BY DEF AnswerGiven, AnswerOf, AccessStatus, AccessIn, IsAccess

Through == \A r \in Requests : ThroughInv(r)

(* A step of one request is one of Contract, or none. *)
LEMMA RequestKeepsContract ==
  ASSUME WritesThrough, Inv, Inv', Through, NEW r \in Requests,
         RequestID(r) \/ Serve(r) \/ ClientLeaves(r)
  PROVE  Through' /\ (Contract!Answer(r) \/ Contract!Record(r) \/ UNCHANGED Contract!vars)
<1>1. TypeOK /\ ChainInv(r) /\ Agree(r) /\ ThroughInv(r)
  BY DEF Inv, AccessInv, RequestInv, Through
<1>2. OneAnswer(r)
  BY <1>1, StepAnswers
<1>3. ASSUME NEW s \in Requests, s # r
      PROVE  AnswerOf(s)' = AnswerOf(s) /\ ThroughInv(s)'
  <2>1. pc'[s] = pc[s] /\ wire'[s] = wire[s] /\ conn'[s] = conn[s]
    BY <1>1, <1>3, Frame
  <2>2. panicked'[s] = panicked[s]
    BY <1>1, <1>3, OtherChains
  <2> QED
    BY <2>1, <2>2 DEF AnswerOf, ThroughInv, Through, At
<1>4. Through'
  BY <1>2, <1>3 DEF OneAnswer, Through
<1>5. CASE AccessLogRecords(r)
  <2>1. /\ pc[r] = "logging" /\ pc'[r] = "finishing" /\ UNCHANGED wire
    BY <1>1, <1>5, Sorts DEF AccessLogRecords, At, Goto, response, ThroughInv
  <2>2. AnswerOf(r) = outer[r].status /\ AnswerOf(r)' = AnswerOf(r)
    BY <1>1, <2>1, SeenStatus DEF AnswerOf, At
  <2>3. AnswerOf(r) # NoStatus
    BY <1>1, <2>2, Sorts
  <2>4. AccessIn(log, r) = NoStatus /\ AccessIn(log', r) = AnswerOf(r)
    BY <1>5, <2>2, TheRecordIsOuters
  <2>5. \A s \in Requests : s # r => AccessIn(log', s) = AccessIn(log, s)
    BY OtherStepsRecordNothing
  <2>6. AnswerGiven' = AnswerGiven
    BY <1>3, <2>2, Mapped
  <2>7. AccessStatus' = [AccessStatus EXCEPT ![r] = AnswerGiven[r]]
    BY <2>4, <2>5, Mapped
  <2>8. Contract!Record(r)
    BY <2>3, <2>4, <2>6, <2>7, Mapped DEF Contract!Record
  <2> QED
    BY <1>4, <2>8
<1>6. CASE ~AccessLogRecords(r)
  <2>1. \A s \in Requests : AccessIn(log', s) = AccessIn(log, s)
    BY <1>6, OtherStepsRecordNothing
  <2>2. AccessStatus' = AccessStatus
    BY <2>1, Mapped
  <2>3. CASE AnswerOf(r)' = AnswerOf(r)
    <3>1. AnswerGiven' = AnswerGiven
      BY <1>3, <2>3, Mapped
    <3> QED
      BY <1>4, <2>2, <3>1 DEF Contract!vars
  <2>4. CASE AnswerOf(r) = NoStatus /\ AnswerOf(r)' \in Codes
    <3>1. PICK code \in Codes : code = AnswerOf(r)'
      BY <2>4
    <3>2. AnswerGiven' = [AnswerGiven EXCEPT ![r] = code]
      BY <1>3, <3>1, Mapped
    <3>3. AnswerGiven[r] = NoStatus
      BY <2>4, Mapped
    <3> QED
      BY <1>4, <2>2, <3>2, <3>3 DEF Contract!Answer
  <2> QED
    BY <1>2, <2>3, <2>4 DEF OneAnswer
<1> QED
  BY <1>5, <1>6

(* The chain keeps RequestContract, whatever its handlers write through the
   recorders, and wherever they panic: each request is given one status, and
   then an access record of that status. *)
THEOREM ChainKeepsContract == ASSUME WritesThrough PROVE Spec => Contract!Safety
<1>1. Init => Through /\ Contract!Init
  <2> SUFFICES ASSUME Init PROVE Through /\ Contract!Init
    OBVIOUS
  <2>1. /\ EmptyResponse.status = NoStatus /\ EmptyResponse.refused = {}
        /\ NoPanic.value = "none" /\ DOMAIN log = {}
    BY DEF EmptyResponse, NoPanic, Init
  <2>2. Through
    BY <2>1 DEF Init, Through, ThroughInv, At
  <2>3. \A s \in Requests : AnswerOf(s) = NoStatus /\ AccessIn(log, s) = NoStatus
    BY <2>1 DEF Init, AnswerOf, AccessIn
  <2> QED
    BY <2>2, <2>3, Mapped DEF Contract!Init
<1>2. Inv /\ Inv' /\ Through /\ [Next]_vars => Through' /\ [Contract!Next]_(Contract!vars)
  <2> SUFFICES ASSUME Inv, Inv', Through, [Next]_vars
               PROVE  Through' /\ [Contract!Next]_(Contract!vars)
    OBVIOUS
  <2>1. CASE UNCHANGED vars
    <3>1. Through'
      BY <2>1 DEF vars, Through, ThroughInv, At
    <3>2. UNCHANGED <<AnswerGiven, AccessStatus>>
      BY <2>1 DEF vars, AnswerGiven, AccessStatus
    <3> QED
      BY <3>1, <3>2 DEF Contract!vars
  <2>2. ASSUME NEW r \in Requests, RequestID(r) \/ Serve(r) \/ ClientLeaves(r)
        PROVE  Through' /\ [Contract!Next]_(Contract!vars)
    BY <2>2, RequestKeepsContract DEF Contract!Next
  <2> QED
    BY <2>1, <2>2 DEF Next, Served
<1> QED
  BY <1>1, <1>2, AlwaysInv, PTL DEF Spec, Contract!Safety
==========================================================================
