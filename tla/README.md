# Formal model of id-core

id-core is an OpenID Connect provider in Go, at the milestone where its
foundation exists: process start, configuration, signing key, health and
discovery endpoints, middleware chain, structured logging and database
migrations. This directory holds TLA+ modules translated from that source,
TLC configurations that check them on small instances, and TLAPS proofs for
every value of their constants. Paths below are relative to `core/` of the
repository; line numbers are in `PROJECT.json`.

## 1. Inventory

| Component | State it keeps | Operations | What makes it correct |
|---|---|---|---|
| Middleware chain (`internal/middleware`, composed by `server.New`) | per request: request ID in the context, two `statusRecorder`s, net/http's response; per process: the fallback ID counter | RequestID, AccessLog, Recover; `WriteHeader`, `Write`, `Flush`, `Hijack` of the recorder | recorder, access record and response agree on the status; a panic becomes a 500; every request is recorded once, last, under the ID the client got |
| Logger (`internal/logger`) | slog's mutex, `FallbackWriter.drops`, the two streams | Info/Warn/Error, `FallbackWriter.Write`, redaction | no record lost uncounted or written twice; logging never stops a request |
| Process start (`cmd/core`) | pool, migrator, key, server of one process | bootstrap, db.Open, AssertClean, keystore.Init, server.New, ListenAndServe | refuses a dirty schema; early returns release what is open; starts terminate |
| Migrations (`internal/dbmigrate`, Makefile) | `schema_migrations` row, advisory lock | RunUp, RunDown, AssertClean, migrate-force | a clean row tells the truth about the schema |
| Configuration (`internal/config`) | none after Load; 24 variables of the environment | Load, with a check per variable | only combinations the later steps can use; messages that lead out of a refusal |
| Key store (`internal/keystore`) | one key pair | Init, Active, Verifying | key source per environment; kid names the key |
| Discovery, JWKS (`internal/oidc`) | body, ETag, directive computed at start | ServeHTTP with If-None-Match | a relying party verifies tokens across restarts and rotation |
| Health (`internal/health`) | none; uses the pool's connections | live, ready with 2 s timeout | ready only if the database answers, again when it is back; probes do not pile up |
| apperror | the details of each error | New, WithDetails, Wrap, Details, ToResponse, WriteJSON | one error document shape; errors never change |
| Redaction (`logger/redact.go`, query in `access_log.go`) | none | RedactMap, redactQueryString | no listed value in a record, whatever its case, depth or encoding |
| devkeygen (`cmd/devkeygen`) | two files | run, in seven steps that may fail | no overwrite without `-force`; a matching pair |
| Test helpers, build, docs, examples | - | - | not part of the program |

**Interactions.** `run()` calls the components in sequence and hands pool, key
set and logger to `server.New`. net/http runs a goroutine per request through
RequestID, AccessLog, Recover and the mux, all sharing the logger. Migrations
run in other processes and meet the server only in `schema_migrations` and in
golang-migrate's advisory lock. Relying parties see the key through JWKS.

**Hard behaviour.** Panics unwinding through three middlewares with a response
half sent; three views of one response's status; concurrent requests sharing
the log and the ID counter; a writer that fails half-way or blocks; pods that
start while migrations run, fail or crash; a gate that reads without the lock;
caches of relying parties across restarts; probes over a small pool while the
database hangs; two keygens in one directory; details that callers share and go
on changing. `PROJECT.json` lists each hazard at
its line with the properties aimed at it, or why there is none yet.

## 2. Modules

| Module | Contents |
|---|---|
| `RequestContract` | abstract promise of the chain: one status per request, then one record of that status |
| `RequestPipeline` | the chain, the recorders, net/http's response writer and any handler |
| `RequestPipelineProofs` | its safety properties for any instance, and that it keeps `RequestContract` |
| `MCRequestPipeline` | sets of handler calls and status codes for TLC |
| `LogContract` | abstract promise of the logger: delivered whole, or dropped and counted |
| `LogSink` | goroutines, slog's mutex, `FallbackWriter`, stdout and stderr |
| `LogSinkProofs` | its safety properties for any instance, and that it keeps `LogContract` |
| `MCLogSink` | where a write may be cut, for TLC |
| `Startup` | pods running `run()`, migrators, PostgreSQL with its row and lock |
| `StartupProofs` | all safety properties of `Startup` for any instance |
| `MCStartup` | environments for TLC |
| `KeyPublication` | pods with their environment and key, the JWKS and discovery handlers, relying parties' caches, the operator |
| `KeyPublicationProofs` | all safety properties of `KeyPublication` for any instance |
| `MCKeyPublication` | environments for TLC |
| `Readiness` | probes of `/health/ready`, the pool's connections, the database, `run()`'s end |
| `ReadinessProofs` | its safety properties for any instance |
| `Configuration` | bootstrap: each variable's check in order, what is accepted, an operator who repairs |
| `ConfigurationProofs` | its safety properties for any values |
| `MCConfiguration` | values and working deployments for TLC |
| `DevKeygen` | concurrent runs of devkeygen, failing and killed |
| `DevKeygenProofs` | all its properties for any number of runs |
| `ErrorDetails` | details of errors on a heap, redaction of details and queries |
| `ErrorDetailsProofs` | all its properties, for details of any shape |
| `MCErrorDetails` | keys, leaves, a typed value and queries for TLC |

`RequestPipeline` uses the logger as "one call, one record"; `LogSink` is where
that call is opened up. `RequestPipeline` refines `RequestContract` and
`LogSink` refines `LogContract`, each by an `INSTANCE` with a mapping.
`Configuration` opens up what `Startup` and `KeyPublication` take as "a pod's
environment", and `Readiness` what `Startup` takes as "the pool".

A definition marked `Mutant:` is a plausible mistake in the definition that
follows it. No specification uses it; replacing the one by the other has to
break the property named in `PROJECT.json`, which shows that the property
depends on the code.

### RequestPipeline and the code

`pc[r]` is where the goroutine of request `r` is. `RequestID`, `AccessLog` and
`Recover` are the parts of the three handlers before `next.ServeHTTP`;
`RecoverLogs`, `RecoverWritesHeader`, `RecoverWritesBody` and
`RecoverLogsWriteError` are Recover's deferred function, with `WriteJSON` in
two steps, because a client can leave between them; `AccessLogRecords` is
AccessLog's. `inner` is Recover's recorder, `outer` AccessLog's; a call on
`inner` is forwarded to `outer` and from there to `wire`, net/http's response,
in one step since only the request's own goroutine touches them.

The handler is any handler: at each step it makes one of the calls its
ResponseWriter offers, panics with a value whose `Error` works or panics, or
returns. The real handlers (health, discovery, JWKS, stubs) are instances of
it. net/http is modelled from how the code relies on it: the first final status
commits, later ones are superfluous, 1xx is sent and does not commit, a status
outside 100..999 panics, a hijacked connection takes nothing.

Abstracted: durations, paths, redaction, the text of records and documents.
A valid client ID is adopted as it is, an invalid one is kept in sanitised form
as one value. A fallback ID is its counter: host, process and time tell
processes apart, not requests of one process.

### LogSink and the code

`Log` is `Logger.log` up to slog's mutex, `Lock` the mutex, `WritePrimary` and
`WriteFallback` the two writes of `FallbackWriter.Write`, `Return` the end of
the call, which never carries an error. A record is a number of pieces, the
last one its newline; a failing write has taken any number of pieces short of
all, as `os.File` does, so the clamping of `n` is the identity. `Clog` and
`Unclog` are the reader of stdout's pipe.

### Startup and the code

`stage[p]` is the last step of `run()` that pod `p` completed. Each action is
one call of `run()`, or half of one, with its success and its early return.
`db.Open` is `Open` up to the pool and `PingAnswered` or `PingFails`, which
closes the pool. `AssertClean` is `NewMigrator` and `AssertClean`, because
`migrate.New` and `Version` are two round trips between which migrations can
start, and `AssertCleanReturns`. `deferred[p]` holds what `run()` and
`AssertClean` have deferred: a `return` (`Return`) closes nothing by itself;
`AssertCleanReturns` and `RunReturns` close what was deferred and only that, and
in stage "returned", before `os.Exit`, it shows whether anything was forgotten.
A killed process runs no defers; there the kernel takes back what it held.
`gate[p]` records what the gate read and what was true then; only properties
use it. A migrator is a terminal with `make migrate-up` or `migrate-down`:
`RunUp`/`RunDown` start it, the rest is golang-migrate: take the lock, mark the
row dirty at the target version, run the SQL in one transaction, mark it clean.
Version 0 stands for golang-migrate's "no version" (-1).

Abstracted: everything of the configuration but the key source; DSN; logging.
Assumed of the operator: `migrate-force` is given the version whose migrations
are in effect. The database answers, refuses, or hangs: takes what it is sent
and answers nothing. `db.Open` pings without a deadline, and so does the gate
ask, so a start waits for a hanging database. `db.Open` and `migrate.New` may also
fail while it is up: a refused DSN, a wrong password, no connection left, no
directory of migrations.

### KeyPublication and the code

A pod goes from "down" by `Launch`, which takes the environment
(`config.Load`), to "starting", and by `ServeFileKey` or `ServeGeneratedKey`
(`keystore.Init`, then `server.New` with `discovery.New` and `jwks.New`) to
"serving". Between the two lie the database and the migration gate, so the key
file may be replaced there; this is why environment and key are taken in two
actions. Everything a request needs is computed in `NewHandler`; a request is
one step, `Fetch`, because it reads constants only. `Answer` is `ServeHTTP`,
the same in both packages: a 304 when If-None-Match equals the ETag, with the
ETag and nothing else, otherwise a 200.

Modelled from outside the code: a relying party's cache follows RFC 9111
(`Stored`, `Fresh`: a 304 renews the age and replaces only the headers it
carries), may always ask, with or without If-None-Match, and asks any serving
pod. The operator changes environment and key file at any time. `ruled` says
whether he kept the rules of `docs/requirements/32` (F-24: stop all pods to
replace a key; F-8: a generated key serves one pod) since all pods were last
down; only `OneKeySetPublished` speaks of it.

`gone` in a cache entry is history for the properties: for how long no serving
pod has published the stored document.

Abstracted: a key is a number, its derived kid that number, so hashes do not
collide; PEM and JSON; the issuer and the endpoints under it are one `site`.
A file that cannot be parsed is key 0. The age of an entry and its `gone` count
up to the entry's own max-age, from which on nothing tells them apart.

### Readiness and the code

`stage[p]` is where probe `p`, a goroutine in `readyHandler`, waits inside
`pool.Ping`: for a connection, for a dial or for the answer. `ctx[p]` is the
context it made (`NewContext`): the two seconds (`Deadline`) and the client
(`ClientLeaves`) end it, whichever comes first, and it keeps the reason.
`Answer` is the rest of the handler, with the status and the record that
`StatusFor` and `ErrorOf` choose. `main` is `run()` from `ListenAndServe`'s
return to the end of the deferred `pool.Close()`.

pgxpool and puddle are modelled from how the code relies on them: `Ping` takes
an idle connection, or dials in a free place, or waits; a connection whose ping
was cut off is closed; a dial whose probe has left goes on and its connection
becomes idle; the health check may dial and close at any time; `Close` waits
until no place is taken. A hung database keeps its sessions, one that goes down
forgets them, and the pool notices only when it uses them. `heard` is history:
the database answered this request.

### Configuration and the code

A raw value is told apart by how the parsers take it: `Dec` by `Atoi` and
`ParseInt`, `Huge` is out of 32 bits, `Span` is for `ParseDuration`, `Url` has
the scheme and host `url.Parse` finds and the slashes at its end, `Word` is
none of these. Every load function is the operator of the same name and yields
a check: whether the value passes, and which variables the message names.
`Checks` is the order of `config.Load` and, after it, `logger.Default`;
`Bootstrap` is the first check that fails, or the configuration. A check is
only looked at when all before it passed, so later ones may rely on them
(`minWithinMax` on both bounds, `keyFileOrDevGen` on `prod` having its file).

The operator is modelled around it: `Edit` changes any variable, as long as at
most `MaxChanges` differ from a working deployment, `Repair` follows the last
message. What makes a repair is that the next message no longer names the
variable.

### DevKeygen and the code

`stage[r]` is the next step of `generate` and `path[r]` the file it is at:
`MkdirAll`, `Stat` for each file unless `-force`, `GenerateKey`, then `Open`,
`Write`, `Chmod` for the private and for the public key. Each may fail, and the
process may be killed between any two or amid a write. A file is absent, empty,
useless or the whole half of some run's key. `before` and `apart` are history.

### ErrorDetails and the code

`heap` holds the maps and arrays of details; `held` are the maps callers have,
`errors` the details of each `CodedError`. `CopyOf` is the recursion that
`cloneDetails`/`cloneValue` and `RedactMap`/`redactValue` share: it makes a new
cell for each path that leads through maps and `[]any` (`Entered`), takes over
what is neither, and puts the placeholder into the slots that are to be replaced,
beyond which it does not go: none for `cloneDetails`, those under a listed key
(`ToRedact`) for `RedactMap`. `Write` is a caller that changes a map or array it
can reach, also by putting one of its maps into another. A typed value is a
`[]string` or `map[string]string` that a caller made: Go passes a reference to
it, so details have its name in a slot and `elements` has what it holds;
`WriteElement` changes that.

A query is a sequence of pairs; a key carries how often it is percent-encoded,
which is all that `QueryUnescape` and the list are about. `Readable` and
`NameIn` are `url.ParseQuery`, by which a handler reads it: it drops pairs whose
key cannot be decoded (`broken`), and those whose value cannot be or which have
a `;` (`lost`). The access record has these too, redacted or not by their key
alone; `QueryRedacted` leaves both open for them.

## 3. Runs

| Run | Instance | Shows |
|---|---|---|
| `pipeline_any_handler` | 1 request, all handler operations, 4 calls | status agreement, panics answered, error document alone, every request recorded |
| `pipeline_concurrent` | 2 requests, write/panic operations, 2 calls | one record, last; the sent ID in every record; distinct IDs; refinement of `RequestContract` |
| `pipeline_unprintable` (violation) | 1 request | a panic value whose `Error` panics gets no 500 and no panic record |
| `startup_pods` | 1 pod, 2 migrators, 2 migrations | gate, resources, key source, under all failures; a start ends unless the database hangs for good |
| `startup_dirty` (violation) | 1 pod, 1 migrator, 1 migration | a dirty row without version passes the gate |
| `log_streams` | 2 goroutines, 2 records of 3 pieces each | nothing written twice; one order on both streams; refinement of `LogContract`, with liveness |
| `keys_any_operation` | 2 pods, 1 party, 3 environments, 2 keys | what is used without asking was published less than max-age ago; one key set while the rules are kept; published documents reach every party, and stay |
| `readiness_probes` | 2 probes, 2 connections | 200 means the database answered; probes end; Close returns; readiness returns |
| `configuration_repairs` | 24 variables, 2 deployments, 2 changes | empty is unset; refusals name all they rest on; what is accepted is complete and in range; repairs succeed |
| `devkeygen_runs` | 2 runs | existing files stay without `-force`; success is a whole pair |
| `error_details` | 2 errors, 3 copies, 2 writes, depth 4, 1 typed value | maps and arrays of errors never change; records show exactly the unlisted; no secret query value recorded |
| `error_details_typed` (violation) | the same | a change of a typed value shows in the errors that have it |

A violation run states what a comment or requirement of the repository says,
and its counterexample is a finding in `PROJECT.json`. For the details of errors
this means: `apperror.go` says that details are copied deeply and that no caller
can change an error. `cloneValue` copies `map[string]any` and `[]any` only
(line 110), so the contract holds for these (`ErrorsKeepContents`) and not for a
`[]string` in details (`ErrorsAreImmutable`).

`OneAccessRecordComesLast` also speaks of a panic value whose `Error` panics.
`pipeline_concurrent` has none, since the chain leaves `RequestContract` with it,
so this case rests on the theorem `AccessRecordIsLast`.

The models have four more behaviours that differ from what a comment or a
requirement says, and that no run of their own is devoted to:

- A handler that flushes and then panics: net/http has sent a 200, Recover's
  500 is declined, and the access record says 500 (`access_log.go:99`). An
  informational status is likewise taken for the final one. `AccessStatusIsSent`
  exempts responses in which net/http declined a status.
- When nobody reads stdout, `FallbackWriter.Write` blocks with slog's mutex held
  and every goroutine that logs waits (`fallback.go:45`; against
  `docs/requirements/7`).
- After stdout took a part of a record, the rest goes to stderr and the next
  record continues the unfinished line (`fallback.go:59`).
- A 304 carries no Cache-Control (`jwks/handler.go:76`): a max-age lowered to 0
  does not reach a relying party that revalidates the same key set.

Two more were met and are outside what the modules tell apart: an IPv6 address
as `CORE_DB_HOST` gets no brackets in the DSN (`dsn.go:32`), and a health check
period of 0 passes `config.Load` although pgxpool makes a ticker of it
(`config.go:246`).

**Bounds.** `MaxOps` bounds the calls of one handler. Four are enough to put
every pair of calls before a write and a panic; the recorders have four
states each, so longer handlers revisit them. Requests meet in the log and the
ID sources only, so two show their races; handlers there need two calls to
write and to panic. `MaxRecords` bounds the records of a goroutine: two are
needed for one record to follow another's fragment. Three pieces, of which a
failing write takes none or one, let a record be cut at its start and in its
middle by both streams. Two migrations distinguish "first" (down leads to no version) from
"later", and let an up-job go on to a second one; two migrators compete
with one pod, whose only share in the lock is to wait for it. In
`KeyPublication` parties do not influence each other, so one is enough; two
pods can disagree, two keys can replace each other and come back, max-ages of
0, 1 and 2 ticks lie on both sides of every age. Two of its environments have one
key source and differ in issuer and both max-ages, so that one can be rolled out
into the other; the third has a generated key under its derived kid. In `Readiness`
two probes can compete for one place while the other is taken by a dial nobody
waits for; nothing counts, so there are no bounds but the two sets. In
`Configuration` all 24 variables are there with values on both sides of each
test, and rules join at most three variables: two changes from a deployment
that keeps the third, plus all repairs, reach every side of each rule. Two runs
of `DevKeygen` interleave at every step; a third adds only other contents. In
`ErrorDetails` three copies are enough for error, response and record, two
writes to change one and nest another, and depth 4 for maps in arrays in maps.
One write puts the typed value into details and one changes it; a second typed
value would do the same beside it. The queries have a listed key in capitals and
encoded once and twice, and a listed key in each kind of pair that a handler does
not read.

**Fairness.** `WF(Serve(r))`: a goroutine with work is scheduled, and a handler
makes finitely many calls. Arrivals and departures of clients are not fair.
In `LogSink`, strong fairness on `Lock` (a Go mutex in starvation mode is
handed over in order) and on the writes (a pipe that has room again and again
takes them); `Unclog` is fair only in `DrainedSpec`, which
`log_streams` checks: without a reader of stdout nothing is promised. In `Startup`, weak fairness on the steps of `run()`
and on a migration that holds the lock, strong fairness on `NewMigrator`
because PostgreSQL grants an advisory lock in order of arrival. Crashes,
restarts, repairs, new migrations and the database's return are not fair, and
`StartupDecides` is conditional on a database that does not hang for good. In
`KeyPublication`, `Tick` is fair because time passes, and `Refresh` because a
party that relies on a document asks when its copy is not fresh; nothing is
assumed of pods and operator, so `NewDocumentsArrive` is conditional on all
pods serving for good. In `Readiness`, timers fire, a waiting probe takes what
the pool can give it, an answer that can come comes, dials end (TCP gives up,
at the latest) and `Close` goes on; nothing is assumed of database, clients and
health check, and `ReadyAgain` is conditional on a database that stays up and
on probes that are no longer cut short. In `Configuration`, the operator sees
to a process that does not start. `DevKeygen` and `ErrorDetails` state safety
only: a devkeygen run may be killed, and what callers do has no goal.

## 4. Proofs

| Theorem | For any number of | Statement |
|---|---|---|
| `PipelineTypeOK` | requests, headers, handlers, codes | `Spec => []TypeOK` |
| `AccessStatusCorrect` | the same | `Spec => []AccessStatusIsSent` |
| `StartupTypeOK` | pods, migrators, migrations | `Safety => []TypeOK` |
| `GateCorrect` | the same | `Safety => []GateSeesWholeSchema` |
| `ResourcesCorrect` | the same | `Safety => []ResourcesHeld` |
| `KeySourceCorrect` | the same | `Safety => []KeySourceSafe` |
| `PublicationTypeOK` | pods, relying parties, environments, keys | `Safety => []TypeOK` |
| `AgeCorrect` | the same | `Safety => []StaleWithinMaxAge` |
| `RulesCorrect` | the same | `Safety => []OneKeySetPublished` |
| `ReadinessTypeOK` | probes, connections | `Spec => []TypeOK` |
| `AnswersCorrect` | the same | `Spec => []AnswersAreTrue` |
| `DevKeygenTypeOK` | runs | `Spec => []TypeOK` |
| `SuccessCorrect` | the same | `Spec => []SuccessMeansPair` |
| `ExistingFilesCorrect` | the same | `Spec => ExistingFilesKept` |
| `SpellingCorrect` | values of 24 variables | `Spec => []SpellingIsIrrelevant` |
| `BlameCorrect` | the same | `Spec => BlameIsComplete` |
| `ConfigurationTypeOK` | the same | `Spec => []TypeOK` |
| `RecordsHaveTheClientsId` | requests, headers, handlers, codes | `Spec => []RecordsCarrySentId` |
| `AccessRecordIsLast` | the same | `Spec => []OneAccessRecordComesLast` |
| `GeneratedIdsAreUnique` | the same | `Spec => []GeneratedIdsDiffer` |
| `StatusIsWrittenOnce` | the same | `Spec => []OneStatusLine` |
| `ErrorIsNeverAppended` | the same | `Spec => []ErrorDocumentStandsAlone` |
| `EarlyPanicIsAnswered` | the same | `Spec => []PanicIsAnswered` |
| `ChainKeepsContract` | requests, headers, handlers that `WritesThrough` | `Spec => Contract!Safety` |
| `LogSinkTypeOK` | goroutines, records, pieces | `Safety => []TypeOK` |
| `NothingTwice` | the same | `Safety => []NoPieceTwice` |
| `OneOrder` | the same | `Safety => []StreamsAgree` |
| `RecordsAreDeliveredOrCounted` | the same | `Safety => Contract!Safety` |
| `ErrorDetailsTypeOK` | errors, copies, writes, depths of details | `Spec => []TypeOK` |
| `ErrorContents` | the same | `Spec => ErrorsKeepContents` |
| `RecordsAreRedacted` | the same | `Spec => []DetailsRedacted` |
| `QueriesAreRedacted` | queries | `Spec => []QueryRedacted` |

*Status agreement.* `AccessStatusIsSent` speaks of finished requests only, so it
is not inductive. `AccessInv` adds: until net/http is bypassed, the outer
recorder and the response are either both untouched or hold the same status
(`Agree`), and a record of a request that is not finished holds the outer
recorder's status, which nothing changes any more (`RecordInv`). The argument
uses `HeadersAssumption` and `HandlerAssumption`.

*Answers, records and IDs.* The other properties of the chain share one
invariant, `Inv`, whose parts speak of one request each but for the last two.
`RecordersAgree`: the two recorders are never apart, and new until the handler
is called. `HeaderIsRid`: from RequestID on the header map has the request's
ID, and what was sent is that. `BodyInv`: nothing is in the body that Recover's
recorder does not know of, so that Recover, which answers only if its recorder
knows of nothing, answers into an empty body. `StatusLineInv`: unless a handler
flushed, a status line is written under the recorders' eyes only. `PanicInv`
follows a panic to its 500. `LogInv` says which records a request has in each
stage, under which ID; `IdInv` that every ID is a client's or was issued by a
generator no further than its counter, and that no two requests have the same
generated one. `HeadersAssumption` is used once more: an empty `X-Request-Id` is
not a valid one, as `isValidRequestID` has it.

*The chain's contract.* `RequestContract` gives a request one status and then a
record of it. A handler that flushes, hijacks, sends 1xx or panics with a value
whose `Error` panics leaves it (section 3), so the theorem is about handlers
that do none of that, `WritesThrough`, as all of the repository's do. Then
net/http is never bypassed (`ThroughInv`), and each step of the chain is a step
of the contract or a stutter, shown action by action.

*The log.* `LogSinkProofs` follows one record: what of it is on which stream is a
matter of where its goroutine is (`WhereOK`), and only the goroutine with the
mutex has a record under way. What stdout has of a record cut in two is then the
last on stdout until the rest is on stderr, which is what both orders rest on;
the drop counter counts the records whose rest stderr did not take whole.

*The gate.* `SchemaInv` says that a clean row names the migrations in effect.
It is inductive together with: a migrator past the lock holds it, keeps the row
dirty between its SQL and its clean mark, and has applied its target after its
SQL. The gate reads without the lock, and needs no more than that invariant.

*Resources and keys.* `HoldInv` states for each stage what a pod holds and has
deferred, and how its key follows from its configuration: what is open is
deferred, but for the pool while `db.Open` pings. So what is left when the
defers have run is nothing, whichever return was taken.

*Publication.* `StaleWithinMaxAge` follows from `GoneWithinAge`: a stored
document has been unpublished for at most its age. Ticks add one to both, and an
exchange that resets the age shows the document to be published: a 304 does,
because equal tags are tags of equal bodies (`TypeOK` ties each tag to its
body). `RulesInv` adds to `OneKeySetPublished` that, while `ruled`, a serving
pod with a key file publishes the Secret's key, that all pods that are not down
have the operator's key source, and that with a generated key at most one is not
down. When the last pod ends all of this holds of no pod, so `ruled` may begin
again.

*Readiness.* `TypeOK` and `AnswersAreTrue` are inductive together: a connection
in use or dialed for a probe has one holder, and that probe waits for it, so an
answer on it is an answer to that probe; a context keeps the reason of its end
until the next request, so a record of a time-out stays true.

*devkeygen.* `PathInv` says which file a run can be at in each stage, `KeepInv`
that a run without `-force` beyond its checks found none, and `PairInv` that a run
with the directory to itself has its whole private key there once it is at the
public one. `ExistingFilesKept` is an action property: it follows from `KeepInv`
on both sides of a step.

*Configuration.* Two environments are the same when they differ in spelling
only. Every check has the same verdict on both, and so has the sequence; the
configurations agree because `TrimRight` drops all slashes. For
`BlameIsComplete`, each check is shown to read only the variables it blames: on
two environments that agree on those it blames the same and has the same verdict
(`Accords`). So the check that refused the one environment refuses the other too,
unless an earlier check does so first: the repair that leaves the blamed
variables alone is refused (`StillRefused`). `TypeOK` collects what each check
leaves of the values it passes, numbers within 32 bits among them (`AtLeast`);
the pool's bounds agree because `minWithinMax` comes after both, and
`loadKeySource` leaves one key source. It speaks of `config.go`'s ranges only:
what the driver wants beyond them, such as a health check period above 0, is not
in the code.

*Details of errors.* What a reader sees of a map is a `Walk`, recursive in the
depth. The lemmas `WalkClosed` and `WalkWithin` characterise it, by a least
counterexample, as the smallest set of paths that has its root and goes on along
slots; all else uses only that. `Inv` says of the heap that it is well formed
(`Shaped`), that no map or array of an error leads out of its copy or into it
(`Apart`), and that what callers and errors hold is shallower than `MaxDepth`
(`Shallow`), so that no walk is cut off. A copy of such a map keeps all three
(`MergedShaped`, `MergedApart`, `MergedShallow`) and changes nothing that could
be seen before (`MergedTrees`); a write goes to a cell that no error reaches
(`CallersAreApart`). `RecordsAreRedacted` matches the paths of a redacted copy
with those of the original, in both directions, up to the first listed key
(`CopyToOriginal`, `OriginalToCopy`). `DetailsAssumption` asks that leaves
and typed values are told apart from cells, that a query's pairs are what they
are in `url.ParseQuery`, and that `MaxDepth` exceeds the details a handler begins with.

Model-checked only: liveness (`EveryRequestIsRecorded`, `StartupDecides`,
`NewDocumentsArrive`, `ProbesEnd`, `CloseReturns`, `ReadyAgain`,
`RepairsSucceed`) and what `ImplementsContract` and `ImplementsLogContract` say
beyond single steps, that is, the fairness of the two contracts: this needs
ENABLED, which is beyond the prover. All invariants and action properties that
the runs check are proved.

## 5. Plan

What would add most from here:

1. A composition of `Startup` and `Readiness`: a rolling update in which the
   load balancer follows `/health/ready`.
2. `RedactHeaders`, once a handler of the repository calls it.

## 6. Not modelled, and why

Cryptography, PEM and JWK encoding (external, pure); formats and time stamps
of the log, DSN and JSON layout (wording); routes and methods of the mux
(static table); test helpers, build files and documents. In-flight requests at
SIGTERM: `run()` installs no handler, so the process just ends; there is no
claim to check. That a kid fixed by `CORE_OIDC_KEY_ID` outlives the key it was
meant for: the requirements allow it (F-11), so it is a hazard of operation,
not a claim of the code. What waits for the plan is `not_modelled` or `partly` in
`PROJECT.json`.
