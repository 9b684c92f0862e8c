----------------------------- MODULE Startup -----------------------------
(***************************************************************************)
(* The start of core processes against a database that migrations change.   *)
(*                                                                          *)
(* Each pod runs  run()  of cmd/core: configuration, connection pool, the   *)
(* start gate (dbmigrate.AssertClean refuses a dirty schema_migrations),    *)
(* the key store, the HTTP server.  Migrations are other processes (`make   *)
(* migrate-up`, `-down`, `-force`) and start or fail at any time: starting  *)
(* a server and migrating are kept apart on purpose.  golang-migrate and    *)
(* PostgreSQL are external: schema_migrations is one row, marked dirty      *)
(* before a migration's SQL runs and clean after it, under an advisory lock *)
(* that migrate.New also takes for a moment.                                *)
(*                                                                          *)
(* A definition marked "Mutant:" is a plausible mistake in the code behind  *)
(* the definition that follows it; no specification uses it.                *)
(***************************************************************************)
EXTENDS Naturals, FiniteSets

CONSTANTS
    Pods,           \* core processes, restarted by their supervisor
    Migrators,      \* terminals from which migrations are run
    MaxVersion,     \* migrations in db/migrations, numbered from 1
    Environments,   \* the values of CORE_ENV in use, among prod, staging, dev
    None            \* no process

ASSUME StartupAssumption ==
    /\ MaxVersion \in Nat
    /\ None \notin Pods \cup Migrators
    /\ Pods \cap Migrators = {}
    /\ Environments \subseteq {"prod", "staging", "dev"}

VARIABLES
    stage,      \* how far run() of a pod is
    config,     \* a pod's configuration, as far as it decides the key
    pool,       \* whether a pod holds its connection pool
    migrator,   \* the golang-migrate instance of a pod, whose one connection
                \* does not come back once lost
    deferred,   \* the calls that a pod's run() and AssertClean() have deferred
    key,        \* where the signing key of a pod came from
    gate,       \* what the gate of a pod read, and the schema it read it of
                \* (kept for the properties)
    db,         \* whether PostgreSQL answers, refuses or keeps its clients waiting
    row,        \* schema_migrations: version 0 when there is none, and dirty
    applied,    \* how many migrations' SQL is in effect
    lock,       \* the process holding golang-migrate's advisory lock
    job         \* what a migrator is doing

podVars == <<stage, config, pool, migrator, deferred, key, gate>>
dbVars == <<row, applied, lock, job>>
held == <<pool, migrator, deferred>>
locals == <<config, key, gate>>
vars == <<stage, config, pool, migrator, deferred, key, gate, db, row, applied, lock, job>>

---------------------------------------------------------------------------
(* Configuration: config.loadKeySource and keystore.Init.                   *)

KeyFiles == {"", "good", "broken"}     \* CORE_OIDC_KEY_FILE: a path, or unset
Configs == [env : Environments, keyFile : KeyFiles, devGen : BOOLEAN]
NoConfig == [env |-> "", keyFile |-> "", devGen |-> FALSE]

\* Mutant: outside prod, no key source is taken for the default one.
LoadKeySourceDefaulted(c) ==
    IF c.env = "prod" THEN c.keyFile # "" /\ ~c.devGen
    ELSE ~(c.keyFile # "" /\ c.devGen)

\* prod wants a key file; elsewhere it is a file or a generated key, not both.
LoadKeySource(c) ==
    IF c.env = "prod" THEN c.keyFile # "" /\ ~c.devGen
    ELSE (c.keyFile # "") # c.devGen

\* Mutant: the generated key comes first, and steps in for a broken file.
InitKeySourceLenient(c) ==
    IF c.devGen \/ c.keyFile = "broken" THEN "generated"
    ELSE IF c.keyFile # "" THEN "file" ELSE "unreachable"

\* The key file comes first; "unreachable" is the branch that relies on
\* config.Load having refused a configuration without a key source.
InitKeySource(c) ==
    CASE c.keyFile = "good" -> "file"
      [] c.keyFile = "broken" -> "error"
      [] c.keyFile = "" /\ c.devGen -> "generated"
      [] OTHER -> "unreachable"

---------------------------------------------------------------------------
NothingRead == [version |-> 0, dirty |-> FALSE, applied |-> 0]
Idle == [at |-> "idle", op |-> "none", target |-> 0]

Init ==
    /\ stage = [p \in Pods |-> "down"]
    /\ config = [p \in Pods |-> NoConfig]
    /\ pool = [p \in Pods |-> FALSE]
    /\ migrator = [p \in Pods |-> "none"]
    /\ deferred = [p \in Pods |-> {}]
    /\ key = [p \in Pods |-> "none"]
    /\ gate = [p \in Pods |-> NothingRead]
    /\ db = "up"
    /\ row = [version |-> 0, dirty |-> FALSE]
    /\ applied = 0
    /\ lock = None
    /\ job = [m \in Migrators |-> Idle]

At(p, s) == stage[p] = s
Reach(p, s) == stage' = [stage EXCEPT ![p] = s]

Forget(p) ==
    /\ config' = [config EXCEPT ![p] = NoConfig]
    /\ key' = [key EXCEPT ![p] = "none"]
    /\ gate' = [gate EXCEPT ![p] = NothingRead]

\* A return statement of run(): what it computed is gone, what it opened is left
\* to the calls it has deferred.
Return(p) == Reach(p, "returning") /\ Forget(p)

\* bootstrap: the configuration is read and checked, the logger and the event
\* ID are made; any of the three may fail.
Bootstrap(p) ==
    /\ At(p, "down")
    /\ \/ \E c \in Configs :
             /\ LoadKeySource(c)
             /\ config' = [config EXCEPT ![p] = c]
             /\ Reach(p, "bootstrapped")
             /\ UNCHANGED <<key, gate>>
       \/ Return(p)
    /\ UNCHANGED <<held, db, dbVars>>

\* db.Open: a DSN or a pool configuration that is refused leaves nothing open.
Open(p) ==
    /\ At(p, "bootstrapped")
    /\ \/ /\ pool' = [pool EXCEPT ![p] = TRUE]
          /\ Reach(p, "pinging")
          /\ UNCHANGED locals
       \/ Return(p) /\ UNCHANGED pool
    /\ UNCHANGED <<migrator, deferred, db, dbVars>>

\* The first Ping is answered, after however long, and run() defers pool.Close.
PingAnswered(p) ==
    /\ At(p, "pinging") /\ db = "up"
    /\ deferred' = [deferred EXCEPT ![p] = @ \cup {"pool.Close"}]
    /\ Reach(p, "opened")
    /\ UNCHANGED <<pool, migrator, locals, db, dbVars>>

\* Mutant: db.Open leaves its pool to the caller, who has not deferred anything.
PingFailsLeavingPool(p) ==
    /\ At(p, "pinging")
    /\ Return(p)
    /\ UNCHANGED <<held, db, dbVars>>

\* It fails, also with PostgreSQL up (a wrong password, no connection left):
\* db.Open closes the pool itself.
PingFails(p) ==
    /\ At(p, "pinging")
    /\ pool' = [pool EXCEPT ![p] = FALSE]
    /\ Return(p)
    /\ UNCHANGED <<migrator, deferred, db, dbVars>>

\* Mutant: the migrator is left to AssertClean's caller.
NewMigratorUndeferred(p) ==
    /\ At(p, "opened") /\ db = "up" /\ lock = None
    /\ migrator' = [migrator EXCEPT ![p] = "open"]
    /\ Reach(p, "migrator")
    /\ UNCHANGED <<pool, deferred, locals, db, dbVars>>

\* AssertClean, first half: migrate.New connects and, holding the advisory lock
\* for it, makes sure that schema_migrations exists.  It waits for the lock, so
\* for a migration that is running, without a timeout.
NewMigrator(p) ==
    /\ At(p, "opened") /\ db = "up" /\ lock = None
    /\ migrator' = [migrator EXCEPT ![p] = "open"]
    /\ deferred' = [deferred EXCEPT ![p] = @ \cup {"closeMigrator"}]
    /\ Reach(p, "migrator")
    /\ UNCHANGED <<pool, locals, db, dbVars>>

\* migrate.New fails, for want of the migrations' directory for instance.
NewMigratorFails(p) ==
    /\ At(p, "opened")
    /\ Return(p)
    /\ UNCHANGED <<held, db, dbVars>>

\* Mutant: the dirty flag is not looked at.
GateRefusesNothing(version, dirty) == FALSE

\* What AssertClean makes of Version(): golang-migrate reports a row without a
\* version as ErrNilVersion, dirty or not, and that means clean to AssertClean.
GateRefuses(version, dirty) == version # 0 /\ dirty

Pass(p) ==
    /\ gate' = [gate EXCEPT ![p] = [version |-> row.version, dirty |-> row.dirty,
                                    applied |-> applied]]
    /\ Reach(p, "passed")
    /\ UNCHANGED <<config, key>>

\* Mutant: a dirty schema is polled until it is clean, instead of refused.
AssertCleanWaiting(p) ==
    /\ At(p, "migrator")
    /\ db = "up" /\ migrator[p] = "open"
    /\ ~GateRefuses(row.version, row.dirty)
    /\ Pass(p)
    /\ UNCHANGED <<held, db, dbVars>>

\* AssertClean, second half: the version is read without the lock.
AssertClean(p) ==
    /\ At(p, "migrator")
    /\ db = "up" \/ migrator[p] = "broken"
    /\ IF migrator[p] = "broken" \/ GateRefuses(row.version, row.dirty)
       THEN Reach(p, "refused") /\ UNCHANGED locals
       ELSE Pass(p)
    /\ UNCHANGED <<held, db, dbVars>>

\* AssertClean returns, whichever way: closeMigrator runs if it was deferred.
\* What Close has to say is logged only.
AssertCleanReturns(p) ==
    /\ stage[p] \in {"passed", "refused"}
    /\ migrator' = [migrator EXCEPT ![p] = IF "closeMigrator" \in deferred[p] THEN "none" ELSE @]
    /\ deferred' = [deferred EXCEPT ![p] = @ \ {"closeMigrator"}]
    /\ IF At(p, "passed") THEN Reach(p, "clean") /\ UNCHANGED locals ELSE Return(p)
    /\ UNCHANGED <<pool, db, dbVars>>

\* Mutant: the error of keystore.Init is not looked at.
InitKeystoreUnchecked(p) ==
    /\ At(p, "clean")
    /\ key' = [key EXCEPT ![p] = InitKeySource(config[p])]
    /\ Reach(p, "keyed")
    /\ UNCHANGED <<config, gate, held, db, dbVars>>

InitKeystore(p) ==
    /\ At(p, "clean")
    /\ LET source == InitKeySource(config[p]) IN
       IF source \in {"file", "generated"}
       THEN /\ key' = [key EXCEPT ![p] = source]
            /\ Reach(p, "keyed")
            /\ UNCHANGED <<config, gate>>
       ELSE Return(p)
    /\ UNCHANGED <<held, db, dbVars>>

\* server.New, then ListenAndServe: each may fail, the latter also later on.
NewServer(p) ==
    /\ At(p, "keyed")
    /\ (Reach(p, "built") /\ UNCHANGED locals) \/ Return(p)
    /\ UNCHANGED <<held, db, dbVars>>

Listen(p) ==
    /\ At(p, "built")
    /\ (Reach(p, "serving") /\ UNCHANGED locals) \/ Return(p)
    /\ UNCHANGED <<held, db, dbVars>>

ServerFails(p) == At(p, "serving") /\ Return(p) /\ UNCHANGED <<held, db, dbVars>>

\* run() is left: pool.Close runs if it was deferred.
RunReturns(p) ==
    /\ At(p, "returning")
    /\ pool' = [pool EXCEPT ![p] = @ /\ "pool.Close" \notin deferred[p]]
    /\ deferred' = [deferred EXCEPT ![p] = @ \ {"pool.Close"}]
    /\ Reach(p, "returned")
    /\ UNCHANGED <<migrator, locals, db, dbVars>>

\* The kernel and PostgreSQL take back what a process held.
Gone(p) ==
    /\ Reach(p, "down")
    /\ pool' = [pool EXCEPT ![p] = FALSE]
    /\ migrator' = [migrator EXCEPT ![p] = "none"]
    /\ deferred' = [deferred EXCEPT ![p] = {}]
    /\ Forget(p)
    /\ UNCHANGED <<db, dbVars>>

\* main() passes the exit code on.
OsExit(p) == At(p, "returned") /\ Gone(p)

\* SIGTERM and SIGKILL alike: run() installs no handler, and what it deferred
\* does not run.
Kill(p) == stage[p] \notin {"down", "returned"} /\ Gone(p)

PodStep(p) == \/ Bootstrap(p) \/ Open(p) \/ PingAnswered(p) \/ PingFails(p)
              \/ NewMigrator(p) \/ NewMigratorFails(p)
              \/ AssertClean(p) \/ AssertCleanReturns(p)
              \/ InitKeystore(p) \/ NewServer(p) \/ Listen(p)
              \/ ServerFails(p) \/ RunReturns(p) \/ OsExit(p) \/ Kill(p)

---------------------------------------------------------------------------
(* Migrations: dbmigrate.RunUp and RunDown, `make migrate-up` and `-down`.  *)
(* What follows their start is golang-migrate's.                            *)

Doing(m, s) == job[m].at = s
Advance(m, s) == job' = [job EXCEPT ![m].at = s]

\* The job ends, well or not; closing its connection releases the lock.
Finish(m) ==
    /\ job' = [job EXCEPT ![m] = Idle]
    /\ lock' = IF lock = m THEN None ELSE lock

\* All pending migrations are to be applied ...
RunUp(m) ==
    /\ Doing(m, "idle") /\ db = "up"
    /\ job' = [job EXCEPT ![m] = [at |-> "waiting", op |-> "up", target |-> 0]]
    /\ UNCHANGED <<podVars, db, row, applied, lock>>

\* ... or the last one undone.
RunDown(m) ==
    /\ Doing(m, "idle") /\ db = "up"
    /\ job' = [job EXCEPT ![m] = [at |-> "waiting", op |-> "down", target |-> 0]]
    /\ UNCHANGED <<podVars, db, row, applied, lock>>

\* The lock is taken, unless it stays taken for 15 seconds.
Lock(m) ==
    /\ Doing(m, "waiting")
    /\ \/ db = "up" /\ lock = None /\ lock' = m /\ Advance(m, "locked")
       \/ lock # None /\ Finish(m)
    /\ UNCHANGED <<podVars, db, row, applied>>

\* The version to go to next, if any: no migration left is no error.
Targets(op, version) ==
    IF op = "up" THEN {v \in {version + 1} : v <= MaxVersion}
    ELSE {v \in 0..MaxVersion : v + 1 = version}

\* A dirty row stops a job, without a version too; else the row is made dirty,
\* at the version the migration leads to.
Begin(m) ==
    /\ Doing(m, "locked") /\ db = "up"
    /\ IF row.dirty \/ Targets(job[m].op, row.version) = {}
       THEN Finish(m) /\ UNCHANGED row
       ELSE \E v \in Targets(job[m].op, row.version) :
              /\ row' = [version |-> v, dirty |-> TRUE]
              /\ job' = [job EXCEPT ![m].at = "begun", ![m].target = v]
              /\ UNCHANGED lock
    /\ UNCHANGED <<podVars, db, applied>>

\* The SQL of a migration is one implicit transaction: it takes effect as a
\* whole, or it fails as a whole and the row stays dirty.
Run(m) ==
    /\ Doing(m, "begun") /\ db = "up"
    /\ \/ applied' = job[m].target /\ Advance(m, "ran") /\ UNCHANGED lock
       \/ Finish(m) /\ UNCHANGED applied
    /\ UNCHANGED <<podVars, db, row>>

\* The row is made clean.  Up goes on to the next migration.
Commit(m) ==
    /\ Doing(m, "ran") /\ db = "up"
    /\ row' = [version |-> job[m].target, dirty |-> FALSE]
    /\ IF job[m].op = "up" THEN Advance(m, "locked") /\ UNCHANGED lock ELSE Finish(m)
    /\ UNCHANGED <<podVars, db, applied>>

Abort(m) ==
    /\ ~Doing(m, "idle")
    /\ Finish(m)
    /\ UNCHANGED <<podVars, db, row, applied>>

\* `make migrate-force VERSION=<n>`, by an operator who has looked and names
\* the version that is in effect.  golang-migrate itself takes any version.
ForceVersion ==
    /\ db = "up" /\ lock = None /\ row.dirty
    /\ row' = [version |-> applied, dirty |-> FALSE]
    /\ UNCHANGED <<podVars, db, applied, lock, job>>

\* PostgreSQL stops: its sessions end, and with them the advisory lock.
DbFails ==
    /\ db # "down" /\ db' = "down"
    /\ migrator' = [p \in Pods |-> IF migrator[p] = "open" THEN "broken" ELSE migrator[p]]
    /\ lock' = None
    /\ job' = [m \in Migrators |-> Idle]
    /\ UNCHANGED <<stage, pool, deferred, locals, row, applied>>

\* It takes connections and requests and answers none of them.
DbHangs == db = "up" /\ db' = "hung" /\ UNCHANGED <<podVars, dbVars>>

DbRecovers == db # "up" /\ db' = "up" /\ UNCHANGED <<podVars, dbVars>>

MigratorStep(m) == \/ RunUp(m) \/ RunDown(m) \/ Lock(m) \/ Begin(m)
                   \/ Run(m) \/ Commit(m) \/ Abort(m)

Next ==
    \/ \E p \in Pods : PodStep(p)
    \/ \E m \in Migrators : MigratorStep(m)
    \/ ForceVersion \/ DbFails \/ DbHangs \/ DbRecovers

Safety == Init /\ [][Next]_vars

\* A step that asks PostgreSQL ends: with its answer, or because it refuses.
PingEnds(p) == PingAnswered(p) \/ (db = "down" /\ PingFails(p))
NewMigratorEnds(p) == NewMigrator(p) \/ (db = "down" /\ NewMigratorFails(p))

\* run() never stops between two steps, and a migration that holds the lock is
\* over some time.  PostgreSQL hands an advisory lock to its waiters in the
\* order they came, so a pod gets it however many migrations are run.
Spec ==
    /\ Safety
    /\ \A p \in Pods :
          /\ WF_vars(Open(p)) /\ WF_vars(PingEnds(p)) /\ SF_vars(NewMigratorEnds(p))
          /\ WF_vars(AssertClean(p)) /\ WF_vars(AssertCleanReturns(p))
          /\ WF_vars(InitKeystore(p)) /\ WF_vars(NewServer(p)) /\ WF_vars(Listen(p))
          /\ WF_vars(RunReturns(p))
    /\ \A m \in Migrators : WF_vars(Begin(m)) /\ WF_vars(Run(m)) /\ WF_vars(Commit(m))

---------------------------------------------------------------------------
(* Properties.                                                              *)

Stages == {"down", "bootstrapped", "pinging", "opened", "migrator", "passed", "refused",
           "clean", "keyed", "built", "serving", "returning", "returned"}
Versions == 0..MaxVersion
Jobs == [at : {"idle", "waiting", "locked", "begun", "ran"},
         op : {"none", "up", "down"}, target : Versions]

\* The values the variables take: no migration is looked for beyond the files,
\* and no pod goes on with a key that could not be had.
TypeOK ==
    /\ stage \in [Pods -> Stages]
    /\ config \in [Pods -> Configs \cup {NoConfig}]
    /\ pool \in [Pods -> BOOLEAN]
    /\ migrator \in [Pods -> {"none", "open", "broken"}]
    /\ deferred \in [Pods -> SUBSET {"pool.Close", "closeMigrator"}]
    /\ key \in [Pods -> {"none", "file", "generated"}]
    /\ gate \in [Pods -> [version : Versions, dirty : BOOLEAN, applied : Versions]]
    /\ db \in {"up", "hung", "down"}
    /\ row \in [version : Versions, dirty : BOOLEAN]
    /\ applied \in Versions
    /\ lock \in Migrators \cup {None}
    /\ job \in [Migrators -> Jobs]

PastGate(p) == stage[p] \in {"clean", "keyed", "built", "serving"}
Passed(p) == PastGate(p) \/ stage[p] = "passed"
Running(p) == stage[p] \notin {"down", "returning", "returned"}

\* A pod goes on past the gate only if, when the gate read schema_migrations,
\* exactly the migrations up to that version were in effect: it never started
\* on a schema that a migration had left half-way, although it reads without
\* the lock and migrations run, fail and crash at any time.  A dirty row
\* without a version is the exception, see DirtyNeverServes.
GateSeesWholeSchema ==
    \A p \in Pods :
        Passed(p) => \/ gate[p].applied = gate[p].version /\ ~gate[p].dirty
                     \/ gate[p].version = 0 /\ gate[p].dirty

\* Whichever of its returns run() takes, it has closed what it had opened by
\* then: the pool, which db.Open has to close itself as long as run() has not
\* deferred it, and the golang-migrate instance with its connection of its own,
\* which is to be closed on both ways out of the gate and before the pod serves.
\* Nothing is closed early: a pod past the gate has its pool, a serving one its
\* key too.
ResourcesHeld ==
    \A p \in Pods :
        /\ stage[p] = "returned" => ~pool[p] /\ migrator[p] = "none"
        /\ PastGate(p) => pool[p] /\ migrator[p] = "none"
        /\ stage[p] = "serving" => key[p] # "none"

\* Two packages agree about the key: keystore.Init never meets a configuration
\* without a key source, which config.Load is relied on to refuse; a pod in
\* prod signs only with the key of a file; and where a key file is configured
\* nothing else is signed with, even if it cannot be read.
KeySourceSafe ==
    \A p \in Pods :
        /\ Running(p) => InitKeySource(config[p]) # "unreachable"
        /\ stage[p] = "serving" =>
              /\ config[p].env = "prod" => key[p] = "file"
              /\ (key[p] = "file") = (config[p].keyFile # "")

\* Whatever the database and the migrations do, a start comes to an end: the
\* process serves or run() returns (or it was killed).  It does not wait for a
\* dirty schema to be repaired, nor for good on the lock migrations hold.  It
\* does wait for a database that neither answers nor refuses, since neither the
\* first Ping nor the gate has a deadline, so that must not go on for good.
StartupDecides ==
    <>[](db # "hung") =>
        \A p \in Pods : stage[p] = "bootstrapped" ~> stage[p] \in {"serving", "returned", "down"}

\* The source says: the start stops when schema_migrations is dirty
\* (AssertClean, "dirty=true -> ErrDirty").  The code lets a dirty row without
\* a version through: Version() reports it as ErrNilVersion.
DirtyNeverServes ==
    \A p \in Pods : stage[p] = "serving" => ~gate[p].dirty
==========================================================================
