-------------------------- MODULE StartupProofs --------------------------
(* Proofs about Startup, for any number of pods, migrators and migrations. *)
EXTENDS Startup, TLAPS

(* What makes the gate's reading meaningful: a clean row names the          *)
(* migrations in effect.  It holds because whoever changes the row or the   *)
(* schema holds the lock, and keeps the row dirty while the two differ.     *)
SchemaInv ==
    /\ ~row.dirty => applied = row.version
    /\ \A m \in Migrators :
          /\ job[m].at \in {"locked", "begun", "ran"} => lock = m
          /\ job[m].at \in {"begun", "ran"} => row.dirty
          /\ job[m].at = "ran" => applied = job[m].target

Inv == TypeOK /\ SchemaInv /\ GateSeesWholeSchema

LEMMA TargetsInRange ==
  ASSUME NEW op, NEW version \in Versions
  PROVE  Targets(op, version) \subseteq Versions
  BY StartupAssumption DEF Targets, Versions

LEMMA InitInv == Init => Inv
<1> SUFFICES ASSUME Init PROVE Inv
  OBVIOUS
<1> USE StartupAssumption DEF Init
<1>1. TypeOK
  BY DEF TypeOK, Stages, Versions, Jobs, Idle, NothingRead
<1>2. SchemaInv
  BY DEF SchemaInv, Idle
<1>3. GateSeesWholeSchema
  BY DEF GateSeesWholeSchema, Passed, PastGate
<1> QED
  BY <1>1, <1>2, <1>3 DEF Inv

(* The pods' actions leave the schema alone. *)
LEMMA PodSchemaInv ==
  ASSUME SchemaInv, UNCHANGED <<db, dbVars>>
  PROVE  SchemaInv'
  BY DEF SchemaInv, dbVars

GateTypes == [version : Versions, dirty : BOOLEAN, applied : Versions]
LocalTypes ==
    /\ config \in [Pods -> Configs \cup {NoConfig}]
    /\ key \in [Pods -> {"none", "file", "generated"}]
    /\ gate \in [Pods -> GateTypes]
HeldTypes ==
    /\ pool \in [Pods -> BOOLEAN]
    /\ migrator \in [Pods -> {"none", "open", "broken"}]
    /\ deferred \in [Pods -> SUBSET {"pool.Close", "closeMigrator"}]

LEMMA PodTypes ==
  ASSUME TypeOK, NEW p \in Pods, NEW s \in Stages, Reach(p, s), LocalTypes', HeldTypes',
         UNCHANGED <<db, dbVars>>
  PROVE  TypeOK'
  BY DEF TypeOK, Reach, dbVars, LocalTypes, HeldTypes, GateTypes

LEMMA OldTypes ==
  ASSUME TypeOK
  PROVE  /\ LocalTypes /\ HeldTypes
         /\ UNCHANGED held => HeldTypes'
         /\ UNCHANGED locals => LocalTypes'
  BY DEF TypeOK, LocalTypes, HeldTypes, GateTypes, held, locals

LEMMA ForgetTypes ==
  ASSUME TypeOK, NEW p \in Pods, Forget(p)
  PROVE  /\ LocalTypes'
         /\ \A q \in Pods \ {p} : gate'[q] = gate[q]
<1>1. NothingRead \in GateTypes
  BY StartupAssumption DEF NothingRead, Versions, GateTypes
<1>2. LocalTypes
  BY OldTypes
<1> QED
  BY <1>1, <1>2 DEF LocalTypes, Forget

(* A pod that does not get past the gate has nothing to show for it; one that *)
(* moves on past the gate keeps what the gate read.                           *)
LEMMA BeforeGate ==
  ASSUME TypeOK, GateSeesWholeSchema, NEW p \in Pods, NEW s \in Stages, Reach(p, s),
         s \notin {"passed", "clean", "keyed", "built", "serving"},
         \A q \in Pods \ {p} : gate'[q] = gate[q]
  PROVE  GateSeesWholeSchema'
  BY DEF TypeOK, Reach, Passed, PastGate, GateSeesWholeSchema

LEMMA BeyondGate ==
  ASSUME TypeOK, GateSeesWholeSchema, NEW p \in Pods, NEW s \in Stages, Reach(p, s),
         Passed(p), UNCHANGED gate
  PROVE  GateSeesWholeSchema'
  BY DEF TypeOK, Reach, Passed, PastGate, GateSeesWholeSchema

LEMMA ReturnKeeps ==
  ASSUME Inv, NEW p \in Pods, Return(p), HeldTypes', UNCHANGED <<db, dbVars>>
  PROVE  Inv'
<1>1. TypeOK /\ Forget(p) /\ Reach(p, "returning") /\ "returning" \in Stages
  BY DEF Inv, Return, Stages
<1>2. TypeOK'
  BY <1>1, ForgetTypes, PodTypes
<1>3. GateSeesWholeSchema'
  BY <1>1, ForgetTypes, BeforeGate DEF Inv
<1> QED
  BY <1>2, <1>3, PodSchemaInv DEF Inv

LEMMA MovedKeeps ==
  ASSUME Inv, NEW p \in Pods, NEW s \in Stages, Reach(p, s),
         s \in {"passed", "clean", "keyed", "built", "serving"} => Passed(p),
         LocalTypes', HeldTypes', UNCHANGED <<gate, db, dbVars>>
  PROVE  Inv'
<1>1. TypeOK'
  BY PodTypes DEF Inv
<1>2. GateSeesWholeSchema'
  BY BeforeGate, BeyondGate DEF Inv
<1> QED
  BY <1>1, <1>2, PodSchemaInv DEF Inv

(* The gate passes on a clean row, which SchemaInv says is true, or on the   *)
(* dirty row without a version.                                              *)
LEMMA PassKeeps ==
  ASSUME Inv, NEW p \in Pods, Pass(p), ~GateRefuses(row.version, row.dirty),
         HeldTypes', UNCHANGED <<db, dbVars>>
  PROVE  Inv'
<1> DEFINE read == [version |-> row.version, dirty |-> row.dirty, applied |-> applied]
<1>1. read \in GateTypes
  BY DEF Inv, TypeOK, GateTypes
<1>2. \/ read.applied = read.version /\ ~read.dirty
      \/ read.version = 0 /\ read.dirty
  BY DEF Inv, TypeOK, SchemaInv, GateRefuses
<1>3. gate' = [gate EXCEPT ![p] = read] /\ Reach(p, "passed") /\ UNCHANGED <<config, key>>
  BY DEF Pass
<1> HIDE DEF read
<1>4. TypeOK'
  <2>1. LocalTypes
    BY OldTypes DEF Inv
  <2>2. LocalTypes'
    BY <1>1, <1>3, <2>1 DEF LocalTypes
  <2>3. "passed" \in Stages
    BY DEF Stages
  <2> QED
    BY <1>3, <2>2, <2>3, PodTypes DEF Inv
<1>5. GateSeesWholeSchema'
  BY <1>2, <1>3 DEF Inv, TypeOK, GateSeesWholeSchema, Passed, PastGate, Reach
<1> QED
  BY <1>4, <1>5, PodSchemaInv DEF Inv

LEMMA GoneKeeps ==
  ASSUME Inv, NEW p \in Pods, Gone(p)
  PROVE  Inv'
<1>1. TypeOK /\ Forget(p) /\ Reach(p, "down") /\ "down" \in Stages /\ UNCHANGED <<db, dbVars>>
  BY DEF Inv, Gone, Stages
<1>2. HeldTypes'
  BY <1>1, OldTypes DEF Gone, HeldTypes
<1>3. TypeOK'
  BY <1>1, <1>2, ForgetTypes, PodTypes
<1>4. GateSeesWholeSchema'
  BY <1>1, ForgetTypes, BeforeGate DEF Inv
<1> QED
  BY <1>1, <1>3, <1>4, PodSchemaInv DEF Inv

LEMMA PodStepKeeps ==
  ASSUME Inv, NEW p \in Pods, PodStep(p)
  PROVE  Inv'
<1> USE DEF At
<1>0. TypeOK /\ stage[p] \in Stages /\ LocalTypes /\ HeldTypes
  BY OldTypes DEF Inv, TypeOK
<1>1. CASE Bootstrap(p)
  <2>0. HeldTypes' /\ UNCHANGED <<db, dbVars>>
    BY <1>0, <1>1, OldTypes DEF Bootstrap
  <2>1. CASE Return(p)
    BY <2>0, <2>1, ReturnKeeps
  <2>2. ASSUME NEW c \in Configs, config' = [config EXCEPT ![p] = c],
               Reach(p, "bootstrapped"), UNCHANGED <<key, gate>>
        PROVE  Inv'
    <3>1. LocalTypes' /\ "bootstrapped" \in Stages
      BY <1>0, <2>2 DEF LocalTypes, Stages
    <3> QED
      BY <2>0, <2>2, <3>1, MovedKeeps
  <2> QED
    BY <1>1, <2>1, <2>2 DEF Bootstrap
<1>2. CASE Open(p)
  <2>1. HeldTypes' /\ UNCHANGED <<db, dbVars>>
    BY <1>0, <1>2 DEF Open, HeldTypes
  <2>2. CASE Return(p)
    BY <2>1, <2>2, ReturnKeeps
  <2>3. CASE Reach(p, "pinging") /\ UNCHANGED locals
    BY <1>0, <2>1, <2>3, OldTypes, MovedKeeps DEF Stages, locals
  <2> QED
    BY <1>2, <2>2, <2>3 DEF Open
<1>3. CASE PingAnswered(p)
  <2>1. HeldTypes' /\ Reach(p, "opened") /\ UNCHANGED <<locals, db, dbVars>>
    BY <1>0, <1>3 DEF PingAnswered, HeldTypes
  <2> QED
    BY <1>0, <2>1, OldTypes, MovedKeeps DEF Stages, locals
<1>4. CASE PingFails(p)
  <2>1. HeldTypes'
    BY <1>0, <1>4 DEF PingFails, HeldTypes
  <2> QED
    BY <1>4, <2>1, ReturnKeeps DEF PingFails
<1>5. CASE NewMigrator(p)
  <2>1. HeldTypes' /\ Reach(p, "migrator") /\ UNCHANGED <<locals, db, dbVars>>
    BY <1>0, <1>5 DEF NewMigrator, HeldTypes
  <2> QED
    BY <1>0, <2>1, OldTypes, MovedKeeps DEF Stages, locals
<1>6. CASE NewMigratorFails(p)
  BY <1>0, <1>6, OldTypes, ReturnKeeps DEF NewMigratorFails
<1>7. CASE AssertClean(p)
  <2>1. HeldTypes' /\ UNCHANGED <<db, dbVars>>
    BY <1>0, <1>7, OldTypes DEF AssertClean
  <2>2. CASE Reach(p, "refused") /\ UNCHANGED locals
    BY <1>0, <2>1, <2>2, OldTypes, MovedKeeps DEF Stages, locals
  <2> QED
    BY <1>7, <2>1, <2>2, PassKeeps DEF AssertClean
<1>8. CASE AssertCleanReturns(p)
  <2>1. HeldTypes' /\ UNCHANGED <<db, dbVars>>
    BY <1>0, <1>8 DEF AssertCleanReturns, HeldTypes
  <2>2. CASE At(p, "passed") /\ Reach(p, "clean") /\ UNCHANGED locals
    BY <1>0, <2>1, <2>2, OldTypes, MovedKeeps DEF Stages, locals, Passed
  <2>3. CASE Return(p)
    BY <2>1, <2>3, ReturnKeeps
  <2> QED
    BY <1>8, <2>2, <2>3 DEF AssertCleanReturns
<1>9. CASE InitKeystore(p)
  <2>0. HeldTypes' /\ UNCHANGED <<db, dbVars>> /\ At(p, "clean")
    BY <1>0, <1>9, OldTypes DEF InitKeystore
  <2>1. CASE Return(p)
    BY <2>0, <2>1, ReturnKeeps
  <2>2. CASE /\ InitKeySource(config[p]) \in {"file", "generated"}
             /\ key' = [key EXCEPT ![p] = InitKeySource(config[p])]
             /\ Reach(p, "keyed")
             /\ UNCHANGED <<config, gate>>
    <3>1. LocalTypes' /\ "keyed" \in Stages /\ Passed(p)
      BY <1>0, <2>0, <2>2 DEF LocalTypes, Stages, Passed, PastGate
    <3> QED
      BY <2>0, <2>2, <3>1, MovedKeeps
  <2> QED
    BY <1>9, <2>1, <2>2 DEF InitKeystore
<1>10. CASE NewServer(p) \/ Listen(p) \/ ServerFails(p)
  <2>1. HeldTypes' /\ UNCHANGED <<db, dbVars>> /\ Passed(p)
    BY <1>0, <1>10, OldTypes DEF NewServer, Listen, ServerFails, Passed, PastGate
  <2>2. CASE (Reach(p, "built") \/ Reach(p, "serving")) /\ UNCHANGED locals
    BY <1>0, <2>1, <2>2, OldTypes, MovedKeeps DEF Stages, locals
  <2>3. CASE Return(p)
    BY <2>1, <2>3, ReturnKeeps
  <2> QED
    BY <1>10, <2>2, <2>3 DEF NewServer, Listen, ServerFails
<1>11. CASE RunReturns(p)
  <2>1. HeldTypes' /\ Reach(p, "returned") /\ UNCHANGED <<locals, db, dbVars>>
    BY <1>0, <1>11 DEF RunReturns, HeldTypes
  <2> QED
    BY <1>0, <2>1, OldTypes, MovedKeeps DEF Stages, locals
<1>12. CASE OsExit(p) \/ Kill(p)
  BY <1>12, GoneKeeps DEF OsExit, Kill
<1> QED
  BY <1>1, <1>2, <1>3, <1>4, <1>5, <1>6, <1>7, <1>8, <1>9, <1>10, <1>11, <1>12 DEF PodStep

---------------------------------------------------------------------------
(* Migrations, failures and repairs leave the pods alone, but change what    *)
(* SchemaInv speaks of.                                                      *)

LEMMA OthersKeepPods ==
  ASSUME GateSeesWholeSchema, UNCHANGED <<stage, gate>>
  PROVE  GateSeesWholeSchema'
  BY DEF GateSeesWholeSchema, Passed, PastGate

LEMMA FinishTypes ==
  ASSUME TypeOK, NEW m \in Migrators, Finish(m)
  PROVE  job' \in [Migrators -> Jobs] /\ lock' \in Migrators \cup {None}
<1>1. Idle \in Jobs
  BY StartupAssumption DEF Idle, Jobs, Versions
<1> QED
  BY <1>1 DEF Finish, TypeOK

LEMMA AdvanceTypes ==
  ASSUME TypeOK, NEW m \in Migrators,
         NEW s \in {"idle", "waiting", "locked", "begun", "ran"}, Advance(m, s)
  PROVE  job' \in [Migrators -> Jobs]
  BY DEF Advance, TypeOK, Jobs

LEMMA MigratorTypes ==
  ASSUME TypeOK, NEW m \in Migrators, MigratorStep(m)
  PROVE  TypeOK'
<1> DEFINE Rest == /\ row' \in [version : Versions, dirty : BOOLEAN]
                   /\ applied' \in Versions
                   /\ lock' \in Migrators \cup {None}
                   /\ job' \in [Migrators -> Jobs]
<1>0. TypeOK /\ 0 \in Versions /\ job[m] \in Jobs /\ job[m].target \in Versions
  BY StartupAssumption DEF TypeOK, Versions, Jobs
<1>1. ASSUME RunUp(m) \/ RunDown(m) PROVE Rest
  BY <1>0, <1>1 DEF RunUp, RunDown, TypeOK, Jobs
<1>2. ASSUME Lock(m) PROVE Rest
  BY <1>0, <1>2, FinishTypes, AdvanceTypes DEF Lock, TypeOK
<1>3. ASSUME Begin(m) PROVE Rest
  <2>1. CASE Finish(m) /\ UNCHANGED row
    BY <1>0, <1>3, <2>1, FinishTypes DEF Begin, TypeOK
  <2>2. ASSUME NEW v \in Targets(job[m].op, row.version),
               row' = [version |-> v, dirty |-> TRUE],
               job' = [job EXCEPT ![m].at = "begun", ![m].target = v],
               UNCHANGED lock
        PROVE  Rest
    <3>1. v \in Versions
      BY <2>2, TargetsInRange DEF TypeOK
    <3>2. job' \in [Migrators -> Jobs]
      BY <1>0, <2>2, <3>1 DEF TypeOK, Jobs
    <3> QED
      BY <1>0, <1>3, <2>2, <3>1, <3>2 DEF Begin, TypeOK
  <2> QED
    BY <1>3, <2>1, <2>2 DEF Begin
<1>4. ASSUME Run(m) PROVE Rest
  BY <1>0, <1>4, FinishTypes, AdvanceTypes DEF Run, TypeOK
<1>5. ASSUME Commit(m) PROVE Rest
  BY <1>0, <1>5, FinishTypes, AdvanceTypes DEF Commit, TypeOK
<1>6. ASSUME Abort(m) PROVE Rest
  BY <1>0, <1>6, FinishTypes DEF Abort, TypeOK
<1>7. Rest
  BY <1>1, <1>2, <1>3, <1>4, <1>5, <1>6 DEF MigratorStep
<1>8. UNCHANGED <<podVars, db>>
  BY DEF MigratorStep, RunUp, RunDown, Lock, Begin, Run, Commit, Abort
<1> QED
  BY <1>7, <1>8 DEF TypeOK, podVars

LEMMA MigratorSchemaInv ==
  ASSUME TypeOK, SchemaInv, NEW m \in Migrators, MigratorStep(m)
  PROVE  SchemaInv'
<1> USE StartupAssumption DEF TypeOK, SchemaInv, Doing, Advance, Finish, Jobs, Idle
<1>1. CASE RunUp(m) \/ RunDown(m)
  <2>1. job'[m].at = "waiting" /\ \A n \in Migrators \ {m} : job'[n] = job[n]
    BY <1>1 DEF RunUp, RunDown
  <2>2. UNCHANGED <<row, applied, lock>>
    BY <1>1 DEF RunUp, RunDown
  <2> QED
    BY <2>1, <2>2
<1>2. CASE Lock(m)
  BY <1>2 DEF Lock
<1>3. CASE Begin(m)
  BY <1>3 DEF Begin
<1>4. CASE Run(m)
  <2>1. CASE applied' = job[m].target /\ Advance(m, "ran") /\ UNCHANGED lock
    <3>1. row.dirty /\ row' = row /\ lock = m
      BY <1>4 DEF Run
    <3>2. \A n \in Migrators \ {m} : job'[n] = job[n] /\ lock # n
      BY <2>1, <3>1
    <3>3. job'[m].at = "ran" /\ applied' = job'[m].target
      BY <2>1
    <3>4. \A n \in Migrators \ {m} : job[n].at \notin {"locked", "begun", "ran"}
      BY <3>2
    <3>5. lock' = m
      BY <2>1, <3>1
    <3> QED
      BY <3>1, <3>2, <3>3, <3>4, <3>5
  <2>2. CASE Finish(m) /\ UNCHANGED applied
    BY <1>4, <2>2 DEF Run
  <2> QED
    BY <1>4, <2>1, <2>2 DEF Run
<1>5. CASE Commit(m)
  BY <1>5 DEF Commit
<1>6. CASE Abort(m)
  BY <1>6 DEF Abort
<1> QED
  BY <1>1, <1>2, <1>3, <1>4, <1>5, <1>6 DEF MigratorStep

LEMMA MigratorStepKeeps ==
  ASSUME Inv, NEW m \in Migrators, MigratorStep(m)
  PROVE  Inv'
<1>1. TypeOK' /\ SchemaInv'
  BY MigratorTypes, MigratorSchemaInv DEF Inv
<1>2. UNCHANGED <<stage, gate>>
  BY DEF MigratorStep, RunUp, RunDown, Lock, Begin, Run, Commit, Abort, podVars
<1> QED
  BY <1>1, <1>2, OthersKeepPods DEF Inv

LEMMA ForceKeeps ==
  ASSUME Inv, ForceVersion
  PROVE  Inv'
<1>1. TypeOK'
  BY DEF Inv, TypeOK, ForceVersion, podVars
<1>2. SchemaInv'
  BY StartupAssumption DEF Inv, ForceVersion, SchemaInv, TypeOK
<1> QED
  BY <1>1, <1>2, OthersKeepPods DEF Inv, ForceVersion, podVars

LEMMA DatabaseKeeps ==
  ASSUME Inv, DbFails \/ DbHangs \/ DbRecovers
  PROVE  Inv'
<1> USE DEF Inv
<1>1. CASE DbFails
  <2>1. Idle \in Jobs
    BY StartupAssumption DEF Idle, Jobs, Versions
  <2>2. TypeOK'
    BY <1>1, <2>1 DEF DbFails, TypeOK, locals
  <2>3. SchemaInv'
    BY <1>1 DEF DbFails, SchemaInv, Idle
  <2> QED
    BY <1>1, <2>2, <2>3, OthersKeepPods DEF DbFails, locals
<1>2. CASE DbHangs \/ DbRecovers
  <2>1. TypeOK' /\ SchemaInv' /\ UNCHANGED <<stage, gate>>
    BY <1>2 DEF DbHangs, DbRecovers, TypeOK, SchemaInv, podVars, dbVars
  <2> QED
    BY <2>1, OthersKeepPods
<1> QED
  BY <1>1, <1>2

LEMMA StutterKeeps ==
  ASSUME Inv, UNCHANGED vars
  PROVE  Inv'
  BY DEF Inv, vars, TypeOK, SchemaInv, GateSeesWholeSchema, Passed, PastGate

---------------------------------------------------------------------------
(* The inductive invariant, and what follows from it. *)
THEOREM StartupInv == Safety => []Inv
<1>1. Inv /\ [Next]_vars => Inv'
  <2> SUFFICES ASSUME Inv, [Next]_vars PROVE Inv'
    OBVIOUS
  <2> QED
    BY PodStepKeeps, MigratorStepKeeps, ForceKeeps, DatabaseKeeps, StutterKeeps DEF Next
<1> QED
  BY InitInv, <1>1, PTL DEF Safety

(* For any number of pods, migrators and migrations, every variable of the   *)
(* start (main.run, dbmigrate, schema_migrations) keeps its type.            *)
THEOREM StartupTypeOK == Safety => []TypeOK
<1>1. Inv => TypeOK
  BY DEF Inv
<1> QED
  BY StartupInv, <1>1, PTL

(* For any number of pods, migrators and migrations: a pod past the gate of  *)
(* AssertClean started on a schema that was, when the gate read it, exactly  *)
(* at the version schema_migrations named (or had no version).               *)
THEOREM GateCorrect == Safety => []GateSeesWholeSchema
<1>1. Inv => GateSeesWholeSchema
  BY DEF Inv
<1> QED
  BY StartupInv, <1>1, PTL

---------------------------------------------------------------------------
(* What a pod holds at each stage of run(), and where its key came from.     *)

Keyed(p) == stage[p] \in {"keyed", "built", "serving"}
InGate(p) == stage[p] \in {"migrator", "passed", "refused"}

(* What is open is deferred, but for the pool while db.Open still has it. *)
HoldsAt(p) ==
    /\ pool[p] <=> stage[p] = "pinging" \/ "pool.Close" \in deferred[p]
    /\ migrator[p] # "none" <=> "closeMigrator" \in deferred[p]
    /\ "closeMigrator" \in deferred[p] <=> InGate(p)
    /\ stage[p] \in {"down", "bootstrapped", "pinging", "returned"} =>
           "pool.Close" \notin deferred[p]
    /\ stage[p] = "opened" \/ InGate(p) \/ PastGate(p) => "pool.Close" \in deferred[p]
    /\ Running(p) => config[p] \in Configs /\ LoadKeySource(config[p])
    /\ Keyed(p) => /\ key[p] = InitKeySource(config[p])
                   /\ key[p] \in {"file", "generated"}

HoldInv == \A p \in Pods : HoldsAt(p)

LEMMA InitHoldInv == Init => HoldInv
  BY DEF Init, HoldInv, HoldsAt, Running, Keyed, InGate, PastGate

(* Only the pod that steps is disturbed. *)
LEMMA HoldLocal ==
  ASSUME TypeOK, HoldInv, NEW p \in Pods, PodStep(p), NEW q \in Pods, q # p
  PROVE  /\ stage'[q] = stage[q] /\ pool'[q] = pool[q] /\ migrator'[q] = migrator[q]
         /\ deferred'[q] = deferred[q] /\ config'[q] = config[q] /\ key'[q] = key[q]
  BY DEF PodStep, Bootstrap, Open, PingAnswered, PingFails, NewMigrator, NewMigratorFails,
         AssertClean, AssertCleanReturns, InitKeystore, NewServer, Listen, ServerFails,
         RunReturns, OsExit, Kill, Gone, Return, Forget, Pass, Reach, held, locals, TypeOK

(* A return leaves no more open than what is deferred. *)
LEMMA ReturnHolds ==
  ASSUME TypeOK, NEW p \in Pods, Return(p),
         pool'[p] <=> "pool.Close" \in deferred'[p],
         migrator'[p] = "none", "closeMigrator" \notin deferred'[p]
  PROVE  HoldsAt(p)'
  BY DEF TypeOK, Return, Forget, Reach, HoldsAt, Running, Keyed, InGate, PastGate

LEMMA PodHolds ==
  ASSUME TypeOK, HoldInv, NEW p \in Pods, PodStep(p)
  PROVE  HoldsAt(p)'
<1> USE DEF At, Reach
<1>0. TypeOK /\ HoldsAt(p)
  BY DEF HoldInv
<1>1. CASE Bootstrap(p)
  BY <1>0, <1>1, ReturnHolds
     DEF Bootstrap, held, TypeOK, HoldsAt, Running, Keyed, InGate, PastGate
<1>2. CASE Open(p)
  BY <1>0, <1>2, ReturnHolds
     DEF Open, locals, TypeOK, HoldsAt, Running, Keyed, InGate, PastGate
<1>3. CASE PingAnswered(p)
  BY <1>0, <1>3 DEF PingAnswered, locals, TypeOK, HoldsAt, Running, Keyed, InGate, PastGate
<1>4. CASE PingFails(p)
  BY <1>0, <1>4, ReturnHolds DEF PingFails, TypeOK, HoldsAt, InGate
<1>5. CASE NewMigrator(p)
  BY <1>0, <1>5 DEF NewMigrator, locals, TypeOK, HoldsAt, Running, Keyed, InGate, PastGate
<1>6. CASE NewMigratorFails(p)
  BY <1>0, <1>6, ReturnHolds DEF NewMigratorFails, held, TypeOK, HoldsAt, InGate
<1>7. CASE AssertClean(p)
  BY <1>0, <1>7
     DEF AssertClean, Pass, held, locals, TypeOK, HoldsAt, Running, Keyed, InGate, PastGate
<1>8. CASE AssertCleanReturns(p)
  <2>1. /\ migrator'[p] = "none" /\ deferred'[p] = deferred[p] \ {"closeMigrator"}
        /\ pool'[p] = pool[p] /\ (pool[p] <=> "pool.Close" \in deferred[p])
        /\ "pool.Close" \in deferred[p]
    BY <1>0, <1>8 DEF AssertCleanReturns, TypeOK, HoldsAt, InGate
  <2>2. CASE Return(p)
    BY <1>0, <2>1, <2>2, ReturnHolds
  <2>3. CASE At(p, "passed") /\ Reach(p, "clean") /\ UNCHANGED locals
    BY <1>0, <2>1, <2>3 DEF locals, TypeOK, HoldsAt, Running, Keyed, InGate, PastGate
  <2> QED
    BY <1>8, <2>2, <2>3 DEF AssertCleanReturns
<1>9. CASE InitKeystore(p)
  BY <1>0, <1>9, ReturnHolds
     DEF InitKeystore, held, TypeOK, HoldsAt, Running, Keyed, InGate, PastGate
<1>10. CASE NewServer(p) \/ Listen(p) \/ ServerFails(p)
  BY <1>0, <1>10, ReturnHolds DEF NewServer, Listen, ServerFails, held, locals, TypeOK,
     HoldsAt, Running, Keyed, InGate, PastGate
<1>11. CASE RunReturns(p)
  BY <1>0, <1>11 DEF RunReturns, locals, TypeOK, HoldsAt, Running, Keyed, InGate, PastGate
<1>12. CASE OsExit(p) \/ Kill(p)
  BY <1>0, <1>12
     DEF OsExit, Kill, Gone, Forget, TypeOK, HoldsAt, Running, Keyed, InGate, PastGate
<1> QED
  BY <1>1, <1>2, <1>3, <1>4, <1>5, <1>6, <1>7, <1>8, <1>9, <1>10, <1>11, <1>12 DEF PodStep

LEMMA StepHoldInv ==
  ASSUME TypeOK, HoldInv, [Next]_vars
  PROVE  HoldInv'
<1> USE DEF HoldInv, HoldsAt, Running, Keyed, InGate, PastGate
<1>1. ASSUME NEW p \in Pods, PodStep(p) PROVE HoldInv'
  <2>1. \A q \in Pods \ {p} : HoldsAt(q)'
    BY <1>1, HoldLocal
  <2>2. HoldsAt(p)'
    BY <1>1, PodHolds
  <2> QED
    BY <2>1, <2>2
<1>2. ASSUME UNCHANGED <<stage, config, pool, migrator, deferred, key>> PROVE HoldInv'
  BY <1>2
<1>3. ASSUME NEW m \in Migrators, MigratorStep(m) PROVE HoldInv'
  BY <1>2, <1>3
     DEF MigratorStep, RunUp, RunDown, Lock, Begin, Run, Commit, Abort, podVars
<1>4. CASE DbFails
  BY <1>4 DEF DbFails, locals, TypeOK
<1> QED
  BY <1>1, <1>2, <1>3, <1>4 DEF Next, ForceVersion, DbHangs, DbRecovers, vars, podVars

THEOREM StartupHoldInv == Safety => []HoldInv
<1>1. TypeOK /\ HoldInv /\ [Next]_vars => HoldInv'
  BY StepHoldInv
<1> QED
  BY InitHoldInv, StartupTypeOK, <1>1, PTL DEF Safety

(* For any number of pods: whichever of its returns run() takes, the pool and *)
(* the migrator it had opened by then are closed; a pod past the gate has its *)
(* pool and no migrator, and a serving one its key.                           *)
THEOREM ResourcesCorrect == Safety => []ResourcesHeld
<1>1. HoldInv => ResourcesHeld
  BY DEF HoldInv, HoldsAt, ResourcesHeld, Keyed, InGate, PastGate
<1> QED
  BY StartupHoldInv, <1>1, PTL

(* For any environments: keystore.Init never reaches the branch config.Load  *)
(* is to exclude, prod signs with a file's key, and a configured file is     *)
(* what is signed with.                                                      *)
THEOREM KeySourceCorrect == Safety => []KeySourceSafe
<1>1. ASSUME HoldInv PROVE KeySourceSafe
  <2> SUFFICES ASSUME NEW p \in Pods
               PROVE /\ Running(p) => InitKeySource(config[p]) # "unreachable"
                     /\ stage[p] = "serving" =>
                           /\ config[p].env = "prod" => key[p] = "file"
                           /\ (key[p] = "file") = (config[p].keyFile # "")
    BY DEF KeySourceSafe, Running
  <2>1. Running(p) => /\ config[p].keyFile \in KeyFiles /\ config[p].devGen \in BOOLEAN
                      /\ LoadKeySource(config[p])
    BY <1>1 DEF HoldInv, HoldsAt, Configs
  <2>2. stage[p] = "serving" => /\ Running(p) /\ key[p] = InitKeySource(config[p])
                                /\ key[p] \in {"file", "generated"}
    BY <1>1 DEF HoldInv, HoldsAt, Keyed, Running
  <2> QED
    BY <2>1, <2>2 DEF KeyFiles, LoadKeySource, InitKeySource
<1> QED
  BY StartupHoldInv, <1>1, PTL
==========================================================================
