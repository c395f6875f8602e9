--------------------------- MODULE StartupProofs ---------------------------
(***************************************************************************)
(* What a start leaves behind, for any processes and any number of         *)
(* migrations: StartedOnFullSchema, OneMigrationAfterCancel and            *)
(* CreatedUsersCanLogIn. The inductive invariant adds what a thread that   *)
(* ended well has seen, where a waiting call stands in its plan, which     *)
(* threads have run nothing since they were cancelled, and that a          *)
(* create-user past its checks holds a name and a password.                *)
(***************************************************************************)
EXTENDS Startup, TLAPS

(* A thread that ended well saw every migration recorded, and a call that  *)
(* waits for one stands at the plan's migrate step.                        *)
SchemaInv ==
    /\ StartedOnFullSchema
    /\ \A p \in Procs :
        /\ worker[p].at = "ok" => applied = Migrations
        /\ proc[p].call \in {"waiting", "grace"} => Phase(p) = "migrate"

(* Only a thread that was cancelled after it took a migration runs one.    *)
OverrunInv ==
    \A p \in Procs :
        /\ overrun[p] <= 1
        /\ worker[p].at \in {"check", "picked"} => overrun[p] = 0
        /\ worker[p].at = "loop" /\ worker[p].cancelled = "no" => overrun[p] = 0

Checked(p) == Kind[p] = "create_user" /\ proc[p].step > 1

(* Past its checks a create-user has a name and a password, and once it    *)
(* has inserted the row, the row holds that password.                      *)
AccountInv ==
    /\ CreatedUsersCanLogIn
    /\ \A p \in Procs :
        /\ Checked(p) => Args(p).username # None /\ Args(p).password # None
        /\ Phase(p) = "created" => users[Args(p).username] = Args(p).password

StartupInv == TypeOK /\ SchemaInv /\ OverrunInv /\ AccountInv

-----------------------------------------------------------------------------
(* Where the phases stand in the plans.                                    *)
LEMMA Phases ==
    ASSUME NEW p \in Procs, NEW n \in 0..6
    PROVE  /\ Kind[p] \in {"legacy", "wireframe", "create_user"}
           /\ Kind[p] = "legacy" =>
                PhaseAt(p, n) = IF n = 1 THEN "argon2" ELSE IF n = 2 THEN "pool"
                                ELSE IF n = 3 THEN "audit" ELSE IF n = 4 THEN "migrate"
                                ELSE IF n = 5 THEN "bind" ELSE IF n = 6 THEN "serve" ELSE "down"
           /\ Kind[p] = "wireframe" =>
                PhaseAt(p, n) = IF n = 1 THEN "bind_addr" ELSE IF n = 2 THEN "pool"
                                ELSE IF n = 3 THEN "argon2" ELSE IF n = 4 THEN "app"
                                ELSE IF n = 5 THEN "bind" ELSE IF n = 6 THEN "serve" ELSE "down"
           /\ Kind[p] = "create_user" =>
                PhaseAt(p, n) = IF n = 1 THEN "args" ELSE IF n = 2 THEN "argon2"
                                ELSE IF n = 3 THEN "connect" ELSE IF n = 4 THEN "migrate"
                                ELSE IF n = 5 THEN "insert" ELSE IF n = 6 THEN "created" ELSE "down"
<1>1. Kind[p] \in {"legacy", "wireframe", "create_user"}
  BY StartupAssumption DEF StartupAssumption
<1>3. CASE Kind[p] = "legacy"
  BY <1>3 DEF PhaseAt, Plan, run_daemon
<1>4. CASE Kind[p] = "wireframe"
  BY <1>4 DEF PhaseAt, Plan, WireframeBootstrap_run
<1>5. CASE Kind[p] = "create_user"
  BY <1>5 DEF PhaseAt, Plan, run_create_user
<1>. QED  BY <1>1, <1>3, <1>4, <1>5

(* The password that counts is the one the operator means.                 *)
LEMMA RunCommandKeepsTyped ==
    ASSUME TypeOK, NEW p \in Procs
    PROVE  /\ Args(p) \in Source
           /\ Args(p).password = Intended(proc[p].args)
<1>1. proc[p].args \in [cli : Source, file : Source]  BY DEF TypeOK, ProcState
<1>. QED  BY <1>1 DEF Args, run_command, Merge, Intended, Source

-----------------------------------------------------------------------------
(* The updates of a process and of a thread that change two fields.        *)
LEMMA ProcUpdate ==
    ASSUME NEW r \in ProcState, NEW s \in 0..6, NEW c \in {"none", "waiting", "grace", "failed"}
    PROVE  [r EXCEPT !.step = s, !.call = c] \in ProcState
BY DEF ProcState

LEMMA WorkerPicks ==
    ASSUME NEW w \in WorkerState, NEW k \in 0..Migrations
    PROVE  [w EXCEPT !.at = "picked", !.pick = k] \in WorkerState
BY DEF WorkerState

(* Every step keeps the types.                                             *)
LEMMA TypesKept ==
    ASSUME TypeOK, SchemaInv, [Next]_startupVars
    PROVE  TypeOK'
<1>0. /\ proc \in [Procs -> ProcState] /\ worker \in [Procs -> WorkerState]
      /\ applied \in 0..Migrations /\ Migrations \in Nat
      /\ users \in [Usernames -> Values] /\ reported \in [Usernames -> Values]
      /\ overrun \in [Procs -> Nat]
  BY StartupAssumption DEF TypeOK, StartupAssumption
<1>1. CASE UNCHANGED startupVars
  BY <1>1 DEF startupVars, TypeOK
<1>2. ASSUME NEW p \in Procs, Start(p)  PROVE TypeOK'
  <2>1. NoArgs \in [cli : Source, file : Source]  BY DEF NoArgs, Source, Values
  <2>2. PICK a \in [cli : Source, file : Source] :
          proc' = [proc EXCEPT ![p] = [step |-> 1, args |-> a, starts |-> proc[p].starts + 1,
                                       call |-> "none"]]
    BY <1>2, <2>1, StartupAssumption DEF Start, StartupAssumption
  <2>3. [step |-> 1, args |-> a, starts |-> proc[p].starts + 1, call |-> "none"] \in ProcState
    BY <1>0 DEF ProcState
  <2>4. proc' \in [Procs -> ProcState]  BY <1>0, <2>2, <2>3
  <2>. QED  BY <1>0, <1>2, <2>4 DEF Start, TypeOK
<1>3. ASSUME NEW p \in Procs, proc[p].step < 6, Proceed(p)
      PROVE  proc' \in [Procs -> ProcState]
  <2>1. proc[p].step + 1 \in 0..6  BY <1>0, <1>3 DEF ProcState
  <2>2. [proc[p] EXCEPT !.step = proc[p].step + 1, !.call = "none"] \in ProcState
    BY <1>0, <2>1, ProcUpdate
  <2>. QED  BY <1>0, <1>3, <2>2 DEF Proceed
<1>4. ASSUME NEW p \in Procs, Fail(p)
      PROVE  proc' \in [Procs -> ProcState]
  <2>1. [proc[p] EXCEPT !.call = "failed"] \in ProcState
    BY <1>0 DEF ProcState
  <2>. QED  BY <1>0, <1>4, <2>1 DEF Fail
<1>5. \A p \in Procs : Phase(p) \notin {"serve", "created", "down"} => proc[p].step < 6
  BY <1>0, Phases DEF ProcState, Phase
<1>6. ASSUME NEW p \in Procs, PlainStep(p) \/ CheckArgs(p) \/ AuditStep(p) \/ Bind(p)
      PROVE  TypeOK'
  <2>1. proc' \in [Procs -> ProcState]
    BY <1>3, <1>4, <1>5, <1>6 DEF PlainStep, Try, argon2_from_config,
       establish_pool, establish, parse_bind_addr, validate_app_factory,
       CheckArgs, AuditStep, Bind, AtPhase
  <2>. QED  BY <1>0, <1>6, <2>1 DEF PlainStep, Try, argon2_from_config,
     establish_pool, establish, parse_bind_addr, validate_app_factory,
     CheckArgs, AuditStep, Bind, TypeOK
<1>7. ASSUME NEW p \in Procs, create_user(p)  PROVE TypeOK'
  <2>1. proc' \in [Procs -> ProcState]
    BY <1>3, <1>4, <1>5, <1>7 DEF create_user, AtPhase
  <2>2. Args(p).password \in Values  BY RunCommandKeepsTyped DEF Source
  <2>3. users' \in [Usernames -> Values]  BY <1>0, <1>7, <2>2 DEF create_user
  <2>. QED  BY <1>0, <1>7, <2>1, <2>3 DEF create_user, TypeOK
<1>8. ASSUME NEW p \in Procs, ReportCreated(p)  PROVE TypeOK'
  <2>1. [proc[p] EXCEPT !.step = 0] \in ProcState  BY <1>0 DEF ProcState
  <2>2. proc' \in [Procs -> ProcState]  BY <1>0, <1>8, <2>1 DEF ReportCreated
  <2>3. Intended(proc[p].args) \in Values  BY RunCommandKeepsTyped DEF Source
  <2>. QED  BY <1>0, <1>8, <2>2, <2>3 DEF ReportCreated, TypeOK
<1>9. ASSUME NEW p \in Procs, apply_migrations(p)  PROVE TypeOK'
  <2>1. [proc[p] EXCEPT !.call = "waiting"] \in ProcState  BY <1>0 DEF ProcState
  <2>2. [at |-> "check", pick |-> 0, cancelled |-> "no"] \in WorkerState
    BY <1>0 DEF WorkerState
  <2>. QED  BY <1>0, <1>9, <2>1, <2>2 DEF apply_migrations, TypeOK
<1>10. ASSUME NEW p \in Procs, NEW a \in {"loop", "ok", "err"},
              worker' = [worker EXCEPT ![p].at = a]
       PROVE  worker' \in [Procs -> WorkerState]
  <2>1. [worker[p] EXCEPT !.at = a] \in WorkerState  BY <1>0 DEF WorkerState
  <2>. QED  BY <1>0, <1>10, <2>1
<1>11. ASSUME NEW p \in Procs, has_pending_migrations(p)  PROVE TypeOK'
  <2>1. worker' \in [Procs -> WorkerState]  BY <1>10, <1>11 DEF has_pending_migrations
  <2>. QED  BY <1>0, <1>11, <2>1 DEF has_pending_migrations, TypeOK
<1>12. ASSUME NEW p \in Procs, apply_pending_migrations(p)  PROVE TypeOK'
  <2>1. CASE worker' = [worker EXCEPT ![p].at = "picked", ![p].pick = applied + 1]
             /\ applied # Migrations
    <3>0. applied + 1 \in 0..Migrations  BY <1>0, <2>1
    <3>1. [worker[p] EXCEPT !.at = "picked", !.pick = applied + 1] \in WorkerState
      BY <1>0, <3>0, WorkerPicks
    <3>. QED  BY <1>0, <1>12, <2>1, <3>1 DEF apply_pending_migrations, TypeOK
  <2>2. CASE worker' \in [Procs -> WorkerState]
    BY <1>0, <1>12, <2>2 DEF apply_pending_migrations, TypeOK
  <2>. QED  BY <1>10, <1>12, <2>1, <2>2 DEF apply_pending_migrations
<1>13. ASSUME NEW p \in Procs, run_next_migration(p)  PROVE TypeOK'
  <2>1. worker' \in [Procs -> WorkerState]  BY <1>10, <1>13 DEF run_next_migration
  <2>2. worker[p].pick \in 0..Migrations  BY <1>0 DEF WorkerState
  <2>3. applied' \in 0..Migrations /\ overrun' \in [Procs -> Nat]
    BY <1>0, <1>13, <2>2 DEF run_next_migration
  <2>. QED  BY <1>0, <1>13, <2>1, <2>3 DEF run_next_migration, TypeOK
<1>14. NoWorker \in WorkerState  BY <1>0 DEF NoWorker, WorkerState
<1>15. ASSUME NEW p \in Procs, Watchdog(p)  PROVE TypeOK'
  <2>1. CASE MigrationResult(p)
    <3>1. proc[p].step < 6  BY <1>5, <2>1 DEF SchemaInv, MigrationResult
    <3>. QED  BY <1>0, <1>3, <1>4, <1>14, <2>1, <3>1 DEF MigrationResult, TypeOK
  <2>2. CASE cancel_timed_out_migration(p)
    <3>1. [worker[p] EXCEPT !.cancelled = "yes"] \in WorkerState  BY <1>0 DEF WorkerState
    <3>2. [proc[p] EXCEPT !.call = "grace"] \in ProcState  BY <1>0 DEF ProcState
    <3>. QED  BY <1>0, <2>2, <3>1, <3>2 DEF cancel_timed_out_migration, TypeOK
  <2>3. CASE GraceEnds(p)
    BY <1>0, <1>4, <2>3 DEF GraceEnds, TypeOK
  <2>. QED  BY <1>15, <2>1, <2>2, <2>3 DEF Watchdog
<1>16. ASSUME NEW p \in Procs, Exit(p) \/ Crash(p)  PROVE TypeOK'
  <2>0. proc[p] \in ProcState /\ 0 \in 0..6  BY <1>0
  <2>1. [proc[p] EXCEPT !.step = 0, !.call = "none"] \in ProcState  BY <2>0, ProcUpdate
  <2>. QED  BY <1>0, <1>14, <1>16, <2>1, ZenonT(40) DEF Exit, Crash, TypeOK
<1>. QED  BY <1>1, <1>2, <1>6, <1>7, <1>8, <1>9, <1>11, <1>12, <1>13, <1>15, <1>16
     DEF Next, Step, Worker

-----------------------------------------------------------------------------
(* A step of p leaves the other processes alone, never takes a migration   *)
(* back and never replaces a user's row.                                   *)
LEMMA OthersKept ==
    ASSUME TypeOK, NEW p \in Procs, Step(p)
    PROVE  /\ \A q \in Procs \ {p} : /\ proc'[q] = proc[q] /\ worker'[q] = worker[q]
                                     /\ overrun'[q] = overrun[q]
           /\ applied = Migrations => applied' = Migrations
           /\ \A u \in Usernames : users[u] # None => users'[u] = users[u]
<1>0. /\ proc \in [Procs -> ProcState] /\ worker \in [Procs -> WorkerState]
      /\ overrun \in [Procs -> Nat] /\ users \in [Usernames -> Values]
      /\ worker[p].pick \in 0..Migrations /\ Migrations \in Nat
  BY StartupAssumption DEF TypeOK, StartupAssumption, WorkerState
<1>1. CASE \/ Start(p) \/ PlainStep(p) \/ CheckArgs(p) \/ AuditStep(p) \/ Bind(p)
           \/ ReportCreated(p) \/ Exit(p) \/ Crash(p)
  BY <1>0, <1>1 DEF Start, PlainStep, Try, argon2_from_config,
     establish_pool, establish, parse_bind_addr, validate_app_factory,
     CheckArgs, AuditStep, Bind, ReportCreated, Exit, Crash,
     Proceed, Fail
<1>2. CASE create_user(p)
  BY <1>0, <1>2 DEF create_user, Proceed, Fail
<1>3. CASE apply_migrations(p) \/ Watchdog(p)
  BY <1>0, <1>3 DEF apply_migrations, Watchdog, MigrationResult, cancel_timed_out_migration,
     GraceEnds, Proceed, Fail
<1>4. CASE has_pending_migrations(p) \/ apply_pending_migrations(p)
  BY <1>0, <1>4 DEF has_pending_migrations, apply_pending_migrations
<1>5. CASE run_next_migration(p)
  BY <1>0, <1>5, SMTT(30) DEF run_next_migration
<1>. QED  BY <1>1, <1>2, <1>3, <1>4, <1>5 DEF Step, Worker

(* What a step does to its own process: it stands still, fails, stops,     *)
(* starts or goes on to the plan's next step.                              *)
LEMMA OwnStep ==
    ASSUME TypeOK, SchemaInv, NEW p \in Procs, Step(p)
    PROVE  \/ proc'[p].step = proc[p].step /\ proc'[p].args = proc[p].args
              /\ (proc'[p].call \in {"waiting", "grace"} => Phase(p) = "migrate")
           \/ proc'[p].step \in {0, 1} /\ proc'[p].call = "none"
           \/ /\ proc'[p].step = proc[p].step + 1 /\ proc'[p].args = proc[p].args
              /\ proc'[p].call = "none"
              /\ Phase(p) = "migrate" => applied = Migrations /\ applied' = applied
              /\ Phase(p) \in {"argon2", "pool", "connect", "bind_addr", "app", "args", "audit",
                              "bind", "insert", "migrate"}
              /\ Phase(p) = "args" => Args(p).username # None /\ Args(p).password # None
              /\ Phase(p) = "insert" => /\ users[Args(p).username] = None
                                       /\ users' = [users EXCEPT ![Args(p).username] = Args(p).password]
<1>0. /\ proc \in [Procs -> ProcState] /\ proc[p] \in ProcState
  BY DEF TypeOK
<1>1. ASSUME Proceed(p)
      PROVE  proc'[p].step = proc[p].step + 1 /\ proc'[p].args = proc[p].args /\ proc'[p].call = "none"
  BY <1>0, <1>1 DEF Proceed, ProcState
<1>2. ASSUME Fail(p)
      PROVE  proc'[p].step = proc[p].step /\ proc'[p].args = proc[p].args /\ proc'[p].call = "failed"
  BY <1>0, <1>2 DEF Fail, ProcState
<1>3. CASE Start(p) \/ Exit(p) \/ Crash(p) \/ ReportCreated(p)
  BY <1>0, <1>3 DEF Start, Exit, Crash, ReportCreated, AtPhase, ProcState
<1>4. CASE PlainStep(p) \/ AuditStep(p) \/ Bind(p)
  BY <1>1, <1>2, <1>4 DEF PlainStep, Try, argon2_from_config,
     establish_pool, establish, parse_bind_addr, validate_app_factory, AuditStep, Bind, AtPhase
<1>5. CASE CheckArgs(p)
  BY <1>1, <1>2, <1>5 DEF CheckArgs, AtPhase
<1>6. CASE create_user(p)
  BY <1>1, <1>2, <1>6 DEF create_user, AtPhase
<1>7. CASE apply_migrations(p)
  BY <1>0, <1>7 DEF apply_migrations, AtPhase, ProcState
<1>8. CASE Worker(p)
  BY <1>8 DEF Worker, has_pending_migrations, apply_pending_migrations, run_next_migration, SchemaInv
<1>9. CASE MigrationResult(p)
  BY <1>1, <1>2, <1>9 DEF MigrationResult, SchemaInv
<1>10. CASE cancel_timed_out_migration(p)
  BY <1>0, <1>10 DEF cancel_timed_out_migration, SchemaInv, ProcState
<1>11. CASE GraceEnds(p)
  BY <1>2, <1>11 DEF GraceEnds
<1>. QED  BY <1>3, <1>4, <1>5, <1>6, <1>7, <1>8, <1>9, <1>10, <1>11 DEF Step, Watchdog

(* A thread ends well only when every migration is recorded.               *)
LEMMA OkSawAll ==
    ASSUME TypeOK, SchemaInv, NEW p \in Procs, Step(p), worker'[p].at = "ok"
    PROVE  applied' = Migrations
<1>0. /\ worker \in [Procs -> WorkerState] /\ worker[p] \in WorkerState
      /\ applied \in 0..Migrations /\ Migrations \in Nat
  BY StartupAssumption DEF TypeOK, StartupAssumption
<1>1. CASE worker'[p].at = worker[p].at
  BY <1>1, OthersKept DEF SchemaInv
<1>2. CASE worker'[p].at # worker[p].at
  <2>1. CASE has_pending_migrations(p) \/ apply_pending_migrations(p)
    BY <1>0, <1>2, <2>1 DEF has_pending_migrations, apply_pending_migrations, WorkerState
  <2>2. CASE run_next_migration(p)
    BY <1>0, <2>2 DEF run_next_migration, WorkerState
  <2>3. CASE \/ Start(p) \/ PlainStep(p) \/ CheckArgs(p) \/ AuditStep(p) \/ Bind(p)
             \/ create_user(p) \/ ReportCreated(p) \/ GraceEnds(p)
    BY <1>2, <2>3 DEF Start, PlainStep, Try, argon2_from_config,
       establish_pool, establish, parse_bind_addr, validate_app_factory,
       CheckArgs, AuditStep, Bind, create_user, ReportCreated,
       GraceEnds
  <2>4. CASE \/ apply_migrations(p) \/ MigrationResult(p) \/ cancel_timed_out_migration(p)
             \/ Exit(p) \/ Crash(p)
    BY <1>0, <1>2, <2>4 DEF apply_migrations, MigrationResult, cancel_timed_out_migration, Exit,
       Crash, NoWorker, WorkerState
  <2>. QED  BY <2>1, <2>2, <2>3, <2>4 DEF Step, Worker, Watchdog
<1>. QED  BY <1>1, <1>2

LEMMA SchemaKept ==
    ASSUME TypeOK, SchemaInv, NEW p \in Procs, Step(p), TypeOK'
    PROVE  SchemaInv'
<1>. DEFINE Good(q) ==
       /\ (Kind[q] # "wireframe" /\ Phase(q) \in {"bind", "serve", "insert", "created"})
             => applied = Migrations
       /\ worker[q].at = "ok" => applied = Migrations
       /\ proc[q].call \in {"waiting", "grace"} => Phase(q) = "migrate"
<1>1. \A q \in Procs : Good(q)  BY DEF SchemaInv, StartedOnFullSchema
<1>2. ASSUME NEW q \in Procs \ {p}  PROVE Good(q)'
  BY <1>1, OthersKept DEF Phase
<1>3. Good(p)'
  <2>1. worker'[p].at = "ok" => applied' = Migrations  BY OkSawAll
  <2>2. proc[p].step \in 0..6 /\ proc'[p].step \in 0..6  BY DEF TypeOK, ProcState
  <2>3. /\ Phase(p) = PhaseAt(p, proc[p].step)
        /\ Phase(p)' = PhaseAt(p, proc'[p].step)  BY DEF Phase
  <2>4. CASE proc'[p].step = proc[p].step /\ (proc'[p].call \in {"waiting", "grace"} => Phase(p) = "migrate")
    BY <1>1, <2>1, <2>3, <2>4, OthersKept
  <2>5. CASE proc'[p].step \in {0, 1} /\ proc'[p].call = "none"
    BY <2>1, <2>2, <2>3, <2>5, Phases
  <2>6. CASE /\ proc'[p].step = proc[p].step + 1 /\ proc'[p].call = "none"
             /\ Phase(p) = "migrate" => applied = Migrations /\ applied' = applied
    <3>1. CASE Phase(p) = "migrate"  BY <2>1, <2>6, <3>1
    <3>2. CASE Kind[p] = "wireframe"  BY <2>1, <2>6, <3>2
    <3>3. CASE Kind[p] = "legacy" /\ Phase(p) # "migrate"
      BY <1>1, <2>1, <2>2, <2>3, <2>6, <3>3, Phases, OthersKept
    <3>4. CASE Kind[p] = "create_user" /\ Phase(p) # "migrate"
      BY <1>1, <2>1, <2>2, <2>3, <2>6, <3>4, Phases, OthersKept
    <3>. QED  BY <3>1, <3>2, <3>3, <3>4, <2>2, Phases
  <2>. QED  BY <2>4, <2>5, <2>6, OwnStep
<1>. QED  BY <1>2, <1>3 DEF SchemaInv, StartedOnFullSchema

LEMMA OverrunKept ==
    ASSUME TypeOK, OverrunInv, NEW p \in Procs, Step(p)
    PROVE  OverrunInv'
<1>. DEFINE Good(q) ==
       /\ overrun[q] <= 1
       /\ worker[q].at \in {"check", "picked"} => overrun[q] = 0
       /\ worker[q].at = "loop" /\ worker[q].cancelled = "no" => overrun[q] = 0
<1>0. /\ worker \in [Procs -> WorkerState] /\ worker[p] \in WorkerState
      /\ overrun \in [Procs -> Nat] /\ overrun[p] \in Nat /\ Good(p)
  BY DEF TypeOK, OverrunInv
<1>1. ASSUME NEW q \in Procs \ {p}  PROVE Good(q)'
  BY OthersKept DEF OverrunInv
<1>2. Good(p)'
  <2>1. CASE \/ Start(p) \/ PlainStep(p) \/ CheckArgs(p) \/ AuditStep(p) \/ Bind(p)
             \/ create_user(p) \/ ReportCreated(p) \/ GraceEnds(p)
    BY <1>0, <2>1 DEF Start, PlainStep, Try, argon2_from_config,
       establish_pool, establish, parse_bind_addr, validate_app_factory,
       CheckArgs, AuditStep, Bind, create_user, ReportCreated,
       GraceEnds
  <2>2. CASE apply_migrations(p) \/ MigrationResult(p) \/ Exit(p) \/ Crash(p)
    BY <1>0, <2>2 DEF apply_migrations, MigrationResult, Exit, Crash, NoWorker
  <2>3. CASE cancel_timed_out_migration(p)
    BY <1>0, <2>3 DEF cancel_timed_out_migration, WorkerState
  <2>4. CASE has_pending_migrations(p) \/ apply_pending_migrations(p)
    BY <1>0, <2>4 DEF has_pending_migrations, apply_pending_migrations, WorkerState
  <2>5. CASE run_next_migration(p)
    BY <1>0, <2>5 DEF run_next_migration, WorkerState
  <2>. QED  BY <2>1, <2>2, <2>3, <2>4, <2>5 DEF Step, Worker, Watchdog
<1>. QED  BY <1>1, <1>2 DEF OverrunInv

LEMMA AccountsKept ==
    ASSUME TypeOK, SchemaInv, AccountInv, NEW p \in Procs, Step(p), TypeOK'
    PROVE  AccountInv'
<1>. DEFINE Good(q) ==
       /\ Checked(q) => Args(q).username # None /\ Args(q).password # None
       /\ Phase(q) = "created" => users[Args(q).username] = Args(q).password
<1>0. /\ \A q \in Procs : Good(q) /\ proc[q].step \in 0..6 /\ proc'[q].step \in 0..6
      /\ users \in [Usernames -> Values] /\ reported \in [Usernames -> Values]
  BY DEF AccountInv, TypeOK, ProcState
<1>1. \A q \in Procs : /\ Phase(q) = PhaseAt(q, proc[q].step)
                       /\ Phase(q)' = PhaseAt(q, proc'[q].step)
  BY DEF Phase
<1>2. \A q \in Procs : Phase(q) \in {"insert", "created"} => Checked(q) /\ Args(q).username \in Usernames
  <2>1. \A q \in Procs : Phase(q) \in {"insert", "created"} => Checked(q)
    BY <1>0, <1>1, Phases DEF Checked
  <2>. QED  BY <1>0, <2>1, RunCommandKeepsTyped DEF Source
<1>3. \A q \in Procs : proc'[q].args = proc[q].args => Args(q)' = Args(q)
  BY DEF Args
<1>4. ASSUME NEW q \in Procs, proc'[q].step = proc[q].step, proc'[q].args = proc[q].args
      PROVE  Good(q)'
  <2>1. Checked(q)' => Checked(q)  BY <1>4 DEF Checked
  <2>2. Phase(q)' = Phase(q)  BY <1>1, <1>4
  <2>3. Phase(q) = "created" => users'[Args(q).username] = Args(q).password
    BY <1>0, <1>2, OthersKept
  <2>. QED  BY <1>0, <1>3, <1>4, <2>1, <2>2, <2>3
<1>5. ASSUME NEW q \in Procs \ {p}  PROVE Good(q)'
  BY <1>4, OthersKept
<1>6. Good(p)'
  <2>1. CASE proc'[p].step = proc[p].step /\ proc'[p].args = proc[p].args
    BY <1>4, <2>1
  <2>2. CASE proc'[p].step \in {0, 1}
    <3>1. ~Checked(p)'
      BY <2>2 DEF Checked
    <3>2. Phase(p)' # "created"
      BY <1>1, <2>2, Phases
    <3>. QED  BY <3>1, <3>2
  <2>3. CASE /\ proc'[p].step = proc[p].step + 1 /\ proc'[p].args = proc[p].args
             /\ Phase(p) \in {"argon2", "pool", "connect", "bind_addr", "app", "args", "audit",
                             "bind", "insert", "migrate"}
             /\ Phase(p) = "args" => Args(p).username # None /\ Args(p).password # None
             /\ Phase(p) = "insert" => /\ users[Args(p).username] = None
                                      /\ users' = [users EXCEPT ![Args(p).username] = Args(p).password]
    <3>1. Checked(p)' => Checked(p) \/ Phase(p) = "args"
      BY <1>0, <1>1, <2>3, Phases DEF Checked
    <3>2. Phase(p)' = "created" => Phase(p) = "insert"
      BY <1>0, <1>1, <2>3, Phases
    <3>3. Phase(p) = "insert" => users'[Args(p).username] = Args(p).password
      BY <1>0, <1>2, <2>3
    <3>. QED  BY <1>0, <1>3, <2>3, <3>1, <3>2, <3>3
  <2>. QED  BY <2>1, <2>2, <2>3, OwnStep
<1>7. CreatedUsersCanLogIn'
  <2>1. ASSUME NEW u \in Usernames, reported'[u] # None
        PROVE  users'[u] = reported'[u] /\ applied' = Migrations /\ users'[u] # None
    <3>1. CASE reported'[u] = reported[u]
      BY <1>0, <2>1, <3>1, OthersKept DEF AccountInv, CreatedUsersCanLogIn, verify_password
    <3>2. CASE reported'[u] # reported[u]
      <4>1. ReportCreated(p)
        BY <3>2 DEF Step, Start, PlainStep, Try, argon2_from_config,
           establish_pool, establish, parse_bind_addr, validate_app_factory,
           CheckArgs, AuditStep, Bind, create_user,
           apply_migrations, Worker, has_pending_migrations, apply_pending_migrations,
           run_next_migration, Watchdog, MigrationResult, cancel_timed_out_migration, GraceEnds,
           Exit, Crash
      <4>2. Phase(p) = "created"  BY <4>1 DEF ReportCreated, AtPhase
      <4>3. u = Args(p).username /\ reported'[u] = Args(p).password
        BY <1>0, <3>2, <4>1, RunCommandKeepsTyped DEF ReportCreated
      <4>4. users[u] = Args(p).password /\ users[u] # None
        BY <1>0, <1>2, <4>2, <4>3
      <4>5. Kind[p] = "create_user"  BY <1>2, <4>2 DEF Checked
      <4>6. applied = Migrations  BY <4>2, <4>5 DEF SchemaInv, StartedOnFullSchema
      <4>. QED  BY <4>3, <4>4, <4>6, OthersKept
    <3>. QED  BY <3>1, <3>2
  <2>. QED  BY <2>1 DEF CreatedUsersCanLogIn, verify_password
<1>. QED  BY <1>5, <1>6, <1>7 DEF AccountInv

-----------------------------------------------------------------------------
(* Whatever fails, times out, crashes or runs beside it, the invariant     *)
(* stays.                                                                  *)
LEMMA StartupInductive == Spec => []StartupInv
<1>1. Init => StartupInv
  <2>. SUFFICES ASSUME Init PROVE StartupInv  OBVIOUS
  <2>1. TypeOK
    <3>1. Down \in ProcState  BY DEF Down, NoArgs, ProcState, Source, Values
    <3>2. NoWorker \in WorkerState
      BY StartupAssumption DEF NoWorker, WorkerState, StartupAssumption
    <3>. QED  BY <3>1, <3>2, StartupAssumption DEF Init, TypeOK, Values, StartupAssumption
  <2>2. \A p \in Procs : proc[p].step = 0 /\ proc[p].call = "none" /\ Phase(p) = "down"
    <3>1. \A p \in Procs : proc[p].step = 0 /\ proc[p].call = "none"  BY DEF Init, Down
    <3>2. ASSUME NEW p \in Procs  PROVE PhaseAt(p, 0) = "down"
      <4>1. 0 \in 0..6  OBVIOUS
      <4>. QED  BY <4>1, Phases
    <3>. QED  BY <3>1, <3>2 DEF Phase
  <2>3. SchemaInv
    <3>1. \A p \in Procs : worker[p].at = "none"  BY DEF Init, NoWorker
    <3>. QED  BY <2>2, <3>1 DEF SchemaInv, StartedOnFullSchema
  <2>4. OverrunInv
    <3>1. ASSUME NEW p \in Procs  PROVE overrun[p] = 0 /\ overrun[p] <= 1
      BY DEF Init
    <3>. QED  BY <3>1 DEF OverrunInv
  <2>5. AccountInv
    <3>1. \A u \in Usernames : reported[u] = None  BY DEF Init
    <3>2. ASSUME NEW p \in Procs  PROVE ~(proc[p].step > 1) /\ Phase(p) # "created"
      BY <2>2
    <3>. QED  BY <3>1, <3>2 DEF AccountInv, CreatedUsersCanLogIn, Checked
  <2>. QED  BY <2>1, <2>3, <2>4, <2>5 DEF StartupInv
<1>2. StartupInv /\ [Next]_startupVars => StartupInv'
  <2>. SUFFICES ASSUME StartupInv, [Next]_startupVars  PROVE StartupInv'
    OBVIOUS
  <2>1. TypeOK'  BY TypesKept DEF StartupInv
  <2>2. CASE UNCHANGED startupVars
    BY <2>1, <2>2 DEF startupVars, StartupInv, SchemaInv, StartedOnFullSchema, Phase, OverrunInv,
       AccountInv, CreatedUsersCanLogIn, Checked, Args
  <2>3. ASSUME NEW p \in Procs, Step(p)  PROVE StartupInv'
    BY <2>1, <2>3, SchemaKept, OverrunKept, AccountsKept DEF StartupInv
  <2>. QED  BY <2>2, <2>3 DEF Next
<1>. QED  BY <1>1, <1>2, PTL DEF Spec

(* For any processes and any number of migrations: a legacy daemon that    *)
(* binds and a create-user that inserts went through an apply_migrations   *)
(* that saw every migration recorded.                                      *)
THEOREM StartsHaveFullSchema == Spec => []StartedOnFullSchema
<1>1. StartupInv => StartedOnFullSchema  BY DEF StartupInv, SchemaInv
<1>. QED  BY <1>1, StartupInductive, PTL

(* The token bounds what a cancelled migration thread still does to the    *)
(* migration it had taken.                                                 *)
THEOREM CancelledThreadsStop == Spec => []OneMigrationAfterCancel
<1>1. StartupInv => OneMigrationAfterCancel
  BY DEF StartupInv, OverrunInv, OneMigrationAfterCancel
<1>. QED  BY <1>1, StartupInductive, PTL

(* A user reported created logs in with the password that was typed, for   *)
(* every source of the arguments and every other run of create-user.       *)
THEOREM ReportedUsersLogIn == Spec => []CreatedUsersCanLogIn
<1>1. StartupInv => CreatedUsersCanLogIn  BY DEF StartupInv, AccountInv
<1>. QED  BY <1>1, StartupInductive, PTL
=============================================================================
