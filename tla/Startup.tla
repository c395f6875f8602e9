------------------------------- MODULE Startup -------------------------------
(***************************************************************************)
(* Starting mxd on a database that other processes start on too: the       *)
(* legacy daemon (run_daemon, setup_database), the wireframe daemon        *)
(* (WireframeBootstrap::run), the create-user command (run_create_user),   *)
(* and the embedded migrations with their watchdog (src/db/migrations.rs). *)
(* A process goes through the steps of its plan in order and any of them   *)
(* may fail. The migrations run on a blocking thread that a timeout can    *)
(* only ask to stop, so the thread may outlive the call. A process may     *)
(* crash at any point and be started again.                                *)
(***************************************************************************)
EXTENDS Integers, Sequences

CONSTANTS
    Procs,        \* process slots
    Kind,         \* what each of them runs
    Migrations,   \* number of embedded migrations
    Usernames,
    Passwords,
    Arguments,    \* argument sources of a create-user: [cli, file]
    Databases,    \* the servers a run may meet: [backend, version, features]
    NoProc,
    None,
    MaxFaults,    \* bound on failed steps, failed queries and crashes together
    MaxStarts     \* bound on the starts of each process

Values == Passwords \cup {None}

Source == [username : Usernames \cup {None}, password : Values]

ASSUME StartupAssumption ==
    /\ Migrations \in Nat \ {0}
    /\ Kind \in [Procs -> {"legacy", "wireframe", "create_user"}]
    /\ NoProc \notin Procs
    /\ None \notin Usernames \cup Passwords
    /\ Arguments \subseteq [cli : Source, file : Source]
    /\ MaxFaults \in Nat /\ MaxStarts \in [Procs -> Nat]

VARIABLES
    db,         \* the database server
    applied,    \* versions recorded in the migrations table: 1..applied
    users,      \* the password behind each user's stored hash, or None
    listener,   \* the process bound to the address, or NoProc
    proc,       \* where each process is
    worker,     \* its migration thread
    faults,     \* faults so far
    reported,   \* history: the password each `User created` was reported for
    overrun     \* history: migrations each thread ran after it was cancelled

startupVars == <<db, applied, users, listener, proc, worker, faults, reported, overrun>>

-----------------------------------------------------------------------------
(* The plans: what each kind of process does, in order.                    *)

run_daemon == <<"argon2", "pool", "audit", "migrate", "bind", "serve">>

WireframeBootstrap_run == <<"bind_addr", "pool", "argon2", "app", "bind", "serve">>

run_create_user == <<"args", "argon2", "connect", "migrate", "insert", "created">>

Plan(p) ==
    CASE Kind[p] = "legacy"      -> run_daemon
      [] Kind[p] = "wireframe"   -> WireframeBootstrap_run
      [] Kind[p] = "create_user" -> run_create_user

NoArgs == [cli |-> [username |-> None, password |-> None],
           file |-> [username |-> None, password |-> None]]

Down == [step |-> 0, args |-> NoArgs, starts |-> 0, call |-> "none"]

PhaseAt(p, step) == IF step \in DOMAIN Plan(p) THEN Plan(p)[step] ELSE "down"

Phase(p) == PhaseAt(p, proc[p].step)

AtPhase(p, name) == Phase(p) = name /\ proc[p].call = "none"

Proceed(p) == proc' = [proc EXCEPT ![p].step = @ + 1, ![p].call = "none"]

(* The error is returned to main; the process ends once the runtime has    *)
(* waited for its blocking threads.                                        *)
Fail(p) == proc' = [proc EXCEPT ![p].call = "failed"]

NoFault == UNCHANGED faults
OneFault == faults < MaxFaults /\ faults' = faults + 1

-----------------------------------------------------------------------------
(* The arguments of create-user: load_and_merge_subcommand_for takes the   *)
(* command line over the file, but the password is never serialised, so    *)
(* the merge sees the file's and run_command puts the typed one back.      *)

Merge(args) ==
    [username |-> IF args.cli.username # None THEN args.cli.username ELSE args.file.username,
     password |-> args.file.password]

MutRunCommand(args) == Merge(args)

run_command(args) ==
    IF args.cli.password # None THEN [Merge(args) EXCEPT !.password = args.cli.password]
    ELSE Merge(args)

(* The password the operator means: the typed one, if any.                 *)
Intended(args) ==
    IF args.cli.password = None THEN args.file.password ELSE args.cli.password

Args(p) == run_command(proc[p].args)

(* The audits of setup_database.                                           *)
audit_sqlite_features(s) == {"json1", "recursive_cte"} \subseteq s.features

audit_postgres_features(s) == s.version >= 14

Audit(s) ==
    IF s.backend = "sqlite" THEN audit_sqlite_features(s) ELSE audit_postgres_features(s)

verify_password(hash, pw) == hash # None /\ hash = pw

-----------------------------------------------------------------------------
(* Steps of a start.                                                       *)

Start(p) ==
    /\ proc[p].step = 0 /\ proc[p].starts < MaxStarts[p]
    /\ \E a \in IF Kind[p] = "create_user" THEN Arguments ELSE {NoArgs} :
        proc' = [proc EXCEPT ![p] = [step |-> 1, args |-> a, starts |-> proc[p].starts + 1,
                                     call |-> "none"]]
    /\ UNCHANGED <<db, applied, users, listener, worker, faults, reported, overrun>>

(* A step that may fail but changes nothing outside the process.           *)
Try(p, name) ==
    /\ AtPhase(p, name)
    /\ \/ Proceed(p) /\ NoFault
       \/ Fail(p) /\ OneFault
    /\ UNCHANGED <<db, applied, users, listener, worker, reported, overrun>>

\* create-user also hashes its password here, before it connects.
argon2_from_config(p) == Try(p, "argon2")

establish_pool(p) == Try(p, "pool")

establish(p) == Try(p, "connect")

parse_bind_addr(p) == Try(p, "bind_addr")

\* Builds one application, for no client, before the server binds.
validate_app_factory(p) == Try(p, "app")

PlainStep(p) ==
    \/ argon2_from_config(p) \/ establish_pool(p) \/ establish(p)
    \/ parse_bind_addr(p) \/ validate_app_factory(p)

CheckArgs(p) ==
    /\ AtPhase(p, "args")
    /\ IF Args(p).username # None /\ Args(p).password # None
       THEN Proceed(p) ELSE Fail(p)
    /\ UNCHANGED <<db, applied, users, listener, worker, faults, reported, overrun>>

AuditStep(p) ==
    /\ AtPhase(p, "audit")
    /\ IF Audit(db) THEN Proceed(p) ELSE Fail(p)
    /\ UNCHANGED <<db, applied, users, listener, worker, faults, reported, overrun>>

Bind(p) ==
    /\ AtPhase(p, "bind")
    /\ \/ listener = NoProc /\ listener' = p /\ Proceed(p)
       \/ listener # NoProc /\ Fail(p) /\ UNCHANGED listener
    /\ UNCHANGED <<db, applied, users, worker, faults, reported, overrun>>

(* users.username is unique. A crash may fall between the insert and the   *)
(* report.                                                                 *)
create_user(p) ==
    /\ AtPhase(p, "insert")
    /\ LET name == Args(p).username
       IN  \/ /\ users[name] = None
              /\ users' = [users EXCEPT ![name] = Args(p).password]
              /\ Proceed(p)
           \/ /\ users[name] # None
              /\ Fail(p) /\ UNCHANGED users
    /\ UNCHANGED <<db, applied, listener, worker, faults, reported, overrun>>

ReportCreated(p) ==
    /\ AtPhase(p, "created")
    /\ reported' = [reported EXCEPT ![Args(p).username] = Intended(proc[p].args)]
    /\ proc' = [proc EXCEPT ![p].step = 0]
    /\ UNCHANGED <<db, applied, users, listener, worker, faults, overrun>>

-----------------------------------------------------------------------------
(* The migrations. The thread is at its first check, in its loop, has      *)
(* picked the next migration, or has ended.                                *)

NoWorker == [at |-> "none", pick |-> 0, cancelled |-> "no"]

Ended(p) == worker[p].at \in {"none", "ok", "err"}

(* apply_migrations spawns the thread and waits for it or for the timeout. *)
apply_migrations(p) ==
    /\ AtPhase(p, "migrate") /\ worker[p].at = "none"
    /\ worker' = [worker EXCEPT ![p] = [at |-> "check", pick |-> 0, cancelled |-> "no"]]
    /\ overrun' = [overrun EXCEPT ![p] = 0]
    /\ proc' = [proc EXCEPT ![p].call = "waiting"]
    /\ UNCHANGED <<db, applied, users, listener, faults, reported>>

MutHasPending(p) ==
    /\ worker[p].at = "check"
    /\ \/ /\ worker' = [worker EXCEPT ![p].at = IF applied < Migrations THEN "loop" ELSE "ok"]
          /\ NoFault
       \/ /\ worker' = [worker EXCEPT ![p].at = "ok"]
          /\ OneFault
    /\ UNCHANGED <<db, applied, users, listener, proc, reported, overrun>>

(* An error of the check counts as pending.                                *)
has_pending_migrations(p) ==
    /\ worker[p].at = "check"
    /\ \/ /\ worker' = [worker EXCEPT ![p].at = IF applied < Migrations THEN "loop" ELSE "ok"]
          /\ NoFault
       \/ /\ worker' = [worker EXCEPT ![p].at = "loop"]
          /\ OneFault
    /\ UNCHANGED <<db, applied, users, listener, proc, reported, overrun>>

MutApplyPending(p) ==
    /\ worker[p].at = "loop"
    /\ worker' = [worker EXCEPT ![p].at = IF applied = Migrations THEN "ok" ELSE "picked",
                                ![p].pick = applied + 1]
    /\ UNCHANGED <<db, applied, users, listener, proc, faults, reported, overrun>>

(* One round of the loop: the token is looked at, then run_next_migration  *)
(* reads the recorded versions and takes the first that is missing;        *)
(* NoMigrationRun ends the loop well.                                      *)
apply_pending_migrations(p) ==
    /\ worker[p].at = "loop"
    /\ worker' =
        IF worker[p].cancelled = "yes" THEN [worker EXCEPT ![p].at = "err"]
        ELSE IF applied = Migrations THEN [worker EXCEPT ![p].at = "ok"]
        ELSE [worker EXCEPT ![p].at = "picked", ![p].pick = applied + 1]
    /\ UNCHANGED <<db, applied, users, listener, proc, faults, reported, overrun>>

(* The rest of run_next_migration: the migration and its version in one    *)
(* transaction, which fails when another process has run it meanwhile, or  *)
(* on any error of the database.                                           *)
run_next_migration(p) ==
    /\ worker[p].at = "picked"
    /\ \/ /\ applied = worker[p].pick - 1
          /\ applied' = worker[p].pick
          /\ worker' = [worker EXCEPT ![p].at = "loop"]
          /\ overrun' = [overrun EXCEPT ![p] = IF worker[p].cancelled = "yes" THEN @ + 1 ELSE @]
          /\ NoFault
       \/ /\ applied # worker[p].pick - 1
          /\ worker' = [worker EXCEPT ![p].at = "err"]
          /\ NoFault /\ UNCHANGED <<applied, overrun>>
       \/ /\ worker' = [worker EXCEPT ![p].at = "err"]
          /\ OneFault /\ UNCHANGED <<applied, overrun>>
    /\ UNCHANGED <<db, users, listener, proc, reported>>

(* select: the thread's result, looked at before the timer.                *)
MigrationResult(p) ==
    /\ proc[p].call = "waiting" /\ Ended(p)
    /\ worker' = [worker EXCEPT ![p] = NoWorker]
    /\ IF worker[p].at = "ok" THEN Proceed(p) ELSE Fail(p)
    /\ UNCHANGED <<db, applied, users, listener, faults, reported, overrun>>

(* The watchdog fires while the thread still runs.                         *)
cancel_timed_out_migration(p) ==
    /\ proc[p].call = "waiting" /\ ~Ended(p)
    /\ worker' = [worker EXCEPT ![p].cancelled = "yes"]
    /\ proc' = [proc EXCEPT ![p].call = "grace"]
    /\ UNCHANGED <<db, applied, users, listener, faults, reported, overrun>>

MutGraceEnds(p) ==
    /\ proc[p].call = "grace" /\ Ended(p)
    /\ Fail(p)
    /\ UNCHANGED <<db, applied, users, listener, worker, faults, reported, overrun>>

(* The grace period ends with the thread or with its second; the timeout   *)
(* error is returned either way.                                           *)
GraceEnds(p) ==
    /\ proc[p].call = "grace"
    /\ Fail(p)
    /\ UNCHANGED <<db, applied, users, listener, worker, faults, reported, overrun>>

(* main returns the error: the runtime is dropped, which waits for the     *)
(* blocking thread.                                                        *)
Exit(p) ==
    /\ proc[p].call = "failed" /\ Ended(p)
    /\ proc' = [proc EXCEPT ![p].step = 0, ![p].call = "none"]
    /\ worker' = [worker EXCEPT ![p] = NoWorker]
    /\ UNCHANGED <<db, applied, users, listener, faults, reported, overrun>>

(* A crash loses the thread and rolls its open transaction back.           *)
Crash(p) ==
    /\ proc[p].step # 0
    /\ OneFault
    /\ proc' = [proc EXCEPT ![p].step = 0, ![p].call = "none"]
    /\ worker' = [worker EXCEPT ![p] = NoWorker]
    /\ listener' = IF listener = p THEN NoProc ELSE listener
    /\ UNCHANGED <<db, applied, users, reported, overrun>>

-----------------------------------------------------------------------------
Init ==
    /\ db \in Databases
    /\ applied = 0
    /\ users = [u \in Usernames |-> None]
    /\ listener = NoProc
    /\ proc = [p \in Procs |-> Down]
    /\ worker = [p \in Procs |-> NoWorker]
    /\ faults = 0
    /\ reported = [u \in Usernames |-> None]
    /\ overrun = [p \in Procs |-> 0]

Worker(p) ==
    has_pending_migrations(p) \/ apply_pending_migrations(p) \/ run_next_migration(p)

Watchdog(p) == cancel_timed_out_migration(p) \/ GraceEnds(p) \/ MigrationResult(p)

Step(p) ==
    \/ Start(p) \/ PlainStep(p) \/ CheckArgs(p) \/ AuditStep(p) \/ Bind(p)
    \/ create_user(p) \/ ReportCreated(p)
    \/ apply_migrations(p) \/ Worker(p) \/ Watchdog(p)
    \/ Exit(p) \/ Crash(p)

Next == \E p \in Procs : Step(p)

Spec == Init /\ [][Next]_startupVars

(* Only the timers and the polling of the call are fair: nothing says that *)
(* a thread stuck in the database ever moves.                              *)
FairSpec == Spec /\ \A p \in Procs : WF_startupVars(Watchdog(p))

-----------------------------------------------------------------------------
(* Properties.                                                             *)

ProcState ==
    [step : 0..6, args : [cli : Source, file : Source], starts : Nat,
     call : {"none", "waiting", "grace", "failed"}]

WorkerState ==
    [at : {"none", "check", "loop", "picked", "ok", "err"}, pick : 0..Migrations,
     cancelled : {"yes", "no"}]

TypeOK ==
    /\ applied \in 0..Migrations
    /\ users \in [Usernames -> Values] /\ reported \in [Usernames -> Values]
    /\ proc \in [Procs -> ProcState]
    /\ worker \in [Procs -> WorkerState]
    /\ overrun \in [Procs -> Nat]

(* A legacy daemon that binds or serves, and a create-user that inserts or *)
(* reports, has the whole schema under it: apply_migrations answered Ok,   *)
(* and it does so only when every migration is recorded, whatever the      *)
(* checks, timeouts, crashes and other processes did meanwhile.            *)
StartedOnFullSchema ==
    \A p \in Procs :
        (Kind[p] # "wireframe" /\ Phase(p) \in {"bind", "serve", "insert", "created"})
            => applied = Migrations

(* A migration thread whose call has timed out runs at most the migration  *)
(* it had already taken: the token is looked at before every further one.  *)
OneMigrationAfterCancel == \A p \in Procs : overrun[p] <= 1

(* The password last typed for a user who was reported created opens that  *)
(* account, on a database with the whole schema: run_command keeps the     *)
(* typed password over the configured one, and the insert never replaces   *)
(* the row of an earlier run.                                              *)
CreatedUsersCanLogIn ==
    \A u \in Usernames : reported[u] # None =>
        /\ verify_password(users[u], reported[u])
        /\ applied = Migrations

(* apply_migrations returns however long the migrations take: the caller   *)
(* is never left waiting for a thread that hangs.                          *)
MigrationCallsReturn ==
    \A p \in Procs : (proc[p].call = "waiting") ~> (proc[p].call # "waiting" /\ proc[p].call # "grace")
=============================================================================
