-------------------------------- MODULE Boot --------------------------------
(***************************************************************************)
(* Booting and stopping the control plane (cmd/ns-controlplane), several   *)
(* processes at a time, and ns seed admin, which migrates the database     *)
(* too. Every call to Postgres, NATS or ClickHouse is a step; any of them  *)
(* may fail, and a process may be told to stop or die between any two.     *)
(* What the processes share outlives them: Postgres, where a migration and *)
(* its record are one transaction, ClickHouse, where they are two          *)
(* statements, and the JetStream stream.                                   *)
(***************************************************************************)
EXTENDS Integers, FiniteSets

CONSTANTS
    Procs,          \* processes
    Envs,           \* process -> the environments it may be started with
    PgFiles,        \* how many embedded migrations there are, named 1 .. PgFiles
    ChFiles,        \* how many ClickHouse schema files
    Versions,       \* stream configurations binaries ask for
    NoStream,       \* not a configuration
    BootFaults      \* what the environment does

Commands == {"controlplane", "seed"}
Hosts    == {"loopback", "other", "empty"}      \* the host part of the listen address
\* cert, key: the TLS file variables are set; autotls, plaintext: the opt-ins;
\* tlsMin: Config.TLSMinVersion as 0 (unset), 11, 12 or 13.
Env == [cmd : Commands, dsn : BOOLEAN, chURL : BOOLEAN, want : Versions, host : Hosts,
        cert : BOOLEAN, key : BOOLEAN, autotls : BOOLEAN, plaintext : BOOLEAN,
        tlsMin : {0, 11, 12, 13}]

ASSUME BootAssumption ==
    /\ Envs \in [Procs -> SUBSET Env]
    /\ PgFiles \in Nat /\ ChFiles \in Nat
    /\ NoStream \notin Versions
    /\ BootFaults \subseteq {"call", "crash", "sigterm"}

VARIABLES
    \* shared
    pgApplied, pgRecorded,      \* migrations that took effect; rows of _schema_migrations
    chApplied, chRecorded,      \* the same for _ch_schema_applied
    stream,                     \* the configuration of the stream, or NoStream
    seeded,                     \* the rows of ns seed admin: "tenant", "user"
    \* per process
    env,        \* its environment
    pc,         \* the call it makes next
    ctx,        \* its context was canceled
    todo,       \* the files its loadAppliedSet did not find, still to apply
    seen,       \* what StreamInfo answered
    tls,        \* how it listens
    workers,    \* its background goroutines are running
    \* the environment
    faults      \* what of BootFaults still happens

shared == <<pgApplied, pgRecorded, chApplied, chRecorded, stream, seeded>>
locals == <<todo, seen, tls, workers>>
vars   == <<shared, env, pc, ctx, locals, faults>>

Least(S) == CHOOSE x \in S : \A y \in S : x <= y
Go(p, next) == pc' = [pc EXCEPT ![p] = next]

\* The process is gone, and with it everything it did not write.
Gone(p) ==
    /\ pc' = [pc EXCEPT ![p] = "down"]
    /\ ctx' = [ctx EXCEPT ![p] = FALSE]
    /\ todo' = [todo EXCEPT ![p] = {}]
    /\ seen' = [seen EXCEPT ![p] = NoStream]
    /\ tls' = [tls EXCEPT ![p] = "none"]
    /\ workers' = [workers EXCEPT ![p] = FALSE]
    /\ UNCHANGED env

-----------------------------------------------------------------------------
(***************************************************************************)
(* Starting, failing, stopping.                                            *)
(***************************************************************************)

\* The container runtime starts it; ns seed is started once more by its operator.
Start(p) ==
    /\ pc[p] = "down"
    /\ Go(p, "open")
    /\ UNCHANGED <<shared, env, ctx, locals>>

\* The calls that get the process's context fail once that is canceled.
TakesContext == {"open", "pgload", "pgapply", "tenant", "user", "chload", "chexec", "chrecord"}
Calls        == TakesContext \cup {"nats", "info", "ensure"}

\* run returns the exit code of the call that failed.
Fails(p) ==
    /\ pc[p] \in Calls
    /\ "call" \in faults \/ (ctx[p] /\ pc[p] \in TakesContext)
    /\ Gone(p) /\ UNCHANGED shared

Sigterm(p) ==
    /\ "sigterm" \in faults
    /\ pc[p] # "down" /\ ~ctx[p]
    /\ ctx' = [ctx EXCEPT ![p] = TRUE]
    /\ UNCHANGED <<shared, env, pc, locals>>

Crash(p) ==
    /\ "crash" \in faults
    /\ pc[p] # "down"
    /\ Gone(p) /\ UNCHANGED shared

-----------------------------------------------------------------------------
(***************************************************************************)
(* Postgres: Open, Migrate.                                                *)
(***************************************************************************)
Alive(p, call) == pc[p] = call /\ ~(ctx[p] /\ call \in TakesContext)

Open(p) ==
    /\ Alive(p, "open")
    /\ IF env[p].dsn THEN Go(p, "pgload") /\ UNCHANGED <<env, ctx, locals>> ELSE Gone(p)
    /\ UNCHANGED shared

\* After the last migration: the seed command goes on to its rows.
AfterMigrate(p) == IF env[p].cmd = "seed" THEN "tenant" ELSE "nats"

\* A plausible mistake: nothing looks whether a file is left to apply.
LoadApplied_NoneLeft(p) ==
    /\ Alive(p, "pgload")
    /\ todo' = [todo EXCEPT ![p] = (1 .. PgFiles) \ pgRecorded]
    /\ Go(p, "pgapply")
    /\ UNCHANGED <<shared, env, ctx, seen, tls, workers>>

\* loadAppliedSet, once; the files are sorted by name.
LoadApplied(p) ==
    /\ Alive(p, "pgload")
    /\ todo' = [todo EXCEPT ![p] = (1 .. PgFiles) \ pgRecorded]
    /\ Go(p, IF (1 .. PgFiles) \subseteq pgRecorded THEN AfterMigrate(p) ELSE "pgapply")
    /\ UNCHANGED <<shared, env, ctx, seen, tls, workers>>

\* A plausible mistake: the files are taken in no particular order.
NextFile_AnyOrder(p) == CHOOSE f \in todo[p] : \A g \in todo[p] : g <= f

NextFile(p) == Least(todo[p])

\* applyOne: body and record in one transaction. Every migration is written so that it
\* may run again (IF NOT EXISTS); the record has ON CONFLICT DO NOTHING.
ApplyMigration(p) ==
    /\ Alive(p, "pgapply")
    /\ pgApplied' = pgApplied \cup {NextFile(p)}
    /\ pgRecorded' = pgRecorded \cup {NextFile(p)}
    /\ todo' = [todo EXCEPT ![p] = @ \ {NextFile(p)}]
    /\ Go(p, IF todo[p] = {NextFile(p)} THEN AfterMigrate(p) ELSE "pgapply")
    /\ UNCHANGED <<chApplied, chRecorded, stream, seeded, env, ctx, seen, tls, workers>>

\* Another process committed the same file since this one loaded the set: CREATE ... IF
\* NOT EXISTS may lose that race with a unique violation of the catalog, and run exits.
MigrationConflict(p) ==
    /\ Alive(p, "pgapply")
    /\ NextFile(p) \in pgRecorded
    /\ Gone(p) /\ UNCHANGED shared

\* ns seed admin: EnsureTenant, then CreateUser; both leave an existing row alone.
EnsureTenant(p) ==
    /\ Alive(p, "tenant")
    /\ seeded' = seeded \cup {"tenant"}
    /\ Go(p, "user")
    /\ UNCHANGED <<pgApplied, pgRecorded, chApplied, chRecorded, stream, env, ctx, locals>>

CreateUser(p) ==
    /\ Alive(p, "user")
    /\ seeded' = seeded \cup {"user"}
    /\ Gone(p)
    /\ UNCHANGED <<pgApplied, pgRecorded, chApplied, chRecorded, stream>>

-----------------------------------------------------------------------------
(***************************************************************************)
(* NATS: Connect, JetStream, EnsureStream.                                 *)
(***************************************************************************)
Connect(p) ==
    /\ Alive(p, "nats")
    /\ Go(p, "info")
    /\ UNCHANGED <<shared, env, ctx, locals>>

StreamInfo(p) ==
    /\ Alive(p, "info")
    /\ seen' = [seen EXCEPT ![p] = stream]
    /\ Go(p, "ensure")
    /\ UNCHANGED <<shared, env, ctx, todo, tls, workers>>

streamConfigDiffers(p) == seen[p] # env[p].want

\* A plausible mistake: a stream that differs is an error.
EnsureStream_NoUpdate(p) ==
    /\ Alive(p, "ensure")
    /\ IF stream \notin {NoStream, env[p].want}
         THEN UNCHANGED stream /\ Gone(p)
         ELSE stream' = env[p].want /\ Go(p, "chload") /\ UNCHANGED <<env, ctx, locals>>
    /\ UNCHANGED <<pgApplied, pgRecorded, chApplied, chRecorded, seeded>>

\* Added where there was none, updated where it differed. Adding one that is there by
\* now is refused by the server unless it is the same.
EnsureStream(p) ==
    /\ Alive(p, "ensure")
    /\ IF seen[p] = NoStream /\ stream \notin {NoStream, env[p].want}
         THEN UNCHANGED stream /\ Gone(p)
         ELSE /\ stream' = IF streamConfigDiffers(p) THEN env[p].want ELSE stream
              /\ Go(p, "chload") /\ UNCHANGED <<env, ctx, locals>>
    /\ UNCHANGED <<pgApplied, pgRecorded, chApplied, chRecorded, seeded>>

-----------------------------------------------------------------------------
(***************************************************************************)
(* ClickHouse: Open, Apply. Then the goroutines start.                     *)
(***************************************************************************)
\* A plausible mistake: a control plane without ClickHouse serves what it can.
LoadSchema_Optional(p) ==
    /\ Alive(p, "chload")
    /\ todo' = [todo EXCEPT ![p] = IF env[p].chURL THEN (1 .. ChFiles) \ chRecorded ELSE {}]
    /\ Go(p, IF ~env[p].chURL \/ (1 .. ChFiles) \subseteq chRecorded THEN "spawn" ELSE "chexec")
    /\ UNCHANGED <<shared, env, ctx, seen, tls, workers>>

LoadSchema(p) ==
    /\ Alive(p, "chload")
    /\ IF env[p].chURL
         THEN /\ todo' = [todo EXCEPT ![p] = (1 .. ChFiles) \ chRecorded]
              /\ Go(p, IF (1 .. ChFiles) \subseteq chRecorded THEN "spawn" ELSE "chexec")
              /\ UNCHANGED <<env, ctx, seen, tls, workers>>
         ELSE Gone(p)
    /\ UNCHANGED shared

\* The statement; a crash before its record makes the next process run it again.
ExecSchema(p) ==
    /\ Alive(p, "chexec")
    /\ chApplied' = chApplied \cup {NextFile(p)}
    /\ Go(p, "chrecord")
    /\ UNCHANGED <<pgApplied, pgRecorded, chRecorded, stream, seeded, env, ctx, locals>>

RecordSchema(p) ==
    /\ Alive(p, "chrecord")
    /\ chRecorded' = chRecorded \cup {NextFile(p)}
    /\ todo' = [todo EXCEPT ![p] = @ \ {NextFile(p)}]
    /\ Go(p, IF todo[p] = {NextFile(p)} THEN "spawn" ELSE "chexec")
    /\ UNCHANGED <<pgApplied, pgRecorded, chApplied, stream, seeded, env, ctx, seen, tls, workers>>

\* The ingest consumer, the SLO evaluator and the anomaly evaluator.
Spawn(p) ==
    /\ pc[p] = "spawn"
    /\ workers' = [workers EXCEPT ![p] = TRUE]
    /\ Go(p, "listen")
    /\ UNCHANGED <<shared, env, ctx, todo, seen, tls>>

-----------------------------------------------------------------------------
(***************************************************************************)
(* AutoTLS, api.New with validateTLSConfig, and Run.                       *)
(***************************************************************************)
isLoopbackAddr(e) == e.host = "loopback"

\* A plausible mistake: ":8080" counts as loopback, as isLoopbackAddr's comment starts.
AutoTLS_EmptyHost(e) == ~e.cert /\ ~e.key /\ e.host \in {"loopback", "empty"}

\* It conflicts with certificates of one's own and refuses to be reached from outside.
AutoTLS(e) == ~e.cert /\ ~e.key /\ isLoopbackAddr(e)

\* With the files of AutoTLS in place of the operator's.
hasCert(e) == e.cert \/ e.autotls
hasKey(e)  == e.key \/ e.autotls

validateTLSConfig(e) ==
    /\ hasCert(e) = hasKey(e)
    /\ hasCert(e) \/ e.plaintext
    /\ hasCert(e) => e.tlsMin \in {0, 12, 13}

New(e) == (e.autotls => AutoTLS(e)) /\ validateTLSConfig(e)

Listen(p) ==
    /\ pc[p] = "listen"
    /\ IF New(env[p])
         THEN /\ tls' = [tls EXCEPT ![p] = IF env[p].autotls THEN "selfsigned"
                                            ELSE IF hasCert(env[p]) THEN "tls" ELSE "plaintext"]
              /\ Go(p, "serving")
              /\ UNCHANGED <<env, ctx, todo, seen, workers>>
         ELSE Gone(p)
    /\ UNCHANGED shared

\* Run returns: the listener failed, or the context was canceled and the requests under
\* way are drained or given up after 30 seconds. main returns without waiting for the
\* goroutines.
Return(p) ==
    /\ pc[p] = "serving"
    /\ ctx[p] \/ "call" \in faults
    /\ Gone(p) /\ UNCHANGED shared

-----------------------------------------------------------------------------
Init ==
    /\ pgApplied = {} /\ pgRecorded = {} /\ chApplied = {} /\ chRecorded = {}
    /\ stream \in Versions \cup {NoStream}
    /\ seeded = {}
    /\ env \in {e \in [Procs -> UNION {Envs[p] : p \in Procs}] : \A p \in Procs : e[p] \in Envs[p]}
    /\ pc = [p \in Procs |-> "down"]
    /\ ctx = [p \in Procs |-> FALSE]
    /\ todo = [p \in Procs |-> {}]
    /\ seen = [p \in Procs |-> NoStream]
    /\ tls = [p \in Procs |-> "none"]
    /\ workers = [p \in Procs |-> FALSE]
    /\ faults = BootFaults

Step(p) ==
    \/ Open(p) \/ LoadApplied(p) \/ ApplyMigration(p) \/ MigrationConflict(p)
    \/ EnsureTenant(p) \/ CreateUser(p)
    \/ Connect(p) \/ StreamInfo(p) \/ EnsureStream(p)
    \/ LoadSchema(p) \/ ExecSchema(p) \/ RecordSchema(p)
    \/ Spawn(p) \/ Listen(p)

\* The servers are up, and nobody stops or kills a process any more.
Settle ==
    /\ faults # {}
    /\ faults' = {}
    /\ UNCHANGED <<shared, env, pc, ctx, locals>>

Proceeds(p) == (Start(p) \/ Step(p) \/ Fails(p) \/ Return(p)) /\ UNCHANGED faults
Disturbs(p) == (Sigterm(p) \/ Crash(p)) /\ UNCHANGED faults

Next == Settle \/ \E p \in Procs : Proceeds(p) \/ Disturbs(p)

Spec == Init /\ [][Next]_vars

(***************************************************************************)
(* Fairness: the container runtime restarts what went down (restart:       *)
(* unless-stopped), a process goes on with its calls, and from some time   *)
(* on the calls succeed and nobody stops or kills it.                      *)
(***************************************************************************)
Fairness ==
    /\ WF_vars(Settle)
    /\ \A p \in Procs : WF_vars(Proceeds(p))

LiveSpec == Spec /\ Fairness

-----------------------------------------------------------------------------
TypeOK ==
    /\ pgApplied \subseteq 1 .. PgFiles /\ pgRecorded \subseteq pgApplied
    /\ chApplied \subseteq 1 .. ChFiles
    /\ stream \in Versions \cup {NoStream}
    /\ seeded \subseteq {"tenant", "user"}
    /\ \A p \in Procs : env[p] \in Envs[p]
    /\ pc \in [Procs -> Calls \cup {"down", "spawn", "listen", "serving"}]
    /\ ctx \in [Procs -> BOOLEAN]
    /\ todo \in [Procs -> SUBSET ((1 .. PgFiles) \cup (1 .. ChFiles))]
    /\ \A p \in Procs : /\ pc[p] \in {"pgapply", "chexec", "chrecord"} <=> todo[p] # {}
                        /\ pc[p] = "pgapply" => todo[p] \subseteq 1 .. PgFiles
                        /\ pc[p] \in {"chexec", "chrecord"} => todo[p] \subseteq 1 .. ChFiles
    /\ seen \in [Procs -> Versions \cup {NoStream}]
    /\ tls \in [Procs -> {"none", "tls", "selfsigned", "plaintext"}]
    /\ workers \in [Procs -> BOOLEAN]
    /\ faults \in {BootFaults, {}}

Prefix(S) == \A f \in S : 1 .. f \subseteq S

\* Two processes that loaded the applied set before either recorded anything, and crashes
\* between a ClickHouse statement and its record, never leave a gap: what has been applied
\* is a prefix of the files in name order, and what is recorded has been applied.
NoGapInSchema ==
    /\ Prefix(pgApplied) /\ pgRecorded = pgApplied
    /\ Prefix(chApplied) /\ Prefix(chRecorded) /\ chRecorded \subseteq chApplied

\* Whatever the other processes do: no goroutine runs and no request is served before every
\* migration and schema file is in place and the stream exists, and ns seed writes its rows
\* into a migrated database (run, main.go:112-172; newSeedAdminCmd).
ReadyBeforeServing ==
    \A p \in Procs :
      /\ pc[p] \in {"tenant", "user", "nats"} => pgApplied = 1 .. PgFiles
      /\ workers[p] \/ pc[p] = "serving" =>
           pgApplied = 1 .. PgFiles /\ chApplied = 1 .. ChFiles /\ stream # NoStream

\* server.go:271-285 and devtls.go: plaintext is served only where it was asked for and no
\* certificate was given, the self-signed certificate only on loopback and never beside
\* files of the operator's, and half a key pair or a version below 1.2 is never served.
TLSPosture ==
    \A p \in Procs : pc[p] = "serving" =>
      LET e == env[p] IN
      /\ tls[p] = "plaintext" => e.plaintext /\ ~e.cert /\ ~e.key
      /\ tls[p] = "selfsigned" => e.autotls /\ e.host = "loopback" /\ ~e.cert /\ ~e.key
      /\ tls[p] = "tls" => e.cert /\ e.key
      /\ tls[p] # "plaintext" => e.tlsMin # 11

\* A control plane whose environment is sound ends up serving, for good, and ns seed gets
\* its rows in, after any number of failures, conflicts and crashes of either process.
ServesInTheEnd ==
    \A p \in Procs :
      IF env[p].cmd = "seed" THEN env[p].dsn => <>(seeded = {"tenant", "user"})
      ELSE env[p].dsn /\ env[p].chURL /\ New(env[p]) => <>[](pc[p] = "serving")
=============================================================================
