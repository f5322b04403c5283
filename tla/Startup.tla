------------------------------ MODULE Startup ------------------------------
(***************************************************************************)
(* The life of the process: settings merged from three layers, the schema  *)
(* applied statement by statement to a database that earlier runs may have *)
(* left half done, background tasks, the two listeners, the readiness      *)
(* probe, and the way down.  A supervisor starts the process again.        *)
(***************************************************************************)
EXTENDS Integers

CONSTANTS
    Addresses,      \* texts that parse as a socket address
    Defaults,       \* Config::default(), the retention in hours
    Layerings,      \* what arguments, environment and file may set
    HourSecs,       \* 3600 in the code
    Word,           \* 2^64 in the code
    MaxPermits,     \* the largest capacity tokio gives a channel
    MaxCutoffHours, \* beyond it now - retention is no date, and chrono panics
    Statements,     \* statements of the migration, 12 in the code
    MaxFaults       \* bound on crashes, failures and shutdowns

Texts == {"grpc", "http"}
Numbers == {"hours", "size", "flush"}
Names == Texts \cup Numbers

\* A setting is an Option: empty, or the set of its value.
IsOption(o) == \A v, w \in o : v = w
ASSUME LayeringsAssumption ==
    \A l \in Layerings :
        /\ \A x \in Names : IsOption(l.arg[x]) /\ IsOption(l.env[x]) /\ IsOption(l.file[x])
        /\ \A x \in Numbers : l.arg[x] \cup l.env[x] \cup l.file[x] \subseteq Nat
ASSUME DefaultsAssumption ==
    /\ Defaults.grpc \in Addresses /\ Defaults.http \in Addresses
    /\ \A x \in Numbers : Defaults[x] \in Nat
ASSUME NumbersAssumption ==
    /\ {HourSecs, Word, MaxPermits, Statements} \subseteq Nat \ {0}
    /\ MaxCutoffHours \in Nat /\ MaxFaults \in Nat

VARIABLES
    layers,     \* the settings of this deployment, by layer
    phase,      \* how far main has come
    config,     \* Config, the retention in seconds
    schema,     \* statements of the migration that took effect: it is on disk
    at,         \* the statement that is next
    task,       \* the two background tasks
    listening,  \* addresses this process is bound to
    taken,      \* addresses another process is bound to
    flag,       \* grpc_ready
    probe,      \* a readiness probe
    faults      \* how many there were

vars == <<layers, phase, config, schema, at, task, listening, taken, flag, probe, faults>>

-----------------------------------------------------------------------------
(* Config *)

Or(option, other) == IF option = {} THEN other ELSE option
UnwrapOr(option, default) == IF option = {} THEN default ELSE CHOOSE v \in option : TRUE

\* Clap takes the environment variable when the argument is absent.
Cli(x) == Or(layers.arg[x], layers.env[x])

\* Mutant: the file wins.
Merged_FileFirst(x) == Or(layers.file[x], Cli(x))
Merged(x) == Or(Cli(x), layers.file[x])

\* A text that is no address is dropped, whichever layers are below.
Address(x) == UnwrapOr(Merged(x) \cap Addresses, Defaults[x])
Number(x) == UnwrapOr(Merged(x), Defaults[x])

Overflows == Number("hours") * HourSecs >= Word

\* Mutant: a product that is wider than 64 bits.
FromCliAndFile_Wide ==
    [grpc |-> Address("grpc"), http |-> Address("http"),
     retention |-> Number("hours") * HourSecs,
     size |-> Number("size"), flush |-> Number("flush")]
FromCliAndFile ==
    [grpc |-> Address("grpc"), http |-> Address("http"),
     retention |-> (Number("hours") * HourSecs) % Word,
     size |-> Number("size"), flush |-> Number("flush")]

RetentionHours == config.retention \div HourSecs

-----------------------------------------------------------------------------
NoConfig == [grpc |-> Defaults.grpc, http |-> Defaults.http, retention |-> 0, size |-> 0, flush |-> 0]
NoTasks == [flush |-> "none", cleanup |-> "none"]
Idle == "idle"

Init ==
    /\ layers \in Layerings
    /\ phase = "down"
    /\ config = NoConfig
    /\ schema = {}
    /\ at = 1
    /\ task = NoTasks
    /\ listening = {}
    /\ taken = {}
    /\ flag = FALSE
    /\ probe = Idle
    /\ faults = 0

\* The process is gone; its listeners with it, but not what is on disk.
Gone ==
    /\ phase' = "down"
    /\ config' = NoConfig
    /\ at' = 1
    /\ task' = NoTasks
    /\ listening' = {}
    /\ flag' = FALSE
    /\ probe' = Idle
    /\ UNCHANGED <<layers, schema, taken>>

Reaches(next) ==
    /\ phase' = next
    /\ UNCHANGED <<layers, taken, probe, faults>>

-----------------------------------------------------------------------------
(* main, in its order *)

\* Config::load.  When the retention overflows it wraps, or, in a build with
\* overflow checks, main panics, which like an unreadable file leaves all as it
\* is and is no step.
Load ==
    /\ phase = "down"
    /\ config' = FromCliAndFile
    /\ Reaches("loaded")
    /\ UNCHANGED <<schema, at, task, listening, flag>>

\* init_pool has its connections.
OpenPool ==
    /\ phase = "loaded"
    /\ Reaches("migrating")
    /\ UNCHANGED <<config, schema, at, task, listening, flag>>

\* Mutant: a table that is there is taken for a schema that is.
Migrate_TrustsFirst ==
    /\ phase = "migrating"
    /\ schema' = schema \cup {at}
    /\ at' = at + 1
    /\ Reaches(IF at = Statements \/ (at = 1 /\ 1 \in schema) THEN "migrated" ELSE "migrating")
    /\ UNCHANGED <<config, task, listening, flag>>
\* Mutant: CREATE without IF NOT EXISTS.
Migrate_FailsIfThere ==
    /\ phase = "migrating"
    /\ IF at \in schema THEN Gone /\ UNCHANGED faults
       ELSE /\ schema' = schema \cup {at}
            /\ at' = at + 1
            /\ Reaches(IF at = Statements THEN "migrated" ELSE "migrating")
            /\ UNCHANGED <<config, task, listening, flag>>
\* run_migrations: every statement commits by itself, and is no error if what it
\* creates is there.
Migrate ==
    /\ phase = "migrating"
    /\ schema' = schema \cup {at}
    /\ at' = at + 1
    /\ Reaches(IF at = Statements THEN "migrated" ELSE "migrating")
    /\ UNCHANGED <<config, task, listening, flag>>

\* mpsc::channel panics on a capacity of zero or too large.
Spawn ==
    /\ phase = "migrated"
    /\ IF config.size \in 1 .. MaxPermits
         THEN /\ task' = [flush |-> "spawned", cleanup |-> "spawned"]
              /\ Reaches("spawned")
              /\ UNCHANGED <<config, schema, at, listening, flag>>
         ELSE Gone /\ UNCHANGED faults

\* A listener binds, or main returns the error.
Bind(address, next) ==
    IF address \in taken \cup listening
    THEN Gone /\ UNCHANGED faults
    ELSE /\ listening' = listening \cup {address}
         /\ Reaches(next)
         /\ UNCHANGED <<config, schema, at, task, flag>>

BindGrpc == phase = "spawned" /\ Bind(config.grpc, "bound")

SignalReady ==
    /\ phase = "bound"
    /\ flag' = TRUE
    /\ Reaches("signalled")
    /\ UNCHANGED <<config, schema, at, task, listening>>

BindHttp == phase = "signalled" /\ Bind(config.http, "serving")

\* Ctrl-C, or one of the servers ended: select! drops both.
Stop ==
    /\ phase = "serving"
    /\ faults < MaxFaults
    /\ faults' = faults + 1
    /\ phase' = "stopping"
    /\ listening' = {}
    /\ UNCHANGED <<layers, config, schema, at, task, taken, flag, probe>>

\* pool.close(): no connection is handed out any more.
ClosePool ==
    /\ phase = "stopping"
    /\ Reaches("closing")
    /\ UNCHANGED <<config, schema, at, task, listening, flag>>

Exit == phase = "closing" /\ Gone /\ UNCHANGED faults

\* The process is killed, or the database cannot be opened or written.
Die ==
    /\ phase # "down"
    /\ faults < MaxFaults
    /\ faults' = faults + 1
    /\ Gone

-----------------------------------------------------------------------------
(* Background tasks *)

\* tokio::time::interval panics on a period of zero.
FlushTaskStarts ==
    /\ task.flush = "spawned"
    /\ task' = [task EXCEPT !.flush = IF config.flush = 0 THEN "dead" ELSE "running"]
    /\ UNCHANGED <<layers, phase, config, schema, at, listening, taken, flag, probe, faults>>

\* The first tick comes at once, and takes the retention from the current time.
CleanupTicks ==
    /\ task.cleanup = "spawned"
    /\ task' = [task EXCEPT !.cleanup =
                   IF RetentionHours > MaxCutoffHours THEN "dead" ELSE "running"]
    /\ UNCHANGED <<layers, phase, config, schema, at, listening, taken, flag, probe, faults>>

-----------------------------------------------------------------------------
(* readyz *)

\* SELECT 1 succeeds or not; with the pool closed it does not.  A connection
\* that was accepted is served while the process stops.
ProbeDatabase ==
    /\ probe = Idle
    /\ phase \in {"serving", "stopping", "closing"}
    /\ \E ok \in IF phase = "closing" THEN {FALSE} ELSE BOOLEAN :
          probe' = IF ok THEN "reached" ELSE "failed"
    /\ UNCHANGED <<layers, phase, config, schema, at, task, listening, taken, flag, faults>>

\* The flag is read after the database answered.
ProbeAnswers ==
    /\ probe \in {"reached", "failed"}
    /\ probe' = IF probe = "reached" /\ flag THEN "200" ELSE "503"
    /\ UNCHANGED <<layers, phase, config, schema, at, task, listening, taken, flag, faults>>

ProbeDone ==
    /\ probe \in {"200", "503"}
    /\ probe' = Idle
    /\ UNCHANGED <<layers, phase, config, schema, at, task, listening, taken, flag, faults>>

-----------------------------------------------------------------------------
(* Other processes of the machine *)

Take(address) ==
    /\ address \notin taken \cup listening
    /\ faults < MaxFaults
    /\ faults' = faults + 1
    /\ taken' = taken \cup {address}
    /\ UNCHANGED <<layers, phase, config, schema, at, task, listening, flag, probe>>

Release(address) ==
    /\ address \in taken
    /\ taken' = taken \ {address}
    /\ UNCHANGED <<layers, phase, config, schema, at, task, listening, flag, probe, faults>>

-----------------------------------------------------------------------------
Main ==
    \/ Load
    \/ OpenPool
    \/ Migrate
    \/ Spawn
    \/ BindGrpc
    \/ SignalReady
    \/ BindHttp
    \/ ClosePool
    \/ Exit

Next ==
    \/ Main
    \/ Stop
    \/ Die
    \/ FlushTaskStarts
    \/ CleanupTicks
    \/ ProbeDatabase
    \/ ProbeAnswers
    \/ ProbeDone
    \/ \E address \in Addresses : Take(address) \/ Release(address)

Spec == Init /\ [][Next]_vars

\* The process runs, its supervisor starts it again, and an address is not held
\* by another process for ever.
FairSpec ==
    /\ Spec
    /\ WF_vars(Main)
    /\ \A address \in Addresses : WF_vars(Release(address))

-----------------------------------------------------------------------------
(* What must hold *)

\* Every variable keeps its type.
TypeOK ==
    /\ layers \in Layerings
    /\ phase \in {"down", "loaded", "migrating", "migrated", "spawned", "bound", "signalled",
                  "serving", "stopping", "closing"}
    /\ config \in [grpc : Addresses, http : Addresses, retention : 0 .. Word - 1,
                   size : Nat, flush : Nat]
    /\ schema \subseteq 1 .. Statements
    /\ at \in 1 .. Statements + 1
    /\ task \in [flush : {"none", "spawned", "running", "dead"},
                 cleanup : {"none", "spawned", "running", "dead"}]
    /\ listening \subseteq Addresses \ taken /\ taken \subseteq Addresses
    /\ flag \in BOOLEAN
    /\ probe \in {Idle, "reached", "failed", "200", "503"}
    /\ faults \in 0 .. MaxFaults

\* What the layers say of a setting, written without the code's operators: the
\* first layer that sets it.
Asked(x) ==
    IF layers.arg[x] # {} THEN layers.arg[x]
    ELSE IF layers.env[x] # {} THEN layers.env[x]
    ELSE layers.file[x]

\* The process runs with what was asked for: an address unless it is none, a
\* number, and a retention that is the same number of hours for the cleanup,
\* unless it overflows; what nobody set is the default.
RunsAsConfigured ==
    phase # "down" =>
        /\ \A x \in Texts : config[x] \in
              IF Asked(x) \cap Addresses # {} THEN Asked(x) ELSE {Defaults[x]}
        /\ \A x \in {"size", "flush"} : config[x] \in Or(Asked(x), {Defaults[x]})
        /\ \A hours \in Or(Asked("hours"), {Defaults.hours}) :
              RetentionHours = hours \/ hours * HourSecs >= Word

\* A process that calls itself ready has the whole schema, whatever crashed
\* half way through it before; it listens for telemetry, or is on its way down;
\* and nothing that it stores is stuck in a dead task, unless it was configured
\* to flush every zero seconds or to keep data for longer than dates reach.
ReadyMeansWorking ==
    [][probe # "200" /\ probe' = "200" =>
          /\ schema = 1 .. Statements
          /\ config.grpc \in listening \/ phase \in {"stopping", "closing"}
          /\ task.flush = "dead" => config.flush = 0
          /\ task.cleanup = "dead" => config.retention >= HourSecs * MaxCutoffHours]_vars

\* Settings that any build could run with.
Startable ==
    /\ ~Overflows
    /\ Number("size") \in 1 .. MaxPermits
    /\ Address("grpc") # Address("http")

\* Whatever crashes, shutdowns, failures and taken ports there were, half way
\* through a migration or not: once they stop, the process comes to serve.
KeepsServing == <>[](phase = "serving" \/ ~Startable)
=============================================================================
