-------------------------------- MODULE Startup --------------------------------
(***************************************************************************)
(* The process around the engine: main (src/main.rs) reads the             *)
(* configuration (src/config.rs), starts the logging and the metrics       *)
(* exporter (src/telemetry.rs), and builds and runs the engine.            *)
(*                                                                         *)
(* A value of a variable stands for where it comes from: "shell", "file"   *)
(* (.env), "default", or "invalid" if it does not parse.  The variables of *)
(* a kind are one here: those of each environment's credentials and URLs,  *)
(* and those that have a default.                                          *)
(***************************************************************************)
EXTENDS Engine

CONSTANT Settings  \* [shell, file]: what may be exported, and what .env may hold

Variables == {"APP_ENV", "DATABASE_URL", "PROD", "TESTNET", "METRICS_PORT", "OPTION"}
Values == {"unset", "invalid", "shell", "file", "production", "development"}

ASSUME StartupAssumption ==
    Settings \subseteq [shell : [Variables -> Values], file : [Variables -> Values]]

VARIABLES
    stage,   \* of main: the step it is to take next, or how the process ended
    given,   \* the operator's setting
    env,     \* the environment of the process
    config   \* AppConfig: [prefix, credentials, port, option], or <<>>

startupVars == <<stage, given, env, config>>
processVars == <<vars, startupVars>>

ProcessInit ==
    /\ Init
    /\ stage = "dotenv"
    /\ given \in Settings
    /\ env = given.shell
    /\ config = <<>>

\* dotenv adds what is not exported.
Hydrated ==
    [v \in Variables |-> IF given.shell[v] = "unset" THEN given.file[v] ELSE given.shell[v]]

\* Mutant: dotenv_override, which lets the file win.
LoadDotenvOverride ==
    /\ stage = "dotenv"
    /\ env' = [v \in Variables |-> IF given.file[v] = "unset" THEN given.shell[v]
                                   ELSE given.file[v]]
    /\ stage' = "config"
    /\ UNCHANGED <<vars, given, config>>

LoadDotenv ==
    /\ stage = "dotenv"
    /\ env' = Hydrated
    /\ stage' = "config"
    /\ UNCHANGED <<vars, given, config>>

\* Which credentials APP_ENV selects.
Prefix(e) == IF e["APP_ENV"] = "production" THEN "PROD" ELSE "TESTNET"

\* env_u32 and its like: what is missing or does not parse has its default.
OrDefault(value) == IF value \in {"unset", "invalid"} THEN "default" ELSE value

\* from_env ends in an error: a required variable is missing, or the one number
\* that is checked does not parse.
FromEnvFails ==
    \/ env["METRICS_PORT"] = "invalid"
    \/ env["DATABASE_URL"] = "unset"
    \/ env[Prefix(env)] = "unset"

LoadConfig ==
    /\ stage = "config"
    /\ IF FromEnvFails
       THEN stage' = "failed" /\ UNCHANGED config
       ELSE /\ stage' = "telemetry"
            /\ config' = [prefix      |-> Prefix(env),
                          credentials |-> env[Prefix(env)],
                          port        |-> OrDefault(env["METRICS_PORT"]),
                          option      |-> OrDefault(env["OPTION"])]
    /\ UNCHANGED <<vars, given, env>>

InitTelemetry ==
    /\ stage = "telemetry"
    /\ stage' = "exporter"
    /\ UNCHANGED <<vars, given, env, config>>

\* The address does not parse, or the socket cannot be bound.
ExporterFails ==
    /\ stage = "exporter"
    /\ stage' = "failed"
    /\ UNCHANGED <<vars, given, env, config>>

StartExporter ==
    /\ stage = "exporter"
    /\ stage' = "engine"
    /\ UNCHANGED <<vars, given, env, config>>

\* Engine::new, which has no client to reconcile positions with, and the tasks
\* that run spawns.
StartEngine ==
    /\ stage = "engine"
    /\ stage' = "spawned"
    /\ UNCHANGED <<vars, given, env, config>>

\* run installs its signal handlers when its tasks are running already.
InstallHandlers ==
    /\ stage = "spawned"
    /\ stage' = "handling"
    /\ UNCHANGED <<vars, given, env, config>>

\* The handlers cannot be installed; main returns the error, and the tasks end.
InstallFails ==
    /\ stage = "spawned"
    /\ stage' = "failed"
    /\ phase' = "returned"
    /\ UNCHANGED <<published, strategyVars, queue, workerVars, refused>>
    /\ UNCHANGED <<given, env, config>>

\* A signal without a handler ends the process at once: nothing is cancelled.
Kill ==
    /\ stage \in {"dotenv", "config", "telemetry", "exporter", "engine", "spawned"}
    /\ stage' = "killed"
    /\ phase' = "returned"
    /\ UNCHANGED <<published, strategyVars, queue, workerVars, refused>>
    /\ UNCHANGED <<given, env, config>>

\* run has returned, and main does.
Goodbye ==
    /\ stage = "handling"
    /\ phase = "returned"
    /\ stage' = "stopped"
    /\ UNCHANGED <<vars, given, env, config>>

Spawned == stage \in {"spawned", "handling"}

\* The tasks of run; the signal is run's once it has its handlers.
Strategy(s) == Spawned /\ StrategyStep(s) /\ UNCHANGED startupVars

Feed == Spawned /\ Publish /\ UNCHANGED startupVars

Worker == Spawned /\ Work /\ UNCHANGED startupVars

Shutdown == stage = "handling" /\ (Signal \/ Return) /\ UNCHANGED startupVars

ProcessNext ==
    \/ LoadDotenv \/ LoadConfig \/ InitTelemetry
    \/ ExporterFails \/ StartExporter
    \/ StartEngine \/ InstallHandlers \/ InstallFails
    \/ Kill \/ Goodbye
    \/ \E s \in Strategies : Strategy(s)
    \/ Feed \/ Worker \/ Shutdown

ProcessSpec == ProcessInit /\ [][ProcessNext]_processVars

\* As in FairSpec of Engine, the strategies' tasks are run.
ProcessFairSpec == ProcessSpec /\ \A s \in Strategies : WF_processVars(Strategy(s))

-------------------------------------------------------------------------------
(* Properties.                                                             *)

\* Type invariant.
ProcessTypeOK ==
    /\ TypeOK
    /\ stage \in {"dotenv", "config", "telemetry", "exporter", "engine", "spawned",
                  "handling", "stopped", "failed", "killed"}
    /\ given \in Settings
    /\ env \in [Variables -> Values]
    /\ config = <<>> \/ config \in [prefix : {"PROD", "TESTNET"},
                                    credentials : Values \ {"unset"},
                                    port : Values \cup {"default"},
                                    option : Values \cup {"default"}]

\* No strategy is given an event, nor does the exporter listen, before there are
\* credentials; they belong to the environment that the operator named, and what
\* is exported wins over what is left in a file (main, from_env).
TradesAsTheOperatorSays ==
    LET Said(v, value) ==
            \/ given.shell[v] = value
            \/ given.shell[v] = "unset" /\ given.file[v] = value
        named == IF Said("APP_ENV", "production") THEN "PROD" ELSE "TESTNET"
    IN  (stage \in {"engine", "spawned", "handling", "stopped"} \/ published > 0) =>
            /\ config # <<>>
            /\ config.credentials # "unset"
            /\ Said(named, config.credentials)
===============================================================================
