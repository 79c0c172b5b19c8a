------------------------------- MODULE MCStartup -------------------------------
(***************************************************************************)
(* Startup for TLC: what a shell and a .env file typically hold.           *)
(***************************************************************************)
EXTENDS Startup

Nothing == [v \in Variables |-> "unset"]

\* A deployment that exports its environment, its credentials and an option that
\* does not parse, and leaves the rest to the file; a file with every variable
\* but the environment, other credentials for production among them.
Production == [Nothing EXCEPT !["APP_ENV"] = "production", !["PROD"] = "shell",
                              !["OPTION"] = "invalid"]
LeftBehind == [v \in Variables |-> IF v = "APP_ENV" THEN "unset" ELSE "file"]

\* That deployment, which gets through, a developer without a database, and two
\* deployments that lack their credentials or have a port that is none.
MCSettings ==
    {[shell |-> Production, file |-> LeftBehind],
     [shell |-> Nothing, file |-> [LeftBehind EXCEPT !["DATABASE_URL"] = "unset"]],
     [shell |-> [Production EXCEPT !["PROD"] = "unset"],
      file |-> [LeftBehind EXCEPT !["PROD"] = "unset"]],
     [shell |-> [Production EXCEPT !["METRICS_PORT"] = "invalid"], file |-> LeftBehind]}
===============================================================================
