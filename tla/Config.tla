------------------------------- MODULE Config -------------------------------
(***************************************************************************)
(* Loading the configuration, internal/config/config.go: defaults, then    *)
(* the environment, then the first TOML file that exists, then validate.   *)
(* A field stands for each way a setting is read: a number                 *)
(* (agent.max_parallel_jobs, also for http_port), plain strings (env,      *)
(* database.driver and dsn, also for the names and addresses) and the LLM  *)
(* settings, which MINIMAX_API_KEY changes together.  "" is an unset       *)
(* variable or a key the file does not have.                               *)
(***************************************************************************)
EXTENDS Integers, Sequences, FiniteSets

CONSTANTS Environments,  \* the environments considered, a subset of Environment
          Files          \* what the default paths may hold, most preferred first

Numbers == {"", "-1", "0", "3", "many"}
Atoi == [n \in {"-1", "0", "3"} |-> CASE n = "-1" -> -1 [] n = "0" -> 0 [] n = "3" -> 3]

Driver == {"", "memory", "postgres", "libsql", "mysql"}
Env == {"", "development", "staging", "production", "prod"}
Settings == [env : Env, jobs : Numbers, driver : Driver, dsn : {"", "url"},
             provider : {"", "openai", "anthropic"}, model : {"", "gpt-4o-mini", "own"},
             key : {"", "envKey", "fileKey"}, base : {"", "envBase", "fileBase"}]
Environment == [s : Settings, minimax : {"", "mmKey"}]
\* A file does not exist, does not decode (or has unknown keys), or has settings.
File == {[state |-> "none"], [state |-> "bad"]} \cup [state : {"ok"}, s : Settings]

ASSUME ConfigAssumption ==
  /\ \A e \in Environments : e \in Environment
  /\ \A fs \in Files :
       /\ fs \in Seq(File)
       /\ \A i \in DOMAIN fs : fs[i].state = "ok" => fs[i].s \in Settings /\ fs[i].s.jobs # "many"

VARIABLES environ, files,  \* the inputs
          cfg,             \* the configuration as loaded so far
          phase            \* the next layer, or how Load ended

configVars == <<environ, files, cfg, phase>>

\* DefaultConfig.
DefaultConfig ==
  [env |-> "development", jobs |-> 4, driver |-> "memory", dsn |-> "", provider |-> "openai",
   model |-> "gpt-4o-mini", key |-> "", base |-> ""]

ConfigTypeOK ==
  /\ cfg.env \in Env \ {""}
  /\ cfg.jobs \in Int
  /\ cfg.driver \in Driver \ {""}
  /\ cfg.provider \in {"openai", "anthropic", "minimax"}
  /\ cfg.model \in {"gpt-4o-mini", "own", "MiniMax-M2.7"}
  /\ cfg.key \in {"", "envKey", "fileKey", "mmKey"}
  /\ cfg.base \in {"", "envBase", "fileBase", "minimax"}
  /\ phase \in {"env", "file", "validate", "loaded", "failed"}

ConfigInit ==
  /\ environ \in Environments
  /\ files \in Files
  /\ cfg = DefaultConfig
  /\ phase = "env"

-----------------------------------------------------------------------------

\* A setting that is there replaces the one before it.
Or(value, before) == IF value = "" THEN before ELSE value
OrNumber(value, before) == IF value = "" THEN before ELSE Atoi[value]

\* The settings s on top of the configuration c.
Overlay(c, s) ==
  [env |-> Or(s.env, c.env), jobs |-> OrNumber(s.jobs, c.jobs), driver |-> Or(s.driver, c.driver),
   dsn |-> Or(s.dsn, c.dsn), provider |-> Or(s.provider, c.provider),
   model |-> Or(s.model, c.model), key |-> Or(s.key, c.key), base |-> Or(s.base, c.base)]

\* Fault: the key of MiniMax with the model of OpenAI.
withMinimaxKeyOnly(c, key) ==
  IF key = "" THEN c ELSE [c EXCEPT !.key = key, !.provider = "minimax"]

\* MINIMAX_API_KEY, read after the other LLM settings but for the base URL.
withMinimax(c, key) ==
  IF key = "" THEN c
  ELSE [c EXCEPT !.key = key,
                 !.provider = IF @ \in {"", "openai"} THEN "minimax" ELSE @,
                 !.model = IF @ \in {"", "gpt-4o-mini"} THEN "MiniMax-M2.7" ELSE @,
                 !.base = Or(@, "minimax")]

\* loadFromEnv; a number that does not parse ends Load.
loadFromEnv ==
  /\ phase = "env"
  /\ IF environ.s.jobs = "many"
     THEN phase' = "failed" /\ UNCHANGED cfg
     ELSE LET c == withMinimax(Overlay(cfg, [environ.s EXCEPT !.base = ""]), environ.minimax)
          IN /\ cfg' = [c EXCEPT !.base = Or(environ.s.base, @)]
             /\ phase' = "file"
  /\ UNCHANGED <<environ, files>>

Present == {i \in DOMAIN files : files[i].state # "none"}
First == CHOOSE i \in Present : \A j \in Present : i <= j

\* The first file that exists, and no other.
loadFromFile ==
  /\ phase = "file"
  /\ IF Present = {} THEN phase' = "validate" /\ UNCHANGED cfg
     ELSE IF files[First].state = "bad" THEN phase' = "failed" /\ UNCHANGED cfg
     ELSE cfg' = Overlay(cfg, files[First].s) /\ phase' = "validate"
  /\ UNCHANGED <<environ, files>>

Valid(c) ==
  /\ c.env \in {"development", "staging", "production"}
  /\ c.driver \in {"memory", "postgres", "libsql"}
  /\ c.driver # "memory" => c.dsn # ""

validate ==
  /\ phase = "validate"
  /\ phase' = IF Valid(cfg) THEN "loaded" ELSE "failed"
  /\ cfg' = IF Valid(cfg) /\ cfg.jobs <= 0 THEN [cfg EXCEPT !.jobs = 1] ELSE cfg
  /\ UNCHANGED <<environ, files>>

ConfigNext == loadFromEnv \/ loadFromFile \/ validate

ConfigSpec == ConfigInit /\ [][ConfigNext]_configVars

-----------------------------------------------------------------------------
(* Properties.                                                             *)

Given(i, field) == IF files[i].state = "ok" THEN files[i].s[field] ELSE ""

\* The order of the layers (config.go:121): a string that the first file sets is
\* the one in use, whatever the environment, MiniMax's key and the less preferred
\* files say; one it leaves out comes from the environment or the default.
LayersInOrder ==
  phase = "loaded" =>
    \A field \in {"env", "driver", "dsn", "provider", "model", "key", "base"} :
      LET inFile == IF Present = {} THEN "" ELSE Given(First, field)
          inEnv == environ.s[field]
      IN IF inFile # "" THEN cfg[field] = inFile
         ELSE \/ cfg[field] = Or(inEnv, DefaultConfig[field])
              \/ environ.minimax # "" /\ field \in {"provider", "model", "key", "base"}

\* The pool can start and the database can be opened: whatever layer gave them,
\* at least one worker, and a data source unless the database is in memory
\* (config.go 268-292).
LoadedIsUsable ==
  phase = "loaded" => cfg.jobs >= 1 /\ (cfg.driver # "memory" => cfg.dsn # "")

\* With MINIMAX_API_KEY alone the client is complete: when the key in use is
\* MiniMax's and no layer chose a provider, model or base URL, all of them are
\* MiniMax's (config.go 217-228).
MinimaxComplete ==
  phase = "loaded" /\ cfg.key = "mmKey" =>
    /\ environ.s.provider \in {"", "openai"} /\ (Present = {} \/ Given(First, "provider") = "")
         => cfg.provider = "minimax"
    /\ environ.s.model \in {"", "gpt-4o-mini"} /\ (Present = {} \/ Given(First, "model") = "")
         => cfg.model = "MiniMax-M2.7"
    /\ cfg.base # ""

\* The configuration that the environment alone makes of the defaults, and what
\* the first file makes of that.
FromEnv ==
  LET c == withMinimax(Overlay(DefaultConfig, [environ.s EXCEPT !.base = ""]), environ.minimax)
  IN [c EXCEPT !.base = Or(environ.s.base, @)]
FromFile == IF Present = {} THEN FromEnv ELSE Overlay(FromEnv, files[First].s)

\* Every layer is applied once, to the one before it, and none after validate,
\* which raises a number of workers that is not positive (config.go 121-157).
LayerByLayer ==
  /\ phase = "env" => cfg = DefaultConfig
  /\ phase \in {"file", "validate", "loaded"} => environ.s.jobs # "many"
  /\ phase = "file" => cfg = FromEnv
  /\ phase \in {"validate", "loaded"} => Present = {} \/ files[First].state = "ok"
  /\ phase = "validate" => cfg = FromFile
  /\ phase = "loaded" =>
       Valid(cfg) /\ cfg = [FromFile EXCEPT !.jobs = IF @ <= 0 THEN 1 ELSE @]

\* A configuration that Load returns follows its layers and can be used
\* (config.go).
ConfigInv ==
  /\ ConfigTypeOK
  /\ LayerByLayer
  /\ LayersInOrder
  /\ LoadedIsUsable
  /\ MinimaxComplete
=============================================================================
