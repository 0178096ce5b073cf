------------------------------ MODULE MCParts ------------------------------
(* Model-checking instance of the parts that share no state with each      *)
(* other: the orchestrator, the extensions, the catalog, the configuration,*)
(* the path of a message, the approval policy and the rate limiter.  An    *)
(* execution looks at one of them: the state spaces add up instead of      *)
(* multiplying.                                                            *)
EXTENDS Orchestrator, Extensions, Catalog, Config, Pipeline, RiskEvaluator, RateLimiter

-----------------------------------------------------------------------------
(* Inputs.                                                                 *)

\* Three http writes that share a key but not their target or their risk.
MCCalls == {[tool |-> "http", action |-> "", method |-> "POST", url |-> t] :
              t \in {"local", "private", "external"}}

Doc(size, type, content, text) ==
  [document |-> TRUE, size |-> size, type |-> type, content |-> content, text |-> text]
\* Nothing, a text that came along, a readable document, two that cannot be read
\* and are known by their extension or their type, a blank one, one that is too large.
MCAttachments ==
  {NoAttachment, Doc("fits", "mime", "text", "given"), Doc("fits", "mime", "text", ""),
   Doc("fits", "extension", "broken", ""), Doc("fits", "mime", "broken", ""),
   Doc("fits", "mime", "blank", ""), Doc("toolarge", "mime", "text", "")}

Unset == [env |-> "", jobs |-> "", driver |-> "", dsn |-> "", provider |-> "", model |-> "",
          key |-> "", base |-> ""]
DatabaseSettings == {[Unset EXCEPT !.driver = d, !.dsn = s, !.jobs = n] :
                       d \in {"", "postgres", "mysql"}, s \in {"", "url"}, n \in {"", "-1", "3"}}
LLMSettings(key, base) ==
  {[Unset EXCEPT !.provider = p, !.model = m, !.key = k, !.base = b] :
     p \in {"", "openai", "anthropic"}, m \in {"", "own"}, k \in {"", key}, b \in {"", base}}
MCEnvironments ==
  [s : DatabaseSettings \cup LLMSettings("envKey", "envBase")
         \cup {[Unset EXCEPT !.jobs = "many"], [Unset EXCEPT !.env = "prod"]},
   minimax : {"", "mmKey"}]
Ok(settings) == [state : {"ok"}, s : settings]
MCFiles ==
  {<<first, second>> : first \in {[state |-> "none"], [state |-> "bad"]}
                                   \cup Ok(DatabaseSettings \cup LLMSettings("fileKey", "fileBase")),
                       second \in {[state |-> "none"],
                                   [state |-> "ok", s |-> [Unset EXCEPT !.driver = "memory",
                                                                        !.key = "fileKey"]]}}

\* Manifests that differ in what decides about their entry and their search; the
\* fields that the conversion of their kind does not read are fixed.
MCManifests ==
  {m \in ManifestType :
     /\ m.auth = "" /\ m.method = "odd"
     /\ IF m.kind = "mcp_server" THEN m.artifact = "none" /\ m.source = "none" ELSE ~m.url
     /\ ~m.display => ~m.hidden /\ m.source = "dir"
     /\ m.kind \in {"", "other"} => m.artifact = "url"}

-----------------------------------------------------------------------------

VARIABLE focus

allVars == <<focus, orchVars, extVars, catalogVars, configVars, pipelineVars, riskVars, limiterVars>>

MCInit ==
  /\ focus \in {"orchestrator", "extensions", "catalog", "config", "message", "documents", "policy",
              "limiter"}
  /\ OrchInit /\ ExtInit /\ CatalogInit /\ PipelineInit /\ RiskInit /\ LimiterInit
  /\ IF focus = "config" THEN ConfigInit
     ELSE environ = <<>> /\ files = <<>> /\ cfg = DefaultConfig /\ phase = "env"
  /\ focus \notin {"message", "documents"} => llmSet

\* A step of one part: the rest is as it was.
OrchestratorPart ==
  /\ focus = "orchestrator" /\ OrchNext
  /\ UNCHANGED <<focus, extVars, catalogVars, configVars, pipelineVars, riskVars, limiterVars>>
ExtensionsPart ==
  /\ focus = "extensions" /\ ExtNext
  /\ UNCHANGED <<focus, orchVars, catalogVars, configVars, pipelineVars, riskVars, limiterVars>>
CatalogPart ==
  /\ focus = "catalog" /\ CatalogNext
  /\ UNCHANGED <<focus, orchVars, extVars, configVars, pipelineVars, riskVars, limiterVars>>
ConfigPart ==
  /\ focus = "config" /\ ConfigNext
  /\ UNCHANGED <<focus, orchVars, extVars, catalogVars, pipelineVars, riskVars, limiterVars>>
\* The path of a message with skills coming and going, and with attachments.
MessagePart ==
  /\ focus = "message" /\ PipelineNext /\ file' = NoAttachment
  /\ UNCHANGED <<focus, orchVars, extVars, catalogVars, configVars, riskVars, limiterVars>>
DocumentsPart ==
  /\ focus = "documents" /\ PipelineNext /\ skills' = skills
  /\ UNCHANGED <<focus, orchVars, extVars, catalogVars, configVars, riskVars, limiterVars>>
PolicyPart ==
  /\ focus = "policy" /\ RiskNext
  /\ UNCHANGED <<focus, orchVars, extVars, catalogVars, configVars, pipelineVars, limiterVars>>
LimiterPart ==
  /\ focus = "limiter" /\ LimiterNext
  /\ UNCHANGED <<focus, orchVars, extVars, catalogVars, configVars, pipelineVars, riskVars>>

MCNext ==
  \/ OrchestratorPart \/ ExtensionsPart \/ CatalogPart \/ ConfigPart
  \/ MessagePart \/ DocumentsPart \/ PolicyPart \/ LimiterPart

MCSpec == MCInit /\ [][MCNext]_allVars
=============================================================================
