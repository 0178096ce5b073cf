------------------------------ MODULE Pipeline ------------------------------
(***************************************************************************)
(* What happens to one message: Agent.ProcessMessage (internal/agent/      *)
(* agent.go) with the hooks (internal/hooks/hooks.go), the attachments     *)
(* (internal/document/middleware.go), the tools offered to the LLM         *)
(* (internal/skills/attenuation.go) and the published events, up to the    *)
(* broadcast in Agent.Run.                                                 *)
(*                                                                         *)
(* The agent handles one message after the other; hooks and skills are     *)
(* registered by others at any time.  Trigger takes the list of handlers   *)
(* under the lock and calls them without it.  Approvals are the subject of *)
(* AgentApproval; here a tool chain of the LLM may just pause.             *)
(***************************************************************************)
EXTENDS Naturals, Sequences, FiniteSets

CONSTANTS MaxMessages, MaxHandlers, MaxChain,  \* bounds: messages, handlers of one
                                               \* event, tool calls of one LLM reply
          Attachments,               \* the attachments that may come (bound)
          HookEvents,                \* the events that get handlers (bound)
          SkillNames,                \* the names skills may have (bound)
          PipelineTools, ReadOnly    \* the registered tools, those of ReadOnlyTools

EventType == {"before:message", "before:tool_call", "after:tool_call",
              "after:message", "before:response"}

ASSUME PipelineAssumption ==
  /\ {MaxMessages, MaxHandlers, MaxChain} \subseteq Nat
  /\ ReadOnly \subseteq PipelineTools
  /\ HookEvents \subseteq EventType

Intents == {"command", "tool", "query", "chat"}
TrustLevel == {"installed", "trusted"}
\* The registry of skills: what is registered under each name.
SkillTable == [SkillNames -> TrustLevel \cup {"absent"}]

\* An attachment: what Process looks at, and the text it has so far.  Its type
\* is known by its MIME type, by its extension only, or not at all.
Attachment == [document : BOOLEAN, size : {"empty", "fits", "toolarge"},
               type : {"mime", "extension", "unknown"},
               content : {"broken", "blank", "text"},
               text : {"", "given", "extracted", "truncated", "notice"}]
ASSUME AttachmentAssumption ==
  \A f \in Attachments : f \in Attachment /\ f.text \in {"", "given"}
NoAttachment == [document |-> FALSE, size |-> "empty", type |-> "unknown",
                 content |-> "broken", text |-> ""]

VARIABLES handlers,   \* event -> number of registered handlers
          calling,    \* handlers the current Trigger has still to call
          hookLog,    \* history: events triggered for the current message
          at,         \* where ProcessMessage is
          intent,
          file,       \* the attachment of the message
          reply,      \* "", or the kind of the response
          events,     \* history: agent_response events of the current message
          turnsAdded, \* history: turns it has added
          toolRuns,   \* history: tools executed for it
          received, broadcasts,  \* history: messages taken, responses sent
          llmSet,     \* an LLM provider is configured
          skills,     \* name -> trust of the registered skill
          prompt,     \* the same of the skills in the system prompt
          lost,       \* history: skills of the prompt that are installed no more
          offered     \* tools of the request to the LLM

hookVars == <<handlers, calling, hookLog>>
messageVars == <<intent, file, reply, events, turnsAdded, toolRuns>>
countVars == <<received, broadcasts>>
skillVars == <<llmSet, skills, prompt, lost, offered>>
pipelineVars == <<hookVars, at, messageVars, countVars, skillVars>>

PipelineTypeOK ==
  /\ handlers \in [EventType -> 0..MaxHandlers]
  /\ calling \in 0..MaxHandlers
  /\ hookLog \in Seq(EventType)
  /\ at \in EventType \cup {"idle", "documents", "offer", "ask",
                            "chain", "publish", "broadcast"}
  /\ intent \in Intents
  /\ file \in Attachment
  /\ reply \in {"", "ok", "error", "pending_gate"}
  /\ {events, turnsAdded, toolRuns, received, broadcasts} \subseteq Nat
  /\ llmSet \in BOOLEAN
  /\ {skills, prompt} \subseteq SkillTable /\ lost \subseteq SkillNames
  /\ offered \subseteq PipelineTools

PipelineInit ==
  /\ handlers = [e \in EventType |-> 0] /\ calling = 0 /\ hookLog = <<>>
  /\ at = "idle" /\ intent = "chat" /\ reply = "" /\ file = NoAttachment
  /\ events = 0 /\ turnsAdded = 0 /\ toolRuns = 0
  /\ received = 0 /\ broadcasts = 0
  /\ llmSet \in BOOLEAN
  /\ skills = [s \in SkillNames |-> "absent"] /\ prompt = skills /\ lost = {} /\ offered = {}

-----------------------------------------------------------------------------
(* Hooks and skills.                                                       *)

\* hooks.Registry.Register.
RegisterHook(e) ==
  /\ handlers[e] < MaxHandlers
  /\ handlers' = [handlers EXCEPT ![e] = @ + 1]
  /\ UNCHANGED <<calling, hookLog, at, messageVars, countVars, skillVars>>

\* The skill of this name is of trust t from now on; the prompt is as it was built.
SetSkill(name, t) ==
  /\ skills' = [skills EXCEPT ![name] = t]
  /\ lost' = CASE at # "offer" -> lost
               [] at = "offer" /\ t = "installed" -> lost \ {name}
               [] OTHER -> lost \cup {n \in {name} : skills[n] = "installed"}
  /\ UNCHANGED <<hookVars, at, messageVars, countVars, llmSet, prompt, offered>>

\* skills.Registry.Register: a skill of the same name is overwritten.
RegisterSkill(name, t) == t \in TrustLevel /\ SetSkill(name, t)

\* skills.Registry.Remove.
RemoveSkill(name) == SetSkill(name, "absent")

\* Trigger begins: the handlers registered by now will be called.
Trigger(e) ==
  /\ at' = e
  /\ calling' = handlers[e]
  /\ hookLog' = Append(hookLog, e)
  /\ UNCHANGED handlers

\* The next handler accepts.
HookPasses ==
  /\ at \in EventType /\ calling > 0
  /\ calling' = calling - 1
  /\ UNCHANGED <<handlers, hookLog, at, messageVars, countVars, skillVars>>

\* An error of a handler skips the rest; after:tool_call, after:message and
\* before:response ignore it.
HookIgnored ==
  /\ at \in {"after:tool_call", "after:message", "before:response"} /\ calling > 0
  /\ calling' = 0
  /\ UNCHANGED <<handlers, hookLog, at, messageVars, countVars, skillVars>>

\* Trigger has returned.
Returned(e) == at = e /\ calling = 0

\* AttenuateTools: the tools left by the lowest trust of the skills.
AttenuateTools(active) ==
  IF \E name \in SkillNames : active[name] = "installed" THEN ReadOnly ELSE PipelineTools

-----------------------------------------------------------------------------
(* ProcessMessage.                                                         *)

Receive(i, f) ==
  /\ at = "idle" /\ received < MaxMessages
  /\ received' = received + 1
  /\ at' = "documents"
  /\ intent' = i /\ file' = f
  /\ reply' = "" /\ events' = 0 /\ turnsAdded' = 0 /\ toolRuns' = 0
  /\ hookLog' = <<>>
  /\ UNCHANGED <<handlers, calling, broadcasts, skillVars>>

\* ExtractText and the truncation: the texts a document may yield.  A document
\* taken by its extension hides the error and yields an empty text, and so does a
\* workbook whose strings are all empty (extractXLSX).
ExtractText(f) ==
  CASE f.type = "unknown" -> {"notice"}
    [] f.type # "unknown" /\ f.content = "blank" -> {""}
    [] f.type = "extension" /\ f.content = "broken" -> {""}
    [] f.type = "mime" /\ f.content = "broken" -> {"notice"}
    [] OTHER -> {"extracted", "truncated"}

\* Middleware.Process: the text of an attachment afterwards.
Process(f) ==
  CASE ~f.document \/ f.text # "" -> {f.text}
    [] f.document /\ f.text = "" /\ f.size # "fits" -> {"notice"}
    [] OTHER -> ExtractText(f)

Documents ==
  /\ at = "documents"
  /\ \E text \in Process(file) : file' = [file EXCEPT !.text = text]
  /\ Trigger("before:message")
  /\ UNCHANGED <<intent, reply, events, turnsAdded, toolRuns, countVars, skillVars>>

\* The response of the handler: the after:message hooks are next.
Respond(r) ==
  /\ reply' = r
  /\ Trigger("after:message")

\* A before:message handler rejects: an error, and nothing else happens.
MessageRejected ==
  /\ at = "before:message" /\ calling > 0
  /\ calling' = 0
  /\ at' = "broadcast" /\ reply' = "error"
  /\ UNCHANGED <<handlers, hookLog, intent, file, events, turnsAdded, toolRuns, countVars,
                 skillVars>>

\* handleSystemCommand; the query that finds no LLM.
AnswerDirectly ==
  /\ Returned("before:message")
  /\ intent = "command" \/ (intent = "query" /\ ~llmSet)
  /\ Respond("ok")
  /\ UNCHANGED <<intent, file, events, turnsAdded, toolRuns, countVars, skillVars>>

\* handleToolInvocation up to its hook.
ToolBegins ==
  /\ Returned("before:message") /\ intent = "tool"
  /\ Trigger("before:tool_call")
  /\ UNCHANGED <<messageVars, countVars, skillVars>>

\* A before:tool_call handler rejects: an error instead of the call.
ToolRejected ==
  /\ at = "before:tool_call" /\ calling > 0
  /\ Respond("error")
  /\ UNCHANGED <<intent, file, events, turnsAdded, toolRuns, countVars, skillVars>>

\* Dispatch, whatever its result, and the after:tool_call hooks.
ToolDispatch ==
  /\ Returned("before:tool_call")
  /\ toolRuns' = toolRuns + 1
  /\ Trigger("after:tool_call")
  /\ UNCHANGED <<intent, file, reply, events, turnsAdded, countVars, skillVars>>

ToolEnds ==
  /\ Returned("after:tool_call")
  /\ turnsAdded' = turnsAdded + 1
  /\ Respond("ok")
  /\ UNCHANGED <<intent, file, events, toolRuns, countVars, skillVars>>

\* echoReply.
Echo ==
  /\ Returned("before:message") /\ intent = "chat" /\ ~llmSet
  /\ turnsAdded' = turnsAdded + 1
  /\ Respond("ok")
  /\ UNCHANGED <<intent, file, events, toolRuns, countVars, skillVars>>

\* runLLM: buildLLMMessages takes the prompts of the skills ...
BuildMessages ==
  /\ Returned("before:message") /\ intent \in {"query", "chat"} /\ llmSet
  /\ prompt' = skills /\ lost' = {}
  /\ at' = "offer"
  /\ UNCHANGED <<hookVars, messageVars, countVars, llmSet, skills, offered>>

\* Fault: the first read of the skills decides the tools, the second the prompt.
PromptAfterTools ==
  /\ at = "offer"
  /\ offered' = AttenuateTools(prompt)
  /\ prompt' = skills
  /\ at' = "ask"
  /\ UNCHANGED <<hookVars, messageVars, countVars, llmSet, skills, lost>>

\* ... and buildLLMTools their trust, under the lock again.
BuildTools ==
  /\ at = "offer"
  /\ offered' = AttenuateTools(skills)
  /\ at' = "ask"
  /\ UNCHANGED <<hookVars, messageVars, countVars, llmSet, skills, prompt, lost>>

\* Complete fails: a text about it, no turn.
AskFails ==
  /\ at = "ask"
  /\ Respond("error")
  /\ UNCHANGED <<intent, file, events, turnsAdded, toolRuns, countVars, skillVars>>

\* Complete returns a text.
AskText ==
  /\ at = "ask"
  /\ turnsAdded' = turnsAdded + 1
  /\ Respond("ok")
  /\ UNCHANGED <<intent, file, events, toolRuns, countVars, skillVars>>

\* Complete returns tool calls: handleLLMToolCalls.
AskTools ==
  /\ at = "ask"
  /\ at' = "chain"
  /\ UNCHANGED <<hookVars, messageVars, countVars, skillVars>>

ChainCall ==
  /\ at = "chain" /\ toolRuns < MaxChain
  /\ toolRuns' = toolRuns + 1
  /\ UNCHANGED <<hookVars, at, intent, file, reply, events, turnsAdded, countVars, skillVars>>

\* A call waits for an approval.
ChainPauses ==
  /\ at = "chain"
  /\ Respond("pending_gate")
  /\ UNCHANGED <<intent, file, events, turnsAdded, toolRuns, countVars, skillVars>>

\* finalizeToolResults: a second Complete, without tools.
ChainEnds ==
  /\ at = "chain" /\ toolRuns > 0
  /\ turnsAdded' = turnsAdded + 1
  /\ events' = events + 1
  /\ Respond("ok")
  /\ UNCHANGED <<intent, file, toolRuns, countVars, skillVars>>

ChainFails ==
  /\ at = "chain" /\ toolRuns > 0
  /\ Respond("error")
  /\ UNCHANGED <<intent, file, events, turnsAdded, toolRuns, countVars, skillVars>>

BeforeResponse ==
  /\ Returned("after:message")
  /\ Trigger("before:response")
  /\ UNCHANGED <<messageVars, countVars, skillVars>>

\* The last step of ProcessMessage: the response as an event.
PublishResponse ==
  /\ Returned("before:response")
  /\ events' = events + (IF reply = "pending_gate" THEN 0 ELSE 1)
  /\ at' = "broadcast"
  /\ UNCHANGED <<hookVars, intent, file, reply, turnsAdded, toolRuns, countVars, skillVars>>

\* Run broadcasts the response and takes the next message.
BroadcastReply ==
  /\ at = "broadcast"
  /\ broadcasts' = broadcasts + 1
  /\ at' = "idle"
  /\ UNCHANGED <<hookVars, messageVars, received, skillVars>>

PipelineNext ==
  \/ \E e \in HookEvents : RegisterHook(e)
  \/ \E name \in SkillNames, t \in TrustLevel : RegisterSkill(name, t)
  \/ \E name \in SkillNames : RemoveSkill(name)
  \/ HookPasses \/ HookIgnored
  \/ \E i \in Intents, f \in Attachments : Receive(i, f)
  \/ Documents \/ MessageRejected \/ AnswerDirectly
  \/ ToolBegins \/ ToolRejected \/ ToolDispatch \/ ToolEnds
  \/ Echo \/ BuildMessages \/ BuildTools \/ AskFails \/ AskText \/ AskTools
  \/ ChainCall \/ ChainPauses \/ ChainEnds \/ ChainFails
  \/ BeforeResponse \/ PublishResponse \/ BroadcastReply

PipelineSpec == PipelineInit /\ [][PipelineNext]_pipelineVars

-----------------------------------------------------------------------------
(* Properties.                                                             *)

Rejected == hookLog = <<"before:message">>
Refused == Rejected /\ turnsAdded = 0 /\ toolRuns = 0 /\ events = 0 /\ reply = "error"

\* The events of n tools, each between its own two.
Pairs(n) == [k \in 1..(2 * n) |-> IF k % 2 = 1 THEN "before:tool_call" ELSE "after:tool_call"]

\* What the tools of a message may have triggered: one on the user's command both
\* events, or the first alone if it was rejected; a chain of the LLM those of any
\* number of its calls.
ToolLogs ==
  CASE intent = "tool" -> {IF toolRuns = 0 THEN <<"before:tool_call">>
                           ELSE <<"before:tool_call", "after:tool_call">>}
    [] intent = "command" -> {<<>>}
    [] OTHER -> {<<>>} \cup {Pairs(n) : n \in 1..toolRuns}

\* The message was let in, saw the events of its tools, and then the events rest; a
\* command runs no tool, and the user's tool runs once unless it was rejected.
Passed(rest) ==
  /\ \E tool \in ToolLogs : hookLog = <<"before:message">> \o tool \o rest
  /\ intent = "command" => toolRuns = 0
  /\ intent = "tool" => toolRuns = 1 \/ (toolRuns = 0 /\ reply = "error")

\* At least n events, one more at most after a tool chain of the LLM that added a
\* turn, and none when the message is paused.
Published(n) ==
  IF reply = "pending_gate" THEN events = 0 /\ turnsAdded = 0
  ELSE /\ n <= events
       /\ events <= n + (IF intent \in {"query", "chat"} /\ toolRuns > 0 THEN turnsAdded ELSE 0)

\* Between two messages: what the events of a message may be.  Every hook event
\* came in the order of the pipeline, whichever way the message took and whichever
\* handlers failed (agent.go 64-111, 183-214): a message that was let in saw
\* after:message and before:response once each, at the end, and a tool that ran on
\* the user's command stood between its own two events.
HooksPaired ==
  at = "idle" /\ received > 0 =>
    Refused \/ Passed(<<"after:message", "before:response">>)

\* A page that follows the events hears of every message that was let in: an answer
\* is published, and published again only for a tool chain of the LLM that added a
\* turn; a paused message is not published as answered and leaves no turn
\* (agent.go 113-116, 513).
ResponseEvents ==
  at = "idle" /\ received > 0 /\ ~Rejected => Published(1)

\* The text of a document (middleware.go): what is no document stays as it was,
\* and a document stays without a text only when it has none to read or was taken
\* by its extension and could not be read.
DocumentText ==
  at \notin {"idle", "documents"} =>
    /\ ~file.document => file.text \in {"", "given"}
    /\ file.document /\ file.text = "" =>
         \/ file.content = "blank"
         \/ file.type = "extension" /\ file.content = "broken"

\* A request whose prompt speaks for an installed skill offers only the
\* read-only tools, whatever is registered between the two reads of the registry
\* (agent.go:271-274, attenuation.go:30), unless each such skill was removed or
\* overwritten by a trusted one in between.
PromptIsAttenuated ==
  at \in {"ask", "chain"} /\ (\E name \in SkillNames \ lost : prompt[name] = "installed") =>
    offered \subseteq ReadOnly

\* The same along the way: what has been triggered, run, added and published where
\* the message is now (agent.go 64-128).
OnItsWay ==
  /\ at \in {"documents", "before:message", "offer", "ask"} =>
       events = 0 /\ turnsAdded = 0 /\ toolRuns = 0
  /\ at = "documents" => hookLog = <<>> /\ file.text \in {"", "given"}
  /\ at \in {"before:message", "offer", "ask", "chain"} => hookLog = <<"before:message">>
  /\ at \in {"offer", "ask", "chain"} => intent \in {"query", "chat"}
  /\ at = "offer" =>
       \A name \in SkillNames \ lost : prompt[name] = "installed" => skills[name] = "installed"
  /\ at \in {"before:tool_call", "after:tool_call"} => intent = "tool"
  /\ at = "before:tool_call" =>
       toolRuns = 0 /\ hookLog = <<"before:message">> \o <<"before:tool_call">>
  /\ at = "after:tool_call" =>
       toolRuns = 1 /\ hookLog = <<"before:message">> \o <<"before:tool_call", "after:tool_call">>
  /\ at \in {"before:tool_call", "after:tool_call", "chain"} => events = 0 /\ turnsAdded = 0
  /\ at = "after:message" => Passed(<<"after:message">>) /\ Published(0)
  /\ at = "before:response" => Passed(<<"after:message", "before:response">>) /\ Published(0)
  /\ at = "broadcast" =>
       Refused \/ (Passed(<<"after:message", "before:response">>) /\ Published(1))

\* The safety of the path of a message: its hooks, events, documents and tools are
\* the ones of the way it took (agent.go: ProcessMessage, runLLM; middleware.go).
PipelineInv ==
  /\ PipelineTypeOK
  /\ OnItsWay
  /\ HooksPaired
  /\ ResponseEvents
  /\ DocumentText
  /\ PromptIsAttenuated
=============================================================================
