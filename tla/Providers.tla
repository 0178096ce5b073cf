----------------------------- MODULE Providers ------------------------------
(***************************************************************************)
(* The LLM clients (internal/llm/*.go) in the hands of the agent: the list *)
(* of messages buildLLMMessages makes, what each client puts on the wire,  *)
(* how it reads the service's answer, the results of the tool calls and    *)
(* the second request finalizeToolResults makes, also after the batch was  *)
(* paused and resumed.  Approvals and expiry are the subject of            *)
(* AgentApproval; here a call may just pause.                              *)
(*                                                                         *)
(* A text is what it is: the prompt, a question, an answer, a result.      *)
(***************************************************************************)
EXTENDS Naturals, Sequences

CONSTANTS MaxQuestions,   \* bound: messages of the user
          LLMTools,       \* names of tools the service may call
          MaxBlocks,      \* bound: blocks of an answer
          ServiceIds      \* position -> the id the service gives a call there

ASSUME ProvidersAssumption ==
  /\ MaxQuestions \in Nat /\ MaxBlocks \in Nat
  /\ LLMTools \subseteq STRING /\ ServiceIds \in [1..MaxBlocks -> STRING]

\* groq and minimax use the client of openai with another address.
Providers == {"openai", "anthropic", "gemini", "ollama"}

Question(n) == <<"question", n>>
\* What a client may give a call as its id.
Ids == {""} \cup {ServiceIds[i] : i \in 1..MaxBlocks} \cup LLMTools
CallType == [id : Ids, name : LLMTools]
ResultTexts == {<<"output">>, <<"error">>}

\* A message of the agent: its role and text, the calls of an assistant, and the
\* call a tool result belongs to.
Message(role, text, calls, id) == [role |-> role, text |-> text, calls |-> calls, id |-> id]
Plain(role, text) == Message(role, text, <<>>, "")

VARIABLES provider,   \* the client New has made
          turns,      \* turns of the thread: the question and the response
          asked,      \* number of messages of the user so far, its questions
          overtaking, \* history: pairs of a message that invoked a tool and the
                      \* question that was paused then
          llmAt,      \* where runLLM is
          question,   \* originalContent of the exchange
          msgs,       \* its messages before the tool calls
          sent,       \* the messages of the last request, as the client is given them
          content, calls,  \* the response as the client returns it
          index, results,  \* next call, toolResults
          saved       \* PendingExecution, or an empty sequence

exchangeVars == <<question, msgs, content, calls>>
providerVars ==
  <<provider, turns, asked, overtaking, llmAt, exchangeVars, sent, index, results,
    saved>>

\* The texts that ask no question, and the types of messages and turns.
OtherTexts == {<<>>, <<"prompt">>, <<"answer">>} \cup ResultTexts
TextType == OtherTexts \cup {Question(n) : n \in 1..MaxQuestions}
RoleType == {"system", "user", "assistant", "tool"}
MessageType == [role : RoleType, text : TextType, calls : Seq(CallType), id : Ids]
TurnType == [question : 1..MaxQuestions, response : {<<>>, <<"answer">>}]

ProviderTypeOK ==
  /\ provider \in Providers
  /\ turns \in Seq(TurnType)
  /\ asked \in 0..MaxQuestions /\ question \in 0..MaxQuestions
  /\ overtaking \subseteq {p \in (1..asked) \X (1..asked) : p[1] > p[2]}
  /\ llmAt \in {"idle", "first", "tools", "final"}
  /\ {msgs, sent, results} \subseteq Seq(MessageType)
  /\ content \in {<<>>, <<"answer">>}
  /\ calls \in Seq(CallType) /\ Len(calls) <= MaxBlocks
  /\ index \in 1..(MaxBlocks + 1)
  /\ saved # <<>> =>
       /\ saved.question \in 1..MaxQuestions /\ saved.msgs \in Seq(MessageType)
       /\ saved.calls \in Seq(CallType) /\ Len(saved.calls) <= MaxBlocks
       /\ saved.index \in DOMAIN saved.calls

ProviderInit ==
  /\ provider \in Providers
  /\ turns = <<>> /\ asked = 0 /\ overtaking = {} /\ llmAt = "idle"
  /\ question = 0 /\ msgs = <<>> /\ content = <<>> /\ calls = <<>>
  /\ sent = <<>> /\ index = 1 /\ results = <<>> /\ saved = <<>>

-----------------------------------------------------------------------------
(* The wire.                                                               *)

\* convertMessages of OpenAIClient: calls and the id of a result are kept.
openAIMessages == sent

\* convertMessages of AnthropicClient: system messages are skipped, of the others
\* role and text are kept.  What it makes of the first n messages.
Kept[n \in 0..Len(sent)] ==
  IF n = 0 THEN <<>>
  ELSE IF sent[n].role = "system" THEN Kept[n - 1]
  ELSE Append(Kept[n - 1], Plain(sent[n].role, sent[n].text))
anthropicMessages == Kept[Len(sent)]

\* buildRequestBody of GeminiClient: all but the assistant speak as the user.
geminiMessages ==
  [i \in DOMAIN sent |-> Plain(IF sent[i].role = "assistant" THEN "model" ELSE "user", sent[i].text)]

\* convertMessages of OllamaClient: role and text.
ollamaMessages == [i \in DOMAIN sent |-> Plain(sent[i].role, sent[i].text)]

\* The messages of the last request on the wire.
convertMessages ==
  CASE provider = "openai" -> openAIMessages
    [] provider = "anthropic" -> anthropicMessages
    [] provider = "gemini" -> geminiMessages
    [] provider = "ollama" -> ollamaMessages

\* Blocks of an answer: text, or the call of a tool.
Block == [kind : {"text"}, name : {""}] \cup [kind : {"call"}, name : LLMTools]
\* openai and ollama answer with one text and a list of calls, the others with
\* blocks in any order; of gemini an answer without candidates is an empty one.
Answers ==
  LET blocks == UNION {[1..n -> Block] : n \in 0..MaxBlocks}
  IN IF provider \in {"anthropic", "gemini"} THEN blocks
     ELSE {b \in blocks : \A i \in DOMAIN b : b[i].kind = "text" => i = 1}

Positions(blocks, kind) == {i \in DOMAIN blocks : blocks[i].kind = kind}
\* The elements of a set of positions, in their order.
InOrder(S) ==
  CHOOSE s \in UNION {[1..n -> S] : n \in 0..MaxBlocks} :
    /\ \A i, j \in DOMAIN s : i < j => s[i] < s[j]
    /\ \A p \in S : \E i \in DOMAIN s : s[i] = p

\* What a client makes of an answer: its texts joined, and its calls in their
\* order, each with the id the client gives it.
Response(blocks, ids) ==
  LET at == InOrder(Positions(blocks, "call"))
  IN [content |-> IF Positions(blocks, "text") = {} THEN <<>> ELSE <<"answer">>,
      calls |-> [k \in DOMAIN at |-> [id |-> ids[at[k]], name |-> blocks[at[k]].name]]]

OfService(blocks) == [i \in DOMAIN blocks |-> ServiceIds[i]]
OfName(blocks) == [i \in DOMAIN blocks |-> blocks[i].name]
Dropped(blocks) == [i \in DOMAIN blocks |-> ""]

\* convertToolCalls of OpenAIClient and parseResponse of AnthropicClient keep the
\* ids; parseResponse of GeminiClient makes one of the name; convertToolCalls of
\* OllamaClient leaves it out.
openAIResponse(blocks) == Response(blocks, OfService(blocks))
anthropicResponse(blocks) == Response(blocks, OfService(blocks))
geminiResponse(blocks) == Response(blocks, OfName(blocks))
ollamaResponse(blocks) == Response(blocks, Dropped(blocks))

parseResponse(blocks) ==
  CASE provider = "openai" -> openAIResponse(blocks)
    [] provider = "anthropic" -> anthropicResponse(blocks)
    [] provider = "gemini" -> geminiResponse(blocks)
    [] provider = "ollama" -> ollamaResponse(blocks)

-----------------------------------------------------------------------------
(* The agent.                                                              *)

\* buildLLMMessages: an empty response is left out.
TurnMessages(t) ==
  IF t.response = <<>> THEN <<Plain("user", Question(t.question))>>
  ELSE <<Plain("user", Question(t.question)), Plain("assistant", t.response)>>
History[n \in 0..Len(turns)] ==
  IF n = 0 THEN <<>> ELSE History[n - 1] \o TurnMessages(turns[n])
buildLLMMessages(n) ==
  <<Plain("system", <<"prompt">>)>> \o History[Len(turns)] \o <<Plain("user", Question(n))>>

\* Complete is called with the messages ms and waits.
Complete(ms, step) == sent' = ms /\ llmAt' = step

AddTurn(q, response) == turns' = Append(turns, [question |-> q, response |-> response])

\* runLLM with a new message: a saved execution is dropped.
RunLLM ==
  /\ llmAt = "idle"
  /\ asked < MaxQuestions
  /\ asked' = asked + 1
  /\ question' = asked'
  /\ msgs' = buildLLMMessages(asked')
  /\ Complete(msgs', "first")
  /\ saved' = <<>>
  /\ UNCHANGED <<provider, turns, overtaking, content, calls, index, results>>

\* handleToolInvocation: a turn of its own, which leaves a saved execution as it is.
handleToolInvocation ==
  /\ llmAt = "idle"
  /\ asked < MaxQuestions
  /\ asked' = asked + 1
  /\ overtaking' = overtaking \cup
       IF saved = <<>> THEN {} ELSE {<<asked', saved.question>>}
  /\ \E response \in {<<>>, <<"answer">>} : AddTurn(asked', response)
  /\ UNCHANGED <<provider, llmAt, exchangeVars, sent, index, results, saved>>

\* Complete fails: the request, the status, the decoding, an answer of openai
\* without choices.  The user is told; no turn is added.
CompleteFails ==
  /\ llmAt \in {"first", "final"}
  /\ llmAt' = "idle"
  /\ UNCHANGED <<provider, turns, asked, overtaking, exchangeVars, sent,
                 index, results, saved>>

\* The answer to the first request is a text or starts the batch of its calls.
FirstAnswer ==
  /\ llmAt = "first"
  /\ \E b \in Answers :
       /\ content' = parseResponse(b).content
       /\ calls' = parseResponse(b).calls
       /\ IF calls' # <<>> THEN llmAt' = "tools" /\ UNCHANGED turns
          ELSE llmAt' = "idle" /\ AddTurn(question, content')
  /\ index' = 1
  /\ results' = <<>>
  /\ UNCHANGED <<provider, asked, overtaking, question, msgs, sent, saved>>

\* Of the answer to the second request only the text is used.
FinalAnswer ==
  /\ llmAt = "final"
  /\ \E b \in Answers : AddTurn(question, parseResponse(b).content)
  /\ llmAt' = "idle"
  /\ UNCHANGED <<provider, asked, overtaking, exchangeVars, sent,
                 index, results, saved>>

\* A call has ended, well or with an error.
ToolResult(how) == Message("tool", <<how>>, <<>>, calls[index].id)

\* Fault: the results come before the calls they answer.
SummaryResultsFirst(rs) == msgs \o rs \o <<Message("assistant", content, calls, "")>>

\* finalizeToolResults: the calls, then their results.
Summary(rs) == msgs \o <<Message("assistant", content, calls, "")>> \o rs

RunCall ==
  /\ llmAt = "tools"
  /\ \E how \in {"output", "error"} : results' = Append(results, ToolResult(how))
  /\ index' = index + 1
  /\ IF index = Len(calls) THEN Complete(Summary(results'), "final")
     ELSE UNCHANGED <<llmAt, sent>>
  /\ UNCHANGED <<provider, turns, asked, overtaking, exchangeVars, saved>>

\* The call needs an approval: messages, calls and its index are saved, the
\* results so far and the text of the assistant are not.
Pause ==
  /\ llmAt = "tools"
  /\ saved' = [question |-> question, msgs |-> msgs, calls |-> calls, index |-> index]
  /\ llmAt' = "idle"
  /\ UNCHANGED <<provider, turns, asked, overtaking, exchangeVars, sent,
                 index, results>>

ResumeExchange ==
  /\ llmAt = "idle"
  /\ saved # <<>>
  /\ question' = saved.question /\ msgs' = saved.msgs
  /\ content' = <<>> /\ calls' = saved.calls
  /\ index' = saved.index /\ results' = <<>>
  /\ llmAt' = "tools"
  /\ saved' = <<>>
  /\ UNCHANGED <<provider, turns, asked, overtaking, sent>>

ProviderNext ==
  \/ RunLLM \/ handleToolInvocation \/ CompleteFails \/ FirstAnswer \/ FinalAnswer
  \/ RunCall \/ Pause \/ ResumeExchange

ProviderSpec == ProviderInit /\ [][ProviderNext]_providerVars

-----------------------------------------------------------------------------
(* Properties.                                                             *)

\* A message that asks one of the user's questions.
Asks(m) == \E n \in 1..MaxQuestions : m.text = Question(n)

\* Question m belongs before question n: it was asked before and is not the one a
\* tool was invoked under, or it invoked a tool while n was paused.
Before(m, n) ==
  \/ m < n /\ <<n, m>> \notin overtaking
  \/ <<m, n>> \in overtaking

\* A list that asks no question twice, and the questions in this order.
Ordered(ms) ==
  \A i, j \in DOMAIN ms :
    i < j /\ Asks(ms[i]) /\ Asks(ms[j]) => Before(ms[i].text[2], ms[j].text[2])

\* Whatever was paused, resumed or failed before, every request carries each
\* question at most once, in the order they were asked but for tools invoked
\* while a question was paused, and the one it is about comes last
\* (buildLLMMessages and PendingExecution.Messages).
QuestionsOnWire ==
  llmAt \in {"first", "final"} =>
    LET wire == convertMessages
    IN /\ Ordered(wire)
       /\ \E i \in DOMAIN wire :
            /\ wire[i].text = Question(question)
            /\ \A j \in DOMAIN wire : Asks(wire[j]) => j <= i

\* The second request ends with the calls and the results since the last
\* resumption, one for each of the last calls, in their order; a service that
\* is told ids (openai) finds each result under the id of its call.
ResultsOnWire ==
  llmAt = "final" =>
    LET wire == convertMessages
        k == Len(results)
        n == Len(wire)
    IN /\ k \in 1..Len(calls) /\ n > k
       /\ wire[n - k].role \in {"assistant", "model"}
       /\ \A j \in 1..k : wire[n - k + j].text \in ResultTexts
       /\ provider = "openai" =>
            \A j \in 1..k :
              wire[n - k + j].id = wire[n - k].calls[Len(wire[n - k].calls) - k + j].id

\* The list of an exchange about question q, which none of the turns answers: it
\* is the last message.
About(ms, q) ==
  /\ q \in 1..asked
  /\ \A i \in DOMAIN turns : Before(turns[i].question, q)
  /\ ms # <<>> /\ ms[Len(ms)] = Plain("user", Question(q)) /\ Ordered(ms)

\* The results so far are those of the calls before the next one, in their order.
ResultsSoFar ==
  /\ Len(results) < index
  /\ \A j \in DOMAIN results :
       /\ results[j].role = "tool" /\ results[j].text \in ResultTexts
       /\ results[j].id = calls[index - 1 - Len(results) + j].id

\* An exchange keeps its list, its calls and its results from the first request to
\* the last, and a paused one all it needs to go on (agent.go, session.go).
ExchangeKept ==
  /\ \A i \in DOMAIN turns :
       /\ turns[i].question <= asked
       /\ \A j \in DOMAIN turns : i < j => Before(turns[i].question, turns[j].question)
  /\ llmAt # "idle" => saved = <<>> /\ About(msgs, question)
  /\ saved # <<>> => About(saved.msgs, saved.question)
  /\ llmAt = "first" => sent = msgs
  /\ llmAt = "tools" => index \in DOMAIN calls /\ ResultsSoFar
  /\ llmAt = "final" =>
       index = Len(calls) + 1 /\ ResultsSoFar /\ results # <<>> /\ sent = Summary(results)

\* The safety of the agent's exchange with a client: the requests carry the
\* questions and the results where the service looks for them (agent.go).
ProviderInv ==
  /\ ProviderTypeOK
  /\ ExchangeKept
  /\ QuestionsOnWire
  /\ ResultsOnWire
=============================================================================
