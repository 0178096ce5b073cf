----------------------------- MODULE MCGateway -----------------------------
(* Model-checking instance of what talks to the network: the channels and  *)
(* the LLM clients.  Chat requests, event streams, websocket connections,  *)
(* webhooks, exchanges with an LLM and streamed answers share no state, so *)
(* an execution looks at one of them: the state spaces add up instead of   *)
(* multiplying.                                                            *)
EXTENDS Gateway, EventHub, WebSocket, Webhooks, Providers, LLMStream, TLC

CONSTANTS p1, p2

\* A browser page without the key and one that shows it, which make the same
\* claim; the second asks for the events of one thread.
MCCreds == (p1 :> [key |-> "", claim |-> "web"]) @@ (p2 :> [key |-> "valid", claim |-> "web"])
MCTopic == (p1 :> "") @@ (p2 :> "t1")
\* Two calls of an answer have different ids.
MCServiceIds == <<"id1", "id2">>

VARIABLE focus

netVars == <<gatewayVars, hubVars, socketVars, hookVars>>
llmVars == <<providerVars, streamVars>>
allVars == <<focus, netVars, llmVars>>

MCInit ==
  /\ focus \in {"chat", "streams", "sockets", "webhooks", "exchange", "answer"}
  /\ GatewayInit /\ HubInit /\ SocketInit /\ HookInit /\ ProviderInit /\ StreamInit
  /\ focus # "exchange" => provider = "openai"
  /\ focus # "answer" => client = "openai"

MCNext ==
  /\ UNCHANGED focus
  /\ \/ focus = "chat" /\ GatewayNext /\ UNCHANGED <<hubVars, socketVars, hookVars, llmVars>>
     \/ focus = "streams" /\ HubNext /\ UNCHANGED <<gatewayVars, socketVars, hookVars, llmVars>>
     \/ focus = "sockets" /\ SocketNext /\ UNCHANGED <<gatewayVars, hubVars, hookVars, llmVars>>
     \/ focus = "webhooks" /\ HookNext /\ UNCHANGED <<gatewayVars, hubVars, socketVars, llmVars>>
     \/ focus = "exchange" /\ ProviderNext /\ UNCHANGED <<netVars, streamVars>>
     \/ focus = "answer" /\ StreamNext /\ UNCHANGED <<netVars, providerVars>>

MCFairness ==
  \/ focus = "chat" /\ GatewayFairness
  \/ focus = "streams" /\ HubFairness
  \/ focus = "sockets" /\ SocketFairness
  \/ focus = "webhooks" /\ HookFairness
  \/ focus = "exchange"
  \/ focus = "answer" /\ StreamFairness

MCSpec == MCInit /\ [][MCNext]_allVars /\ MCFairness

-----------------------------------------------------------------------------
(* Properties.                                                             *)

\* Nothing that serves the network outlives what it serves: event streams and
\* connections end with the gateway, webhooks within their timeout, and a
\* streamed answer with its body or its context.
HandlersEnd ==
  /\ StreamsEnd
  /\ SocketsClosed
  /\ WebhookReturns
  /\ StreamCloses
=============================================================================
