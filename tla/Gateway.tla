------------------------------- MODULE Gateway -------------------------------
(***************************************************************************)
(* Chat requests of the HTTP gateway, internal/channels/httpgw/httpgw.go,  *)
(* and the agent that answers them (Agent.Run, Manager.Broadcast).         *)
(*                                                                         *)
(* A request registers a response channel, puts its message into msgChan   *)
(* and waits.  The agent takes one message at a time and broadcasts the    *)
(* reply to every request that is registered, whichever message it         *)
(* answers.  A reply is named by the message it answers.  The queues of    *)
(* the channel manager between msgChan and the agent only add room (see    *)
(* ChannelManager: Conserved); they are left out.                          *)
(***************************************************************************)
EXTENDS Naturals, Sequences, FiniteSets

CONSTANTS Requests,  \* chat requests, also the messages they send
          Foreign,   \* messages of the other channels
          MsgCap,    \* capacity of msgChan
          NoReply    \* what a handler that timed out or was shut down has got

ASSUME GatewayAssumption ==
  /\ MsgCap \in Nat \ {0}
  /\ Requests \cap Foreign = {}
  /\ NoReply \notin Requests \cup Foreign

Messages == Requests \cup Foreign

VARIABLES handler,    \* request -> where its handler is
          responses,  \* Gateway.responses: the registered requests
          respChan,   \* request -> content of its response channel, capacity one
          msgChan,    \* messages on their way to the agent
          agent,      \* where Agent.Run is
          serving,    \* the message the agent works on or replies to, if any
          sending,    \* requests whose channel SendMessage has yet to serve
          gwClosed,   \* Gateway.shutdown is closed
          answer,     \* request -> what its handler received from respChan
          replied,    \* history: messages in the order of their replies
          since       \* history: request -> replies before it registered

agentVars == <<agent, serving, sending>>
gatewayVars == <<handler, responses, respChan, msgChan, agentVars, gwClosed,
                 answer, replied, since>>

GatewayTypeOK ==
  /\ handler \in [Requests -> {"new", "sending", "waiting", "leaving", "done"}]
  /\ responses \subseteq Requests
  /\ respChan \in [Requests -> Seq(Messages)]
  /\ \A r \in Requests : Len(respChan[r]) <= 1
  /\ msgChan \in Seq(Requests)
  /\ Len(msgChan) <= MsgCap
  /\ agent \in {"idle", "working", "replying", "gone"}
  /\ serving \in Seq(Messages)
  /\ sending \subseteq Requests
  /\ gwClosed \in BOOLEAN
  /\ answer \in [Requests -> Messages \cup {NoReply}]
  /\ replied \in Seq(Messages)
  /\ since \in [Requests -> Nat]

\* New.
GatewayInit ==
  /\ handler = [r \in Requests |-> "new"]
  /\ responses = {}
  /\ respChan = [r \in Requests |-> <<>>]
  /\ msgChan = <<>>
  /\ agent = "idle"
  /\ serving = <<>>
  /\ sending = {}
  /\ gwClosed = FALSE
  /\ answer = [r \in Requests |-> NoReply]
  /\ replied = <<>>
  /\ since = [r \in Requests |-> 0]

Goto(r, stage) == handler' = [handler EXCEPT ![r] = stage]

-----------------------------------------------------------------------------
(* handleChat.                                                             *)

\* Wrong method, malformed body, refused key or no content.
ChatReject(r) ==
  /\ handler[r] = "new"
  /\ Goto(r, "done")
  /\ UNCHANGED <<responses, respChan, msgChan, agentVars, gwClosed, answer,
                 replied, since>>

ChatRegister(r) ==
  /\ handler[r] = "new"
  /\ Goto(r, "sending")
  /\ responses' = responses \cup {r}
  /\ since' = [since EXCEPT ![r] = Len(replied)]
  /\ UNCHANGED <<respChan, msgChan, agentVars, gwClosed, answer, replied>>

\* The send blocks while msgChan is full; neither the timeout nor a shutdown
\* releases it.
ChatQueue(r) ==
  /\ handler[r] = "sending"
  /\ Len(msgChan) < MsgCap
  /\ Goto(r, "waiting")
  /\ msgChan' = Append(msgChan, r)
  /\ UNCHANGED <<responses, respChan, agentVars, gwClosed, answer, replied,
                 since>>

ChatAnswer(r) ==
  /\ handler[r] = "waiting"
  /\ respChan[r] # <<>>
  /\ Goto(r, "leaving")
  /\ answer' = [answer EXCEPT ![r] = Head(respChan[r])]
  /\ respChan' = [respChan EXCEPT ![r] = <<>>]
  /\ UNCHANGED <<responses, msgChan, agentVars, gwClosed, replied, since>>

\* Fault: no timer runs beside the wait.
ChatGiveUpOnShutdown(r) ==
  /\ handler[r] = "waiting" /\ gwClosed
  /\ Goto(r, "leaving")
  /\ UNCHANGED <<responses, respChan, msgChan, agentVars, gwClosed, answer,
                 replied, since>>

\* Thirty seconds without a reply, or the gateway is shut down.
ChatGiveUp(r) ==
  /\ handler[r] = "waiting"
  /\ Goto(r, "leaving")
  /\ UNCHANGED <<responses, respChan, msgChan, agentVars, gwClosed, answer,
                 replied, since>>

\* The deferred call removes the request; its channel is never closed.
ChatLeave(r) ==
  /\ handler[r] = "leaving"
  /\ Goto(r, "done")
  /\ responses' = responses \ {r}
  /\ UNCHANGED <<respChan, msgChan, agentVars, gwClosed, answer, replied, since>>

gwShutdown ==
  /\ ~gwClosed
  /\ gwClosed' = TRUE
  /\ UNCHANGED <<handler, responses, respChan, msgChan, agentVars, answer,
                 replied, since>>

-----------------------------------------------------------------------------
(* Agent.Run.                                                              *)

AgentTake ==
  /\ agent = "idle"
  /\ agent' = "working"
  /\ \/ /\ msgChan # <<>>
        /\ serving' = <<Head(msgChan)>>
        /\ msgChan' = Tail(msgChan)
     \/ \E m \in Foreign :
          /\ \A i \in DOMAIN replied : replied[i] # m
          /\ serving' = <<m>>
          /\ UNCHANGED msgChan
  /\ UNCHANGED <<handler, responses, respChan, sending, gwClosed, answer, replied,
                 since>>

\* Every message gets a reply, an error text if nothing else.  SendMessage copies
\* the registered channels under the lock ...
AgentReply ==
  /\ agent = "working"
  /\ agent' = "replying"
  /\ sending' = responses
  /\ replied' = replied \o serving
  /\ UNCHANGED <<handler, responses, respChan, msgChan, serving, gwClosed, answer,
                 since>>

\* Fault: a reply replaces the one that waits to be read.
LatestReply(r) == serving

\* A full channel drops the reply.
Offer(r) == IF respChan[r] = <<>> THEN serving ELSE respChan[r]

\* ... and serves them one by one without it.
SendMessage(r) ==
  /\ agent = "replying"
  /\ r \in sending
  /\ respChan' = [respChan EXCEPT ![r] = Offer(r)]
  /\ sending' = sending \ {r}
  /\ UNCHANGED <<handler, responses, msgChan, agent, serving, gwClosed, answer,
                 replied, since>>

AgentNext ==
  /\ agent = "replying"
  /\ sending = {}
  /\ agent' = "idle"
  /\ serving' = <<>>
  /\ UNCHANGED <<handler, responses, respChan, msgChan, sending, gwClosed, answer,
                 replied, since>>

\* The context of Run is cancelled.
AgentStop ==
  /\ agent = "idle"
  /\ agent' = "gone"
  /\ UNCHANGED <<handler, responses, respChan, msgChan, serving, sending, gwClosed,
                 answer, replied, since>>

AgentWork == AgentTake \/ AgentReply \/ (\E r \in Requests : SendMessage(r)) \/ AgentNext

ChatEnd(r) == ChatAnswer(r) \/ ChatGiveUp(r) \/ ChatLeave(r)

GatewayNext ==
  \/ \E r \in Requests : ChatReject(r) \/ ChatRegister(r) \/ ChatQueue(r) \/ ChatEnd(r)
  \/ AgentWork \/ AgentStop \/ gwShutdown

\* Goroutines are scheduled and timers fire; a blocked send is served in the end
\* as long as the queue is drained, since Go wakes senders in order.  Nobody has
\* to send a request, to stop the agent or to shut down.
GatewayFairness ==
  /\ \A r \in Requests : WF_gatewayVars(ChatEnd(r)) /\ SF_gatewayVars(ChatQueue(r))
  /\ WF_gatewayVars(AgentWork)

GatewaySpec == GatewayInit /\ [][GatewayNext]_gatewayVars /\ GatewayFairness

-----------------------------------------------------------------------------
(* Properties.                                                             *)

\* The table of waiting requests holds exactly the requests whose handler runs:
\* no handler waits unregistered, and none leaves its channel behind, whether it
\* was answered, timed out or was shut down.
WaitersRegistered ==
  responses = {r \in Requests : handler[r] \in {"sending", "waiting", "leaving"}}

\* The reply to a request is not lost between registering, queueing and waiting:
\* once the broadcast of its reply has passed its channel, a handler that still
\* waits has a reply to read.
ReplyKept ==
  \A r \in Requests :
    /\ handler[r] = "waiting" /\ r \notin sending
    /\ \E i \in DOMAIN replied : replied[i] = r
    => respChan[r] # <<>>

\* A handler answers with the first reply broadcast after it registered, never
\* with an older or a later one.  It is its own reply unless another message was
\* ahead of its own: then it is that message's.
FirstReply ==
  \A r \in Requests :
    answer[r] # NoReply => answer[r] = replied[since[r] + 1]

\* A chat request ends: the only place where its handler can be stuck is the send
\* to an agent that has stopped reading.
ChatReturns ==
  \A r \in Requests :
    /\ handler[r] = "waiting" ~> handler[r] = "done"
    /\ handler[r] = "sending" ~> handler[r] = "done" \/ agent = "gone"

\* The agent works on one message at a time, and the broadcast that goes on is
\* that of the last reply.
OneBroadcast ==
  /\ Len(serving) <= 1
  /\ serving = <<>> <=> agent \in {"idle", "gone"}
  /\ agent # "replying" => sending = {}
  /\ agent = "replying" =>
       Len(replied) > 0 /\ serving = <<replied[Len(replied)]>>

Within(r, seq) == \E i \in DOMAIN seq : seq[i] = r

\* Until its message is queued a request is unknown to the agent, and every reply
\* to it comes after it registered.
RepliedLater(r) ==
  /\ since[r] <= Len(replied)
  /\ handler[r] \in {"new", "sending"} =>
       ~Within(r, msgChan) /\ ~Within(r, serving) /\ ~Within(r, replied)
  /\ \A i \in DOMAIN replied : replied[i] = r => since[r] < i

\* As long as a handler has not been answered its channel holds the first reply
\* since it registered, or no reply has passed the channel yet.
FirstReplyWaits(r) ==
  /\ handler[r] = "new" => r \notin sending /\ respChan[r] = <<>>
  /\ handler[r] \in {"new", "sending", "waiting"} => answer[r] = NoReply
  /\ handler[r] \in {"sending", "waiting"} =>
       \/ /\ respChan[r] = <<>>
          /\ Len(replied) = since[r] + (IF r \in sending THEN 1 ELSE 0)
       \/ /\ since[r] < Len(replied)
          /\ respChan[r] = <<replied[since[r] + 1]>>
  /\ answer[r] # NoReply =>
       since[r] < Len(replied) /\ answer[r] = replied[since[r] + 1]

\* The safety of the chat endpoint: handlers and their table agree, and each
\* broadcast is read as the reply of the requests that waited for it, no later
\* one and none lost (httpgw.go: handleChat, SendMessage).  With the state of the
\* broadcast and of each channel the invariant is inductive.
GatewayInv ==
  /\ GatewayTypeOK
  /\ OneBroadcast
  /\ WaitersRegistered
  /\ \A r \in Requests : RepliedLater(r) /\ FirstReplyWaits(r)
  /\ ReplyKept
  /\ FirstReply
=============================================================================
