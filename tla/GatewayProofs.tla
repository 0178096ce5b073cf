---------------------------- MODULE GatewayProofs ----------------------------
(***************************************************************************)
(* Proofs about the channels that serve the network: the chat endpoint,    *)
(* the websocket connections and the webhooks, for any number of requests, *)
(* connections and queue capacities.                                       *)
(***************************************************************************)
EXTENDS Gateway, EventHub, WebSocket, Webhooks, FiniteSetTheorems, SequenceTheorems, TLAPS

-----------------------------------------------------------------------------
(* Queues.                                                                 *)

\* Reading the head of a queue into the history of what was read leaves the sequence
\* of all messages, read and queued, as it was (a channel is first in, first out).
LEMMA ReadKeepsAll ==
  ASSUME NEW S, NEW taken \in Seq(S), NEW q \in Seq(S), q # <<>>
  PROVE  Append(taken, Head(q)) \o Tail(q) = taken \o q
<1> DEFINE new == Append(taken, Head(q)) \o Tail(q)
           old == taken \o q
<1>1. /\ Head(q) = q[1] /\ Tail(q) \in Seq(S) /\ Len(Tail(q)) = Len(q) - 1 /\ q[1] \in S
      /\ \A i \in 1..(Len(q) - 1) : Tail(q)[i] = q[i + 1]
      /\ Len(q) \in Nat \ {0} /\ Len(taken) \in Nat
  OBVIOUS
<1>2. /\ Append(taken, Head(q)) \in Seq(S) /\ Len(Append(taken, Head(q))) = Len(taken) + 1
      /\ \A i \in 1..Len(taken) : Append(taken, Head(q))[i] = taken[i]
      /\ Append(taken, Head(q))[Len(taken) + 1] = q[1]
  BY <1>1
<1>3. new \in Seq(S) /\ old \in Seq(S) /\ Len(new) = Len(old) /\ Len(old) = Len(taken) + Len(q)
  BY <1>1, <1>2
<1>4. ASSUME NEW i \in 1..Len(old) PROVE new[i] = old[i]
  <2>1. CASE i <= Len(taken)
    <3>1. old[i] = taken[i]
      BY <1>1, <1>3, <2>1
    <3>2. new[i] = Append(taken, Head(q))[i]
      BY <1>1, <1>2, <1>3, <2>1
    <3>3. QED
      BY <1>2, <1>3, <2>1, <3>1, <3>2
  <2>2. CASE i = Len(taken) + 1
    <3>1. old[i] = q[1]
      BY <1>1, <1>3, <2>2
    <3>2. new[i] = Append(taken, Head(q))[i]
      BY <1>1, <1>2, <1>3, <2>2
    <3>3. QED
      BY <1>2, <2>2, <3>1, <3>2
  <2>3. CASE i > Len(taken) + 1
    <3>1. old[i] = q[i - Len(taken)]
      BY <1>1, <1>3, <2>3
    <3>2. new[i] = Tail(q)[i - (Len(taken) + 1)]
      BY <1>1, <1>2, <1>3, <2>3
    <3>3. QED
      BY <1>1, <1>3, <2>3, <3>1, <3>2
  <2>4. QED
    BY <1>1, <1>3, <2>1, <2>2, <2>3
<1>5. QED
  BY <1>3, <1>4

-----------------------------------------------------------------------------
(* The websocket channel.                                                  *)

\* The table of clients agrees with the running handlers in every state, whatever
\* connects, leaves or is swept out meanwhile, and the queue keeps its capacity
\* (websocket.go: handleConn, Shutdown).
THEOREM SocketsCorrect == SocketSpec => []SocketInv
<1> USE DEF SocketInv, SocketTypeOK, ClientsRun
<1>1. SocketInit => SocketInv
  <2> SUFFICES ASSUME SocketInit PROVE SocketInv
    OBVIOUS
  <2>1. wsQ \in Seq(Conns) /\ Len(wsQ) = 0 /\ Len(wsQ) <= QueueCap
    BY SocketAssumption DEF SocketInit
  <2>2. QED
    BY <2>1 DEF SocketInit
<1>2. SocketInv /\ [SocketNext]_socketVars => SocketInv'
  <2> SUFFICES ASSUME SocketInv, [SocketNext]_socketVars PROVE SocketInv'
    OBVIOUS
  <2> USE DEF ToStage
  <2>1. ASSUME NEW c \in Conns, Connect(c) PROVE SocketInv'
    BY <2>1 DEF Connect
  <2>2. ASSUME NEW c \in Conns, CheckShutdown(c) PROVE SocketInv'
    BY <2>2 DEF CheckShutdown
  <2>3. ASSUME NEW c \in Conns, ReadFails(c) PROVE SocketInv'
    BY <2>3 DEF ReadFails
  <2>4. ASSUME NEW c \in Conns, ReadEmpty(c) PROVE SocketInv'
    BY <2>4 DEF ReadEmpty
  <2>5. ASSUME NEW c \in Conns, ReadMessage(c) PROVE SocketInv'
    BY <2>5 DEF ReadMessage
  <2>6. ASSUME NEW c \in Conns, PushMessage(c) PROVE SocketInv'
    <3>1. wsQ' \in Seq(Conns) /\ Len(wsQ') <= QueueCap
      BY <2>6, SocketAssumption DEF PushMessage
    <3>2. QED
      BY <2>6, <3>1 DEF PushMessage
  <2>7. ASSUME NEW c \in Conns, LeaveConn(c) PROVE SocketInv'
    BY <2>7 DEF LeaveConn
  <2>8. CASE wsShutdown
    BY <2>8 DEF wsShutdown
  <2>9. CASE ForwardSocket
    <3>1. wsQ' \in Seq(Conns) /\ Len(wsQ') <= QueueCap
      BY <2>9, SocketAssumption DEF ForwardSocket
    <3>2. QED
      BY <2>9, <3>1 DEF ForwardSocket
  <2>10. CASE ManagerStops
    BY <2>10 DEF ManagerStops
  <2>11. CASE UNCHANGED socketVars
    BY <2>11 DEF socketVars
  <2>12. QED
    BY <2>1, <2>2, <2>3, <2>4, <2>5, <2>6, <2>7, <2>8, <2>9, <2>10, <2>11 DEF SocketNext
<1>3. QED
  BY <1>1, <1>2, PTL DEF SocketSpec

-----------------------------------------------------------------------------
(* The webhook channel.                                                    *)

\* The answer to a webhook tells the truth about its message in every state: it is
\* queued or read exactly once if it was accepted and not at all otherwise
\* (webhooks.go: the select of the handler).
THEOREM WebhooksCorrect == HookSpec => []HookInv
<1> USE DEF HookInv, HookTypeOK, AcceptedOnce
<1>1. HookInit => HookInv
  <2> SUFFICES ASSUME HookInit PROVE HookInv
    OBVIOUS
  <2>1. /\ whQ \in Seq(Hooks) /\ Len(whQ) <= HookCap /\ hookTaken \in Seq(Hooks)
        /\ Len(hookTaken \o whQ) = 0
    BY HookAssumption DEF HookInit
  <2>2. \A i \in DOMAIN (hookTaken \o whQ) : FALSE
    BY <2>1
  <2>3. HookTypeOK
    BY <2>1 DEF HookInit
  <2>4. AcceptedOnce
    BY <2>2 DEF HookInit
  <2>5. QED
    BY <2>3, <2>4
<1>2. HookInv /\ [HookNext]_hookVars => HookInv'
  <2> SUFFICES ASSUME HookInv, [HookNext]_hookVars PROVE HookInv'
    OBVIOUS
  <2> USE DEF HookEnds
  <2>1. ASSUME NEW h \in Hooks, HookArrives(h) PROVE HookInv'
    <3>1. UNCHANGED <<whDown, whQ, hookReader, hookTaken>>
      BY <2>1 DEF HookArrives
    <3>2. \/ hook' = [hook EXCEPT ![h] = "bad"]
          \/ hook' = [hook EXCEPT ![h] = "select"]
      BY <2>1 DEF HookArrives
    <3>3. HookTypeOK'
      BY <3>1, <3>2
    <3>4. \A g \in Hooks : hook'[g] = "accepted" <=> hook[g] = "accepted"
      BY <2>1, <3>2 DEF HookArrives
    <3>5. AcceptedOnce'
      BY <3>1, <3>4
    <3>6. QED
      BY <3>3, <3>5
  <2>2. ASSUME NEW h \in Hooks, HookAccept(h) PROVE HookInv'
    <3> DEFINE sent == hookTaken \o whQ
    <3>1. whQ' \in Seq(Hooks) /\ Len(whQ') <= HookCap /\ hookTaken' = hookTaken
      BY <2>2, HookAssumption DEF HookAccept
    <3>2. sent \in Seq(Hooks) /\ sent' = Append(sent, h)
      BY <2>2 DEF HookAccept
    <3>3. \A i \in DOMAIN sent : sent[i] # h
      BY <2>2 DEF HookAccept
    <3>4. \A g \in Hooks : hook[g] = "accepted" <=> \E i \in DOMAIN sent : sent[i] = g
      OBVIOUS
    <3>5. \A i, j \in DOMAIN sent : sent[i] = sent[j] => i = j
      OBVIOUS
    <3> HIDE DEF sent
    <3>6. /\ DOMAIN sent' = 1..(Len(sent) + 1) /\ sent'[Len(sent) + 1] = h
          /\ \A i \in DOMAIN sent : i \in 1..Len(sent) /\ sent'[i] = sent[i]
          /\ Len(sent) \in Nat /\ DOMAIN sent = 1..Len(sent)
      BY <3>2
    <3>7. \A i \in DOMAIN sent' : i = Len(sent) + 1 \/ (i \in DOMAIN sent /\ sent'[i] = sent[i])
      BY <3>6
    <3>8. Len(sent) + 1 \in DOMAIN sent' /\ DOMAIN sent \subseteq DOMAIN sent'
      BY <3>6
    <3>9. \A i, j \in DOMAIN sent' : sent'[i] = sent'[j] => i = j
      BY <3>3, <3>5, <3>6, <3>7
    <3>10. \A g \in Hooks : hook'[g] = "accepted" <=> (hook[g] = "accepted" \/ g = h)
      BY <2>2 DEF HookAccept
    <3>11. ASSUME NEW g \in Hooks
           PROVE  (hook'[g] = "accepted") <=> (\E i \in DOMAIN sent' : sent'[i] = g)
      <4>1. CASE g = h
        BY <3>6, <3>8, <3>10, <4>1
      <4>2. CASE g # h
        <5>1. ASSUME NEW i \in DOMAIN sent', sent'[i] = g PROVE i \in DOMAIN sent /\ sent[i] = g
          BY <3>6, <3>7, <4>2, <5>1
        <5>2. ASSUME NEW i \in DOMAIN sent, sent[i] = g PROVE i \in DOMAIN sent' /\ sent'[i] = g
          BY <3>6, <3>8, <5>2
        <5>3. (hook'[g] = "accepted") <=> (\E i \in DOMAIN sent : sent[i] = g)
          BY <3>4, <3>10, <4>2
        <5>4. QED
          BY <5>1, <5>2, <5>3
      <4>3. QED
        BY <4>1, <4>2
    <3>12. HookTypeOK'
      BY <2>2, <3>1 DEF HookAccept
    <3>13. AcceptedOnce'
      BY <3>9, <3>11 DEF sent
    <3>14. QED
      BY <3>12, <3>13
  <2>3. ASSUME NEW h \in Hooks, HookRefuse(h) PROVE HookInv'
    BY <2>3 DEF HookRefuse
  <2>4. CASE whShutdown
    BY <2>4 DEF whShutdown
  <2>5. CASE ForwardHook
    <3>1. /\ whQ' \in Seq(Hooks) /\ Len(whQ') <= HookCap /\ hookTaken' \in Seq(Hooks)
          /\ whQ # <<>>
      BY <2>5, HookAssumption DEF ForwardHook
    <3>2. hookTaken' \o whQ' = hookTaken \o whQ
      BY <2>5, <3>1, ReadKeepsAll DEF ForwardHook
    <3>3. HookTypeOK'
      BY <2>5, <3>1 DEF ForwardHook
    <3>4. AcceptedOnce'
      <4>1. hook' = hook
        BY <2>5 DEF ForwardHook
      <4>2. QED
        BY <3>2, <4>1
    <3>5. QED
      BY <3>3, <3>4
  <2>6. CASE HookReaderStops
    BY <2>6 DEF HookReaderStops
  <2>7. CASE UNCHANGED hookVars
    BY <2>7 DEF hookVars
  <2>8. QED
    BY <2>1, <2>2, <2>3, <2>4, <2>5, <2>6, <2>7 DEF HookNext
<1>3. QED
  BY <1>1, <1>2, PTL DEF HookSpec

-----------------------------------------------------------------------------
(* The chat endpoint.                                                      *)

\* A message at the end of a queue or a history is the only new member of it.
LEMMA WithinAppend ==
  ASSUME NEW S, NEW q \in Seq(S), NEW m \in S, NEW r
  PROVE  Within(r, Append(q, m)) <=> Within(r, q) \/ m = r
<1>1. /\ DOMAIN q = 1..Len(q) /\ DOMAIN Append(q, m) = 1..(Len(q) + 1) /\ Len(q) \in Nat
      /\ Append(q, m)[Len(q) + 1] = m
      /\ \A i \in 1..Len(q) : Append(q, m)[i] = q[i]
  OBVIOUS
<1>2. QED
  BY <1>1 DEF Within

\* Taking the head of a queue adds no member.
LEMMA WithinTail ==
  ASSUME NEW S, NEW q \in Seq(S), q # <<>>, NEW r
  PROVE  /\ Within(r, Tail(q)) => Within(r, q)
         /\ Head(q) = r => Within(r, q)
<1>1. /\ DOMAIN q = 1..Len(q) /\ DOMAIN Tail(q) = 1..(Len(q) - 1) /\ Len(q) \in Nat \ {0}
      /\ Head(q) = q[1]
      /\ \A i \in 1..(Len(q) - 1) : Tail(q)[i] = q[i + 1]
  OBVIOUS
<1>2. QED
  BY <1>1 DEF Within

\* The inductive part of GatewayInv.
ChatInd ==
  /\ GatewayTypeOK
  /\ OneBroadcast
  /\ WaitersRegistered
  /\ \A r \in Requests : RepliedLater(r) /\ FirstReplyWaits(r)

\* It implies the rest: no waiting handler misses its reply, and none answers with a
\* later one (handleChat).
LEMMA ChatIndImplies == ChatInd => GatewayInv
<1> SUFFICES ASSUME ChatInd PROVE GatewayInv
  OBVIOUS
<1>1. ReplyKept
  <2> SUFFICES ASSUME NEW r \in Requests, handler[r] = "waiting", r \notin sending,
                      NEW i \in DOMAIN replied, replied[i] = r
               PROVE  respChan[r] # <<>>
    BY DEF ReplyKept
  <2>1. since[r] < i /\ i <= Len(replied) /\ since[r] \in Nat /\ Len(replied) \in Nat /\ i \in Nat
    BY DEF ChatInd, GatewayTypeOK, RepliedLater
  <2>2. \/ Len(replied) = since[r]
        \/ respChan[r] = <<replied[since[r] + 1]>>
    BY <2>1 DEF ChatInd, FirstReplyWaits
  <2>3. <<replied[since[r] + 1]>> # <<>>
    OBVIOUS
  <2>4. Len(replied) # since[r]
    BY <2>1
  <2>5. QED
    BY <2>2, <2>3, <2>4
<1>2. FirstReply
  BY DEF ChatInd, FirstReplyWaits, FirstReply
<1>3. QED
  BY <1>1, <1>2 DEF ChatInd, GatewayInv

\* The new handler of a request is registered while the agent may be in the middle of a
\* broadcast that does not include it (handleChat registers before it sends).
LEMMA ChatRegisterInv ==
  ASSUME ChatInd, NEW r \in Requests, ChatRegister(r)
  PROVE  ChatInd'
<1>1. /\ handler[r] = "new" /\ handler' = [handler EXCEPT ![r] = "sending"]
      /\ responses' = responses \cup {r}
      /\ since' = [since EXCEPT ![r] = Len(replied)]
      /\ UNCHANGED <<respChan, msgChan, agent, serving, sending, gwClosed, answer, replied>>
  BY DEF ChatRegister, Goto, agentVars
<1>2. GatewayTypeOK'
  BY <1>1 DEF ChatInd, GatewayTypeOK
<1>3. OneBroadcast' /\ WaitersRegistered'
  BY <1>1 DEF ChatInd, GatewayTypeOK, OneBroadcast, WaitersRegistered
<1>4. ASSUME NEW q \in Requests PROVE RepliedLater(q)' /\ FirstReplyWaits(q)'
  <2>1. RepliedLater(q) /\ FirstReplyWaits(q)
    BY DEF ChatInd
  <2>2. CASE q = r
    BY <1>1, <2>1, <2>2 DEF ChatInd, GatewayTypeOK, RepliedLater, FirstReplyWaits, Within
  <2>3. CASE q # r
    BY <1>1, <2>1, <2>3 DEF ChatInd, GatewayTypeOK, RepliedLater, FirstReplyWaits, Within
  <2>4. QED
    BY <2>2, <2>3
<1>5. QED
  BY <1>2, <1>3, <1>4 DEF ChatInd

\* A queued message is new to the agent (handleChat: g.msgChan <- msg).
LEMMA ChatQueueInv ==
  ASSUME ChatInd, NEW r \in Requests, ChatQueue(r)
  PROVE  ChatInd'
<1>1. /\ handler[r] = "sending" /\ handler' = [handler EXCEPT ![r] = "waiting"]
      /\ msgChan' = Append(msgChan, r) /\ Len(msgChan) < MsgCap
      /\ UNCHANGED <<responses, respChan, agent, serving, sending, gwClosed, answer, replied, since>>
  BY DEF ChatQueue, Goto, agentVars
<1>2. msgChan' \in Seq(Requests) /\ Len(msgChan') <= MsgCap
  BY <1>1, GatewayAssumption DEF ChatInd, GatewayTypeOK
<1>3. GatewayTypeOK'
  BY <1>1, <1>2 DEF ChatInd, GatewayTypeOK
<1>4. OneBroadcast' /\ WaitersRegistered'
  BY <1>1 DEF ChatInd, GatewayTypeOK, OneBroadcast, WaitersRegistered
<1>5. ASSUME NEW q \in Requests PROVE RepliedLater(q)' /\ FirstReplyWaits(q)'
  <2>1. RepliedLater(q) /\ FirstReplyWaits(q)
    BY DEF ChatInd
  <2>2. Within(q, msgChan') <=> Within(q, msgChan) \/ r = q
    BY <1>1, WithinAppend DEF ChatInd, GatewayTypeOK
  <2>3. /\ Within(q, serving') = Within(q, serving) /\ Within(q, replied') = Within(q, replied)
        /\ Within(q, msgChan)' = Within(q, msgChan')
    BY <1>1
  <2>4. /\ q = r => handler'[q] = "waiting"
        /\ q # r => handler'[q] = handler[q]
    BY <1>1 DEF ChatInd, GatewayTypeOK
  <2>5. RepliedLater(q)'
    BY <1>1, <2>1, <2>2, <2>3, <2>4 DEF RepliedLater
  <2>6. FirstReplyWaits(q)'
    BY <1>1, <2>1, <2>4 DEF FirstReplyWaits
  <2>7. QED
    BY <2>5, <2>6
<1>6. QED
  BY <1>3, <1>4, <1>5 DEF ChatInd

\* A handler leaves its wait with the reply in its channel, which is the first one since
\* it registered, or with none (handleChat: the select).
LEMMA ChatEndInv ==
  ASSUME ChatInd, NEW r \in Requests, ChatEnd(r) \/ ChatReject(r)
  PROVE  ChatInd'
<1> USE DEF Goto, agentVars
<1>1. CASE ChatAnswer(r)
  <2>1. /\ handler[r] = "waiting" /\ handler' = [handler EXCEPT ![r] = "leaving"]
        /\ respChan[r] # <<>>
        /\ answer' = [answer EXCEPT ![r] = Head(respChan[r])]
        /\ respChan' = [respChan EXCEPT ![r] = <<>>]
        /\ UNCHANGED <<responses, msgChan, agent, serving, sending, gwClosed, replied, since>>
    BY <1>1 DEF ChatAnswer
  <2>2. /\ since[r] \in Nat /\ since[r] < Len(replied) /\ Len(replied) \in Nat
        /\ respChan[r] = <<replied[since[r] + 1]>>
    BY <2>1 DEF ChatInd, GatewayTypeOK, FirstReplyWaits
  <2>3. Head(respChan[r]) = replied[since[r] + 1] /\ replied[since[r] + 1] \in Messages
    BY <2>2 DEF ChatInd, GatewayTypeOK
  <2>4. GatewayTypeOK'
    <3>1. <<>> \in Seq(Messages) /\ Len(<<>>) <= 1
      OBVIOUS
    <3>2. respChan' \in [Requests -> Seq(Messages)]
      BY <2>1, <3>1 DEF ChatInd, GatewayTypeOK
    <3>3. \A q \in Requests : Len(respChan'[q]) <= 1
      BY <2>1, <3>1 DEF ChatInd, GatewayTypeOK
    <3>4. answer' \in [Requests -> Messages \cup {NoReply}]
      BY <2>1, <2>3 DEF ChatInd, GatewayTypeOK
    <3>5. QED
      BY <2>1, <3>2, <3>3, <3>4 DEF ChatInd, GatewayTypeOK
  <2>5. OneBroadcast' /\ WaitersRegistered'
    BY <2>1 DEF ChatInd, GatewayTypeOK, OneBroadcast, WaitersRegistered
  <2>6. ASSUME NEW q \in Requests PROVE RepliedLater(q)' /\ FirstReplyWaits(q)'
    <3>1. RepliedLater(q) /\ FirstReplyWaits(q)
      BY DEF ChatInd
    <3>2. CASE q = r
      BY <2>1, <2>2, <3>1, <3>2 DEF ChatInd, GatewayTypeOK, RepliedLater, FirstReplyWaits, Within
    <3>3. CASE q # r
      BY <2>1, <3>1, <3>3 DEF ChatInd, GatewayTypeOK, RepliedLater, FirstReplyWaits, Within
    <3>4. QED
      BY <3>2, <3>3
  <2>7. QED
    BY <2>4, <2>5, <2>6 DEF ChatInd
<1>2. CASE ChatGiveUp(r) \/ ChatLeave(r) \/ ChatReject(r)
  <2>1. /\ UNCHANGED <<respChan, msgChan, agent, serving, sending, gwClosed, answer, replied, since>>
        /\ \/ /\ handler[r] = "waiting" /\ handler' = [handler EXCEPT ![r] = "leaving"]
              /\ responses' = responses
           \/ /\ handler[r] = "leaving" /\ handler' = [handler EXCEPT ![r] = "done"]
              /\ responses' = responses \ {r}
           \/ /\ handler[r] = "new" /\ handler' = [handler EXCEPT ![r] = "done"]
              /\ responses' = responses
    BY <1>2 DEF ChatGiveUp, ChatLeave, ChatReject
  <2>2. GatewayTypeOK'
    BY <2>1 DEF ChatInd, GatewayTypeOK
  <2>3. OneBroadcast' /\ WaitersRegistered'
    BY <2>1 DEF ChatInd, GatewayTypeOK, OneBroadcast, WaitersRegistered
  <2>4. ASSUME NEW q \in Requests PROVE RepliedLater(q)' /\ FirstReplyWaits(q)'
    <3>1. RepliedLater(q) /\ FirstReplyWaits(q)
      BY DEF ChatInd
    <3>2. handler'[q] = handler[q] \/ handler'[q] \in {"leaving", "done"}
      BY <2>1 DEF ChatInd, GatewayTypeOK
    <3>3. RepliedLater(q)'
      BY <2>1, <3>1, <3>2 DEF RepliedLater, Within
    <3>4. FirstReplyWaits(q)'
      BY <2>1, <3>1, <3>2 DEF FirstReplyWaits
    <3>5. QED
      BY <3>3, <3>4
  <2>5. QED
    BY <2>2, <2>3, <2>4 DEF ChatInd
<1>3. QED
  BY <1>1, <1>2 DEF ChatEnd

\* The agent takes the next message, whose sender waits, or one of another channel
\* (Agent.Run, the receive).
LEMMA AgentTakeInv ==
  ASSUME ChatInd, AgentTake
  PROVE  ChatInd'
<1>1. /\ agent = "idle" /\ agent' = "working"
      /\ UNCHANGED <<handler, responses, respChan, sending, gwClosed, answer, replied, since>>
  BY DEF AgentTake
<1>2. PICK m \in Messages :
        /\ serving' = <<m>>
        /\ \/ msgChan # <<>> /\ m = Head(msgChan) /\ msgChan' = Tail(msgChan)
           \/ m \in Foreign /\ msgChan' = msgChan
  <2>1. CASE msgChan # <<>> /\ serving' = <<Head(msgChan)>> /\ msgChan' = Tail(msgChan)
    <3>1. Head(msgChan) \in Messages
      BY <2>1 DEF ChatInd, GatewayTypeOK, Messages
    <3>2. QED
      BY <2>1, <3>1
  <2>2. CASE \E m \in Foreign : serving' = <<m>> /\ UNCHANGED msgChan
    BY <2>2 DEF Messages
  <2>3. QED
    BY <2>1, <2>2 DEF AgentTake
<1>3. /\ msgChan' \in Seq(Requests) /\ Len(msgChan') <= MsgCap
      /\ serving' \in Seq(Messages) /\ Len(serving') = 1
  <2>1. msgChan \in Seq(Requests) /\ Len(msgChan) <= MsgCap /\ MsgCap \in Nat
    BY GatewayAssumption DEF ChatInd, GatewayTypeOK
  <2>2. msgChan' = msgChan \/ (msgChan # <<>> /\ msgChan' = Tail(msgChan))
    BY <1>2
  <2>3. msgChan' \in Seq(Requests) /\ Len(msgChan') <= MsgCap
    BY <2>1, <2>2
  <2>4. QED
    BY <1>2, <2>3
<1>4. GatewayTypeOK'
  BY <1>1, <1>3 DEF ChatInd, GatewayTypeOK
<1>5. OneBroadcast' /\ WaitersRegistered'
  <2>1. serving' # <<>>
    BY <1>2
  <2>2. OneBroadcast'
    BY <1>1, <1>3, <2>1 DEF ChatInd, OneBroadcast
  <2>3. QED
    BY <1>1, <2>2 DEF ChatInd, WaitersRegistered
<1>6. ASSUME NEW q \in Requests PROVE RepliedLater(q)' /\ FirstReplyWaits(q)'
  <2>1. RepliedLater(q) /\ FirstReplyWaits(q)
    BY DEF ChatInd
  <2>2. Within(q, msgChan') => Within(q, msgChan)
    BY <1>2, WithinTail DEF ChatInd, GatewayTypeOK
  <2>3. Within(q, serving') => Within(q, msgChan)
    <3>1. Within(q, serving') <=> m = q
      BY <1>2 DEF Within
    <3>2. q \notin Foreign
      BY GatewayAssumption
    <3>3. QED
      BY <1>2, <3>1, <3>2, WithinTail DEF ChatInd, GatewayTypeOK
  <2>4. /\ Within(q, replied') = Within(q, replied) /\ Within(q, serving)' = Within(q, serving')
        /\ Within(q, msgChan)' = Within(q, msgChan') /\ Within(q, replied)' = Within(q, replied')
    BY <1>1
  <2>5. RepliedLater(q)'
    BY <1>1, <2>1, <2>2, <2>3, <2>4 DEF RepliedLater
  <2>6. FirstReplyWaits(q)'
    BY <1>1, <2>1 DEF FirstReplyWaits
  <2>7. QED
    BY <2>5, <2>6
<1>7. QED
  BY <1>4, <1>5, <1>6 DEF ChatInd

\* A broadcast begins with the handlers that are registered; for those that wait since
\* the last reply it is the first (SendMessage copies Gateway.responses).
LEMMA AgentReplyInv ==
  ASSUME ChatInd, AgentReply
  PROVE  ChatInd'
<1>1. /\ agent = "working" /\ agent' = "replying" /\ sending' = responses
      /\ replied' = replied \o serving
      /\ UNCHANGED <<handler, responses, respChan, msgChan, serving, gwClosed, answer, since>>
  BY DEF AgentReply
<1>2. /\ serving \in Seq(Messages) /\ serving # <<>> /\ Len(serving) <= 1 /\ sending = {}
      /\ replied \in Seq(Messages)
  BY <1>1 DEF ChatInd, OneBroadcast, GatewayTypeOK
<1>3. Len(serving) = 1 /\ serving[1] \in Messages /\ serving = <<serving[1]>>
  BY <1>2
<1> DEFINE m == serving[1]
           n == Len(replied)
<1>4. /\ replied' = Append(replied, m) /\ replied' \in Seq(Messages) /\ n \in Nat
      /\ Len(replied') = n + 1 /\ replied'[n + 1] = m
      /\ DOMAIN replied = 1..n /\ DOMAIN replied' = 1..(n + 1)
      /\ \A i \in 1..n : replied'[i] = replied[i]
  <2> HIDE DEF m
  <2>1. serving = <<m>> /\ m \in Messages
    BY <1>3 DEF m
  <2>2. replied' = replied \o <<m>>
    BY <1>1, <2>1
  <2>3. QED
    BY <1>2, <2>1, <2>2
<1>5. GatewayTypeOK'
  BY <1>1, <1>4 DEF ChatInd, GatewayTypeOK
<1>6. OneBroadcast'
  BY <1>1, <1>2, <1>3, <1>4 DEF OneBroadcast
<1>7. WaitersRegistered'
  BY <1>1 DEF ChatInd, WaitersRegistered
<1>8. ASSUME NEW q \in Requests PROVE RepliedLater(q)' /\ FirstReplyWaits(q)'
  <2>1. RepliedLater(q) /\ FirstReplyWaits(q) /\ since[q] \in Nat
    BY DEF ChatInd, GatewayTypeOK
  <2>2. m = q => Within(q, serving)
    BY <1>2, <1>3 DEF Within
  <2>3. Within(q, replied') => Within(q, replied) \/ m = q
    BY <1>4 DEF Within
  <2>4. /\ Within(q, replied)' = Within(q, replied')
        /\ Within(q, msgChan)' = Within(q, msgChan) /\ Within(q, serving)' = Within(q, serving)
    BY <1>1
  <2>5. since'[q] = since[q] /\ handler'[q] = handler[q] /\ answer'[q] = answer[q] /\ respChan'[q] = respChan[q]
    BY <1>1
  <2>6. RepliedLater(q)'
    <3>1. since[q] <= n
      BY <2>1 DEF RepliedLater
    <3>2. since'[q] <= Len(replied')
      BY <1>4, <2>1, <2>5, <3>1
    <3>3. \A i \in DOMAIN replied' : replied'[i] = q => since'[q] < i
      BY <1>4, <2>1, <2>5, <3>1 DEF RepliedLater
    <3>4. QED
      BY <2>1, <2>2, <2>3, <2>4, <2>5, <3>2, <3>3 DEF RepliedLater
  <2>7. FirstReplyWaits(q)'
    <3>1. handler[q] \in {"sending", "waiting"} => q \in responses
      BY DEF ChatInd, WaitersRegistered
    <3>2. handler[q] = "new" => q \notin responses
      BY DEF ChatInd, WaitersRegistered
    <3>3. since[q] < n => since[q] < Len(replied') /\ replied'[since[q] + 1] = replied[since[q] + 1]
      BY <1>4, <2>1
    <3>4. n = since[q] => Len(replied') = since[q] + 1
      BY <1>4
    <3>5. q \notin sending
      BY <1>2
    <3>6. QED
      BY <1>1, <2>1, <2>5, <3>1, <3>2, <3>3, <3>4, <3>5 DEF FirstReplyWaits
  <2>8. QED
    BY <2>6, <2>7
<1>9. QED
  BY <1>5, <1>6, <1>7, <1>8 DEF ChatInd

\* The broadcast reaches the channel of a request: an empty one takes the reply, which is
\* the first since the request registered if its handler has not been answered.
LEMMA SendMessageInv ==
  ASSUME ChatInd, NEW r \in Requests, SendMessage(r)
  PROVE  ChatInd'
<1>1. /\ agent = "replying" /\ r \in sending /\ sending' = sending \ {r}
      /\ respChan' = [respChan EXCEPT ![r] = IF respChan[r] = <<>> THEN serving ELSE respChan[r]]
      /\ UNCHANGED <<handler, responses, msgChan, agent, serving, gwClosed, answer, replied, since>>
  BY DEF SendMessage, Offer
<1>2. /\ serving = <<replied[Len(replied)]>> /\ serving \in Seq(Messages) /\ Len(serving) <= 1
      /\ Len(replied) > 0 /\ Len(replied) \in Nat
  BY <1>1 DEF ChatInd, OneBroadcast, GatewayTypeOK
<1>3. GatewayTypeOK'
  <2>1. respChan' \in [Requests -> Seq(Messages)] /\ \A q \in Requests : Len(respChan'[q]) <= 1
    BY <1>1, <1>2 DEF ChatInd, GatewayTypeOK
  <2>2. QED
    BY <1>1, <2>1 DEF ChatInd, GatewayTypeOK
<1>4. OneBroadcast' /\ WaitersRegistered'
  BY <1>1 DEF ChatInd, OneBroadcast, WaitersRegistered
<1>5. ASSUME NEW q \in Requests PROVE RepliedLater(q)' /\ FirstReplyWaits(q)'
  <2>1. RepliedLater(q) /\ FirstReplyWaits(q) /\ since[q] \in Nat
    BY DEF ChatInd, GatewayTypeOK
  <2>2. RepliedLater(q)'
    BY <1>1, <2>1 DEF RepliedLater, Within
  <2>3. /\ q = r => respChan'[q] = IF respChan[q] = <<>> THEN serving ELSE respChan[q]
        /\ q # r => respChan'[q] = respChan[q] /\ (q \in sending' <=> q \in sending)
    BY <1>1 DEF ChatInd, GatewayTypeOK
  <2>4. FirstReplyWaits(q)'
    <3>1. CASE q # r
      BY <1>1, <2>1, <2>3, <3>1 DEF FirstReplyWaits
    <3>2. CASE q = r
      <4>1. handler[q] # "new"
        BY <1>1, <2>1, <3>2 DEF FirstReplyWaits
      <4>2. handler[q] \in {"sending", "waiting"} =>
              since[q] < Len(replied) /\ respChan'[q] = <<replied[since[q] + 1]>>
        <5>1. CASE respChan[q] = <<>> /\ Len(replied) = since[q] + 1
          BY <1>2, <2>1, <2>3, <3>2, <5>1
        <5>2. CASE since[q] < Len(replied) /\ respChan[q] = <<replied[since[q] + 1]>>
          BY <2>3, <3>2, <5>2
        <5>3. QED
          BY <1>1, <2>1, <3>2, <5>1, <5>2 DEF FirstReplyWaits
      <4>3. QED
        BY <1>1, <2>1, <4>1, <4>2 DEF FirstReplyWaits
    <3>3. QED
      BY <3>1, <3>2
  <2>5. QED
    BY <2>2, <2>4
<1>6. QED
  BY <1>3, <1>4, <1>5 DEF ChatInd

\* The end of a broadcast and of the agent, a shutdown of the gateway, and a step that
\* changes nothing.
LEMMA AgentRestInv ==
  ASSUME ChatInd, AgentNext \/ AgentStop \/ gwShutdown \/ UNCHANGED gatewayVars
  PROVE  ChatInd'
<1>1. /\ UNCHANGED <<handler, responses, respChan, msgChan, sending, answer, replied, since>>
      /\ gwClosed' \in BOOLEAN
      /\ \/ agent = "replying" /\ sending = {} /\ agent' = "idle" /\ serving' = <<>>
         \/ agent = "idle" /\ agent' = "gone" /\ serving' = serving
         \/ agent' = agent /\ serving' = serving
  BY DEF AgentNext, AgentStop, gwShutdown, gatewayVars, agentVars, ChatInd, GatewayTypeOK
<1>2. serving' \in Seq(Messages) /\ Len(<<>>) = 0
  <2>1. <<>> \in Seq(Messages) /\ Len(<<>>) = 0
    OBVIOUS
  <2>2. QED
    BY <1>1, <2>1 DEF ChatInd, GatewayTypeOK
<1>3. GatewayTypeOK'
  BY <1>1, <1>2 DEF ChatInd, GatewayTypeOK
<1>4. OneBroadcast' /\ WaitersRegistered'
  BY <1>1, <1>2 DEF ChatInd, OneBroadcast, WaitersRegistered
<1>5. ASSUME NEW q \in Requests PROVE RepliedLater(q)' /\ FirstReplyWaits(q)'
  <2>1. RepliedLater(q) /\ FirstReplyWaits(q)
    BY DEF ChatInd
  <2>2. Within(q, serving') => Within(q, serving)
    BY <1>1 DEF Within
  <2>3. /\ Within(q, serving)' = Within(q, serving')
        /\ Within(q, msgChan)' = Within(q, msgChan) /\ Within(q, replied)' = Within(q, replied)
    BY <1>1
  <2>4. RepliedLater(q)'
    BY <1>1, <2>1, <2>2, <2>3 DEF RepliedLater
  <2>5. FirstReplyWaits(q)'
    BY <1>1, <2>1 DEF FirstReplyWaits
  <2>6. QED
    BY <2>4, <2>5
<1>6. QED
  BY <1>3, <1>4, <1>5 DEF ChatInd

\* For any requests, other messages and queue capacity: the table of waiting requests
\* agrees with the handlers, a request that waits misses no reply, and it answers with the
\* first reply after it registered (httpgw.go: handleChat, SendMessage).
THEOREM ChatCorrect == GatewaySpec => []GatewayInv
<1>1. GatewayInit => ChatInd
  <2> SUFFICES ASSUME GatewayInit PROVE ChatInd
    OBVIOUS
  <2>1. <<>> \in Seq(Messages) /\ <<>> \in Seq(Requests) /\ Len(<<>>) = 0 /\ 0 <= MsgCap
    BY GatewayAssumption
  <2>2. respChan \in [Requests -> Seq(Messages)] /\ \A r \in Requests : respChan[r] = <<>>
    BY <2>1 DEF GatewayInit
  <2>3. GatewayTypeOK
    <3>1. \A r \in Requests : Len(respChan[r]) <= 1
      BY <2>1, <2>2
    <3>2. msgChan \in Seq(Requests) /\ Len(msgChan) <= MsgCap /\ serving \in Seq(Messages)
          /\ replied \in Seq(Messages)
      BY <2>1 DEF GatewayInit
    <3>3. QED
      BY <2>2, <3>1, <3>2 DEF GatewayInit, GatewayTypeOK
  <2>4. OneBroadcast /\ WaitersRegistered
    BY <2>1 DEF GatewayInit, OneBroadcast, WaitersRegistered
  <2>5. ASSUME NEW r \in Requests PROVE RepliedLater(r) /\ FirstReplyWaits(r)
    <3>1. ~Within(r, msgChan) /\ ~Within(r, serving) /\ ~Within(r, replied)
      BY DEF GatewayInit, Within
    <3>2. RepliedLater(r)
      BY <2>1, <3>1 DEF GatewayInit, RepliedLater, Within
    <3>3. FirstReplyWaits(r)
      BY DEF GatewayInit, FirstReplyWaits
    <3>4. QED
      BY <3>2, <3>3
  <2>6. QED
    BY <2>3, <2>4, <2>5 DEF ChatInd
<1>2. ChatInd /\ [GatewayNext]_gatewayVars => ChatInd'
  BY ChatRegisterInv, ChatQueueInv, ChatEndInv, AgentTakeInv, AgentReplyInv, SendMessageInv,
     AgentRestInv
     DEF GatewayNext, AgentWork
<1>3. QED
  BY <1>1, <1>2, ChatIndImplies, PTL DEF GatewaySpec

-----------------------------------------------------------------------------
(* The event streams.                                                      *)

\* A list that holds no stream twice.
NoRepeat(list) == \A i, j \in DOMAIN list : list[i] = list[j] => i = j

\* Event numbers in the order of publication, of the first n events.
InOrder(seq, n) ==
  /\ \A i \in DOMAIN seq : seq[i] \in 1..n
  /\ \A i, j \in DOMAIN seq : i < j => seq[i] < seq[j]

\* The list under a key: the open streams with that key, each once.
ListOK(k) ==
  /\ NoRepeat(subs[k])
  /\ \A p : Within(p, subs[k]) <=>
              p \in Pages /\ stream[p] \in {"open", "leaving"} /\ PageKey(p) = k

\* The inductive part of HubInv.
HubInd ==
  /\ HubTypeOK
  /\ \A k \in HubKeys : ListOK(k)
  /\ \A p \in Pages : InOrder(shown[p] \o evCh[p], Len(events))

\* Taking the first place of a stream out of a list leaves the others, each once (the
\* append of the two halves in EventHub.Unsubscribe).
LEMMA WithoutFacts ==
  ASSUME NEW S, NEW list \in Seq(S), NoRepeat(list), NEW p, Within(p, list)
  PROVE  /\ Without(list, p) \in Seq(S)
         /\ NoRepeat(Without(list, p))
         /\ \A q : Within(q, Without(list, p)) <=> Within(q, list) /\ q # p
<1>1. PICK i \in DOMAIN list : list[i] = p
  BY DEF Within
<1>2. Places(list, p) = {i}
  BY <1>1 DEF Places, NoRepeat
<1>3. /\ DOMAIN list = 1..Len(list) /\ Len(list) \in Nat /\ i \in 1..Len(list)
      /\ \A j \in 1..Len(list) : list[j] \in S
  BY <1>1
<1>4. (CHOOSE k \in Places(list, p) : \A j \in Places(list, p) : k <= j) = i
  BY <1>2, <1>3
<1>5. Without(list, p) = Cut(list, i)
  BY <1>2, <1>4 DEF Without
<1> DEFINE a == SubSeq(list, 1, i - 1)
           b == SubSeq(list, i + 1, Len(list))
           c == Cut(list, i)
<1>6. /\ a \in Seq(S) /\ Len(a) = i - 1
      /\ \A j \in 1..(i - 1) : a[j] = list[j]
  <2>1. \A j \in 1..(i - 1) : list[j] \in S
    BY <1>3
  <2>2. 1 \in Int /\ i - 1 \in Int
    BY <1>3
  <2>3. /\ a \in Seq(S) /\ Len(a) = IF 1 <= i - 1 THEN i - 1 - 1 + 1 ELSE 0
        /\ \A j \in 1..(i - 1 - 1 + 1) : a[j] = list[1 + j - 1]
    BY <2>1, <2>2, SubSeqProperties
  <2> HIDE DEF a
  <2>4. QED
    BY <1>3, <2>3
<1>7. /\ b \in Seq(S) /\ Len(b) = Len(list) - i
      /\ \A j \in 1..(Len(list) - i) : b[j] = list[i + j]
  <2>1. \A j \in (i + 1)..Len(list) : list[j] \in S
    BY <1>3
  <2>2. i + 1 \in Int /\ Len(list) \in Int
    BY <1>3
  <2>3. /\ b \in Seq(S) /\ Len(b) = IF i + 1 <= Len(list) THEN Len(list) - (i + 1) + 1 ELSE 0
        /\ \A j \in 1..(Len(list) - (i + 1) + 1) : b[j] = list[i + 1 + j - 1]
    BY <2>1, <2>2, SubSeqProperties
  <2> HIDE DEF b
  <2>4. Len(b) = Len(list) - i
    BY <1>3, <2>3
  <2>5. ASSUME NEW j \in 1..(Len(list) - i) PROVE b[j] = list[i + j]
    <3>1. i + 1 + j - 1 = i + j /\ j \in 1..(Len(list) - (i + 1) + 1)
      BY <1>3
    <3>2. QED
      BY <2>3, <3>1
  <2>6. QED
    BY <2>3, <2>4, <2>5
<1>8. c = a \o b
  BY DEF Cut
<1> HIDE DEF a, b, c
<1>9. /\ c \in Seq(S) /\ Len(c) = Len(list) - 1 /\ DOMAIN c = 1..(Len(list) - 1)
      /\ \A j \in 1..(i - 1) : c[j] = list[j]
      /\ \A j \in i..(Len(list) - 1) : c[j] = list[j + 1]
  <2>1. /\ c \in Seq(S) /\ Len(c) = Len(a) + Len(b)
        /\ \A j \in 1..(Len(a) + Len(b)) : c[j] = IF j <= Len(a) THEN a[j] ELSE b[j - Len(a)]
    BY <1>6, <1>7, <1>8, ConcatProperties
  <2>2. Len(c) = Len(list) - 1 /\ DOMAIN c = 1..(Len(list) - 1)
    BY <1>3, <1>6, <1>7, <2>1
  <2>3. \A j \in 1..(i - 1) : c[j] = list[j]
    BY <1>3, <1>6, <1>7, <2>1
  <2>4. ASSUME NEW j \in i..(Len(list) - 1) PROVE c[j] = list[j + 1]
    <3>1. /\ j \in 1..(Len(a) + Len(b)) /\ ~(j <= Len(a)) /\ j - Len(a) = j - (i - 1)
          /\ j - (i - 1) \in 1..(Len(list) - i) /\ i + (j - (i - 1)) = j + 1
      BY <1>3, <1>6, <1>7
    <3>2. c[j] = b[j - (i - 1)]
      BY <2>1, <3>1
    <3>3. QED
      BY <1>7, <3>1, <3>2
  <2>5. QED
    BY <2>1, <2>2, <2>3, <2>4
<1> DEFINE back(j) == IF j < i THEN j ELSE j + 1
<1>10. \A j \in DOMAIN c : /\ back(j) \in DOMAIN list /\ back(j) # i /\ c[j] = list[back(j)]
  BY <1>3, <1>9
<1>11. \A j, k \in DOMAIN c : back(j) = back(k) => j = k
  BY <1>3, <1>9
<1>12. \A k \in DOMAIN list : k # i => \E j \in DOMAIN c : back(j) = k
  <2> SUFFICES ASSUME NEW k \in DOMAIN list, k # i PROVE \E j \in DOMAIN c : back(j) = k
    OBVIOUS
  <2>1. CASE k < i
    BY <1>3, <1>9, <2>1
  <2>2. CASE k > i
    <3>1. k - 1 \in DOMAIN c /\ back(k - 1) = k
      BY <1>3, <1>9, <2>2
    <3>2. QED
      BY <3>1
  <2>3. QED
    BY <1>3, <2>1, <2>2
<1> HIDE DEF back
<1>13. NoRepeat(c)
  BY <1>10, <1>11 DEF NoRepeat
<1>14. ASSUME NEW q PROVE Within(q, c) <=> Within(q, list) /\ q # p
  BY <1>1, <1>10, <1>12 DEF Within, NoRepeat
<1>15. Without(list, p) = c
  BY <1>5 DEF c
<1>16. QED
  BY <1>9, <1>13, <1>14, <1>15

\* A stream that is on one of two lists is on both together.
LEMMA WithinConcat ==
  ASSUME NEW S, NEW a \in Seq(S), NEW b \in Seq(S)
  PROVE  /\ a \o b \in Seq(S)
         /\ \A q : Within(q, a \o b) <=> Within(q, a) \/ Within(q, b)
         /\ NoRepeat(a) /\ NoRepeat(b) /\ (\A q : ~(Within(q, a) /\ Within(q, b))) => NoRepeat(a \o b)
<1> DEFINE c == a \o b
<1>1. /\ c \in Seq(S) /\ Len(c) = Len(a) + Len(b) /\ Len(a) \in Nat /\ Len(b) \in Nat
      /\ \A j \in 1..(Len(a) + Len(b)) : c[j] = IF j <= Len(a) THEN a[j] ELSE b[j - Len(a)]
  BY ConcatProperties
<1> HIDE DEF c
<1>2. DOMAIN c = 1..(Len(a) + Len(b)) /\ DOMAIN a = 1..Len(a) /\ DOMAIN b = 1..Len(b)
  BY <1>1
<1>3. /\ \A j \in DOMAIN a : j \in DOMAIN c /\ c[j] = a[j]
      /\ \A j \in DOMAIN b : Len(a) + j \in DOMAIN c /\ c[Len(a) + j] = b[j]
      /\ \A j \in DOMAIN c : \/ j \in DOMAIN a /\ c[j] = a[j]
                             \/ j - Len(a) \in DOMAIN b /\ c[j] = b[j - Len(a)] /\ j \notin DOMAIN a
  BY <1>1, <1>2
<1>4. \A q : Within(q, c) <=> Within(q, a) \/ Within(q, b)
  BY <1>3 DEF Within
<1>5. ASSUME NoRepeat(a), NoRepeat(b), \A q : ~(Within(q, a) /\ Within(q, b)),
             NEW i \in DOMAIN c, NEW j \in DOMAIN c, c[i] = c[j]
      PROVE  i = j
  <2>1. CASE i \in DOMAIN a /\ j \in DOMAIN a
    BY <1>3, <1>5, <2>1 DEF NoRepeat
  <2>2. CASE i \notin DOMAIN a /\ j \notin DOMAIN a
    <3>1. i - Len(a) \in DOMAIN b /\ j - Len(a) \in DOMAIN b /\ b[i - Len(a)] = b[j - Len(a)]
      BY <1>3, <1>5, <2>2
    <3>2. i - Len(a) = j - Len(a)
      BY <1>5, <3>1 DEF NoRepeat
    <3>3. QED
      BY <1>1, <1>2, <3>2
  <2>3. CASE i \in DOMAIN a /\ j \notin DOMAIN a
    BY <1>3, <1>5, <2>3 DEF Within
  <2>4. CASE i \notin DOMAIN a /\ j \in DOMAIN a
    BY <1>3, <1>5, <2>4 DEF Within
  <2>5. QED
    BY <2>1, <2>2, <2>3, <2>4
<1>6. QED
  BY <1>1, <1>4, <1>5 DEF NoRepeat, c

\* The loops of Publish come to a channel once if its stream is on their list.
LEMMA OfferedOnce ==
  ASSUME NEW list, NoRepeat(list), NEW q
  PROVE  Offered(q, list) = IF Within(q, list) THEN 1 ELSE 0
<1>1. CASE Within(q, list)
  <2>1. PICK i \in DOMAIN list : list[i] = q
    BY <1>1 DEF Within
  <2>2. Places(list, q) = {i}
    BY <2>1 DEF Places, NoRepeat
  <2>3. Cardinality({i}) = 1
    BY FS_Singleton
  <2>4. QED
    BY <1>1, <2>2, <2>3 DEF Offered
<1>2. CASE ~Within(q, list)
  <2>1. Places(list, q) = {}
    BY <1>2 DEF Within, Places
  <2>2. QED
    BY <1>2, <2>1, FS_EmptySet DEF Offered
<1>3. QED
  BY <1>1, <1>2

\* One send to a channel with room appends the event; a full channel stays as it is.
LEMMA PushOnce ==
  ASSUME NEW ch \in Seq(Nat), Len(ch) <= BufCap, NEW n \in Nat
  PROVE  /\ Push(ch, n, 0) = ch
         /\ Len(ch) < BufCap => Push(ch, n, 1) = Append(ch, n)
         /\ Len(ch) >= BufCap => Push(ch, n, 1) = ch
<1>1. BufCap \in Nat /\ Len(ch) \in Nat
  <2>1. BufCap \in Nat \ {0}
    BY HubAssumption
  <2>2. QED
    BY <2>1
<1>2. Push(ch, n, 0) = [i \in 1..Len(ch) |-> ch[i]]
  BY <1>1 DEF Push
<1>3. Len(ch) >= BufCap => Push(ch, n, 1) = [i \in 1..Len(ch) |-> ch[i]]
  BY <1>1 DEF Push
<1>4. [i \in 1..Len(ch) |-> ch[i]] = ch
  OBVIOUS
<1>5. ASSUME Len(ch) < BufCap PROVE Push(ch, n, 1) = Append(ch, n)
  <2>1. Push(ch, n, 1) = [i \in 1..(Len(ch) + 1) |-> IF i <= Len(ch) THEN ch[i] ELSE n]
    BY <1>1, <1>5 DEF Push
  <2>2. QED
    BY <1>1, <2>1
<1>6. QED
  BY <1>2, <1>3, <1>4, <1>5

\* A new event at the end of a channel keeps the order of publication.
LEMMA InOrderAppend ==
  ASSUME NEW seq \in Seq(Nat), NEW n \in Nat, InOrder(seq, n)
  PROVE  InOrder(seq, n + 1) /\ InOrder(Append(seq, n + 1), n + 1)
<1>1. /\ DOMAIN Append(seq, n + 1) = 1..(Len(seq) + 1) /\ DOMAIN seq = 1..Len(seq) /\ Len(seq) \in Nat
      /\ \A i \in 1..Len(seq) : Append(seq, n + 1)[i] = seq[i]
      /\ Append(seq, n + 1)[Len(seq) + 1] = n + 1
  OBVIOUS
<1>2. QED
  BY <1>1 DEF InOrder

\* The keys under which pages subscribe and events are published.
LEMMA KeysIn ==
  ASSUME NEW p \in Pages, NEW t \in Threads
  PROVE  /\ subKey(PageUser(p), t) \in HubKeys
         /\ PageKey(p) \in HubKeys
         /\ "" \in Threads
<1>1. "" \in Threads /\ Topic \in [Pages -> Threads]
  BY HubAssumption
<1>2. Topic[p] \in Threads
  BY <1>1
<1> DEFINE users == {SubUser(q) : q \in Pages} \cup {PageUser(q) : q \in Pages}
<1>3. PageUser(p) \in users /\ SubUser(p) \in users
  OBVIOUS
<1>4. HubKeys = {subKey(u, s) : u \in users, s \in Threads}
  BY DEF HubKeys
<1> HIDE DEF users
<1>5. \A u \in users, s \in Threads : subKey(u, s) \in HubKeys
  BY <1>4
<1>6. QED
  BY <1>1, <1>2, <1>3, <1>5 DEF PageKey

\* The inductive invariant implies that Publish meets open channels only, each once, and
\* that each stream gets its events in order.
LEMMA HubIndImplies == HubInd => SubscribersOpen /\ EventOrder
<1> SUFFICES ASSUME HubInd PROVE SubscribersOpen /\ EventOrder
  OBVIOUS
<1>1. SubscribersOpen
  <2> SUFFICES ASSUME NEW k \in HubKeys
               PROVE  /\ Listed(k) = {p \in Pages : stream[p] \in {"open", "leaving"} /\ PageKey(p) = k}
                      /\ NoRepeat(subs[k])
    BY DEF SubscribersOpen, NoRepeat
  <2>1. ListOK(k)
    BY DEF HubInd
  <2>2. \A p : p \in Listed(k) <=> Within(p, subs[k])
    BY DEF Listed, Within
  <2>3. QED
    BY <2>1, <2>2 DEF ListOK
<1>2. EventOrder
  <2>1. DOMAIN events = 1..Len(events)
    BY DEF HubInd, HubTypeOK
  <2>2. QED
    BY <2>1 DEF HubInd, InOrder, EventOrder
<1>3. QED
  BY <1>1, <1>2

\* A new stream goes to the end of its list (EventHub.Subscribe).
LEMMA SubscribeInv ==
  ASSUME HubInd, NEW p \in Pages, Subscribe(p)
  PROVE  HubInd'
<1> DEFINE kp == PageKey(p)
<1>1. /\ stream[p] = "new" /\ stream' = [stream EXCEPT ![p] = "open"]
      /\ subs' = [subs EXCEPT ![kp] = Append(subs[kp], p)]
      /\ UNCHANGED <<evCh, hubDown, shown, dropped, events>>
  BY DEF Subscribe
<1>2. kp \in HubKeys
  BY KeysIn, HubAssumption
<1> HIDE DEF kp
<1>3. subs[kp] \in Seq(Pages) /\ subs \in [HubKeys -> Seq(Pages)] /\ stream \in [Pages -> {"new", "open", "leaving", "closed"}]
  BY <1>2 DEF HubInd, HubTypeOK
<1>4. HubTypeOK'
  <2>1. Append(subs[kp], p) \in Seq(Pages)
    BY <1>3
  <2>2. subs' \in [HubKeys -> Seq(Pages)]
    BY <1>1, <1>2, <1>3, <2>1
  <2>3. QED
    BY <1>1, <2>2 DEF HubInd, HubTypeOK
<1>5. ASSUME NEW k \in HubKeys PROVE ListOK(k)'
  <2>1. ListOK(k) /\ ListOK(kp)
    BY <1>2 DEF HubInd
  <2>2. \A q \in Pages : stream'[q] = IF q = p THEN "open" ELSE stream[q]
    BY <1>1, <1>3
  <2>3. \A q : PageKey(q)' = PageKey(q)
    BY DEF PageKey
  <2>4. CASE k # kp
    <3>1. subs'[k] = subs[k]
      BY <1>1, <1>3, <2>4
    <3>2. \A q : Within(q, subs[k])' <=> Within(q, subs[k])
      BY <3>1 DEF Within
    <3>3. PageKey(p) # k
      BY <2>4 DEF kp
    <3>4. QED
      BY <2>1, <2>2, <2>3, <3>1, <3>2, <3>3 DEF ListOK, NoRepeat
  <2>5. CASE k = kp
    <3>1. subs'[k] = Append(subs[k], p)
      BY <1>1, <1>2, <1>3, <2>5
    <3>2. \A q : Within(q, subs'[k]) <=> Within(q, subs[k]) \/ p = q
      BY <1>3, <2>5, <3>1, WithinAppend
    <3>3. ~Within(p, subs[k])
      BY <1>1, <2>1, <2>5 DEF ListOK
    <3>4. NoRepeat(subs'[k])
      <4>1. /\ DOMAIN subs'[k] = 1..(Len(subs[k]) + 1) /\ DOMAIN subs[k] = 1..Len(subs[k])
            /\ Len(subs[k]) \in Nat /\ subs'[k][Len(subs[k]) + 1] = p
            /\ \A i \in 1..Len(subs[k]) : subs'[k][i] = subs[k][i]
        BY <1>3, <2>5, <3>1
      <4>2. \A i \in DOMAIN subs'[k] : i = Len(subs[k]) + 1 \/ i \in DOMAIN subs[k]
        BY <4>1
      <4>3. QED
        BY <2>1, <2>5, <3>3, <4>1, <4>2 DEF ListOK, NoRepeat, Within
    <3>5. \A q : Within(q, subs[k])' = Within(q, subs'[k])
      BY DEF Within
    <3>6. PageKey(p) = k
      BY <2>5 DEF kp
    <3>7. NoRepeat(subs[k])'
      BY <3>4 DEF NoRepeat
    <3>8. \A q : Within(q, subs[k])' <=>
              q \in Pages /\ stream'[q] \in {"open", "leaving"} /\ PageKey(q)' = k
      BY <2>1, <2>2, <2>3, <2>5, <3>2, <3>5, <3>6 DEF ListOK
    <3>9. QED
      BY <3>7, <3>8 DEF ListOK
  <2>6. QED
    BY <2>4, <2>5
<1>6. \A q \in Pages : InOrder(shown[q] \o evCh[q], Len(events))'
  BY <1>1 DEF HubInd, InOrder
<1>7. QED
  BY <1>4, <1>5, <1>6 DEF HubInd

\* A stream that ends leaves its list and no other (EventHub.Unsubscribe).
LEMMA UnsubscribeInv ==
  ASSUME HubInd, NEW p \in Pages, Unsubscribe(p)
  PROVE  HubInd'
<1> DEFINE kp == PageKey(p)
<1>1. /\ stream[p] = "leaving" /\ stream' = [stream EXCEPT ![p] = "closed"]
      /\ subs' = [subs EXCEPT ![kp] = Without(subs[kp], p)]
      /\ UNCHANGED <<evCh, hubDown, shown, dropped, events>>
  BY DEF Unsubscribe
<1>2. kp \in HubKeys
  BY KeysIn, HubAssumption
<1>3. PageKey(p) = kp
  OBVIOUS
<1> HIDE DEF kp
<1>4. subs[kp] \in Seq(Pages) /\ subs \in [HubKeys -> Seq(Pages)] /\ stream \in [Pages -> {"new", "open", "leaving", "closed"}]
  BY <1>2 DEF HubInd, HubTypeOK
<1>5. ListOK(kp)
  BY <1>2 DEF HubInd
<1>6. Within(p, subs[kp]) /\ NoRepeat(subs[kp])
  BY <1>1, <1>3, <1>5 DEF ListOK
<1> DEFINE rest == Without(subs[kp], p)
<1>7. /\ rest \in Seq(Pages) /\ NoRepeat(rest)
      /\ \A q : Within(q, rest) <=> Within(q, subs[kp]) /\ q # p
  BY <1>4, <1>6, WithoutFacts
<1> HIDE DEF rest
<1>8. subs' = [subs EXCEPT ![kp] = rest]
  BY <1>1 DEF rest
<1>9. HubTypeOK'
  <2>1. subs' \in [HubKeys -> Seq(Pages)]
    BY <1>2, <1>4, <1>7, <1>8
  <2>2. QED
    BY <1>1, <2>1 DEF HubInd, HubTypeOK
<1>10. ASSUME NEW k \in HubKeys PROVE ListOK(k)'
  <2>1. ListOK(k)
    BY DEF HubInd
  <2>2. \A q \in Pages : stream'[q] = IF q = p THEN "closed" ELSE stream[q]
    BY <1>1, <1>4
  <2>3. \A q : PageKey(q)' = PageKey(q)
    BY DEF PageKey
  <2>4. \A q : Within(q, subs[k])' <=> Within(q, subs'[k])
    BY DEF Within
  <2>5. CASE k # kp
    <3>1. subs'[k] = subs[k]
      BY <1>4, <1>8, <2>5
    <3>2. NoRepeat(subs[k])'
      BY <2>1, <3>1 DEF ListOK, NoRepeat
    <3>3. \A q : Within(q, subs[k])' <=>
              q \in Pages /\ stream'[q] \in {"open", "leaving"} /\ PageKey(q)' = k
      BY <1>3, <2>1, <2>2, <2>3, <2>4, <2>5, <3>1 DEF ListOK
    <3>4. QED
      BY <3>2, <3>3 DEF ListOK
  <2>6. CASE k = kp
    <3>1. subs'[k] = rest
      BY <1>2, <1>4, <1>8, <2>6
    <3>2. NoRepeat(subs[k])'
      BY <1>7, <3>1 DEF NoRepeat
    <3>3. \A q : Within(q, subs[k])' <=>
              q \in Pages /\ stream'[q] \in {"open", "leaving"} /\ PageKey(q)' = k
      BY <1>7, <2>1, <2>2, <2>3, <2>4, <2>6, <3>1 DEF ListOK
    <3>4. QED
      BY <3>2, <3>3 DEF ListOK
  <2>7. QED
    BY <2>5, <2>6
<1>11. \A q \in Pages : InOrder(shown[q] \o evCh[q], Len(events))'
  BY <1>1 DEF HubInd, InOrder
<1>12. QED
  BY <1>9, <1>10, <1>11 DEF HubInd

\* Writing an event to the client moves it from the channel to what is shown.
LEMMA StreamEventInv ==
  ASSUME HubInd, NEW p \in Pages, StreamEvent(p)
  PROVE  /\ HubInd'
         /\ \A q \in Pages : shown'[q] \o evCh'[q] = shown[q] \o evCh[q]
         /\ UNCHANGED <<stream, subs, dropped, events>>
<1>1. /\ evCh[p] # <<>>
      /\ shown' = [shown EXCEPT ![p] = Append(shown[p], Head(evCh[p]))]
      /\ evCh' = [evCh EXCEPT ![p] = Tail(evCh[p])]
      /\ UNCHANGED <<stream, subs, hubDown, dropped, events>>
  BY DEF StreamEvent
<1>2. /\ shown \in [Pages -> Seq(Nat)] /\ evCh \in [Pages -> Seq(Nat)]
      /\ \A q \in Pages : Len(evCh[q]) <= BufCap
  BY DEF HubInd, HubTypeOK
<1>3. BufCap \in Nat \ {0}
  BY HubAssumption
<1>4. /\ Append(shown[p], Head(evCh[p])) \in Seq(Nat) /\ Tail(evCh[p]) \in Seq(Nat)
      /\ Len(Tail(evCh[p])) <= BufCap
  BY <1>1, <1>2, <1>3
<1>5. shown' \in [Pages -> Seq(Nat)] /\ evCh' \in [Pages -> Seq(Nat)]
  BY <1>1, <1>2, <1>4
<1>6. \A q \in Pages : Len(evCh'[q]) <= BufCap
  BY <1>1, <1>2, <1>4
<1>7. HubTypeOK'
  BY <1>1, <1>5, <1>6 DEF HubInd, HubTypeOK
<1>8. ASSUME NEW q \in Pages PROVE shown'[q] \o evCh'[q] = shown[q] \o evCh[q]
  <2>1. CASE q = p
    <3>1. shown'[q] = Append(shown[p], Head(evCh[p])) /\ evCh'[q] = Tail(evCh[p])
      BY <1>1, <1>2, <2>1
    <3>2. shown[p] \in Seq(Nat) /\ evCh[p] \in Seq(Nat)
      BY <1>2
    <3>3. QED
      BY <1>1, <2>1, <3>1, <3>2, ReadKeepsAll
  <2>2. CASE q # p
    BY <1>1, <1>2, <2>2
  <2>3. QED
    BY <2>1, <2>2
<1>9. ASSUME NEW k \in HubKeys PROVE ListOK(k)'
  <2>1. ListOK(k)
    BY DEF HubInd
  <2>2. QED
    BY <1>1, <2>1 DEF ListOK, NoRepeat, Within, PageKey
<1>10. ASSUME NEW q \in Pages PROVE InOrder(shown[q] \o evCh[q], Len(events))'
  <2>1. InOrder(shown[q] \o evCh[q], Len(events))
    BY DEF HubInd
  <2>2. (shown[q] \o evCh[q])' = shown[q] \o evCh[q] /\ Len(events)' = Len(events)
    BY <1>1, <1>8
  <2> DEFINE s == shown[q] \o evCh[q]
  <2> HIDE DEF s
  <2>3. QED
    BY <2>1, <2>2 DEF InOrder
<1>11. QED
  BY <1>1, <1>7, <1>8, <1>9, <1>10 DEF HubInd

\* Keys are equal when user and thread are.
LEMMA PairEqual ==
  ASSUME NEW a, NEW b, NEW c, NEW d
  PROVE  <<a, b>> = <<c, d>> <=> a = c /\ b = d
OBVIOUS

\* An event put into the channel is the last of those shown and waiting.
LEMMA AppendLast ==
  ASSUME NEW a \in Seq(Nat), NEW b \in Seq(Nat), NEW m \in Nat
  PROVE  a \o Append(b, m) = Append(a \o b, m)
<1> DEFINE x == a \o Append(b, m)
           y == Append(a \o b, m)
<1>1. /\ x \in Seq(Nat) /\ y \in Seq(Nat) /\ Len(x) = Len(a) + Len(b) + 1 /\ Len(y) = Len(x)
      /\ Len(a) \in Nat /\ Len(b) \in Nat
  OBVIOUS
<1>2. ASSUME NEW i \in 1..Len(x) PROVE x[i] = y[i]
  <2>1. CASE i <= Len(a)
    BY <1>1, <2>1
  <2>2. CASE i > Len(a) /\ i <= Len(a) + Len(b)
    BY <1>1, <2>2
  <2>3. CASE i = Len(a) + Len(b) + 1
    BY <1>1, <2>3
  <2>4. QED
    BY <1>1, <2>1, <2>2, <2>3
<1> HIDE DEF x, y
<1>3. x = y
  BY <1>1, <1>2
<1>4. QED
  BY <1>3 DEF x, y

\* The streams an event of user u in thread t is sent to.
Hears(q, u, t) ==
  /\ q \in Pages /\ stream[q] \in {"open", "leaving"}
  /\ SubUser(q) = u /\ Topic[q] \in {"", t}

\* The loops of Publish go over the streams of the user for the thread and for all
\* threads, each once (EventHub.Publish).
LEMMA ReceiversFacts ==
  ASSUME HubInd, NEW p \in Pages, NEW t \in Threads
  PROVE  /\ NoRepeat(Receivers(PageUser(p), t))
         /\ \A q : Within(q, Receivers(PageUser(p), t)) <=> Hears(q, PageUser(p), t)
<1> DEFINE u == PageUser(p)
           kt == subKey(u, t)
           ka == subKey(u, "")
           a == IF t = "" THEN <<>> ELSE subs[kt]
           b == subs[ka]
<1>1. kt \in HubKeys /\ ka \in HubKeys
  BY KeysIn
<1>2. Receivers(u, t) = a \o b
  BY DEF Receivers
<1>3. \A q : PageKey(q) = <<SubUser(q), Topic[q]>> /\ kt = <<u, t>> /\ ka = <<u, "">>
  BY DEF PageKey, subKey
<1>4. ListOK(kt) /\ ListOK(ka) /\ subs[kt] \in Seq(Pages) /\ subs[ka] \in Seq(Pages)
  BY <1>1 DEF HubInd, HubTypeOK
<1> HIDE DEF u, kt, ka
<1>5. \A q : Within(q, b) <=> Hears(q, u, t) /\ Topic[q] = ""
  <2>1. ASSUME NEW q PROVE PageKey(q) = ka <=> SubUser(q) = u /\ Topic[q] = ""
    <3>1. <<SubUser(q), Topic[q]>> = <<u, "">> <=> SubUser(q) = u /\ Topic[q] = ""
      BY PairEqual
    <3>2. PageKey(q) = <<SubUser(q), Topic[q]>> /\ ka = <<u, "">>
      BY <1>3
    <3>3. QED
      BY <3>1, <3>2
  <2>2. \A q : Within(q, b) <=> q \in Pages /\ stream[q] \in {"open", "leaving"} /\ PageKey(q) = ka
    BY <1>4 DEF ListOK
  <2> HIDE DEF b
  <2>3. QED
    BY <2>1, <2>2 DEF Hears
<1>6. \A q : Within(q, a) <=> Hears(q, u, t) /\ Topic[q] = t /\ t # ""
  <2>1. \A q : ~Within(q, <<>>)
    BY DEF Within
  <2>2. t # "" => \A q : Within(q, a) <=> Hears(q, u, t) /\ Topic[q] = t
    <3>1. ASSUME NEW q PROVE PageKey(q) = kt <=> SubUser(q) = u /\ Topic[q] = t
      <4>1. <<SubUser(q), Topic[q]>> = <<u, t>> <=> SubUser(q) = u /\ Topic[q] = t
        BY PairEqual
      <4>2. PageKey(q) = <<SubUser(q), Topic[q]>> /\ kt = <<u, t>>
        BY <1>3
      <4>3. QED
        BY <4>1, <4>2
    <3>2. t # "" =>
            \A q : Within(q, a) <=> q \in Pages /\ stream[q] \in {"open", "leaving"} /\ PageKey(q) = kt
      BY <1>4 DEF ListOK
    <3> HIDE DEF a
    <3>3. QED
      BY <3>1, <3>2 DEF Hears
  <2>3. QED
    BY <2>1, <2>2
<1>7. a \in Seq(Pages) /\ b \in Seq(Pages) /\ NoRepeat(a) /\ NoRepeat(b)
  <2>1. <<>> \in Seq(Pages) /\ NoRepeat(<<>>)
    BY DEF NoRepeat
  <2>2. QED
    BY <1>4, <2>1 DEF ListOK
<1> HIDE DEF a, b
<1>8. \A q : ~(Within(q, a) /\ Within(q, b))
  BY <1>5, <1>6
<1>9. NoRepeat(a \o b) /\ \A q : Within(q, a \o b) <=> Within(q, a) \/ Within(q, b)
  BY <1>7, <1>8, WithinConcat
<1>10. \A q : Hears(q, u, t) => Topic[q] = "" \/ (Topic[q] = t /\ t # "")
  BY DEF Hears
<1>11. \A q : Within(q, a \o b) <=> Hears(q, u, t)
  BY <1>5, <1>6, <1>9, <1>10
<1>12. QED
  BY <1>2, <1>9, <1>11 DEF u

\* What Publish does to one stream: the event is appended if there is room, and noted as
\* dropped if not; a stream of another user or thread is not touched.
LEMMA PublishOne ==
  ASSUME HubInd, NEW p \in Pages, NEW t \in Threads, Publish(p, t), NEW q \in Pages
  PROVE  \/ /\ Hears(q, PageUser(p), t)
            /\ Len(evCh[q]) < BufCap
            /\ evCh'[q] = Append(evCh[q], Len(events) + 1)
            /\ dropped'[q] = dropped[q]
         \/ /\ Hears(q, PageUser(p), t)
            /\ evCh'[q] = evCh[q]
            /\ dropped'[q] = dropped[q] \cup {Len(events) + 1}
         \/ /\ ~Hears(q, PageUser(p), t)
            /\ evCh'[q] = evCh[q]
            /\ dropped'[q] = dropped[q]
<1> DEFINE n == Len(events) + 1
           to == Receivers(PageUser(p), t)
<1>1. /\ evCh' = [r \in Pages |-> Push(evCh[r], n, Offered(r, to))]
      /\ dropped' = [r \in Pages |->
                       IF /\ Offered(r, to) > 0
                          /\ [s \in Pages |-> Push(evCh[s], n, Offered(s, to))][r] = evCh[r]
                       THEN dropped[r] \cup {n} ELSE dropped[r]]
  BY DEF Publish
<1>2. Offered(q, to) = IF Hears(q, PageUser(p), t) THEN 1 ELSE 0
  BY ReceiversFacts, OfferedOnce
<1>3. evCh[q] \in Seq(Nat) /\ Len(evCh[q]) <= BufCap /\ n \in Nat
  BY DEF HubInd, HubTypeOK
<1>4. BufCap \in Nat \ {0}
  BY HubAssumption
<1> HIDE DEF n, to
<1>5. /\ evCh'[q] = Push(evCh[q], n, Offered(q, to))
      /\ dropped'[q] = IF Offered(q, to) > 0 /\ Push(evCh[q], n, Offered(q, to)) = evCh[q]
                       THEN dropped[q] \cup {n} ELSE dropped[q]
  BY <1>1
<1>6. /\ Push(evCh[q], n, 0) = evCh[q]
      /\ Len(evCh[q]) < BufCap => Push(evCh[q], n, 1) = Append(evCh[q], n)
      /\ Len(evCh[q]) >= BufCap => Push(evCh[q], n, 1) = evCh[q]
  BY <1>3, PushOnce
<1>7. Append(evCh[q], n) # evCh[q]
  <2>1. Len(Append(evCh[q], n)) = Len(evCh[q]) + 1 /\ Len(evCh[q]) \in Nat
    BY <1>3
  <2>2. Len(evCh[q]) + 1 # Len(evCh[q])
    BY <2>1
  <2>3. QED
    BY <2>1, <2>2
<1>8. CASE Hears(q, PageUser(p), t) /\ Len(evCh[q]) < BufCap
  <2>1. evCh'[q] = Append(evCh[q], n) /\ dropped'[q] = dropped[q]
    BY <1>2, <1>5, <1>6, <1>7, <1>8
  <2>2. QED
    BY <1>8, <2>1 DEF n
<1>9. CASE Hears(q, PageUser(p), t) /\ Len(evCh[q]) >= BufCap
  <2>1. evCh'[q] = evCh[q] /\ dropped'[q] = dropped[q] \cup {n}
    BY <1>2, <1>5, <1>6, <1>9
  <2>2. QED
    BY <1>9, <2>1 DEF n
<1>10. CASE ~Hears(q, PageUser(p), t)
  BY <1>2, <1>5, <1>6, <1>10
<1>11. Len(evCh[q]) < BufCap \/ Len(evCh[q]) >= BufCap
  BY <1>3, <1>4
<1>12. QED
  BY <1>8, <1>9, <1>10, <1>11

\* Publish keeps lists, capacities and the order of each stream.
LEMMA PublishInv ==
  ASSUME HubInd, NEW p \in Pages, NEW t \in Threads, Publish(p, t)
  PROVE  HubInd'
<1> DEFINE n == Len(events) + 1
<1>1. /\ events' = Append(events, Audience(p, t))
      /\ UNCHANGED <<stream, subs, hubDown, shown>>
      /\ DOMAIN evCh' = Pages /\ DOMAIN dropped' = Pages
      /\ evCh' = [q \in Pages |-> evCh'[q]] /\ dropped' = [q \in Pages |-> dropped'[q]]
  BY DEF Publish
<1>2. events \in Seq(SUBSET Pages) /\ Audience(p, t) \in SUBSET Pages
  BY DEF HubInd, HubTypeOK, Audience
<1>3. events' \in Seq(SUBSET Pages) /\ Len(events') = n /\ n \in Nat /\ Len(events) \in Nat
  BY <1>1, <1>2
<1>4. BufCap \in Nat \ {0}
  BY HubAssumption
<1>5. ASSUME NEW q \in Pages
      PROVE  /\ evCh[q] \in Seq(Nat) /\ shown[q] \in Seq(Nat) /\ evCh'[q] \in Seq(Nat)
             /\ Len(evCh'[q]) <= BufCap /\ dropped'[q] \in SUBSET Nat
             /\ shown'[q] = shown[q]
             /\ evCh'[q] = evCh[q] \/ evCh'[q] = Append(evCh[q], n)
  <2>1. /\ evCh[q] \in Seq(Nat) /\ Len(evCh[q]) <= BufCap /\ dropped[q] \in SUBSET Nat
        /\ shown[q] \in Seq(Nat)
    BY DEF HubInd, HubTypeOK
  <2>2. evCh'[q] = evCh[q] \/ (Len(evCh[q]) < BufCap /\ evCh'[q] = Append(evCh[q], n))
    BY PublishOne
  <2>3. dropped'[q] = dropped[q] \/ dropped'[q] = dropped[q] \cup {n}
    BY PublishOne
  <2> HIDE DEF n
  <2>4. evCh'[q] \in Seq(Nat) /\ Len(evCh'[q]) <= BufCap
    <3>1. CASE evCh'[q] = evCh[q]
      BY <2>1, <3>1
    <3>2. CASE Len(evCh[q]) < BufCap /\ evCh'[q] = Append(evCh[q], n)
      <4>1. n \in Nat
        BY <1>3
      <4>2. Append(evCh[q], n) \in Seq(Nat) /\ Len(Append(evCh[q], n)) = Len(evCh[q]) + 1
        BY <2>1, <4>1
      <4>3. Len(evCh[q]) \in Nat
        BY <2>1
      <4>4. QED
        BY <1>4, <3>2, <4>2, <4>3
    <3>3. QED
      BY <2>2, <3>1, <3>2
  <2>5. QED
    BY <1>1, <1>3, <2>1, <2>2, <2>3, <2>4
<1>6. HubTypeOK'
  <2>1. evCh' \in [Pages -> Seq(Nat)] /\ \A q \in Pages : Len(evCh'[q]) <= BufCap
    BY <1>1, <1>5
  <2>2. dropped' \in [Pages -> SUBSET Nat]
    BY <1>1, <1>5
  <2>3. QED
    BY <1>1, <1>3, <2>1, <2>2 DEF HubInd, HubTypeOK
<1>7. ASSUME NEW k \in HubKeys PROVE ListOK(k)'
  <2>1. ListOK(k)
    BY DEF HubInd
  <2>2. QED
    BY <1>1, <2>1 DEF ListOK, NoRepeat, Within, PageKey
<1>8. ASSUME NEW q \in Pages PROVE InOrder(shown[q] \o evCh[q], Len(events))'
  <2> DEFINE s == shown[q] \o evCh[q]
  <2>1. s \in Seq(Nat)
    BY <1>5
  <2>2. s' = s \/ s' = Append(s, n)
    <3>1. CASE evCh'[q] = evCh[q]
      BY <1>5, <3>1
    <3>2. CASE evCh'[q] = Append(evCh[q], n)
      <4> HIDE DEF n
      <4>1. n \in Nat
        BY <1>3
      <4>2. s' = shown[q] \o Append(evCh[q], n)
        BY <1>5, <3>2
      <4>3. shown[q] \o Append(evCh[q], n) = Append(shown[q] \o evCh[q], n)
        <5>1. shown[q] \in Seq(Nat) /\ evCh[q] \in Seq(Nat)
          BY <1>5
        <5>2. \A x, y \in Seq(Nat), m \in Nat : x \o Append(y, m) = Append(x \o y, m)
          BY AppendLast
        <5>3. QED
          BY <4>1, <5>1, <5>2, Zenon
      <4>4. QED
        BY <4>2, <4>3
    <3>3. QED
      BY <1>5, <3>1, <3>2
  <2>3. InOrder(s, Len(events))
    BY DEF HubInd
  <2> HIDE DEF s
  <2>4. InOrder(s, n) /\ InOrder(Append(s, n), n)
    BY <1>3, <2>1, <2>3, InOrderAppend
  <2>5. InOrder(s', n)
    BY <2>2, <2>4
  <2>6. InOrder(s', Len(events'))
    BY <1>3, <2>5
  <2>7. QED
    BY <2>6 DEF s, InOrder
<1>9. QED
  BY <1>6, <1>7, <1>8 DEF HubInd

\* The rest of the hub leaves lists, channels and events alone.
LEMMA HubRestInv ==
  ASSUME HubInd, (\E p \in Pages : StreamEnd(p)) \/ HubShutdown \/ UNCHANGED hubVars
  PROVE  /\ HubInd'
         /\ UNCHANGED <<shown, evCh, dropped, events>>
<1>1. /\ UNCHANGED <<subs, evCh, shown, dropped, events>> /\ hubDown' \in BOOLEAN
      /\ \/ stream' = stream
         \/ \E p \in Pages : stream[p] = "open" /\ stream' = [stream EXCEPT ![p] = "leaving"]
  BY DEF StreamEnd, HubShutdown, hubVars, HubInd, HubTypeOK
<1>2. HubTypeOK'
  BY <1>1 DEF HubInd, HubTypeOK
<1>3. \A q \in Pages : stream'[q] \in {"open", "leaving"} <=> stream[q] \in {"open", "leaving"}
  BY <1>1 DEF HubInd, HubTypeOK
<1>4. ASSUME NEW k \in HubKeys PROVE ListOK(k)'
  <2>1. ListOK(k)
    BY DEF HubInd
  <2>2. NoRepeat(subs[k])' /\ \A q : (Within(q, subs[k])' <=> Within(q, subs[k])) /\ PageKey(q)' = PageKey(q)
    BY <1>1, <2>1 DEF ListOK, NoRepeat, Within, PageKey
  <2>3. QED
    BY <1>3, <2>1, <2>2 DEF ListOK
<1>5. \A q \in Pages : InOrder(shown[q] \o evCh[q], Len(events))'
  BY <1>1 DEF HubInd, InOrder
<1>6. QED
  BY <1>1, <1>2, <1>4, <1>5 DEF HubInd

\* The hub as a whole.
LEMMA HubIndKept == HubSpec => []HubInd
<1>1. HubInit => HubInd
  <2> SUFFICES ASSUME HubInit PROVE HubInd
    OBVIOUS
  <2>1. /\ <<>> \in Seq(Pages) /\ <<>> \in Seq(Nat) /\ Len(<<>>) = 0
        /\ <<>> \in Seq(SUBSET Pages)
    OBVIOUS
  <2>2. BufCap \in Nat \ {0}
    BY HubAssumption
  <2>3. HubTypeOK
    <3>1. subs \in [HubKeys -> Seq(Pages)]
      BY <2>1 DEF HubInit
    <3>2. evCh \in [Pages -> Seq(Nat)] /\ shown \in [Pages -> Seq(Nat)]
      BY <2>1 DEF HubInit
    <3>3. \A p \in Pages : Len(evCh[p]) <= BufCap
      BY <2>1, <2>2 DEF HubInit
    <3>4. events \in Seq(SUBSET Pages) /\ dropped \in [Pages -> SUBSET Nat]
      BY <2>1 DEF HubInit
    <3>5. QED
      BY <3>1, <3>2, <3>3, <3>4 DEF HubInit, HubTypeOK
  <2>4. ASSUME NEW k \in HubKeys PROVE ListOK(k)
    <3>1. subs[k] = <<>> /\ \A p \in Pages : stream[p] = "new"
      BY DEF HubInit
    <3>2. NoRepeat(<<>>) /\ \A p : ~Within(p, <<>>)
      BY DEF NoRepeat, Within
    <3>3. QED
      BY <3>1, <3>2 DEF ListOK
  <2>5. ASSUME NEW p \in Pages PROVE InOrder(shown[p] \o evCh[p], Len(events))
    <3>1. shown[p] = <<>> /\ evCh[p] = <<>>
      BY DEF HubInit
    <3>2. \A i \in DOMAIN (<<>> \o <<>>) : FALSE
      OBVIOUS
    <3>3. QED
      BY <3>1, <3>2 DEF InOrder
  <2>6. QED
    BY <2>3, <2>4, <2>5 DEF HubInd
<1>2. HubInd /\ [HubNext]_hubVars => HubInd'
  BY SubscribeInv, UnsubscribeInv, StreamEventInv, PublishInv, HubRestInv DEF HubNext
<1>3. QED
  BY <1>1, <1>2, PTL DEF HubSpec

\* A caller who shows the key is one user to every endpoint.
LEMMA KeyHolder == KeyHolderIsOneUser
<1>1. Auth \in {"none", "apikey"} /\ Owner \notin {"", Unauthorised}
  BY IdentityAssumption
<1>2. Authenticate("valid") = IF Auth = "none" THEN "anonymous" ELSE Owner
  BY <1>1 DEF Authenticate
<1>3. Authenticate("valid") # "" /\ Authenticate("valid") # Unauthorised
  BY <1>1, <1>2 DEF Unauthorised
<1>4. QED
  BY <1>3 DEF KeyHolderIsOneUser, ChatUser, StreamUser, GateUser, HistoryUser, SocketUser,
              OrAnonymous, authenticatedUserID

\* For any pages, credentials, threads and channel capacity: Publish meets open channels
\* only, each stream once, and a stream shows published events in their order (events.go).
THEOREM HubCorrect == HubSpec => []HubInv
<1>1. HubInd => HubInv
  BY HubIndImplies, KeyHolder DEF HubInd, HubInv
<1>2. QED
  BY <1>1, HubIndKept, PTL

\* When the chat endpoint and the stream endpoint take a page for the same user: with a
\* key configured, if it shows no key or the right one; without, if it shows some key or
\* makes no claim.  The two endpoints look at key and claim in a different order
\* (handleChat, handleChatStream).
OneName(p) ==
  \/ Auth = "apikey" /\ Creds[p].key \in {"", "valid"}
  \/ Auth = "none" /\ (Creds[p].key # "" \/ Creds[p].claim \in {"", "anonymous"})

\* Such a page subscribes to the events of the user it chats as.
LEMMA OneNameOneUser ==
  ASSUME NEW p \in Pages, OneName(p)
  PROVE  SubUser(p) = PageUser(p)
<1> DEFINE key == Creds[p].key
           claim == Creds[p].claim
<1>1. Auth \in {"none", "apikey"} /\ Owner # "" /\ Owner # Unauthorised
  BY IdentityAssumption
<1>2. SubUser(p) = StreamUser(key, claim) /\ PageUser(p) = ChatUser(key, claim)
  BY DEF SubUser, PageUser
<1>3. OneName(p) => \/ Auth = "apikey" /\ key = ""
                    \/ Auth = "apikey" /\ key = "valid"
                    \/ Auth = "none" /\ (key # "" \/ claim = "" \/ claim = "anonymous")
  BY DEF OneName
<1> HIDE DEF key, claim
<1>4. CASE Auth = "apikey" /\ key = ""
  <2>1. Authenticate(key) = Unauthorised
    BY <1>4 DEF Authenticate
  <2>2. QED
    BY <1>2, <1>4, <2>1 DEF StreamUser, ChatUser, authenticatedUserID
<1>5. CASE Auth = "apikey" /\ key = "valid"
  <2>1. Authenticate(key) = Owner
    BY <1>5 DEF Authenticate
  <2>2. QED
    BY <1>1, <1>2, <1>5, <2>1 DEF StreamUser, ChatUser, authenticatedUserID, OrAnonymous
<1>6. CASE Auth = "none" /\ (key # "" \/ claim = "" \/ claim = "anonymous")
  <2>1. Authenticate(key) = "anonymous" /\ "anonymous" # Unauthorised
    BY <1>6 DEF Authenticate, Unauthorised
  <2>2. authenticatedUserID(key) = "anonymous" /\ "anonymous" # ""
    BY <2>1 DEF authenticatedUserID
  <2>3. StreamUser(key, claim) = "anonymous"
    BY <2>2 DEF StreamUser, OrAnonymous
  <2>4. ChatUser(key, claim) = "anonymous"
    <3>1. CASE key # ""
      BY <2>1, <3>1 DEF ChatUser
    <3>2. CASE key = "" /\ (claim = "" \/ claim = "anonymous")
      BY <2>2, <3>2 DEF ChatUser, OrAnonymous
    <3>3. QED
      BY <1>6, <3>1, <3>2
  <2>5. QED
    BY <1>2, <2>3, <2>4
<1>7. QED
  BY <1>3, <1>4, <1>5, <1>6

\* StreamFollowsChat for one page and one event number.
Follows(p, n) ==
  Within(n, shown[p] \o evCh[p]) \/ n \in dropped[p] <=> n \in DOMAIN events /\ p \in events[n]

\* If Publish names the user of every page as its stream does, the new event is offered to
\* exactly the streams that ought to get it.
LEMMA PublishFollows ==
  ASSUME HubInd, \A q \in Pages : SubUser(q) = PageUser(q),
         NEW p \in Pages, NEW t \in Threads, Publish(p, t),
         NEW q \in Pages, NEW m, Follows(q, m)
  PROVE  Follows(q, m)'
<1> DEFINE n == Len(events) + 1
           s == shown[q] \o evCh[q]
<1>1. /\ events' = Append(events, Audience(p, t)) /\ shown' = shown
      /\ events \in Seq(SUBSET Pages) /\ Audience(p, t) \in SUBSET Pages
  BY DEF Publish, HubInd, HubTypeOK, Audience
<1>2. /\ DOMAIN events = 1..Len(events) /\ DOMAIN events' = 1..n /\ Len(events) \in Nat
      /\ events'[n] = Audience(p, t) /\ \A i \in DOMAIN events : events'[i] = events[i]
  BY <1>1
<1>3. q \in Audience(p, t) <=> Hears(q, PageUser(p), t)
  BY DEF Audience, Hears
<1>4. shown[q] \in Seq(Nat) /\ evCh[q] \in Seq(Nat) /\ n \in Nat /\ s \in Seq(Nat)
  BY <1>2 DEF HubInd, HubTypeOK
<1>5. \/ Hears(q, PageUser(p), t) /\ s' = Append(s, n) /\ dropped'[q] = dropped[q]
      \/ Hears(q, PageUser(p), t) /\ s' = s /\ dropped'[q] = dropped[q] \cup {n}
      \/ ~Hears(q, PageUser(p), t) /\ s' = s /\ dropped'[q] = dropped[q]
  <2>1. CASE evCh'[q] = evCh[q]
    <3>1. s' = s
      BY <1>1, <2>1
    <3>2. evCh[q] # Append(evCh[q], n)
      <4>1. Len(Append(evCh[q], n)) = Len(evCh[q]) + 1 /\ Len(evCh[q]) \in Nat
        BY <1>4
      <4>2. Len(evCh[q]) + 1 # Len(evCh[q])
        BY <4>1
      <4>3. QED
        BY <4>1, <4>2
    <3>3. QED
      BY <2>1, <3>1, <3>2, PublishOne
  <2>2. CASE evCh'[q] = Append(evCh[q], n) /\ evCh'[q] # evCh[q]
    <3>1. s' = shown[q] \o Append(evCh[q], n)
      BY <1>1, <2>2
    <3> HIDE DEF n
    <3>2. s' = Append(s, n)
      BY <1>4, <3>1, AppendLast
    <3>3. Hears(q, PageUser(p), t) /\ dropped'[q] = dropped[q]
      BY <2>2, PublishOne DEF n
    <3>4. QED
      BY <3>2, <3>3
  <2>3. QED
    BY <2>1, <2>2, PublishOne
<1>6. Follows(q, m) <=> (Within(m, s) \/ m \in dropped[q] <=> m \in DOMAIN events /\ q \in events[m])
  BY DEF Follows
<1>7. Follows(q, m)' <=> (Within(m, s') \/ m \in dropped'[q] <=> m \in DOMAIN events' /\ q \in events'[m])
  BY DEF Follows, Within
<1> HIDE DEF n, s
<1>8. m \in DOMAIN events' <=> m \in DOMAIN events \/ m = n
  BY <1>2 DEF n
<1>9. n \notin DOMAIN events
  BY <1>2 DEF n
<1>10. Within(m, Append(s, n)) <=> Within(m, s) \/ n = m
  BY <1>4, WithinAppend
<1>11. CASE m = n
  <2>1. ~Within(m, s) /\ m \notin dropped[q]
    BY <1>6, <1>9, <1>11
  <2>2. m \in DOMAIN events' /\ (q \in events'[m] <=> Hears(q, PageUser(p), t))
    BY <1>2, <1>3, <1>8, <1>11
  <2>3. Within(m, s') \/ m \in dropped'[q] <=> Hears(q, PageUser(p), t)
    BY <1>5, <1>10, <1>11, <2>1
  <2>4. QED
    BY <1>7, <2>2, <2>3
<1>12. CASE m # n
  <2>1. (m \in DOMAIN events' /\ q \in events'[m]) <=> (m \in DOMAIN events /\ q \in events[m])
    BY <1>2, <1>8, <1>12
  <2>2. (Within(m, s') \/ m \in dropped'[q]) <=> (Within(m, s) \/ m \in dropped[q])
    BY <1>5, <1>10, <1>12
  <2>3. QED
    BY <1>6, <1>7, <2>1, <2>2
<1>13. QED
  BY <1>11, <1>12

\* Pages that both endpoints take for the same user see on their stream exactly the events
\* of the messages chatted as that user, in the thread they ask for: shown, waiting in the
\* channel, or dropped because it was full.  Where the endpoints name a page differently
\* this fails (handleChat, handleChatStream, Agent's Publish).
THEOREM StreamsFollow ==
  ASSUME \A p \in Pages : OneName(p)
  PROVE  HubSpec => []StreamFollowsChat
<1> DEFINE Following == \A p \in Pages : \A n : Follows(p, n)
<1>1. \A p \in Pages : SubUser(p) = PageUser(p)
  BY OneNameOneUser
<1>2. HubInit => Following
  <2> SUFFICES ASSUME HubInit, NEW p \in Pages, NEW n PROVE Follows(p, n)
    OBVIOUS
  <2>1. shown[p] = <<>> /\ evCh[p] = <<>> /\ dropped[p] = {} /\ events = <<>>
    BY DEF HubInit
  <2>2. (\A i \in DOMAIN (<<>> \o <<>>) : FALSE) /\ DOMAIN <<>> = {}
    OBVIOUS
  <2>3. ~Within(n, <<>> \o <<>>)
    BY <2>2 DEF Within
  <2>4. QED
    BY <2>1, <2>2, <2>3 DEF Follows
<1>3. HubInd /\ Following /\ [HubNext]_hubVars => Following'
  <2> SUFFICES ASSUME HubInd, Following, [HubNext]_hubVars, NEW q \in Pages, NEW n
               PROVE  Follows(q, n)'
    OBVIOUS
  <2>1. Follows(q, n)
    OBVIOUS
  <2>2. ASSUME NEW p \in Pages, NEW t \in Threads, Publish(p, t) PROVE Follows(q, n)'
    BY <1>1, <2>1, <2>2, PublishFollows
  <2>3. CASE /\ shown'[q] \o evCh'[q] = shown[q] \o evCh[q]
             /\ UNCHANGED <<dropped, events>>
    <3> DEFINE s == shown[q] \o evCh[q]
    <3>1. s' = s
      BY <2>3
    <3>2. Follows(q, n)' <=> (Within(n, s') \/ n \in dropped'[q] <=> n \in DOMAIN events' /\ q \in events'[n])
      BY DEF Follows, Within
    <3>3. QED
      BY <2>1, <2>3, <3>1, <3>2 DEF Follows
  <2>4. ASSUME NEW p \in Pages, Subscribe(p) \/ Unsubscribe(p) PROVE Follows(q, n)'
    BY <2>3, <2>4 DEF Subscribe, Unsubscribe
  <2>5. ASSUME NEW p \in Pages, StreamEvent(p) PROVE Follows(q, n)'
    BY <2>3, <2>5, StreamEventInv
  <2>6. CASE (\E p \in Pages : StreamEnd(p)) \/ HubShutdown \/ UNCHANGED hubVars
    BY <2>3, <2>6, HubRestInv
  <2>7. QED
    BY <2>2, <2>4, <2>5, <2>6 DEF HubNext
<1>4. Following => StreamFollowsChat
  <2> SUFFICES ASSUME Following, NEW p \in Pages
               PROVE  Reached(p) = {n \in DOMAIN events : p \in events[n]}
    BY DEF StreamFollowsChat
  <2>1. \A n : n \in Reached(p) <=> Within(n, shown[p] \o evCh[p]) \/ n \in dropped[p]
    BY DEF Reached, Within
  <2>2. \A n : Follows(p, n)
    OBVIOUS
  <2>3. QED
    BY <2>1, <2>2 DEF Follows
<1> HIDE DEF Following
<1>5. QED
  BY <1>2, <1>3, <1>4, HubIndKept, PTL DEF HubSpec
=============================================================================
