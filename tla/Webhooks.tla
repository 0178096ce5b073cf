------------------------------ MODULE Webhooks ------------------------------
(***************************************************************************)
(* The webhook server, internal/webhooks/webhooks.go: a request puts its   *)
(* message into the bounded msgChan or is refused after two seconds or at  *)
(* shutdown.  A forwarder of the channel manager reads the queue until the *)
(* manager stops.  No response is ever sent back.                          *)
(***************************************************************************)
EXTENDS Naturals, Sequences

CONSTANTS Hooks,    \* webhook requests
          HookCap   \* capacity of msgChan

ASSUME HookAssumption == HookCap \in Nat \ {0}

VARIABLES hook,       \* request -> where its handler is or how it ended
          whDown,     \* Server.shutdown is closed
          whQ,        \* msgChan
          hookReader, \* whether the manager still reads
          hookTaken   \* history: messages it has read

hookVars == <<hook, whDown, whQ, hookReader, hookTaken>>

HookTypeOK ==
  /\ hook \in [Hooks -> {"new", "select", "bad", "accepted", "refused"}]
  /\ whDown \in BOOLEAN
  /\ whQ \in Seq(Hooks)
  /\ Len(whQ) <= HookCap
  /\ hookReader \in BOOLEAN
  /\ hookTaken \in Seq(Hooks)

\* NewServer.
HookInit ==
  /\ hook = [h \in Hooks |-> "new"]
  /\ whDown = FALSE
  /\ whQ = <<>>
  /\ hookReader = TRUE
  /\ hookTaken = <<>>

HookEnds(h, how) == hook' = [hook EXCEPT ![h] = how]

\* Wrong method or malformed body; or the select is reached.
HookArrives(h) ==
  /\ hook[h] = "new"
  /\ HookEnds(h, "bad") \/ HookEnds(h, "select")
  /\ UNCHANGED <<whDown, whQ, hookReader, hookTaken>>

\* Fault: accepted also when the queue is full.
HookAcceptAlways(h) ==
  /\ hook[h] = "select"
  /\ HookEnds(h, "accepted")
  /\ whQ' = IF Len(whQ) < HookCap THEN Append(whQ, h) ELSE whQ
  /\ UNCHANGED <<whDown, hookReader, hookTaken>>

HookAccept(h) ==
  /\ hook[h] = "select"
  /\ Len(whQ) < HookCap
  /\ HookEnds(h, "accepted")
  /\ whQ' = Append(whQ, h)
  /\ UNCHANGED <<whDown, hookReader, hookTaken>>

\* Two seconds have passed, or the server is shut down: 503.
HookRefuse(h) ==
  /\ hook[h] = "select"
  /\ HookEnds(h, "refused")
  /\ UNCHANGED <<whDown, whQ, hookReader, hookTaken>>

whShutdown ==
  /\ ~whDown
  /\ whDown' = TRUE
  /\ UNCHANGED <<hook, whQ, hookReader, hookTaken>>

ForwardHook ==
  /\ hookReader /\ whQ # <<>>
  /\ whQ' = Tail(whQ)
  /\ hookTaken' = Append(hookTaken, Head(whQ))
  /\ UNCHANGED <<hook, whDown, hookReader>>

HookReaderStops ==
  /\ hookReader
  /\ hookReader' = FALSE
  /\ UNCHANGED <<hook, whDown, whQ, hookTaken>>

HookNext ==
  \/ \E h \in Hooks : HookArrives(h) \/ HookAccept(h) \/ HookRefuse(h)
  \/ whShutdown \/ ForwardHook \/ HookReaderStops

\* Handlers are scheduled and timers fire; nobody has to read.
HookFairness == \A h \in Hooks : WF_hookVars(HookAccept(h) \/ HookRefuse(h))

HookSpec == HookInit /\ [][HookNext]_hookVars /\ HookFairness

-----------------------------------------------------------------------------
(* Properties.                                                             *)

\* A webhook that was told "accepted" has its message, once, in the queue or with
\* the agent; one that was refused has it nowhere.
AcceptedOnce ==
  LET sent == hookTaken \o whQ
  IN /\ \A h \in Hooks : hook[h] = "accepted" <=> \E i \in DOMAIN sent : sent[i] = h
     /\ \A i, j \in DOMAIN sent : sent[i] = sent[j] => i = j

\* A webhook request is answered, whether or not anybody reads the queue.
WebhookReturns == \A h \in Hooks : hook[h] = "select" ~> hook[h] \in {"accepted", "refused"}

\* The safety of the webhook channel: bounded queue, and the answer to a webhook
\* tells the truth about its message (webhooks.go).
HookInv ==
  /\ HookTypeOK
  /\ AcceptedOnce
=============================================================================
