---------------------------- MODULE MCManagerLive ----------------------------
(* Model-checking instance of the channel manager for liveness: an HTTP    *)
(* gateway with one request more than its queue holds, and another channel *)
(* that is either a repl or a WebSocket channel beside an injected         *)
(* message.  The bounds keep the three apart: their state spaces add up    *)
(* instead of multiplying.  No bound refuses a step the fairness demands.  *)
EXTENDS ChannelManager, TLC

CONSTANTS gateway, other

Kinds == (gateway :> "httpgw") @@ (other :> "other")
Sends == (gateway :> 2) @@ (other :> 1) @@ (Injector :> 1)

\* The manager knows nothing of a channel, and nothing was heard of it.
Untouched(c) ==
  /\ chans[Name[c]] = None /\ fwd[c] = "off"
  /\ c \notin adding \cup shutting \cup holding \cup closed
  /\ \A i \in DOMAIN addCh : addCh[i] # c
  /\ sent[c] = 0

\* Bound: one channel at a time, and only the WebSocket channel beside an injected
\* message.
OneChannel ==
  /\ Untouched(gateway) \/ Untouched(other)
  /\ sent[Injector] > 0 => Untouched(gateway) /\ sent[other] = 0 /\ other \notin closed

\* Bound: a client stalls when it matters.  A channel that closes its stream or has
\* a message is the repl, which has no such client.
OneKind ==
  other \in holding => /\ other \in shutting
                       /\ sent[other] = 0 /\ other \notin closed

\* Bound: the gateway, and a channel beside an injected message, is added once,
\* before the shutdown, which alone removes it.
AddedOnce ==
  LET named == {n \in Names : chans[n] # chans'[n]} IN
  gateway \in adding' \cup {chans[n] : n \in Names} \/ sent[Injector] > 0 =>
    /\ adding' \subseteq adding \/ (named # {} /\ stop \in {"no", "cancelled"})
    /\ named = {} \/ adding' # adding \/ stop' = "detached"
=============================================================================
