------------------------------ MODULE EventHub ------------------------------
(***************************************************************************)
(* The event streams of the HTTP gateway: internal/channels/httpgw/        *)
(* events.go, handleChatStream, and the events the agent publishes for a   *)
(* chat message.  Each method of the hub holds its lock for its whole      *)
(* body.                                                                   *)
(*                                                                         *)
(* A page is a client that posts chat messages and keeps one event stream  *)
(* open, with the same key and claimed user id for both.  The hub's keys   *)
(* join user and thread with "|"; ids are taken not to contain it, so a    *)
(* key is a pair here.                                                     *)
(***************************************************************************)
EXTENDS Identity, Naturals, FiniteSets, Sequences

CONSTANTS Pages,
          Creds,      \* page -> [key, claim]
          Topic,      \* page -> thread its stream asks for, "" for all
          Threads,    \* threads of events, "" among them
          BufCap,     \* capacity of a subscriber's channel
          MaxEvents   \* bound on the events published

ASSUME HubAssumption ==
  /\ Creds \in [Pages -> [key : Key, claim : STRING]]
  /\ "" \in Threads
  /\ Topic \in [Pages -> Threads]
  /\ BufCap \in Nat \ {0}
  /\ MaxEvents \in Nat

VARIABLES stream,    \* page -> where the handler of its stream is
          subs,      \* EventHub.subs: key -> subscribed streams
          evCh,      \* page -> numbers of the events in its channel
          hubDown,   \* Gateway.shutdown is closed
          shown,     \* page -> numbers of the events written to the client
          dropped,   \* history: page -> events its full channel dropped
          events     \* history: for each event the streams that ought to get it

hubVars == <<stream, subs, evCh, hubDown, shown, dropped, events>>

\* The user under whom a page's messages are processed and its events published,
\* and the user under whom its stream subscribes.
PageUser(p) == ChatUser(Creds[p].key, Creds[p].claim)
SubUser(p) == StreamUser(Creds[p].key, Creds[p].claim)

subKey(user, thread) == <<user, thread>>

HubKeys == {subKey(u, t) : u \in {SubUser(p) : p \in Pages} \cup
                                 {PageUser(p) : p \in Pages}, t \in Threads}
PageKey(p) == subKey(SubUser(p), Topic[p])

HubTypeOK ==
  /\ stream \in [Pages -> {"new", "open", "leaving", "closed"}]
  /\ subs \in [HubKeys -> Seq(Pages)]
  /\ evCh \in [Pages -> Seq(Nat)]
  /\ \A p \in Pages : Len(evCh[p]) <= BufCap
  /\ hubDown \in BOOLEAN
  /\ shown \in [Pages -> Seq(Nat)]
  /\ dropped \in [Pages -> SUBSET Nat]
  /\ events \in Seq(SUBSET Pages)

\* NewEventHub.
HubInit ==
  /\ stream = [p \in Pages |-> "new"]
  /\ subs = [k \in HubKeys |-> <<>>]
  /\ evCh = [p \in Pages |-> <<>>]
  /\ hubDown = FALSE
  /\ shown = [p \in Pages |-> <<>>]
  /\ dropped = [p \in Pages |-> {}]
  /\ events = <<>>

Subscribe(p) ==
  /\ stream[p] = "new"
  /\ stream' = [stream EXCEPT ![p] = "open"]
  /\ subs' = [subs EXCEPT ![PageKey(p)] = Append(@, p)]
  /\ UNCHANGED <<evCh, hubDown, shown, dropped, events>>

\* The handler writes the next event to the client.
StreamEvent(p) ==
  /\ stream[p] = "open"
  /\ evCh[p] # <<>>
  /\ shown' = [shown EXCEPT ![p] = Append(@, Head(evCh[p]))]
  /\ evCh' = [evCh EXCEPT ![p] = Tail(@)]
  /\ UNCHANGED <<stream, subs, hubDown, dropped, events>>

\* The client is gone or the gateway is shut down.
StreamEnd(p) ==
  /\ stream[p] = "open"
  /\ stream' = [stream EXCEPT ![p] = "leaving"]
  /\ UNCHANGED <<subs, evCh, hubDown, shown, dropped, events>>

\* Fault: the channel is closed and stays in the list.
UnsubscribeCloseOnly(p) ==
  /\ stream[p] = "leaving"
  /\ stream' = [stream EXCEPT ![p] = "closed"]
  /\ UNCHANGED <<subs, evCh, hubDown, shown, dropped, events>>

\* The places of p in a list, the list without its i-th member, and without the
\* first place of p.
Places(list, p) == {i \in DOMAIN list : list[i] = p}
Cut(list, i) == SubSeq(list, 1, i - 1) \o SubSeq(list, i + 1, Len(list))
Without(list, p) ==
  IF Places(list, p) = {} THEN list
  ELSE Cut(list, CHOOSE i \in Places(list, p) : \A j \in Places(list, p) : i <= j)

\* The deferred call: take the stream out of its list and close its channel.
Unsubscribe(p) ==
  /\ stream[p] = "leaving"
  /\ stream' = [stream EXCEPT ![p] = "closed"]
  /\ subs' = [subs EXCEPT ![PageKey(p)] = Without(@, p)]
  /\ UNCHANGED <<evCh, hubDown, shown, dropped, events>>

Listed(key) == {subs[key][i] : i \in DOMAIN subs[key]}

\* The streams of the thread, if the event has one, then those for all threads.
Receivers(user, thread) ==
  (IF thread = "" THEN <<>> ELSE subs[subKey(user, thread)]) \o subs[subKey(user, "")]

\* How often the loops come to the channel of q.
Offered(q, to) == Cardinality(Places(to, q))

\* Event n is sent to a channel k times.  The select with a default: a full channel
\* drops the event.
Push(ch, n, k) ==
  [i \in 1..(IF Len(ch) + k <= BufCap THEN Len(ch) + k ELSE BufCap) |->
     IF i <= Len(ch) THEN ch[i] ELSE n]

\* History: the open streams of pages that chat as the user of page p, for the
\* thread or for all.
Audience(p, thread) ==
  {q \in Pages : /\ stream[q] \in {"open", "leaving"}
                 /\ PageUser(q) = PageUser(p)
                 /\ Topic[q] \in {"", thread}}

\* The agent publishes an event while it works on a message of page p.
Publish(p, thread) ==
  LET n == Len(events) + 1
      to == Receivers(PageUser(p), thread)
      after == [q \in Pages |-> Push(evCh[q], n, Offered(q, to))]
  IN /\ PageUser(p) # Unauthorised
     /\ n <= MaxEvents
     /\ evCh' = after
     /\ dropped' = [q \in Pages |-> IF Offered(q, to) > 0 /\ after[q] = evCh[q]
                                    THEN dropped[q] \cup {n} ELSE dropped[q]]
     /\ events' = Append(events, Audience(p, thread))
     /\ UNCHANGED <<stream, subs, hubDown, shown>>

HubShutdown ==
  /\ ~hubDown
  /\ hubDown' = TRUE
  /\ UNCHANGED <<stream, subs, evCh, shown, dropped, events>>

HubNext ==
  \/ \E p \in Pages : Subscribe(p) \/ StreamEvent(p) \/ StreamEnd(p) \/ Unsubscribe(p)
  \/ \E p \in Pages, t \in Threads : Publish(p, t)
  \/ HubShutdown

\* A handler's select takes a shutdown that stays signalled, and its deferred
\* call runs.  No client has to leave.
HubFairness ==
  \A p \in Pages : SF_hubVars(hubDown /\ StreamEnd(p)) /\ WF_hubVars(Unsubscribe(p))

HubSpec == HubInit /\ [][HubNext]_hubVars /\ HubFairness

-----------------------------------------------------------------------------
(* Properties.                                                             *)

\* Publish never meets a closed channel: the lists hold exactly the streams
\* whose channel is open, each once and under its own key.
SubscribersOpen ==
  \A k \in HubKeys :
    /\ Listed(k) = {p \in Pages : stream[p] \in {"open", "leaving"} /\ PageKey(p) = k}
    /\ \A i, j \in DOMAIN subs[k] : subs[k][i] = subs[k][j] => i = j

\* A stream shows published events in the order of their publication, none twice.
EventOrder ==
  \A p \in Pages :
    LET sent == shown[p] \o evCh[p]
    IN /\ \A i \in DOMAIN sent : sent[i] \in DOMAIN events
       /\ \A i, j \in DOMAIN sent : i < j => sent[i] < sent[j]

\* The events that have reached the channel of p's stream, read or not, or were
\* dropped because the channel was full.
Reached(p) ==
  {(shown[p] \o evCh[p])[i] : i \in DOMAIN (shown[p] \o evCh[p])} \cup dropped[p]

\* An open stream is offered the events of the messages its own user chats with,
\* of the thread it asks for, and no other: what happens to a message shows on
\* the stream of the page that sent it.
StreamFollowsChat ==
  \A p \in Pages :
    Reached(p) = {n \in DOMAIN events : p \in events[n]}

\* A shutdown ends every stream.
StreamsEnd ==
  \A p \in Pages : hubDown /\ stream[p] # "new" ~> stream[p] = "closed"

\* The safety of the event streams: Publish and the handlers meet on open
\* channels only, in order, for one user per key (events.go).
HubInv ==
  /\ HubTypeOK
  /\ KeyHolderIsOneUser
  /\ SubscribersOpen
  /\ EventOrder
=============================================================================
