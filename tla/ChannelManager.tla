---------------------------- MODULE ChannelManager ----------------------------
(***************************************************************************)
(* The channel manager, internal/channels/manager.go: it merges the        *)
(* message streams of the registered channels into one stream that the     *)
(* agent receives from.  Goroutines: one forwarder per channel, one for    *)
(* injected messages, the merge loop, the agent, and the owner that adds,  *)
(* removes and shuts down.  The Go channels between them are bounded       *)
(* queues: src -> hand (of a forwarder) -> merged -> loopHand -> recvCh.   *)
(*                                                                         *)
(* The injected messages are one more source, with injectCh as its queue.  *)
(* A channel object keeps its messages until a forwarder takes them; two   *)
(* objects may have the same name, as after Remove and Add.                *)
(***************************************************************************)
EXTENDS Naturals, Sequences

CONSTANTS Insts,     \* channel objects
          Name,      \* channel object -> its name
          Closing,   \* objects that close their message stream: the repl
          Handling,  \* objects whose Shutdown waits for their handlers: the
                     \* HTTP gateway
          Writing,   \* objects whose Shutdown waits for writes to their clients:
                     \* the WebSocket channel, a gateway with event streams
          Injector,  \* the source of injected messages
          AddCap, SrcCap, MergedCap, RecvCap,  \* capacities of the queues
          MaxSent,   \* source -> bound on its messages
          None

ASSUME ManagerAssumption ==
  /\ Closing \cup Handling \cup Writing \subseteq Insts
  /\ Injector \notin Insts
  /\ None \notin Insts
  /\ {AddCap, SrcCap, MergedCap, RecvCap} \subseteq Nat \ {0}
  /\ MaxSent \in [Insts \cup {Injector} -> Nat]

Sources == Insts \cup {Injector}
Names == {Name[c] : c \in Insts}

VARIABLES chans,     \* Manager.channels: name -> registered object
          adding,    \* objects Add has registered and not yet announced
          addCh,     \* objects announced to the merge loop
          started,   \* Manager.started
          loop,      \* where the merge loop is
          loopHand,  \* the message it has taken from merged, if any
          active,    \* names that have a forwarder
          fwd,       \* source -> where its forwarder is
          hand,      \* source -> the message its forwarder has taken, if any
          src,       \* source -> messages waiting in it
          closed,    \* sources whose Go channel is closed
          merged,    \* messages on their way to the loop
          recvCh,    \* messages on their way to the agent
          stop,      \* progress of ShutdownAll, or "cancelled" context
          shutting,  \* objects whose Shutdown ShutdownAll has yet to see return
          holding,   \* objects that hold up their Shutdown: a handler has a
                     \* message to send, a client does not read
          crashed,   \* whether a send on a closed channel panicked; what the
                     \* other goroutines do until the process is gone is kept
          sent,      \* history: source -> number of its last message
          got        \* history: source -> messages the agent received

owner == <<chans, adding, started, stop, shutting>>
loopVars == <<loop, loopHand>>
fwdVars == <<active, fwd, hand>>
history == <<crashed, sent, got>>
vars == <<owner, holding, addCh, loopVars, fwdVars, src, closed, merged, recvCh,
          history>>

Message == [ch : Sources, n : Nat]

ManagerTypeOK ==
  /\ chans \in [Names -> Insts \cup {None}]
  /\ adding \subseteq Insts
  /\ addCh \in Seq(Insts)
  /\ started \in BOOLEAN
  /\ loop \in {"off", "starting", "select", "done"}
  /\ loopHand \in Seq(Message)
  /\ active \subseteq Names
  /\ fwd \in [Sources -> {"off", "run", "end"}]
  /\ hand \in [Sources -> Seq(Message)]
  /\ src \in [Sources -> Seq(Message)]
  /\ closed \subseteq Sources
  /\ merged \in Seq(Message)
  /\ recvCh \in Seq(Message)
  /\ stop \in {"no", "cancelled", "closing", "detached", "waiting", "returned"}
  /\ shutting \subseteq Insts
  /\ holding \subseteq Insts
  /\ crashed \in BOOLEAN
  /\ sent \in [Sources -> Nat]
  /\ got \in [Sources -> Seq(Message)]

\* NewManager.
Init ==
  /\ chans = [n \in Names |-> None]
  /\ adding = {}
  /\ addCh = <<>>
  /\ started = FALSE
  /\ loop = "off"
  /\ loopHand = <<>>
  /\ active = {}
  /\ fwd = [c \in Sources |-> "off"]
  /\ hand = [c \in Sources |-> <<>>]
  /\ src = [c \in Sources |-> <<>>]
  /\ closed = {}
  /\ merged = <<>>
  /\ recvCh = <<>>
  /\ stop = "no"
  /\ shutting = {}
  /\ holding = {}
  /\ crashed = FALSE
  /\ sent = [c \in Sources |-> 0]
  /\ got = [c \in Sources |-> <<>>]

\* Fault: stopCh is not looked at.
QuittingOnCancel == stop = "cancelled"

\* stopCh is closed or the context done: every select of the manager may leave.
Quitting == stop # "no"

-----------------------------------------------------------------------------
(* The sources.                                                            *)

\* A request reaches the handler of a gateway, until its server shuts down.
Request(c) ==
  /\ c \in Handling \ holding
  /\ stop \in {"no", "cancelled", "closing"} \/ c \in shutting
  /\ sent[c] < MaxSent[c]
  /\ holding' = holding \cup {c}
  /\ UNCHANGED <<owner, addCh, loopVars, fwdVars, src, closed, merged, recvCh,
                 history>>

\* A client stops reading until its buffers are full, reads again, or is gone.
ClientStalls(c) ==
  /\ c \in Writing
  /\ holding' = IF c \in holding THEN holding \ {c} ELSE holding \cup {c}
  /\ UNCHANGED <<owner, addCh, loopVars, fwdVars, src, closed, merged, recvCh,
                 history>>

\* A channel object has a message, a gateway that of a request; it blocks while
\* its queue is full.
Emit(c) ==
  /\ c \notin closed
  /\ c \in Handling => c \in holding
  /\ sent[c] < MaxSent[c]
  /\ Len(src[c]) < SrcCap
  /\ src' = [src EXCEPT ![c] = Append(@, [ch |-> c, n |-> sent[c] + 1])]
  /\ sent' = [sent EXCEPT ![c] = @ + 1]
  /\ holding' = holding \ (Handling \cap {c})
  /\ UNCHANGED <<owner, addCh, loopVars, fwdVars, closed, merged, recvCh, crashed,
                 got>>

\* The repl's read loop ends: end of input, shutdown, or a typed quit.
EndOfInput(c) ==
  /\ c \in Closing \ closed
  /\ closed' = closed \cup {c}
  /\ UNCHANGED <<owner, holding, addCh, loopVars, fwdVars, src, merged, recvCh,
                 history>>

\* A full queue drops the message; a closed one panics.
Inject ==
  \/ /\ Injector \in closed
     /\ crashed' = TRUE
     /\ UNCHANGED <<owner, holding, addCh, loopVars, fwdVars, src, closed, merged,
                    recvCh, sent, got>>
  \/ /\ Injector \notin closed /\ Len(src[Injector]) = SrcCap
     /\ UNCHANGED vars
  \/ Emit(Injector)

-----------------------------------------------------------------------------
(* The owner.  None of its calls touches the queues of the merge.          *)

Start ==
  /\ ~started
  /\ started' = TRUE
  /\ loop' = "starting"
  /\ UNCHANGED <<chans, adding, stop, shutting, holding, addCh, loopHand, fwdVars,
                 src, closed, merged, recvCh, history>>

\* Add first registers the object, under the lock ...
Add(c) ==
  /\ chans' = [chans EXCEPT ![Name[c]] = c]
  /\ adding' = adding \cup {c}
  /\ UNCHANGED <<started, stop, shutting, holding, addCh, loopVars, fwdVars, src,
                 closed, merged, recvCh, history>>

\* ... then tells the merge loop, if it was started and addCh has room.
Announce(c) ==
  /\ c \in adding
  /\ adding' = adding \ {c}
  /\ addCh' = IF started /\ Len(addCh) < AddCap THEN Append(addCh, c) ELSE addCh
  /\ UNCHANGED <<chans, started, stop, shutting, holding, loopVars, fwdVars, src,
                 closed, merged, recvCh, history>>

\* Remove also shuts the object down, which ends no forwarder by itself.
Remove(n) ==
  /\ chans[n] # None
  /\ chans' = [chans EXCEPT ![n] = None]
  /\ UNCHANGED <<adding, started, stop, shutting, holding, addCh, loopVars, fwdVars,
                 src, closed, merged, recvCh, history>>

\* The manager's context is done.
Cancel ==
  /\ stop = "no"
  /\ stop' = "cancelled"
  /\ UNCHANGED <<chans, adding, started, shutting, holding, addCh, loopVars, fwdVars,
                 src, closed, merged, recvCh, history>>

\* ShutdownAll: close stopCh; empty the map; shut the channels down one by one,
\* each until its Shutdown returns; close injectCh; wait for the merge loop.
ShutdownAll ==
  /\ \/ /\ stop \in {"no", "cancelled"} /\ stop' = "closing"
        /\ UNCHANGED <<chans, shutting, closed>>
     \/ /\ stop = "closing" /\ stop' = "detached"
        /\ shutting' = {chans[n] : n \in Names} \ {None}
        /\ chans' = [n \in Names |-> None]
        /\ UNCHANGED closed
     \/ /\ stop = "detached"
        /\ \E c \in shutting \ holding : shutting' = shutting \ {c}
        /\ UNCHANGED <<chans, stop, closed>>
     \/ /\ stop = "detached" /\ shutting = {} /\ stop' = "waiting"
        /\ closed' = closed \cup {Injector}
        /\ UNCHANGED <<chans, shutting>>
     \/ /\ stop = "waiting" /\ stop' = "returned"
        /\ loop \in {"off", "done"}
        /\ UNCHANGED <<chans, shutting, closed>>
  /\ UNCHANGED <<adding, started, holding, addCh, loopVars, fwdVars, src, merged,
                 recvCh, history>>

\* The context given to ShutdownAll ends: a gateway's Shutdown returns although
\* its handler waits.
ShutdownExpires ==
  /\ stop = "detached"
  /\ \E c \in shutting \cap Handling : shutting' = shutting \ {c}
  /\ UNCHANGED <<chans, adding, started, stop, holding, addCh, loopVars, fwdVars,
                 src, closed, merged, recvCh, history>>

-----------------------------------------------------------------------------
(* The merge loop.                                                         *)

\* The loop starts a forwarder for every channel registered so far.
MergeExisting ==
  LET now == {chans[n] : n \in Names} \ {None} IN
  /\ loop = "starting"
  /\ loop' = "select"
  /\ active' = {Name[c] : c \in now}
  /\ fwd' = [c \in Sources |-> IF c \in now \cup {Injector} THEN "run" ELSE fwd[c]]
  /\ UNCHANGED <<owner, holding, addCh, loopHand, hand, src, closed, merged, recvCh,
                 history>>

LoopTake ==
  /\ loop = "select" /\ loopHand = <<>>
  /\ merged # <<>>
  /\ loopHand' = <<Head(merged)>>
  /\ merged' = Tail(merged)
  /\ UNCHANGED <<owner, holding, addCh, loop, fwdVars, src, closed, recvCh, history>>

LoopPut ==
  /\ loop = "select" /\ loopHand # <<>>
  /\ Len(recvCh) < RecvCap
  /\ recvCh' = recvCh \o loopHand
  /\ loopHand' = <<>>
  /\ UNCHANGED <<owner, holding, addCh, loop, fwdVars, src, closed, merged, history>>

\* Fault: a name that has a forwarder gets another one.
NeverForwarded(c) == FALSE

HasForwarder(c) == Name[c] \in active

\* An announced channel gets a forwarder unless its name already has one.
LoopAdd ==
  /\ loop = "select" /\ loopHand = <<>>
  /\ addCh # <<>>
  /\ LET c == Head(addCh) IN
     IF HasForwarder(c)
     THEN UNCHANGED <<active, fwd>>
     ELSE /\ active' = active \cup {Name[c]}
          /\ fwd' = [fwd EXCEPT ![c] = "run"]
  /\ addCh' = Tail(addCh)
  /\ UNCHANGED <<owner, holding, loopVars, hand, src, closed, merged, recvCh,
                 history>>

\* Leaving closes recvCh and drops the message in hand.
LoopQuit ==
  /\ loop = "select" /\ Quitting
  /\ loop' = "done"
  /\ loopHand' = <<>>
  /\ UNCHANGED <<owner, holding, addCh, fwdVars, src, closed, merged, recvCh,
                 history>>

-----------------------------------------------------------------------------
(* The forwarder of a source.                                              *)

FwdTake(c) ==
  /\ fwd[c] = "run" /\ hand[c] = <<>>
  /\ src[c] # <<>>
  /\ hand' = [hand EXCEPT ![c] = <<Head(src[c])>>]
  /\ src' = [src EXCEPT ![c] = Tail(@)]
  /\ UNCHANGED <<owner, holding, addCh, loopVars, active, fwd, closed, merged,
                 recvCh, history>>

FwdPut(c) ==
  /\ fwd[c] = "run" /\ hand[c] # <<>>
  /\ Len(merged) < MergedCap
  /\ merged' = merged \o hand[c]
  /\ hand' = [hand EXCEPT ![c] = <<>>]
  /\ UNCHANGED <<owner, holding, addCh, loopVars, active, fwd, src, closed, recvCh,
                 history>>

\* Fault: a closed source is left before it is drained.
ClosedOnly(c) == c \in closed

\* A closed Go channel still yields the messages in it.
Drained(c) == c \in closed /\ src[c] = <<>> /\ hand[c] = <<>>

FwdEnd(c) ==
  /\ fwd[c] = "run"
  /\ Quitting \/ Drained(c)
  /\ fwd' = [fwd EXCEPT ![c] = "end"]
  /\ hand' = [hand EXCEPT ![c] = <<>>]
  /\ UNCHANGED <<owner, holding, addCh, loopVars, active, src, closed, merged,
                 recvCh, history>>

\* The deferred call gives the name back.
FwdGone(c) ==
  /\ fwd[c] = "end"
  /\ fwd' = [fwd EXCEPT ![c] = "off"]
  /\ active' = IF c = Injector THEN active ELSE active \ {Name[c]}
  /\ UNCHANGED <<owner, holding, addCh, loopVars, hand, src, closed, merged, recvCh,
                 history>>

-----------------------------------------------------------------------------
(* The agent.                                                              *)

\* Receive does not look whether recvCh is closed: drained and closed it yields
\* an empty message, which belongs to no source, without an error.
Receive ==
  \/ /\ recvCh # <<>>
     /\ got' = [got EXCEPT ![Head(recvCh).ch] = Append(@, Head(recvCh))]
     /\ recvCh' = Tail(recvCh)
     /\ UNCHANGED <<owner, holding, addCh, loopVars, fwdVars, src, closed, merged,
                    crashed, sent>>
  \/ /\ recvCh = <<>> /\ loop = "done"
     /\ UNCHANGED vars

FwdStep(c) == FwdTake(c) \/ FwdPut(c) \/ FwdEnd(c) \/ FwdGone(c)

Next ==
  \/ \E c \in Insts : Emit(c) \/ Add(c) \/ Announce(c)
  \/ \E c \in Insts : Request(c) \/ ClientStalls(c)
  \/ \E c \in Closing : EndOfInput(c)
  \/ Inject
  \/ Start \/ Cancel \/ ShutdownAll \/ ShutdownExpires
  \/ \E n \in Names : Remove(n)
  \/ MergeExisting \/ LoopTake \/ LoopPut \/ LoopAdd \/ LoopQuit
  \/ \E c \in Sources : FwdStep(c)
  \/ Receive

\* Goroutines are scheduled, and a select takes every case that keeps being
\* ready in the end.  The agent comes back for the next message, and a handler
\* with a message sends it once there is room.  A write to a client that reads now
\* and then ends; no client has to read, and no context has to end.
Fairness ==
  /\ WF_vars(MergeExisting)
  /\ SF_vars(LoopTake) /\ WF_vars(LoopPut)
  /\ SF_vars(LoopAdd) /\ SF_vars(LoopQuit)
  /\ \A c \in Sources : SF_vars(FwdPut(c)) /\ WF_vars(FwdStep(c))
  /\ \A c \in Insts : WF_vars(Announce(c))
  /\ \A c \in Handling : WF_vars(Emit(c))
  /\ WF_vars(Receive)
  /\ SF_vars(stop \notin {"no", "cancelled"} /\ ShutdownAll)

Spec == Init /\ [][Next]_vars /\ Fairness

-----------------------------------------------------------------------------
(* Properties.                                                             *)

\* The numbers of the messages of source c in the queue q.
Numbers(q, c) == {q[i].n : i \in {k \in DOMAIN q : q[k].ch = c}}

Sorted(q, c) ==
  \A i, j \in DOMAIN q : i < j /\ q[i].ch = c /\ q[j].ch = c => q[i].n < q[j].n

\* The numbers of source c at each stage of the merge, from the agent back to the
\* source.
Stage(c) ==
  <<Numbers(got[c], c), Numbers(recvCh, c), Numbers(loopHand, c), Numbers(merged, c),
    Numbers(hand[c], c), Numbers(src[c], c)>>

\* No stage holds a message that belongs ahead of one behind it.
InOrder(st) == \A k, l \in 1..6 : k < l => \A m \in st[k], n \in st[l] : m < n

\* As long as the manager runs, the merge loses, duplicates and reorders nothing:
\* what a source has sent is, in this order, received by the agent, in one of
\* the queues, or in the hand of a goroutine, however channels are added,
\* removed, replaced by namesakes or closed meanwhile.  Also while it shuts down
\* nothing is overtaken or received twice.
Conserved ==
  \A c \in Sources :
    LET st == Stage(c)
        held == UNION {st[k] : k \in 1..6}
    IN /\ \A q \in {got[c], recvCh, loopHand, merged, hand[c], src[c]} : Sorted(q, c)
       /\ InOrder(st)
       /\ held \subseteq 1..sent[c]
       /\ ~Quitting => held = 1..sent[c]

\* A name has at most one forwarder, and active holds the names that have one:
\* two namesakes are never merged at once, and no name is blocked for ever.
OneForwarder ==
  /\ \A c, d \in Insts :
       fwd[c] # "off" /\ fwd[d] # "off" /\ Name[c] = Name[d] => c = d
  /\ active = {Name[c] : c \in {d \in Insts : fwd[d] # "off"}}

\* The queues of a source hold its own messages, and a goroutine holds at most one.
OwnMessages ==
  /\ Len(loopHand) <= 1
  /\ \A c \in Sources :
       /\ Len(hand[c]) <= 1
       /\ \A q \in {got[c], hand[c], src[c]} : \A i \in DOMAIN q : q[i].ch = c

\* A channel is registered under its own name, and forwarders are started by the
\* merge loop alone.
Registered ==
  /\ \A n \in Names : chans[n] # None => Name[chans[n]] = n
  /\ ~started => loop = "off"
  /\ loop \in {"off", "starting"} => \A c \in Insts : fwd[c] = "off"

\* The safety of the merge when it is shut down or gets namesakes: one forwarder
\* for a name, and every message under its own source (manager.go: mergeLoop).
ManagerInv ==
  /\ ManagerTypeOK
  /\ OneForwarder
  /\ OwnMessages
  /\ Registered

\* Once the merge loop has a forwarder for a source, everything the source sends
\* reaches the agent, unless the manager quits.
Delivered ==
  \A c \in Insts : \A k \in 1..MaxSent[c] :
    fwd[c] = "run" /\ sent[c] >= k
      ~> Len(got[c]) >= k \/ Quitting

\* A channel whose Shutdown cannot return: a handler waits for room in the queue,
\* or a client does not read.
Stuck(c) == c \in holding /\ (c \in Handling => Len(src[c]) = SrcCap)

\* ShutdownAll returns, whichever goroutine of the manager is blocked on a full
\* queue, unless the Shutdown of a channel waits for ever: for a handler of the
\* gateway blocked on the queue that its forwarder has left (httpgw.go:222), or
\* for the write to a client that no longer reads (manager.go:269-276).
ShutdownReturns ==
  (\A c \in Insts : []<>(c \in shutting => ~Stuck(c))) =>
    (stop = "closing" ~> stop = "returned" \/ crashed)
=============================================================================
