------------------------------ MODULE WebSocket ------------------------------
(***************************************************************************)
(* The websocket channel, internal/channels/websocket/websocket.go.  One   *)
(* handler per connection reads messages and sends them to a bounded       *)
(* msgChan, without a way out of a send that blocks; a forwarder of the    *)
(* channel manager reads it until the manager stops.  SendMessage writes   *)
(* to a copy of the clients and changes nothing here.                      *)
(***************************************************************************)
EXTENDS Naturals, Sequences

CONSTANTS Conns,       \* websocket connections
          QueueCap,    \* capacity of msgChan
          MaxSaid      \* bound on the messages of one connection

ASSUME SocketAssumption == QueueCap \in Nat \ {0} /\ MaxSaid \in Nat

VARIABLES conn,      \* connection -> where its handler is
          clients,   \* Channel.clients: the registered connections
          cut,       \* connections that are closed
          wsDown,    \* progress of Channel.Shutdown
          wsQ,       \* msgChan
          said,      \* connection -> messages its handler has sent
          reader     \* whether the manager still reads

socketVars == <<conn, clients, cut, wsDown, wsQ, said, reader>>

SocketTypeOK ==
  /\ conn \in [Conns -> {"new", "check", "reading", "sending", "leaving", "done"}]
  /\ clients \subseteq Conns
  /\ cut \subseteq Conns
  /\ wsDown \in {"no", "signalled", "swept"}
  /\ wsQ \in Seq(Conns)
  /\ Len(wsQ) <= QueueCap
  /\ said \in [Conns -> Nat]
  /\ reader \in BOOLEAN

\* New.
SocketInit ==
  /\ conn = [c \in Conns |-> "new"]
  /\ clients = {}
  /\ cut = {}
  /\ wsDown = "no"
  /\ wsQ = <<>>
  /\ said = [c \in Conns |-> 0]
  /\ reader = TRUE

-----------------------------------------------------------------------------
(* handleConn and Shutdown.                                                *)

ToStage(c, stage) == conn' = [conn EXCEPT ![c] = stage]

Connect(c) ==
  /\ conn[c] = "new"
  /\ ToStage(c, "check")
  /\ clients' = clients \cup {c}
  /\ UNCHANGED <<cut, wsDown, wsQ, said, reader>>

CheckShutdown(c) ==
  /\ conn[c] = "check"
  /\ ToStage(c, IF wsDown = "no" THEN "reading" ELSE "leaving")
  /\ UNCHANGED <<clients, cut, wsDown, wsQ, said, reader>>

\* The read fails: the peer is gone, the connection was closed, the message is
\* malformed, or its key is refused.
ReadFails(c) ==
  /\ conn[c] = "reading"
  /\ ToStage(c, "leaving")
  /\ UNCHANGED <<clients, cut, wsDown, wsQ, said, reader>>

\* A message without content is skipped.  A closed connection may still have a
\* message in its buffer.
ReadEmpty(c) ==
  /\ conn[c] = "reading"
  /\ ToStage(c, "check")
  /\ UNCHANGED <<clients, cut, wsDown, wsQ, said, reader>>

ReadMessage(c) ==
  /\ conn[c] = "reading"
  /\ said[c] < MaxSaid
  /\ ToStage(c, "sending")
  /\ UNCHANGED <<clients, cut, wsDown, wsQ, said, reader>>

\* The send blocks while the queue is full.
PushMessage(c) ==
  /\ conn[c] = "sending"
  /\ Len(wsQ) < QueueCap
  /\ ToStage(c, "check")
  /\ wsQ' = Append(wsQ, c)
  /\ said' = [said EXCEPT ![c] = @ + 1]
  /\ UNCHANGED <<clients, cut, wsDown, reader>>

\* Fault: the handler ends without its deferred call.
LeaveAll(c) ==
  /\ conn[c] = "leaving"
  /\ ToStage(c, "done")
  /\ UNCHANGED <<clients, cut, wsDown, wsQ, said, reader>>

\* The deferred call.
LeaveConn(c) ==
  /\ conn[c] = "leaving"
  /\ ToStage(c, "done")
  /\ clients' = clients \ {c}
  /\ cut' = cut \cup {c}
  /\ UNCHANGED <<wsDown, wsQ, said, reader>>

\* Fault: Shutdown empties the table and closes no connection.
ShutdownForgets ==
  /\ \/ /\ wsDown = "no" /\ wsDown' = "signalled"
        /\ UNCHANGED clients
     \/ /\ wsDown = "signalled" /\ wsDown' = "swept"
        /\ clients' = {}
  /\ UNCHANGED <<conn, cut, wsQ, said, reader>>

\* Shutdown first closes the shutdown channel, then, under the lock, every
\* registered connection.
wsShutdown ==
  /\ \/ /\ wsDown = "no" /\ wsDown' = "signalled"
        /\ UNCHANGED <<clients, cut>>
     \/ /\ wsDown = "signalled" /\ wsDown' = "swept"
        /\ cut' = cut \cup clients
        /\ clients' = {}
  /\ UNCHANGED <<conn, wsQ, said, reader>>

-----------------------------------------------------------------------------
(* The manager's forwarder (see ChannelManager).                           *)

ForwardSocket ==
  /\ reader /\ wsQ # <<>>
  /\ wsQ' = Tail(wsQ)
  /\ UNCHANGED <<conn, clients, cut, wsDown, said, reader>>

ManagerStops ==
  /\ reader
  /\ reader' = FALSE
  /\ UNCHANGED <<conn, clients, cut, wsDown, wsQ, said>>

SocketNext ==
  \/ \E c \in Conns : \/ Connect(c) \/ CheckShutdown(c) \/ ReadFails(c) \/ ReadEmpty(c)
                       \/ ReadMessage(c) \/ PushMessage(c) \/ LeaveConn(c)
  \/ wsShutdown \/ ForwardSocket \/ ManagerStops

\* Handlers are scheduled, a read of a closed connection fails, and a Shutdown
\* that has begun goes on.  No peer has to speak, to leave or to connect, and the
\* manager need not read.
SocketFairness ==
  /\ \A c \in Conns :
       /\ WF_socketVars(CheckShutdown(c)) /\ WF_socketVars(LeaveConn(c))
       /\ WF_socketVars(c \in cut /\ ReadFails(c))
       /\ WF_socketVars(PushMessage(c))
  /\ WF_socketVars(wsDown # "no" /\ wsShutdown)

SocketSpec == SocketInit /\ [][SocketNext]_socketVars /\ SocketFairness

-----------------------------------------------------------------------------
(* Properties.                                                             *)

\* The table of clients holds the connections whose handler runs, but for those
\* Shutdown has swept out; a connection that is in it can be written to.
ClientsRun ==
  LET running == {c \in Conns : conn[c] \notin {"new", "done"}}
  IN /\ clients \subseteq running \ cut
     /\ wsDown # "swept" => clients = running
     /\ \A c \in cut : conn[c] # "new"

\* After Shutdown no connection stays open, also one that registers only after
\* the sweep, and a handler that does not end is one blocked in its send.
SocketsClosed ==
  \A c \in Conns :
    wsDown = "swept" /\ conn[c] # "new" ~>
      c \in cut /\ conn[c] \in {"sending", "done"}

\* The safety of the websocket channel: bounded queue, and a table of clients
\* that agrees with the running handlers (websocket.go).
SocketInv ==
  /\ SocketTypeOK
  /\ ClientsRun
=============================================================================
