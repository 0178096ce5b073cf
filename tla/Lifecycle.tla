------------------------------ MODULE Lifecycle ------------------------------
(***************************************************************************)
(* The life of the process: main.run and App.Run (cmd/ironclaw/main.go,    *)
(* internal/app/builder.go) around the loop of the agent, the lines typed  *)
(* at the repl and the worker pool.  The pool gets context.Background(),   *)
(* so only Stop ends it; the interrupt ends the context of the agent.      *)
(***************************************************************************)
EXTENDS WorkerPool

CONSTANTS MaxLines,  \* bound: lines typed at the repl
          LeftJobs   \* bound: jobs an earlier process may have left in the table

ASSUME LifecycleAssumption ==
  MaxLines \in Nat /\ LeftJobs \subseteq Jobs /\ IsFiniteSet(LeftJobs)

VARIABLES agent,     \* where Agent.Run is
          repl,      \* the repl's readLoop
          typed,     \* lines typed so far
          lines,     \* lines that wait for the agent
          interrupted,  \* the interrupt has cancelled the context
          blocked,   \* a WebSocket client does not read what is written to it
          app        \* where App.Run and main are

appVars == <<agent, repl, typed, lines, interrupted, blocked, app>>

LifecycleTypeOK ==
  /\ agent \in {"top", "receive", "process", "answer", "returned"}
  /\ repl \in {"reading", "closed"}
  /\ typed \in 0..MaxLines
  /\ lines \in 0..typed
  /\ interrupted \in BOOLEAN
  /\ blocked \in BOOLEAN
  /\ app \in {"running", "stopping", "exited"}

\* Build has started the channels and the pool, Run calls Agent.Run.  The table
\* may hold jobs that were submitted earlier.
AppInit ==
  /\ \E left \in SUBSET LeftJobs :
       /\ status = [j \in Jobs |-> IF j \in left THEN "pending" ELSE "absent"]
       /\ table \in SetToSeqs(left)
  /\ loop = "select" /\ todo = <<>> /\ worker = [s \in Slots |-> NoJob]
  /\ wg = 1 /\ stop = "no" /\ ctxDone = FALSE
  /\ agent = "top" /\ repl = "reading" /\ typed = 0 /\ lines = 0
  /\ interrupted = FALSE /\ blocked = FALSE /\ app = "running"

-----------------------------------------------------------------------------
(* The repl.                                                               *)

TypeLine ==
  /\ repl = "reading" /\ typed < MaxLines
  /\ typed' = typed + 1 /\ lines' = lines + 1
  /\ UNCHANGED <<agent, repl, interrupted, blocked, app, poolVars>>

\* "quit", "exit" or the end of the input: the repl closes its channel.
TypeQuit ==
  /\ repl = "reading"
  /\ repl' = "closed"
  /\ UNCHANGED <<agent, typed, lines, interrupted, blocked, app, poolVars>>

Interrupt ==
  /\ ~interrupted
  /\ interrupted' = TRUE
  /\ UNCHANGED <<agent, repl, typed, lines, blocked, app, poolVars>>

\* A WebSocket client stops reading until its buffers are full, reads again, or
\* is disconnected.
ClientStalls ==
  /\ blocked' = ~blocked
  /\ UNCHANGED <<agent, repl, typed, lines, interrupted, app, poolVars>>

-----------------------------------------------------------------------------
(* Agent.Run.                                                              *)

\* The select at the top of the loop.
AgentLooks ==
  /\ agent = "top"
  /\ agent' = IF interrupted THEN "returned" ELSE "receive"
  /\ UNCHANGED <<repl, typed, lines, interrupted, blocked, app, poolVars>>

\* Receive: the next message, or the end of the context if both are there.
AgentReceives ==
  /\ agent = "receive" /\ lines > 0
  /\ lines' = lines - 1
  /\ agent' = "process"
  /\ UNCHANGED <<repl, typed, interrupted, blocked, app, poolVars>>

\* Fault: the end of the context is taken for a failed Receive.
AgentContinues ==
  /\ agent = "receive" /\ interrupted
  /\ agent' = "receive"
  /\ UNCHANGED <<repl, typed, lines, interrupted, blocked, app, poolVars>>

AgentCancelled ==
  /\ agent = "receive" /\ interrupted
  /\ agent' = "returned"
  /\ UNCHANGED <<repl, typed, lines, interrupted, blocked, app, poolVars>>

\* ProcessMessage ...
AgentProcesses ==
  /\ agent = "process"
  /\ agent' = "answer"
  /\ UNCHANGED <<repl, typed, lines, interrupted, blocked, app, poolVars>>

\* ... and Broadcast, whose write to a client has no deadline: it waits for one
\* that does not read.
AgentAnswers ==
  /\ agent = "answer" /\ ~blocked
  /\ agent' = "top"
  /\ UNCHANGED <<repl, typed, lines, interrupted, blocked, app, poolVars>>

-----------------------------------------------------------------------------
(* App.Run and main.                                                       *)

\* Agent.Run has returned: Worker.Stop closes its channel ...
AppStop ==
  /\ app = "running" /\ agent = "returned"
  /\ app' = "stopping"
  /\ Stop
  /\ UNCHANGED <<agent, repl, typed, lines, interrupted, blocked>>

\* Fault: the process does not wait for Stop.
AppExitAtOnce ==
  /\ app = "stopping"
  /\ app' = "exited"
  /\ UNCHANGED <<agent, repl, typed, lines, interrupted, blocked, poolVars>>

\* ... and waits; main returns.
AppExit ==
  /\ app = "stopping" /\ stop = "returned"
  /\ app' = "exited"
  /\ UNCHANGED <<agent, repl, typed, lines, interrupted, blocked, poolVars>>

AgentStep ==
  AgentLooks \/ AgentReceives \/ AgentCancelled \/ AgentProcesses \/ AgentAnswers

\* The pool runs on its own; nothing in the process submits or cancels.
PoolStep ==
  /\ \/ LoopStep \/ LoopExit \/ StopReturn
     \/ \E s \in Slots : WorkerStep(s)
  /\ UNCHANGED appVars

AppNext ==
  /\ app # "exited"
  /\ \/ TypeLine \/ TypeQuit \/ Interrupt \/ ClientStalls
     \/ AgentStep \/ AppStop \/ AppExit \/ PoolStep

\* As in WorkerPool; the agent is scheduled, and the tools and requests of a
\* message end; a select in which Done stays ready takes it in the end.  No
\* client has to read.
AppFairness ==
  /\ WF_<<appVars, poolVars>>(AgentStep)
  /\ SF_<<appVars, poolVars>>(AgentCancelled)
  /\ WF_<<appVars, poolVars>>(AppStop)
  /\ WF_<<appVars, poolVars>>(AppExit)
  /\ WF_<<appVars, poolVars>>(LoopStep /\ UNCHANGED appVars)
  /\ SF_<<appVars, poolVars>>(LoopExit /\ UNCHANGED appVars)
  /\ WF_<<appVars, poolVars>>(StopReturn /\ UNCHANGED appVars)
  /\ \A s \in Slots : WF_<<appVars, poolVars>>(WorkerStep(s) /\ UNCHANGED appVars)

AppSpec == AppInit /\ [][AppNext]_<<appVars, poolVars>> /\ AppFairness

-----------------------------------------------------------------------------
(* Properties.                                                             *)

\* An interrupt ends the process, whether the agent waits for a message or is
\* answering one and whatever the workers are doing, provided that the WebSocket
\* clients read or leave in the end: a client that never reads again holds the
\* agent in Broadcast, and the process with it (main.go:34, builder.go:206-208,
\* websocket.go:76).
InterruptStops == <>[]~blocked => (interrupted ~> app = "exited")

\* The process does not end under a job: at exit the loop of the pool has ended
\* and every goroutine it started has reported its result (builder.go:207).
NoJobCut == app = "exited" => loop = "done" /\ \A s \in Slots : ~Counted(s)

\* What main waits for: the Stop that App.Run has called, to its end.
AppWaits ==
  /\ app = "stopping" => agent = "returned" /\ stop # "no"
  /\ app = "exited" => stop = "returned"

\* The safety of the process around its pool: it does not exit under a job
\* (builder.go: Run).
LifecycleInv ==
  /\ LifecycleTypeOK
  /\ AppWaits
  /\ NoJobCut
=============================================================================
