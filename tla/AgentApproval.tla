---------------------------- MODULE AgentApproval ----------------------------
(***************************************************************************)
(* The agent loop with approvals: Agent.Run takes one message at a time    *)
(* (internal/agent/agent.go), the dispatcher runs the gates and the tool   *)
(* (internal/tools/dispatch.go), the session manager keeps the execution   *)
(* that a pause interrupted (internal/agent/session.go), and the HTTP      *)
(* gateway answers approval requests at any moment                         *)
(* (internal/channels/httpgw/httpgw.go).                                   *)
(*                                                                         *)
(* The agent goroutine is one process; its steps are cut where it calls    *)
(* the approval store, whose mutex is the only point where the gateway can *)
(* interfere.  The session manager is used by the agent alone, so its      *)
(* calls join the step they stand next to.  A user has one thread for the  *)
(* life of the process (/new returns the active one), so a thread stands   *)
(* for its user too.  The model is of an agent that has an LLM.            *)
(*                                                                         *)
(* A background job goes through the same dispatcher on a goroutine of the *)
(* worker pool, with an empty thread id (internal/worker/worker.go).       *)
(***************************************************************************)
EXTENDS PendingStore, Sequences, FiniteSets

CONSTANTS Plans,         \* tool calls one LLM answer may ask for
          Trust, AutoApproved, LearnTTL,  \* see RiskEvaluator
          NoThread,      \* the empty thread id
          JobCalls,      \* tool calls a background job may make
          MaxBatches     \* bound on messages and jobs that lead to tool calls

ASSUME AgentAssumption ==
  /\ Plans \subseteq Seq(Calls) \ {<<>>}
  /\ NoThread \in Threads
  /\ JobCalls \subseteq Calls
  /\ MaxBatches \in Nat

VARIABLES pc,        \* where the agent goroutine is
          run,       \* its local variables while it handles a message
          pe,        \* SessionManager.pendingExecutions, by thread
          job,       \* local variables of a background job's dispatch
          learned,   \* RiskBasedEvaluator.learnedAutoApproves
          teaching,  \* approvals a gateway handler is about to record there
          batches,   \* history: batches of tool calls started so far
          log,       \* history: how each tool call ended, in order
          dropped    \* history: batches discarded for a new message

agentVars == <<pc, run, pe, batches, log, dropped>>
policyVars == <<learned, teaching>>
vars == <<storeVars, agentVars, job, policyVars>>

\* Threads of the users' sessions.
Sessions == Threads \ {NoThread}

Risk == INSTANCE RiskEvaluator WITH
  Users <- Sessions, taught <- <<>>

PCs == {"idle", "resume", "llm", "dispatch", "gate", "save", "execute", "summary"}
Modes == {"direct", "batch", "resume"}

\* One handled message: its thread, the calls and the one it is at, the calls
\* whose results the summary will show, and the approval that lets the current
\* call skip the gates.
Run == [thread : Sessions, mode : Modes, batch : 0..MaxBatches,
        calls : Seq(Calls), idx : Nat, results : SUBSET Nat,
        approval : Requests \cup {None}]

Job == [user : Sessions, batch : 0..MaxBatches, call : Calls,
        pc : {"dispatch", "gate", "execute"}, approval : Requests \cup {None}]

PendingExecution == [batch : 0..MaxBatches, calls : Seq(Calls), next : Nat,
                     expiresAt : Nat]

\* How a call ended: the tool ran, or the dispatcher refused it.
Entry == [thread : Threads, batch : 0..MaxBatches, idx : Nat, call : Calls,
          outcome : {"ran", "refused"}, approval : Requests \cup {None}]

\* The absent entry is none of these records.
ASSUME AbsentAssumption == None \notin PendingExecution /\ None \notin Job

AgentTypeOK ==
  /\ TypeOK
  /\ pc \in PCs
  /\ run \in Run
  /\ pe \in [Sessions -> PendingExecution \cup {None}]
  /\ job \in Job \cup {None}
  /\ learned \in [Sessions \X Risk!Keys -> Nat \cup {None}]
  /\ teaching \subseteq Sessions \X Risk!Keys
  /\ batches \in 0..MaxBatches
  /\ log \in Seq(Entry)
  /\ dropped \subseteq 0..MaxBatches

Init ==
  /\ NewPendingStore
  /\ pc = "idle"
  /\ run \in [thread : Sessions, mode : {"direct"}, batch : {0}, calls : {<<>>},
              idx : {1}, results : {{}}, approval : {None}]
  /\ pe = [t \in Sessions |-> None]
  /\ job = None
  /\ learned = [k \in Sessions \X Risk!Keys |-> None]
  /\ teaching = {}
  /\ batches = 0
  /\ log = <<>>
  /\ dropped = {}

-----------------------------------------------------------------------------
(* Receiving a message.                                                    *)

\* Bounds: a message or a job is taken up only if it may still start a batch and
\* draw a request id; handling one takes at most one of each.
Busy == (IF pc = "idle" THEN 0 ELSE 1) + (IF job = None THEN 0 ELSE 1)

Budget ==
  /\ batches + Busy < MaxBatches
  /\ Cardinality({r \in Requests : Fresh(r)}) > Busy

\* GetPendingExecution.
LivePE(t) == pe[t] # None /\ now <= pe[t].expiresAt

StartBatch(t, mode, cs) ==
  /\ batches' = batches + 1
  /\ run' = [thread |-> t, mode |-> mode, batch |-> batches + 1, calls |-> cs,
             idx |-> 1, results |-> {}, approval |-> None]

\* tool:<name> goes straight to the dispatcher.
ReceiveTool(t, c) ==
  /\ pc = "idle" /\ Budget
  /\ StartBatch(t, "direct", <<c>>)
  /\ pc' = "dispatch"
  /\ UNCHANGED <<storeVars, job, policyVars, pe, log, dropped>>

\* Fault: a new message clears the approval but keeps the interrupted execution.
DiscardApprovalOnly(t) ==
  IF LivePE(t)
  THEN dropped' = dropped \cup {pe[t].batch} /\ ClearResolved(t) /\ UNCHANGED pe
  ELSE UNCHANGED <<pe, dropped, storeVars>>

\* A chat message discards the interrupted execution of its thread and the
\* approval it was waiting for; the request still waiting is left pending.
DiscardExecution(t) ==
  IF LivePE(t)
  THEN /\ pe' = [pe EXCEPT ![t] = None]
       /\ dropped' = dropped \cup {pe[t].batch}
       /\ ClearResolved(t)
  ELSE UNCHANGED <<pe, dropped, storeVars>>

ReceiveChat(t) ==
  /\ pc = "idle" /\ Budget
  /\ DiscardExecution(t)
  /\ run' = [run EXCEPT !.thread = t]
  /\ pc' = "llm"
  /\ UNCHANGED <<job, policyVars, batches, log>>

\* __resume__ reports pending_gate while the request waits, resumes otherwise,
\* and is an ordinary chat message when no live execution is saved.
ReceiveResume(t) ==
  /\ pc = "idle" /\ Budget
  /\ IF LivePE(t)
     THEN /\ Get(t)
          /\ pc' = IF GetResult(t) # None THEN "idle" ELSE "resume"
     ELSE /\ pc' = "llm"
          /\ UNCHANGED storeVars
  /\ run' = [run EXCEPT !.thread = t]
  /\ UNCHANGED <<job, policyVars, pe, batches, log, dropped>>

\* Fault: the batch is resumed from its first call.
NextIndexLost(t) == 1

NextIndex(t) == pe[t].next

Restore(t) ==
  run' = [thread |-> t, mode |-> "resume", batch |-> pe[t].batch,
          calls |-> pe[t].calls, idx |-> NextIndex(t), results |-> {},
          approval |-> None]

\* Fault: an execution that expired meanwhile is waited for.
ResumeWaits ==
  /\ pc = "resume"
  /\ LivePE(run.thread) /\ Restore(run.thread)
  /\ pc' = "dispatch"
  /\ UNCHANGED <<storeVars, job, policyVars, pe, batches, log, dropped>>

\* Resume looks the execution up again: it may have expired since.
Resume ==
  /\ pc = "resume"
  /\ \/ /\ ~LivePE(run.thread)
        /\ pc' = "idle"
        /\ UNCHANGED run
     \/ /\ LivePE(run.thread) /\ Restore(run.thread)
        /\ pc' = "dispatch"
  /\ UNCHANGED <<storeVars, job, policyVars, pe, batches, log, dropped>>

\* The LLM answers in text, or fails: one response, no tool call.
LLMText ==
  /\ pc = "llm"
  /\ pc' = "idle"
  /\ UNCHANGED <<storeVars, job, policyVars, run, pe, batches, log, dropped>>

\* The LLM answers with tool calls.
LLMToolCalls(cs) ==
  /\ pc = "llm"
  /\ StartBatch(run.thread, "batch", cs)
  /\ pc' = "dispatch"
  /\ UNCHANGED <<storeVars, job, policyVars, pe, log, dropped>>

-----------------------------------------------------------------------------
(* Dispatching the current call.                                           *)

CurrentCall == run.calls[run.idx]

EndsBatch(outcome) == run.idx = Len(run.calls)

\* The current call has its result: go on with the next one, or end.  A direct
\* call is answered at once; Resume forgets the execution before the summary.
CallDone(outcome) ==
  LET last == EndsBatch(outcome) IN
  /\ log' = Append(log, [thread |-> run.thread, batch |-> run.batch,
                         idx |-> run.idx, call |-> CurrentCall,
                         outcome |-> outcome, approval |-> run.approval])
  /\ run' = [run EXCEPT !.idx = IF last THEN @ ELSE @ + 1,
                        !.results = @ \cup {run.idx},
                        !.approval = None]
  /\ pc' = IF ~last THEN "dispatch"
           ELSE IF run.mode = "direct" THEN "idle" ELSE "summary"
  /\ pe' = IF last /\ run.mode = "resume" THEN [pe EXCEPT ![run.thread] = None]
           ELSE pe

\* Refused before the gates: not allowed, not registered, or over the rate
\* limit.  The error is the call's result.
DispatchRefused ==
  /\ pc = "dispatch"
  /\ CallDone("refused")
  /\ UNCHANGED <<storeVars, job, policyVars, batches, dropped>>

\* An approval of the thread, whatever it was for, lets the call skip the gates.
DispatchConsume ==
  /\ pc = "dispatch"
  /\ ConsumeResolved(run.thread)
  /\ run' = [run EXCEPT !.approval = resolved[run.thread]]
  /\ pc' = IF resolved[run.thread] # None THEN "execute" ELSE "gate"
  /\ UNCHANGED <<job, policyVars, pe, batches, log, dropped>>

GateDecision == Risk!Decision(CurrentCall, run.thread, "interactive")

GateAllow ==
  /\ pc = "gate"
  /\ GateDecision = "allow"
  /\ pc' = "execute"
  /\ UNCHANGED <<storeVars, job, policyVars, run, pe, batches, log, dropped>>

\* The gate creates a request; a direct call is answered with the error and
\* saves nothing.
GatePause(r) ==
  /\ pc = "gate"
  /\ GateDecision = "pause"
  /\ Create(r, run.thread, CurrentCall)
  /\ pc' = IF run.mode = "direct" THEN "idle" ELSE "save"
  /\ UNCHANGED <<job, policyVars, run, pe, batches, log, dropped>>

Deadline == now + TTL

\* The paused execution is saved with the index of the paused call; neither the
\* results so far nor the approval request are part of it.
SavePendingExecution ==
  /\ pc = "save"
  /\ pe' = [pe EXCEPT ![run.thread] =
              [batch |-> run.batch, calls |-> run.calls, next |-> run.idx,
               expiresAt |-> Deadline]]
  /\ pc' = "idle"
  /\ UNCHANGED <<storeVars, job, policyVars, run, batches, log, dropped>>

\* The tool runs; its output, its error, or what the sanitizer makes of either
\* is the call's result.
Execute ==
  /\ pc = "execute"
  /\ CallDone("ran")
  /\ UNCHANGED <<storeVars, job, policyVars, batches, dropped>>

\* The results go back to the LLM, whose answer, or failure, is the response.
Summary ==
  /\ pc = "summary"
  /\ pc' = "idle"
  /\ UNCHANGED <<storeVars, job, policyVars, run, pe, batches, log, dropped>>

-----------------------------------------------------------------------------
(* A background job in the dispatcher.                                     *)

JobStart(u, c) ==
  /\ job = None /\ Budget
  /\ batches' = batches + 1
  /\ job' = [user |-> u, batch |-> batches + 1, call |-> c, pc |-> "dispatch",
             approval |-> None]
  /\ UNCHANGED <<storeVars, policyVars, pc, run, pe, log, dropped>>

JobRefused ==
  /\ job # None /\ job.pc = "dispatch"
  /\ job' = None
  /\ UNCHANGED <<storeVars, agentVars, policyVars>>

\* Fault: the job is dispatched in its user's own thread.
JobThreadOfUser == job.user

\* The JobContext of a job has no thread id.
JobThread == NoThread

JobConsume ==
  /\ job # None /\ job.pc = "dispatch"
  /\ ConsumeResolved(JobThread)
  /\ job' = [job EXCEPT !.approval = resolved[JobThread],
                        !.pc = IF resolved[JobThread] # None THEN "execute" ELSE "gate"]
  /\ UNCHANGED <<agentVars, policyVars>>

JobDecision == Risk!Decision(job.call, job.user, "interactive")

JobGateAllow ==
  /\ job # None /\ job.pc = "gate"
  /\ JobDecision = "allow"
  /\ job' = [job EXCEPT !.pc = "execute"]
  /\ UNCHANGED <<storeVars, agentVars, policyVars>>

\* The job fails and leaves a request that names no thread.
JobGatePause(r) ==
  /\ job # None /\ job.pc = "gate"
  /\ JobDecision = "pause"
  /\ Create(r, JobThread, job.call)
  /\ job' = None
  /\ UNCHANGED <<agentVars, policyVars>>

JobExecute ==
  /\ job # None /\ job.pc = "execute"
  /\ log' = Append(log, [thread |-> NoThread, batch |-> job.batch, idx |-> 1,
                         call |-> job.call, outcome |-> "ran",
                         approval |-> job.approval])
  /\ job' = None
  /\ UNCHANGED <<storeVars, policyVars, pc, run, pe, batches, dropped>>

-----------------------------------------------------------------------------
(* The gateway, on goroutines of its own.                                  *)

\* thread_id is required.
HasThread(t) == t # NoThread

\* Approving a request, also approving it again, teaches the policy in the name
\* of the user u that the request body gives.
handleGateApprove(u, t, r) ==
  /\ HasThread(t)
  /\ Resolve(t, r)
  /\ teaching' = IF ResolveResult(t, r) \in {"live", "again"}
                 THEN teaching \cup {<<u, Risk!autoApproveKey(gate[r].call)>>}
                 ELSE teaching
  /\ UNCHANGED <<agentVars, job, learned>>

\* The handler records the approval after Resolve has released the store.
RecordApproval(k) ==
  /\ learned' = [learned EXCEPT ![k] = now]
  /\ teaching' = teaching \ {k}
  /\ UNCHANGED <<storeVars, agentVars, job>>

handleGateDeny(t, r) ==
  /\ HasThread(t)
  /\ Deny(t, r)
  /\ UNCHANGED <<agentVars, job, policyVars>>

handleGatesPending == List /\ UNCHANGED <<agentVars, job, policyVars>>

\* handleChat describes the gate of a pending_gate response.
DescribeGate(t) == Get(t) /\ UNCHANGED <<agentVars, job, policyVars>>

TimePasses == Tick /\ UNCHANGED <<agentVars, job, policyVars>>

AgentStep ==
  \/ Resume
  \/ LLMText
  \/ \E cs \in Plans : LLMToolCalls(cs)
  \/ DispatchRefused
  \/ DispatchConsume
  \/ GateAllow
  \/ \E r \in Requests : GatePause(r)
  \/ SavePendingExecution
  \/ Execute
  \/ Summary

JobStep ==
  \/ JobRefused
  \/ JobConsume
  \/ JobGateAllow
  \/ \E r \in Requests : JobGatePause(r)
  \/ JobExecute

Message(t) ==
  \/ \E c \in Calls : ReceiveTool(t, c)
  \/ ReceiveChat(t)
  \/ ReceiveResume(t)

Gateway ==
  \/ \E u \in Sessions, t \in Threads, r \in Requests : handleGateApprove(u, t, r)
  \/ \E k \in teaching : RecordApproval(k)
  \/ \E t \in Threads, r \in Requests : handleGateDeny(t, r)
  \/ handleGatesPending
  \/ \E t \in Sessions : DescribeGate(t)

Next ==
  \/ AgentStep
  \/ \E t \in Sessions : Message(t)
  \/ JobStep
  \/ \E u \in Sessions, c \in JobCalls : JobStart(u, c)
  \/ Gateway
  \/ TimePasses

\* The agent goroutine keeps running: the Go scheduler runs it, and an LLM or
\* tool call returns.
Spec == Init /\ [][Next]_vars /\ WF_vars(AgentStep)

-----------------------------------------------------------------------------
(* Properties.                                                             *)

HighRisk(c) == Risk!assessRisk(c) = "high"

\* Across any number of pauses, resumptions, denials and expiries, the calls of
\* a batch end one at a time and in the order the LLM gave them: none is
\* executed twice, and none after a later one.
BatchOrder ==
  \A i, j \in DOMAIN log :
    i < j /\ log[i].batch = log[j].batch => log[i].idx < log[j].idx

\* When the results of a batch go back to the LLM, every call of the batch ran
\* or was refused: a resumption skips none.
BatchComplete ==
  pc = "summary" =>
    \A n \in DOMAIN run.calls : \E i \in DOMAIN log :
      log[i].batch = run.batch /\ log[i].idx = n

\* A batch is executed call by call, none twice and none skipped, however often
\* it was paused (agent.go: handleLLMToolCalls, Resume).
BatchInv ==
  /\ AgentTypeOK
  /\ BatchOrder
  /\ BatchComplete

\* A high-risk tool runs only on an approval the user gave in that very thread
\* and did not deny, and one approval lets one call through.
Authorised ==
  /\ \A i \in DOMAIN log :
       log[i].outcome = "ran" /\ HighRisk(log[i].call) => log[i].approval # None
  /\ \A i \in DOMAIN log : log[i].approval # None =>
       /\ log[i].approval \in granted \ refused
       /\ gate[log[i].approval].thread = log[i].thread
  /\ \A i, j \in DOMAIN log :
       log[i].approval = log[j].approval => i = j \/ log[i].approval = None

\* A high-risk tool never runs for a background job: the request it leaves names
\* no thread, so nobody can approve it, and no approval given to a session, at
\* whatever moment, reaches the job.
BackgroundNeverHighRisk ==
  \A i \in DOMAIN log : log[i].thread = NoThread => ~HighRisk(log[i].call)

\* No high-risk call without the user's word, in a session or in the background
\* (dispatch.go: Dispatch).
AuthorityInv ==
  /\ Authorised
  /\ BackgroundNeverHighRisk

-----------------------------------------------------------------------------
(* The inductive invariant behind the two.                                 *)

\* A call of run.batch is under way.
Active == pc \in {"dispatch", "gate", "save", "execute"}

\* The saved execution of t is the one that is being resumed.
Resuming(t) == Active /\ run.mode = "resume" /\ run.thread = t

\* Of batch b exactly the calls before the n-th have ended.
EndedBefore(b, n) ==
  /\ \A i \in DOMAIN log : log[i].batch = b => log[i].idx < n
  /\ \A k \in 1..(n - 1) : \E i \in DOMAIN log : log[i].batch = b /\ log[i].idx = k

\* The agent and the saved executions stand where the log of their batch ends; the
\* execution that is being resumed is behind, and is overwritten or forgotten.
Positions ==
  /\ Active => run.idx \in DOMAIN run.calls /\ EndedBefore(run.batch, run.idx)
  /\ pc = "save" => run.mode # "direct"
  /\ pc = "llm" => batches < MaxBatches
  /\ \A t \in Sessions : pe[t] # None =>
       /\ pe[t].next \in DOMAIN pe[t].calls
       /\ ~Resuming(t) => EndedBefore(pe[t].batch, pe[t].next)
  /\ job # None => \A i \in DOMAIN log : log[i].batch # job.batch

\* No batch is carried on in two places, or after it was dropped.
Owners ==
  /\ dropped \subseteq 0..batches
  /\ \A i \in DOMAIN log : log[i].batch <= batches
  /\ Active => run.batch <= batches /\ run.batch \notin dropped
  /\ Active /\ run.mode = "resume" => pe[run.thread] # None
  /\ \A t \in Sessions : pe[t] # None =>
       /\ pe[t].batch <= batches /\ pe[t].batch \notin dropped
       /\ Active => (pe[t].batch = run.batch <=> Resuming(t))
       /\ \A u \in Sessions : pe[u] # None /\ pe[u].batch = pe[t].batch => u = t
  /\ job # None =>
       /\ job.batch <= batches /\ job.batch \notin dropped
       /\ Active => job.batch # run.batch
       /\ \A t \in Sessions : pe[t] # None => pe[t].batch # job.batch

\* A new batch of a thread meets no live execution of the thread.
Replaceable ==
  pc = "llm" \/ (Active /\ run.mode = "batch") => ~LivePE(run.thread)

\* The approval r was given in thread t and has been taken out of the store.
Spent(r, t) ==
  /\ r \in granted
  /\ gate[r] # None /\ gate[r].thread = t
  /\ \A u \in Threads : resolved[u] # r

\* An approval is in the store, with the call it lets through, or in the log.
Approvals ==
  /\ resolved[NoThread] = None
  /\ run.approval # None => pc = "execute" /\ Spent(run.approval, run.thread)
  /\ pc = "execute" /\ HighRisk(CurrentCall) => run.approval # None
  /\ job # None => job.approval = None /\ (job.pc = "execute" => ~HighRisk(job.call))
  /\ \A i \in DOMAIN log : log[i].approval # None =>
       Spent(log[i].approval, log[i].thread) /\ log[i].approval # run.approval

\* What every step of agent, job, gateway and clock keeps, together with the
\* invariant of the store.
AgentInv ==
  /\ StoreInv
  /\ BatchInv
  /\ AuthorityInv
  /\ Positions
  /\ Owners
  /\ Replaceable
  /\ Approvals

-----------------------------------------------------------------------------
(* Action and liveness properties, and what comments say.                  *)

\* A batch discarded for a new message never executes another call.
DroppedStaysDropped ==
  [][\A i \in DOMAIN log' \ DOMAIN log : log'[i].batch \notin dropped]_vars

\* An interrupted execution is lost to another one only after it expired.
LiveExecutionKept ==
  [][\A t \in Sessions : pe[t] # None /\ pe'[t] # None /\ pe'[t].batch # pe[t].batch
        => ~LivePE(t)]_vars

\* A saved execution is resumed, expires or is dropped for good (agent.go: runLLM,
\* Resume; session.go).
ExecutionsKept ==
  /\ DroppedStaysDropped
  /\ LiveExecutionKept

\* The agent always comes back for the next message.
AgentReturns == []<>(pc = "idle")

\* The comment in Dispatch (dispatch.go:99): the approval need not be compared
\* with the tool, because the saved execution holds the calls it was given for.
ApprovalMatchesCall ==
  \A i \in DOMAIN log :
    log[i].approval # None => gate[log[i].approval].call = log[i].call

\* The design (2026-05-27-agent-gate-resume-design.md:459): the results of the
\* calls before the paused one are in the saved messages, so the summary of a
\* resumed batch shows the LLM the result of every call.
SummaryShowsAllResults == pc = "summary" => run.results = DOMAIN run.calls
=============================================================================
