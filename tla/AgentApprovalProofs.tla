------------------------- MODULE AgentApprovalProofs -------------------------
(***************************************************************************)
(* Proofs about the agent loop with approvals, for every set of threads,   *)
(* requests, calls and plans and every bound: batches are executed in      *)
(* order and completely, no high-risk call runs without an approval of its *)
(* own thread, and an interrupted execution is not lost to another.        *)
(***************************************************************************)
EXTENDS AgentApproval, PendingStoreProofs

\* What the assumptions say about the absent entry and about plans.
LEMMA AgentFacts ==
  /\ None \notin PendingExecution /\ None \notin Job
  /\ \A cs \in Plans : cs \in Seq(Calls) /\ cs # <<>>
  /\ NoThread \in Threads
  /\ JobCalls \subseteq Calls
  /\ MaxBatches \in Nat
BY AgentAssumption, AbsentAssumption

\* The call at hand is one of the calls of the batch.
LEMMA CurrentCallType ==
  ASSUME AgentInv, Active
  PROVE  CurrentCall \in Calls /\ run.idx \in 1..Len(run.calls)
<1>1. run.calls \in Seq(Calls) /\ run.idx \in DOMAIN run.calls
  BY DEF AgentInv, BatchInv, AgentTypeOK, Run, Positions
<1>2. QED
  BY <1>1 DEF CurrentCall

\* The approval store changes only by its own methods, whoever calls them: the
\* dispatcher, the agent loop or the gateway.
LEMMA StoreMoves == AgentInv /\ [Next]_vars => [StoreNext]_storeVars
<1> SUFFICES ASSUME AgentInv, [Next]_vars PROVE [StoreNext]_storeVars
  OBVIOUS
<1> USE AgentFacts
<1>0. run.thread \in Sessions /\ Sessions \subseteq Threads
  BY DEF AgentInv, BatchInv, AgentTypeOK, Run, Sessions
<1>1. ASSUME AgentStep PROVE [StoreNext]_storeVars
  <2>1. ASSUME NEW r \in Requests, GatePause(r) PROVE StoreNext
    BY <1>0, <2>1, CurrentCallType DEF GatePause, Active, StoreNext
  <2>2. CASE DispatchConsume
    BY <1>0, <2>2 DEF DispatchConsume, StoreNext
  <2>3. QED
    BY <1>1, <2>1, <2>2
       DEF AgentStep, Resume, LLMText, LLMToolCalls, DispatchRefused, GateAllow,
           SavePendingExecution, Execute, Summary
<1>2. ASSUME NEW t \in Sessions, Message(t) PROVE [StoreNext]_storeVars
  BY <1>0, <1>2 DEF Message, ReceiveTool, ReceiveChat, DiscardExecution,
                    ReceiveResume, StoreNext
<1>3. ASSUME JobStep PROVE [StoreNext]_storeVars
  <2>1. ASSUME NEW r \in Requests, JobGatePause(r) PROVE StoreNext
    <3>1. job.call \in Calls
      BY <2>1 DEF JobGatePause, AgentInv, BatchInv, AgentTypeOK, Job
    <3>2. QED
      BY <2>1, <3>1 DEF JobGatePause, JobThread, StoreNext
  <2>2. CASE JobConsume
    BY <2>2 DEF JobConsume, JobThread, StoreNext
  <2>3. QED
    BY <1>3, <2>1, <2>2 DEF JobStep, JobRefused, JobGateAllow, JobExecute
<1>4. ASSUME NEW u \in Sessions, NEW c \in JobCalls, JobStart(u, c)
      PROVE [StoreNext]_storeVars
  BY <1>4 DEF JobStart
<1>5. ASSUME Gateway PROVE [StoreNext]_storeVars
  BY <1>0, <1>5 DEF Gateway, handleGateApprove, RecordApproval, handleGateDeny,
                    handleGatesPending, DescribeGate, StoreNext
<1>6. CASE TimePasses
  BY <1>6 DEF TimePasses, StoreNext
<1>7. CASE UNCHANGED vars
  BY <1>7 DEF vars
<1>8. QED
  BY <1>1, <1>2, <1>3, <1>4, <1>5, <1>6, <1>7 DEF Next

\* A message or a job is taken up only below the bound on batches, with a job
\* or a message that is already under way counted in.
LEMMA BudgetFacts ==
  ASSUME AgentTypeOK, Budget
  PROVE  /\ batches < MaxBatches
         /\ pc # "idle" => batches + 1 < MaxBatches
BY AgentFacts DEF AgentTypeOK, Budget, Busy

\* A call that ended leaves its entry in the log.
LEMMA CallDoneType ==
  ASSUME AgentInv, Active, NEW o \in {"ran", "refused"}, CallDone(o)
  PROVE  /\ pc' \in PCs /\ run' \in Run /\ log' \in Seq(Entry)
         /\ pe' \in [Sessions -> PendingExecution \cup {None}]
<1> USE AgentFacts DEF AgentInv, BatchInv, AgentTypeOK
<1>1. CurrentCall \in Calls /\ run.idx \in 1..Len(run.calls) /\ run \in Run
  BY CurrentCallType
<1>2. [thread |-> run.thread, batch |-> run.batch, idx |-> run.idx,
       call |-> CurrentCall, outcome |-> o, approval |-> run.approval] \in Entry
  BY <1>1 DEF Run, Entry, Sessions
<1>3. log' \in Seq(Entry)
  BY <1>2 DEF CallDone
<1>4. run' \in Run
  <2> DEFINE n == IF EndsBatch(o) THEN run.idx ELSE run.idx + 1
  <2>1. n \in Nat
    BY <1>1
  <2>2. run' = [run EXCEPT !.idx = n, !.results = @ \cup {run.idx}, !.approval = None]
    BY <1>1 DEF CallDone, Run
  <2> HIDE DEF n
  <2>3. QED
    BY <1>1, <2>1, <2>2 DEF Run
<1>5. QED
  BY <1>1, <1>3, <1>4 DEF CallDone, PCs, Run

\* Agent, job and gateway keep every variable within its type.
LEMMA AgentTypeStep == AgentInv /\ [Next]_vars => AgentTypeOK'
<1> SUFFICES ASSUME AgentInv, [Next]_vars PROVE AgentTypeOK'
  OBVIOUS
<1>0. TypeOK' /\ StoreInv'
  BY StoreMoves, StoreStep DEF AgentInv, StoreInv
<1>a. AgentTypeOK /\ run \in Run /\ run.thread \in Sessions /\ run.thread \in Threads
  BY DEF AgentInv, BatchInv, AgentTypeOK, Run, Sessions
<1> USE AgentFacts
<1>1. ASSUME AgentStep PROVE AgentTypeOK'
  <2>1. CASE Resume
    <3>1. CASE UNCHANGED run
      BY <1>0, <1>a, <2>1, <3>1 DEF Resume, AgentTypeOK, PCs, policyVars
    <3>2. CASE LivePE(run.thread) /\ Restore(run.thread)
      <4>1. pe[run.thread] \in PendingExecution
        BY <1>a, <3>2 DEF LivePE, AgentTypeOK
      <4>2. run' \in Run
        BY <1>a, <3>2, <4>1 DEF Restore, NextIndex, Run, PendingExecution, Modes
      <4>3. QED
        BY <1>0, <1>a, <2>1, <4>2 DEF Resume, AgentTypeOK, PCs, policyVars
    <3>3. QED
      BY <2>1, <3>1, <3>2 DEF Resume
  <2>2. ASSUME NEW cs \in Plans, LLMToolCalls(cs) PROVE AgentTypeOK'
    <3>1. batches < MaxBatches
      BY <2>2 DEF LLMToolCalls, AgentInv, Positions
    <3>2. run' \in Run /\ batches' \in 0..MaxBatches
      BY <1>a, <2>2, <3>1 DEF LLMToolCalls, StartBatch, Run, Modes, AgentTypeOK
    <3>3. QED
      BY <1>0, <1>a, <2>2, <3>2 DEF LLMToolCalls, AgentTypeOK, PCs, policyVars
  <2>3. CASE DispatchRefused \/ Execute
    <3>1. PICK o \in {"ran", "refused"} : CallDone(o)
      BY <2>3 DEF DispatchRefused, Execute
    <3>2. Active
      BY <2>3 DEF DispatchRefused, Execute, Active
    <3>3. QED
      BY <1>0, <1>a, <2>3, <3>1, <3>2, CallDoneType
         DEF DispatchRefused, Execute, AgentTypeOK, policyVars
  <2>4. CASE DispatchConsume
    <3>1. run' \in Run
      BY <1>a, <2>4 DEF DispatchConsume, Run, AgentTypeOK, TypeOK
    <3>2. QED
      BY <1>0, <1>a, <2>4, <3>1 DEF DispatchConsume, AgentTypeOK, PCs, policyVars
  <2>5. CASE SavePendingExecution
    <3>1. [batch |-> run.batch, calls |-> run.calls, next |-> run.idx,
           expiresAt |-> Deadline] \in PendingExecution
      BY <1>a, NoneFacts DEF Run, PendingExecution, Deadline, AgentTypeOK, TypeOK
    <3>2. QED
      BY <1>0, <1>a, <2>5, <3>1 DEF SavePendingExecution, AgentTypeOK, PCs, policyVars
  <2>6. QED
    BY <1>0, <1>1, <1>a, <2>1, <2>2, <2>3, <2>4, <2>5
       DEF AgentStep, LLMText, GateAllow, GatePause, Summary, AgentTypeOK, PCs, policyVars
<1>2. ASSUME NEW t \in Sessions, Message(t) PROVE AgentTypeOK'
  <2>1. ASSUME NEW c \in Calls, ReceiveTool(t, c) PROVE AgentTypeOK'
    <3>1. run' \in Run /\ batches' \in 0..MaxBatches
      BY <1>a, <2>1, BudgetFacts DEF ReceiveTool, StartBatch, Run, Modes, AgentTypeOK
    <3>2. QED
      BY <1>0, <1>a, <2>1, <3>1 DEF ReceiveTool, AgentTypeOK, PCs, policyVars
  <2>2. ASSUME ReceiveChat(t) \/ ReceiveResume(t) PROVE run' \in Run
    BY <1>a, <2>2 DEF ReceiveChat, ReceiveResume, Run
  <2>3. CASE ReceiveChat(t)
    <3>1. pe' \in [Sessions -> PendingExecution \cup {None}] /\ dropped' \subseteq 0..MaxBatches
      BY <1>a, <2>3 DEF ReceiveChat, DiscardExecution, LivePE, AgentTypeOK, PendingExecution
    <3>2. QED
      BY <1>0, <1>a, <2>2, <2>3, <3>1 DEF ReceiveChat, AgentTypeOK, PCs, policyVars
  <2>4. CASE ReceiveResume(t)
    BY <1>0, <1>a, <2>2, <2>4 DEF ReceiveResume, AgentTypeOK, PCs, policyVars
  <2>5. QED
    BY <1>2, <2>1, <2>3, <2>4 DEF Message
<1>3. ASSUME JobStep PROVE AgentTypeOK'
  <2>1. ASSUME job # None PROVE job \in Job
    BY <1>a, <2>1 DEF AgentTypeOK
  <2>2. CASE JobConsume \/ JobGateAllow
    <3>1. job' \in Job
      <4>1. CASE JobConsume
        <5>1. resolved[NoThread] \in Requests \cup {None} /\ job \in Job
          BY <1>a, <2>1, <4>1 DEF JobConsume, AgentTypeOK, TypeOK
        <5>2. QED
          BY <4>1, <5>1 DEF JobConsume, JobThread, Job
      <4>2. CASE JobGateAllow
        BY <2>1, <4>2 DEF JobGateAllow, Job
      <4>3. QED
        BY <2>2, <4>1, <4>2
    <3>2. QED
      BY <1>0, <1>a, <2>2, <3>1 DEF JobConsume, JobGateAllow, AgentTypeOK, agentVars, policyVars
  <2>3. CASE JobExecute
    <3>1. [thread |-> NoThread, batch |-> job.batch, idx |-> 1, call |-> job.call,
           outcome |-> "ran", approval |-> job.approval] \in Entry
      BY <2>1, <2>3 DEF JobExecute, Job, Entry
    <3>2. QED
      BY <1>0, <1>a, <2>3, <3>1 DEF JobExecute, AgentTypeOK, policyVars
  <2>4. QED
    BY <1>0, <1>3, <1>a, <2>2, <2>3
       DEF JobStep, JobRefused, JobGatePause, AgentTypeOK, agentVars, policyVars
<1>4. ASSUME NEW u \in Sessions, NEW c \in JobCalls, JobStart(u, c) PROVE AgentTypeOK'
  <2>1. job' \in Job /\ batches' \in 0..MaxBatches
    BY <1>a, <1>4, BudgetFacts DEF JobStart, Job, AgentTypeOK
  <2>2. QED
    BY <1>0, <1>a, <1>4, <2>1 DEF JobStart, AgentTypeOK, policyVars
<1>5. ASSUME Gateway PROVE AgentTypeOK'
  <2>1. ASSUME NEW u \in Sessions, NEW t \in Threads, NEW r \in Requests,
               handleGateApprove(u, t, r)
        PROVE AgentTypeOK'
    <3>1. ResolveResult(t, r) \in {"live", "again"} => gate[r] # None
      BY <1>a, NoneFacts
         DEF ResolveResult, PendingVerdict, AgentInv, StoreInv, TypeOK, IndexSound, ApprovalSound
    <3>2. gate[r] # None => gate[r].call \in Calls
      BY <1>a DEF AgentTypeOK, TypeOK, PendingGate
    <3>3. teaching' \subseteq Sessions \X Risk!Keys
      BY <1>a, <2>1, <3>1, <3>2 DEF handleGateApprove, Risk!Keys, AgentTypeOK
    <3>4. QED
      BY <1>0, <1>a, <2>1, <3>3 DEF handleGateApprove, AgentTypeOK, agentVars
  <2>2. ASSUME NEW k \in teaching, RecordApproval(k) PROVE AgentTypeOK'
    BY <1>0, <1>a, <2>2 DEF RecordApproval, AgentTypeOK, agentVars, TypeOK
  <2>3. QED
    BY <1>0, <1>5, <1>a, <2>1, <2>2
       DEF Gateway, handleGateDeny, handleGatesPending, DescribeGate, AgentTypeOK,
           agentVars, policyVars
<1>6. CASE TimePasses
  BY <1>0, <1>a, <1>6 DEF TimePasses, AgentTypeOK, agentVars, policyVars
<1>7. CASE UNCHANGED vars
  BY <1>0, <1>a, <1>7 DEF vars, AgentTypeOK, agentVars, policyVars
<1>8. QED
  BY <1>1, <1>2, <1>3, <1>4, <1>5, <1>6, <1>7 DEF Next

\* The log with one entry more.
LEMMA AppendFacts ==
  ASSUME log \in Seq(Entry), NEW e \in Entry, log' = Append(log, e)
  PROVE  /\ Len(log) \in Nat
         /\ DOMAIN log' = DOMAIN log \cup {Len(log) + 1}
         /\ log'[Len(log) + 1] = e
         /\ \A i \in DOMAIN log : log'[i] = log[i] /\ i \in Nat /\ i <= Len(log)
         /\ \A i \in DOMAIN log : log[i] \in Entry
OBVIOUS

\* Gateway handlers, the clock and a stuttering step leave agent and job alone.
LEMMA OutsideSteps ==
  Gateway \/ TimePasses \/ UNCHANGED vars => UNCHANGED <<agentVars, job>>
BY DEF Gateway, TimePasses, vars, handleGateApprove, RecordApproval, handleGateDeny,
       handleGatesPending, DescribeGate

\* What a finished call changes, whichever way it ended.
LEMMA CallDoneFacts ==
  ASSUME AgentInv, DispatchRefused \/ Execute
  PROVE  /\ Active
         /\ run'.thread = run.thread /\ run'.mode = run.mode
         /\ run'.batch = run.batch /\ run'.calls = run.calls
         /\ run'.approval = None
         /\ \/ /\ run.idx < Len(run.calls) /\ run'.idx = run.idx + 1
               /\ pc' = "dispatch" /\ pe' = pe
            \/ /\ run.idx = Len(run.calls) /\ pc' \in {"idle", "summary"}
               /\ pe' = IF run.mode = "resume" THEN [pe EXCEPT ![run.thread] = None]
                        ELSE pe
         /\ UNCHANGED <<storeVars, job, batches, dropped>>
         /\ \E e \in Entry :
              /\ log' = Append(log, e)
              /\ e.thread = run.thread /\ e.batch = run.batch /\ e.idx = run.idx
              /\ e.call = CurrentCall /\ e.approval = run.approval
              /\ e.outcome = "ran" => pc = "execute"
<1>1. Active
  BY DEF DispatchRefused, Execute, Active
<1>2. PICK o \in {"ran", "refused"} : CallDone(o) /\ (o = "ran" => pc = "execute")
  BY DEF DispatchRefused, Execute
<1>3. run \in Run /\ CurrentCall \in Calls /\ run.idx \in 1..Len(run.calls)
  BY <1>1, CurrentCallType DEF AgentInv, BatchInv, AgentTypeOK
<1>4. [thread |-> run.thread, batch |-> run.batch, idx |-> run.idx,
       call |-> CurrentCall, outcome |-> o, approval |-> run.approval] \in Entry
  BY <1>3 DEF Run, Entry, Sessions
<1>5. \E e \in Entry :
        /\ log' = Append(log, e)
        /\ e.thread = run.thread /\ e.batch = run.batch /\ e.idx = run.idx
        /\ e.call = CurrentCall /\ e.approval = run.approval
        /\ e.outcome = "ran" => pc = "execute"
  BY <1>2, <1>4 DEF CallDone
<1>6. /\ run'.thread = run.thread /\ run'.mode = run.mode
      /\ run'.batch = run.batch /\ run'.calls = run.calls
      /\ run'.approval = None
  BY <1>2, <1>3 DEF CallDone, Run
<1>7. \/ /\ run.idx < Len(run.calls) /\ run'.idx = run.idx + 1
         /\ pc' = "dispatch" /\ pe' = pe
      \/ /\ run.idx = Len(run.calls) /\ pc' \in {"idle", "summary"}
         /\ pe' = IF run.mode = "resume" THEN [pe EXCEPT ![run.thread] = None] ELSE pe
  BY <1>2, <1>3 DEF CallDone, EndsBatch, Run
<1>8. UNCHANGED <<storeVars, job, batches, dropped>>
  BY DEF DispatchRefused, Execute
<1>9. QED
  BY <1>1, <1>5, <1>6, <1>7, <1>8

\* What the tool run of a background job changes.
LEMMA JobExecuteFacts ==
  ASSUME AgentInv, JobExecute
  PROVE  /\ job # None /\ job.pc = "execute" /\ job' = None
         /\ UNCHANGED <<storeVars, pc, run, pe, batches, dropped>>
         /\ \E e \in Entry : /\ log' = Append(log, e)
                             /\ e.thread = NoThread /\ e.batch = job.batch
                             /\ e.call = job.call /\ e.approval = job.approval
<1>1. job \in Job
  BY DEF JobExecute, AgentInv, BatchInv, AgentTypeOK
<1>2. [thread |-> NoThread, batch |-> job.batch, idx |-> 1, call |-> job.call,
       outcome |-> "ran", approval |-> job.approval] \in Entry
  BY <1>1, AgentFacts DEF Job, Entry
<1>3. QED
  BY <1>2 DEF JobExecute

\* Each batch stays in one place: with the agent, in one saved execution or with
\* the job, and a dropped batch in none.
LEMMA OwnersStep == AgentInv /\ [Next]_vars => Owners'
<1> SUFFICES ASSUME AgentInv, [Next]_vars PROVE Owners'
  OBVIOUS
<1> USE AgentFacts
<1>a. /\ run \in Run /\ run.thread \in Sessions /\ batches \in Nat
      /\ \A t \in Sessions : pe[t] # None => pe[t] \in PendingExecution /\ pe[t].batch \in Nat
      /\ job # None => job \in Job /\ job.batch \in Nat
      /\ pe \in [Sessions -> PendingExecution \cup {None}]
      /\ log \in Seq(Entry)
  BY DEF AgentInv, BatchInv, AgentTypeOK, Run, PendingExecution, Job
<1>l. \A i \in DOMAIN log : log[i].batch \in Nat
  <2>1. \A i \in DOMAIN log : log[i] \in Entry
    BY <1>a
  <2>2. QED
    BY <2>1 DEF Entry
<1>b. Owners
  BY DEF AgentInv
<1>0. ASSUME UNCHANGED <<agentVars, job>> PROVE Owners'
  BY <1>0, <1>b DEF agentVars, Owners, Active, Resuming
<1>1. ASSUME AgentStep PROVE Owners'
  <2>1. CASE Resume
    BY <1>a, <1>b, <2>1 DEF Resume, Restore, LivePE, Owners, Active, Resuming
  <2>2. ASSUME NEW cs \in Plans, LLMToolCalls(cs) PROVE Owners'
    BY <1>a, <1>b, <1>l, <2>2 DEF LLMToolCalls, StartBatch, Owners, Active, Resuming
  <2>3. CASE DispatchRefused \/ Execute
    <3>1. PICK e \in Entry : log' = Append(log, e) /\ e.batch = run.batch
      BY <2>3, CallDoneFacts
    <3>2. \A i \in DOMAIN log' : log'[i].batch <= batches
      BY <1>a, <1>b, <2>3, <3>1, AppendFacts, CallDoneFacts DEF Owners
    <3>3. /\ Active /\ run'.batch = run.batch /\ run'.mode = run.mode
          /\ run'.thread = run.thread /\ UNCHANGED <<job, batches, dropped>>
      BY <2>3, CallDoneFacts
    <3>4. CASE pe' = pe
      BY <1>b, <3>2, <3>3, <3>4 DEF Owners, Active, Resuming
    <3>5. CASE pe' = [pe EXCEPT ![run.thread] = None] /\ pc' \in {"idle", "summary"}
      <4>1. /\ ~Active'
            /\ \A t \in Sessions : pe'[t] # None => pe'[t] = pe[t] /\ pe[t] # None
        BY <1>a, <3>5 DEF Active
      <4>2. QED
        BY <1>b, <3>2, <3>3, <4>1 DEF Owners
    <3>6. QED
      BY <2>3, <3>4, <3>5, CallDoneFacts
  <2>4. CASE DispatchConsume
    BY <1>a, <1>b, <2>4 DEF DispatchConsume, Owners, Active, Resuming, Run
  <2>5. CASE SavePendingExecution
    BY <1>a, <1>b, <2>5 DEF SavePendingExecution, Owners, Active, Resuming
  <2>6. QED
    BY <1>1, <1>a, <1>b, <2>1, <2>2, <2>3, <2>4, <2>5
       DEF AgentStep, LLMText, GateAllow, GatePause, Summary, Owners, Active, Resuming
<1>2. ASSUME NEW t \in Sessions, Message(t) PROVE Owners'
  <2>1. ASSUME NEW c \in Calls, ReceiveTool(t, c) PROVE Owners'
    BY <1>a, <1>b, <1>l, <2>1 DEF ReceiveTool, StartBatch, Owners, Active, Resuming
  <2>2. CASE ReceiveChat(t)
    <3>1. ~Active' /\ UNCHANGED <<job, batches, log>>
      BY <2>2 DEF ReceiveChat, Active
    <3>2. CASE LivePE(t)
      <4>1. /\ pe' = [pe EXCEPT ![t] = None] /\ dropped' = dropped \cup {pe[t].batch}
            /\ pe[t] # None
        BY <2>2, <3>2 DEF ReceiveChat, DiscardExecution, LivePE
      <4>2. \A u \in Sessions : pe'[u] # None => u # t /\ pe'[u] = pe[u]
        BY <1>a, <4>1
      <4>3. dropped' \subseteq 0..batches
        <5>1. pe[t].batch \in Nat /\ pe[t].batch <= batches /\ dropped \subseteq 0..batches
          BY <1>a, <1>b, <4>1 DEF Owners
        <5>2. pe[t].batch \in 0..batches
          BY <1>a, <5>1
        <5>3. QED
          BY <4>1, <5>1, <5>2, Zenon
      <4>4. QED
        BY <1>b, <3>1, <4>1, <4>2, <4>3 DEF Owners
    <3>3. CASE ~LivePE(t)
      BY <1>b, <2>2, <3>1, <3>3 DEF ReceiveChat, DiscardExecution, Owners
    <3>4. QED
      BY <3>2, <3>3
  <2>3. CASE ReceiveResume(t)
    BY <1>a, <1>b, <2>3 DEF ReceiveResume, Owners, Active, Resuming
  <2>4. QED
    BY <1>2, <2>1, <2>2, <2>3 DEF Message
<1>3. ASSUME JobStep PROVE Owners'
  <2>1. CASE JobExecute
    <3>1. PICK e \in Entry : log' = Append(log, e) /\ e.batch = job.batch
      BY <2>1, JobExecuteFacts
    <3>2. \A i \in DOMAIN log' : log'[i].batch <= batches
      BY <1>a, <1>b, <2>1, <3>1, AppendFacts DEF JobExecute, Owners
    <3>3. QED
      BY <1>a, <1>b, <2>1, <3>2 DEF JobExecute, Owners, Active, Resuming
  <2>2. ASSUME UNCHANGED agentVars, job' # None => job # None /\ job'.batch = job.batch
        PROVE Owners'
    BY <1>b, <2>2 DEF agentVars, Owners, Active, Resuming
  <2>3. CASE JobConsume \/ JobGateAllow
    BY <1>a, <2>2, <2>3 DEF JobConsume, JobGateAllow, Job
  <2>4. QED
    BY <1>3, <2>1, <2>2, <2>3 DEF JobStep, JobRefused, JobGatePause
<1>4. ASSUME NEW u \in Sessions, NEW c \in JobCalls, JobStart(u, c) PROVE Owners'
  <2>1. job'.batch = batches + 1 /\ batches' = batches + 1 /\ UNCHANGED <<pc, run, pe, log, dropped>>
    BY <1>4 DEF JobStart
  <2>2. QED
    BY <1>a, <1>b, <1>l, <2>1 DEF Owners, Active, Resuming, Run
<1>5. QED
  BY <1>0, <1>1, <1>2, <1>3, <1>4, OutsideSteps DEF Next

\* Time does not run backwards.
LEMMA NowGrows == AgentInv /\ [Next]_vars => now \in Nat /\ now' \in Nat /\ now <= now'
<1> SUFFICES ASSUME AgentInv, [Next]_vars PROVE now \in Nat /\ now' \in Nat /\ now <= now'
  OBVIOUS
<1>1. now \in Nat
  BY DEF AgentInv, StoreInv, TypeOK
<1>2. [StoreNext]_storeVars
  BY StoreMoves
<1>3. now' \in {now, now + 1}
  BY <1>1, <1>2 DEF StoreNext, storeVars, Create, Get, GetByRequestID, Resolve, Deny,
                   ConsumeResolved, ClearResolved, List, Tick
<1>4. QED
  BY <1>1, <1>3

\* A saved execution that is not live stays so until it is replaced.
LEMMA DeadStaysDead ==
  ASSUME AgentInv, [Next]_vars, NEW t \in Sessions, ~LivePE(t),
         pe'[t] # None => pe'[t] = pe[t]
  PROVE  ~(pe'[t] # None /\ now' <= pe'[t].expiresAt)
<1>1. pe[t] # None => pe[t].expiresAt \in Nat
  BY DEF AgentInv, BatchInv, AgentTypeOK, PendingExecution
<1>2. QED
  BY <1>1, NowGrows DEF LivePE

\* A chat message drops the live execution of its thread before the LLM is asked,
\* so the batch that follows replaces none.
LEMMA ReplaceableStep == AgentInv /\ [Next]_vars => Replaceable'
<1> SUFFICES ASSUME AgentInv, [Next]_vars,
                    pc' = "llm" \/ (Active' /\ run'.mode = "batch")
             PROVE ~(pe'[run'.thread] # None /\ now' <= pe'[run'.thread].expiresAt)
  BY DEF Replaceable, LivePE
<1>a. /\ run \in Run /\ run.thread \in Sessions
      /\ pe \in [Sessions -> PendingExecution \cup {None}]
      /\ Replaceable
  BY DEF AgentInv, BatchInv, AgentTypeOK, Run
<1> DEFINE Goal == ~(pe'[run'.thread] # None /\ now' <= pe'[run'.thread].expiresAt)
<1>b. ASSUME pc = "llm" \/ (Active /\ run.mode = "batch"), run'.thread = run.thread, pe' = pe
      PROVE Goal
  BY <1>a, <1>b, DeadStaysDead DEF Replaceable
<1>0. ASSUME UNCHANGED <<agentVars, job>> PROVE Goal
  BY <1>0, <1>b DEF agentVars, Active
<1>1. ASSUME AgentStep PROVE Goal
  <2>1. CASE Resume
    BY <2>1 DEF Resume, Restore, Active
  <2>2. ASSUME NEW cs \in Plans, LLMToolCalls(cs) PROVE Goal
    BY <1>b, <2>2 DEF LLMToolCalls, StartBatch
  <2>3. CASE DispatchRefused \/ Execute
    BY <1>b, <2>3, CallDoneFacts DEF Active
  <2>4. CASE DispatchConsume
    BY <1>a, <1>b, <2>4 DEF DispatchConsume, Active, Run
  <2>5. QED
    BY <1>1, <1>b, <2>1, <2>2, <2>3, <2>4
       DEF AgentStep, LLMText, GateAllow, GatePause, SavePendingExecution, Summary, Active
<1>2. ASSUME NEW t \in Sessions, Message(t) PROVE Goal
  <2>1. ASSUME NEW c \in Calls, ReceiveTool(t, c) PROVE Goal
    BY <2>1 DEF ReceiveTool, StartBatch, Active
  <2>2. CASE ReceiveChat(t)
    <3>1. run'.thread = t
      BY <1>a, <2>2 DEF ReceiveChat, Run
    <3>2. CASE LivePE(t)
      BY <1>a, <2>2, <3>1, <3>2 DEF ReceiveChat, DiscardExecution
    <3>3. CASE ~LivePE(t)
      BY <1>a, <2>2, <3>1, <3>3, DeadStaysDead DEF ReceiveChat, DiscardExecution
    <3>4. QED
      BY <3>2, <3>3
  <2>3. CASE ReceiveResume(t)
    <3>1. run'.thread = t /\ pe' = pe
      BY <1>a, <2>3 DEF ReceiveResume, Run
    <3>2. ~LivePE(t)
      BY <2>3 DEF ReceiveResume, Active
    <3>3. QED
      BY <3>1, <3>2, DeadStaysDead
  <2>4. QED
    BY <1>2, <2>1, <2>2, <2>3 DEF Message
<1>3. ASSUME JobStep PROVE Goal
  BY <1>3, <1>b DEF JobStep, JobRefused, JobConsume, JobGateAllow, JobGatePause,
                    JobExecute, agentVars, Active
<1>4. ASSUME NEW u \in Sessions, NEW c \in JobCalls, JobStart(u, c) PROVE Goal
  BY <1>4, <1>b DEF JobStart, Active
<1>5. QED
  BY <1>0, <1>1, <1>2, <1>3, <1>4, OutsideSteps DEF Next

\* An entry of another batch leaves the position of a batch alone.
LEMMA EndedKept ==
  ASSUME log \in Seq(Entry), NEW e \in Entry, log' = Append(log, e),
         NEW b, NEW n, b # e.batch
  PROVE  EndedBefore(b, n)' <=> EndedBefore(b, n)
BY AppendFacts DEF EndedBefore

\* What makes the n-th call the next one of batch b.
LEMMA EndedIntro ==
  ASSUME NEW b, NEW n \in Nat,
         \A i \in DOMAIN log' : log'[i].batch = b => log'[i].idx < n,
         \A k \in 1..(n - 1) : \E i \in DOMAIN log' : log'[i].batch = b /\ log'[i].idx = k
  PROVE  EndedBefore(b, n)'
BY DEF EndedBefore

\* The call at the position of its batch ended: the position moves on by one.
LEMMA EndedNext ==
  ASSUME log \in Seq(Entry), NEW e \in Entry, log' = Append(log, e),
         NEW b, NEW n \in Nat \ {0}, e.batch = b, e.idx = n, EndedBefore(b, n)
  PROVE  EndedBefore(b, n + 1)'
<1>1. \A i \in DOMAIN log' : log'[i].batch = b => log'[i].idx < n + 1
  BY AppendFacts DEF EndedBefore, Entry
<1>2. ASSUME NEW k \in 1..(n + 1 - 1)
      PROVE \E i \in DOMAIN log' : log'[i].batch = b /\ log'[i].idx = k
  <2>1. CASE k = n
    BY <2>1, AppendFacts
  <2>2. CASE k \in 1..(n - 1)
    BY <2>2, AppendFacts DEF EndedBefore
  <2>3. QED
    BY <1>2, <2>1, <2>2
<1>3. n + 1 \in Nat
  OBVIOUS
<1>4. QED
  BY <1>1, <1>2, <1>3, EndedIntro

\* A batch that has not begun has no entry.
LEMMA EndedNone ==
  ASSUME NEW b, \A i \in DOMAIN log : log[i].batch # b
  PROVE  EndedBefore(b, 1)
BY DEF EndedBefore

\* The log is read in no other way than by its entries.
LEMMA EndedSame ==
  ASSUME log' = log, NEW b, NEW n
  PROVE  EndedBefore(b, n)' <=> EndedBefore(b, n)
BY DEF EndedBefore

\* Agent, saved executions and job stand where the log says, whatever the step.
LEMMA PositionsStep == AgentInv /\ [Next]_vars => Positions'
<1> SUFFICES ASSUME AgentInv, [Next]_vars PROVE Positions'
  OBVIOUS
<1> USE AgentFacts
<1>a. /\ run \in Run /\ run.thread \in Sessions /\ batches \in Nat
      /\ run.calls \in Seq(Calls) /\ run.idx \in Nat
      /\ \A t \in Sessions : pe[t] # None =>
           /\ pe[t] \in PendingExecution /\ pe[t].batch \in Nat
           /\ pe[t].calls \in Seq(Calls)
      /\ job # None => job \in Job /\ job.batch \in Nat
      /\ pe \in [Sessions -> PendingExecution \cup {None}]
      /\ log \in Seq(Entry)
  BY DEF AgentInv, BatchInv, AgentTypeOK, Run, PendingExecution, Job
<1>l. \A i \in DOMAIN log : log[i].batch \in Nat
  <2>1. \A i \in DOMAIN log : log[i] \in Entry
    BY <1>a
  <2>2. QED
    BY <2>1 DEF Entry
<1>b. Owners /\ Positions /\ AgentTypeOK
  BY DEF AgentInv, BatchInv
<1>n. EndedBefore(batches + 1, 1)
  <2>1. \A i \in DOMAIN log : log[i].batch # batches + 1
    BY <1>a, <1>b, <1>l DEF Owners
  <2>2. QED
    BY <2>1, EndedNone
\* The steps that leave the log alone.
<1>s. ASSUME log' = log,
             Active' => run'.idx \in DOMAIN run'.calls /\ EndedBefore(run'.batch, run'.idx),
             pc' = "save" => run'.mode # "direct",
             pc' = "llm" => batches' < MaxBatches,
             \A t \in Sessions : pe'[t] # None =>
               /\ pe'[t].next \in DOMAIN pe'[t].calls
               /\ ~Resuming(t)' => EndedBefore(pe'[t].batch, pe'[t].next),
             job' # None => \A i \in DOMAIN log : log[i].batch # job'.batch
      PROVE Positions'
  BY <1>s, EndedSame DEF Positions
<1>0. ASSUME UNCHANGED <<agentVars, job>> PROVE Positions'
  BY <1>0, <1>b DEF agentVars, Positions, Active, Resuming, EndedBefore
<1>1. ASSUME AgentStep PROVE Positions'
  <2>1. CASE Resume
    <3>1. /\ Active' => run'.idx \in DOMAIN run'.calls /\ EndedBefore(run'.batch, run'.idx)
          /\ pc' # "save" /\ pc' # "llm" /\ log' = log /\ job' = job /\ pe' = pe
      BY <1>a, <1>b, <2>1
         DEF Resume, Restore, NextIndex, LivePE, Positions, Active, Resuming
    <3>2. QED
      BY <1>b, <1>s, <2>1, <3>1 DEF Resume, Positions, Active, Resuming
  <2>2. ASSUME NEW cs \in Plans, LLMToolCalls(cs) PROVE Positions'
    <3>1. run'.idx \in DOMAIN run'.calls /\ EndedBefore(run'.batch, run'.idx)
      BY <1>n, <2>2 DEF LLMToolCalls, StartBatch
    <3>2. QED
      BY <1>b, <1>s, <2>2, <3>1 DEF LLMToolCalls, StartBatch, Positions, Active, Resuming
  <2>3. CASE DispatchRefused \/ Execute
    <3>1. PICK e \in Entry : log' = Append(log, e) /\ e.batch = run.batch /\ e.idx = run.idx
      BY <2>3, CallDoneFacts
    <3>2. run.idx \in 1..Len(run.calls) /\ EndedBefore(e.batch, e.idx)
      BY <1>b, <2>3, <3>1, CallDoneFacts, CurrentCallType DEF Positions
    <3>3. EndedBefore(e.batch, e.idx + 1)'
      BY <1>a, <3>1, <3>2, EndedNext
    <3>4. (Active => run.idx \in DOMAIN run.calls /\ EndedBefore(run.batch, run.idx))'
      BY <1>a, <2>3, <3>1, <3>2, <3>3, CallDoneFacts DEF Active, EndedBefore
    <3>5. ASSUME NEW t \in Sessions, pe'[t] # None
          PROVE  /\ pe'[t].next \in DOMAIN pe'[t].calls
                 /\ (~Resuming(t) => EndedBefore(pe[t].batch, pe[t].next))'
      <4>1. pe'[t] = pe[t] /\ pe[t] # None
        BY <1>a, <2>3, <3>5, CallDoneFacts
      <4>2. Resuming(t)' <=> Resuming(t)
        BY <1>a, <2>3, <3>5, CallDoneFacts DEF Resuming, Active
      <4>3. ~Resuming(t) => pe[t].batch # e.batch
        BY <1>b, <2>3, <3>1, <4>1, CallDoneFacts DEF Owners
      <4>4. QED
        BY <1>a, <1>b, <3>1, <4>1, <4>2, <4>3, EndedKept DEF Positions
    <3>6. job' # None => \A i \in DOMAIN log' : log'[i].batch # job'.batch
      BY <1>a, <1>b, <2>3, <3>1, AppendFacts, CallDoneFacts DEF Positions, Owners
    <3>7. QED
      BY <2>3, <3>4, <3>5, <3>6, CallDoneFacts DEF Positions
  <2>4. CASE DispatchConsume
    BY <1>a, <1>b, <1>s, <2>4 DEF DispatchConsume, Positions, Active, Resuming, Run
  <2>5. CASE SavePendingExecution
    BY <1>a, <1>b, <1>s, <2>5 DEF SavePendingExecution, Positions, Active, Resuming
  <2>6. CASE LLMText \/ GateAllow \/ Summary
    BY <1>b, <1>s, <2>6 DEF LLMText, GateAllow, Summary, Positions, Active, Resuming
  <2>7. ASSUME NEW r \in Requests, GatePause(r) PROVE Positions'
    BY <1>b, <1>s, <2>7 DEF GatePause, Positions, Active, Resuming
  <2>8. QED
    BY <1>1, <2>1, <2>2, <2>3, <2>4, <2>5, <2>6, <2>7 DEF AgentStep
<1>2. ASSUME NEW t \in Sessions, Message(t) PROVE Positions'
  <2>1. ASSUME NEW c \in Calls, ReceiveTool(t, c) PROVE Positions'
    <3>1. run'.idx \in DOMAIN run'.calls /\ EndedBefore(run'.batch, run'.idx)
      BY <1>n, <2>1 DEF ReceiveTool, StartBatch
    <3>2. QED
      BY <1>b, <1>s, <2>1, <3>1 DEF ReceiveTool, StartBatch, Positions, Active, Resuming
  <2>2. CASE ReceiveChat(t)
    BY <1>a, <1>b, <1>s, <2>2, BudgetFacts
       DEF ReceiveChat, DiscardExecution, Positions, Active, Resuming
  <2>3. CASE ReceiveResume(t)
    BY <1>a, <1>b, <1>s, <2>3, BudgetFacts DEF ReceiveResume, Positions, Active, Resuming
  <2>4. QED
    BY <1>2, <2>1, <2>2, <2>3 DEF Message
<1>3. ASSUME JobStep PROVE Positions'
  <2>1. CASE JobExecute
    <3>1. PICK e \in Entry : log' = Append(log, e) /\ e.batch = job.batch
      BY <2>1, JobExecuteFacts
    <3>2. UNCHANGED <<pc, run, pe, batches>> /\ job' = None /\ job # None
      BY <2>1 DEF JobExecute
    <3>3. Active => run.batch # e.batch
      BY <1>b, <3>1, <3>2 DEF Owners
    <3>4. \A t \in Sessions : pe[t] # None => pe[t].batch # e.batch
      BY <1>b, <3>1, <3>2 DEF Owners
    <3>5. QED
      BY <1>a, <1>b, <3>1, <3>2, <3>3, <3>4, EndedKept DEF Positions, Active, Resuming
  <2>2. ASSUME UNCHANGED agentVars, job' # None => job # None /\ job'.batch = job.batch
        PROVE Positions'
    BY <1>b, <2>2 DEF agentVars, Positions, Active, Resuming, EndedBefore
  <2>3. CASE JobConsume \/ JobGateAllow
    BY <1>a, <2>2, <2>3 DEF JobConsume, JobGateAllow, Job
  <2>4. QED
    BY <1>3, <2>1, <2>2, <2>3 DEF JobStep, JobRefused, JobGatePause
<1>4. ASSUME NEW u \in Sessions, NEW c \in JobCalls, JobStart(u, c) PROVE Positions'
  <2>1. \A i \in DOMAIN log : log[i].batch # job'.batch
    BY <1>a, <1>b, <1>l, <1>4 DEF JobStart, Owners
  <2>2. pc = "llm" => batches' < MaxBatches
    BY <1>4, <1>a, <1>b, BudgetFacts DEF JobStart
  <2>3. QED
    BY <1>4, <1>b, <1>s, <2>1, <2>2 DEF JobStart, Positions, Active, Resuming
<1>5. QED
  BY <1>0, <1>1, <1>2, <1>3, <1>4, OutsideSteps DEF Next

\* Calls of a batch end in the order the LLM gave them, and all of them before
\* the summary.
LEMMA BatchStep == AgentInv /\ [Next]_vars => BatchInv'
<1> SUFFICES ASSUME AgentInv, [Next]_vars PROVE BatchInv'
  OBVIOUS
<1> USE AgentFacts
<1>a. /\ log \in Seq(Entry) /\ run.calls \in Seq(Calls)
      /\ job # None => job \in Job
      /\ Positions /\ BatchOrder /\ BatchComplete
  BY DEF AgentInv, BatchInv, AgentTypeOK, Run
<1>b. AgentTypeOK'
  BY AgentTypeStep
\* One entry more, behind all entries of its batch.
<1>c. ASSUME NEW e \in Entry, log' = Append(log, e),
             \A i \in DOMAIN log : log[i].batch = e.batch => log[i].idx < e.idx
      PROVE  BatchOrder'
  BY <1>a, <1>c, AppendFacts DEF BatchOrder
<1>d. ASSUME log' = log, pc' = "summary" => pc = "summary" /\ run' = run PROVE BatchInv'
  BY <1>a, <1>b, <1>d DEF BatchInv, BatchOrder, BatchComplete
<1>0. ASSUME UNCHANGED <<agentVars, job>> PROVE BatchInv'
  BY <1>0, <1>d DEF agentVars
<1>1. ASSUME AgentStep PROVE BatchInv'
  <2>1. CASE DispatchRefused \/ Execute
    <3>1. PICK e \in Entry : log' = Append(log, e) /\ e.batch = run.batch /\ e.idx = run.idx
      BY <2>1, CallDoneFacts
    <3>2. run.idx \in 1..Len(run.calls) /\ EndedBefore(run.batch, run.idx)
      BY <1>a, <2>1, CallDoneFacts, CurrentCallType DEF Positions
    <3>3. BatchOrder'
      BY <1>c, <3>1, <3>2 DEF EndedBefore
    <3>4. BatchComplete'
      <4>1. SUFFICES ASSUME pc' = "summary", NEW n \in DOMAIN run'.calls
                     PROVE \E i \in DOMAIN log' : log'[i].batch = run'.batch /\ log'[i].idx = n
        BY DEF BatchComplete
      <4>2. run'.calls = run.calls /\ run'.batch = run.batch /\ run.idx = Len(run.calls)
        BY <2>1, <4>1, CallDoneFacts
      <4>3. CASE n = run.idx
        BY <1>a, <3>1, <4>2, <4>3, AppendFacts
      <4>4. CASE n \in 1..(run.idx - 1)
        BY <1>a, <3>1, <3>2, <4>2, <4>4, AppendFacts DEF EndedBefore
      <4>5. QED
        BY <1>a, <3>2, <4>1, <4>2, <4>3, <4>4
    <3>5. QED
      BY <1>b, <3>3, <3>4 DEF BatchInv
  <2>2. QED
    BY <1>1, <1>d, <2>1
       DEF AgentStep, Resume, LLMText, LLMToolCalls, DispatchConsume, GateAllow, GatePause,
           SavePendingExecution, Summary
<1>2. ASSUME NEW t \in Sessions, Message(t) PROVE BatchInv'
  BY <1>2, <1>d DEF Message, ReceiveTool, ReceiveChat, ReceiveResume
<1>3. ASSUME JobStep PROVE BatchInv'
  <2>1. CASE JobExecute
    <3>1. PICK e \in Entry : log' = Append(log, e) /\ e.batch = job.batch
      BY <2>1, JobExecuteFacts
    <3>2. BatchOrder'
      BY <1>a, <1>c, <2>1, <3>1 DEF JobExecute, Positions
    <3>3. BatchComplete'
      <4>1. UNCHANGED <<pc, run>>
        BY <2>1 DEF JobExecute
      <4>2. \A i \in DOMAIN log : i \in DOMAIN log' /\ log'[i] = log[i]
        BY <1>a, <3>1, AppendFacts
      <4>3. QED
        BY <1>a, <4>1, <4>2 DEF BatchComplete
    <3>4. QED
      BY <1>b, <3>2, <3>3 DEF BatchInv
  <2>2. QED
    BY <1>3, <1>d, <2>1
       DEF JobStep, JobRefused, JobConsume, JobGateAllow, JobGatePause, agentVars
<1>4. ASSUME NEW u \in Sessions, NEW c \in JobCalls, JobStart(u, c) PROVE BatchInv'
  BY <1>4, <1>d DEF JobStart
<1>5. QED
  BY <1>0, <1>1, <1>2, <1>3, <1>4, OutsideSteps DEF Next

\* The gates let no high-risk call pass by themselves (ApprovalGate.Evaluate).
LEMMA GateStopsHighRisk ==
  ASSUME NEW c, NEW u, Risk!Decision(c, u, "interactive") = "allow"
  PROVE  ~HighRisk(c)
BY DEF Risk!Decision, Risk!Requirement, HighRisk

\* An approval taken out of the store does not come back.
LEMMA SpentStays ==
  ASSUME StoreInv, [StoreNext]_storeVars, NEW r \in Requests, NEW t, Spent(r, t)
  PROVE  Spent(r, t)'
<1> USE NoneFacts DEF StoreInv, TypeOK, Spent
<1>1. r \in granted'
  BY DEF StoreNext, storeVars, Create, Get, GetByRequestID, Resolve, Deny,
         ConsumeResolved, ClearResolved, List, Tick
<1>2. gate'[r] = gate[r]
  BY DEF StoreNext, storeVars, Create, Fresh, Get, GetByRequestID, Resolve, Deny,
         ConsumeResolved, ClearResolved, List, Tick
<1>3. ASSUME NEW u \in Threads PROVE resolved'[u] # r
  <2>1. ASSUME NEW v \in Threads, NEW q \in Requests, Resolve(v, q) PROVE resolved'[u] # r
    <3>1. ResolveResult(v, q) = "live" => byKey[v] = q /\ q \notin granted
      BY DEF ResolveResult, PendingVerdict, OneAnswer
    <3>2. QED
      BY <2>1, <3>1 DEF Resolve
  <2>2. QED
    BY <2>1 DEF StoreNext, storeVars, Create, Get, GetByRequestID, Deny,
                ConsumeResolved, ClearResolved, List, Tick
<1>4. QED
  BY <1>1, <1>2, <1>3

\* An approval lies in the store, is spent on the call at hand, or is in the log;
\* no thread but that of a session ever has one.
LEMMA ApprovalsStep == AgentInv /\ [Next]_vars => Approvals'
<1> SUFFICES ASSUME AgentInv, [Next]_vars PROVE Approvals'
  OBVIOUS
<1> USE AgentFacts, NoneFacts
<1>a. /\ run \in Run /\ run.thread \in Sessions /\ run.thread \in Threads
      /\ log \in Seq(Entry)
      /\ job # None => job \in Job
      /\ resolved \in [Threads -> Requests \cup {None}]
  BY DEF AgentInv, BatchInv, AgentTypeOK, Run, Sessions, TypeOK
<1>b. Approvals /\ StoreInv /\ [StoreNext]_storeVars
  BY StoreMoves DEF AgentInv
<1>c. /\ run.approval \in Requests \cup {None}
      /\ \A i \in DOMAIN log : log[i].approval \in Requests \cup {None}
  <2>1. \A i \in DOMAIN log : log[i] \in Entry
    BY <1>a
  <2>2. QED
    BY <1>a, <2>1 DEF Entry, Run
<1>d. /\ run.approval # None => Spent(run.approval, run.thread) /\ pc = "execute"
      /\ \A i \in DOMAIN log : log[i].approval # None => Spent(log[i].approval, log[i].thread)
  BY <1>b DEF Approvals
<1>e. \A r \in Requests : \A t : Spent(r, t) => Spent(r, t)'
  BY <1>b, SpentStays
\* Only the gateway puts an approval into the store, and it asks for a thread.
<1>f. resolved'[NoThread] = None
  <2>1. resolved[NoThread] = None /\ NoThread \notin Sessions
    BY <1>b DEF Approvals, Sessions
  <2>2. ASSUME NEW u, NEW t \in Threads, NEW r, handleGateApprove(u, t, r)
        PROVE resolved'[NoThread] = None
    BY <1>a, <2>1, <2>2 DEF handleGateApprove, HasThread, Resolve
  <2>3. ASSUME AgentStep \/ \E t \in Sessions : Message(t) PROVE resolved'[NoThread] = None
    BY <1>a, <2>1, <2>3
       DEF AgentStep, Resume, LLMText, LLMToolCalls, DispatchRefused, DispatchConsume,
           GateAllow, GatePause, SavePendingExecution, Execute, Summary, storeVars,
           ConsumeResolved, Create, Message, ReceiveTool, ReceiveChat, DiscardExecution,
           ReceiveResume, ClearResolved, Get
  <2>4. ASSUME JobStep \/ \E u \in Sessions, c \in JobCalls : JobStart(u, c)
        PROVE resolved'[NoThread] = None
    BY <1>a, <2>1, <2>4
       DEF JobStep, JobStart, JobRefused, JobConsume, JobThread, JobGateAllow, JobGatePause,
           JobExecute, storeVars, ConsumeResolved, Create
  <2>5. QED
    BY <1>a, <2>1, <2>2, <2>3, <2>4
       DEF Next, Gateway, RecordApproval, handleGateDeny, handleGatesPending, DescribeGate,
           TimePasses, vars, storeVars, Deny, List, Get, Tick
<1> DEFINE JobPart ==
      job' # None => job'.approval = None /\ (job'.pc = "execute" => ~HighRisk(job'.call))
<1>j. ASSUME job' = job \/ job' = None PROVE JobPart
  BY <1>b, <1>j DEF Approvals
\* The log is kept, and the call at hand has no approval yet.
<1>g. ASSUME log' = log, run'.approval = None, pc' # "execute", JobPart PROVE Approvals'
  BY <1>c, <1>d, <1>e, <1>f, <1>g DEF Approvals
<1>h. ASSUME log' = log, run' = run, pc' = pc, JobPart PROVE Approvals'
  BY <1>b, <1>c, <1>d, <1>e, <1>f, <1>h DEF Approvals, CurrentCall
<1>i. pc # "execute" => run.approval = None
  BY <1>d
<1>0. ASSUME UNCHANGED <<agentVars, job>> PROVE Approvals'
  BY <1>0, <1>h, <1>j DEF agentVars
<1>1. ASSUME AgentStep PROVE Approvals'
  <2>1. CASE DispatchRefused \/ Execute
    <3>1. PICK e \in Entry : /\ log' = Append(log, e)
                            /\ e.thread = run.thread /\ e.approval = run.approval
      BY <2>1, CallDoneFacts
    <3>2. run'.approval = None /\ pc' # "execute" /\ job' = job
      BY <2>1, CallDoneFacts
    <3>3. ASSUME NEW i \in DOMAIN log', log'[i].approval # None
          PROVE  (Spent(log[i].approval, log[i].thread))'
      <4>1. CASE i \in DOMAIN log
        BY <1>a, <1>c, <1>d, <1>e, <3>1, <3>3, <4>1, AppendFacts
      <4>2. CASE i = Len(log) + 1
        BY <1>a, <1>c, <1>d, <1>e, <3>1, <3>3, <4>2, AppendFacts
      <4>3. QED
        BY <1>a, <3>1, <3>3, <4>1, <4>2, AppendFacts
    <3>4. QED
      BY <1>f, <1>j, <3>2, <3>3 DEF Approvals
  <2>2. CASE DispatchConsume
    <3>1. CASE resolved[run.thread] = None
      BY <1>a, <1>g, <1>j, <2>2, <3>1 DEF DispatchConsume, Run
    <3>2. CASE resolved[run.thread] # None
      <4> DEFINE r == resolved[run.thread]
      <4>1. r \in granted /\ gate[r] # None /\ gate[r].thread = run.thread /\ r \in Requests
        BY <1>a, <1>b, <3>2 DEF StoreInv, ApprovalSound
      <4>2. \A u \in Threads : u # run.thread => resolved[u] # r
        BY <1>a, <1>b, <3>2, <4>1 DEF StoreInv, ApprovalSound
      <4>3. run'.thread = run.thread /\ run'.approval = r /\ pc' = "execute"
        BY <1>a, <2>2, <3>2 DEF DispatchConsume, Run
      <4>4. Spent(run.approval, run.thread)'
        BY <1>a, <2>2, <3>2, <4>1, <4>2, <4>3 DEF DispatchConsume, ConsumeResolved, Spent
      <4>5. \A i \in DOMAIN log : log[i].approval # None => log[i].approval # r
        BY <1>a, <1>d DEF Spent
      <4>6. log' = log /\ job' = job
        BY <2>2 DEF DispatchConsume
      <4> HIDE DEF r
      <4>7. QED
        BY <1>c, <1>d, <1>e, <1>f, <1>j, <3>2, <4>1, <4>3, <4>4, <4>5, <4>6 DEF Approvals
    <3>3. QED
      BY <3>1, <3>2
  <2>3. CASE GateAllow
    <3>1. ~HighRisk(CurrentCall)
      BY <2>3, GateStopsHighRisk DEF GateAllow, GateDecision
    <3>2. run' = run /\ log' = log /\ job' = job /\ run.approval = None
      BY <1>i, <2>3 DEF GateAllow
    <3>3. QED
      BY <1>c, <1>d, <1>e, <1>f, <1>j, <3>1, <3>2 DEF Approvals, CurrentCall
  <2>4. CASE Resume
    BY <1>g, <1>i, <1>j, <2>4 DEF Resume, Restore
  <2>5. ASSUME NEW cs \in Plans, LLMToolCalls(cs) PROVE Approvals'
    BY <1>g, <1>j, <2>5 DEF LLMToolCalls, StartBatch
  <2>6. QED
    BY <1>1, <1>g, <1>i, <1>j, <2>1, <2>2, <2>3, <2>4, <2>5
       DEF AgentStep, LLMText, GatePause, SavePendingExecution, Summary
<1>2. ASSUME NEW t \in Sessions, Message(t) PROVE Approvals'
  <2>1. run'.approval = None /\ pc' # "execute" /\ log' = log /\ job' = job
    BY <1>2, <1>a, <1>i DEF Message, ReceiveTool, StartBatch, ReceiveChat, ReceiveResume, Run
  <2>2. QED
    BY <1>g, <1>j, <2>1
<1>3. ASSUME JobStep PROVE Approvals'
  <2>1. CASE JobExecute
    <3>1. PICK e \in Entry : log' = Append(log, e) /\ e.approval = None
      BY <1>b, <2>1, JobExecuteFacts DEF Approvals
    <3>2. \A i \in DOMAIN log' : log'[i].approval # None =>
            i \in DOMAIN log /\ log'[i] = log[i]
      BY <1>a, <3>1, AppendFacts
    <3>3. run' = run /\ pc' = pc /\ job' = None
      BY <2>1, JobExecuteFacts
    <3>4. QED
      BY <1>b, <1>c, <1>d, <1>e, <1>f, <3>2, <3>3 DEF Approvals, CurrentCall
  <2>2. CASE JobConsume
    <3>1. job' # None => job'.approval = None /\ job'.pc = "gate"
      BY <1>a, <1>b, <2>2 DEF JobConsume, JobThread, Job, Approvals
    <3>2. QED
      BY <1>h, <2>2, <3>1 DEF JobConsume, agentVars
  <2>3. CASE JobGateAllow
    <3>1. job'.approval = None /\ job'.call = job.call
      BY <1>a, <1>b, <2>3 DEF JobGateAllow, Job, Approvals
    <3>2. ~HighRisk(job.call)
      BY <2>3, GateStopsHighRisk DEF JobGateAllow, JobDecision
    <3>3. QED
      BY <1>h, <2>3, <3>1, <3>2 DEF JobGateAllow, agentVars
  <2>4. QED
    BY <1>3, <1>h, <1>j, <2>1, <2>2, <2>3 DEF JobStep, JobRefused, JobGatePause, agentVars
<1>4. ASSUME NEW u \in Sessions, NEW c \in JobCalls, JobStart(u, c) PROVE Approvals'
  BY <1>4, <1>h DEF JobStart
<1>5. QED
  BY <1>0, <1>1, <1>2, <1>3, <1>4, OutsideSteps DEF Next

\* Each new entry of the log is authorised by the approval that is spent on it.
LEMMA AuthorityStep == AgentInv /\ [Next]_vars => AuthorityInv'
<1> SUFFICES ASSUME AgentInv, [Next]_vars PROVE AuthorityInv'
  OBVIOUS
<1>a. /\ run.thread \in Sessions /\ log \in Seq(Entry)
      /\ Approvals /\ Authorised /\ BackgroundNeverHighRisk
  BY DEF AgentInv, BatchInv, AuthorityInv, AgentTypeOK, Run
<1>b. Approvals' /\ StoreInv'
  BY ApprovalsStep, StoreMoves, StoreStep DEF AgentInv
<1>c. \A i \in DOMAIN log' : log'[i].approval # None =>
        /\ log'[i].approval \in granted' \ refused'
        /\ gate'[log'[i].approval].thread = log'[i].thread
  BY <1>b DEF Approvals, Spent, StoreInv, OneAnswer
<1>d. ASSUME NEW e \in Entry, log' = Append(log, e),
             e.outcome = "ran" /\ HighRisk(e.call) => e.approval # None,
             e.thread = NoThread => ~HighRisk(e.call),
             e.approval # None => \A i \in DOMAIN log : log[i].approval # e.approval
      PROVE  AuthorityInv'
  <2>1. \A i \in DOMAIN log' :
          log'[i].outcome = "ran" /\ HighRisk(log'[i].call) => log'[i].approval # None
    BY <1>a, <1>d, AppendFacts DEF Authorised
  <2>2. \A i \in DOMAIN log' : log'[i].thread = NoThread => ~HighRisk(log'[i].call)
    BY <1>a, <1>d, AppendFacts DEF BackgroundNeverHighRisk
  <2>3. \A i, j \in DOMAIN log' :
          log'[i].approval = log'[j].approval => i = j \/ log'[i].approval = None
    BY <1>a, <1>d, AppendFacts DEF Authorised
  <2>4. QED
    BY <1>c, <2>1, <2>2, <2>3 DEF AuthorityInv, Authorised, BackgroundNeverHighRisk
<1>e. ASSUME log' = log PROVE AuthorityInv'
  BY <1>a, <1>c, <1>e DEF AuthorityInv, Authorised, BackgroundNeverHighRisk
<1>1. CASE DispatchRefused \/ Execute
  <2>1. PICK e \in Entry : /\ log' = Append(log, e)
                           /\ e.thread = run.thread /\ e.approval = run.approval
                           /\ e.call = CurrentCall
                           /\ e.outcome = "ran" => pc = "execute"
    BY <1>1, CallDoneFacts
  <2>2. e.outcome = "ran" /\ HighRisk(e.call) => e.approval # None
    BY <1>a, <2>1 DEF Approvals
  <2>3. e.approval # None => \A i \in DOMAIN log : log[i].approval # e.approval
    BY <1>a, <2>1 DEF Approvals
  <2>4. e.thread # NoThread
    BY <1>a, <2>1 DEF Sessions
  <2>5. QED
    BY <1>d, <2>1, <2>2, <2>3, <2>4
<1>2. CASE JobExecute
  <2>1. PICK e \in Entry : /\ log' = Append(log, e)
                           /\ e.call = job.call /\ e.approval = job.approval
    BY <1>2, JobExecuteFacts
  <2>2. ~HighRisk(e.call) /\ e.approval = None
    BY <1>2, <1>a, <2>1, JobExecuteFacts DEF Approvals
  <2>3. QED
    BY <1>d, <2>1, <2>2
<1>3. QED
  BY <1>1, <1>2, <1>e, OutsideSteps
     DEF Next, AgentStep, Resume, LLMText, LLMToolCalls, DispatchConsume, GateAllow,
         GatePause, SavePendingExecution, Summary, Message, ReceiveTool, ReceiveChat,
         ReceiveResume, JobStep, JobStart, JobRefused, JobConsume, JobGateAllow,
         JobGatePause, agentVars

\* A fresh process satisfies the invariant: no message, no job, no approval.
LEMMA AgentInit == Init => AgentInv
<1> SUFFICES ASSUME Init PROVE AgentInv
  OBVIOUS
<1> USE AgentFacts, NoneFacts DEF Init
<1>1. StoreInv /\ TypeOK /\ resolved = [t \in Threads |-> None]
  BY StoreInit DEF StoreInv, NewPendingStore
<1>2. /\ run \in Run /\ run.approval = None
  <2>1. PICK t \in Sessions :
          run = [thread |-> t, mode |-> "direct", batch |-> 0, calls |-> <<>>,
                 idx |-> 1, results |-> {}, approval |-> None]
    OBVIOUS
  <2>2. QED
    BY <2>1 DEF Run, Modes
<1>3. AgentTypeOK
  BY <1>1, <1>2 DEF AgentTypeOK, PCs
<1>4. BatchInv /\ AuthorityInv
  BY <1>3 DEF BatchInv, BatchOrder, BatchComplete, AuthorityInv, Authorised,
              BackgroundNeverHighRisk
<1>5. Positions /\ Owners /\ Replaceable /\ Approvals
  BY <1>1, <1>2 DEF Positions, Owners, Replaceable, Approvals, Active
<1>6. QED
  BY <1>1, <1>4, <1>5 DEF AgentInv

\* Every step of agent, job, gateway and clock keeps the invariant.
LEMMA AgentStepInv == AgentInv /\ [Next]_vars => AgentInv'
BY StoreMoves, StoreStep, BatchStep, AuthorityStep, PositionsStep, OwnersStep,
   ReplaceableStep, ApprovalsStep DEF AgentInv

\* Whatever messages, jobs, approvals, denials and expiries come, in whatever
\* order, the agent's inductive invariant holds.
THEOREM AgentCorrect == Spec => []AgentInv
BY AgentInit, AgentStepInv, PTL DEF Spec

\* The calls of a batch are executed in order, none twice and none skipped,
\* however often the batch is paused and resumed (handleLLMToolCalls, Resume).
THEOREM BatchCorrect == Spec => []BatchInv
<1>1. AgentInv => BatchInv
  BY DEF AgentInv
<1>2. QED
  BY <1>1, AgentCorrect, PTL

\* No high-risk call runs without an approval the user gave in that thread, one
\* approval lets one call through, and none reaches a background job (Dispatch).
THEOREM AuthorityCorrect == Spec => []AuthorityInv
<1>1. AgentInv => AuthorityInv
  BY DEF AgentInv
<1>2. QED
  BY <1>1, AgentCorrect, PTL

\* A batch dropped for a new message executes no further call, and a live saved
\* execution is not lost to another (runLLM, Resume, SavePendingExecution).
THEOREM ExecutionsCorrect == Spec => ExecutionsKept
<1> DEFINE Dropped == \A i \in DOMAIN log' \ DOMAIN log : log'[i].batch \notin dropped
<1> DEFINE Kept == \A t \in Sessions :
      pe[t] # None /\ pe'[t] # None /\ pe'[t].batch # pe[t].batch => ~LivePE(t)
<1>1. AgentInv /\ [Next]_vars => [Dropped]_vars
  <2> SUFFICES ASSUME AgentInv, Next PROVE Dropped
    OBVIOUS
  <2>a. log \in Seq(Entry) /\ Owners
    BY DEF AgentInv, BatchInv, AgentTypeOK
  <2>1. CASE DispatchRefused \/ Execute
    <3>1. PICK e \in Entry : log' = Append(log, e) /\ e.batch = run.batch
      BY <2>1, CallDoneFacts
    <3>2. QED
      BY <2>a, <2>1, <3>1, AppendFacts, CallDoneFacts DEF Owners
  <2>2. CASE JobExecute
    <3>1. PICK e \in Entry : log' = Append(log, e) /\ e.batch = job.batch
      BY <2>2, JobExecuteFacts
    <3>2. QED
      BY <2>a, <2>2, <3>1, AppendFacts, JobExecuteFacts DEF Owners
  <2>3. QED
    BY <2>1, <2>2, OutsideSteps
       DEF Next, AgentStep, Resume, LLMText, LLMToolCalls, DispatchConsume, GateAllow,
           GatePause, SavePendingExecution, Summary, Message, ReceiveTool, ReceiveChat,
           ReceiveResume, JobStep, JobStart, JobRefused, JobConsume, JobGateAllow,
           JobGatePause, agentVars
<1>2. AgentInv /\ [Next]_vars => [Kept]_vars
  <2> SUFFICES ASSUME AgentInv, Next PROVE Kept
    OBVIOUS
  <2>a. /\ pe \in [Sessions -> PendingExecution \cup {None}] /\ run.thread \in Sessions
        /\ run \in Run /\ Owners /\ Replaceable /\ Positions
    BY DEF AgentInv, BatchInv, AgentTypeOK, Run
  <2>1. CASE DispatchRefused \/ Execute
    BY <2>a, <2>1, CallDoneFacts
  <2>2. CASE SavePendingExecution
    <3>1. CASE run.mode = "resume"
      BY <2>a, <2>2, <3>1 DEF SavePendingExecution, Owners, Active, Resuming
    <3>2. CASE run.mode = "batch"
      BY <2>a, <2>2, <3>2 DEF SavePendingExecution, Replaceable, Active
    <3>3. QED
      BY <2>a, <2>2, <3>1, <3>2 DEF SavePendingExecution, Positions, Run, Modes
  <2>3. CASE \E t \in Sessions : Message(t)
    BY <2>a, <2>3 DEF Message, ReceiveTool, ReceiveChat, DiscardExecution, ReceiveResume
  <2>4. QED
    BY <2>1, <2>2, <2>3, OutsideSteps
       DEF Next, AgentStep, Resume, LLMText, LLMToolCalls, DispatchConsume, GateAllow,
           GatePause, Summary, JobStep, JobStart, JobRefused, JobConsume, JobGateAllow,
           JobGatePause, JobExecute, agentVars
<1>3. QED
  BY <1>1, <1>2, AgentCorrect, PTL
     DEF Spec, ExecutionsKept, DroppedStaysDropped, LiveExecutionKept

\* Dispatcher, agent and gateway use the approval store by its methods alone, so
\* what is proved of the store holds in the whole.
THEOREM AgentUsesStore == Spec => StoreSpec
<1>1. Init => NewPendingStore
  BY DEF Init
<1>2. QED
  BY <1>1, StoreMoves, AgentCorrect, PTL DEF Spec, StoreSpec

\* In the running system, too, a request goes through its lifecycle once: asked,
\* then approved, refused or lapsed, an approval spent once and in its thread.
THEOREM AgentImplementsLifecycle == Spec => ImplementsLifecycle
BY AgentUsesStore, Refinement, PTL
=============================================================================
