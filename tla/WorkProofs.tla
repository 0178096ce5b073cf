------------------------------ MODULE WorkProofs ------------------------------
(***************************************************************************)
(* Proofs about the background work, for any number of jobs, slots, users  *)
(* and any timeout: Stop waits for exactly what runs, the process does not *)
(* exit under a job, and the orchestrator's table, index, tokens and       *)
(* reaper agree.                                                           *)
(***************************************************************************)
EXTENDS Lifecycle, Orchestrator, FiniteSetTheorems, TLAPS

-----------------------------------------------------------------------------
(* The worker pool.                                                        *)

\* The goroutines that the WaitGroup counts.
Running == {s \in Slots : Counted(s)}

\* Counting: the slots are finite, and a goroutine more or less is one more or less.
LEMMA SlotCount ==
  ASSUME NEW S \in SUBSET Slots
  PROVE  /\ IsFiniteSet(S) /\ Cardinality(S) \in Nat
         /\ \A s \in Slots : s \notin S => Cardinality(S \cup {s}) = Cardinality(S) + 1
         /\ \A s \in S : Cardinality(S \ {s}) = Cardinality(S) - 1
         /\ Cardinality(S) = 0 => S = {}
<1>1. IsFiniteSet(Slots)
  BY FS_Interval, PoolAssumption DEF Slots
<1>2. IsFiniteSet(S)
  BY <1>1, FS_Subset
<1>3. QED
  BY <1>2, FS_CardinalityType, FS_AddElement, FS_RemoveElement, FS_EmptySet

\* The rows that a poll still has to look at.
LEMMA AdvanceType ==
  ASSUME NEW q \in Seq(Row), Advance(q)
  PROVE  todo' \in Seq(Row)
<1>1. CASE todo' = <<>>
  BY <1>1
<1>2. ASSUME NEW i \in DOMAIN q, todo' = SubSeq(q, i, Len(q)) PROVE todo' \in Seq(Row)
  BY <1>2
<1>3. QED
  BY <1>1, <1>2 DEF Advance

\* What a poll fetches.
LEMMA RowsType == PoolTypeOK => Rows \in Seq(Row)
<1> SUFFICES ASSUME PoolTypeOK PROVE Rows \in Seq(Row)
  OBVIOUS
<1> DEFINE n == IF Len(table) < Limit THEN Len(table) ELSE Limit
<1>1. table \in Seq(Jobs) /\ n \in Nat /\ n <= Len(table)
  BY PoolAssumption DEF PoolTypeOK
<1> HIDE DEF n
<1>2. ListJobs = SubSeq(table, 1, n)
  BY DEF ListJobs, n
<1>3. ListJobs \in Seq(Jobs)
  BY <1>1, <1>2
<1>4. DOMAIN ListJobs = 1..Len(ListJobs) /\ Len(ListJobs) \in Nat
      /\ \A i \in 1..Len(ListJobs) : ListJobs[i] \in Jobs
  BY <1>3
<1>5. \A i \in 1..Len(ListJobs) : [job |-> ListJobs[i], status |-> status[ListJobs[i]]] \in Row
  BY <1>4 DEF PoolTypeOK, Row
<1>6. QED
  BY <1>4, <1>5 DEF Rows

\* A goroutine that goes on keeps its job.
LEMMA GotoFacts ==
  ASSUME PoolTypeOK, NEW s \in Slots, worker[s] # NoJob,
         NEW label \in {"start", "dispatch", "ok", "err", "done", "release"}, Goto(s, label)
  PROVE  /\ worker' \in [Slots -> Goroutine \cup {NoJob}]
         /\ worker'[s] # NoJob /\ worker'[s].pc = label
         /\ \A r \in Slots : r # s => worker'[r] = worker[r]
<1>1. worker \in [Slots -> Goroutine \cup {NoJob}] /\ worker[s] \in Goroutine
  BY DEF PoolTypeOK
<1> DEFINE g == [worker[s] EXCEPT !.pc = label]
<1>2. worker' = [worker EXCEPT ![s] = g]
  BY DEF Goto
<1>3. g \in Goroutine /\ g.pc = label
  BY <1>1 DEF Goroutine
<1> HIDE DEF g
<1>4. QED
  BY <1>1, <1>2, <1>3, NoJobAssumption

\* The counter after a step that starts, ends, or keeps what it counts.
LEMMA CountStep ==
  ASSUME PoolInv, NEW s \in Slots,
         \A r \in Slots : r # s => (Counted(r)' <=> Counted(r)),
         \/ /\ Counted(s)' <=> Counted(s)
            /\ wg' = wg /\ (loop = "done" <=> loop' = "done")
         \/ /\ Counted(s)' <=> Counted(s)
            /\ wg' = wg - 1 /\ loop # "done" /\ loop' = "done"
         \/ /\ ~Counted(s) /\ Counted(s)'
            /\ wg' = wg + 1 /\ loop # "done" /\ loop' # "done"
         \/ /\ Counted(s) /\ ~Counted(s)'
            /\ wg' = wg - 1 /\ loop' = loop
  PROVE  WaitGroupCounts' /\ wg' \in Nat
<1> DEFINE S == {r \in Slots : Counted(r)}
<1> DEFINE T == {r \in Slots : Counted(r)'}
<1> DEFINE one == IF loop = "done" THEN 0 ELSE 1
<1> DEFINE two == IF loop' = "done" THEN 0 ELSE 1
<1>1. wg = Cardinality(S) + one /\ (WaitGroupCounts' <=> wg' = Cardinality(T) + two)
  BY DEF PoolInv, WaitGroupCounts
<1>2. \/ T = S /\ wg' = wg /\ two = one
      \/ T = S /\ wg' = wg - 1 /\ one = 1 /\ two = 0
      \/ T = S \cup {s} /\ s \notin S /\ wg' = wg + 1 /\ two = one
      \/ T = S \ {s} /\ s \in S /\ wg' = wg - 1 /\ two = one
  OBVIOUS
<1>3. one \in {0, 1} /\ two \in {0, 1} /\ S \in SUBSET Slots /\ T \in SUBSET Slots
  OBVIOUS
<1> HIDE DEF S, T, one, two
<1>4. Cardinality(S) \in Nat /\ Cardinality(T) \in Nat
  BY <1>3, SlotCount
<1>5. wg' = Cardinality(T) + two
  <2>1. CASE T = S
    BY <1>1, <1>2, <1>3, <1>4, <2>1, SlotCount
  <2>2. CASE T = S \cup {s} /\ s \notin S /\ wg' = wg + 1 /\ two = one
    <3>1. Cardinality(T) = Cardinality(S) + 1
      BY <1>3, <2>2, SlotCount
    <3>2. QED
      BY <1>1, <1>3, <1>4, <2>2, <3>1
  <2>3. CASE T = S \ {s} /\ s \in S /\ wg' = wg - 1 /\ two = one
    <3>1. Cardinality(T) = Cardinality(S) - 1
      BY <1>3, <2>3, SlotCount
    <3>2. QED
      BY <1>1, <1>3, <1>4, <2>3, <3>1
  <2>4. QED
    BY <1>2, <2>1, <2>2, <2>3
<1>6. QED
  BY <1>1, <1>3, <1>4, <1>5

\* A slot for the steps that touch none.
LEMMA SomeSlot == 1 \in Slots
BY PoolAssumption DEF Slots

\* A worker goroutine: it is counted until it calls Done.
LEMMA WorkerStepInv ==
  ASSUME PoolInv, NEW s \in Slots, WorkerStep(s)
  PROVE  PoolInv'
<1> USE DEF PoolInv
<1>1. /\ worker[s] # NoJob /\ worker[s].job \in Jobs
      /\ worker \in [Slots -> Goroutine \cup {NoJob}]
  BY DEF WorkerStep, MarkRunning, DispatchJob, Report, WgDone, Release, At, PoolTypeOK, Goroutine
<1>2. UNCHANGED <<table, loop, todo, stop, ctxDone>>
  BY DEF WorkerStep, MarkRunning, DispatchJob, Report, WgDone, Release
<1>3. status' \in [Jobs -> Statuses]
  BY <1>1 DEF WorkerStep, MarkRunning, DispatchJob, Report, WgDone, Release, UpdateJobStatus,
              PoolTypeOK, Statuses
<1>4. CASE MarkRunning(s) \/ DispatchJob(s) \/ Report(s)
  <2>1. worker[s].pc # "release" /\ wg' = wg
    BY <1>4 DEF MarkRunning, DispatchJob, Report, At
  <2>2. PICK label \in {"dispatch", "ok", "err", "done"} : Goto(s, label)
    BY <1>4 DEF MarkRunning, DispatchJob, Report
  <2>3. /\ worker' \in [Slots -> Goroutine \cup {NoJob}]
        /\ worker'[s] # NoJob /\ worker'[s].pc = label
        /\ \A r \in Slots : r # s => worker'[r] = worker[r]
    BY <1>1, <2>2, GotoFacts
  <2>4. \A r \in Slots : Counted(r)' <=> Counted(r)
    BY <1>1, <2>1, <2>3 DEF Counted
  <2>5. WaitGroupCounts' /\ wg' \in Nat
    BY <1>2, <2>1, <2>4, CountStep
  <2>6. DrainedOnReturn'
    BY <1>2, <2>4 DEF DrainedOnReturn
  <2>7. QED
    BY <1>2, <1>3, <2>3, <2>5, <2>6 DEF PoolTypeOK
<1>5. CASE WgDone(s)
  <2>1. worker[s].pc = "done" /\ wg' = wg - 1 /\ Goto(s, "release")
    BY <1>5 DEF WgDone, At
  <2>2. /\ worker' \in [Slots -> Goroutine \cup {NoJob}]
        /\ worker'[s] # NoJob /\ worker'[s].pc = "release"
        /\ \A r \in Slots : r # s => worker'[r] = worker[r]
    BY <1>1, <2>1, GotoFacts
  <2>3. Counted(s) /\ ~Counted(s)' /\ \A r \in Slots : r # s => (Counted(r)' <=> Counted(r))
    BY <1>1, <2>1, <2>2 DEF Counted
  <2>4. WaitGroupCounts' /\ wg' \in Nat
    BY <1>2, <2>1, <2>3, CountStep
  <2>5. DrainedOnReturn'
    BY <1>2, <2>3 DEF DrainedOnReturn
  <2>6. QED
    BY <1>2, <1>3, <2>2, <2>4, <2>5 DEF PoolTypeOK
<1>6. CASE Release(s)
  <2>1. worker[s].pc = "release" /\ wg' = wg /\ worker' = [worker EXCEPT ![s] = NoJob]
    BY <1>6 DEF Release, At
  <2>2. \A r \in Slots : Counted(r)' <=> Counted(r)
    BY <1>1, <2>1 DEF Counted
  <2>3. WaitGroupCounts' /\ wg' \in Nat
    BY <1>2, <2>1, <2>2, CountStep
  <2>4. DrainedOnReturn'
    BY <1>2, <2>2 DEF DrainedOnReturn
  <2>5. worker' \in [Slots -> Goroutine \cup {NoJob}]
    BY <1>1, <2>1
  <2>6. QED
    BY <1>2, <1>3, <2>3, <2>4, <2>5 DEF PoolTypeOK
<1>7. QED
  BY <1>4, <1>5, <1>6 DEF WorkerStep

\* Only a loop that runs, and is counted, starts a goroutine.
LEMMA LoopStepInv ==
  ASSUME PoolInv, LoopStep \/ LoopExit
  PROVE  PoolInv'
<1> USE DEF PoolInv
<1>1. UNCHANGED <<status, table, stop, ctxDone>> /\ loop # "done"
  BY DEF LoopStep, LoopExit, Poll, StartJob, PollEnd
<1>2. todo' \in Seq(Row)
  <2>1. CASE Poll
    BY <2>1, AdvanceType, RowsType DEF Poll
  <2>2. ASSUME NEW s \in Slots, StartJob(s) PROVE todo' \in Seq(Row)
    <3>1. Tail(todo) \in Seq(Row)
      BY <2>2 DEF StartJob, PoolTypeOK
    <3>2. QED
      BY <2>2, <3>1, AdvanceType DEF StartJob
  <2>3. CASE PollEnd \/ LoopExit
    <3>1. todo' = <<>> \/ todo' = todo
      BY <2>3 DEF PollEnd, LoopExit
    <3>2. <<>> \in Seq(Row) /\ todo \in Seq(Row)
      BY DEF PoolTypeOK
    <3>3. QED
      BY <3>1, <3>2
  <2>4. QED
    BY <2>1, <2>2, <2>3 DEF LoopStep
<1>3. CASE Poll \/ PollEnd \/ LoopExit
  <2>1. /\ worker' = worker /\ loop' \in {"select", "poll", "done"}
        /\ \/ wg' = wg /\ loop' # "done"
           \/ wg' = wg - 1 /\ loop' = "done"
    BY <1>3 DEF Poll, PollEnd, LoopExit
  <2>2. \A r \in Slots : Counted(r)' <=> Counted(r)
    BY <2>1 DEF Counted
  <2>3. WaitGroupCounts' /\ wg' \in Nat
    BY <1>1, <2>1, <2>2, SomeSlot, CountStep
  <2>4. DrainedOnReturn'
    BY <1>1, <2>1, <2>2 DEF DrainedOnReturn
  <2>5. QED
    BY <1>1, <1>2, <2>1, <2>3, <2>4 DEF PoolTypeOK
<1>4. ASSUME NEW s \in Slots, StartJob(s) PROVE PoolInv'
  <2> DEFINE g == [job |-> Head(todo).job, pc |-> "start"]
  <2>1. Head(todo) \in Row
    BY <1>4 DEF StartJob, PoolTypeOK
  <2>2. g \in Goroutine /\ g # NoJob /\ g.pc = "start"
    BY <2>1, NoJobAssumption DEF Row, Goroutine
  <2>3. /\ worker' = [worker EXCEPT ![s] = g] /\ worker[s] = NoJob
        /\ wg' = wg + 1 /\ loop' = loop
        /\ worker \in [Slots -> Goroutine \cup {NoJob}]
    BY <1>4 DEF StartJob, PoolTypeOK
  <2> HIDE DEF g
  <2>4. ~Counted(s) /\ Counted(s)' /\ \A r \in Slots : r # s => (Counted(r)' <=> Counted(r))
    BY <2>2, <2>3 DEF Counted
  <2>5. WaitGroupCounts' /\ wg' \in Nat
    BY <1>1, <2>3, <2>4, CountStep
  <2>6. DrainedOnReturn'
    BY <1>1 DEF DrainedOnReturn
  <2>7. worker' \in [Slots -> Goroutine \cup {NoJob}]
    BY <2>2, <2>3
  <2>8. QED
    BY <1>1, <1>2, <2>3, <2>5, <2>6, <2>7 DEF PoolTypeOK
<1>5. QED
  BY <1>3, <1>4 DEF LoopStep

\* What the owner of the pool does; Stop returns when nothing is counted.
LEMMA OwnerStepInv ==
  ASSUME PoolInv, (\E j \in Jobs : Submit(j)) \/ Stop \/ StopReturn \/ Cancel \/ UNCHANGED poolVars
  PROVE  PoolInv'
<1> USE DEF PoolInv
<1>1. UNCHANGED <<loop, todo, worker, wg>>
  BY DEF Submit, Stop, StopReturn, Cancel, poolVars
<1>2. \A r \in Slots : Counted(r)' <=> Counted(r)
  BY <1>1 DEF Counted
<1>3. WaitGroupCounts' /\ wg' \in Nat
  BY <1>1, <1>2, SomeSlot, CountStep
<1>4. DrainedOnReturn'
  <2>1. CASE StopReturn
    <3> DEFINE S == {s \in Slots : Counted(s)}
    <3>1. 0 = Cardinality(S) + (IF loop = "done" THEN 0 ELSE 1) /\ S \in SUBSET Slots
      BY <2>1 DEF StopReturn, WaitGroupCounts
    <3> HIDE DEF S
    <3>2. loop = "done" /\ S = {}
      BY <3>1, SlotCount
    <3>3. QED
      BY <1>1, <1>2, <3>2 DEF DrainedOnReturn, S
  <2>2. CASE ~StopReturn
    <3>1. stop' = "returned" => stop = "returned"
      BY <2>2 DEF Submit, Stop, Cancel, poolVars
    <3>2. QED
      BY <1>1, <1>2, <3>1 DEF DrainedOnReturn
  <2>3. QED
    BY <2>1, <2>2
<1>5. status' \in [Jobs -> Statuses] /\ table' \in Seq(Jobs)
  <2>1. ASSUME NEW j \in Jobs, Submit(j)
        PROVE  status' \in [Jobs -> Statuses] /\ table' \in Seq(Jobs)
    <3>1. status' = [status EXCEPT ![j] = "pending"] /\ table' = <<j>> \o table
      BY <2>1 DEF Submit
    <3>2. table' \in Seq(Jobs)
      <4>1. <<j>> \in Seq(Jobs) /\ table \in Seq(Jobs)
        BY DEF PoolTypeOK
      <4>2. QED
        BY <3>1, <4>1
    <3>3. QED
      BY <3>1, <3>2 DEF PoolTypeOK, Statuses
  <2>2. QED
    BY <2>1 DEF Stop, StopReturn, Cancel, poolVars, PoolTypeOK
<1>6. stop' \in {"no", "closing", "returned"} /\ ctxDone' \in BOOLEAN
  BY DEF Submit, Stop, StopReturn, Cancel, poolVars, PoolTypeOK
<1>7. QED
  BY <1>1, <1>3, <1>4, <1>5, <1>6 DEF PoolTypeOK

\* The pool as NewPool and Start leave it: the loop alone is counted.
LEMMA PoolStart ==
  ASSUME status \in [Jobs -> Statuses], table \in Seq(Jobs),
         loop = "select", todo = <<>>, worker = [s \in Slots |-> NoJob], wg = 1, stop = "no",
         ctxDone = FALSE
  PROVE  PoolInv
<1>1. {s \in Slots : Counted(s)} = {}
  BY DEF Counted
<1>2. WaitGroupCounts
  <2> DEFINE S == {s \in Slots : Counted(s)}
  <2>1. S = {} /\ (WaitGroupCounts <=> wg = Cardinality(S) + 1)
    BY <1>1 DEF WaitGroupCounts
  <2> HIDE DEF S
  <2>2. Cardinality(S) = 0
    BY <2>1, FS_EmptySet
  <2>3. QED
    BY <2>1, <2>2
<1>3. DrainedOnReturn
  BY DEF DrainedOnReturn
<1>4. PoolTypeOK
  <2>1. <<>> \in Seq(Row)
    OBVIOUS
  <2>2. worker \in [Slots -> Goroutine \cup {NoJob}]
    OBVIOUS
  <2>3. QED
    BY <2>1, <2>2 DEF PoolTypeOK
<1>5. QED
  BY <1>2, <1>3, <1>4 DEF PoolInv

\* The WaitGroup counts exactly the loop and the goroutines that have not called Done, for any
\* number of workers, and once Stop has returned nothing of the pool runs (worker.go: Stop).
THEOREM PoolCorrect == PoolSpec => []PoolInv
<1>1. PoolInit => PoolInv
  <2>1. [j \in Jobs |-> "absent"] \in [Jobs -> Statuses] /\ <<>> \in Seq(Jobs)
    BY DEF Statuses
  <2>2. QED
    BY <2>1, PoolStart DEF PoolInit
<1>2. PoolInv /\ [PoolNext]_poolVars => PoolInv'
  BY WorkerStepInv, LoopStepInv, OwnerStepInv DEF PoolNext
<1>3. QED
  BY <1>1, <1>2, PTL DEF PoolSpec

-----------------------------------------------------------------------------
(* The process.                                                            *)

\* The table an earlier process has left is a list of jobs.
LEMMA LeftTable ==
  ASSUME NEW left \in SUBSET LeftJobs, table \in SetToSeqs(left)
  PROVE  table \in Seq(Jobs)
<1>1. left \subseteq Jobs /\ Cardinality(left) \in Nat
  BY LifecycleAssumption, FS_Subset, FS_CardinalityType
<1>2. table \in [1..Cardinality(left) -> left]
  BY DEF SetToSeqs
<1>3. QED
  BY <1>1, <1>2

\* The process starts with a fresh pool.
LEMMA AppStart == AppInit => PoolInv /\ LifecycleInv
<1> SUFFICES ASSUME AppInit PROVE PoolInv /\ LifecycleInv
  OBVIOUS
<1>1. PoolInv
  <2>1. PICK left \in SUBSET LeftJobs :
          /\ status = [j \in Jobs |-> IF j \in left THEN "pending" ELSE "absent"]
          /\ table \in SetToSeqs(left)
    BY DEF AppInit
  <2>2. status \in [Jobs -> Statuses] /\ table \in Seq(Jobs)
    BY <2>1, LeftTable DEF Statuses
  <2>3. QED
    BY <2>2, PoolStart DEF AppInit
<1>2. LifecycleInv
  <2>1. /\ agent = "top" /\ repl = "reading" /\ typed = 0 /\ lines = 0
        /\ interrupted = FALSE /\ blocked = FALSE /\ app = "running"
    BY DEF AppInit
  <2>2. 0 \in 0..MaxLines /\ 0 \in 0..0
    BY LifecycleAssumption
  <2>3. QED
    BY <2>1, <2>2 DEF LifecycleInv, LifecycleTypeOK, AppWaits, NoJobCut
<1>3. QED
  BY <1>1, <1>2

\* Every step of the process is a step of its pool, or none.
LEMMA AppMovesPool == AppNext => [PoolNext]_poolVars
<1>1. AppStop => Stop
  BY DEF AppStop
<1>2. PoolStep => PoolNext
  BY DEF PoolStep, PoolNext
<1>3. QED
  BY <1>1, <1>2 DEF AppNext, PoolNext, TypeLine, TypeQuit, Interrupt, ClientStalls, AgentStep, AgentLooks,
                    AgentReceives, AgentCancelled, AgentProcesses, AgentAnswers, AppExit

\* Stop, once called, is never taken back.
LEMMA StopStays ==
  [PoolNext]_poolVars => /\ stop = "returned" => stop' = "returned"
                         /\ stop # "no" => stop' # "no"
<1>1. ASSUME NEW s \in Slots, WorkerStep(s) PROVE stop' = stop
  BY <1>1 DEF WorkerStep, MarkRunning, DispatchJob, Report, WgDone, Release
<1>2. CASE LoopStep \/ LoopExit
  BY <1>2 DEF LoopStep, LoopExit, Poll, StartJob, PollEnd
<1>3. QED
  BY <1>1, <1>2 DEF PoolNext, Submit, Stop, StopReturn, Cancel, poolVars

\* App.Run calls Stop when the agent has returned, and main returns after it.
LEMMA LifecycleStep ==
  ASSUME PoolInv, LifecycleInv, [AppNext]_<<appVars, poolVars>>
  PROVE  PoolInv' /\ LifecycleInv'
<1>1. [PoolNext]_poolVars
  BY AppMovesPool DEF appVars, poolVars
<1>2. PoolInv'
  BY <1>1, WorkerStepInv, LoopStepInv, OwnerStepInv DEF PoolNext
<1>3. LifecycleTypeOK'
  <2>1. CASE TypeLine
    BY <2>1, LifecycleAssumption DEF TypeLine, LifecycleInv, LifecycleTypeOK
  <2>2. CASE AgentReceives
    BY <2>2, LifecycleAssumption DEF AgentReceives, LifecycleInv, LifecycleTypeOK
  <2>3. CASE UNCHANGED <<typed, lines>>
    <3>1. CASE UNCHANGED appVars
      BY <3>1 DEF LifecycleInv, LifecycleTypeOK, appVars
    <3>2. CASE TypeQuit \/ Interrupt \/ ClientStalls \/ AppStop \/ AppExit
      BY <2>3, <3>2 DEF TypeQuit, Interrupt, ClientStalls, AppStop, AppExit, LifecycleInv, LifecycleTypeOK
    <3>3. CASE AgentLooks \/ AgentCancelled \/ AgentProcesses \/ AgentAnswers
      BY <2>3, <3>3 DEF AgentLooks, AgentCancelled, AgentProcesses, AgentAnswers,
                          LifecycleInv, LifecycleTypeOK
    <3>4. QED
      BY <2>1, <2>2, <3>1, <3>2, <3>3 DEF AppNext, AgentStep, PoolStep
  <2>4. QED
    BY <2>1, <2>2, <2>3 DEF AppNext, TypeQuit, Interrupt, ClientStalls, AgentStep, AgentLooks, AgentCancelled,
                            AgentProcesses, AgentAnswers, AppStop, AppExit, PoolStep, appVars
<1>4. AppWaits'
  <2>1. CASE AppStop
    BY <2>1 DEF AppStop, Stop, AppWaits
  <2>2. CASE AppExit
    BY <2>2 DEF AppExit, AppWaits, poolVars
  <2>3. CASE app' = app /\ (agent = "returned" => agent' = "returned")
    BY <1>1, <2>3, StopStays DEF LifecycleInv, AppWaits
  <2>4. QED
    BY <2>1, <2>2, <2>3 DEF AppNext, TypeLine, TypeQuit, Interrupt, ClientStalls, AgentStep, AgentLooks,
                            AgentReceives, AgentCancelled, AgentProcesses, AgentAnswers, PoolStep, appVars
<1>5. NoJobCut'
  <2>1. stop' = "returned" => loop' = "done" /\ \A s \in Slots : ~Counted(s)'
    BY <1>2 DEF PoolInv, DrainedOnReturn
  <2>2. QED
    BY <1>4, <2>1 DEF AppWaits, NoJobCut
<1>6. QED
  BY <1>2, <1>3, <1>4, <1>5 DEF LifecycleInv

\* The process never ends under a job, for any number of jobs, workers and typed lines: when
\* main returns, the loop has ended and every goroutine has reported (builder.go: Run).
THEOREM LifecycleCorrect == AppSpec => []LifecycleInv
<1>1. AppInit => PoolInv /\ LifecycleInv
  BY AppStart
<1>2. PoolInv /\ LifecycleInv /\ [AppNext]_<<appVars, poolVars>> => (PoolInv /\ LifecycleInv)'
  BY LifecycleStep
<1>3. QED
  BY <1>1, <1>2, PTL DEF AppSpec

\* The process uses its pool as the pool is meant to be used, with the jobs an earlier process
\* left: what is proved of the pool's steps holds in the process (builder.go: Build, Run).
THEOREM AppUsesPool == AppSpec => [][PoolNext]_poolVars /\ []PoolInv
<1>1. [AppNext]_<<appVars, poolVars>> => [PoolNext]_poolVars
  BY AppMovesPool DEF appVars, poolVars
<1>2. AppInit => PoolInv
  BY AppStart
<1>3. PoolInv /\ [PoolNext]_poolVars => PoolInv'
  BY WorkerStepInv, LoopStepInv, OwnerStepInv DEF PoolNext
<1>4. QED
  BY <1>1, <1>2, <1>3, PTL DEF AppSpec

-----------------------------------------------------------------------------
(* The orchestrator.                                                       *)

Listed(ids) == {ids[i] : i \in DOMAIN ids}
NoRepeat(ids) == \A i, k \in DOMAIN ids : ids[i] = ids[k] => i = k

\* A new id at the end of a user's list.
LEMMA AppendListed ==
  ASSUME NEW ids \in Seq(JobIds), NEW j \in JobIds
  PROVE  /\ Append(ids, j) \in Seq(JobIds)
         /\ Listed(Append(ids, j)) = Listed(ids) \cup {j}
         /\ j \notin Listed(ids) /\ NoRepeat(ids) => NoRepeat(Append(ids, j))
<1> DEFINE p == Append(ids, j)
<1>1. /\ p \in Seq(JobIds) /\ Len(ids) \in Nat
      /\ DOMAIN p = DOMAIN ids \cup {Len(ids) + 1} /\ p[Len(ids) + 1] = j
      /\ \A i \in DOMAIN ids : p[i] = ids[i] /\ i \in Nat /\ i <= Len(ids)
  OBVIOUS
<1> HIDE DEF p
<1>2. Listed(p) = Listed(ids) \cup {j}
  BY <1>1 DEF Listed
<1>3. ASSUME j \notin Listed(ids), NoRepeat(ids) PROVE NoRepeat(p)
  <2>1. \A i \in DOMAIN ids : ids[i] # j
    BY <1>3 DEF Listed
  <2>2. QED
    BY <1>1, <1>3, <2>1 DEF NoRepeat
<1>4. QED
  BY <1>1, <1>2, <1>3 DEF p

\* The index of the jobs, in these terms.
LEMMA IndexParts ==
  JobIndex <=> /\ \A u \in JobUsers : /\ Listed(byUser[u]) = {j \in DOMAIN jobs : jobs[j].user = u}
                                      /\ NoRepeat(byUser[u])
               /\ MaxJobs > 0 => Cardinality(DOMAIN jobs) <= MaxJobs
BY DEF JobIndex, Listed, NoRepeat

\* The part of the invariant that looks at the record of one job.
JobOK(j) ==
  /\ jobs[j] \in JobRecord
  /\ jobs[j].timedOut => j \in overdue
  /\ jobs[j].status \in Terminal =>
       /\ jobs[j].completed # Never
       /\ jobs[j].started # Never => jobs[j].started <= jobs[j].completed
  /\ jobs[j].started # Never => jobs[j].started <= jobNow
  /\ jobs[j].status = "in_progress" =>
       /\ jobs[j].started # Never
       /\ jobNow > jobs[j].started + JobTimeout => j \in overdue

\* The invariant, put together from the table and the records.
LEMMA OrchParts ==
  OrchInv <=>
    /\ \A j \in DOMAIN jobs : JobOK(j)
    /\ DOMAIN jobs \subseteq JobIds /\ IsFiniteSet(DOMAIN jobs)
    /\ byUser \in [JobUsers -> Seq(JobIds)]
    /\ JobIndex
    /\ TokenForEveryJob
    /\ tokens \subseteq JobIds
    /\ creating \cup scan \cup victim \subseteq DOMAIN jobs
    /\ victim \subseteq overdue /\ overdue \subseteq JobIds
    /\ scanTime \in 0..JobClockEnd /\ jobNow \in 0..JobClockEnd /\ scanTime <= jobNow
BY DEF OrchInv, OrchTypeOK, JobOK, ReapedWereOverdue, StampsOrdered, Tracked

\* What UpdateStatus writes.
LEMMA UpdatedFacts ==
  ASSUME NEW job \in JobRecord, NEW s \in Status, jobNow \in 0..JobClockEnd
  PROVE  /\ UpdatedJob(job, s) \in JobRecord
         /\ UpdatedJob(job, s).user = job.user
         /\ UpdatedJob(job, s).status = s
         /\ UpdatedJob(job, s).timedOut = job.timedOut
         /\ UpdatedJob(job, s).started = IF s = "in_progress" THEN jobNow ELSE job.started
         /\ UpdatedJob(job, s).completed = IF s \in Terminal THEN jobNow ELSE job.completed
BY DEF UpdatedJob, JobRecord, Stamp

\* A record that the executor or the reaper has stamped is in order again.
LEMMA StampedOK ==
  ASSUME NEW j, JobOK(j), jobNow \in 0..JobClockEnd, UNCHANGED <<jobNow, overdue>>,
         NEW s \in Status \ {"pending"}, NEW r, jobs'[j] = r, r \in JobRecord,
         r.status = s, r.timedOut => jobs[j].timedOut \/ j \in overdue,
         r.started = IF s = "in_progress" THEN jobNow ELSE jobs[j].started,
         r.completed = IF s \in Terminal THEN jobNow ELSE jobs[j].completed
  PROVE  JobOK(j)'
<1>1. jobNow \in Nat /\ JobTimeout \in Nat /\ Never \notin Nat /\ Never # jobNow
  BY OrchestratorAssumption
<1>2. s = "in_progress" \/ (s \in Terminal /\ s # "in_progress")
  BY DEF Status, Terminal
<1>3. jobs[j].started # Never => jobs[j].started <= jobNow
  BY DEF JobOK
<1>4. r.timedOut => j \in overdue
  BY DEF JobOK
<1>5. CASE s = "in_progress"
  <2>1. r.started = jobNow /\ ~(jobNow > jobNow + JobTimeout) /\ s \notin Terminal
    BY <1>1, <1>5 DEF Terminal
  <2>2. QED
    BY <1>1, <1>4, <1>5, <2>1 DEF JobOK
<1>6. CASE s \in Terminal /\ s # "in_progress"
  <2>1. r.started = jobs[j].started /\ r.completed = jobNow
    BY <1>6
  <2>2. QED
    BY <1>1, <1>3, <1>4, <1>6, <2>1 DEF JobOK
<1>7. QED
  BY <1>2, <1>5, <1>6

\* The table after records were stamped: the index and the tokens still fit.
LEMMA RecordsChange ==
  ASSUME OrchInv, DOMAIN jobs' = DOMAIN jobs, \A j \in DOMAIN jobs : JobOK(j)',
         \A j \in DOMAIN jobs : jobs'[j].user = jobs[j].user,
         UNCHANGED <<byUser, tokens, creating, scan, scanTime, jobNow, overdue>>,
         victim' \subseteq victim
  PROVE  OrchInv'
<1>1. JobIndex'
  <2>1. \A u \in JobUsers :
          {j \in DOMAIN jobs' : jobs'[j].user = u} = {j \in DOMAIN jobs : jobs[j].user = u}
    OBVIOUS
  <2>2. QED
    BY <2>1 DEF OrchInv, JobIndex
<1>2. TokenForEveryJob'
  BY DEF OrchInv, TokenForEveryJob
<1>3. QED
  BY <1>1, <1>2, OrchParts
     DEF OrchInv, OrchTypeOK, JobOK, ReapedWereOverdue, StampsOrdered, Tracked

\* CreateJob files the job under its user; no other has its id.
LEMMA CreateInv ==
  ASSUME OrchInv, NEW u \in JobUsers, NEW j \in JobIds, Create(u, j)
  PROVE  OrchInv'
<1> DEFINE r == [user |-> u, status |-> "pending", started |-> Never, completed |-> Never,
                 timedOut |-> FALSE]
<1>1. /\ j \notin DOMAIN jobs /\ HasRoom
      /\ jobs' = [k \in DOMAIN jobs \cup {j} |-> IF k = j THEN r ELSE jobs[k]]
      /\ byUser' = [byUser EXCEPT ![u] = Append(byUser[u], j)]
      /\ creating' = creating \cup {j}
      /\ UNCHANGED <<tokens, scan, scanTime, victim, jobNow, overdue>>
  BY DEF Create, reaperVars
<1>2. /\ r \in JobRecord /\ r.status = "pending" /\ r.started = Never /\ r.timedOut = FALSE
      /\ r.user = u
  BY DEF JobRecord, Stamp, Status
<1> HIDE DEF r
<1>3. /\ \A k \in DOMAIN jobs : JobOK(k)
      /\ DOMAIN jobs \subseteq JobIds /\ IsFiniteSet(DOMAIN jobs)
      /\ byUser \in [JobUsers -> Seq(JobIds)] /\ tokens = DOMAIN jobs \ creating
      /\ creating \cup scan \cup victim \subseteq DOMAIN jobs
  BY OrchParts DEF TokenForEveryJob
<1>4. DOMAIN jobs' = DOMAIN jobs \cup {j} /\ jobs'[j] = r /\ \A k \in DOMAIN jobs : jobs'[k] = jobs[k]
  BY <1>1
<1>5. ASSUME NEW k \in DOMAIN jobs' PROVE JobOK(k)'
  <2>1. CASE k = j
    BY <1>2, <1>4, <2>1 DEF JobOK, Terminal
  <2>2. CASE k \in DOMAIN jobs
    BY <1>1, <1>3, <1>4, <2>2 DEF JobOK
  <2>3. QED
    BY <1>4, <2>1, <2>2
<1>6. /\ IsFiniteSet(DOMAIN jobs') /\ Cardinality(DOMAIN jobs') = Cardinality(DOMAIN jobs) + 1
      /\ Cardinality(DOMAIN jobs) \in Nat
  BY <1>1, <1>3, <1>4, FS_AddElement, FS_CardinalityType
<1>7. JobIndex'
  <2> DEFINE Its(v) == {k \in DOMAIN jobs : jobs[k].user = v}
  <2> DEFINE ItsNow(v) == {k \in DOMAIN jobs' : jobs'[k].user = v}
  <2>1. \A v \in JobUsers : Listed(byUser[v]) = Its(v) /\ NoRepeat(byUser[v])
    BY IndexParts DEF OrchInv
  <2>2. /\ ItsNow(u) = Its(u) \cup {j} /\ j \notin Its(u)
        /\ \A v \in JobUsers : v # u => ItsNow(v) = Its(v)
    BY <1>1, <1>2, <1>4
  <2> HIDE DEF Its, ItsNow
  <2>3. ASSUME NEW v \in JobUsers
        PROVE  Listed(byUser'[v]) = ItsNow(v) /\ NoRepeat(byUser'[v])
    <3>1. CASE v = u
      <4>1. byUser'[u] = Append(byUser[u], j) /\ byUser[u] \in Seq(JobIds)
        BY <1>1, <1>3
      <4>2. QED
        BY <2>1, <2>2, <3>1, <4>1, AppendListed
    <3>2. CASE v # u
      BY <1>1, <1>3, <2>1, <2>2, <3>2
    <3>3. QED
      BY <3>1, <3>2
  <2>4. MaxJobs > 0 => Cardinality(DOMAIN jobs') <= MaxJobs
    BY <1>1, <1>6, OrchestratorAssumption DEF HasRoom
  <2>5. QED
    BY <2>3, <2>4 DEF JobIndex, Listed, NoRepeat, ItsNow
<1>8. TokenForEveryJob'
  BY <1>1, <1>3, <1>4 DEF TokenForEveryJob
<1>9. byUser' \in [JobUsers -> Seq(JobIds)]
  <2>1. Append(byUser[u], j) \in Seq(JobIds)
    BY <1>3, AppendListed
  <2>2. QED
    BY <1>1, <1>3, <2>1
<1>10. QED
  BY <1>1, <1>3, <1>4, <1>5, <1>6, <1>7, <1>8, <1>9
     DEF OrchInv, OrchTypeOK, JobOK, ReapedWereOverdue, StampsOrdered, Tracked

\* The executor reports a status.
LEMMA UpdateInv ==
  ASSUME OrchInv, NEW j \in JobIds, NEW s \in Status \ {"pending"}, jmUpdateStatus(j, s)
  PROVE  OrchInv'
<1> DEFINE r == UpdatedJob(jobs[j], s)
<1>1. /\ j \in DOMAIN jobs /\ jobs' = [jobs EXCEPT ![j] = r]
      /\ UNCHANGED <<byUser, tokens, creating, scan, scanTime, victim, jobNow, overdue>>
  BY DEF jmUpdateStatus, reaperVars
<1>2. (\A k \in DOMAIN jobs : JobOK(k)) /\ jobNow \in 0..JobClockEnd
  BY OrchParts
<1>3. jobs[j] \in JobRecord
  BY <1>1, <1>2 DEF JobOK
<1>4. /\ r \in JobRecord /\ r.user = jobs[j].user /\ r.status = s
      /\ r.timedOut = jobs[j].timedOut
      /\ r.started = IF s = "in_progress" THEN jobNow ELSE jobs[j].started
      /\ r.completed = IF s \in Terminal THEN jobNow ELSE jobs[j].completed
  BY <1>2, <1>3, UpdatedFacts
<1> HIDE DEF r
<1>5. DOMAIN jobs' = DOMAIN jobs /\ jobs'[j] = r /\ \A k \in DOMAIN jobs : k # j => jobs'[k] = jobs[k]
  BY <1>1
<1>6. JobOK(j)'
  BY <1>1, <1>2, <1>4, <1>5, StampedOK
<1>7. ASSUME NEW k \in DOMAIN jobs PROVE JobOK(k)'
  <2>1. CASE k # j
    BY <1>1, <1>2, <1>5, <2>1 DEF JobOK
  <2>2. QED
    BY <1>6, <2>1
<1>8. QED
  BY <1>1, <1>4, <1>5, <1>7, RecordsChange

\* The reaper fails the job it has found to be overdue.
LEMMA ReaperFailInv ==
  ASSUME OrchInv, ReaperFail
  PROVE  OrchInv'
<1> DEFINE r(k) == [UpdatedJob(jobs[k], "failed") EXCEPT !.timedOut = TRUE]
<1>1. /\ jobs' = [k \in DOMAIN jobs |-> IF k \in victim THEN r(k) ELSE jobs[k]]
      /\ victim' = {}
      /\ UNCHANGED <<byUser, tokens, creating, scan, scanTime, jobNow, overdue>>
  BY DEF ReaperFail
<1>2. (\A k \in DOMAIN jobs : JobOK(k)) /\ jobNow \in 0..JobClockEnd /\ victim \subseteq overdue
  BY OrchParts
<1>3. ASSUME NEW k \in DOMAIN jobs PROVE JobOK(k)' /\ jobs'[k].user = jobs[k].user
  <2>1. CASE k \in victim
    <3> DEFINE w == UpdatedJob(jobs[k], "failed")
    <3>1. /\ w \in JobRecord /\ w.user = jobs[k].user /\ w.status = "failed"
          /\ w.started = jobs[k].started /\ w.completed = jobNow
      <4>1. jobs[k] \in JobRecord /\ "failed" \in Status /\ "failed" \in Terminal
        BY <1>2 DEF JobOK, Status, Terminal
      <4>2. QED
        BY <1>2, <4>1, UpdatedFacts
    <3> HIDE DEF w
    <3> DEFINE x == [w EXCEPT !.timedOut = TRUE]
    <3>2. /\ x \in JobRecord /\ x.user = jobs[k].user /\ x.status = "failed"
          /\ x.started = jobs[k].started /\ x.completed = jobNow
      BY <3>1 DEF JobRecord
    <3>3. jobs'[k] = x /\ k \in overdue
      BY <1>1, <1>2, <2>1 DEF w
    <3> HIDE DEF x
    <3>4. /\ "failed" \in Status \ {"pending"} /\ "failed" \in Terminal
          /\ "failed" # "in_progress"
      BY DEF Status, Terminal
    <3>5. /\ x.started = IF "failed" = "in_progress" THEN jobNow ELSE jobs[k].started
          /\ x.completed = IF "failed" \in Terminal THEN jobNow ELSE jobs[k].completed
      BY <3>2, <3>4
    <3>6. JobOK(k)'
      BY <1>1, <1>2, <3>2, <3>3, <3>4, <3>5, StampedOK
    <3>7. QED
      BY <3>2, <3>3, <3>6
  <2>2. CASE k \notin victim
    BY <1>1, <1>2, <2>2 DEF JobOK
  <2>3. QED
    BY <2>1, <2>2
<1>4. DOMAIN jobs' = DOMAIN jobs
  BY <1>1
<1>5. QED
  BY <1>1, <1>3, <1>4, RecordsChange

\* The reaper picks only jobs that have been in progress for too long.
LEMMA ReaperLookInv ==
  ASSUME OrchInv, NEW j \in JobIds, ReaperLook(j)
  PROVE  OrchInv'
<1>1. /\ j \in scan /\ scan' = scan \ {j} /\ victim' = (IF Late(j) THEN {j} ELSE {})
      /\ UNCHANGED <<jobs, byUser, tokens, creating, scanTime, jobNow, overdue>>
  BY DEF ReaperLook, tableVars
<1>2. /\ j \in DOMAIN jobs /\ JobOK(j) /\ jobs[j] \in JobRecord
      /\ scanTime \in 0..JobClockEnd /\ jobNow \in 0..JobClockEnd /\ scanTime <= jobNow
  BY <1>1, OrchParts DEF JobOK
<1>3. Late(j) => j \in overdue
  <2>1. SUFFICES ASSUME Late(j) PROVE j \in overdue
    OBVIOUS
  <2>2. /\ jobs[j].status = "in_progress" /\ jobs[j].started # Never
        /\ scanTime > jobs[j].started + JobTimeout
    BY <2>1 DEF Late
  <2>3. jobs[j].started \in Nat
    BY <1>2, <2>2 DEF JobRecord, Stamp
  <2>4. jobNow > jobs[j].started + JobTimeout
    BY <1>2, <2>2, <2>3, OrchestratorAssumption
  <2>5. QED
    BY <1>2, <2>2, <2>4 DEF JobOK
<1>4. victim' \subseteq overdue /\ victim' \subseteq DOMAIN jobs
  BY <1>1, <1>2, <1>3
<1>5. QED
  BY <1>1, <1>4
     DEF OrchInv, OrchTypeOK, JobIndex, TokenForEveryJob, ReapedWereOverdue, StampsOrdered, Tracked

\* Time passes: what becomes late is noted.
LEMMA JobTickInv ==
  ASSUME OrchInv, JobTick
  PROVE  OrchInv'
<1>1. /\ jobNow < JobClockEnd /\ jobNow' = jobNow + 1
      /\ overdue' = overdue \cup {j \in DOMAIN jobs : /\ jobs[j].status = "in_progress"
                                                      /\ jobNow + 1 > jobs[j].started + JobTimeout}
      /\ UNCHANGED <<jobs, byUser, tokens, creating, scan, scanTime, victim>>
  BY DEF JobTick, tableVars, reaperVars
<1>2. /\ \A k \in DOMAIN jobs : JobOK(k)
      /\ scanTime \in 0..JobClockEnd /\ jobNow \in 0..JobClockEnd /\ scanTime <= jobNow
      /\ JobClockEnd \in Nat
  BY OrchParts, OrchestratorAssumption
<1>3. jobNow' \in 0..JobClockEnd /\ scanTime <= jobNow' /\ jobNow \in Nat
  BY <1>1, <1>2
<1>4. ASSUME NEW k \in DOMAIN jobs PROVE JobOK(k)'
  <2>1. jobs[k].started # Never => jobs[k].started <= jobNow'
    <3>1. jobs[k].started # Never => jobs[k].started \in Nat
      BY <1>2 DEF JobOK, JobRecord, Stamp
    <3>2. QED
      BY <1>1, <1>2, <1>3, <3>1 DEF JobOK
  <2>2. jobs[k].status = "in_progress" /\ jobNow' > jobs[k].started + JobTimeout => k \in overdue'
    BY <1>1
  <2>3. jobs'[k] = jobs[k] /\ overdue \subseteq overdue'
    BY <1>1
  <2>4. QED
    BY <1>2, <2>1, <2>2, <2>3 DEF JobOK
<1>5. QED
  BY <1>1, <1>3, <1>4
     DEF OrchInv, OrchTypeOK, JobIndex, TokenForEveryJob, ReapedWereOverdue, StampsOrdered, Tracked, JobOK

\* For any users, jobs, limit and timeout: table, index and tokens agree, the table stays
\* within its limit, and the reaper fails no job that was never overdue, however it
\* interleaves with the executors (job_manager.go, reaper.go, token.go).
THEOREM OrchestratorCorrect == OrchSpec => []OrchInv
<1>1. OrchInit => OrchInv
  <2> SUFFICES ASSUME OrchInit PROVE OrchInv
    OBVIOUS
  <2>1. /\ DOMAIN jobs = {} /\ \A u \in JobUsers : byUser[u] = <<>>
        /\ tokens = {} /\ creating = {} /\ scan = {} /\ victim = {} /\ overdue = {}
        /\ scanTime = 0 /\ jobNow = 0
    BY DEF OrchInit
  <2>2. byUser \in [JobUsers -> Seq(JobIds)]
    <3>1. <<>> \in Seq(JobIds)
      OBVIOUS
    <3>2. QED
      BY <3>1 DEF OrchInit
  <2>3. IsFiniteSet(DOMAIN jobs) /\ Cardinality(DOMAIN jobs) = 0
    BY <2>1, FS_EmptySet
  <2>4. 0 \in 0..JobClockEnd /\ MaxJobs \in Nat
    BY OrchestratorAssumption
  <2>5. Listed(<<>>) = {} /\ NoRepeat(<<>>)
    BY DEF Listed, NoRepeat
  <2>6. JobIndex
    BY <2>1, <2>3, <2>4, <2>5, IndexParts
  <2>7. QED
    BY <2>1, <2>2, <2>3, <2>4, <2>6, OrchParts DEF TokenForEveryJob
<1>2. OrchInv /\ [OrchNext]_orchVars => OrchInv'
  <2> SUFFICES ASSUME OrchInv, [OrchNext]_orchVars PROVE OrchInv'
    OBVIOUS
  <2> USE DEF OrchInv, OrchTypeOK, JobIndex, TokenForEveryJob, ReapedWereOverdue, StampsOrdered,
              Tracked, tableVars, reaperVars
  <2>1. ASSUME NEW j \in JobIds, Generate(j) PROVE OrchInv'
    BY <2>1 DEF Generate
  <2>2. CASE ReaperScan
    BY <2>2 DEF ReaperScan
  <2>3. CASE UNCHANGED orchVars
    BY <2>3 DEF orchVars
  <2> HIDE DEF OrchInv, OrchTypeOK, JobIndex, TokenForEveryJob, ReapedWereOverdue, StampsOrdered,
               Tracked, tableVars, reaperVars
  <2>4. QED
    BY <2>1, <2>2, <2>3, CreateInv, UpdateInv, ReaperLookInv, ReaperFailInv, JobTickInv
       DEF OrchNext, ReaperStep
<1>3. QED
  BY <1>1, <1>2, PTL DEF OrchSpec
=============================================================================
