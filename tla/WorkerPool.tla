------------------------------ MODULE WorkerPool ------------------------------
(***************************************************************************)
(* The pool of background jobs, internal/worker/worker.go, over the job    *)
(* table of the database (ListJobs and UpdateJobStatus of                  *)
(* internal/db/postgres.go).  One loop goroutine polls the table and hands *)
(* pending jobs to at most MaxWorkers goroutines; Stop closes a channel    *)
(* and waits for a WaitGroup.                                              *)
(*                                                                         *)
(* A job that is still "pending" in the table may be handed out again by   *)
(* the next poll, so a slot of the semaphore, not a job, identifies a      *)
(* worker goroutine.                                                       *)
(***************************************************************************)
EXTENDS Naturals, Sequences, FiniteSets, SequencesExt

CONSTANTS Jobs,        \* job ids Submit may draw
          MaxWorkers,  \* capacity of the semaphore
          Limit,       \* the limit pollAndRun passes to ListJobs
          DBFails,     \* whether an update of the table may fail
          NoJob

ASSUME PoolAssumption ==
  /\ MaxWorkers \in Nat \ {0}
  /\ Limit \in Nat \ {0}
  /\ DBFails \in BOOLEAN

VARIABLES status,   \* job -> status in the table
          table,    \* submitted jobs, newest first
          loop,     \* where the loop goroutine is
          todo,     \* the rest of the rows the current poll walks over
          worker,   \* semaphore slot -> goroutine that holds it
          wg,       \* the WaitGroup's counter
          stop,     \* progress of Stop
          ctxDone   \* whether the context was cancelled

poolVars == <<status, table, loop, todo, worker, wg, stop, ctxDone>>

Slots == 1..MaxWorkers
Statuses == {"absent", "pending", "running", "completed", "failed"}
Goroutine == [job : Jobs, pc : {"start", "dispatch", "ok", "err", "done", "release"}]

\* A row of the table as a poll has read it.
Row == [job : Jobs, status : Statuses]

ASSUME NoJobAssumption == NoJob \notin Goroutine

PoolTypeOK ==
  /\ status \in [Jobs -> Statuses]
  /\ table \in Seq(Jobs)
  /\ loop \in {"select", "poll", "done"}
  /\ todo \in Seq(Row)
  /\ worker \in [Slots -> Goroutine \cup {NoJob}]
  /\ wg \in Nat
  /\ stop \in {"no", "closing", "returned"}
  /\ ctxDone \in BOOLEAN

\* NewPool and Start.
PoolInit ==
  /\ status = [j \in Jobs |-> "absent"]
  /\ table = <<>>
  /\ loop = "select"
  /\ todo = <<>>
  /\ worker = [s \in Slots |-> NoJob]
  /\ wg = 1
  /\ stop = "no"
  /\ ctxDone = FALSE

Quitting == stop # "no" \/ ctxDone

\* A goroutine that the WaitGroup still counts.
Counted(s) == worker[s] # NoJob /\ worker[s].pc # "release"

-----------------------------------------------------------------------------
(* The loop goroutine.                                                     *)

Submit(j) ==
  /\ status[j] = "absent"
  /\ status' = [status EXCEPT ![j] = "pending"]
  /\ table' = <<j>> \o table
  /\ UNCHANGED <<loop, todo, worker, wg, stop, ctxDone>>

\* The first Limit jobs of the table, newest first, whatever their status.
ListJobs == SubSeq(table, 1, IF Len(table) < Limit THEN Len(table) ELSE Limit)

\* The rows with the status they have now.
Rows == [i \in DOMAIN ListJobs |-> [job |-> ListJobs[i], status |-> status[ListJobs[i]]]]

\* The poll goes on to the first of the rows q that is pending.
Advance(q) ==
  \/ /\ \A i \in DOMAIN q : q[i].status # "pending"
     /\ todo' = <<>>
  \/ \E i \in DOMAIN q :
       /\ q[i].status = "pending" /\ \A k \in 1..(i - 1) : q[k].status # "pending"
       /\ todo' = SubSeq(q, i, Len(q))

Poll ==
  /\ loop = "select"
  /\ loop' = "poll"
  /\ Advance(Rows)
  /\ UNCHANGED <<status, table, worker, wg, stop, ctxDone>>

\* Fault: the goroutine is not counted.
StartJobUncounted(s) ==
  /\ loop = "poll" /\ todo # <<>>
  /\ worker[s] = NoJob
  /\ worker' = [worker EXCEPT ![s] = [job |-> Head(todo).job, pc |-> "start"]]
  /\ Advance(Tail(todo))
  /\ UNCHANGED <<status, table, loop, wg, stop, ctxDone>>

StartJob(s) ==
  /\ loop = "poll" /\ todo # <<>>
  /\ worker[s] = NoJob
  /\ worker' = [worker EXCEPT ![s] = [job |-> Head(todo).job, pc |-> "start"]]
  /\ Advance(Tail(todo))
  /\ wg' = wg + 1
  /\ UNCHANGED <<status, table, loop, stop, ctxDone>>

\* The list is exhausted, or the select found the pool quitting.
PollEnd ==
  /\ loop = "poll"
  /\ todo = <<>> \/ Quitting
  /\ loop' = "select"
  /\ todo' = <<>>
  /\ UNCHANGED <<status, table, worker, wg, stop, ctxDone>>

\* Fault: the loop listens to the context only.
LoopExitOnCancel ==
  /\ loop = "select" /\ ctxDone
  /\ loop' = "done"
  /\ wg' = wg - 1
  /\ UNCHANGED <<status, table, todo, worker, stop, ctxDone>>

LoopExit ==
  /\ loop = "select" /\ Quitting
  /\ loop' = "done"
  /\ wg' = wg - 1
  /\ UNCHANGED <<status, table, todo, worker, stop, ctxDone>>

-----------------------------------------------------------------------------
(* A worker goroutine.                                                     *)

Goto(s, label) == worker' = [worker EXCEPT ![s].pc = label]

At(s, labels) == worker[s] # NoJob /\ worker[s].pc \in labels

UpdateJobStatus(j, to) == status' = [status EXCEPT ![j] = to]

\* Mark the job running; if that fails the goroutine gives up.
MarkRunning(s) ==
  /\ At(s, {"start"})
  /\ \/ /\ UpdateJobStatus(worker[s].job, "running")
        /\ Goto(s, "dispatch")
     \/ /\ DBFails
        /\ Goto(s, "done")
        /\ UNCHANGED status
  /\ UNCHANGED <<table, loop, todo, wg, stop, ctxDone>>

\* The tool runs, or the dispatcher answers with an error: refused, paused for an
\* approval, or failed.
DispatchJob(s) ==
  /\ At(s, {"dispatch"})
  /\ Goto(s, "ok") \/ Goto(s, "err")
  /\ UNCHANGED <<status, table, loop, todo, wg, stop, ctxDone>>

\* The result of the final update is ignored.
Report(s) ==
  /\ At(s, {"ok", "err"})
  /\ \/ UpdateJobStatus(worker[s].job,
                        IF worker[s].pc = "ok" THEN "completed" ELSE "failed")
     \/ DBFails /\ UNCHANGED status
  /\ Goto(s, "done")
  /\ UNCHANGED <<table, loop, todo, wg, stop, ctxDone>>

\* The deferred calls: first the WaitGroup, then the semaphore.
WgDone(s) ==
  /\ At(s, {"done"})
  /\ wg' = wg - 1
  /\ Goto(s, "release")
  /\ UNCHANGED <<status, table, loop, todo, stop, ctxDone>>

\* Fault: the slot of the semaphore is not given back.
ReleaseNothing(s) ==
  /\ At(s, {"release"})
  /\ UNCHANGED poolVars

Release(s) ==
  /\ At(s, {"release"})
  /\ worker' = [worker EXCEPT ![s] = NoJob]
  /\ UNCHANGED <<status, table, loop, todo, wg, stop, ctxDone>>

-----------------------------------------------------------------------------
(* The owner of the pool.                                                  *)

Stop ==
  /\ stop = "no"
  /\ stop' = "closing"
  /\ UNCHANGED <<status, table, loop, todo, worker, wg, ctxDone>>

StopReturn ==
  /\ stop = "closing"
  /\ wg = 0
  /\ stop' = "returned"
  /\ UNCHANGED <<status, table, loop, todo, worker, wg, ctxDone>>

Cancel ==
  /\ ~ctxDone
  /\ ctxDone' = TRUE
  /\ UNCHANGED <<status, table, loop, todo, worker, wg, stop>>

LoopStep == Poll \/ (\E s \in Slots : StartJob(s)) \/ PollEnd

WorkerStep(s) ==
  MarkRunning(s) \/ DispatchJob(s) \/ Report(s) \/ WgDone(s) \/ Release(s)

PoolNext ==
  \/ \E j \in Jobs : Submit(j)
  \/ LoopStep \/ LoopExit
  \/ \E s \in Slots : WorkerStep(s)
  \/ Stop \/ StopReturn \/ Cancel

\* The ticker fires for ever, goroutines are scheduled and tools return; a
\* select in which the closed channel stays ready takes it in the end.
PoolFairness ==
  /\ WF_poolVars(LoopStep)
  /\ SF_poolVars(LoopExit)
  /\ \A s \in Slots : WF_poolVars(WorkerStep(s))
  /\ WF_poolVars(StopReturn)

PoolSpec == PoolInit /\ [][PoolNext]_poolVars /\ PoolFairness

-----------------------------------------------------------------------------
(* Properties.                                                             *)

\* The counter of the WaitGroup counts the loop and the goroutines that have
\* not called Done, so it is never raised from zero while Stop waits on it.
WaitGroupCounts ==
  wg = Cardinality({s \in Slots : Counted(s)}) + (IF loop = "done" THEN 0 ELSE 1)

\* When Stop has returned nothing of the pool is running any more: the loop has
\* ended, no goroutine will still touch the table or a tool, none will start.
DrainedOnReturn ==
  stop = "returned" => loop = "done" /\ \A s \in Slots : ~Counted(s)

\* The safety of the pool: what Stop waits for is what runs (worker.go).
PoolInv ==
  /\ PoolTypeOK
  /\ WaitGroupCounts
  /\ DrainedOnReturn

\* Stop returns, whatever list the loop is walking over and however many jobs
\* are still running.
StopReturns == stop = "closing" ~> stop = "returned"

Working(s, j) == worker[s] # NoJob /\ worker[s].job = j

\* As long as all jobs fit in one list, a pending job is taken up by a goroutine
\* in the end, unless the pool quits: jobs that fail, that cannot be marked
\* running, or whose result cannot be written give their slot back all the same.
JobsTaken ==
  \A j \in Jobs : status[j] = "pending" ~> (\E s \in Slots : Working(s, j)) \/ Quitting
=============================================================================
