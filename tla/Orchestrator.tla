---------------------------- MODULE Orchestrator ----------------------------
(***************************************************************************)
(* The job orchestrator, internal/orchestrator: the job table, the bearer  *)
(* tokens and the reaper that fails jobs in progress for too long.  Each   *)
(* method of the table and of the token store holds its lock; CreateJob    *)
(* calls both, and the reaper works through a list of pointers without a   *)
(* lock, so other calls fall between their steps.                          *)
(*                                                                         *)
(* The status changes of a running job come from whoever executes it,      *)
(* through JobManager.UpdateStatus, which accepts any change.              *)
(***************************************************************************)
EXTENDS Naturals, Sequences, FiniteSets

CONSTANTS JobIds,      \* ids newJobID may draw
          JobUsers,
          MaxJobs,     \* Config.MaxConcurrentJobs, 0 for no limit
          JobTimeout,
          LastStart,   \* bound: no job is started after this time
          JobClockEnd, \* bound on the model's clock
          Never

ASSUME OrchestratorAssumption ==
  /\ {MaxJobs, JobTimeout, LastStart, JobClockEnd} \subseteq Nat
  /\ LastStart + JobTimeout < JobClockEnd
  /\ Never \notin Nat

Terminal == {"completed", "failed", "cancelled"}
Status == {"pending", "in_progress"} \cup Terminal
Stamp == 0..JobClockEnd \cup {Never}
JobRecord == [user : JobUsers, status : Status, started : Stamp, completed : Stamp,
              timedOut : BOOLEAN]

VARIABLES jobs,      \* MemoryJobManager.jobs
          byUser,    \* user -> ids of its jobs
          tokens,    \* TokenStore.tokens: job -> token; a token is named by its job
          creating,  \* jobs CreateJob has filed and not yet given a token
          scan,      \* jobs the reaper has still to look at
          scanTime,  \* the time it compares with
          victim,    \* the overdue job it is about to fail, if any
          jobNow,    \* the clock
          overdue    \* history: jobs that were once in progress for too long

tableVars == <<jobs, byUser>>
reaperVars == <<scan, scanTime, victim>>
orchVars == <<tableVars, tokens, creating, reaperVars, jobNow, overdue>>

OrchTypeOK ==
  /\ DOMAIN jobs \subseteq JobIds
  /\ \A j \in DOMAIN jobs : jobs[j] \in JobRecord
  /\ byUser \in [JobUsers -> Seq(JobIds)]
  /\ tokens \subseteq JobIds
  /\ creating \subseteq JobIds
  /\ scan \subseteq JobIds
  /\ scanTime \in 0..JobClockEnd
  /\ victim \subseteq JobIds
  /\ jobNow \in 0..JobClockEnd
  /\ overdue \subseteq JobIds

OrchInit ==
  /\ jobs = <<>>
  /\ byUser = [u \in JobUsers |-> <<>>]
  /\ tokens = {}
  /\ creating = {}
  /\ scan = {}
  /\ scanTime = 0
  /\ victim = {}
  /\ jobNow = 0
  /\ overdue = {}

\* The limit counts every job ever filed; none is removed.
HasRoom == MaxJobs > 0 => Cardinality(DOMAIN jobs) < MaxJobs

\* CreateJob: jm.Create ...
Create(u, j) ==
  /\ HasRoom
  /\ j \notin DOMAIN jobs
  /\ jobs' = [k \in DOMAIN jobs \cup {j} |->
                IF k = j THEN [user |-> u, status |-> "pending", started |-> Never,
                               completed |-> Never, timedOut |-> FALSE]
                ELSE jobs[k]]
  /\ byUser' = [byUser EXCEPT ![u] = Append(@, j)]
  /\ creating' = creating \cup {j}
  /\ UNCHANGED <<tokens, reaperVars, jobNow, overdue>>

\* ... then ts.Generate; the job is returned.
Generate(j) ==
  /\ j \in creating
  /\ tokens' = tokens \cup {j}
  /\ creating' = creating \ {j}
  /\ UNCHANGED <<tableVars, reaperVars, jobNow, overdue>>

\* MemoryJobManager.UpdateStatus on one record.
UpdatedJob(job, status) ==
  [job EXCEPT !.status = status,
              !.started = IF status = "in_progress" THEN jobNow ELSE @,
              !.completed = IF status \in Terminal THEN jobNow ELSE @]

\* The executor of the job, or CancelJob; a job that does not exist is an error.
jmUpdateStatus(j, status) ==
  /\ j \in DOMAIN jobs
  /\ status = "in_progress" => jobNow <= LastStart
  /\ jobs' = [jobs EXCEPT ![j] = UpdatedJob(@, status)]
  /\ UNCHANGED <<byUser, tokens, creating, reaperVars, jobNow, overdue>>

\* Cleanup: All and time.Now ...
ReaperScan ==
  /\ scan = {} /\ victim = {}
  /\ scan' = DOMAIN jobs
  /\ scanTime' = jobNow
  /\ UNCHANGED <<tableVars, tokens, creating, victim, jobNow, overdue>>

\* Fault: the start of the job is not looked at.
LateWhileRunning(j) == jobs[j].status = "in_progress"

Late(j) ==
  /\ jobs[j].status = "in_progress"
  /\ jobs[j].started # Never
  /\ scanTime > jobs[j].started + JobTimeout

\* ... one job after the other, read without the lock ...
ReaperLook(j) ==
  /\ victim = {} /\ j \in scan
  /\ scan' = scan \ {j}
  /\ victim' = IF Late(j) THEN {j} ELSE {}
  /\ UNCHANGED <<tableVars, tokens, creating, scanTime, jobNow, overdue>>

\* Fault: the reaper marks the job and leaves its status.
ReaperMark ==
  /\ victim # {}
  /\ jobs' = [j \in DOMAIN jobs |->
                IF j \in victim THEN [jobs[j] EXCEPT !.timedOut = TRUE] ELSE jobs[j]]
  /\ victim' = {}
  /\ UNCHANGED <<byUser, tokens, creating, scan, scanTime, jobNow, overdue>>

\* ... and fail it, whatever it is by now.
ReaperFail ==
  /\ victim # {}
  /\ jobs' = [j \in DOMAIN jobs |->
                IF j \in victim THEN [UpdatedJob(jobs[j], "failed") EXCEPT !.timedOut = TRUE]
                ELSE jobs[j]]
  /\ victim' = {}
  /\ UNCHANGED <<byUser, tokens, creating, scan, scanTime, jobNow, overdue>>

JobTick ==
  /\ jobNow < JobClockEnd
  /\ jobNow' = jobNow + 1
  /\ overdue' = overdue \cup {j \in DOMAIN jobs : /\ jobs[j].status = "in_progress"
                                                  /\ jobNow + 1 > jobs[j].started + JobTimeout}
  /\ UNCHANGED <<tableVars, tokens, creating, reaperVars>>

ReaperStep == (\E j \in JobIds : ReaperLook(j)) \/ ReaperFail

OrchNext ==
  \/ \E u \in JobUsers, j \in JobIds : Create(u, j)
  \/ \E j \in JobIds : Generate(j)
  \/ \E j \in JobIds, s \in Status \ {"pending"} : jmUpdateStatus(j, s)
  \/ ReaperScan \/ ReaperStep \/ JobTick

\* The reaper's ticker fires again and again, a scan it has begun goes on, and
\* time passes.  No job has to be created, started or ended.
OrchFairness == WF_orchVars(ReaperScan) /\ WF_orchVars(ReaperStep) /\ WF_orchVars(JobTick)

OrchSpec == OrchInit /\ [][OrchNext]_orchVars /\ OrchFairness

-----------------------------------------------------------------------------
(* Properties.                                                             *)

\* A user's list names exactly its jobs, each once, and the table stays within
\* the limit, however creations interleave.
JobIndex ==
  /\ \A u \in JobUsers :
       LET ids == byUser[u]
       IN /\ {ids[i] : i \in DOMAIN ids} = {j \in DOMAIN jobs : jobs[j].user = u}
          /\ \A i, k \in DOMAIN ids : ids[i] = ids[k] => i = k
  /\ MaxJobs > 0 => Cardinality(DOMAIN jobs) <= MaxJobs

\* A job that CreateJob has returned has a token, and no token is left without a
\* job.
TokenForEveryJob == tokens = DOMAIN jobs \ creating

\* The reaper fails no job that was in time: a job marked as timed out, or about
\* to be, was in progress longer than the timeout.  It need not be any more when
\* it is failed.
ReapedWereOverdue ==
  /\ victim \subseteq overdue
  /\ \A j \in DOMAIN jobs : jobs[j].timedOut => j \in overdue

\* An ended job has an end, no earlier than its start, although the reaper and
\* the executor may end it one after the other.
StampsOrdered ==
  \A j \in DOMAIN jobs :
    jobs[j].status \in Terminal =>
      /\ jobs[j].completed # Never
      /\ jobs[j].started # Never => jobs[j].started <= jobs[j].completed

\* What is in the hands of CreateJob or of the reaper is in the table, the reaper
\* compares with a time that has been, and overdue has every job that is late now.
Tracked ==
  /\ IsFiniteSet(DOMAIN jobs)
  /\ creating \cup scan \cup victim \subseteq DOMAIN jobs
  /\ scanTime <= jobNow
  /\ \A j \in DOMAIN jobs :
       /\ jobs[j].started # Never => jobs[j].started <= jobNow
       /\ jobs[j].status = "in_progress" =>
            /\ jobs[j].started # Never
            /\ jobNow > jobs[j].started + JobTimeout => j \in overdue

\* The safety of the orchestrator: table, index and tokens agree, and executor and
\* reaper together leave consistent jobs (job_manager.go, reaper.go, token.go).
OrchInv ==
  /\ OrchTypeOK
  /\ JobIndex
  /\ TokenForEveryJob
  /\ ReapedWereOverdue
  /\ StampsOrdered
  /\ Tracked

\* No job stays in progress for ever, also if its executor has died.
StuckJobsEnd ==
  \A j \in JobIds :
    (j \in DOMAIN jobs /\ jobs[j].status = "in_progress")
      ~> (j \in DOMAIN jobs /\ jobs[j].status # "in_progress")
=============================================================================
