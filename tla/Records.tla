------------------------------ MODULE Records -------------------------------
(***************************************************************************)
(* Who writes and reads the records: the agent with its session manager    *)
(* (internal/agent/session.go and the reply paths of agent.go), the        *)
(* history endpoints over internal/history, and background jobs with the   *)
(* audit goroutines of the dispatcher.  The agent loop is one goroutine;   *)
(* the endpoints and the audits run beside it.                             *)
(*                                                                         *)
(* Nothing in the program calls SaveMessage; it is here as the interface   *)
(* the history is written for, and its tests use it.                       *)
(***************************************************************************)
EXTENDS Database

CONSTANTS MaxTurns,  \* turns CompactThread keeps (50)
          MaxSaid,   \* bound: turns of a thread
          ConversationLimit,  \* conversations RecentMessages asks for (100)
          JobLimit            \* jobs the statistics ask for (10000)

ASSUME RecordsAssumption ==
  /\ MaxTurns \in Nat /\ MaxSaid \in Nat
  /\ ConversationLimit \in Nat \ {0} /\ JobLimit \in Nat \ {0}

VARIABLES hasLLM,    \* an LLM provider is configured
          active,    \* SessionManager.active: user -> thread
          threads,   \* SessionManager.history: user -> threads
          turns,     \* thread -> Thread.Turns, a turn is its number
          said,      \* history: thread -> turns ever added
          deleting,  \* threads whose DeleteThread has made its first call
          erased,    \* history: thread -> time of its last complete deletion
          stage,     \* job -> how far its goroutine in the worker pool is
          called,    \* history: job -> the record of the tool call it made
          auditing,  \* audit goroutines that have not saved their record
          dropped    \* history: the jobs of the calls whose record was not saved

sessionVars == <<hasLLM, active, threads, turns, said>>
deleteVars == <<deleting, erased>>
auditVars == <<stage, called, auditing, dropped>>
recordVars == <<dbVars, sessionVars, deleteVars, auditVars>>

RecordsTypeOK ==
  /\ DbTypeOK
  /\ hasLLM \in BOOLEAN
  /\ DOMAIN active \subseteq Users /\ \A u \in DOMAIN active : active[u] \in ThreadIds
  /\ threads \in [Users -> Seq(ThreadIds)]
  /\ turns \in [ThreadIds -> Seq(1..MaxSaid)]
  /\ said \in [ThreadIds -> 0..MaxSaid]
  /\ deleting \subseteq ThreadIds
  /\ erased \in [ThreadIds -> 0..LastWrite]
  /\ DOMAIN stage \subseteq DbJobIds
  /\ \A j \in DOMAIN stage : stage[j] \in {"polled", "running", "called", "ended"}
  /\ DOMAIN called \subseteq DbJobIds /\ \A j \in DOMAIN called : called[j] \in ActionRecord
  /\ auditing \subseteq (DbJobIds \cup {""}) \X ActionRecord
  /\ dropped \subseteq DbJobIds \cup {""}

RecordsInit ==
  /\ DbInit
  /\ hasLLM \in BOOLEAN
  /\ active = <<>>
  /\ threads = [u \in Users |-> <<>>]
  /\ turns = [t \in ThreadIds |-> <<>>]
  /\ said = [t \in ThreadIds |-> 0]
  /\ deleting = {}
  /\ erased = [t \in ThreadIds |-> 0]
  /\ stage = <<>>
  /\ called = <<>>
  /\ auditing = {}
  /\ dropped = {}

Listed == UNION {ToSet(threads[u]) : u \in Users}

-----------------------------------------------------------------------------
(* The agent.                                                              *)

\* t is the user's current thread, or a new one with a fresh id.
GetOrCreateThread(u, t) ==
  IF u \in DOMAIN active
  THEN t = active[u] /\ UNCHANGED <<active, threads>>
  ELSE /\ t \notin Listed
       /\ active' = With(active, u, t)
       /\ threads' = [threads EXCEPT ![u] = Append(@, t)]

\* Fault: the oldest turns are kept.
CompactOldest(ts) == SubSeq(ts, 1, IF Len(ts) <= MaxTurns THEN Len(ts) ELSE MaxTurns)

CompactThread(ts) ==
  IF Len(ts) <= MaxTurns THEN ts ELSE SubSeq(ts, Len(ts) - MaxTurns + 1, Len(ts))

AddTurn(t) == Append(turns[t], said[t] + 1)

Speaks(u, t) ==
  /\ said[t] < MaxSaid
  /\ GetOrCreateThread(u, t)
  /\ said' = [said EXCEPT ![t] = @ + 1]
  /\ UNCHANGED <<hasLLM, deleteVars, auditVars>>

\* A text reply of the LLM; the thread is saved, and an error is ignored.
ReplyText(u, t) ==
  /\ hasLLM
  /\ Speaks(u, t)
  /\ turns' = [turns EXCEPT ![t] = AddTurn(t)]
  /\ SaveConversation(t, u) \/ UNCHANGED dbVars

\* A tool called by name, or the summary of the tools the LLM called: neither
\* saved nor compacted.
ReplyTool(u, t) ==
  /\ Speaks(u, t)
  /\ turns' = [turns EXCEPT ![t] = AddTurn(t)]
  /\ UNCHANGED dbVars

\* echoReply.
ReplyEcho(u, t) ==
  /\ ~hasLLM
  /\ Speaks(u, t)
  /\ turns' = [turns EXCEPT ![t] = CompactThread(AddTurn(t))]
  /\ UNCHANGED dbVars

\* /new returns the current thread if there is one.
CommandNew(u, t) ==
  /\ GetOrCreateThread(u, t)
  /\ UNCHANGED <<hasLLM, turns, said, dbVars, deleteVars, auditVars>>

\* /switch; an id that is not the user's changes nothing.
CommandSwitch(u, t) ==
  /\ t \in ToSet(threads[u])
  /\ active' = With(active, u, t)
  /\ UNCHANGED <<hasLLM, threads, turns, said, dbVars, deleteVars, auditVars>>

\* buildLLMMessages without the system prompt and the new message, turn by turn: a
\* turn is what the user said and, unless it was empty, the reply to it.
LLMContext(u) == IF u \in DOMAIN active THEN turns[active[u]] ELSE <<>>

-----------------------------------------------------------------------------
(* The history endpoints and internal/history/store.go.                    *)

WriteMessage(t) ==
  /\ \E hit \in BOOLEAN : SaveMessage(t, hit)
  /\ UNCHANGED <<sessionVars, deleteVars, auditVars>>

ArchiveThread(t) ==
  /\ messages[t] # <<>>
  /\ DeleteMessagesByThread(t)
  /\ UNCHANGED <<sessionVars, deleteVars, auditVars>>

\* DeleteThread: the messages, then the conversation.
DeleteThread(t) ==
  /\ t \notin deleting
  /\ DeleteMessagesByThread(t)
  /\ deleting' = deleting \cup {t}
  /\ UNCHANGED <<erased, sessionVars, auditVars>>

DeleteThreadEnd(t) ==
  /\ t \in deleting
  /\ DeleteConversation(t)
  /\ deleting' = deleting \ {t}
  /\ erased' = [erased EXCEPT ![t] = writes]
  /\ UNCHANGED <<sessionVars, auditVars>>

\* The second call fails: what is left is an archived thread.
DeleteThreadFails(t) ==
  /\ t \in deleting
  /\ deleting' = deleting \ {t}
  /\ UNCHANGED <<erased, dbVars, sessionVars, auditVars>>

\* The two nested loops: what the inner one makes of the list for each i.
Exchange(s, i, j) == IF s[j].at > s[i].at THEN [s EXCEPT ![i] = s[j], ![j] = s[i]] ELSE s

InnerLoop(s, i) ==
  LET upTo[j \in i..Len(s)] == IF j = i THEN s ELSE Exchange(upTo[j - 1], i, j)
  IN upTo[Len(s)]

sortMessagesDesc(msgs) ==
  LET upTo[i \in 0..Len(msgs)] == IF i = 0 THEN msgs ELSE InnerLoop(upTo[i - 1], i)
  IN upTo[Len(msgs)]

\* The messages of the listed threads, appended one thread after the other.
Gathered(convs, limit) ==
  LET upTo[i \in 0..Len(convs)] ==
        IF i = 0 THEN <<>> ELSE upTo[i - 1] \o GetMessagesByThread(convs[i], limit, 0)
  IN upTo[Len(convs)]

\* convs is a list of the first ConversationLimit conversations of the user.
RecentMessages(convs, limit) ==
  LET all == sortMessagesDesc(Gathered(convs, limit))
  IN SubSeq(all, 1, IF Len(all) > limit THEN limit ELSE Len(all))

-----------------------------------------------------------------------------
(* Background jobs, their audit records and internal/history/analytics.go. *)

\* Pool.Submit; an id is drawn once.
Submit(j, u) ==
  /\ j \notin DOMAIN stage
  /\ SaveJob(j, u)
  /\ stage' = With(stage, j, "polled")
  /\ UNCHANGED <<called, auditing, dropped, sessionVars, deleteVars>>

\* runJob gives up a job it cannot mark as running.
RunJob(j) ==
  /\ j \in DOMAIN stage /\ stage[j] = "polled"
  /\ UpdateJobStatus(j, "running")
  /\ stage' = [stage EXCEPT ![j] = IF memUpdated(j) \/ pgUpdated(j) THEN "running" ELSE "ended"]
  /\ UNCHANGED <<called, auditing, dropped, sessionVars, deleteVars>>

\* Dispatch returns and leaves its audit goroutine behind.
Dispatched(j, rec) ==
  /\ j \in DOMAIN stage /\ stage[j] = "running"
  /\ stage' = [stage EXCEPT ![j] = "called"]
  /\ called' = With(called, j, rec)
  /\ auditing' = auditing \cup {<<j, rec>>}
  /\ UNCHANGED <<dropped, dbVars, sessionVars, deleteVars>>

\* The last update, of a job that may be gone.
JobEnds(j) ==
  /\ j \in DOMAIN stage /\ stage[j] = "called"
  /\ stage' = [stage EXCEPT ![j] = "ended"]
  /\ UpdateJobStatus(j, IF called[j].failed THEN "failed" ELSE "completed")
  /\ UNCHANGED <<called, auditing, dropped, sessionVars, deleteVars>>

\* Dispatch refuses the call: no audit.
JobRefused(j) ==
  /\ j \in DOMAIN stage /\ stage[j] = "running"
  /\ stage' = [stage EXCEPT ![j] = "ended"]
  /\ UpdateJobStatus(j, "failed")
  /\ UNCHANGED <<called, auditing, dropped, sessionVars, deleteVars>>

\* A tool call of the agent, which has no job id.
AgentCall(rec) ==
  /\ actions[""] = <<>>
  /\ auditing' = auditing \cup {<<"", rec>>}
  /\ UNCHANGED <<dbVars, stage, called, dropped, sessionVars, deleteVars>>

Audit(a) ==
  /\ a \in auditing
  /\ SaveActionRecord(a[1], a[2])
  /\ auditing' = auditing \ {a}
  /\ UNCHANGED <<stage, called, dropped, sessionVars, deleteVars>>

\* PostgreSQL is out of reach, or does not answer within 5 seconds; the error is
\* ignored and nothing tries again.
AuditFails(a) ==
  /\ driver = "postgres" /\ a \in auditing
  /\ auditing' = auditing \ {a}
  /\ dropped' = dropped \cup {a[1]}
  /\ UNCHANGED <<dbVars, stage, called, sessionVars, deleteVars>>

RemoveJob(j) ==
  /\ j \in DOMAIN jobRows
  /\ memDeleteJob(j) \/ pgDeleteJob(j)
  /\ UNCHANGED <<sessionVars, deleteVars, auditVars>>

\* jobs is a list of the first JobLimit jobs.
GetJobStats(jobs) ==
  [total |-> Len(jobs),
   completed |-> Cardinality({i \in DOMAIN jobs : jobRows[jobs[i]].status = "completed"}),
   failed |-> Cardinality({i \in DOMAIN jobs : jobRows[jobs[i]].status = "failed"})]

\* The records of one tool under the listed jobs.
ToolRecords(jobs, tool) ==
  UNION {{<<j, i>> : i \in {i \in DOMAIN actions[j] : actions[j][i].tool = tool}} :
           j \in ToSet(jobs)}

GetToolStats(jobs, tool) ==
  LET recs == ToolRecords(jobs, tool)
      failures == {r \in recs : actions[r[1]][r[2]].failed}
  IN [total |-> Cardinality(recs), success |-> Cardinality(recs \ failures),
      failed |-> Cardinality(failures)]

-----------------------------------------------------------------------------
(* The two halves share no row.                                            *)

ChatNext ==
  \E t \in ThreadIds :
    \/ \E u \in Users : \/ ReplyText(u, t) \/ ReplyTool(u, t) \/ ReplyEcho(u, t)
                        \/ CommandNew(u, t) \/ CommandSwitch(u, t)
    \/ WriteMessage(t) \/ ArchiveThread(t)
    \/ DeleteThread(t) \/ DeleteThreadEnd(t) \/ DeleteThreadFails(t)

WorkNext ==
  \/ \E j \in DbJobIds :
       \/ \E u \in Users : Submit(j, u)
       \/ RunJob(j) \/ JobEnds(j) \/ JobRefused(j) \/ RemoveJob(j)
       \/ \E rec \in ActionRecord : Dispatched(j, rec)
  \/ \E rec \in ActionRecord : AgentCall(rec)
  \/ \E a \in auditing : Audit(a) \/ AuditFails(a)

RecordsSpec == RecordsInit /\ [][ChatNext \/ WorkNext]_recordVars

-----------------------------------------------------------------------------
(* Properties.                                                             *)

\* The list holds the latest of n turns in order and without a gap, as many as
\* compaction keeps or more.
LatestTurns(list, n) ==
  /\ Len(list) <= n
  /\ Len(list) >= n \/ Len(list) >= MaxTurns
  /\ \A i \in DOMAIN list : list[i] = n - Len(list) + i

\* What the LLM is told is the latest turns of the user's own current thread, in
\* order and without a gap, whatever was compacted and however often the user
\* switched.
ContextIsRecent == \A u \in DOMAIN active : LatestTurns(LLMContext(u), said[active[u]])

\* The same of every thread, whoever may switch to it next.
TurnsKept == \A t \in ThreadIds : LatestTurns(turns[t], said[t])

\* A thread has one owner: it is listed once, it is current only for its owner,
\* and the stored conversation names the owner.
OneOwner ==
  /\ \A u, v \in Users : \A i \in DOMAIN threads[u], k \in DOMAIN threads[v] :
       threads[u][i] = threads[v][k] => u = v /\ i = k
  /\ \A u \in DOMAIN active : active[u] \in ToSet(threads[u])
  /\ \A t \in DOMAIN conversations : t \in ToSet(threads[conversations[t].user])

\* The safety of the session manager: what the LLM is told comes from the latest
\* turns of a thread that belongs to the user (session.go, agent.go).
ThreadsInv ==
  /\ RecordsTypeOK
  /\ ContextIsRecent
  /\ TurnsKept
  /\ OneOwner

\* What a complete deletion of a thread leaves was written after it, although a
\* message may be saved between its two calls.
DeletedIsGone ==
  \A t \in ThreadIds :
    /\ erased[t] <= writes
    /\ \A i \in DOMAIN messages[t] : messages[t][i].at > erased[t]
    /\ t \in DOMAIN conversations => conversations[t].updated > erased[t]

\* Each message has a time of its own, later in a thread than those before it.
TimesApart ==
  \A t, u \in ThreadIds : \A i \in DOMAIN messages[t], k \in DOMAIN messages[u] :
    /\ messages[t][i].at \in 1..writes
    /\ t = u /\ i < k => messages[t][i].at < messages[u][k].at
    /\ t # u => messages[t][i].at # messages[u][k].at

\* Walking through a thread page by page yields every message once, in order: each
\* page holds the messages from its offset on, and each message is on a page.
PagesCover ==
  \A t \in ThreadIds, limit \in 1..LastWrite :
    LET page(p) == GetMessagesByThread(t, limit, p * limit)
    IN /\ \A p \in 0..Len(messages[t]) : \A i \in DOMAIN page(p) :
            p * limit + i \in DOMAIN messages[t] /\ page(p)[i] = messages[t][p * limit + i]
       /\ \A k \in DOMAIN messages[t] : \E p \in 0..Len(messages[t]) :
            k - p * limit \in DOMAIN page(p)

\* A list of n of own: each once, and all of them if they are no more than n.
ListOf(list, own, n) ==
  /\ ToSet(list) \subseteq own
  /\ Len(list) = IF Cardinality(own) > n THEN n ELSE Cardinality(own)
  /\ \A i, k \in DOMAIN list : list[i] = list[k] => i = k
  /\ Cardinality(own) <= n => ToSet(list) = own

\* RecentMessages looks at no more conversations than it asks for.  As long as none
\* of those holds more messages than are wanted, it returns the latest of all of
\* theirs, the latest first; with the memory driver they may be any of the user's,
\* with PostgreSQL those left out changed before every one looked at.
RecentAreLatest ==
  \A u \in Users, n \in 1..ConversationLimit : \A convs \in ListConversations(u, n, 0) :
    /\ ListOf(convs, ConversationsOf(u), n)
    /\ driver = "postgres" =>
         \A t \in ConversationsOf(u) \ ToSet(convs), c \in ToSet(convs) :
           conversations[t].updated < conversations[c].updated
    /\ \A limit \in 1..LastWrite :
         (\A i \in DOMAIN convs : Len(messages[convs[i]]) <= limit) =>
           LET all == UNION {ToSet(messages[t]) : t \in ToSet(convs)}
               got == RecentMessages(convs, limit)
           IN /\ Len(got) <= limit /\ ToSet(got) \subseteq all
              /\ \A i, k \in DOMAIN got : i < k => got[i].at > got[k].at
              /\ \A m \in all \ ToSet(got) :
                   Len(got) = limit /\ \A i \in DOMAIN got : got[i].at > m.at

\* The safety of the history: deletions, pages and the list of latest messages
\* agree with what was written (history/store.go, memory.go, postgres.go).
HistoryInv ==
  /\ DeletedIsGone
  /\ IsFiniteSet(DOMAIN conversations) /\ TimesApart
  /\ PagesCover
  /\ RecentAreLatest

\* In PostgreSQL no row outlives the one it belongs to.
NoOrphanRows ==
  driver = "postgres" =>
    /\ \A t \in ThreadIds : messages[t] # <<>> => t \in DOMAIN conversations
    /\ \A j \in DbJobIds \cup {""} : actions[j] # <<>> => j \in DOMAIN jobRows

\* The record of a job's call is to be saved by its audit goroutine, has been saved
\* once, or was given up, unless the job was removed; with the memory driver none is
\* given up; a job completes after a successful call.
OneRecord(j) ==
  /\ j \in DOMAIN jobRows \cup DOMAIN called => j \in DOMAIN stage
  /\ j \in DOMAIN stage => (stage[j] = "called" => j \in DOMAIN called)
  /\ j \notin DOMAIN called => actions[j] = <<>> /\ j \notin dropped
  /\ j \in DOMAIN called =>
       /\ stage[j] \in {"called", "ended"}
       /\ <<j, called[j]>> \in auditing => actions[j] = <<>> /\ j \notin dropped
       /\ <<j, called[j]>> \notin auditing /\ j \in DOMAIN jobRows =>
            actions[j] = IF j \in dropped THEN <<>> ELSE <<called[j]>>
  /\ j \in dropped => driver = "postgres"
  /\ \A rec \in ActionRecord :
       <<j, rec>> \in auditing => j \in DOMAIN called /\ called[j] = rec
  /\ j \in DOMAIN jobRows =>
       (jobRows[j].status = "completed" => j \in DOMAIN called /\ ~called[j].failed)

\* The statistics of a list of jobs count each of them once, and each call whose
\* record was saved once.
StatisticsOf(jobs) ==
  /\ GetJobStats(jobs).completed + GetJobStats(jobs).failed <= GetJobStats(jobs).total
  /\ \A tool \in ToolNames :
       LET done == {j \in ToSet(jobs) \cap DOMAIN called :
                      called[j].tool = tool /\ <<j, called[j]>> \notin auditing /\ j \notin dropped}
       IN GetToolStats(jobs, tool) =
            [total |-> Cardinality(done),
             success |-> Cardinality({j \in done : ~called[j].failed}),
             failed |-> Cardinality({j \in done : called[j].failed})]

\* A job that completed has a record of its call, its audit goroutine is still to
\* save it, or the save failed; and the statistics are those of as many jobs as they
\* ask for, of all if there are no more.
AuditTrail ==
  /\ \A j \in DOMAIN jobRows : jobRows[j].status = "completed" =>
       \/ \E i \in DOMAIN actions[j] : ~actions[j][i].failed
       \/ \E a \in auditing : a[1] = j
       \/ j \in dropped
  /\ \A n \in 1..JobLimit : \A jobs \in ListJobs("", n, 0) :
       ListOf(jobs, DOMAIN jobRows, n) /\ StatisticsOf(jobs)

\* The safety of the tables: rows, audit records and statistics agree with the
\* jobs and threads they belong to (postgres.go, memory.go, dispatch.go,
\* analytics.go).
RowsInv ==
  /\ NoOrphanRows
  /\ IsFiniteSet(DOMAIN jobRows) /\ \A j \in DbJobIds : OneRecord(j)
  /\ AuditTrail
=============================================================================
