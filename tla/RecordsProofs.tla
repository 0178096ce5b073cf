---------------------------- MODULE RecordsProofs ----------------------------
(***************************************************************************)
(* Proofs about threads, deletions, jobs and audit records, for any number *)
(* of users, threads, jobs and tools and both database drivers.            *)
(***************************************************************************)
EXTENDS Records, FiniteSetTheorems, SequenceTheorems, WellFoundedInduction, TLAPS

\* The empty list.
LEMMA EmptyList == ASSUME NEW S PROVE <<>> \in Seq(S)
  OBVIOUS

\* A pair and its parts.
LEMMA PairFacts ==
  ASSUME NEW S, NEW T, NEW p \in S \X T
  PROVE  p = <<p[1], p[2]>> /\ p[1] \in S /\ p[2] \in T
  OBVIOUS

\* The elements of a list are of its type.
LEMMA SequenceElements ==
  ASSUME NEW S, NEW s \in Seq(S) PROVE \A i \in 1..Len(s) : s[i] \in S
  OBVIOUS

\* The first element of a list.
LEMMA OneElement == ASSUME NEW x PROVE Append(<<>>, x) = <<x>>
  OBVIOUS

\* Appending to a list.
LEMMA AppendFacts ==
  ASSUME NEW S, NEW list \in Seq(S), NEW x \in S
  PROVE  /\ Append(list, x) \in Seq(S)
         /\ Len(Append(list, x)) = Len(list) + 1
         /\ DOMAIN Append(list, x) = DOMAIN list \cup {Len(list) + 1}
         /\ DOMAIN list = 1..Len(list) /\ Len(list) \in Nat
         /\ \A i \in DOMAIN list : Append(list, x)[i] = list[i]
         /\ Append(list, x)[Len(list) + 1] = x
  OBVIOUS

\* A thread that gets one more turn still holds its latest turns (AddTurn).
LEMMA AddTurnLatest ==
  ASSUME NEW list \in Seq(1..MaxSaid), NEW n \in 0..MaxSaid, n < MaxSaid, LatestTurns(list, n)
  PROVE  /\ Append(list, n + 1) \in Seq(1..MaxSaid)
         /\ LatestTurns(Append(list, n + 1), n + 1)
<1>1. MaxSaid \in Nat /\ MaxTurns \in Nat /\ n + 1 \in 1..MaxSaid
  BY RecordsAssumption
<1> DEFINE new == Append(list, n + 1)
<1>2. /\ new \in Seq(1..MaxSaid) /\ Len(new) = Len(list) + 1
      /\ DOMAIN new = DOMAIN list \cup {Len(list) + 1}
      /\ DOMAIN list = 1..Len(list) /\ Len(list) \in Nat
      /\ \A i \in DOMAIN list : new[i] = list[i]
      /\ new[Len(list) + 1] = n + 1
  BY <1>1, AppendFacts
<1> HIDE DEF new
<1>3. \A i \in DOMAIN new : new[i] = n + 1 - Len(new) + i
  <2> SUFFICES ASSUME NEW i \in DOMAIN new
               PROVE  new[i] = n + 1 - Len(new) + i
    OBVIOUS
  <2>1. CASE i \in DOMAIN list
    <3>1. list[i] = n - Len(list) + i
      BY <2>1 DEF LatestTurns
    <3>2. QED
      BY <1>1, <1>2, <2>1, <3>1
  <2>2. CASE i = Len(list) + 1
    BY <1>1, <1>2, <2>2
  <2>3. QED
    BY <1>2, <2>1, <2>2
<1>4. LatestTurns(new, n + 1)
  BY <1>1, <1>2, <1>3 DEF LatestTurns
<1>5. QED
  BY <1>2, <1>4 DEF new

\* So does a thread that is compacted (CompactThread).
LEMMA CompactLatest ==
  ASSUME NEW list \in Seq(1..MaxSaid), NEW n \in 0..MaxSaid, LatestTurns(list, n)
  PROVE  /\ CompactThread(list) \in Seq(1..MaxSaid)
         /\ LatestTurns(CompactThread(list), n)
<1>1. MaxSaid \in Nat /\ MaxTurns \in Nat
  BY RecordsAssumption
<1>2. CASE Len(list) <= MaxTurns
  BY <1>2 DEF CompactThread
<1>3. CASE ~(Len(list) <= MaxTurns)
  <2> DEFINE first == Len(list) - MaxTurns + 1
             new == SubSeq(list, first, Len(list))
  <2>1. Len(list) \in Nat /\ DOMAIN list = 1..Len(list) /\ first \in 2..(Len(list) + 1)
    BY <1>1, <1>3
  <2>2. /\ new \in Seq(1..MaxSaid) /\ Len(new) = MaxTurns
        /\ DOMAIN new = 1..MaxTurns
        /\ \A i \in 1..MaxTurns : new[i] = list[i + Len(list) - MaxTurns]
    <3>1. Len(list) - first + 1 = MaxTurns /\ first \in Nat /\ Len(list) - first + 1 \in Nat
      BY <1>1, <1>3, <2>1
    <3>2. \A i \in first..Len(list) : list[i] \in 1..MaxSaid
      <4>1. \A i \in 1..Len(list) : list[i] \in 1..MaxSaid
        BY SequenceElements
      <4>2. first..Len(list) \subseteq 1..Len(list)
        BY <2>1
      <4>3. QED
        BY <4>1, <4>2, Zenon
    <3>3. Len(new) = MaxTurns /\ DOMAIN new = 1..MaxTurns
      BY <1>1, <2>1, <3>1
    <3>4. \A i \in 1..MaxTurns : new[i] = list[i + Len(list) - MaxTurns]
      BY <1>1, <2>1, <3>1
    <3>5. new \in Seq(1..MaxSaid)
      BY <1>1, <2>1, <3>1, <3>2
    <3>6. QED
      BY <3>3, <3>4, <3>5
  <2>3. CompactThread(list) = new
    BY <1>3 DEF CompactThread
  <2> HIDE DEF new, first
  <2>4. \A i \in DOMAIN new : new[i] = n - Len(new) + i
    <3> SUFFICES ASSUME NEW i \in 1..MaxTurns
                 PROVE  new[i] = n - MaxTurns + i
      BY <2>2
    <3> DEFINE k == i + Len(list) - MaxTurns
    <3>1. k \in DOMAIN list
      BY <1>1, <1>3, <2>1
    <3>2. list[k] = n - Len(list) + k
      BY <3>1 DEF LatestTurns
    <3>3. QED
      BY <1>1, <2>1, <2>2, <3>2
  <2>5. LatestTurns(new, n)
    BY <1>1, <1>3, <2>1, <2>2, <2>4 DEF LatestTurns
  <2>6. QED
    BY <2>2, <2>3, <2>5
<1>4. QED
  BY <1>2, <1>3

-----------------------------------------------------------------------------
(* Types.                                                                  *)

\* The tables of conversations and messages keep their types under the methods that
\* change them (memory.go, postgres.go).
LEMMA ChatRowsType ==
  ASSUME DbTypeOK, NEW t \in ThreadIds,
         \/ \E u \in Users : SaveConversation(t, u)
         \/ \E hit \in BOOLEAN : SaveMessage(t, hit)
         \/ DeleteMessagesByThread(t) \/ DeleteConversation(t)
  PROVE  DbTypeOK'
<1>1. LastWrite \in Nat /\ writes \in 0..LastWrite
  BY DatabaseAssumption DEF DbTypeOK
<1>2. <<>> \in Seq(Message)
  BY EmptyList
<1>3. ASSUME NEW u \in Users, SaveConversation(t, u) PROVE DbTypeOK'
  <2>1. [user |-> u, updated |-> writes + 1] \in Conversation /\ writes + 1 \in 0..LastWrite
    BY <1>1, <1>3 DEF SaveConversation, Conversation
  <2>2. /\ DOMAIN conversations' = DOMAIN conversations \cup {t}
        /\ conversations'[t] = [user |-> u, updated |-> writes + 1]
        /\ \A k \in DOMAIN conversations : k # t => conversations'[k] = conversations[k]
    <3>1. conversations' = With(conversations, t, [user |-> u, updated |-> writes + 1])
      BY <1>3 DEF SaveConversation
    <3>2. QED
      BY <3>1 DEF With
  <2>3. \A k \in DOMAIN conversations' : conversations'[k] \in Conversation
    BY <2>1, <2>2 DEF DbTypeOK
  <2>4. QED
    BY <1>3, <2>1, <2>2, <2>3 DEF DbTypeOK, SaveConversation, workRows
<1>4. ASSUME NEW hit \in BOOLEAN, SaveMessage(t, hit), StoreMessage(t, hit)
      PROVE  DbTypeOK'
  <2>1. [at |-> writes + 1, hit |-> hit] \in Message /\ writes + 1 \in 1..LastWrite
    BY <1>1, <1>4 DEF SaveMessage, Message
  <2>2. Append(messages[t], [at |-> writes + 1, hit |-> hit]) \in Seq(Message)
    BY <2>1, AppendFacts DEF DbTypeOK
  <2>3. messages' \in [ThreadIds -> Seq(Message)]
    BY <1>4, <2>2 DEF DbTypeOK, StoreMessage
  <2>4. \A k \in DOMAIN conversations :
          [conversations[k] EXCEPT !.updated = writes + 1] \in Conversation
    BY <2>1 DEF DbTypeOK, Conversation
  <2>5. DOMAIN conversations' = DOMAIN conversations
    BY <1>4 DEF StoreMessage
  <2>6. \A k \in DOMAIN conversations' : conversations'[k] \in Conversation
    BY <1>4, <2>4, <2>5 DEF StoreMessage, DbTypeOK
  <2>7. writes' \in 0..LastWrite
    BY <1>1, <1>4, <2>1 DEF StoreMessage
  <2>8. QED
    BY <1>4, <2>3, <2>5, <2>6, <2>7 DEF DbTypeOK, StoreMessage, workRows
<1>5. CASE UNCHANGED dbVars
  BY <1>5 DEF DbTypeOK, dbVars, chatRows, workRows
<1>6. CASE DeleteMessagesByThread(t)
  <2>1. messages' \in [ThreadIds -> Seq(Message)]
    BY <1>2, <1>6 DEF DbTypeOK, DeleteMessagesByThread
  <2>2. QED
    BY <1>6, <2>1 DEF DbTypeOK, DeleteMessagesByThread, workRows
<1>7. CASE DeleteConversation(t)
  <2>1. /\ conversations' = Without(conversations, t)
        /\ messages' \in [ThreadIds -> Seq(Message)]
        /\ UNCHANGED <<driver, writes, workRows>>
    BY <1>2, <1>7 DEF DeleteConversation, memDeleteConversation, pgDeleteConversation, DbTypeOK
  <2>2. /\ DOMAIN conversations' = DOMAIN conversations \ {t}
        /\ \A k \in DOMAIN conversations : k # t => conversations'[k] = conversations[k]
    BY <2>1 DEF Without
  <2>3. \A k \in DOMAIN conversations' : conversations'[k] \in Conversation
    BY <2>2 DEF DbTypeOK
  <2>4. QED
    BY <2>1, <2>2, <2>3 DEF DbTypeOK, workRows
<1>8. QED
  BY <1>3, <1>4, <1>5, <1>6, <1>7 DEF SaveMessage, memSaveMessage, pgSaveMessage

\* So do the tables of jobs and action records.
LEMMA WorkRowsType ==
  ASSUME DbTypeOK,
         \/ \E j \in DbJobIds : \/ \E u \in Users : SaveJob(j, u)
                                \/ \E s \in JobStatus : UpdateJobStatus(j, s)
                                \/ memDeleteJob(j) \/ pgDeleteJob(j)
         \/ \E k \in DbJobIds \cup {""}, rec \in ActionRecord : SaveActionRecord(k, rec)
  PROVE  DbTypeOK'
<1>1. <<>> \in Seq(ActionRecord)
  BY EmptyList
<1>2. ASSUME NEW j \in DbJobIds, NEW u \in Users, SaveJob(j, u) PROVE DbTypeOK'
  <2>1. [user |-> u, status |-> "pending"] \in DbJob
    BY DEF DbJob, JobStatus
  <2>2. /\ DOMAIN jobRows' = DOMAIN jobRows \cup {j}
        /\ jobRows'[j] = [user |-> u, status |-> "pending"]
        /\ \A i \in DOMAIN jobRows : i # j => jobRows'[i] = jobRows[i]
    <3>1. jobRows' = With(jobRows, j, [user |-> u, status |-> "pending"])
      BY <1>2 DEF SaveJob
    <3>2. QED
      BY <3>1 DEF With
  <2>3. \A i \in DOMAIN jobRows' : jobRows'[i] \in DbJob
    BY <2>1, <2>2 DEF DbTypeOK
  <2>4. QED
    BY <1>2, <2>2, <2>3 DEF DbTypeOK, SaveJob, chatRows
<1>3. ASSUME NEW j \in DbJobIds, NEW s \in JobStatus, UpdateJobStatus(j, s) PROVE DbTypeOK'
  <2>1. \A i \in DOMAIN jobRows : [jobRows[i] EXCEPT !.status = s] \in DbJob
    BY DEF DbTypeOK, DbJob
  <2>2. DOMAIN jobRows' = DOMAIN jobRows
    BY <1>3 DEF UpdateJobStatus
  <2>3. \A i \in DOMAIN jobRows' : jobRows'[i] \in DbJob
    BY <1>3, <2>1, <2>2 DEF UpdateJobStatus, DbTypeOK
  <2>4. QED
    BY <1>3, <2>2, <2>3 DEF DbTypeOK, UpdateJobStatus, chatRows
<1>4. ASSUME NEW j \in DbJobIds, memDeleteJob(j) \/ pgDeleteJob(j) PROVE DbTypeOK'
  <2>1. /\ jobRows' = Without(jobRows, j)
        /\ actions' \in [DbJobIds \cup {""} -> Seq(ActionRecord)]
        /\ UNCHANGED <<driver, chatRows>>
    BY <1>1, <1>4 DEF memDeleteJob, pgDeleteJob, DbTypeOK
  <2>2. /\ DOMAIN jobRows' = DOMAIN jobRows \ {j}
        /\ \A i \in DOMAIN jobRows : i # j => jobRows'[i] = jobRows[i]
    BY <2>1 DEF Without
  <2>3. \A i \in DOMAIN jobRows' : jobRows'[i] \in DbJob
    BY <2>2 DEF DbTypeOK
  <2>4. QED
    BY <2>1, <2>2, <2>3 DEF DbTypeOK, chatRows
<1>5. ASSUME NEW k \in DbJobIds \cup {""}, NEW rec \in ActionRecord, SaveActionRecord(k, rec)
      PROVE  DbTypeOK'
  <2>1. Append(actions[k], rec) \in Seq(ActionRecord)
    BY AppendFacts DEF DbTypeOK
  <2>2. actions' \in [DbJobIds \cup {""} -> Seq(ActionRecord)]
    BY <1>5, <2>1 DEF SaveActionRecord, memSaveActionRecord, pgSaveActionRecord, DbTypeOK
  <2>3. UNCHANGED <<driver, chatRows, jobRows>>
    BY <1>5 DEF SaveActionRecord, memSaveActionRecord, pgSaveActionRecord
  <2>4. QED
    BY <2>2, <2>3 DEF DbTypeOK, chatRows
<1>6. QED
  BY <1>2, <1>3, <1>4, <1>5

\* What the session manager knows of users and their threads.
SessionType ==
  /\ DOMAIN active \subseteq Users /\ \A u \in DOMAIN active : active[u] \in ThreadIds
  /\ threads \in [Users -> Seq(ThreadIds)]

\* The user's thread, current or new, leaves the tables in their types
\* (GetOrCreateThread), as does a switch (SwitchThread).
LEMMA SessionTypeStep ==
  ASSUME SessionType, NEW u \in Users, NEW t \in ThreadIds,
         \/ GetOrCreateThread(u, t)
         \/ active' = With(active, u, t) /\ threads' = threads
         \/ UNCHANGED <<active, threads>>
  PROVE  SessionType'
<1>1. CASE active' = With(active, u, t)
  <2>1. /\ DOMAIN active' = DOMAIN active \cup {u}
        /\ active'[u] = t
        /\ \A v \in DOMAIN active : v # u => active'[v] = active[v]
    BY <1>1 DEF With
  <2>2. \A v \in DOMAIN active' : active'[v] \in ThreadIds
    BY <2>1 DEF SessionType
  <2>3. Append(threads[u], t) \in Seq(ThreadIds)
    BY AppendFacts DEF SessionType
  <2>4. threads' = threads \/ threads' = [threads EXCEPT ![u] = Append(threads[u], t)]
    BY <1>1 DEF GetOrCreateThread
  <2>5. threads' \in [Users -> Seq(ThreadIds)]
    BY <2>3, <2>4 DEF SessionType
  <2>6. QED
    BY <2>1, <2>2, <2>5 DEF SessionType
<1>2. CASE UNCHANGED <<active, threads>>
  BY <1>2 DEF SessionType
<1>3. QED
  BY <1>1, <1>2 DEF GetOrCreateThread

\* The empty tables have their types (New, NewSessionManager).
LEMMA RecordsTypeInit == RecordsInit => RecordsTypeOK
<1> SUFFICES ASSUME RecordsInit PROVE RecordsTypeOK
  OBVIOUS
<1>1. LastWrite \in Nat /\ MaxSaid \in Nat
  BY DatabaseAssumption, RecordsAssumption
<1>2. /\ <<>> \in Seq(Message) /\ <<>> \in Seq(ActionRecord)
      /\ <<>> \in Seq(ThreadIds) /\ <<>> \in Seq(1..MaxSaid)
  BY EmptyList
<1>3. DOMAIN <<>> = {}
  OBVIOUS
<1>4. DbTypeOK
  <2>1. messages \in [ThreadIds -> Seq(Message)]
    BY <1>2 DEF RecordsInit, DbInit
  <2>2. actions \in [DbJobIds \cup {""} -> Seq(ActionRecord)]
    BY <1>2 DEF RecordsInit, DbInit
  <2>3. DOMAIN conversations = {} /\ DOMAIN jobRows = {}
    BY <1>3 DEF RecordsInit, DbInit
  <2>4. driver \in {"memory", "postgres"} /\ writes = 0
    BY Zenon DEF RecordsInit, DbInit
  <2>5. writes \in 0..LastWrite
    BY <1>1, <2>4
  <2>6. /\ DOMAIN conversations \subseteq ThreadIds
        /\ \A t \in DOMAIN conversations : conversations[t] \in Conversation
        /\ DOMAIN jobRows \subseteq DbJobIds
        /\ \A j \in DOMAIN jobRows : jobRows[j] \in DbJob
    BY <2>3
  <2>7. QED
    BY <2>1, <2>2, <2>4, <2>5, <2>6, Zenon DEF DbTypeOK
<1>5. DOMAIN active = {} /\ DOMAIN stage = {} /\ DOMAIN called = {}
  BY <1>3 DEF RecordsInit
<1>6. QED
  BY <1>1, <1>2, <1>4, <1>5 DEF RecordsInit, RecordsTypeOK

\* A reply adds a turn to the thread and may compact it.
LEMMA TurnsStep ==
  ASSUME RecordsTypeOK, TurnsKept, NEW u \in Users, NEW t \in ThreadIds,
         ReplyText(u, t) \/ ReplyTool(u, t) \/ ReplyEcho(u, t)
  PROVE  /\ turns' \in [ThreadIds -> Seq(1..MaxSaid)] /\ said' \in [ThreadIds -> 0..MaxSaid]
         /\ TurnsKept'
<1>1. MaxSaid \in Nat /\ said[t] \in 0..MaxSaid /\ said[t] < MaxSaid
  BY RecordsAssumption DEF RecordsTypeOK, ReplyText, ReplyTool, ReplyEcho, Speaks
<1>2. said' = [said EXCEPT ![t] = @ + 1]
  BY DEF ReplyText, ReplyTool, ReplyEcho, Speaks
<1>3. said' \in [ThreadIds -> 0..MaxSaid]
  <2>1. said[t] + 1 \in 0..MaxSaid
    BY <1>1
  <2>2. QED
    BY <1>2, <2>1 DEF RecordsTypeOK
<1> DEFINE n == said[t] + 1
           more == Append(turns[t], n)
<1>4. turns \in [ThreadIds -> Seq(1..MaxSaid)] /\ LatestTurns(turns[t], said[t])
  BY DEF RecordsTypeOK, TurnsKept
<1>5. more \in Seq(1..MaxSaid) /\ LatestTurns(more, n) /\ n \in 0..MaxSaid
  <2>1. turns[t] \in Seq(1..MaxSaid)
    BY <1>4
  <2>2. n \in 0..MaxSaid
    BY <1>1
  <2>3. QED
    BY <1>1, <1>4, <2>1, <2>2, AddTurnLatest
<1>6. CompactThread(more) \in Seq(1..MaxSaid) /\ LatestTurns(CompactThread(more), n)
  <2> HIDE DEF more, n
  <2>1. QED
    BY <1>5, CompactLatest
<1>7. \/ turns' = [turns EXCEPT ![t] = more]
      \/ turns' = [turns EXCEPT ![t] = CompactThread(more)]
  BY DEF ReplyText, ReplyTool, ReplyEcho, AddTurn
<1>8. PICK list \in Seq(1..MaxSaid) :
        turns' = [turns EXCEPT ![t] = list] /\ LatestTurns(list, n)
  <2> HIDE DEF more, n
  <2>1. QED
    BY <1>5, <1>6, <1>7
<1>9. turns' \in [ThreadIds -> Seq(1..MaxSaid)]
  BY <1>4, <1>8
<1>10. said'[t] = n /\ turns'[t] = list
  BY <1>2, <1>4, <1>8 DEF RecordsTypeOK
<1>11. \A x \in ThreadIds : x # t => said'[x] = said[x] /\ turns'[x] = turns[x]
  BY <1>2, <1>4, <1>8 DEF RecordsTypeOK
<1>12. TurnsKept'
  <2> SUFFICES ASSUME NEW x \in ThreadIds PROVE LatestTurns(turns'[x], said'[x])
    BY DEF TurnsKept, LatestTurns
  <2> HIDE DEF n
  <2>1. CASE x = t
    BY <1>8, <1>10, <2>1
  <2>2. CASE x # t
    BY <1>11, <2>2 DEF TurnsKept
  <2>3. QED
    BY <2>1, <2>2
<1>13. QED
  BY <1>3, <1>9, <1>12

\* Steps of the agent and of the history endpoints leave jobs alone, steps of jobs and
\* audits leave threads and conversations alone.
LEMMA Apart ==
  /\ ChatNext => driver' = driver /\ UNCHANGED <<workRows, auditVars>>
  /\ WorkNext => driver' = driver /\ UNCHANGED <<chatRows, sessionVars, deleteVars>>
<1>1. ASSUME NEW t \in ThreadIds, NEW u \in Users,
             ReplyText(u, t) \/ ReplyTool(u, t) \/ ReplyEcho(u, t)
      PROVE  driver' = driver /\ UNCHANGED <<workRows, auditVars>>
  BY <1>1 DEF ReplyText, ReplyTool, ReplyEcho, Speaks, SaveConversation, dbVars
<1>2. ASSUME NEW t \in ThreadIds, NEW u \in Users, CommandNew(u, t) \/ CommandSwitch(u, t)
      PROVE  driver' = driver /\ UNCHANGED <<workRows, auditVars>>
  BY <1>2 DEF CommandNew, CommandSwitch, dbVars
<1>3. ASSUME NEW t \in ThreadIds,
             \/ WriteMessage(t) \/ ArchiveThread(t)
             \/ DeleteThread(t) \/ DeleteThreadEnd(t) \/ DeleteThreadFails(t)
      PROVE  driver' = driver /\ UNCHANGED <<workRows, auditVars>>
  BY <1>3 DEF WriteMessage, SaveMessage, memSaveMessage, pgSaveMessage, StoreMessage,
     ArchiveThread, DeleteThread, DeleteMessagesByThread, DeleteThreadEnd, DeleteConversation,
     memDeleteConversation, pgDeleteConversation, DeleteThreadFails, dbVars
<1>4. ASSUME NEW j, NEW rec, NEW u,
             \/ Submit(j, u) \/ RunJob(j) \/ JobEnds(j) \/ JobRefused(j) \/ RemoveJob(j)
             \/ Dispatched(j, rec) \/ AgentCall(rec)
      PROVE  driver' = driver /\ UNCHANGED <<chatRows, sessionVars, deleteVars>>
  BY <1>4 DEF Submit, SaveJob, RunJob, UpdateJobStatus, JobEnds, JobRefused, RemoveJob,
     memDeleteJob, pgDeleteJob, Dispatched, AgentCall, dbVars
<1>5. ASSUME NEW a \in auditing, Audit(a) \/ AuditFails(a)
      PROVE  driver' = driver /\ UNCHANGED <<chatRows, sessionVars, deleteVars>>
  BY <1>5 DEF Audit, AuditFails, SaveActionRecord, memSaveActionRecord, pgSaveActionRecord, dbVars
<1>6. ChatNext => driver' = driver /\ UNCHANGED <<workRows, auditVars>>
  BY <1>1, <1>2, <1>3, Zenon DEF ChatNext
<1>7. WorkNext => driver' = driver /\ UNCHANGED <<chatRows, sessionVars, deleteVars>>
  BY <1>4, <1>5, Zenon DEF WorkNext
<1>8. QED
  BY <1>6, <1>7

\* The part of the type invariant that a step of the agent or of an endpoint can touch.
LEMMA ChatTypeStep ==
  ASSUME RecordsTypeOK, TurnsKept, ChatNext
  PROVE  RecordsTypeOK' /\ TurnsKept'
<1>1. DbTypeOK /\ SessionType
  BY DEF RecordsTypeOK, SessionType
<1>2. UNCHANGED auditVars
  BY Apart
<1>3. ASSUME UNCHANGED <<turns, said>> PROVE TurnsKept'
  BY <1>3 DEF TurnsKept, LatestTurns
<1>4. ASSUME DbTypeOK', SessionType', UNCHANGED <<hasLLM, deleteVars>>,
             turns' \in [ThreadIds -> Seq(1..MaxSaid)], said' \in [ThreadIds -> 0..MaxSaid]
      PROVE  RecordsTypeOK'
  BY <1>2, <1>4 DEF RecordsTypeOK, SessionType, deleteVars, auditVars
<1>5. UNCHANGED dbVars => DbTypeOK'
  BY <1>1 DEF DbTypeOK, dbVars, chatRows, workRows
<1>6. ASSUME NEW t \in ThreadIds, NEW u \in Users,
             ReplyText(u, t) \/ ReplyTool(u, t) \/ ReplyEcho(u, t)
      PROVE  RecordsTypeOK' /\ TurnsKept'
  <2>1. /\ turns' \in [ThreadIds -> Seq(1..MaxSaid)] /\ said' \in [ThreadIds -> 0..MaxSaid]
        /\ TurnsKept'
    BY <1>6, TurnsStep
  <2>2. /\ SaveConversation(t, u) \/ UNCHANGED dbVars
        /\ GetOrCreateThread(u, t) /\ UNCHANGED <<hasLLM, deleteVars>>
    BY <1>6 DEF ReplyText, ReplyTool, ReplyEcho, Speaks
  <2>3. DbTypeOK' /\ SessionType'
    BY <1>1, <1>5, <2>2, ChatRowsType, SessionTypeStep
  <2>4. QED
    BY <1>4, <2>1, <2>2, <2>3
<1>7. ASSUME NEW t \in ThreadIds, NEW u \in Users, CommandNew(u, t) \/ CommandSwitch(u, t)
      PROVE  RecordsTypeOK' /\ TurnsKept'
  <2>1. /\ UNCHANGED <<hasLLM, turns, said, dbVars, deleteVars>>
        /\ GetOrCreateThread(u, t) \/ (active' = With(active, u, t) /\ threads' = threads)
    BY <1>7 DEF CommandNew, CommandSwitch
  <2>2. DbTypeOK' /\ SessionType'
    BY <1>1, <1>5, <2>1, SessionTypeStep
  <2>3. turns' \in [ThreadIds -> Seq(1..MaxSaid)] /\ said' \in [ThreadIds -> 0..MaxSaid]
    BY <2>1 DEF RecordsTypeOK
  <2>4. QED
    BY <1>3, <1>4, <2>1, <2>2, <2>3
<1>8. ASSUME NEW t \in ThreadIds,
             \/ WriteMessage(t) \/ ArchiveThread(t)
             \/ DeleteThread(t) \/ DeleteThreadEnd(t) \/ DeleteThreadFails(t)
      PROVE  RecordsTypeOK' /\ TurnsKept'
  <2>1. /\ UNCHANGED sessionVars
        /\ \/ UNCHANGED dbVars \/ \E hit \in BOOLEAN : SaveMessage(t, hit)
           \/ DeleteMessagesByThread(t) \/ DeleteConversation(t)
    BY <1>8 DEF WriteMessage, ArchiveThread, DeleteThread, DeleteThreadEnd, DeleteThreadFails
  <2>2. DbTypeOK'
    BY <1>1, <1>5, <2>1, ChatRowsType
  <2>3. deleting' \subseteq ThreadIds
    BY <1>8 DEF WriteMessage, ArchiveThread, DeleteThread, DeleteThreadEnd, DeleteThreadFails,
       deleteVars, RecordsTypeOK
  <2>4. erased' = erased \/ erased' = [erased EXCEPT ![t] = writes]
    BY <1>8 DEF WriteMessage, ArchiveThread, DeleteThread, DeleteThreadEnd, DeleteThreadFails,
       deleteVars
  <2>5. erased' \in [ThreadIds -> 0..LastWrite]
    BY <1>1, <2>4 DEF RecordsTypeOK, DbTypeOK
  <2>6. RecordsTypeOK'
    BY <1>2, <2>1, <2>2, <2>3, <2>5 DEF RecordsTypeOK, sessionVars, auditVars
  <2>7. QED
    BY <1>3, <2>1, <2>6 DEF sessionVars
<1>9. QED
  BY <1>6, <1>7, <1>8, Zenon DEF ChatNext

\* The same for a step of a job or an audit.
LEMMA WorkTypeStep ==
  ASSUME RecordsTypeOK, WorkNext
  PROVE  RecordsTypeOK'
<1>1. UNCHANGED <<sessionVars, deleteVars>> /\ DbTypeOK
  BY Apart DEF RecordsTypeOK
<1>2. UNCHANGED dbVars => DbTypeOK'
  BY <1>1 DEF DbTypeOK, dbVars, chatRows, workRows
<1> DEFINE StageType(st) == /\ DOMAIN st \subseteq DbJobIds
                            /\ \A j \in DOMAIN st : st[j] \in {"polled", "running", "called", "ended"}
           CalledType(cd) == /\ DOMAIN cd \subseteq DbJobIds
                             /\ \A j \in DOMAIN cd : cd[j] \in ActionRecord
<1>3. ASSUME DbTypeOK', StageType(stage'), CalledType(called'),
             auditing' \subseteq (DbJobIds \cup {""}) \X ActionRecord,
             dropped' \subseteq DbJobIds \cup {""}
      PROVE  RecordsTypeOK'
  BY <1>1, <1>3 DEF RecordsTypeOK, sessionVars, deleteVars
<1>4. /\ StageType(stage) /\ CalledType(called)
      /\ auditing \subseteq (DbJobIds \cup {""}) \X ActionRecord
      /\ dropped \subseteq DbJobIds \cup {""}
  BY DEF RecordsTypeOK
<1>5. ASSUME NEW j \in DOMAIN stage, NEW s \in {"polled", "running", "called", "ended"},
             stage' = [stage EXCEPT ![j] = s]
      PROVE  StageType(stage')
  BY <1>4, <1>5
<1> HIDE DEF StageType, CalledType
<1>6. ASSUME NEW j \in DbJobIds, NEW u \in Users, Submit(j, u) PROVE RecordsTypeOK'
  <2>1. stage' = With(stage, j, "polled") /\ UNCHANGED <<called, auditing, dropped>> /\ SaveJob(j, u)
    BY <1>6 DEF Submit
  <2>2. DbTypeOK'
    BY <1>1, <2>1, WorkRowsType
  <2>3. StageType(stage')
    BY <1>4, <2>1 DEF With, StageType
  <2>4. QED
    BY <1>3, <1>4, <2>1, <2>2, <2>3
<1>7. ASSUME NEW j \in DbJobIds, RunJob(j) \/ JobEnds(j) \/ JobRefused(j)
      PROVE  RecordsTypeOK'
  <2>1. /\ j \in DOMAIN stage /\ UNCHANGED <<called, auditing, dropped>>
        /\ \E s \in {"running", "ended"} : stage' = [stage EXCEPT ![j] = s]
        /\ \E s \in JobStatus : UpdateJobStatus(j, s)
    BY <1>7 DEF RunJob, JobEnds, JobRefused, JobStatus
  <2>2. DbTypeOK'
    BY <1>1, <2>1, WorkRowsType
  <2>3. StageType(stage')
    BY <1>5, <2>1
  <2>4. QED
    BY <1>3, <1>4, <2>1, <2>2, <2>3
<1>8. ASSUME NEW j \in DbJobIds, RemoveJob(j) PROVE RecordsTypeOK'
  <2>1. UNCHANGED auditVars /\ (memDeleteJob(j) \/ pgDeleteJob(j))
    BY <1>8 DEF RemoveJob
  <2>2. DbTypeOK'
    BY <1>1, <2>1, WorkRowsType
  <2>3. QED
    BY <1>3, <1>4, <2>1, <2>2 DEF auditVars
<1>9. ASSUME NEW j \in DbJobIds, NEW rec \in ActionRecord, Dispatched(j, rec)
      PROVE  RecordsTypeOK'
  <2>1. /\ j \in DOMAIN stage /\ stage' = [stage EXCEPT ![j] = "called"]
        /\ called' = With(called, j, rec) /\ auditing' = auditing \cup {<<j, rec>>}
        /\ UNCHANGED <<dropped, dbVars>>
    BY <1>9 DEF Dispatched
  <2>2. StageType(stage') /\ DbTypeOK'
    BY <1>2, <1>5, <2>1
  <2>3. CalledType(called')
    BY <1>4, <2>1 DEF With, CalledType
  <2>4. auditing' \subseteq (DbJobIds \cup {""}) \X ActionRecord
    <3>1. <<j, rec>> \in (DbJobIds \cup {""}) \X ActionRecord
      OBVIOUS
    <3>2. QED
      BY <1>4, <2>1, <3>1, Zenon
  <2>5. QED
    BY <1>3, <1>4, <2>1, <2>2, <2>3, <2>4
<1>10. ASSUME NEW rec \in ActionRecord, AgentCall(rec) PROVE RecordsTypeOK'
  <2>1. /\ auditing' = auditing \cup {<<"", rec>>} /\ UNCHANGED <<dbVars, stage, called, dropped>>
    BY <1>10 DEF AgentCall
  <2>2. auditing' \subseteq (DbJobIds \cup {""}) \X ActionRecord
    <3>1. <<"", rec>> \in (DbJobIds \cup {""}) \X ActionRecord
      OBVIOUS
    <3>2. QED
      BY <1>4, <2>1, <3>1, Zenon
  <2>3. QED
    BY <1>2, <1>3, <1>4, <2>1, <2>2
<1>11. ASSUME NEW a \in auditing, Audit(a) PROVE RecordsTypeOK'
  <2>1. /\ a[1] \in DbJobIds \cup {""} /\ a[2] \in ActionRecord
        /\ SaveActionRecord(a[1], a[2]) /\ auditing' = auditing \ {a}
        /\ UNCHANGED <<stage, called, dropped>>
    BY <1>4, <1>11 DEF Audit
  <2>2. DbTypeOK'
    BY <1>1, <2>1, WorkRowsType
  <2>3. QED
    BY <1>3, <1>4, <2>1, <2>2
<1>12. ASSUME NEW a \in auditing, AuditFails(a) PROVE RecordsTypeOK'
  <2>1. /\ a[1] \in DbJobIds \cup {""} /\ auditing' = auditing \ {a}
        /\ dropped' = dropped \cup {a[1]} /\ UNCHANGED <<dbVars, stage, called>>
    BY <1>4, <1>12 DEF AuditFails
  <2>2. auditing' \subseteq auditing /\ dropped' \subseteq DbJobIds \cup {""}
    BY <1>4, <2>1
  <2>3. QED
    BY <1>2, <1>3, <1>4, <2>1, <2>2
<1>13. QED
  BY <1>6, <1>7, <1>8, <1>9, <1>10, <1>11, <1>12, Zenon DEF WorkNext

\* Nothing changes, neither do the types.
LEMMA RecordsTypeStutter == RecordsTypeOK /\ UNCHANGED recordVars => RecordsTypeOK'
<1> SUFFICES ASSUME RecordsTypeOK, UNCHANGED recordVars PROVE RecordsTypeOK'
  OBVIOUS
<1>1. DbTypeOK'
  BY DEF RecordsTypeOK, DbTypeOK, recordVars, dbVars, chatRows, workRows
<1>2. UNCHANGED <<sessionVars, deleteVars, auditVars>>
  BY DEF recordVars
<1>3. QED
  BY <1>1, <1>2 DEF RecordsTypeOK, sessionVars, deleteVars, auditVars

-----------------------------------------------------------------------------
(* Threads and their owners.                                               *)

\* The two halves of OneOwner: of the lists th and current threads ac, and of the
\* conversations cs.
OwnLists(th, ac) ==
  /\ \A u, v \in Users : \A i \in DOMAIN th[u], k \in DOMAIN th[v] :
       th[u][i] = th[v][k] => u = v /\ i = k
  /\ \A u \in DOMAIN ac : ac[u] \in ToSet(th[u])

OwnNamed(cs, th) == \A t \in DOMAIN cs : t \in ToSet(th[cs[t].user])

\* They are what OneOwner says, before and after a step.
LEMMA OwnerParts ==
  /\ OneOwner <=> OwnLists(threads, active) /\ OwnNamed(conversations, threads)
  /\ OneOwner' <=> OwnLists(threads', active') /\ OwnNamed(conversations', threads')
  BY DEF OneOwner, OwnLists, OwnNamed

\* A new thread is nobody's yet; the one chosen is in the list of its user
\* (GetOrCreateThread, SwitchThread).
LEMMA OwnerChosen ==
  ASSUME RecordsTypeOK, OneOwner, NEW u \in Users, NEW t \in ThreadIds,
         \/ GetOrCreateThread(u, t)
         \/ t \in ToSet(threads[u]) /\ active' = With(active, u, t) /\ threads' = threads
  PROVE  /\ OwnLists(threads', active') /\ OwnNamed(conversations, threads')
         /\ t \in ToSet(threads'[u])
<1>1. /\ threads \in [Users -> Seq(ThreadIds)] /\ DOMAIN active \subseteq Users
      /\ \A x \in DOMAIN conversations : conversations[x].user \in Users
  BY DEF RecordsTypeOK, DbTypeOK, Conversation
<1>2. OwnLists(threads, active) /\ OwnNamed(conversations, threads)
  BY OwnerParts
<1>3. CASE u \in DOMAIN active /\ t = active[u] /\ UNCHANGED <<active, threads>>
  <2>1. t \in ToSet(threads[u])
    BY <1>2, <1>3 DEF OwnLists
  <2>2. QED
    BY <1>2, <1>3, <2>1
<1>4. CASE t \in ToSet(threads[u]) /\ active' = With(active, u, t) /\ threads' = threads
  <2>1. /\ DOMAIN active' = DOMAIN active \cup {u} /\ active'[u] = t
        /\ \A v \in DOMAIN active : v # u => active'[v] = active[v]
    BY <1>4 DEF With
  <2>2. \A v \in DOMAIN active' : active'[v] \in ToSet(threads'[v])
    BY <1>2, <1>4, <2>1 DEF OwnLists
  <2>3. QED
    BY <1>2, <1>4, <2>2 DEF OwnLists
<1>5. CASE /\ t \notin Listed /\ active' = With(active, u, t)
           /\ threads' = [threads EXCEPT ![u] = Append(threads[u], t)]
  <2> DEFINE n == Len(threads[u]) + 1
  <2>1. /\ DOMAIN active' = DOMAIN active \cup {u} /\ active'[u] = t
        /\ \A v \in DOMAIN active : v # u => active'[v] = active[v]
    BY <1>5 DEF With
  <2>2. \A v \in Users : v # u => threads'[v] = threads[v]
    BY <1>1, <1>5
  <2>3. /\ DOMAIN threads'[u] = DOMAIN threads[u] \cup {n}
        /\ n \notin DOMAIN threads[u] /\ threads'[u][n] = t
        /\ \A i \in DOMAIN threads[u] : threads'[u][i] = threads[u][i]
    BY <1>1, <1>5, AppendFacts
  <2>4. \A v \in Users : \A i \in DOMAIN threads[v] : threads[v][i] # t
    BY <1>5 DEF Listed, ToSet
  <2> HIDE DEF n
  \* The place of a thread in a list is an old one, with the old thread, or the new one.
  <2>5. ASSUME NEW v \in Users, NEW i \in DOMAIN threads'[v]
        PROVE  \/ i \in DOMAIN threads[v] /\ threads'[v][i] = threads[v][i]
               \/ v = u /\ i = n /\ threads'[v][i] = t
    BY <2>2, <2>3
  <2>6. ASSUME NEW v \in Users, NEW w \in Users,
               NEW i \in DOMAIN threads'[v], NEW k \in DOMAIN threads'[w],
               threads'[v][i] = threads'[w][k]
        PROVE  v = w /\ i = k
    BY <1>2, <2>4, <2>5, <2>6 DEF OwnLists
  <2>7. ASSUME NEW v \in Users, NEW x \in ToSet(threads[v])
        PROVE  x \in ToSet(threads'[v])
    BY <2>2, <2>3 DEF ToSet
  <2>8. t \in ToSet(threads'[u])
    BY <2>3 DEF ToSet
  <2>9. \A v \in DOMAIN active' : active'[v] \in ToSet(threads'[v])
    BY <1>1, <1>2, <2>1, <2>7, <2>8 DEF OwnLists
  <2>10. OwnNamed(conversations, threads')
    BY <1>1, <1>2, <2>7 DEF OwnNamed
  <2>11. OwnLists(threads', active')
    BY <2>6, <2>9 DEF OwnLists
  <2>12. QED
    BY <2>8, <2>10, <2>11
<1>6. QED
  BY <1>3, <1>4, <1>5 DEF GetOrCreateThread

\* The stored conversation names the owner of its thread, because only the agent saves
\* it and saves its user's own thread (persistThread).
LEMMA OwnerStep ==
  ASSUME RecordsTypeOK, OneOwner, ChatNext
  PROVE  OneOwner'
<1>1. OwnLists(threads, active) /\ OwnNamed(conversations, threads)
  BY OwnerParts
<1>2. ASSUME NEW u \in Users, NEW t \in ThreadIds,
             ReplyText(u, t) \/ ReplyTool(u, t) \/ ReplyEcho(u, t) \/ CommandNew(u, t)
             \/ CommandSwitch(u, t)
      PROVE  OneOwner'
  <2>1. /\ OwnLists(threads', active') /\ OwnNamed(conversations, threads')
        /\ t \in ToSet(threads'[u])
    BY <1>2, OwnerChosen
       DEF ReplyText, ReplyTool, ReplyEcho, Speaks, CommandNew, CommandSwitch
  <2>2. \/ conversations' = conversations
        \/ conversations' = With(conversations, t, [user |-> u, updated |-> writes + 1])
    BY <1>2 DEF ReplyText, ReplyTool, ReplyEcho, CommandNew, CommandSwitch, SaveConversation,
       dbVars, chatRows
  <2>3. CASE conversations' = With(conversations, t, [user |-> u, updated |-> writes + 1])
    <3>1. /\ DOMAIN conversations' = DOMAIN conversations \cup {t}
          /\ conversations'[t].user = u
          /\ \A x \in DOMAIN conversations : x # t => conversations'[x] = conversations[x]
      BY <2>3 DEF With
    <3>2. OwnNamed(conversations', threads')
      BY <2>1, <3>1 DEF OwnNamed
    <3>3. QED
      BY <2>1, <3>2, OwnerParts
  <2>4. CASE conversations' = conversations
    BY <2>1, <2>4, OwnerParts
  <2>5. QED
    BY <2>2, <2>3, <2>4
<1>3. ASSUME NEW t \in ThreadIds,
             \/ WriteMessage(t) \/ ArchiveThread(t)
             \/ DeleteThread(t) \/ DeleteThreadEnd(t) \/ DeleteThreadFails(t)
      PROVE  OneOwner'
  <2>1. threads' = threads /\ active' = active
    BY <1>3 DEF WriteMessage, ArchiveThread, DeleteThread, DeleteThreadEnd, DeleteThreadFails,
       sessionVars
  <2>2. \A x \in DOMAIN conversations : conversations[x] \in Conversation
    BY DEF RecordsTypeOK, DbTypeOK
  <2>3. \A x \in DOMAIN conversations' :
          x \in DOMAIN conversations /\ conversations'[x].user = conversations[x].user
    <3>1. CASE conversations' = conversations
      BY <3>1
    <3>2. CASE conversations' = Without(conversations, t)
      BY <3>2 DEF Without
    <3>3. ASSUME NEW hit, StoreMessage(t, hit)
          PROVE  \A x \in DOMAIN conversations' :
                   x \in DOMAIN conversations /\ conversations'[x].user = conversations[x].user
      BY <2>2, <3>3 DEF StoreMessage, Conversation
    <3>4. QED
      BY <1>3, <3>1, <3>2, <3>3 DEF WriteMessage, ArchiveThread, DeleteThread, DeleteThreadEnd,
         DeleteThreadFails, SaveMessage, memSaveMessage, pgSaveMessage, DeleteMessagesByThread,
         DeleteConversation, memDeleteConversation, pgDeleteConversation, dbVars, chatRows
  <2>4. OwnNamed(conversations', threads')
    BY <1>1, <2>1, <2>3 DEF OwnNamed
  <2>5. QED
    BY <1>1, <2>1, <2>4, OwnerParts
<1>4. QED
  BY <1>2, <1>3, Zenon DEF ChatNext

\* What a thread's turns say of every thread holds of the user's current one
\* (buildLLMMessages).
LEMMA ContextFromTurns == RecordsTypeOK /\ TurnsKept => ContextIsRecent
  BY DEF RecordsTypeOK, TurnsKept, ContextIsRecent, LLMContext

\* For any users, threads and limits: what the LLM is told is the latest turns of a
\* thread that belongs to the user, and a thread has one owner, also in the stored
\* conversations (session.go, agent.go).
THEOREM ThreadsCorrect == RecordsSpec => []ThreadsInv
<1> DEFINE Ind == RecordsTypeOK /\ TurnsKept /\ OneOwner
<1>1. RecordsInit => Ind
  <2> SUFFICES ASSUME RecordsInit PROVE Ind
    OBVIOUS
  <2>1. RecordsTypeOK /\ DOMAIN <<>> = {} /\ Len(<<>>) = 0
    BY RecordsTypeInit
  <2>2. TurnsKept
    BY <2>1, RecordsAssumption DEF RecordsInit, TurnsKept, LatestTurns
  <2>3. /\ DOMAIN active = {} /\ DOMAIN conversations = {}
        /\ \A u \in Users : DOMAIN threads[u] = {}
    BY <2>1 DEF RecordsInit, DbInit
  <2>4. OneOwner
    BY <2>3 DEF OneOwner
  <2>5. QED
    BY <2>1, <2>2, <2>4
<1>2. Ind /\ [ChatNext \/ WorkNext]_recordVars => Ind'
  <2> SUFFICES ASSUME Ind, [ChatNext \/ WorkNext]_recordVars PROVE Ind'
    OBVIOUS
  <2>1. CASE ChatNext
    BY <2>1, ChatTypeStep, OwnerStep
  <2>2. CASE WorkNext
    <3>1. RecordsTypeOK' /\ UNCHANGED <<chatRows, sessionVars>>
      BY <2>2, WorkTypeStep, Apart
    <3>2. TurnsKept' /\ OneOwner'
      BY <3>1 DEF TurnsKept, LatestTurns, OneOwner, chatRows, sessionVars
    <3>3. QED
      BY <3>1, <3>2
  <2>3. CASE UNCHANGED recordVars
    <3>1. RecordsTypeOK'
      BY <2>3, RecordsTypeStutter
    <3>2. TurnsKept' /\ OneOwner'
      BY <2>3 DEF TurnsKept, LatestTurns, OneOwner, recordVars, dbVars, chatRows, sessionVars
    <3>3. QED
      BY <3>1, <3>2
  <2>4. QED
    BY <2>1, <2>2, <2>3
<1>3. Ind => ThreadsInv
  BY ContextFromTurns DEF ThreadsInv
<1>4. QED
  BY <1>1, <1>2, <1>3, PTL DEF RecordsSpec

-----------------------------------------------------------------------------
(* Deletions.                                                              *)

\* DeletedIsGone for one thread, and the reference of its messages.
Gone(t) ==
  /\ erased[t] <= writes
  /\ \A i \in DOMAIN messages[t] : messages[t][i].at > erased[t]
  /\ t \in DOMAIN conversations => conversations[t].updated > erased[t]

Held(t) == driver = "postgres" => (messages[t] # <<>> => t \in DOMAIN conversations)

\* The numbers that the comparisons are about.
LEMMA GoneTypes ==
  ASSUME RecordsTypeOK
  PROVE  /\ writes \in Nat /\ \A t \in ThreadIds : erased[t] \in Nat
         /\ \A t \in ThreadIds : messages[t] \in Seq(Message)
         /\ \A t \in ThreadIds : \A i \in DOMAIN messages[t] : messages[t][i].at \in Nat
         /\ \A t \in DOMAIN conversations :
              conversations[t] \in Conversation /\ conversations[t].updated \in Nat
<1>1. LastWrite \in Nat
  BY DatabaseAssumption
<1>2. \A t \in ThreadIds : messages[t] \in Seq(Message)
  BY DEF RecordsTypeOK, DbTypeOK
<1>3. \A t \in ThreadIds : \A i \in DOMAIN messages[t] : messages[t][i] \in Message
  BY <1>2
<1>4. \A m \in Message : m.at \in Nat
  BY <1>1 DEF Message
<1>5. \A c \in Conversation : c.updated \in Nat
  BY <1>1 DEF Conversation
<1>6. writes \in Nat /\ \A t \in ThreadIds : erased[t] \in Nat
  <2>1. writes \in 0..LastWrite /\ erased \in [ThreadIds -> 0..LastWrite]
    BY DEF RecordsTypeOK, DbTypeOK
  <2>2. QED
    BY <1>1, <2>1
<1>7. QED
  BY <1>2, <1>3, <1>4, <1>5, <1>6 DEF RecordsTypeOK, DbTypeOK

\* Whatever is written after a complete deletion has a later time, and the deletion
\* takes the messages that were saved between its two calls: the memory driver drops
\* them, PostgreSQL has them only under a conversation, with which they go
\* (DeleteConversation, DeleteThread).
LEMMA GoneStep ==
  ASSUME RecordsTypeOK, ChatNext, \A x \in ThreadIds : Gone(x) /\ Held(x)
  PROVE  \A x \in ThreadIds : Gone(x)' /\ Held(x)'
<1>1. driver' = driver
  BY Apart
<1>2. ASSUME UNCHANGED <<conversations, messages, writes, erased>>
      PROVE  \A x \in ThreadIds : Gone(x)' /\ Held(x)'
  BY <1>1, <1>2 DEF Gone, Held
<1>3. ASSUME NEW t \in ThreadIds, NEW u \in Users, SaveConversation(t, u), erased' = erased
      PROVE  \A x \in ThreadIds : Gone(x)' /\ Held(x)'
  <2> SUFFICES ASSUME NEW x \in ThreadIds PROVE Gone(x)' /\ Held(x)'
    OBVIOUS
  <2>1. /\ DOMAIN conversations' = DOMAIN conversations \cup {t}
        /\ conversations'[t].updated = writes + 1
        /\ \A k \in DOMAIN conversations : k # t => conversations'[k] = conversations[k]
    BY <1>3 DEF SaveConversation, With
  <2>2. writes' = writes + 1 /\ messages' = messages
    BY <1>3 DEF SaveConversation
  <2>3. Gone(x) /\ Held(x) /\ writes \in Nat /\ erased[x] \in Nat
    BY GoneTypes
  <2>4. Held(x)'
    BY <1>1, <2>1, <2>2, <2>3 DEF Held
  <2>5. x \in DOMAIN conversations' => conversations'[x].updated > erased[x]
    BY <2>1, <2>3 DEF Gone
  <2>6. erased[x] <= writes + 1
    BY <2>3 DEF Gone
  <2>7. QED
    BY <1>3, <2>2, <2>3, <2>4, <2>5, <2>6 DEF Gone
<1>4. ASSUME NEW t \in ThreadIds, NEW hit, StoreMessage(t, hit), hit \in BOOLEAN,
             writes < LastWrite, driver = "postgres" => t \in DOMAIN conversations,
             erased' = erased
      PROVE  \A x \in ThreadIds : Gone(x)' /\ Held(x)'
  <2> SUFFICES ASSUME NEW x \in ThreadIds PROVE Gone(x)' /\ Held(x)'
    OBVIOUS
  <2> DEFINE m == [at |-> writes + 1, hit |-> hit]
  <2>1. Gone(x) /\ Held(x) /\ writes \in Nat /\ erased[x] \in Nat
    BY GoneTypes
  <2>2. writes' = writes + 1 /\ messages' = [messages EXCEPT ![t] = Append(messages[t], m)]
    BY <1>4 DEF StoreMessage
  <2>3. m \in Message /\ m.at = writes + 1
    <3>1. LastWrite \in Nat /\ writes \in Nat /\ writes < LastWrite
      BY <1>4, <2>1, DatabaseAssumption, Zenon
    <3>2. writes + 1 \in 1..LastWrite
      BY <3>1
    <3>3. QED
      BY <1>4, <3>2 DEF Message
  <2> HIDE DEF m
  <2>4. messages[t] \in Seq(Message) /\ messages \in [ThreadIds -> Seq(Message)]
    BY DEF RecordsTypeOK, DbTypeOK
  <2>5. /\ DOMAIN conversations' = DOMAIN conversations
        /\ \A k \in DOMAIN conversations :
             conversations'[k].updated = IF k = t THEN writes + 1 ELSE conversations[k].updated
    <3>1. \A k \in DOMAIN conversations :
            [conversations[k] EXCEPT !.updated = writes + 1].updated = writes + 1
      BY GoneTypes DEF Conversation
    <3>2. QED
      BY <1>4, <3>1 DEF StoreMessage
  <2>6. x \in DOMAIN conversations' => conversations'[x].updated > erased[x]
    BY <2>1, <2>5 DEF Gone
  <2>7. ASSUME NEW i \in DOMAIN messages'[x] PROVE messages'[x][i].at > erased[x]
    <3>1. CASE x = t
      <4>1. messages'[x] = Append(messages[t], m)
        BY <2>2, <2>4, <3>1
      <4>2. \/ i \in DOMAIN messages[t] /\ messages'[x][i] = messages[t][i]
            \/ messages'[x][i] = m
        BY <2>3, <2>4, <2>7, <4>1, AppendFacts
      <4>3. QED
        BY <2>1, <2>3, <3>1, <4>2 DEF Gone
    <3>2. CASE x # t
      <4>1. messages'[x] = messages[x]
        BY <2>2, <2>4, <3>2
      <4>2. QED
        BY <2>1, <2>7, <4>1 DEF Gone
    <3>3. QED
      BY <3>1, <3>2
  <2>8. Held(x)'
    <3>1. CASE x = t
      BY <1>1, <1>4, <2>5, <3>1 DEF Held
    <3>2. CASE x # t
      BY <1>1, <2>1, <2>2, <2>4, <2>5, <3>2 DEF Held
    <3>3. QED
      BY <3>1, <3>2
  <2>9. erased[x] <= writes + 1
    BY <2>1 DEF Gone
  <2>10. QED
    BY <1>4, <2>2, <2>6, <2>7, <2>8, <2>9 DEF Gone
<1>5. ASSUME NEW t \in ThreadIds, DeleteMessagesByThread(t), erased' = erased
      PROVE  \A x \in ThreadIds : Gone(x)' /\ Held(x)'
  <2> SUFFICES ASSUME NEW x \in ThreadIds PROVE Gone(x)' /\ Held(x)'
    OBVIOUS
  <2>1. /\ UNCHANGED <<conversations, writes>>
        /\ messages' = [messages EXCEPT ![t] = <<>>]
        /\ messages \in [ThreadIds -> Seq(Message)]
    BY <1>5 DEF DeleteMessagesByThread, RecordsTypeOK, DbTypeOK
  <2>2. messages'[x] = messages[x] \/ messages'[x] = <<>>
    BY <2>1
  <2>3. DOMAIN <<>> = {}
    OBVIOUS
  <2>4. QED
    BY <1>1, <1>5, <2>1, <2>2, <2>3 DEF Gone, Held
<1>6. ASSUME NEW t \in ThreadIds, DeleteConversation(t), erased' = [erased EXCEPT ![t] = writes]
      PROVE  \A x \in ThreadIds : Gone(x)' /\ Held(x)'
  <2> SUFFICES ASSUME NEW x \in ThreadIds PROVE Gone(x)' /\ Held(x)'
    OBVIOUS
  <2>1. Gone(x) /\ Held(x) /\ writes \in Nat /\ DOMAIN <<>> = {}
    BY GoneTypes
  <2>2. conversations' = Without(conversations, t) /\ writes' = writes
    BY <1>6 DEF DeleteConversation, memDeleteConversation, pgDeleteConversation
  <2>3. /\ DOMAIN conversations' = DOMAIN conversations \ {t}
        /\ \A k \in DOMAIN conversations : k # t => conversations'[k] = conversations[k]
    BY <2>2 DEF Without
  <2>4. /\ messages \in [ThreadIds -> Seq(Message)] /\ erased \in [ThreadIds -> 0..LastWrite]
        /\ driver \in {"memory", "postgres"}
    BY DEF RecordsTypeOK, DbTypeOK
  <2>5. messages'[t] = <<>>
    <3>1. Held(t)
      OBVIOUS
    <3>2. QED
      BY <1>6, <2>4, <3>1
         DEF Held, DeleteConversation, memDeleteConversation, pgDeleteConversation
  <2>6. x # t => messages'[x] = messages[x] /\ erased'[x] = erased[x]
    BY <1>6, <2>4 DEF DeleteConversation, memDeleteConversation, pgDeleteConversation
  <2>7. CASE x = t
    <3>1. erased'[t] = writes
      BY <1>6, <2>4
    <3>2. QED
      BY <2>1, <2>2, <2>3, <2>5, <2>7, <3>1 DEF Gone, Held
  <2>8. CASE x # t
    BY <1>1, <2>1, <2>2, <2>3, <2>6, <2>8 DEF Gone, Held
  <2>9. QED
    BY <2>7, <2>8
<1>7. ASSUME NEW t \in ThreadIds, NEW u \in Users,
             ReplyText(u, t) \/ ReplyTool(u, t) \/ ReplyEcho(u, t) \/ CommandNew(u, t)
             \/ CommandSwitch(u, t)
      PROVE  \A x \in ThreadIds : Gone(x)' /\ Held(x)'
  <2>1. erased' = erased /\ (SaveConversation(t, u) \/ UNCHANGED dbVars)
    BY <1>7 DEF ReplyText, ReplyTool, ReplyEcho, Speaks, CommandNew, CommandSwitch, deleteVars
  <2>2. QED
    BY <1>2, <1>3, <2>1 DEF dbVars, chatRows
<1>8. ASSUME NEW t \in ThreadIds, WriteMessage(t)
      PROVE  \A x \in ThreadIds : Gone(x)' /\ Held(x)'
  <2>1. erased' = erased /\ \E hit \in BOOLEAN : SaveMessage(t, hit)
    BY <1>8 DEF WriteMessage, deleteVars
  <2>2. PICK hit \in BOOLEAN : SaveMessage(t, hit)
    BY <2>1
  <2>3. \/ UNCHANGED dbVars
        \/ /\ writes < LastWrite /\ StoreMessage(t, hit)
           /\ driver = "postgres" => t \in DOMAIN conversations
    BY <2>2 DEF SaveMessage, memSaveMessage, pgSaveMessage
  <2>4. QED
    BY <1>2, <1>4, <2>1, <2>3 DEF dbVars, chatRows
<1>9. ASSUME NEW t \in ThreadIds,
             ArchiveThread(t) \/ DeleteThread(t) \/ DeleteThreadEnd(t) \/ DeleteThreadFails(t)
      PROVE  \A x \in ThreadIds : Gone(x)' /\ Held(x)'
  <2>1. \/ DeleteMessagesByThread(t) /\ erased' = erased
        \/ DeleteConversation(t) /\ erased' = [erased EXCEPT ![t] = writes]
        \/ UNCHANGED dbVars /\ erased' = erased
    BY <1>9 DEF ArchiveThread, DeleteThread, DeleteThreadEnd, DeleteThreadFails, deleteVars
  <2>2. QED
    BY <1>2, <1>5, <1>6, <2>1 DEF dbVars, chatRows
<1>10. QED
  BY <1>7, <1>8, <1>9, Zenon DEF ChatNext

\* For any users, threads and times, with either driver: what a complete deletion of a
\* thread leaves was written after it, although messages may be saved between its two
\* calls (history/store.go: DeleteThread).
THEOREM DeletionsFinal == RecordsSpec => []DeletedIsGone
<1> DEFINE Ind == RecordsTypeOK /\ TurnsKept /\ \A t \in ThreadIds : Gone(t) /\ Held(t)
<1>1. RecordsInit => Ind
  <2> SUFFICES ASSUME RecordsInit PROVE Ind
    OBVIOUS
  <2>1. DOMAIN <<>> = {} /\ Len(<<>>) = 0
    OBVIOUS
  <2>2. TurnsKept
    BY <2>1, RecordsAssumption DEF RecordsInit, TurnsKept, LatestTurns
  <2>3. /\ writes = 0 /\ DOMAIN conversations = {}
        /\ \A t \in ThreadIds : erased[t] = 0 /\ messages[t] = <<>>
    BY <2>1 DEF RecordsInit, DbInit
  <2>4. \A t \in ThreadIds : Gone(t) /\ Held(t)
    BY <2>1, <2>3 DEF Gone, Held
  <2>5. QED
    BY <2>2, <2>4, RecordsTypeInit
<1>2. Ind /\ [ChatNext \/ WorkNext]_recordVars => Ind'
  <2> SUFFICES ASSUME Ind, [ChatNext \/ WorkNext]_recordVars PROVE Ind'
    OBVIOUS
  <2>1. CASE ChatNext
    BY <2>1, ChatTypeStep, GoneStep
  <2>2. CASE WorkNext
    <3>1. RecordsTypeOK' /\ driver' = driver /\ UNCHANGED <<chatRows, sessionVars, deleteVars>>
      BY <2>2, WorkTypeStep, Apart
    <3>2. TurnsKept' /\ \A t \in ThreadIds : Gone(t)' /\ Held(t)'
      BY <3>1 DEF TurnsKept, LatestTurns, Gone, Held, chatRows, sessionVars, deleteVars
    <3>3. QED
      BY <3>1, <3>2
  <2>3. CASE UNCHANGED recordVars
    <3>1. RecordsTypeOK'
      BY <2>3, RecordsTypeStutter
    <3>2. TurnsKept' /\ \A t \in ThreadIds : Gone(t)' /\ Held(t)'
      BY <2>3 DEF TurnsKept, LatestTurns, Gone, Held, recordVars, dbVars, chatRows, sessionVars,
         deleteVars
    <3>3. QED
      BY <3>1, <3>2
  <2>4. QED
    BY <2>1, <2>2, <2>3
<1>3. Ind => DeletedIsGone
  BY DEF Gone, DeletedIsGone
<1>4. QED
  BY <1>1, <1>2, <1>3, PTL DEF RecordsSpec

-----------------------------------------------------------------------------
(* Pages and the latest messages.  The loops are recursive functions, so   *)
(* what they compute is shown by induction on their index: the set of      *)
(* indexes where it fails has no least element.                            *)

\* A nonempty set of numbers has a least one.
LEMMA LeastNumber ==
  ASSUME NEW T \in SUBSET Nat, T # {}
  PROVE  \E n \in T : \A m \in T : n <= m
<1>1. PICK n \in T : \A m \in T : ~(<<m, n>> \in OpToRel(<, Nat))
  BY WFMin, NatLessThanWellFounded
<1>2. \A m \in T : ~(m < n)
  BY <1>1 DEF OpToRel
<1>3. QED
  BY <1>2

\* Induction: a set that has m and with each number the next has m..N.
LEMMA UpTo ==
  ASSUME NEW m \in Nat, NEW N \in Nat, NEW good, m \in good,
         \A n \in (m + 1)..N : n - 1 \in good => n \in good
  PROVE  \A n \in m..N : n \in good
<1> DEFINE bad == {n \in m..N : n \notin good}
<1>1. SUFFICES ASSUME bad # {} PROVE FALSE
  OBVIOUS
<1>2. PICK n \in bad : \A k \in bad : n <= k
  <2>1. bad \in SUBSET Nat
    OBVIOUS
  <2> HIDE DEF bad
  <2>2. QED
    BY <1>1, <2>1, LeastNumber
<1>3. n \in (m + 1)..N /\ n - 1 \in m..N /\ n - 1 \notin bad
  BY <1>2
<1>4. QED
  BY <1>2, <1>3

\* A function on m..N may be defined by its first value and a step from each value
\* to the next.
StepOn(m, N, S, base, step) ==
  /\ m \in Nat /\ N \in Nat /\ m <= N /\ base \in S
  /\ \A n \in (m + 1)..N, s \in S : step[<<n, s>>] \in S
Defines(m, N, S, base, step) ==
  \E h \in [m..N -> S] : h[m] = base /\ \A n \in (m + 1)..N : h[n] = step[<<n, h[n - 1]>>]

LEMMA RecursionExists ==
  ASSUME NEW m, NEW N, NEW S, NEW base, NEW step, StepOn(m, N, S, base, step)
  PROVE  Defines(m, N, S, base, step)
<1> USE DEF StepOn, Defines
<1> DEFINE upTo(k) ==
             \E h \in [m..k -> S] : h[m] = base /\ \A n \in (m + 1)..k : h[n] = step[<<n, h[n - 1]>>]
           good == {k \in m..N : upTo(k)}
<1>1. upTo(m)
  <2> DEFINE g == [i \in m..m |-> base]
  <2>1. g \in [m..m -> S] /\ g[m] = base
    OBVIOUS
  <2>2. \A n \in (m + 1)..m : g[n] = step[<<n, g[n - 1]>>]
    OBVIOUS
  <2> HIDE DEF g
  <2>3. QED
    BY <2>1, <2>2
<1>2. ASSUME NEW k \in (m + 1)..N, upTo(k - 1) PROVE upTo(k)
  <2>1. PICK h \in [m..(k - 1) -> S] :
          h[m] = base /\ \A n \in (m + 1)..(k - 1) : h[n] = step[<<n, h[n - 1]>>]
    BY <1>2
  <2> DEFINE g == [i \in m..k |-> IF i = k THEN step[<<k, h[k - 1]>>] ELSE h[i]]
  <2>2. step[<<k, h[k - 1]>>] \in S
    BY <2>1
  <2>3. g \in [m..k -> S] /\ g[m] = base
    BY <2>1, <2>2
  <2>4. \A n \in (m + 1)..k : g[n] = step[<<n, g[n - 1]>>]
    <3> SUFFICES ASSUME NEW n \in (m + 1)..k PROVE g[n] = step[<<n, g[n - 1]>>]
      OBVIOUS
    <3>1. n - 1 \in m..k /\ n - 1 # k /\ n \in m..k
      OBVIOUS
    <3>2. g[n - 1] = h[n - 1]
      BY <3>1
    <3>3. CASE n = k
      BY <3>1, <3>2, <3>3
    <3>4. CASE n # k
      <4>1. n \in (m + 1)..(k - 1) /\ g[n] = h[n]
        BY <3>1, <3>4
      <4>2. QED
        BY <2>1, <3>2, <4>1
    <3>5. QED
      BY <3>3, <3>4
  <2> HIDE DEF g
  <2>5. QED
    BY <2>3, <2>4
<1> HIDE DEF upTo
<1>3. m \in good /\ m \in Nat /\ N \in Nat
  BY <1>1
<1>4. \A k \in (m + 1)..N : k - 1 \in good => k \in good
  BY <1>2
<1> HIDE DEF good
<1>5. \A k \in m..N : k \in good
  BY <1>3, <1>4, UpTo
<1>6. upTo(N)
  BY <1>5 DEF good
<1>7. QED
  BY <1>6 DEF upTo

\* The lists of n messages, and those whose messages have times of their own.
Lists(n) == {v \in Seq(Message) : Len(v) = n}
Distinct(v) == \A a, b \in DOMAIN v : v[a].at = v[b].at => a = b

\* The inner loop is a function of its last index.
LEMMA InnerDef ==
  ASSUME NEW n \in Nat, NEW s \in Lists(n), NEW i \in 1..n
  PROVE  \E h \in [i..n -> Lists(n)] :
           /\ h[i] = s /\ \A j \in (i + 1)..n : h[j] = Exchange(h[j - 1], i, j)
           /\ InnerLoop(s, i) = h[n]
<1> DEFINE S == Lists(n)
           step == [p \in ((i + 1)..n) \X S |-> Exchange(p[2], i, p[1])]
<1>1. i \in Nat /\ n \in Nat /\ i <= n /\ s \in S /\ Len(s) = n
  BY DEF Lists
<1>2. \A j \in (i + 1)..n, v \in S : step[<<j, v>>] = Exchange(v, i, j)
  OBVIOUS
<1>3. ASSUME NEW j \in (i + 1)..n, NEW v \in S PROVE Exchange(v, i, j) \in S
  <2>1. v \in Seq(Message) /\ Len(v) = n /\ i \in 1..n /\ j \in 1..n
    BY DEF Lists
  <2>2. v[i] \in Message /\ v[j] \in Message
    BY <2>1
  <2>3. DOMAIN v = 1..n
    BY <2>1
  <2> DEFINE w == [v EXCEPT ![i] = v[j], ![j] = v[i]]
  <2>4. w \in [1..n -> Message]
    BY <2>1, <2>2, <2>3
  <2> HIDE DEF w
  <2>5. w \in Seq(Message) /\ Len(w) = n
    BY <2>4
  <2>6. Exchange(v, i, j) = v \/ Exchange(v, i, j) = w
    BY DEF Exchange, w
  <2>7. QED
    BY <2>1, <2>5, <2>6 DEF Lists
<1> HIDE DEF S, step
<1>4. PICK h \in [i..n -> S] : h[i] = s /\ \A j \in (i + 1)..n : h[j] = step[<<j, h[j - 1]>>]
  <2>1. StepOn(i, n, S, s, step)
    BY <1>1, <1>2, <1>3 DEF StepOn
  <2>2. Defines(i, n, S, s, step)
    BY <2>1, RecursionExists
  <2>3. QED
    BY <2>2 DEF Defines
<1>5. \A j \in (i + 1)..n : h[j] = Exchange(h[j - 1], i, j)
  <2> SUFFICES ASSUME NEW j \in (i + 1)..n PROVE h[j] = Exchange(h[j - 1], i, j)
    OBVIOUS
  <2>1. h[j - 1] \in S
    BY <1>1, <1>4
  <2>2. QED
    BY <1>2, <1>4, <2>1
<1> DEFINE f == CHOOSE g : g = [j \in i..Len(s) |-> IF j = i THEN s ELSE Exchange(g[j - 1], i, j)]
<1>6. h = [j \in i..Len(s) |-> IF j = i THEN s ELSE Exchange(h[j - 1], i, j)]
  <2>1. \A j \in i..n : j = i \/ j \in (i + 1)..n
    BY <1>1
  <2>2. \A j \in i..n : h[j] = IF j = i THEN s ELSE Exchange(h[j - 1], i, j)
    BY <1>4, <1>5, <2>1, Zenon
  <2>3. QED
    BY <1>1, <1>4, <2>2
<1>7. f = [j \in i..Len(s) |-> IF j = i THEN s ELSE Exchange(f[j - 1], i, j)]
  BY <1>6, Zenon
<1>8. InnerLoop(s, i) = f[Len(s)]
  BY Zenon DEF InnerLoop
<1> HIDE DEF f
<1>9. f[i] = s /\ \A j \in (i + 1)..n : f[j] = Exchange(f[j - 1], i, j)
  <2>1. i \in i..Len(s) /\ \A j \in (i + 1)..n : j \in i..Len(s) /\ j # i
    BY <1>1
  <2>2. QED
    BY <1>1, <1>7, <2>1
<1> DEFINE same == {j \in i..n : f[j] = h[j]}
<1>10. i \in same /\ \A j \in (i + 1)..n : j - 1 \in same => j \in same
  BY <1>1, <1>4, <1>5, <1>9
<1> HIDE DEF same
<1>11. \A j \in i..n : j \in same
  BY <1>1, <1>10, UpTo
<1>12. f[n] = h[n]
  BY <1>1, <1>11 DEF same
<1>13. QED
  BY <1>1, <1>4, <1>5, <1>8, <1>12 DEF S

\* The first k are later than all behind them.
SortedTo(v, k) == \A a \in 1..k : \A b \in DOMAIN v : a < b => v[a].at > v[b].at
Rearranged(n, s, v) == v \in Lists(n) /\ Distinct(v) /\ ToSet(v) = ToSet(s)
\* The inner loop for i has come to j.
Within(n, s, i, j, v) ==
  /\ Rearranged(n, s, v) /\ SortedTo(v, i - 1)
  /\ \A b \in (i + 1)..j : v[i].at > v[b].at

\* The times of the messages of a list are numbers.
LEMMA ListTimes ==
  ASSUME NEW n \in Nat, NEW v \in Lists(n)
  PROVE  /\ v \in Seq(Message) /\ Len(v) = n /\ DOMAIN v = 1..n
         /\ \A a \in 1..n : v[a] \in Message /\ v[a].at \in Nat
<1>1. v \in Seq(Message) /\ Len(v) = n
  BY DEF Lists
<1>2. DOMAIN v = 1..n /\ \A a \in 1..n : v[a] \in Message
  BY <1>1
<1>3. \A x \in Message : x.at \in Nat
  <2>1. LastWrite \in Nat
    BY DatabaseAssumption
  <2>2. QED
    BY <2>1 DEF Message
<1>4. QED
  BY <1>1, <1>2, <1>3

\* One step of the inner loop.
LEMMA ExchangeStep ==
  ASSUME NEW n \in Nat, NEW s, NEW i \in 1..n, NEW j \in (i + 1)..n, NEW v,
         Within(n, s, i, j - 1, v)
  PROVE  Within(n, s, i, j, Exchange(v, i, j))
<1>1. v \in Lists(n) /\ Distinct(v) /\ ToSet(v) = ToSet(s) /\ SortedTo(v, i - 1)
      /\ \A b \in (i + 1)..(j - 1) : v[i].at > v[b].at
  BY DEF Within, Rearranged
<1>2. /\ v \in Seq(Message) /\ Len(v) = n /\ DOMAIN v = 1..n
      /\ \A a \in 1..n : v[a] \in Message /\ v[a].at \in Nat
  BY <1>1, ListTimes
<1>3. i \in 1..n /\ j \in 1..n /\ i < j
  OBVIOUS
<1>4. CASE ~(v[j].at > v[i].at)
  <2>1. Exchange(v, i, j) = v
    BY <1>4 DEF Exchange
  <2>2. v[j].at # v[i].at
    BY <1>1, <1>2, <1>3 DEF Distinct
  <2>3. v[i].at > v[j].at
    BY <1>2, <1>3, <1>4, <2>2
  <2>4. \A b \in (i + 1)..j : b \in (i + 1)..(j - 1) \/ b = j
    OBVIOUS
  <2>5. \A b \in (i + 1)..j : v[i].at > v[b].at
    BY <1>1, <2>3, <2>4
  <2>6. QED
    BY <1>1, <2>1, <2>5 DEF Within, Rearranged
<1>5. CASE v[j].at > v[i].at
  <2> DEFINE w == [v EXCEPT ![i] = v[j], ![j] = v[i]]
  <2>1. Exchange(v, i, j) = w
    BY <1>5 DEF Exchange
  <2>2. /\ w \in [1..n -> Message] /\ w[i] = v[j] /\ w[j] = v[i]
        /\ \A a \in 1..n : a # i /\ a # j => w[a] = v[a]
    BY <1>2, <1>3
  <2> HIDE DEF w
  <2>3. w \in Seq(Message) /\ Len(w) = n /\ DOMAIN w = 1..n
    BY <2>2
  <2>4. w \in Lists(n)
    BY <2>3 DEF Lists
  <2>5. Distinct(w)
    <3> SUFFICES ASSUME NEW a \in 1..n, NEW b \in 1..n, w[a].at = w[b].at PROVE a = b
      BY <2>3 DEF Distinct
    <3>1. \A c, d \in 1..n : v[c].at = v[d].at => c = d
      BY <1>1, <1>2 DEF Distinct
    <3>2. CASE a = i
      BY <1>3, <2>2, <3>1, <3>2
    <3>3. CASE a = j
      BY <1>3, <2>2, <3>1, <3>3
    <3>4. CASE a # i /\ a # j
      BY <1>3, <2>2, <3>1, <3>4
    <3>5. QED
      BY <3>2, <3>3, <3>4
  <2>6. ToSet(w) = ToSet(s)
    <3>1. \A a \in 1..n : \E b \in 1..n : w[a] = v[b]
      BY <1>3, <2>2
    <3>2. \A a \in 1..n : \E b \in 1..n : v[a] = w[b]
      BY <1>3, <2>2
    <3>3. ToSet(w) = {w[a] : a \in 1..n} /\ ToSet(v) = {v[a] : a \in 1..n}
      BY <1>2, <2>3 DEF ToSet
    <3>5. ToSet(w) = ToSet(v)
      BY <3>1, <3>2, <3>3
    <3>4. QED
      BY <1>1, <3>5
  <2>7. SortedTo(w, i - 1)
    <3> SUFFICES ASSUME NEW a \in 1..(i - 1), NEW b \in 1..n, a < b PROVE w[a].at > w[b].at
      BY <2>3 DEF SortedTo
    <3>1. \A c \in 1..n : a < c => v[a].at > v[c].at
      BY <1>1, <1>2 DEF SortedTo
    <3>2. w[a] = v[a] /\ a < i /\ a < j
      BY <1>3, <2>2
    <3>3. CASE b = i
      BY <1>3, <2>2, <3>1, <3>2, <3>3
    <3>4. CASE b = j
      BY <1>3, <2>2, <3>1, <3>2, <3>4
    <3>5. CASE b # i /\ b # j
      BY <2>2, <3>1, <3>2, <3>5
    <3>6. QED
      BY <3>3, <3>4, <3>5
  <2>8. ASSUME NEW b \in (i + 1)..j PROVE w[i].at > w[b].at
    <3>1. CASE b = j
      BY <1>5, <2>2, <3>1
    <3>2. CASE b # j
      <4>1. b \in (i + 1)..(j - 1) /\ b \in 1..n /\ b # i
        BY <1>3, <3>2
      <4>2. w[b] = v[b] /\ v[i].at > v[b].at
        BY <1>1, <2>2, <3>2, <4>1
      <4>3. QED
        BY <1>2, <1>3, <1>5, <2>2, <4>1, <4>2
    <3>3. QED
      BY <3>1, <3>2
  <2>9. QED
    BY <2>1, <2>4, <2>5, <2>6, <2>7, <2>8 DEF Within, Rearranged
<1>6. QED
  BY <1>4, <1>5

\* The inner loop brings the latest of the messages behind the first i - 1 to the front.
LEMMA InnerLoopSorts ==
  ASSUME NEW n \in Nat, NEW s, NEW i \in 1..n, NEW v, Rearranged(n, s, v), SortedTo(v, i - 1)
  PROVE  Rearranged(n, s, InnerLoop(v, i)) /\ SortedTo(InnerLoop(v, i), i)
<1>1. v \in Lists(n)
  BY DEF Rearranged
<1>2. PICK h \in [i..n -> Lists(n)] :
        /\ h[i] = v /\ \A j \in (i + 1)..n : h[j] = Exchange(h[j - 1], i, j)
        /\ InnerLoop(v, i) = h[n]
  BY <1>1, InnerDef
<1> DEFINE good == {j \in i..n : Within(n, s, i, j, h[j])}
<1>3. i \in good
  <2>1. \A b \in (i + 1)..i : FALSE
    OBVIOUS
  <2>2. i \in i..n
    OBVIOUS
  <2>3. Within(n, s, i, i, v)
    BY <2>1 DEF Within
  <2>4. QED
    BY <1>2, <2>2, <2>3
<1>4. ASSUME NEW j \in (i + 1)..n, j - 1 \in good PROVE j \in good
  <2>1. Within(n, s, i, j - 1, h[j - 1]) /\ j \in i..n
    BY <1>4
  <2>2. Within(n, s, i, j, Exchange(h[j - 1], i, j))
    BY <2>1, ExchangeStep
  <2>3. QED
    BY <1>2, <2>1, <2>2
<1> HIDE DEF good
<1>5. \A j \in i..n : j \in good
  <2>1. i \in Nat
    OBVIOUS
  <2>2. \A j \in (i + 1)..n : j - 1 \in good => j \in good
    BY <1>4
  <2>3. QED
    BY <1>3, <2>1, <2>2, UpTo
<1>6. Within(n, s, i, n, h[n])
  BY <1>5 DEF good
<1> DEFINE w == h[n]
<1>7. Rearranged(n, s, w) /\ SortedTo(w, i - 1) /\ \A b \in (i + 1)..n : w[i].at > w[b].at
  BY <1>6 DEF Within
<1> HIDE DEF w
<1>8. DOMAIN w = 1..n
  BY <1>7, ListTimes DEF Rearranged
<1>9. SortedTo(w, i)
  <2> SUFFICES ASSUME NEW a \in 1..i, NEW b \in 1..n, a < b PROVE w[a].at > w[b].at
    BY <1>8 DEF SortedTo
  <2>1. CASE a = i
    BY <1>7, <2>1
  <2>2. CASE a # i
    <3>1. a \in 1..(i - 1)
      BY <2>2
    <3>2. QED
      BY <1>7, <1>8, <3>1 DEF SortedTo
  <2>3. QED
    BY <2>1, <2>2
<1>10. QED
  BY <1>2, <1>7, <1>9 DEF w

\* sortMessagesDesc is a function of the outer index.
LEMMA OuterDef ==
  ASSUME NEW n \in Nat, NEW s, Rearranged(n, s, s)
  PROVE  \E h : /\ h[0] = s /\ \A i \in 1..n : h[i] = InnerLoop(h[i - 1], i)
                /\ sortMessagesDesc(s) = h[n]
<1> DEFINE S == Lists(n)
           step == [p \in (1..n) \X S |-> InnerLoop(p[2], p[1])]
<1>1. s \in S /\ Len(s) = n /\ DOMAIN s = 1..n
  BY ListTimes DEF Rearranged
<1>2. ASSUME NEW i \in 1..n, NEW v \in S PROVE step[<<i, v>>] = InnerLoop(v, i) /\ InnerLoop(v, i) \in S
  <2>1. PICK h \in [i..n -> S] : InnerLoop(v, i) = h[n]
    BY InnerDef
  <2>2. n \in i..n
    OBVIOUS
  <2>3. QED
    BY <2>1, <2>2
<1> HIDE DEF S, step
<1>3. PICK h \in [0..n -> S] : h[0] = s /\ \A i \in (0 + 1)..n : h[i] = step[<<i, h[i - 1]>>]
  <2>1. StepOn(0, n, S, s, step)
    BY <1>1, <1>2 DEF StepOn
  <2>2. Defines(0, n, S, s, step)
    BY <2>1, RecursionExists
  <2>3. QED
    BY <2>2 DEF Defines
<1>4. \A i \in 1..n : h[i] = InnerLoop(h[i - 1], i)
  <2> SUFFICES ASSUME NEW i \in 1..n PROVE h[i] = InnerLoop(h[i - 1], i)
    OBVIOUS
  <2>1. h[i - 1] \in S
    BY <1>3
  <2>2. h[i] = step[<<i, h[i - 1]>>]
    BY <1>3
  <2>3. step[<<i, h[i - 1]>>] = InnerLoop(h[i - 1], i)
    BY <1>2, <2>1
  <2>4. QED
    BY <2>2, <2>3
<1> DEFINE f == CHOOSE g : g = [i \in 0..Len(s) |-> IF i = 0 THEN s ELSE InnerLoop(g[i - 1], i)]
<1>5. h = [i \in 0..Len(s) |-> IF i = 0 THEN s ELSE InnerLoop(h[i - 1], i)]
  <2>1. \A i \in 0..n : i = 0 \/ i \in 1..n
    OBVIOUS
  <2>2. \A i \in 0..n : h[i] = IF i = 0 THEN s ELSE InnerLoop(h[i - 1], i)
    BY <1>3, <1>4, <2>1, Zenon
  <2>3. QED
    BY <1>1, <1>3, <2>2
<1>6. f = [i \in 0..Len(s) |-> IF i = 0 THEN s ELSE InnerLoop(f[i - 1], i)]
  BY <1>5, Zenon
<1>7. sortMessagesDesc(s) = f[Len(s)]
  BY Zenon DEF sortMessagesDesc
<1> HIDE DEF f
<1>8. f[0] = s /\ \A i \in 1..n : f[i] = InnerLoop(f[i - 1], i)
  <2>1. 0 \in 0..Len(s) /\ \A i \in 1..n : i \in 0..Len(s) /\ i # 0
    BY <1>1
  <2>2. QED
    BY <1>6, <2>1
<1>9. QED
  BY <1>1, <1>7, <1>8

\* The two loops sort: the latest message first, and each of the list once.
LEMMA SortedDesc ==
  ASSUME NEW n \in Nat, NEW s, Rearranged(n, s, s)
  PROVE  Rearranged(n, s, sortMessagesDesc(s)) /\ SortedTo(sortMessagesDesc(s), n)
<1>1. PICK h : /\ h[0] = s /\ \A i \in 1..n : h[i] = InnerLoop(h[i - 1], i)
               /\ sortMessagesDesc(s) = h[n]
  BY OuterDef
<1> DEFINE good == {i \in 0..n : Rearranged(n, s, h[i]) /\ SortedTo(h[i], i)}
<1>2. 0 \in good
  <2>1. SortedTo(s, 0)
    BY DEF SortedTo
  <2>2. QED
    BY <1>1, <2>1
<1>3. ASSUME NEW i \in (0 + 1)..n, i - 1 \in good PROVE i \in good
  <2>1. i \in 1..n /\ Rearranged(n, s, h[i - 1]) /\ SortedTo(h[i - 1], i - 1)
    BY <1>3
  <2>2. Rearranged(n, s, InnerLoop(h[i - 1], i)) /\ SortedTo(InnerLoop(h[i - 1], i), i)
    BY <2>1, InnerLoopSorts
  <2>3. QED
    BY <1>1, <2>1, <2>2
<1> HIDE DEF good
<1>4. \A i \in 0..n : i \in good
  BY <1>2, <1>3, UpTo
<1>5. n \in good
  BY <1>4
<1>6. QED
  BY <1>1, <1>5 DEF good

\* A message that is saved has a later time than all others, and nothing else changes
\* the time or the order of those that stay (SaveMessage).
LEMMA TimesStep ==
  ASSUME RecordsTypeOK, ChatNext, TimesApart
  PROVE  TimesApart'
<1>1. writes \in Nat /\ messages \in [ThreadIds -> Seq(Message)]
  BY GoneTypes DEF RecordsTypeOK, DbTypeOK
<1>2. ASSUME writes' = writes \/ writes' = writes + 1,
             \A x \in ThreadIds : messages'[x] = messages[x] \/ messages'[x] = <<>>
      PROVE  TimesApart'
  <2> SUFFICES ASSUME NEW x \in ThreadIds, NEW y \in ThreadIds,
                      NEW i \in DOMAIN messages'[x], NEW k \in DOMAIN messages'[y]
               PROVE  /\ messages'[x][i].at \in 1..writes'
                      /\ x = y /\ i < k => messages'[x][i].at < messages'[y][k].at
                      /\ x # y => messages'[x][i].at # messages'[y][k].at
    BY DEF TimesApart
  <2>1. DOMAIN <<>> = {}
    OBVIOUS
  <2>2. messages'[x] = messages[x] /\ messages'[y] = messages[y]
    BY <1>2, <2>1
  <2>3. /\ messages[x][i].at \in 1..writes
        /\ x = y /\ i < k => messages[x][i].at < messages[y][k].at
        /\ x # y => messages[x][i].at # messages[y][k].at
    BY <2>2 DEF TimesApart
  <2>4. \A a \in 1..writes : a \in 1..writes'
    BY <1>1, <1>2
  <2>5. QED
    BY <2>2, <2>3, <2>4
<1>3. ASSUME NEW t \in ThreadIds, NEW hit \in BOOLEAN, writes < LastWrite, StoreMessage(t, hit)
      PROVE  TimesApart'
  <2> DEFINE m == [at |-> writes + 1, hit |-> hit]
             l == messages[t]
  <2>1. writes' = writes + 1 /\ messages' = [messages EXCEPT ![t] = Append(l, m)]
    BY <1>3 DEF StoreMessage
  <2>2. m \in Message /\ m.at = writes + 1
    <3>1. LastWrite \in Nat /\ writes \in Nat /\ writes < LastWrite
      BY <1>1, <1>3, DatabaseAssumption, Zenon
    <3>2. writes + 1 \in 1..LastWrite
      BY <3>1
    <3>3. QED
      BY <1>3, <3>2 DEF Message
  <2> HIDE DEF m
  <2>3. l \in Seq(Message)
    BY <1>1
  <2>4. ASSUME NEW x \in ThreadIds, NEW i \in DOMAIN messages'[x]
        PROVE  \/ i \in DOMAIN messages[x] /\ messages'[x][i] = messages[x][i]
               \/ x = t /\ i = Len(l) + 1 /\ messages'[x][i].at = writes + 1
    <3>1. CASE x = t
      <4>1. messages'[x] = Append(l, m)
        BY <1>1, <2>1, <3>1
      <4> HIDE DEF l
      <4>2. \/ i \in DOMAIN l /\ messages'[x][i] = l[i]
            \/ i = Len(l) + 1 /\ messages'[x][i] = m
        BY <2>2, <2>3, <2>4, <4>1, AppendFacts
      <4>3. QED
        BY <2>2, <3>1, <4>2 DEF l
    <3>2. CASE x # t
      BY <1>1, <2>1, <2>4, <3>2
    <3>3. QED
      BY <3>1, <3>2
  <2>5. DOMAIN l = 1..Len(l) /\ Len(l) \in Nat
    BY <2>3
  <2> HIDE DEF l
  <2> SUFFICES ASSUME NEW x \in ThreadIds, NEW y \in ThreadIds,
                      NEW i \in DOMAIN messages'[x], NEW k \in DOMAIN messages'[y]
               PROVE  /\ messages'[x][i].at \in 1..writes'
                      /\ x = y /\ i < k => messages'[x][i].at < messages'[y][k].at
                      /\ x # y => messages'[x][i].at # messages'[y][k].at
    BY DEF TimesApart
  <2>6. CASE i \in DOMAIN messages[x] /\ messages'[x][i] = messages[x][i]
    <3>1. messages[x][i].at \in 1..writes
      BY <2>6 DEF TimesApart
    <3>2. CASE k \in DOMAIN messages[y] /\ messages'[y][k] = messages[y][k]
      <4>1. /\ x = y /\ i < k => messages[x][i].at < messages[y][k].at
            /\ x # y => messages[x][i].at # messages[y][k].at
        BY <2>6, <3>2 DEF TimesApart
      <4>2. QED
        BY <1>1, <2>1, <2>6, <3>1, <3>2, <4>1
    <3>3. CASE y = t /\ k = Len(l) + 1 /\ messages'[y][k].at = writes + 1
      BY <1>1, <2>1, <2>6, <3>1, <3>3
    <3>4. QED
      BY <2>4, <3>2, <3>3
  <2>7. CASE x = t /\ i = Len(l) + 1 /\ messages'[x][i].at = writes + 1
    <3>1. CASE k \in DOMAIN messages[y] /\ messages'[y][k] = messages[y][k]
      <4>1. messages[y][k].at \in 1..writes
        BY <3>1 DEF TimesApart
      <4>2. x = y => ~(i < k)
        BY <2>5, <2>7, <3>1 DEF l
      <4>3. QED
        BY <1>1, <2>1, <2>7, <3>1, <4>1, <4>2
    <3>2. CASE y = t /\ k = Len(l) + 1 /\ messages'[y][k].at = writes + 1
      BY <1>1, <2>1, <2>5, <2>7, <3>2
    <3>3. QED
      BY <2>4, <3>1, <3>2
  <2>8. QED
    BY <2>4, <2>6, <2>7
<1>4. ASSUME NEW t \in ThreadIds, NEW u \in Users,
             ReplyText(u, t) \/ ReplyTool(u, t) \/ ReplyEcho(u, t) \/ CommandNew(u, t)
             \/ CommandSwitch(u, t)
      PROVE  TimesApart'
  <2>1. SaveConversation(t, u) \/ UNCHANGED dbVars
    BY <1>4 DEF ReplyText, ReplyTool, ReplyEcho, CommandNew, CommandSwitch
  <2>2. messages' = messages /\ (writes' = writes \/ writes' = writes + 1)
    BY <2>1 DEF SaveConversation, dbVars, chatRows
  <2>3. QED
    BY <1>2, <2>2
<1>5. ASSUME NEW t \in ThreadIds, WriteMessage(t)
      PROVE  TimesApart'
  <2>1. PICK hit \in BOOLEAN : SaveMessage(t, hit)
    BY <1>5 DEF WriteMessage
  <2>2. UNCHANGED dbVars \/ (writes < LastWrite /\ StoreMessage(t, hit))
    BY <2>1 DEF SaveMessage, memSaveMessage, pgSaveMessage
  <2>3. QED
    BY <1>2, <1>3, <2>2 DEF dbVars, chatRows
<1>6. ASSUME NEW t \in ThreadIds,
             ArchiveThread(t) \/ DeleteThread(t) \/ DeleteThreadEnd(t) \/ DeleteThreadFails(t)
      PROVE  TimesApart'
  <2>1. DeleteMessagesByThread(t) \/ DeleteConversation(t) \/ UNCHANGED dbVars
    BY <1>6 DEF ArchiveThread, DeleteThread, DeleteThreadEnd, DeleteThreadFails
  <2>2. writes' = writes /\ \A x \in ThreadIds : messages'[x] = messages[x] \/ messages'[x] = <<>>
    BY <1>1, <2>1 DEF DeleteMessagesByThread, DeleteConversation, memDeleteConversation,
       pgDeleteConversation, dbVars, chatRows
  <2>3. QED
    BY <1>2, <2>2
<1>7. QED
  BY <1>4, <1>5, <1>6, Zenon DEF ChatNext

\* A list whose times ascend is the one list of its messages with ascending times
\* (ORDER BY created_at).
Ascends(n, list, s) ==
  s \in [1..n -> ToSet(list)] /\ \A i, k \in 1..n : i < k => s[i].at < s[k].at

LEMMA ByTimeIsList ==
  ASSUME NEW n \in Nat, NEW list \in Lists(n), Ascends(n, list, list)
  PROVE  ByTime(list) = list
<1>1. DOMAIN list = 1..n /\ \A a \in 1..n : list[a] \in Message /\ list[a].at \in Nat
  BY ListTimes
<1> DEFINE s == ByTime(list)
<1>2. Ascends(n, list, s)
  <2>1. \E r : Ascends(n, list, r)
    OBVIOUS
  <2>2. s = CHOOSE r : Ascends(n, list, r)
    BY <1>1, Zenon DEF ByTime, Ascends
  <2>3. QED
    BY <2>1, <2>2
<1> HIDE DEF s
<1>3. \A k \in 1..n : \E m \in 1..n : s[k] = list[m]
  BY <1>1, <1>2 DEF Ascends, ToSet
<1>4. /\ \A i, k \in 1..n : i < k => s[i].at < s[k].at
      /\ \A i, k \in 1..n : i < k => list[i].at < list[k].at
  BY <1>2 DEF Ascends
<1> DEFINE low == {k \in 1..n : s[k].at < list[k].at}
           high == {d \in 0..(n - 1) : s[n - d].at > list[n - d].at}
<1>5. low = {}
  <2> SUFFICES ASSUME low # {} PROVE FALSE
    OBVIOUS
  <2>1. PICK k \in low : \A m \in low : k <= m
    <3>1. low \in SUBSET Nat
      OBVIOUS
    <3> HIDE DEF low
    <3>2. QED
      BY <3>1, LeastNumber
  <2>2. PICK m \in 1..n : s[k] = list[m]
    BY <1>3, <2>1
  <2>3. k \in 1..n /\ list[m].at < list[k].at
    BY <2>1, <2>2
  <2>4. m < k
    <3>1. list[m].at < list[k].at /\ list[m].at \in Nat /\ list[k].at \in Nat
      BY <1>1, <2>2, <2>3
    <3>2. m # k
      BY <3>1
    <3>3. ~(k < m)
      <4>1. k < m => list[k].at < list[m].at
        BY <1>4, <2>3
      <4>2. QED
        BY <3>1, <4>1
    <3>4. QED
      BY <2>3, <3>2, <3>3
  <2>5. s[m].at < s[k].at
    BY <1>4, <2>3, <2>4
  <2>6. m \in low
    BY <2>2, <2>5
  <2>7. QED
    BY <2>1, <2>3, <2>4, <2>6
<1>6. high = {}
  <2> SUFFICES ASSUME high # {} PROVE FALSE
    OBVIOUS
  <2>1. PICK d \in high : \A e \in high : d <= e
    <3>1. high \in SUBSET Nat
      OBVIOUS
    <3> HIDE DEF high
    <3>2. QED
      BY <3>1, LeastNumber
  <2> DEFINE k == n - d
  <2>2. k \in 1..n /\ s[k].at > list[k].at
    BY <2>1
  <2> HIDE DEF k
  <2>3. PICK m \in 1..n : s[k] = list[m]
    BY <1>3, <2>2
  <2>4. m > k
    <3>1. list[m].at > list[k].at /\ list[m].at \in Nat /\ list[k].at \in Nat
      BY <1>1, <2>2, <2>3
    <3>2. m # k
      BY <3>1
    <3>3. ~(m < k)
      <4>1. m < k => list[m].at < list[k].at
        BY <1>4, <2>2
      <4>2. QED
        BY <3>1, <4>1
    <3>4. QED
      BY <2>2, <3>2, <3>3
  <2>5. s[m].at > s[k].at
    BY <1>4, <2>2, <2>4
  <2>6. n - m \in 0..(n - 1) /\ n - (n - m) = m /\ n - m < d
    BY <2>1, <2>4 DEF k
  <2>7. n - m \in high
    BY <2>3, <2>5, <2>6
  <2>8. QED
    BY <2>1, <2>6, <2>7
<1>7. ASSUME NEW k \in 1..n PROVE s[k] = list[k]
  <2>1. PICK m \in 1..n : s[k] = list[m]
    BY <1>3
  <2>2. ~(s[k].at < list[k].at)
    BY <1>5
  <2>3. ~(s[k].at > list[k].at)
    <3>1. n - k \in 0..(n - 1) /\ n - (n - k) = k
      OBVIOUS
    <3>2. n - k \notin high
      BY <1>6
    <3> HIDE DEF high
    <3>3. QED
      BY <3>1, <3>2 DEF high
  <2>4. list[m].at = list[k].at
    BY <1>1, <2>1, <2>2, <2>3
  <2>5. ~(m < k) /\ ~(k < m)
    BY <1>1, <1>4, <2>4
  <2>6. m = k
    BY <2>5
  <2>7. QED
    BY <2>1, <2>6
<1>8. s \in [1..n -> ToSet(list)] /\ list \in [1..n -> ToSet(list)]
  BY <1>2 DEF Ascends
<1>9. s = list
  BY <1>7, <1>8
<1>10. QED
  BY <1>9 DEF s

\* The messages of one thread.
LEMMA ThreadFacts ==
  ASSUME RecordsTypeOK, TimesApart, NEW t \in ThreadIds
  PROVE  /\ messages[t] \in Seq(Message) /\ Len(messages[t]) \in Nat
         /\ DOMAIN messages[t] = 1..Len(messages[t])
         /\ messages[t] \in Lists(Len(messages[t]))
         /\ ByTime(messages[t]) = messages[t]
<1> DEFINE l == messages[t]
           n == Len(l)
<1>1. l \in Seq(Message) /\ n \in Nat /\ DOMAIN l = 1..n /\ l \in Lists(n)
  <2>1. l \in Seq(Message)
    BY GoneTypes
  <2> HIDE DEF l
  <2>2. QED
    BY <2>1 DEF Lists
<1>2. \A i, k \in DOMAIN l : i < k => l[i].at < l[k].at
  BY DEF TimesApart
<1> HIDE DEF l
<1>3. l \in [1..n -> ToSet(l)]
  BY <1>1 DEF ToSet
<1>4. Ascends(n, l, l)
  BY <1>1, <1>2, <1>3 DEF Ascends
<1> HIDE DEF n
<1>5. ByTime(l) = l
  BY <1>1, <1>4, ByTimeIsList
<1>6. QED
  BY <1>1, <1>5 DEF l, n

\* With either driver a page holds the messages of the thread from its offset on, as
\* many as there are up to the limit (GetMessagesByThread).
LEMMA PageOk ==
  ASSUME RecordsTypeOK, TimesApart, NEW t \in ThreadIds, NEW limit \in 1..LastWrite,
         NEW offset \in Nat
  PROVE  LET page == GetMessagesByThread(t, limit, offset)
             list == messages[t]
         IN /\ page \in Seq(Message)
            /\ \A i \in DOMAIN page : offset + i \in DOMAIN list /\ page[i] = list[offset + i]
            /\ \A k \in DOMAIN list : offset < k /\ k <= offset + limit => k - offset \in DOMAIN page
            /\ offset = 0 /\ Len(list) <= limit => page = list
<1> DEFINE page == GetMessagesByThread(t, limit, offset)
           list == messages[t]
           n == Len(list)
           e == IF offset + limit > n THEN n ELSE offset + limit
<1>1. list \in Seq(Message) /\ n \in Nat /\ DOMAIN list = 1..n /\ ByTime(list) = list
  BY ThreadFacts
<1>2. limit \in Nat /\ ~(limit <= 0)
  <2>1. LastWrite \in Nat
    BY DatabaseAssumption
  <2>2. QED
    BY <2>1
<1>3. page = SubSeq(list, offset + 1, e)
  <2>1. page = memPage(list, limit, offset) \/ page = pgPage(list, limit, offset)
    BY DEF GetMessagesByThread
  <2>2. memPage(list, limit, offset) = SubSeq(list, offset + 1, e)
    BY <1>2 DEF memPage
  <2>3. pgPage(list, limit, offset) = SubSeq(list, offset + 1, e)
    BY <1>1, <1>2 DEF pgPage
  <2>4. QED
    BY <2>1, <2>2, <2>3
<1>4. e \in Nat /\ e <= n /\ e <= offset + limit
  BY <1>1, <1>2
<1>5. \A k \in 1..n : k <= offset + limit => k <= e
  BY <1>1, <1>2
<1>6. offset = 0 /\ n <= limit => e = n
  BY <1>1, <1>2
<1> HIDE DEF page, list, n, e
<1>7. \A i \in (offset + 1)..e : list[i] \in Message
  <2>1. \A i \in (offset + 1)..e : i \in 1..n
    BY <1>1, <1>4
  <2>2. \A i \in 1..n : list[i] \in Message
    BY <1>1 DEF n
  <2>3. QED
    BY <2>1, <2>2
<1>8. /\ page \in Seq(Message)
      /\ Len(page) = IF offset + 1 <= e THEN e - (offset + 1) + 1 ELSE 0
      /\ \A i \in 1..(e - (offset + 1) + 1) : page[i] = list[(offset + 1) + i - 1]
  <2>1. offset + 1 \in Int /\ e \in Int
    BY <1>4
  <2>2. QED
    BY <1>3, <1>7, <2>1, SubSeqProperties
<1>9. DOMAIN page = 1..Len(page) /\ Len(page) \in Nat
  BY <1>8
<1>10. ASSUME NEW i \in DOMAIN page
       PROVE  offset + i \in DOMAIN list /\ page[i] = list[offset + i]
  <2>1. i \in 1..(e - offset) /\ i \in 1..(e - (offset + 1) + 1)
    BY <1>4, <1>8, <1>9
  <2>2. offset + i \in 1..n /\ (offset + 1) + i - 1 = offset + i
    BY <1>1, <1>4, <2>1
  <2>3. QED
    BY <1>1, <1>8, <2>1, <2>2
<1>11. ASSUME NEW k \in DOMAIN list, offset < k, k <= offset + limit
       PROVE  k - offset \in DOMAIN page
  <2>1. k \in 1..n /\ k <= e
    BY <1>1, <1>5, <1>11
  <2>2. Len(page) = e - offset
    BY <1>4, <1>8, <1>11, <2>1
  <2>3. QED
    BY <1>4, <1>9, <1>11, <2>1, <2>2
<1>12. ASSUME offset = 0, n <= limit PROVE page = list
  <2>1. offset + 1 = 1 /\ e = n
    BY <1>6, <1>12
  <2>2. page = SubSeq(list, 1, n)
    BY <1>3, <2>1
  <2>3. list = SubSeq(list, 1, Len(list))
    BY <1>1, SubSeqFull
  <2>4. QED
    BY <2>2, <2>3 DEF n
<1>13. QED
  BY <1>8, <1>10, <1>11, <1>12 DEF page, list, n

\* Every message is on a page, at its place (history.go: the pages of a thread).
LEMMA PagesOk ==
  ASSUME RecordsTypeOK, TimesApart
  PROVE  PagesCover
<1> SUFFICES ASSUME NEW t \in ThreadIds, NEW limit \in 1..LastWrite
             PROVE  LET page(p) == GetMessagesByThread(t, limit, p * limit)
                    IN /\ \A p \in 0..Len(messages[t]) : \A i \in DOMAIN page(p) :
                            /\ p * limit + i \in DOMAIN messages[t]
                            /\ page(p)[i] = messages[t][p * limit + i]
                       /\ \A k \in DOMAIN messages[t] : \E p \in 0..Len(messages[t]) :
                            k - p * limit \in DOMAIN page(p)
  BY DEF PagesCover
<1> DEFINE page(p) == GetMessagesByThread(t, limit, p * limit)
           n == Len(messages[t])
<1>1. n \in Nat /\ DOMAIN messages[t] = 1..n /\ limit \in Nat /\ 1 <= limit
  <2>1. n \in Nat /\ DOMAIN messages[t] = 1..n
    BY ThreadFacts DEF n
  <2>2. LastWrite \in Nat
    BY DatabaseAssumption
  <2> HIDE DEF n
  <2>3. QED
    BY <2>1, <2>2
<1> HIDE DEF n
<1>2. ASSUME NEW p \in 0..n PROVE p * limit \in Nat
  <2>1. p \in Nat
    BY <1>1
  <2>2. QED
    BY <1>1, <2>1
<1>3. ASSUME NEW p \in 0..n, NEW i \in DOMAIN page(p)
      PROVE  p * limit + i \in DOMAIN messages[t] /\ page(p)[i] = messages[t][p * limit + i]
  BY <1>2, <1>3, PageOk
<1>4. ASSUME NEW k \in DOMAIN messages[t] PROVE \E p \in 0..n : k - p * limit \in DOMAIN page(p)
  <2> DEFINE T == {p \in 0..n : k <= p * limit + limit}
  <2>1. k \in 1..n /\ k \in 0..n
    BY <1>1
  <2>2. k <= k * limit + limit
    <3>1. k \in Nat /\ k * limit >= k
      BY <1>1, <2>1
    <3>2. QED
      BY <1>1, <3>1
  <2>3. k \in T /\ T \in SUBSET Nat
    BY <1>1, <2>1, <2>2
  <2> HIDE DEF T
  <2>4. PICK p \in T : \A q \in T : p <= q
    BY <2>3, LeastNumber
  <2>5. p \in 0..n /\ p \in Nat /\ k <= p * limit + limit
    BY <1>1, <2>4 DEF T
  <2>6. p * limit < k
    <3>1. CASE p = 0
      BY <1>1, <2>1, <3>1
    <3>2. CASE p # 0
      <4>1. p - 1 \in 0..n /\ p - 1 < p
        BY <1>1, <2>5, <3>2
      <4>2. p - 1 \notin T
        BY <1>1, <2>4, <2>5, <4>1
      <4>3. ~(k <= (p - 1) * limit + limit)
        BY <4>1, <4>2 DEF T
      <4>4. (p - 1) * limit + limit = p * limit
        BY <1>1, <2>5
      <4>5. p * limit \in Nat
        BY <1>2, <2>5
      <4>6. QED
        BY <2>1, <4>3, <4>4, <4>5
    <3>3. QED
      BY <3>1, <3>2
  <2>7. p * limit \in Nat
    BY <1>2, <2>5
  <2>8. k - p * limit \in DOMAIN page(p)
    BY <2>5, <2>6, <2>7, PageOk
  <2>9. QED
    BY <2>5, <2>8
<1>5. QED
  BY <1>3, <1>4 DEF n

\* Threads listed once each.
Listing(c, convs) ==
  /\ c \in Nat /\ convs \in [1..c -> ThreadIds]
  /\ \A i, k \in 1..c : i # k => convs[i] # convs[k]

\* A limit that is not 0.
LEMMA LimitFacts == ASSUME NEW m \in Nat, NEW n \in 1..m PROVE n \in Nat \ {0} /\ ~(n <= 0)
  OBVIOUS

\* The first n of a list that holds each element of a set once.
LEMMA FirstOfList ==
  ASSUME NEW own, IsFiniteSet(own), NEW list \in SetToSeqs(own), NEW n \in Nat \ {0}
  PROVE  LET page == memPage(list, n, 0)
         IN /\ ListOf(page, own, n)
            /\ Len(page) \in Nat /\ page \in [1..Len(page) -> own]
            /\ DOMAIN list = 1..Cardinality(own) /\ Cardinality(own) \in Nat
            /\ \A i \in 1..Len(page) : i \in DOMAIN list /\ page[i] = list[i]
            /\ \A k \in DOMAIN list : k \in DOMAIN page \/ k > Len(page)
            /\ \A x \in own : Cardinality(own) > n => \E k \in DOMAIN list : list[k] = x
<1> DEFINE c == Cardinality(own)
           e == IF c > n THEN n ELSE c
           page == memPage(list, n, 0)
<1>1. c \in Nat
  BY FS_CardinalityType
<1>2. list \in [1..c -> own] /\ \A i, k \in 1..c : i # k => list[i] # list[k]
  BY DEF SetToSeqs
<1>3. e \in Nat /\ e <= c /\ e <= n /\ (c <= n => e = c)
  BY <1>1
<1>4. IsFiniteSet(1..c) /\ Cardinality(1..c) = c
  <2>1. 1 \in Int /\ c \in Int
    BY <1>1
  <2> HIDE DEF c
  <2>2. IsFiniteSet(1..c) /\ Cardinality(1..c) = IF 1 > c THEN 0 ELSE c - 1 + 1
    BY <2>1, FS_Interval
  <2>3. QED
    BY <1>1, <2>2
<1>5. \A x \in own : \E k \in 1..c : list[k] = x
  <2>1. list \in Injection(1..c, own)
    BY <1>2 DEF Injection, IsInjective
  <2>2. Cardinality(1..c) = Cardinality(own)
    BY <1>4
  <2> HIDE DEF c
  <2>3. list \in Surjection(1..c, own)
    BY <2>1, <2>2, FS_Injection
  <2>4. QED
    BY <2>3 DEF Surjection
<1> HIDE DEF c
<1>6. /\ Len(list) = c /\ list \in Seq(own)
  BY <1>1, <1>2
<1>7. page = SubSeq(list, 1, e)
  <2>1. 0 + 1 = 1 /\ 0 + n = n /\ ~(n <= 0)
    OBVIOUS
  <2>2. page = SubSeq(list, 1, IF 0 + n > Len(list) THEN Len(list) ELSE 0 + n)
    BY <2>1 DEF memPage
  <2>3. (IF 0 + n > Len(list) THEN Len(list) ELSE 0 + n) = e
    BY <1>1, <1>6
  <2>4. QED
    BY <2>2, <2>3
<1> HIDE DEF e, page
<1>8. /\ page \in [1..e -> own] /\ Len(page) = e
      /\ \A i \in 1..e : i \in 1..c /\ page[i] = list[i]
  <2>1. \A i \in 1..e : i \in 1..c /\ list[i] \in own
    BY <1>1, <1>2, <1>3
  <2>2. /\ page \in Seq(own)
        /\ Len(page) = IF 1 <= e THEN e - 1 + 1 ELSE 0
        /\ \A i \in 1..(e - 1 + 1) : page[i] = list[1 + i - 1]
    <3>1. 1 \in Int /\ e \in Int
      BY <1>3
    <3>2. QED
      BY <1>7, <2>1, <3>1, SubSeqProperties
  <2>3. Len(page) = e /\ \A i \in 1..e : i \in 1..(e - 1 + 1) /\ 1 + i - 1 = i
    BY <1>3, <2>2
  <2>4. \A i \in 1..e : page[i] = list[i]
    BY <2>2, <2>3
  <2>5. DOMAIN page = 1..e
    BY <2>2, <2>3
  <2>6. QED
    BY <2>1, <2>2, <2>3, <2>4, <2>5
<1>9. \A i, k \in 1..e : page[i] = page[k] => i = k
  BY <1>2, <1>8
<1>10. DOMAIN page = 1..e /\ ToSet(page) \subseteq own
  BY <1>8 DEF ToSet
<1>11. c <= n => ToSet(page) = own
  <2> SUFFICES ASSUME c <= n, NEW x \in own PROVE x \in ToSet(page)
    BY <1>10
  <2>1. PICK k \in 1..c : list[k] = x
    BY <1>5
  <2>2. k \in 1..e /\ page[k] = x
    BY <1>3, <1>8, <2>1
  <2>3. QED
    BY <1>10, <2>2 DEF ToSet
<1>12. ListOf(page, own, n)
  BY <1>8, <1>9, <1>10, <1>11 DEF ListOf, c, e
<1>13. \A k \in 1..c : k \in 1..e \/ k > e
  BY <1>1, <1>3
<1>14. DOMAIN list = 1..c
  BY <1>2
<1>15. QED
  BY <1>1, <1>3, <1>5, <1>8, <1>10, <1>12, <1>13, <1>14 DEF c, page

\* Both drivers list conversations of the user once each, and PostgreSQL leaves out
\* those that changed before the ones it lists (ListConversations).
LEMMA ListingOk ==
  ASSUME RecordsTypeOK, IsFiniteSet(DOMAIN conversations), NEW u \in Users,
         NEW n \in 1..ConversationLimit, NEW convs \in ListConversations(u, n, 0)
  PROVE  /\ Listing(Len(convs), convs)
         /\ ListOf(convs, ConversationsOf(u), n)
         /\ driver = "postgres" =>
              \A t \in ConversationsOf(u) \ ToSet(convs), c \in ToSet(convs) :
                conversations[t].updated < conversations[c].updated
<1> DEFINE own == ConversationsOf(u)
<1>1. n \in Nat \ {0} /\ ~(n <= 0)
  <2>1. ConversationLimit \in Nat
    BY RecordsAssumption
  <2>2. QED
    BY <2>1, LimitFacts
<1>2. own \subseteq DOMAIN conversations /\ DOMAIN conversations \subseteq ThreadIds
  BY DEF RecordsTypeOK, DbTypeOK, ConversationsOf
<1>3. PICK list \in SetToSeqs(own) :
        convs = memPage(list, n, 0) /\ (driver = "postgres" => LatestFirst(list))
  <2>1. CASE driver = "memory"
    BY <2>1 DEF ListConversations, memListConversations
  <2>2. CASE driver # "memory"
    BY <1>1, <2>2 DEF ListConversations, pgListConversations
  <2>3. QED
    BY <2>1, <2>2
<1>4. IsFiniteSet(own)
  <2> HIDE DEF own
  <2>1. QED
    BY <1>2, FS_Subset
<1>5. \A t \in own : conversations[t].updated \in Nat
  <2>1. \A t \in DOMAIN conversations : conversations[t] \in Conversation
    BY DEF RecordsTypeOK, DbTypeOK
  <2>2. \A t \in DOMAIN conversations : conversations[t].updated \in 1..LastWrite
    BY <2>1 DEF Conversation
  <2>3. LastWrite \in Nat
    BY DatabaseAssumption
  <2> HIDE DEF own
  <2>4. QED
    BY <1>2, <2>2, <2>3
<1> HIDE DEF own
<1> DEFINE e == Len(convs)
<1>6. /\ ListOf(convs, own, n)
      /\ e \in Nat /\ convs \in [1..e -> own]
      /\ DOMAIN list = 1..Cardinality(own) /\ Cardinality(own) \in Nat
      /\ \A i \in 1..e : i \in DOMAIN list /\ convs[i] = list[i]
      /\ \A k \in DOMAIN list : k \in DOMAIN convs \/ k > e
      /\ \A x \in own : Cardinality(own) > n => \E k \in DOMAIN list : list[k] = x
  BY <1>1, <1>3, <1>4, FirstOfList
<1> HIDE DEF e
<1>7. Listing(e, convs)
  BY <1>2, <1>6 DEF Listing, ListOf
<1>8. ASSUME driver = "postgres", NEW t \in own \ ToSet(convs), NEW c \in ToSet(convs)
      PROVE  conversations[t].updated < conversations[c].updated
  <2>1. PICK i \in 1..e : c = convs[i]
    BY <1>6 DEF ToSet
  <2>2. Cardinality(own) > n
    BY <1>1, <1>6, <1>8 DEF ListOf
  <2>3. PICK k \in DOMAIN list : list[k] = t
    BY <1>6, <2>2
  <2>4. k \notin DOMAIN convs
    <3>1. ASSUME k \in DOMAIN convs PROVE FALSE
      <4>1. k \in 1..e /\ convs[k] = t
        BY <1>6, <2>3, <3>1
      <4>2. QED
        BY <1>6, <1>8, <4>1 DEF ToSet
    <3>2. QED
      BY <3>1
  <2>5. i \in DOMAIN list /\ list[i] = c /\ i < k
    BY <1>6, <2>1, <2>3, <2>4
  <2>6. conversations[list[i]].updated > conversations[list[k]].updated
    BY <1>3, <1>8, <2>3, <2>5 DEF LatestFirst
  <2>7. c \in own /\ t \in own
    BY <1>6, <1>8, <2>1
  <2>8. conversations[c].updated > conversations[t].updated
    BY <2>3, <2>5, <2>6
  <2>9. QED
    BY <1>5, <2>7, <2>8
<1>9. QED
  BY <1>6, <1>7, <1>8 DEF own, e

\* Two lists joined hold what the two held.
LEMMA Joined ==
  ASSUME NEW v \in Seq(Message), NEW w \in Seq(Message), Distinct(v), Distinct(w),
         \A a \in DOMAIN v, b \in DOMAIN w : v[a].at # w[b].at
  PROVE  v \o w \in Seq(Message) /\ Distinct(v \o w) /\ ToSet(v \o w) = ToSet(v) \cup ToSet(w)
<1> DEFINE j == v \o w
           p == Len(v)
           q == Len(w)
<1>1. /\ j \in Seq(Message) /\ Len(j) = p + q
      /\ \A i \in 1..(p + q) : j[i] = IF i <= p THEN v[i] ELSE w[i - p]
  BY ConcatProperties
<1>2. p \in Nat /\ q \in Nat /\ DOMAIN v = 1..p /\ DOMAIN w = 1..q
  OBVIOUS
<1>3. DOMAIN j = 1..(p + q)
  BY <1>1
<1> HIDE DEF j, p, q
<1>4. ASSUME NEW i \in 1..(p + q)
      PROVE  \/ i \in DOMAIN v /\ j[i] = v[i]
             \/ i - p \in DOMAIN w /\ j[i] = w[i - p]
  BY <1>1, <1>2
<1>5. Distinct(j)
  <2> SUFFICES ASSUME NEW a \in 1..(p + q), NEW b \in 1..(p + q), j[a].at = j[b].at PROVE a = b
    BY <1>3 DEF Distinct
  <2>1. CASE a \in DOMAIN v /\ j[a] = v[a]
    <3>1. ~(b - p \in DOMAIN w /\ j[b] = w[b - p])
      BY <2>1
    <3>2. b \in DOMAIN v /\ j[b] = v[b]
      BY <1>4, <3>1
    <3>3. QED
      BY <2>1, <3>2 DEF Distinct
  <2>2. CASE a - p \in DOMAIN w /\ j[a] = w[a - p]
    <3>1. ~(b \in DOMAIN v /\ j[b] = v[b])
      BY <2>2
    <3>2. b - p \in DOMAIN w /\ j[b] = w[b - p]
      BY <1>4, <3>1
    <3>3. a - p = b - p
      BY <2>2, <3>2 DEF Distinct
    <3>4. QED
      BY <1>2, <3>3
  <2>3. QED
    BY <1>4, <2>1, <2>2
<1>6. ToSet(j) = ToSet(v) \cup ToSet(w)
  <2>1. ToSet(j) \subseteq ToSet(v) \cup ToSet(w)
    BY <1>3, <1>4 DEF ToSet
  <2>2. \A a \in DOMAIN v : a \in DOMAIN j /\ j[a] = v[a]
    BY <1>1, <1>2, <1>3
  <2>3. \A b \in DOMAIN w : p + b \in DOMAIN j /\ j[p + b] = w[b]
    <3> SUFFICES ASSUME NEW b \in 1..q PROVE p + b \in 1..(p + q) /\ j[p + b] = w[b]
      BY <1>2, <1>3
    <3> DEFINE k == p + b
    <3>1. k \in 1..(p + q) /\ ~(k <= p) /\ k - p = b
      BY <1>2
    <3> HIDE DEF k
    <3>2. j[k] = w[k - p]
      BY <1>1, <3>1
    <3>3. QED
      BY <3>1, <3>2 DEF k
  <2>4. ToSet(v) \subseteq ToSet(j)
    BY <2>2 DEF ToSet
  <2>5. ToSet(w) \subseteq ToSet(j)
    BY <2>3 DEF ToSet
  <2>6. QED
    BY <2>1, <2>4, <2>5
<1>7. QED
  BY <1>1, <1>5, <1>6 DEF j

\* What is gathered is a function of the threads gone through.
Asked(c, convs, limit) ==
  /\ Listing(c, convs) /\ limit \in 1..LastWrite
  /\ \A i \in 1..c : Len(messages[convs[i]]) <= limit
Gathers(c, convs, limit) ==
  \E h : /\ h \in [0..c -> Seq(Message)] /\ h[0] = <<>>
         /\ \A i \in 1..c : h[i] = h[i - 1] \o messages[convs[i]]
         /\ Gathered(convs, limit) = h[c]

LEMMA GatheredDef ==
  ASSUME RecordsTypeOK, TimesApart, NEW c, NEW convs, NEW limit, Asked(c, convs, limit)
  PROVE  Gathers(c, convs, limit)
<1> DEFINE S == Seq(Message)
           step == [p \in (1..c) \X S |-> p[2] \o messages[convs[p[1]]]]
<1>1. c \in Nat /\ Len(convs) = c /\ \A i \in 1..c : convs[i] \in ThreadIds
  BY DEF Listing, Asked
<1>2. ASSUME NEW i \in 1..c PROVE messages[convs[i]] \in S
  BY <1>1, ThreadFacts
<1>3. ASSUME NEW i \in 1..c, NEW v \in S
      PROVE  step[<<i, v>>] = v \o messages[convs[i]] /\ v \o messages[convs[i]] \in S
  <2>1. messages[convs[i]] \in Seq(Message)
    BY <1>2
  <2>2. QED
    BY <2>1, ConcatProperties
<1>4. <<>> \in S
  BY EmptyList
<1>5. ASSUME NEW i \in 1..c PROVE GetMessagesByThread(convs[i], limit, 0) = messages[convs[i]]
  <2>1. convs[i] \in ThreadIds /\ 0 \in Nat /\ Len(messages[convs[i]]) <= limit /\ limit \in 1..LastWrite
    BY <1>1 DEF Asked
  <2>2. QED
    BY <2>1, PageOk
<1> HIDE DEF S, step
<1>6. PICK h \in [0..c -> S] : h[0] = <<>> /\ \A i \in (0 + 1)..c : h[i] = step[<<i, h[i - 1]>>]
  <2>1. \A i \in (0 + 1)..c, v \in S : step[<<i, v>>] \in S
    <3>1. \A i \in (0 + 1)..c : i \in 1..c
      BY <1>1
    <3>2. QED
      BY <1>3, <3>1, Zenon
  <2>3. 0 \in Nat /\ 0 <= c
    BY <1>1
  <2>4. StepOn(0, c, S, <<>>, step)
    BY <1>1, <1>4, <2>1, <2>3, Zenon DEF StepOn
  <2>5. Defines(0, c, S, <<>>, step)
    BY <2>4, RecursionExists
  <2>6. QED
    BY <2>5 DEF Defines
<1>7. \A i \in 1..c : h[i] = h[i - 1] \o messages[convs[i]]
  <2> SUFFICES ASSUME NEW i \in 1..c PROVE h[i] = h[i - 1] \o messages[convs[i]]
    OBVIOUS
  <2>1. h[i - 1] \in S
    BY <1>1, <1>6
  <2>2. h[i] = step[<<i, h[i - 1]>>]
    BY <1>6
  <2>3. QED
    BY <1>3, <2>1, <2>2
<1> DEFINE page(i) == GetMessagesByThread(convs[i], limit, 0)
           f == CHOOSE g : g = [i \in 0..Len(convs) |-> IF i = 0 THEN <<>> ELSE g[i - 1] \o page(i)]
<1>8. h = [i \in 0..Len(convs) |-> IF i = 0 THEN <<>> ELSE h[i - 1] \o page(i)]
  <2>1. \A i \in 0..c : i = 0 \/ i \in 1..c
    BY <1>1
  <2>2. \A i \in 1..c : h[i] = h[i - 1] \o page(i)
    BY <1>5, <1>7
  <2> HIDE DEF page
  <2>3. \A i \in 0..c : h[i] = IF i = 0 THEN <<>> ELSE h[i - 1] \o page(i)
    BY <1>6, <2>1, <2>2, Zenon
  <2>4. QED
    BY <1>1, <1>6, <2>3
<1>9. f = [i \in 0..Len(convs) |-> IF i = 0 THEN <<>> ELSE f[i - 1] \o page(i)]
  BY <1>8, Zenon
<1>10. Gathered(convs, limit) = f[Len(convs)]
  BY Zenon DEF Gathered
<1> HIDE DEF f, page
<1>11. f[0] = <<>> /\ \A i \in 1..c : f[i] = f[i - 1] \o page(i)
  <2>1. 0 \in 0..Len(convs) /\ \A i \in 1..c : i \in 0..Len(convs) /\ i # 0
    BY <1>1
  <2>2. QED
    BY <1>9, <2>1
<1>12. \A i \in 1..c : page(i) = messages[convs[i]]
  BY <1>5 DEF page
<1> DEFINE same == {i \in 0..c : f[i] = h[i]}
<1>13. 0 \in same /\ \A i \in (0 + 1)..c : i - 1 \in same => i \in same
  <2>1. 0 \in same
    BY <1>1, <1>6, <1>11
  <2>2. ASSUME NEW i \in 1..c, i - 1 \in same PROVE i \in same
    <3>1. f[i - 1] = h[i - 1] /\ i \in 0..c
      BY <2>2
    <3>2. f[i] = h[i]
      BY <1>7, <1>11, <1>12, <3>1
    <3>3. QED
      BY <3>1, <3>2
  <2>3. QED
    BY <2>1, <2>2
<1> HIDE DEF same
<1>14. \A i \in 0..c : i \in same
  BY <1>1, <1>13, UpTo
<1>15. f[c] = h[c]
  BY <1>1, <1>14 DEF same
<1>16. QED
  BY <1>1, <1>6, <1>7, <1>10, <1>15 DEF S, Gathers

\* The messages of the first k listed threads.
Those(convs, k) == UNION {ToSet(messages[convs[i]]) : i \in 1..k}

\* What is gathered is all messages of the listed threads.
LEMMA GatheredOk ==
  ASSUME RecordsTypeOK, TimesApart, NEW c, NEW convs, NEW limit, Asked(c, convs, limit)
  PROVE  LET all == Gathered(convs, limit)
         IN all \in Seq(Message) /\ Distinct(all) /\ ToSet(all) = Those(convs, c)
<1>1. PICK h : /\ h \in [0..c -> Seq(Message)] /\ h[0] = <<>>
               /\ \A i \in 1..c : h[i] = h[i - 1] \o messages[convs[i]]
               /\ Gathered(convs, limit) = h[c]
  <2>1. Gathers(c, convs, limit)
    BY GatheredDef
  <2>2. QED
    BY <2>1 DEF Gathers
<1>2. c \in Nat /\ (\A i \in 1..c : convs[i] \in ThreadIds)
      /\ \A i, k \in 1..c : i # k => convs[i] # convs[k]
  BY DEF Asked, Listing
<1> DEFINE good == {k \in 0..c : Distinct(h[k]) /\ ToSet(h[k]) = Those(convs, k)}
<1>3. 0 \in good
  <2>1. Distinct(<<>>) /\ ToSet(<<>>) = {}
    BY DEF Distinct, ToSet
  <2>2. Those(convs, 0) = {}
    BY DEF Those
  <2>3. 0 \in 0..c /\ h[0] = <<>>
    BY <1>1, <1>2
  <2>4. Distinct(h[0]) /\ ToSet(h[0]) = Those(convs, 0)
    BY <2>1, <2>2, <2>3
  <2>5. QED
    BY <2>3, <2>4
<1>4. ASSUME NEW k \in (0 + 1)..c, k - 1 \in good PROVE k \in good
  <2> DEFINE v == h[k - 1]
             w == messages[convs[k]]
  <2>1. k \in 1..c /\ k \in 0..c /\ k - 1 \in 0..c /\ convs[k] \in ThreadIds
    BY <1>2
  <2>2. v \in Seq(Message) /\ Distinct(v) /\ ToSet(v) = Those(convs, k - 1)
    BY <1>1, <1>4, <2>1
  <2>3. w \in Seq(Message)
    BY <2>1, ThreadFacts
  <2>4. Distinct(w)
    <3> SUFFICES ASSUME NEW a \in DOMAIN w, NEW b \in DOMAIN w, w[a].at = w[b].at PROVE a = b
      BY DEF Distinct
    <3>1. (a < b => w[a].at < w[b].at) /\ (b < a => w[b].at < w[a].at)
      BY <2>1 DEF TimesApart
    <3>2. DOMAIN w = 1..Len(w) /\ Len(w) \in Nat
      BY <2>3
    <3>3. w[a].at \in 1..writes
      BY <2>1 DEF TimesApart
    <3>4. writes \in Nat
      BY GoneTypes
    <3> HIDE DEF w
    <3>5. QED
      BY <3>1, <3>2, <3>3, <3>4
  <2>5. ASSUME NEW a \in DOMAIN v, NEW b \in DOMAIN w PROVE v[a].at # w[b].at
    <3>1. v[a] \in Those(convs, k - 1)
      BY <2>2 DEF ToSet
    <3>2. PICK i \in 1..(k - 1) : v[a] \in ToSet(messages[convs[i]])
      BY <3>1 DEF Those
    <3>3. PICK d \in DOMAIN messages[convs[i]] : v[a] = messages[convs[i]][d]
      BY <3>2 DEF ToSet
    <3>4. i \in 1..c /\ i # k
      BY <1>2, <2>1
    <3>5. convs[i] \in ThreadIds /\ convs[i] # convs[k]
      BY <1>2, <2>1, <3>4
    <3>6. messages[convs[i]][d].at # messages[convs[k]][b].at
      BY <2>1, <2>5, <3>3, <3>5 DEF TimesApart
    <3>7. QED
      BY <3>3, <3>6
  <2>6. Those(convs, k) = Those(convs, k - 1) \cup ToSet(w)
    <3>1. 1..k = (1..(k - 1)) \cup {k}
      BY <2>1
    <3>2. QED
      BY <3>1, Zenon DEF Those
  <2>7. h[k] = v \o w
    BY <1>1, <2>1
  <2> HIDE DEF v, w
  <2>8. Distinct(v \o w) /\ ToSet(v \o w) = ToSet(v) \cup ToSet(w)
    BY <2>2, <2>3, <2>4, <2>5, Joined
  <2>9. QED
    BY <2>1, <2>2, <2>6, <2>7, <2>8
<1> HIDE DEF good
<1>5. \A k \in 0..c : k \in good
  <2>1. 0 \in Nat /\ \A k \in (0 + 1)..c : k - 1 \in good => k \in good
    BY <1>4
  <2>2. QED
    BY <1>2, <1>3, <2>1, UpTo
<1>6. c \in good /\ c \in 0..c
  BY <1>2, <1>5
<1>7. QED
  BY <1>1, <1>6 DEF good

\* The latest messages of listed threads, the latest first (RecentMessages).
LEMMA LatestOk ==
  ASSUME RecordsTypeOK, TimesApart, NEW convs, NEW c, Listing(c, convs),
         NEW limit \in 1..LastWrite, \A i \in DOMAIN convs : Len(messages[convs[i]]) <= limit
  PROVE  LET all == UNION {ToSet(messages[t]) : t \in ToSet(convs)}
             got == RecentMessages(convs, limit)
         IN /\ Len(got) <= limit /\ ToSet(got) \subseteq all
            /\ \A i, k \in DOMAIN got : i < k => got[i].at > got[k].at
            /\ \A m \in all \ ToSet(got) :
                 Len(got) = limit /\ \A i \in DOMAIN got : got[i].at > m.at
<1> DEFINE all == UNION {ToSet(messages[t]) : t \in ToSet(convs)}
           got == RecentMessages(convs, limit)
           raw == Gathered(convs, limit)
           s == sortMessagesDesc(raw)
           n == Len(raw)
           e == IF n > limit THEN limit ELSE n
<1>2. DOMAIN convs = 1..c
  BY DEF Listing
<1>3. raw \in Seq(Message) /\ Distinct(raw) /\ ToSet(raw) = Those(convs, c)
  <2>1. Asked(c, convs, limit)
    BY <1>2 DEF Asked
  <2>2. QED
    BY <2>1, GatheredOk
<1>4. Those(convs, c) = all
  <2>1. ToSet(convs) = {convs[i] : i \in 1..c}
    BY <1>2 DEF ToSet
  <2>2. all = UNION {ToSet(messages[t]) : t \in {convs[i] : i \in 1..c}}
    BY <2>1
  <2>3. QED
    BY <2>2, Zenon DEF Those
<1>5. limit \in Nat
  <2>1. LastWrite \in Nat
    BY DatabaseAssumption
  <2>2. QED
    BY <2>1
<1> HIDE DEF all, raw
<1>6. n \in Nat /\ Rearranged(n, raw, raw)
  BY <1>3 DEF Rearranged, Lists
<1>7. Rearranged(n, raw, s) /\ SortedTo(s, n)
  <2> HIDE DEF n
  <2>1. QED
    BY <1>6, SortedDesc
<1>8. got = SubSeq(s, 1, IF Len(s) > limit THEN limit ELSE Len(s))
  BY DEF RecentMessages, raw
<1> HIDE DEF got, s, n
<1>9. /\ s \in Seq(Message) /\ Len(s) = n /\ DOMAIN s = 1..n
      /\ \A a \in 1..n : s[a] \in Message /\ s[a].at \in Nat
  BY <1>6, <1>7, ListTimes DEF Rearranged
<1>10. ToSet(s) = all
  BY <1>3, <1>4, <1>7 DEF Rearranged
<1>11. e \in Nat /\ e <= limit /\ e <= n /\ (n > e => e = limit)
  BY <1>5, <1>6
<1>12. got = SubSeq(s, 1, e)
  BY <1>8, <1>9
<1> HIDE DEF e
<1>13. /\ got \in Seq(Message) /\ Len(got) = e /\ DOMAIN got = 1..e
       /\ \A i \in 1..e : got[i] = s[i]
  <2>1. \A i \in 1..e : s[i] \in Message
    BY <1>6, <1>9, <1>11
  <2>2. /\ SubSeq(s, 1, e) \in Seq(Message)
        /\ Len(SubSeq(s, 1, e)) = IF 1 <= e THEN e - 1 + 1 ELSE 0
        /\ \A i \in 1..(e - 1 + 1) : SubSeq(s, 1, e)[i] = s[1 + i - 1]
    <3>1. 1 \in Int /\ e \in Int
      BY <1>11
    <3>2. QED
      BY <2>1, <3>1, SubSeqProperties
  <2>3. Len(got) = e /\ got \in Seq(Message)
    BY <1>11, <1>12, <2>2
  <2>4. DOMAIN got = 1..e
    BY <2>3
  <2>5. ASSUME NEW i \in 1..e PROVE got[i] = s[i]
    <3>1. i \in 1..(e - 1 + 1) /\ 1 + i - 1 = i
      BY <1>11
    <3>2. SubSeq(s, 1, e)[i] = s[1 + i - 1]
      BY <2>2, <3>1
    <3>3. QED
      BY <1>12, <3>1, <3>2
  <2>6. QED
    BY <2>3, <2>4, <2>5
<1>14. \A a, b \in 1..n : a < b => s[a].at > s[b].at
  BY <1>7, <1>9 DEF SortedTo
<1>15. \A i \in 1..e : i \in 1..n
  BY <1>6, <1>11
<1>16. ToSet(got) \subseteq all
  BY <1>9, <1>10, <1>13, <1>15 DEF ToSet
<1>17. \A i, k \in DOMAIN got : i < k => got[i].at > got[k].at
  BY <1>13, <1>14, <1>15
<1>18. ASSUME NEW m \in all \ ToSet(got)
       PROVE  Len(got) = limit /\ \A i \in DOMAIN got : got[i].at > m.at
  <2>1. PICK k \in 1..n : m = s[k]
    BY <1>9, <1>10 DEF ToSet
  <2>2. k \notin 1..e
    BY <1>13, <1>18, <2>1 DEF ToSet
  <2>3. e < k /\ n > e
    BY <1>6, <1>11, <2>1, <2>2
  <2>4. Len(got) = limit
    BY <1>11, <1>13, <2>3
  <2>5. ASSUME NEW i \in 1..e PROVE got[i].at > m.at
    <3>1. i < k
      BY <1>11, <2>3
    <3>2. QED
      BY <1>13, <1>14, <1>15, <2>1, <3>1
  <2>6. QED
    BY <1>13, <2>4, <2>5
<1>19. QED
  BY <1>11, <1>13, <1>16, <1>17, <1>18 DEF all, got

\* The list of latest messages (RecentMessages).
LEMMA RecentOk ==
  ASSUME RecordsTypeOK, IsFiniteSet(DOMAIN conversations), TimesApart
  PROVE  RecentAreLatest
<1> DEFINE Latest(convs, limit) ==
      LET all == UNION {ToSet(messages[t]) : t \in ToSet(convs)}
          got == RecentMessages(convs, limit)
      IN /\ Len(got) <= limit /\ ToSet(got) \subseteq all
         /\ \A i, k \in DOMAIN got : i < k => got[i].at > got[k].at
         /\ \A m \in all \ ToSet(got) :
              Len(got) = limit /\ \A i \in DOMAIN got : got[i].at > m.at
<1>1. ASSUME NEW u \in Users, NEW n \in 1..ConversationLimit, NEW convs \in ListConversations(u, n, 0)
      PROVE  /\ ListOf(convs, ConversationsOf(u), n)
             /\ driver = "postgres" =>
                  \A t \in ConversationsOf(u) \ ToSet(convs), c \in ToSet(convs) :
                    conversations[t].updated < conversations[c].updated
             /\ \A limit \in 1..LastWrite :
                  (\A i \in DOMAIN convs : Len(messages[convs[i]]) <= limit) => Latest(convs, limit)
  <2>1. /\ Listing(Len(convs), convs)
        /\ ListOf(convs, ConversationsOf(u), n)
        /\ driver = "postgres" =>
             \A t \in ConversationsOf(u) \ ToSet(convs), c \in ToSet(convs) :
               conversations[t].updated < conversations[c].updated
    BY ListingOk
  <2>2. ASSUME NEW limit \in 1..LastWrite, \A i \in DOMAIN convs : Len(messages[convs[i]]) <= limit
        PROVE  Latest(convs, limit)
    BY <2>1, <2>2, LatestOk
  <2> HIDE DEF Latest
  <2>3. QED
    BY <2>1, <2>2
<1>2. QED
  BY <1>1, Zenon DEF RecentAreLatest

\* There are finitely many conversations: a step adds at most one.
LEMMA FiniteStep ==
  ASSUME RecordsTypeOK, ChatNext, IsFiniteSet(DOMAIN conversations)
  PROVE  IsFiniteSet(DOMAIN conversations')
<1>1. ASSUME NEW t \in ThreadIds, DOMAIN conversations' \subseteq DOMAIN conversations \cup {t}
      PROVE  IsFiniteSet(DOMAIN conversations')
  <2>1. IsFiniteSet(DOMAIN conversations \cup {t})
    BY FS_AddElement
  <2>2. QED
    BY <1>1, <2>1, FS_Subset
<1>2. PICK t \in ThreadIds :
        \/ \E u \in Users : \/ ReplyText(u, t) \/ ReplyTool(u, t) \/ ReplyEcho(u, t)
                            \/ CommandNew(u, t) \/ CommandSwitch(u, t)
        \/ WriteMessage(t) \/ ArchiveThread(t)
        \/ DeleteThread(t) \/ DeleteThreadEnd(t) \/ DeleteThreadFails(t)
  BY Zenon DEF ChatNext
<1>3. \/ \E u \in Users : SaveConversation(t, u)
      \/ \E hit \in BOOLEAN : StoreMessage(t, hit)
      \/ DeleteMessagesByThread(t) \/ DeleteConversation(t) \/ UNCHANGED dbVars
  BY <1>2 DEF ReplyText, ReplyTool, ReplyEcho, CommandNew, CommandSwitch, WriteMessage,
     SaveMessage, memSaveMessage, pgSaveMessage, ArchiveThread, DeleteThread, DeleteThreadEnd,
     DeleteThreadFails
<1>4. DOMAIN conversations' \subseteq DOMAIN conversations \cup {t}
  BY <1>3 DEF SaveConversation, With, StoreMessage, DeleteMessagesByThread, DeleteConversation,
     memDeleteConversation, pgDeleteConversation, Without, dbVars, chatRows
<1>5. QED
  BY <1>1, <1>4

\* For any threads, users and limits, with either driver: a deleted thread leaves only
\* what was written later, the pages of a thread hold each message once and in order,
\* and the list of latest messages is sorted and misses none of the listed
\* threads that is later (store.go, memory.go, postgres.go).
THEOREM HistoryCorrect == RecordsSpec => []HistoryInv
<1> DEFINE Ind == IsFiniteSet(DOMAIN conversations) /\ TimesApart
<1>1. RecordsInit => Ind
  <2> SUFFICES ASSUME RecordsInit PROVE Ind
    OBVIOUS
  <2>1. DOMAIN <<>> = {}
    OBVIOUS
  <2>2. DOMAIN conversations = {} /\ \A t \in ThreadIds : messages[t] = <<>>
    BY <2>1 DEF RecordsInit, DbInit
  <2>3. IsFiniteSet(DOMAIN conversations)
    BY <2>2, FS_EmptySet
  <2>4. TimesApart
    BY <2>1, <2>2 DEF TimesApart
  <2>5. QED
    BY <2>3, <2>4
<1>2. RecordsTypeOK /\ Ind /\ [ChatNext \/ WorkNext]_recordVars => Ind'
  <2> SUFFICES ASSUME RecordsTypeOK, Ind, [ChatNext \/ WorkNext]_recordVars PROVE Ind'
    OBVIOUS
  <2>1. CASE ChatNext
    BY <2>1, TimesStep, FiniteStep
  <2>2. CASE UNCHANGED chatRows
    BY <2>2 DEF TimesApart, chatRows
  <2>3. QED
    BY <2>1, <2>2, Apart DEF recordVars, dbVars
<1>3. RecordsTypeOK /\ Ind /\ DeletedIsGone => HistoryInv
  BY PagesOk, RecentOk DEF HistoryInv
<1>4. ThreadsInv => RecordsTypeOK
  BY DEF ThreadsInv
<1>5. QED
  BY <1>1, <1>2, <1>3, <1>4, ThreadsCorrect, DeletionsFinal, PTL DEF RecordsSpec

-----------------------------------------------------------------------------
(* Jobs, their records and the statistics.                                 *)

\* The reference of the records of a job, or of the calls outside a job.
HeldJob(k) == driver = "postgres" => (actions[k] # <<>> => k \in DOMAIN jobRows)

\* What the types say of one job.
LEMMA JobTypes ==
  ASSUME RecordsTypeOK
  PROVE  /\ \A k \in DbJobIds \cup {""} : actions[k] \in Seq(ActionRecord)
         /\ DOMAIN actions = DbJobIds \cup {""}
         /\ \A j \in DOMAIN jobRows : jobRows[j] \in DbJob /\ j \in DbJobIds
         /\ \A j \in DOMAIN called : called[j] \in ActionRecord /\ j \in DbJobIds
         /\ driver \in {"memory", "postgres"}
         /\ auditing \subseteq (DbJobIds \cup {""}) \X ActionRecord
  BY DEF RecordsTypeOK, DbTypeOK

\* A change of status is one of the row alone.
LEMMA StatusFacts ==
  ASSUME RecordsTypeOK, NEW j, NEW s, UpdateJobStatus(j, s)
  PROVE  /\ DOMAIN jobRows' = DOMAIN jobRows /\ UNCHANGED <<driver, chatRows, actions>>
         /\ \A k \in DOMAIN jobRows :
              jobRows'[k].status = IF k = j THEN s ELSE jobRows[k].status
<1>1. \A k \in DOMAIN jobRows : [jobRows[k] EXCEPT !.status = s].status = s
  BY JobTypes DEF DbJob
<1>2. QED
  BY <1>1 DEF UpdateJobStatus

\* With either driver a removed job loses its records: PostgreSQL has them only under a
\* row, with which they go.
LEMMA RemovedFacts ==
  ASSUME RecordsTypeOK, NEW j \in DbJobIds, HeldJob(j), RemoveJob(j)
  PROVE  /\ DOMAIN jobRows' = DOMAIN jobRows \ {j}
         /\ \A k \in DOMAIN jobRows : k # j => jobRows'[k] = jobRows[k]
         /\ actions'[j] = <<>> /\ \A k \in DbJobIds \cup {""} : k # j => actions'[k] = actions[k]
         /\ driver' = driver /\ UNCHANGED auditVars
<1>1. jobRows' = Without(jobRows, j) /\ driver' = driver /\ UNCHANGED auditVars
  BY DEF RemoveJob, memDeleteJob, pgDeleteJob
<1>2. /\ DOMAIN jobRows' = DOMAIN jobRows \ {j}
      /\ \A k \in DOMAIN jobRows : k # j => jobRows'[k] = jobRows[k]
  BY <1>1 DEF Without
<1>3. actions' = [actions EXCEPT ![j] = <<>>]
  BY DEF RemoveJob, memDeleteJob, pgDeleteJob
<1>4. QED
  BY <1>1, <1>2, <1>3, JobTypes

\* An audit appends to the records of its call's job, unless PostgreSQL finds no job.
LEMMA AuditFacts ==
  ASSUME RecordsTypeOK, NEW a \in auditing, Audit(a)
  PROVE  /\ a = <<a[1], a[2]>> /\ a[1] \in DbJobIds \cup {""} /\ a[2] \in ActionRecord
         /\ \/ actions'[a[1]] = Append(actions[a[1]], a[2])
            \/ driver = "postgres" /\ a[1] \notin DOMAIN jobRows /\ actions'[a[1]] = actions[a[1]]
         /\ driver = "postgres" /\ a[1] \notin DOMAIN jobRows => actions'[a[1]] = actions[a[1]]
         /\ \A k \in DbJobIds \cup {""} : k # a[1] => actions'[k] = actions[k]
         /\ auditing' = auditing \ {a} /\ UNCHANGED <<driver, jobRows, stage, called, dropped>>
<1>1. a = <<a[1], a[2]>> /\ a[1] \in DbJobIds \cup {""} /\ a[2] \in ActionRecord
  <2>1. a \in (DbJobIds \cup {""}) \X ActionRecord
    BY JobTypes, Zenon
  <2>2. QED
    <3> DEFINE ids == DbJobIds \cup {""}
    <3> HIDE DEF ids
    <3>1. a \in ids \X ActionRecord
      BY <2>1 DEF ids
    <3>2. a = <<a[1], a[2]>> /\ a[1] \in ids /\ a[2] \in ActionRecord
      BY <3>1, PairFacts
    <3>3. QED
      BY <3>2 DEF ids
<1>2. /\ SaveActionRecord(a[1], a[2]) /\ auditing' = auditing \ {a}
      /\ UNCHANGED <<stage, called, dropped>>
  BY DEF Audit
<1>3. UNCHANGED <<driver, jobRows>>
  BY <1>2 DEF SaveActionRecord, memSaveActionRecord, pgSaveActionRecord
<1>4. /\ \A k \in DbJobIds \cup {""} : k # a[1] => actions'[k] = actions[k]
      /\ driver = "postgres" /\ a[1] \notin DOMAIN jobRows => actions'[a[1]] = actions[a[1]]
      /\ driver # "postgres" \/ a[1] \in DOMAIN jobRows =>
           actions'[a[1]] = Append(actions[a[1]], a[2])
  BY <1>1, <1>2, JobTypes DEF SaveActionRecord, memSaveActionRecord, pgSaveActionRecord
<1>5. QED
  BY <1>1, <1>2, <1>3, <1>4

\* The record of each job, and the reference of every record, step by step
\* (worker.go, dispatch.go).
LEMMA RecordStep ==
  ASSUME RecordsTypeOK, WorkNext, \A x \in DbJobIds : OneRecord(x),
         \A k \in DbJobIds \cup {""} : HeldJob(k), IsFiniteSet(DOMAIN jobRows)
  PROVE  /\ \A x \in DbJobIds : OneRecord(x)'
         /\ \A k \in DbJobIds \cup {""} : HeldJob(k)'
         /\ IsFiniteSet(DOMAIN jobRows')
<1> DEFINE Goal == /\ \A x \in DbJobIds : OneRecord(x)'
                   /\ \A k \in DbJobIds \cup {""} : HeldJob(k)'
                   /\ IsFiniteSet(DOMAIN jobRows')
<1>1. DOMAIN jobRows \subseteq DbJobIds /\ DOMAIN stage \subseteq DbJobIds
  BY DEF RecordsTypeOK, DbTypeOK
<1>2. ASSUME NEW j \in DbJobIds, NEW u \in Users, Submit(j, u) PROVE Goal
  <2>1. /\ j \notin DOMAIN stage /\ stage' = With(stage, j, "polled")
        /\ jobRows' = With(jobRows, j, [user |-> u, status |-> "pending"])
        /\ UNCHANGED <<called, auditing, dropped, driver, actions>>
    BY <1>2 DEF Submit, SaveJob
  <2>2. /\ DOMAIN stage' = DOMAIN stage \cup {j} /\ DOMAIN jobRows' = DOMAIN jobRows \cup {j}
        /\ stage'[j] = "polled" /\ jobRows'[j].status = "pending"
        /\ \A k \in DOMAIN jobRows : k # j => jobRows'[k] = jobRows[k]
        /\ \A k \in DOMAIN stage : k # j => stage'[k] = stage[k]
    BY <2>1 DEF With
  <2>3. ASSUME NEW x \in DbJobIds PROVE OneRecord(x)'
    <3>1. OneRecord(x)
      OBVIOUS
    <3>2. CASE x = j
      BY <2>1, <2>2, <3>1, <3>2 DEF OneRecord
    <3>3. CASE x # j
      BY <2>1, <2>2, <3>1, <3>3 DEF OneRecord
    <3>4. QED
      BY <3>2, <3>3
  <2>4. \A k \in DbJobIds \cup {""} : HeldJob(k)'
    BY <2>1, <2>2 DEF HeldJob
  <2>5. IsFiniteSet(DOMAIN jobRows')
    <3>1. IsFiniteSet(DOMAIN jobRows \cup {j})
      BY FS_AddElement
    <3>2. QED
      BY <2>2, <3>1
  <2>6. QED
    BY <2>3, <2>4, <2>5
<1>3. ASSUME NEW j \in DbJobIds, RunJob(j) \/ JobEnds(j) \/ JobRefused(j) PROVE Goal
  <2>1. PICK s \in JobStatus :
          /\ UpdateJobStatus(j, s)
          /\ s = "completed" => stage[j] = "called" /\ ~called[j].failed
    BY <1>3 DEF RunJob, JobEnds, JobRefused, JobStatus
  <2>2. /\ j \in DOMAIN stage /\ UNCHANGED <<called, auditing, dropped>> /\ stage[j] # "ended"
        /\ \/ stage[j] # "called" /\ stage' = [stage EXCEPT ![j] = "running"]
           \/ stage' = [stage EXCEPT ![j] = "ended"]
    BY <1>3 DEF RunJob, JobEnds, JobRefused
  <2>3. /\ DOMAIN jobRows' = DOMAIN jobRows /\ UNCHANGED <<driver, actions>>
        /\ \A k \in DOMAIN jobRows : jobRows'[k].status = IF k = j THEN s ELSE jobRows[k].status
    BY <2>1, StatusFacts
  <2>4. ASSUME NEW x \in DbJobIds PROVE OneRecord(x)'
    <3>1. OneRecord(x) /\ OneRecord(j)
      OBVIOUS
    <3>2. CASE x = j
      <4>1. DOMAIN stage' = DOMAIN stage /\ stage'[j] \in {"running", "ended"}
        BY <2>2
      <4>2. j \in DOMAIN called => stage'[j] = "ended"
        BY <2>2, <3>1 DEF OneRecord
      <4>3. j \in DOMAIN jobRows' /\ jobRows'[j].status = "completed" =>
              j \in DOMAIN called /\ ~called[j].failed
        BY <2>1, <2>2, <2>3, <3>1 DEF OneRecord
      <4>4. QED
        BY <2>2, <2>3, <3>1, <3>2, <4>1, <4>2, <4>3 DEF OneRecord
    <3>3. CASE x # j
      <4>1. DOMAIN stage' = DOMAIN stage /\ (x \in DOMAIN stage => stage'[x] = stage[x])
        BY <2>2, <3>3
      <4>2. QED
        BY <2>2, <2>3, <3>1, <3>3, <4>1 DEF OneRecord
    <3>4. QED
      BY <3>2, <3>3
  <2>5. \A k \in DbJobIds \cup {""} : HeldJob(k)'
    BY <2>3 DEF HeldJob
  <2>6. QED
    BY <2>3, <2>4, <2>5
<1>4. ASSUME NEW j \in DbJobIds, RemoveJob(j) PROVE Goal
  <2>1. HeldJob(j)
    OBVIOUS
  <2>2. /\ DOMAIN jobRows' = DOMAIN jobRows \ {j}
        /\ \A k \in DOMAIN jobRows : k # j => jobRows'[k] = jobRows[k]
        /\ actions'[j] = <<>>
        /\ \A k \in DbJobIds \cup {""} : k # j => actions'[k] = actions[k]
        /\ UNCHANGED <<driver, stage, called, auditing, dropped>>
    BY <1>4, <2>1, RemovedFacts DEF auditVars
  <2>3. ASSUME NEW x \in DbJobIds PROVE OneRecord(x)'
    <3>1. OneRecord(x)
      OBVIOUS
    <3>2. CASE x = j
      BY <2>2, <3>1, <3>2 DEF OneRecord
    <3>3. CASE x # j
      BY <2>2, <3>1, <3>3 DEF OneRecord
    <3>4. QED
      BY <3>2, <3>3
  <2>4. \A k \in DbJobIds \cup {""} : HeldJob(k)'
    BY <2>2 DEF HeldJob
  <2>5. IsFiniteSet(DOMAIN jobRows')
    BY <2>2, FS_RemoveElement
  <2>6. QED
    BY <2>3, <2>4, <2>5
<1>5. ASSUME NEW j \in DbJobIds, NEW rec \in ActionRecord, Dispatched(j, rec) PROVE Goal
  <2>1. /\ j \in DOMAIN stage /\ stage[j] = "running" /\ stage' = [stage EXCEPT ![j] = "called"]
        /\ called' = With(called, j, rec) /\ auditing' = auditing \cup {<<j, rec>>}
        /\ UNCHANGED <<driver, jobRows, actions, dropped>>
    BY <1>5 DEF Dispatched, dbVars, workRows
  <2>2. /\ DOMAIN called' = DOMAIN called \cup {j} /\ called'[j] = rec
        /\ \A k \in DOMAIN called : k # j => called'[k] = called[k]
        /\ DOMAIN stage' = DOMAIN stage /\ stage'[j] = "called"
        /\ \A k \in DOMAIN stage : k # j => stage'[k] = stage[k]
    BY <2>1 DEF With
  <2>3. ASSUME NEW x \in DbJobIds PROVE OneRecord(x)'
    <3>1. OneRecord(x) /\ OneRecord(j)
      OBVIOUS
    <3>2. j \notin DOMAIN called
      BY <2>1, <3>1 DEF OneRecord
    <3>3. CASE x = j
      <4>1. actions[j] = <<>> /\ j \notin dropped /\ \A r \in ActionRecord : <<j, r>> \notin auditing
        BY <3>1, <3>2 DEF OneRecord
      <4>2. j \in DOMAIN jobRows => jobRows[j].status # "completed"
        BY <3>1, <3>2 DEF OneRecord
      <4>3. \A r \in ActionRecord : <<j, r>> \in auditing' => r = rec
        BY <2>1, <4>1
      <4>4. <<j, rec>> \in auditing'
        BY <2>1
      <4>5. QED
        BY <2>1, <2>2, <3>3, <4>1, <4>2, <4>3, <4>4 DEF OneRecord
    <3>4. CASE x # j
      <4>1. \A r : <<x, r>> \in auditing' <=> <<x, r>> \in auditing
        BY <2>1, <3>4
      <4>2. QED
        BY <2>1, <2>2, <3>1, <3>4, <4>1 DEF OneRecord
    <3>5. QED
      BY <3>3, <3>4
  <2>4. \A k \in DbJobIds \cup {""} : HeldJob(k)'
    BY <2>1 DEF HeldJob
  <2>5. QED
    BY <2>1, <2>3, <2>4
<1>6. ASSUME NEW rec \in ActionRecord, AgentCall(rec) PROVE Goal
  <2>1. /\ auditing' = auditing \cup {<<"", rec>>}
        /\ UNCHANGED <<driver, jobRows, actions, stage, called, dropped>>
    BY <1>6 DEF AgentCall, dbVars, workRows
  <2>2. ASSUME NEW x \in DbJobIds PROVE OneRecord(x)'
    <3>1. OneRecord(x) /\ x # ""
      BY DatabaseAssumption
    <3>2. \A r : <<x, r>> \in auditing' <=> <<x, r>> \in auditing
      BY <2>1, <3>1
    <3>3. QED
      BY <2>1, <3>1, <3>2 DEF OneRecord
  <2>3. \A k \in DbJobIds \cup {""} : HeldJob(k)'
    BY <2>1 DEF HeldJob
  <2>4. QED
    BY <2>1, <2>2, <2>3
<1>7. ASSUME NEW a \in auditing, Audit(a) PROVE Goal
  <2> DEFINE k == a[1]
             rec == a[2]
  <2>1. /\ a = <<k, rec>> /\ k \in DbJobIds \cup {""} /\ rec \in ActionRecord
        /\ actions'[k] = Append(actions[k], rec) \/ k \notin DOMAIN jobRows
        /\ driver = "postgres" /\ k \notin DOMAIN jobRows => actions'[k] = actions[k]
        /\ \A x \in DbJobIds \cup {""} : x # k => actions'[x] = actions[x]
        /\ auditing' = auditing \ {a} /\ UNCHANGED <<driver, jobRows, stage, called, dropped>>
    BY <1>7, AuditFacts
  <2> HIDE DEF k, rec
  <2>2. ASSUME NEW x \in DbJobIds PROVE OneRecord(x)'
    <3>1. OneRecord(x)
      OBVIOUS
    <3>2. CASE x = k
      <4>1. x \in DOMAIN called /\ called[x] = rec /\ actions[x] = <<>> /\ x \notin dropped
        BY <1>7, <2>1, <3>1, <3>2 DEF OneRecord
      <4>2. x \in DOMAIN jobRows => actions'[x] = <<rec>>
        BY <2>1, <3>2, <4>1, OneElement
      <4>3. <<x, rec>> \notin auditing' /\ auditing' \subseteq auditing
        BY <2>1, <3>2
      <4>4. QED
        BY <2>1, <3>1, <4>1, <4>2, <4>3 DEF OneRecord
    <3>3. CASE x # k
      <4>1. \A r : <<x, r>> \in auditing' <=> <<x, r>> \in auditing
        BY <2>1, <3>3
      <4>2. QED
        BY <2>1, <3>1, <3>3, <4>1 DEF OneRecord
    <3>4. QED
      BY <3>2, <3>3
  <2>3. \A x \in DbJobIds \cup {""} : HeldJob(x)'
    BY <2>1 DEF HeldJob
  <2>4. QED
    BY <2>1, <2>2, <2>3
<1>8. ASSUME NEW a \in auditing, AuditFails(a) PROVE Goal
  <2> DEFINE k == a[1]
             rec == a[2]
  <2>1. /\ driver = "postgres" /\ auditing' = auditing \ {a} /\ dropped' = dropped \cup {k}
        /\ UNCHANGED <<driver, jobRows, actions, stage, called>>
    BY <1>8 DEF AuditFails, dbVars, workRows
  <2>2. a = <<k, rec>> /\ rec \in ActionRecord
    <3> DEFINE ids == DbJobIds \cup {""}
    <3> HIDE DEF ids
    <3>1. a \in ids \X ActionRecord
      BY JobTypes, Zenon DEF ids
    <3>2. QED
      BY <3>1, PairFacts
  <2> HIDE DEF k, rec
  <2>3. ASSUME NEW x \in DbJobIds PROVE OneRecord(x)'
    <3>1. OneRecord(x)
      OBVIOUS
    <3>2. CASE x = k
      <4>1. x \in DOMAIN called /\ called[x] = rec /\ actions[x] = <<>>
        BY <1>8, <2>2, <3>1, <3>2 DEF OneRecord
      <4>2. <<x, rec>> \notin auditing' /\ auditing' \subseteq auditing /\ x \in dropped'
        BY <2>1, <2>2, <3>2
      <4>3. QED
        BY <2>1, <3>1, <4>1, <4>2 DEF OneRecord
    <3>3. CASE x # k
      <4>1. /\ \A r : <<x, r>> \in auditing' <=> <<x, r>> \in auditing
            /\ x \in dropped' <=> x \in dropped
        BY <2>1, <2>2, <3>3
      <4>2. QED
        BY <2>1, <3>1, <3>3, <4>1 DEF OneRecord
    <3>4. QED
      BY <3>2, <3>3
  <2>4. \A x \in DbJobIds \cup {""} : HeldJob(x)'
    BY <2>1 DEF HeldJob
  <2>5. QED
    BY <2>1, <2>3, <2>4
<1>9. Goal
  BY <1>2, <1>3, <1>4, <1>5, <1>6, <1>7, <1>8, Zenon DEF WorkNext
<1>10. QED
  BY <1>9

\* There are as many first records as jobs.
LEMMA FirstRecords ==
  ASSUME NEW S, IsFiniteSet(S)
  PROVE  Cardinality({<<j, 1>> : j \in S}) = Cardinality(S)
<1> DEFINE T == {<<j, 1>> : j \in S}
           f == [j \in S |-> <<j, 1>>]
<1>1. f \in [S -> T] /\ \A j \in S : f[j] = <<j, 1>>
  OBVIOUS
<1>2. \A i, j \in S : f[i] = f[j] => i = j
  BY <1>1
<1>3. \A p \in T : \E j \in S : f[j] = p
  OBVIOUS
<1> HIDE DEF f
<1>4. f \in Injection(S, T) /\ f \in Surjection(S, T)
  BY <1>1, <1>2, <1>3 DEF Injection, IsInjective, Surjection
<1>5. ExistsBijection(S, T)
  BY <1>4 DEF ExistsBijection, Bijection
<1>6. QED
  BY <1>5, FS_Bijection

\* Of a listed job the statistics see the record of its call, if it has been saved.
LEMMA RecordsOfJob ==
  ASSUME RecordsTypeOK, NEW j \in DOMAIN jobRows, OneRecord(j)
  PROVE  IF j \in DOMAIN called /\ <<j, called[j]>> \notin auditing /\ j \notin dropped
         THEN DOMAIN actions[j] = {1} /\ actions[j][1] = called[j]
         ELSE DOMAIN actions[j] = {}
<1>1. DOMAIN <<>> = {}
  OBVIOUS
<1>2. \A r : DOMAIN <<r>> = {1} /\ <<r>>[1] = r
  OBVIOUS
<1>3. CASE j \in DOMAIN called /\ <<j, called[j]>> \notin auditing /\ j \notin dropped
  <2>1. actions[j] = <<called[j]>>
    BY <1>3 DEF OneRecord
  <2>2. QED
    BY <1>2, <1>3, <2>1
<1>4. CASE ~(j \in DOMAIN called /\ <<j, called[j]>> \notin auditing /\ j \notin dropped)
  <2>1. actions[j] = <<>>
    BY <1>4 DEF OneRecord
  <2>2. QED
    BY <1>1, <1>4, <2>1
<1>5. QED
  BY <1>3, <1>4

\* The records and the failures that GetToolStats counts are those of the jobs whose
\* call was of the tool and has been saved (analytics.go).
LEMMA ToolCounts ==
  ASSUME RecordsTypeOK, \A j \in DbJobIds : OneRecord(j), IsFiniteSet(DOMAIN jobRows),
         NEW jobs, ToSet(jobs) \subseteq DOMAIN jobRows, NEW tool \in ToolNames
  PROVE  LET done == {j \in ToSet(jobs) \cap DOMAIN called :
                        called[j].tool = tool /\ <<j, called[j]>> \notin auditing
                        /\ j \notin dropped}
         IN GetToolStats(jobs, tool) =
              [total |-> Cardinality(done),
               success |-> Cardinality({j \in done : ~called[j].failed}),
               failed |-> Cardinality({j \in done : called[j].failed})]
<1> DEFINE S == ToSet(jobs)
           done == {j \in S \cap DOMAIN called :
                      called[j].tool = tool /\ <<j, called[j]>> \notin auditing /\ j \notin dropped}
           good == {j \in done : ~called[j].failed}
           bad == {j \in done : called[j].failed}
           recs == ToolRecords(jobs, tool)
           failures == {r \in recs : actions[r[1]][r[2]].failed}
<1>1. S \subseteq DOMAIN jobRows
  OBVIOUS
<1>2. ASSUME NEW j \in S
      PROVE  IF j \in DOMAIN called /\ <<j, called[j]>> \notin auditing /\ j \notin dropped
             THEN DOMAIN actions[j] = {1} /\ actions[j][1] = called[j]
             ELSE DOMAIN actions[j] = {}
  <2>1. j \in DOMAIN jobRows /\ OneRecord(j)
    BY <1>1, JobTypes
  <2>2. QED
    BY <2>1, RecordsOfJob
<1>3. \A p : p \in recs <=> \E j \in S : \E i \in DOMAIN actions[j] :
               actions[j][i].tool = tool /\ p = <<j, i>>
  <2> DEFINE Of(j) == {<<j, i>> : i \in {i \in DOMAIN actions[j] : actions[j][i].tool = tool}}
  <2>1. recs = UNION {Of(j) : j \in S}
    BY DEF ToolRecords
  <2>2. \A j : \A p : p \in Of(j) <=> \E i \in DOMAIN actions[j] :
                  actions[j][i].tool = tool /\ p = <<j, i>>
    OBVIOUS
  <2> HIDE DEF Of, recs
  <2>3. \A p : p \in recs <=> \E j \in S : p \in Of(j)
    BY <2>1
  <2>4. QED
    BY <2>2, <2>3
<1>4. \A j \in done : j \in S /\ DOMAIN actions[j] = {1}
                      /\ actions[j][1] = called[j] /\ called[j].tool = tool
  BY <1>2
<1>5. ASSUME NEW j \in S, NEW i \in DOMAIN actions[j], actions[j][i].tool = tool
      PROVE  j \in done /\ i = 1
  BY <1>2, <1>5
<1> HIDE DEF recs
<1>6. recs = {<<j, 1>> : j \in done}
  <2>1. ASSUME NEW p \in recs PROVE p \in {<<j, 1>> : j \in done}
    <3>1. PICK j \in S : \E i \in DOMAIN actions[j] :
                 actions[j][i].tool = tool /\ p = <<j, i>>
      BY <1>3, <2>1
    <3>2. j \in done /\ p = <<j, 1>>
      BY <1>5, <3>1
    <3> HIDE DEF done
    <3>3. QED
      BY <3>2
  <2>2. ASSUME NEW j \in done PROVE <<j, 1>> \in recs
    BY <1>3, <1>4
  <2> HIDE DEF done
  <2>3. QED
    BY <2>1, <2>2
<1>7. good = done \ bad /\ bad \subseteq done
  OBVIOUS
<1>8. \A j \in done : actions[<<j, 1>>[1]][<<j, 1>>[2]].failed <=> j \in bad
  BY <1>4
<1> HIDE DEF bad, good, done
<1>9. failures = {<<j, 1>> : j \in bad}
  <2>1. ASSUME NEW p \in failures PROVE p \in {<<j, 1>> : j \in bad}
    BY <1>6, <1>8, <2>1
  <2>2. ASSUME NEW j \in bad PROVE <<j, 1>> \in failures
    BY <1>6, <1>7, <1>8
  <2> HIDE DEF failures
  <2>3. QED
    BY <2>1, <2>2
<1>10. recs \ failures = {<<j, 1>> : j \in good}
  <2> HIDE DEF failures
  <2>1. QED
    BY <1>6, <1>7, <1>9
<1>11. IsFiniteSet(done) /\ IsFiniteSet(bad) /\ IsFiniteSet(good)
  <2>1. IsFiniteSet(done)
    <3>1. done \in SUBSET DOMAIN jobRows
      BY <1>1 DEF done
    <3>2. QED
      BY <3>1, FS_Subset
  <2>2. QED
    BY <1>7, <2>1, FS_Subset
<1>12. /\ Cardinality(recs) = Cardinality(done)
       /\ Cardinality(failures) = Cardinality(bad)
       /\ Cardinality(recs \ failures) = Cardinality(good)
  <2> HIDE DEF failures
  <2>1. QED
    BY <1>6, <1>9, <1>10, <1>11, FirstRecords
<1>13. GetToolStats(jobs, tool) = [total |-> Cardinality(recs), success |-> Cardinality(recs \ failures),
                             failed |-> Cardinality(failures)]
  BY DEF GetToolStats, recs
<1> HIDE DEF failures
<1>14. GetToolStats(jobs, tool) = [total |-> Cardinality(done), success |-> Cardinality(good),
                             failed |-> Cardinality(bad)]
  BY <1>12, <1>13
<1>15. QED
  BY <1>14 DEF done, good, bad

\* A job ends once: completed and failed jobs are different ones of the list.
LEMMA JobCounts ==
  ASSUME NEW jobs, Len(jobs) \in Nat, DOMAIN jobs = 1..Len(jobs)
  PROVE  GetJobStats(jobs).completed + GetJobStats(jobs).failed <= GetJobStats(jobs).total
<1> DEFINE J == DOMAIN jobs
           C == {i \in J : jobRows[jobs[i]].status = "completed"}
           F == {i \in J : jobRows[jobs[i]].status = "failed"}
           e == Len(jobs)
<1>1. IsFiniteSet(J) /\ Cardinality(J) = e
  <2>1. 1 \in Int /\ e \in Int /\ J = 1..e
    OBVIOUS
  <2> HIDE DEF J, e
  <2>2. IsFiniteSet(1..e) /\ Cardinality(1..e) = IF 1 > e THEN 0 ELSE e - 1 + 1
    BY <2>1, FS_Interval
  <2>3. e \in Nat
    BY DEF e
  <2>4. QED
    BY <2>1, <2>2, <2>3
<1>2. /\ GetJobStats(jobs).completed = Cardinality(C) /\ GetJobStats(jobs).failed = Cardinality(F)
      /\ GetJobStats(jobs).total = e
  BY DEF GetJobStats
<1>3. C \in SUBSET J /\ F \in SUBSET J /\ C \cap F = {} /\ C \cup F \in SUBSET J
  OBVIOUS
<1> HIDE DEF C, F, J, e
<1>4. IsFiniteSet(C) /\ IsFiniteSet(F) /\ Cardinality(C \cup F) <= Cardinality(J)
  BY <1>1, <1>3, FS_Subset
<1>5. Cardinality(C \cup F) = Cardinality(C) + Cardinality(F) - Cardinality(C \cap F)
  BY <1>4, FS_Union
<1>6. Cardinality(C \cap F) = 0
  BY <1>3, FS_EmptySet
<1>7. /\ Cardinality(C) \in Nat /\ Cardinality(F) \in Nat /\ Cardinality(J) \in Nat
  BY <1>1, <1>4, FS_CardinalityType
<1>8. QED
  BY <1>1, <1>2, <1>4, <1>5, <1>6, <1>7

\* What the statistics ask for is a list of the jobs (ListJobs).
LEMMA JobsListed ==
  ASSUME IsFiniteSet(DOMAIN jobRows), NEW n \in 1..JobLimit, NEW jobs \in ListJobs("", n, 0)
  PROVE  /\ ListOf(jobs, DOMAIN jobRows, n)
         /\ Len(jobs) \in Nat /\ DOMAIN jobs = 1..Len(jobs)
<1> DEFINE own == DOMAIN jobRows
<1>1. n \in Nat \ {0} /\ ~(n <= 0)
  <2>1. JobLimit \in Nat
    BY RecordsAssumption
  <2>2. QED
    BY <2>1, LimitFacts
<1>2. JobsOf("") = own
  BY DEF JobsOf
<1>3. PICK list \in SetToSeqs(own) : jobs = memPage(list, n, 0)
  BY <1>1, <1>2 DEF ListJobs
<1> HIDE DEF own
<1>4. ListOf(jobs, own, n) /\ Len(jobs) \in Nat /\ jobs \in [1..Len(jobs) -> own]
  <2>1. IsFiniteSet(own)
    BY DEF own
  <2>2. QED
    BY <1>1, <1>3, <2>1, FirstOfList
<1>5. QED
  BY <1>4 DEF own

\* The trail of a completed job and both statistics follow from the record of each job
\* (dispatch.go, analytics.go).
LEMMA TrailFromRecords ==
  ASSUME RecordsTypeOK, \A j \in DbJobIds : OneRecord(j), IsFiniteSet(DOMAIN jobRows)
  PROVE  AuditTrail
<1>1. ASSUME NEW j \in DOMAIN jobRows, jobRows[j].status = "completed"
      PROVE  \/ \E i \in DOMAIN actions[j] : ~actions[j][i].failed
             \/ \E a \in auditing : a[1] = j
             \/ j \in dropped
  <2>1. OneRecord(j)
    BY JobTypes
  <2>2. j \in DOMAIN called /\ ~called[j].failed
    BY <1>1, <2>1 DEF OneRecord
  <2>3. CASE <<j, called[j]>> \in auditing
    <3>1. <<j, called[j]>>[1] = j
      OBVIOUS
    <3>2. QED
      BY <2>3, <3>1
  <2>4. CASE <<j, called[j]>> \notin auditing /\ j \notin dropped
    BY <2>1, <2>2, <2>4, RecordsOfJob
  <2>5. QED
    BY <2>3, <2>4
<1>2. ASSUME NEW n \in 1..JobLimit, NEW jobs \in ListJobs("", n, 0)
      PROVE  ListOf(jobs, DOMAIN jobRows, n) /\ StatisticsOf(jobs)
  <2>1. /\ ListOf(jobs, DOMAIN jobRows, n)
        /\ Len(jobs) \in Nat /\ DOMAIN jobs = 1..Len(jobs)
    BY JobsListed
  <2>2. ToSet(jobs) \subseteq DOMAIN jobRows
    BY <2>1 DEF ListOf
  <2>3. GetJobStats(jobs).completed + GetJobStats(jobs).failed <= GetJobStats(jobs).total
    BY <2>1, JobCounts
  <2>4. QED
    BY <2>1, <2>2, <2>3, ToolCounts DEF StatisticsOf
<1>3. QED
  BY <1>1, <1>2 DEF AuditTrail

\* For any users, jobs, tools and limits, with either driver: in PostgreSQL no row
\* outlives the one it belongs to; a completed job has its record, an audit under way
\* or one that failed, which only PostgreSQL's do; and the statistics count each of the
\* jobs they list, and each saved record of those, once (postgres.go, memory.go,
\* dispatch.go, analytics.go).
THEOREM RowsCorrect == RecordsSpec => []RowsInv
<1> DEFINE Ind == /\ RecordsTypeOK /\ TurnsKept
                  /\ \A t \in ThreadIds : Gone(t) /\ Held(t)
                  /\ \A j \in DbJobIds : OneRecord(j)
                  /\ \A k \in DbJobIds \cup {""} : HeldJob(k)
                  /\ IsFiniteSet(DOMAIN jobRows)
<1>1. RecordsInit => Ind
  <2> SUFFICES ASSUME RecordsInit PROVE Ind
    OBVIOUS
  <2>1. DOMAIN <<>> = {} /\ Len(<<>>) = 0
    OBVIOUS
  <2>2. TurnsKept
    BY <2>1, RecordsAssumption DEF RecordsInit, TurnsKept, LatestTurns
  <2>3. /\ writes = 0 /\ DOMAIN conversations = {}
        /\ \A t \in ThreadIds : erased[t] = 0 /\ messages[t] = <<>>
    BY <2>1 DEF RecordsInit, DbInit
  <2>4. \A t \in ThreadIds : Gone(t) /\ Held(t)
    BY <2>1, <2>3 DEF Gone, Held
  <2>5. /\ DOMAIN jobRows = {} /\ DOMAIN stage = {} /\ DOMAIN called = {} /\ auditing = {}
        /\ dropped = {}
        /\ \A k \in DbJobIds \cup {""} : actions[k] = <<>>
    BY <2>1 DEF RecordsInit, DbInit
  <2>6. \A j \in DbJobIds : OneRecord(j)
    BY <2>5 DEF OneRecord
  <2>7. \A k \in DbJobIds \cup {""} : HeldJob(k)
    BY <2>5 DEF HeldJob
  <2>8. IsFiniteSet(DOMAIN jobRows)
    BY <2>5, FS_EmptySet
  <2>9. QED
    BY <2>2, <2>4, <2>6, <2>7, <2>8, RecordsTypeInit
<1>2. Ind /\ [ChatNext \/ WorkNext]_recordVars => Ind'
  <2> SUFFICES ASSUME Ind, [ChatNext \/ WorkNext]_recordVars PROVE Ind'
    OBVIOUS
  <2>1. ASSUME driver' = driver, UNCHANGED <<workRows, auditVars>>
        PROVE  /\ \A j \in DbJobIds : OneRecord(j)'
               /\ \A k \in DbJobIds \cup {""} : HeldJob(k)'
               /\ IsFiniteSet(DOMAIN jobRows')
    BY <2>1 DEF OneRecord, HeldJob, workRows, auditVars
  <2>2. ASSUME driver' = driver, UNCHANGED <<chatRows, sessionVars, deleteVars>>
        PROVE  TurnsKept' /\ \A t \in ThreadIds : Gone(t)' /\ Held(t)'
    BY <2>2 DEF TurnsKept, LatestTurns, Gone, Held, chatRows, sessionVars, deleteVars
  <2>3. CASE ChatNext
    <3>1. RecordsTypeOK' /\ TurnsKept' /\ \A t \in ThreadIds : Gone(t)' /\ Held(t)'
      BY <2>3, ChatTypeStep, GoneStep
    <3>2. QED
      BY <2>1, <2>3, <3>1, Apart
  <2>4. CASE WorkNext
    <3>1. /\ \A j \in DbJobIds : OneRecord(j)'
          /\ \A k \in DbJobIds \cup {""} : HeldJob(k)'
          /\ IsFiniteSet(DOMAIN jobRows')
      BY <2>4, RecordStep
    <3>2. QED
      BY <2>2, <2>4, <3>1, Apart, WorkTypeStep
  <2>5. CASE UNCHANGED recordVars
    BY <2>1, <2>2, <2>5, RecordsTypeStutter DEF recordVars, dbVars
  <2>6. QED
    BY <2>3, <2>4, <2>5
<1>3. Ind => RowsInv
  BY TrailFromRecords DEF RowsInv, NoOrphanRows, Held, HeldJob
<1>4. QED
  BY <1>1, <1>2, <1>3, PTL DEF RecordsSpec
=============================================================================
