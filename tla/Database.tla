------------------------------ MODULE Database ------------------------------
(***************************************************************************)
(* The persistence layer, internal/db, with its two drivers.  Each method  *)
(* of MemoryDB holds the mutex and each method of PostgresDB is one        *)
(* statement (SaveMessage adds a second one that only refreshes a time     *)
(* stamp), so a method is one step.  The drivers differ: PostgreSQL        *)
(* enforces the references of its schema and cascades deletions, orders    *)
(* its lists and replaces a missing limit by a default; the maps of        *)
(* MemoryDB do none of that, but its deletions take the dependent rows     *)
(* with them.                                                              *)
(*                                                                         *)
(* A message is its creation time and whether it matches the query         *)
(* somebody may search for.  The settings table has no user and is left    *)
(* out.                                                                    *)
(***************************************************************************)
EXTENDS Naturals, Sequences, FiniteSets, SequencesExt

CONSTANTS Users, ThreadIds, DbJobIds, ToolNames,
          LastWrite,    \* bound: writes of conversations and messages
          DefaultLimit  \* what PostgreSQL takes for a limit of 0 (100 or 1000)

ASSUME DatabaseAssumption ==
  LastWrite \in Nat /\ DefaultLimit \in Nat \ {0} /\ "" \notin DbJobIds

JobStatus == {"pending", "running", "completed", "failed"}
Message == [at : 1..LastWrite, hit : BOOLEAN]
Conversation == [user : Users, updated : 1..LastWrite]
DbJob == [user : Users, status : JobStatus]
ActionRecord == [tool : ToolNames, failed : BOOLEAN]

VARIABLES driver,         \* "memory" or "postgres"
          conversations,  \* thread -> Conversation
          messages,       \* thread -> messages, oldest first
          jobRows,        \* job -> DbJob
          actions,        \* job, or "" for a call outside a job -> action records
          writes          \* the clock of the two first tables

chatRows == <<conversations, messages, writes>>
workRows == <<jobRows, actions>>
dbVars == <<driver, chatRows, workRows>>

DbTypeOK ==
  /\ driver \in {"memory", "postgres"}
  /\ DOMAIN conversations \subseteq ThreadIds
  /\ \A t \in DOMAIN conversations : conversations[t] \in Conversation
  /\ messages \in [ThreadIds -> Seq(Message)]
  /\ DOMAIN jobRows \subseteq DbJobIds
  /\ \A j \in DOMAIN jobRows : jobRows[j] \in DbJob
  /\ actions \in [DbJobIds \cup {""} -> Seq(ActionRecord)]
  /\ writes \in 0..LastWrite

\* New.
DbInit ==
  /\ driver \in {"memory", "postgres"}
  /\ conversations = <<>>
  /\ messages = [t \in ThreadIds |-> <<>>]
  /\ jobRows = <<>>
  /\ actions = [j \in DbJobIds \cup {""} |-> <<>>]
  /\ writes = 0

With(rows, id, row) == [k \in DOMAIN rows \cup {id} |-> IF k = id THEN row ELSE rows[k]]
Without(rows, id) == [k \in DOMAIN rows \ {id} |-> rows[k]]

-----------------------------------------------------------------------------
(* Conversations and messages.                                             *)

SaveConversation(t, u) ==
  /\ writes < LastWrite
  /\ writes' = writes + 1
  /\ conversations' = With(conversations, t, [user |-> u, updated |-> writes + 1])
  /\ UNCHANGED <<driver, messages, workRows>>

\* A stored message and the refreshed conversation, if there is one.
StoreMessage(t, hit) ==
  /\ writes' = writes + 1
  /\ messages' = [messages EXCEPT ![t] = Append(@, [at |-> writes + 1, hit |-> hit])]
  /\ conversations' = [c \in DOMAIN conversations |->
                         IF c = t THEN [conversations[c] EXCEPT !.updated = writes + 1]
                         ELSE conversations[c]]
  /\ UNCHANGED <<driver, workRows>>

memSaveMessage(t, hit) == driver = "memory" /\ StoreMessage(t, hit)

\* Without its conversation a message violates the reference.
pgSaveMessage(t, hit) ==
  /\ driver = "postgres"
  /\ IF t \in DOMAIN conversations THEN StoreMessage(t, hit) ELSE UNCHANGED dbVars

SaveMessage(t, hit) ==
  writes < LastWrite /\ (memSaveMessage(t, hit) \/ pgSaveMessage(t, hit))

DeleteMessagesByThread(t) ==
  /\ messages' = [messages EXCEPT ![t] = <<>>]
  /\ UNCHANGED <<driver, conversations, writes, workRows>>

\* Fault: the messages are left to the caller, which has deleted them before.
DeleteConversationRow(t) ==
  /\ driver = "memory"
  /\ conversations' = Without(conversations, t)
  /\ UNCHANGED <<driver, messages, writes, workRows>>

memDeleteConversation(t) ==
  /\ driver = "memory"
  /\ conversations' = Without(conversations, t)
  /\ messages' = [messages EXCEPT ![t] = <<>>]
  /\ UNCHANGED <<driver, writes, workRows>>

\* ON DELETE CASCADE takes the messages, if there was a row to delete.
pgDeleteConversation(t) ==
  /\ driver = "postgres"
  /\ conversations' = Without(conversations, t)
  /\ messages' = [messages EXCEPT ![t] = IF t \in DOMAIN conversations THEN <<>> ELSE @]
  /\ UNCHANGED <<driver, writes, workRows>>

DeleteConversation(t) == memDeleteConversation(t) \/ pgDeleteConversation(t)

\* A limit of 0 is no limit.
memPage(list, limit, offset) ==
  SubSeq(list, offset + 1, IF limit <= 0 \/ offset + limit > Len(list) THEN Len(list)
                           ELSE offset + limit)

\* ORDER BY created_at; no two messages have the same time.
ByTime(list) ==
  CHOOSE s \in [DOMAIN list -> ToSet(list)] :
    \A i, k \in DOMAIN list : i < k => s[i].at < s[k].at

\* LIMIT and OFFSET; a limit of 0 is the default.
pgPage(list, limit, offset) ==
  LET size == IF limit <= 0 THEN DefaultLimit ELSE limit
  IN SubSeq(ByTime(list), offset + 1,
            IF offset + size > Len(list) THEN Len(list) ELSE offset + size)

GetMessagesByThread(t, limit, offset) ==
  IF driver = "memory" THEN memPage(messages[t], limit, offset)
  ELSE pgPage(messages[t], limit, offset)

ConversationsOf(u) == {t \in DOMAIN conversations : conversations[t].user = u}

\* The lists ListConversations may return: a page of a map in any order ...
memListConversations(u, limit, offset) ==
  {memPage(list, limit, offset) : list \in SetToSeqs(ConversationsOf(u))}

\* ORDER BY updated_at DESC.
LatestFirst(list) ==
  \A i, k \in DOMAIN list :
    i < k => conversations[list[i]].updated > conversations[list[k]].updated

\* ... or, from PostgreSQL, of the list with the latest first.
pgListConversations(u, limit, offset) ==
  {memPage(list, IF limit <= 0 THEN DefaultLimit ELSE limit, offset) :
     list \in {l \in SetToSeqs(ConversationsOf(u)) : LatestFirst(l)}}

ListConversations(u, limit, offset) ==
  IF driver = "memory" THEN memListConversations(u, limit, offset)
  ELSE pgListConversations(u, limit, offset)

-----------------------------------------------------------------------------
(* Jobs and action records.                                                *)

SaveJob(j, u) ==
  /\ jobRows' = With(jobRows, j, [user |-> u, status |-> "pending"])
  /\ UNCHANGED <<driver, chatRows, actions>>

\* Whether the update of a job that may be gone reports success.
memUpdated(j) == driver = "memory" /\ j \in DOMAIN jobRows

\* An UPDATE of no row is no error.
pgUpdated(j) == driver = "postgres"

UpdateJobStatus(j, status) ==
  /\ jobRows' = [k \in DOMAIN jobRows |->
                   IF k = j THEN [jobRows[k] EXCEPT !.status = status] ELSE jobRows[k]]
  /\ UNCHANGED <<driver, chatRows, actions>>

\* Fault: the records of the job stay.
DeleteJobRow(j) ==
  /\ driver = "postgres"
  /\ jobRows' = Without(jobRows, j)
  /\ UNCHANGED <<driver, chatRows, actions>>

memDeleteJob(j) ==
  /\ driver = "memory"
  /\ jobRows' = Without(jobRows, j)
  /\ actions' = [actions EXCEPT ![j] = <<>>]
  /\ UNCHANGED <<driver, chatRows>>

\* ON DELETE CASCADE.
pgDeleteJob(j) ==
  /\ driver = "postgres"
  /\ jobRows' = Without(jobRows, j)
  /\ actions' = [actions EXCEPT ![j] = IF j \in DOMAIN jobRows THEN <<>> ELSE @]
  /\ UNCHANGED <<driver, chatRows>>

memSaveActionRecord(j, rec) ==
  /\ driver = "memory"
  /\ actions' = [actions EXCEPT ![j] = Append(@, rec)]
  /\ UNCHANGED <<driver, chatRows, jobRows>>

\* Without its job a record violates the reference.
pgSaveActionRecord(j, rec) ==
  /\ driver = "postgres"
  /\ actions' = [actions EXCEPT ![j] = IF j \in DOMAIN jobRows THEN Append(@, rec) ELSE @]
  /\ UNCHANGED <<driver, chatRows, jobRows>>

SaveActionRecord(j, rec) == memSaveActionRecord(j, rec) \/ pgSaveActionRecord(j, rec)

JobsOf(u) == {j \in DOMAIN jobRows : u = "" \/ jobRows[j].user = u}

\* The lists ListJobs may return, of the jobs of a user or of all: a page of them in
\* any order.  PostgreSQL orders them by their creation, which nothing here tells
\* apart from another order.
ListJobs(u, limit, offset) ==
  {memPage(list, IF driver = "postgres" /\ limit <= 0 THEN DefaultLimit ELSE limit, offset) :
     list \in SetToSeqs(JobsOf(u))}
=============================================================================
