----------------------------- MODULE MCRecords ------------------------------
(* Model-checking instance of the records: an execution looks at the       *)
(* conversations or at the jobs.                                           *)
EXTENDS Records

VARIABLE focus

allVars == <<focus, recordVars>>

MCInit == focus \in {"chat", "work"} /\ RecordsInit

MCNext ==
  /\ UNCHANGED focus
  /\ \/ focus = "chat" /\ ChatNext
     \/ focus = "work" /\ WorkNext

\* Nothing tells users, threads, jobs or tools apart.
MCSymmetry == Permutations(Users) \cup Permutations(ThreadIds) \cup Permutations(DbJobIds)
              \cup Permutations(ToolNames)

MCSpec == MCInit /\ [][MCNext]_allVars
=============================================================================
