-------------------------- MODULE ApprovalLifecycle --------------------------
(***************************************************************************)
(* What the approval store promises its two users, the agent that asks and *)
(* the gateway that answers, without its maps, idempotence records and     *)
(* lazy deletions.  Each thread has one slot for the request that waits    *)
(* and one for the approval that was not used yet.  A request is asked     *)
(* once, is approved at most once and only before its deadline, is         *)
(* answered either way at most once, and an approval leaves its slot for   *)
(* good when it is used or thrown away.                                    *)
(***************************************************************************)
EXTENDS Naturals

CONSTANTS Threads, Requests, TTL, None

VARIABLES now,       \* the clock
          deadline,  \* request -> last instant at which it may be approved
          waiting,   \* thread -> request that waits for an answer
          approval,  \* thread -> approved request that was not used yet
          granted,   \* requests answered "approve"
          refused    \* requests answered "deny"

vars == <<now, deadline, waiting, approval, granted, refused>>

Init ==
  /\ now = 0
  /\ deadline = [r \in Requests |-> None]
  /\ waiting = [t \in Threads |-> None]
  /\ approval = [t \in Threads |-> None]
  /\ granted = {}
  /\ refused = {}

\* A new request takes the slot of its thread, displacing what waited there.
Ask(r, t) ==
  /\ deadline[r] = None
  /\ deadline' = [deadline EXCEPT ![r] = now + TTL]
  /\ waiting' = [waiting EXCEPT ![t] = r]
  /\ UNCHANGED <<now, approval, granted, refused>>

Approve(t) ==
  /\ waiting[t] # None
  /\ waiting[t] \notin granted \cup refused
  /\ now <= deadline[waiting[t]]
  /\ approval' = [approval EXCEPT ![t] = waiting[t]]
  /\ granted' = granted \cup {waiting[t]}
  /\ waiting' = [waiting EXCEPT ![t] = None]
  /\ UNCHANGED <<now, deadline, refused>>

Refuse(t) ==
  /\ waiting[t] # None
  /\ waiting[t] \notin granted \cup refused
  /\ now <= deadline[waiting[t]]
  /\ refused' = refused \cup {waiting[t]}
  /\ waiting' = [waiting EXCEPT ![t] = None]
  /\ UNCHANGED <<now, deadline, approval, granted>>

\* Requests past their deadline may be forgotten, any number at a time.
Lapse ==
  /\ \E S \in SUBSET Threads :
       /\ \A t \in S : waiting[t] # None /\ now > deadline[waiting[t]]
       /\ waiting' = [t \in Threads |-> IF t \in S THEN None ELSE waiting[t]]
  /\ UNCHANGED <<now, deadline, approval, granted, refused>>

\* An approval is used, or discarded with the execution it was meant for.
Spend(t) ==
  /\ approval[t] # None
  /\ approval' = [approval EXCEPT ![t] = None]
  /\ UNCHANGED <<now, deadline, waiting, granted, refused>>

Pass ==
  /\ now' = now + 1
  /\ UNCHANGED <<deadline, waiting, approval, granted, refused>>

Next ==
  \/ \E r \in Requests, t \in Threads : Ask(r, t)
  \/ \E t \in Threads : Approve(t) \/ Refuse(t) \/ Spend(t)
  \/ Lapse
  \/ Pass

Spec == Init /\ [][Next]_vars
=============================================================================
