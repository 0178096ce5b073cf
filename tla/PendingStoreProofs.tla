-------------------------- MODULE PendingStoreProofs --------------------------
(***************************************************************************)
(* Proofs about the approval store for every set of threads and requests,  *)
(* every TTL and every bound on the clock.                                 *)
(***************************************************************************)
EXTENDS PendingStore, TLAPS

\* What the assumption on the absent entry gives: it is no thread, request or
\* time, and no gate.
LEMMA NoneFacts ==
  /\ None \notin Threads /\ None \notin Requests /\ None \notin Nat
  /\ None \notin PendingGate
  /\ TTL \in Nat
BY StoreAssumption DEF PendingGate

\* Create, Resolve, Deny and the other methods keep every map of the store
\* within its type.
LEMMA TypeStep == TypeOK /\ [StoreNext]_storeVars => TypeOK'
<1> SUFFICES ASSUME TypeOK, [StoreNext]_storeVars PROVE TypeOK'
  OBVIOUS
<1> USE NoneFacts DEF TypeOK, Unpend
<1>1. ASSUME NEW r \in Requests, NEW t \in Threads, NEW c \in Calls, Create(r, t, c)
      PROVE TypeOK'
  <2>1. PurgeConsumed(consumed) \in [Requests -> Nat \cup {None}]
    BY DEF PurgeConsumed
  <2>2. [thread |-> t, call |-> c, expiresAt |-> now + TTL] \in PendingGate
    BY DEF PendingGate
  <2>3. QED
    BY <1>1, <2>1, <2>2 DEF Create
<1>2. ASSUME NEW t \in Threads, Get(t) PROVE TypeOK'
  BY <1>2 DEF Get
<1>3. ASSUME NEW r \in Requests, GetByRequestID(r) PROVE TypeOK'
  BY <1>3 DEF GetByRequestID
<1>4. ASSUME NEW t \in Threads, NEW r \in Requests, Resolve(t, r) PROVE TypeOK'
  BY <1>4 DEF Resolve
<1>5. ASSUME NEW t \in Threads, NEW r \in Requests, Deny(t, r) PROVE TypeOK'
  BY <1>5 DEF Deny
<1>6. ASSUME NEW t \in Threads, ConsumeResolved(t) PROVE TypeOK'
  BY <1>6 DEF ConsumeResolved
<1>7. ASSUME NEW t \in Threads, ClearResolved(t) PROVE TypeOK'
  BY <1>7 DEF ClearResolved
<1>8. CASE List
  BY <1>8 DEF List
<1>9. CASE Tick
  BY <1>9 DEF Tick
<1>10. CASE UNCHANGED storeVars
  BY <1>10 DEF storeVars
<1>11. QED
  BY <1>1, <1>2, <1>3, <1>4, <1>5, <1>6, <1>7, <1>8, <1>9, <1>10 DEF StoreNext

\* The empty store satisfies the invariant.
LEMMA StoreInit == NewPendingStore => StoreInv
BY NoneFacts DEF NewPendingStore, StoreInv, TypeOK, IndexSound,
                 ApprovalSound, OneAnswer

\* One step of any method keeps the invariant.  The conjuncts support each
\* other: a gate overwritten in byKey keeps its byReqID entry, so IndexSound
\* is needed to know that a removal hits the gate that waits, and OneAnswer
\* to know that an approved request has no record yet.
LEMMA StoreStep == StoreInv /\ [StoreNext]_storeVars => StoreInv'
<1> SUFFICES ASSUME StoreInv, [StoreNext]_storeVars PROVE StoreInv'
  OBVIOUS
<1>0. TypeOK'
  BY TypeStep DEF StoreInv
<1> USE NoneFacts DEF StoreInv, TypeOK, IndexSound, ApprovalSound, OneAnswer
<1>1. ASSUME NEW r \in Requests, NEW t \in Threads, NEW c \in Calls, Create(r, t, c)
      PROVE StoreInv'
  <2> USE <1>1 DEF Create, Fresh
  <2>1. \A q \in Requests : consumed'[q] \in {consumed[q], None}
    BY DEF PurgeConsumed
  <2>2. gate'[r].thread = t /\ gate'[r] # None
    <3>1. [thread |-> t, call |-> c, expiresAt |-> now + TTL] \in PendingGate
      BY DEF PendingGate
    <3>2. QED
      BY <3>1
  <2>3. \A q \in Requests \ {r} : gate'[q] = gate[q]
    OBVIOUS
  <2>4. IndexSound'
    BY <2>2, <2>3
  <2>5. ApprovalSound'
    BY <2>1, <2>2, <2>3
  <2>6. OneAnswer'
    BY <2>1, <2>2, <2>3
  <2>7. QED
    BY <1>0, <2>4, <2>5, <2>6
<1>2. ASSUME NEW t \in Threads, Get(t) PROVE StoreInv'
  BY <1>0, <1>2 DEF Get, Unpend
<1>3. ASSUME NEW r \in Requests, GetByRequestID(r) PROVE StoreInv'
  BY <1>0, <1>3 DEF GetByRequestID, Unpend, GetResult
<1>4. ASSUME NEW t \in Threads, NEW r \in Requests, Resolve(t, r) PROVE StoreInv'
  <2>1. CASE /\ ResolveResult(t, r) = "live"
             /\ Unpend(t, r)
             /\ resolved' = [resolved EXCEPT ![t] = r]
             /\ granted' = granted \cup {r}
    <3>1. byKey[t] = r
      BY <2>1 DEF ResolveResult, PendingVerdict
    <3>2. QED
      BY <1>0, <1>4, <2>1, <3>1 DEF Resolve, Unpend
  <2>2. CASE /\ ResolveResult(t, r) = "expired"
             /\ Unpend(t, r)
             /\ UNCHANGED <<resolved, granted>>
    <3>1. byKey[t] = r
      BY <2>2 DEF ResolveResult, PendingVerdict
    <3>2. QED
      BY <1>0, <1>4, <2>2, <3>1 DEF Resolve, Unpend
  <2>3. CASE UNCHANGED <<byKey, byReqID, resolved, granted>>
    BY <1>0, <1>4, <2>3 DEF Resolve
  <2>4. QED
    BY <1>4, <2>1, <2>2, <2>3 DEF Resolve
<1>5. ASSUME NEW t \in Threads, NEW r \in Requests, Deny(t, r) PROVE StoreInv'
  <2>1. CASE /\ DenyResult(t, r) = "live"
             /\ Unpend(t, r)
             /\ consumed' = [consumed EXCEPT ![r] = now]
             /\ refused' = refused \cup {r}
    <3>1. byKey[t] = r
      BY <2>1 DEF DenyResult, PendingVerdict
    <3>2. QED
      BY <1>0, <1>5, <2>1, <3>1 DEF Deny, Unpend
  <2>2. CASE /\ DenyResult(t, r) = "expired"
             /\ Unpend(t, r)
             /\ UNCHANGED <<consumed, refused>>
    <3>1. byKey[t] = r
      BY <2>2 DEF DenyResult, PendingVerdict
    <3>2. QED
      BY <1>0, <1>5, <2>2, <3>1 DEF Deny, Unpend
  <2>3. CASE UNCHANGED <<byKey, byReqID, consumed, refused>>
    BY <1>0, <1>5, <2>3 DEF Deny
  <2>4. QED
    BY <1>5, <2>1, <2>2, <2>3 DEF Deny
<1>6. ASSUME NEW t \in Threads, ConsumeResolved(t) PROVE StoreInv'
  BY <1>0, <1>6 DEF ConsumeResolved
<1>7. ASSUME NEW t \in Threads, ClearResolved(t) PROVE StoreInv'
  BY <1>0, <1>7 DEF ClearResolved
<1>8. CASE List
  BY <1>0, <1>8 DEF List
<1>9. CASE Tick
  BY <1>0, <1>9 DEF Tick
<1>10. CASE UNCHANGED storeVars
  BY <1>0, <1>10 DEF storeVars
<1>11. QED
  BY <1>1, <1>2, <1>3, <1>4, <1>5, <1>6, <1>7, <1>8, <1>9, <1>10 DEF StoreNext

\* The maps of the store keep their types whatever methods are called.
THEOREM TypeCorrect == StoreSpec => []TypeOK
<1>1. NewPendingStore => TypeOK
  BY StoreInit DEF StoreInv
<1>2. QED
  BY <1>1, TypeStep, PTL DEF StoreSpec

\* Whatever is called in whatever order, a waiting gate is indexed by its own
\* request, an unused approval belongs to its thread and has not been
\* consumed, and no request is answered twice.
THEOREM StoreCorrect == StoreSpec => []StoreInv
BY StoreInit, StoreStep, PTL DEF StoreSpec

\* A waiting gate is always found under its own request id and thread.
THEOREM IndexCorrect == StoreSpec => []IndexSound
BY StoreCorrect, PTL DEF StoreInv

\* An approval that was not used yet was given, once, to its own thread.
THEOREM ApprovalCorrect == StoreSpec => []ApprovalSound
BY StoreCorrect, PTL DEF StoreInv

\* No request is both approved and denied, and none is answered twice.
THEOREM AnswerCorrect == StoreSpec => []OneAnswer
BY StoreCorrect, PTL DEF StoreInv

-----------------------------------------------------------------------------
\* Only Create forgets a consumed record, and only one older than the TTL;
\* ConsumeResolved and Deny write records of requests that had none.
THEOREM RecordsKept == StoreSpec => ConsumedRemembered
<1> DEFINE Kept == \A r \in Requests : consumed[r] # None /\ now <= consumed[r] + TTL
                      => consumed'[r] = consumed[r]
<1>1. StoreInv /\ [StoreNext]_storeVars => [Kept]_storeVars
  <2> SUFFICES ASSUME StoreInv, StoreNext PROVE Kept
    OBVIOUS
  <2> USE NoneFacts DEF StoreInv, TypeOK
  <2>1. ASSUME NEW r \in Requests, NEW t \in Threads, NEW c \in Calls, Create(r, t, c)
        PROVE Kept
    BY <2>1 DEF Create, PurgeConsumed
  <2>2. ASSUME NEW t \in Threads, NEW r \in Requests, Deny(t, r) PROVE Kept
    BY <2>2 DEF Deny, DenyResult
  <2>3. ASSUME NEW t \in Threads, ConsumeResolved(t) PROVE Kept
    BY <2>3 DEF ConsumeResolved, ApprovalSound
  <2>4. QED
    BY <2>1, <2>2, <2>3
       DEF StoreNext, Get, GetByRequestID, Resolve, ClearResolved, List, Tick
<1>2. QED
  BY <1>1, StoreCorrect, PTL DEF StoreSpec, ConsumedRemembered

-----------------------------------------------------------------------------
\* The abstract deadline of each request, as the refinement mapping gives it.
Deadlines == [r \in Requests |-> IF gate[r] = None THEN None ELSE gate[r].expiresAt]

\* Gates do not change after Create, so neither do deadlines.
LEMMA DeadlinesKept == gate' = gate => Deadlines' = Deadlines
BY DEF Deadlines

\* A gate that waits has the deadline of its request, a time.
LEMMA WaitingDeadline ==
  ASSUME StoreInv, NEW t \in Threads, byKey[t] # None
  PROVE  /\ byKey[t] \in Requests
         /\ gate[byKey[t]] \in PendingGate
         /\ Deadlines[byKey[t]] = gate[byKey[t]].expiresAt
         /\ Deadlines[byKey[t]] \in Nat
BY NoneFacts DEF StoreInv, TypeOK, IndexSound, Deadlines, PendingGate

\* Every method of the store is a step of the lifecycle or leaves it alone.
LEMMA LifecycleStep ==
  StoreInv /\ [StoreNext]_storeVars => [Lifecycle!Next]_(Lifecycle!vars)
<1> SUFFICES ASSUME StoreInv, [StoreNext]_storeVars
             PROVE [Lifecycle!Next]_(Lifecycle!vars)
  OBVIOUS
<1> USE NoneFacts DEF StoreInv, TypeOK
<1>a. ASSUME NEW S \in SUBSET Threads,
             \A t \in S : byKey[t] # None /\ IsExpired(byKey[t]),
             byKey' = [t \in Threads |-> IF t \in S THEN None ELSE byKey[t]],
             UNCHANGED <<now, gate, resolved, granted, refused>>
      PROVE Lifecycle!Lapse
  <2>1. \A t \in S : byKey[t] # None /\ now > Deadlines[byKey[t]]
    BY <1>a, WaitingDeadline DEF IsExpired
  <2>2. QED
    BY <1>a, <2>1, DeadlinesKept DEF Lifecycle!Lapse, Deadlines
<1>b. ASSUME NEW t \in Threads, byKey[t] # None, IsExpired(byKey[t]),
             byKey' = [byKey EXCEPT ![t] = None],
             UNCHANGED <<now, gate, resolved, granted, refused>>
      PROVE Lifecycle!Next
  <2>1. byKey' = [u \in Threads |-> IF u \in {t} THEN None ELSE byKey[u]]
    BY <1>b
  <2>2. QED
    BY <1>a, <1>b, <2>1 DEF Lifecycle!Next
<1>c. ASSUME UNCHANGED <<now, gate, byKey, resolved, granted, refused>>
      PROVE UNCHANGED Lifecycle!vars
  BY <1>c, DeadlinesKept DEF Lifecycle!vars, Deadlines
<1>1. ASSUME NEW r \in Requests, NEW t \in Threads, NEW c \in Calls, Create(r, t, c)
      PROVE Lifecycle!Next
  <2>1. [thread |-> t, call |-> c, expiresAt |-> now + TTL] \in PendingGate
    BY DEF PendingGate
  <2>2. Deadlines' = [Deadlines EXCEPT ![r] = now + TTL]
    BY <1>1, <2>1 DEF Create, Deadlines
  <2>3. Lifecycle!Ask(r, t)
    BY <1>1, <2>2 DEF Create, Fresh, Deadlines, Lifecycle!Ask
  <2>4. QED
    BY <2>3 DEF Lifecycle!Next
<1>2. ASSUME NEW t \in Threads, Get(t)
      PROVE [Lifecycle!Next]_(Lifecycle!vars)
  BY <1>2, <1>b, <1>c DEF Get, Unpend
<1>3. ASSUME NEW r \in Requests, GetByRequestID(r)
      PROVE [Lifecycle!Next]_(Lifecycle!vars)
  <2> DEFINE t == byReqID[r]
  <2>1. CASE /\ t # None
             /\ byKey[t] # None
             /\ IsExpired(byKey[t])
    BY <1>3, <2>1, <1>b DEF GetByRequestID, GetResult, Unpend
  <2>2. CASE t # None /\ byKey[t] = None
    <3>1. byKey' = byKey
      BY <1>3, <2>2 DEF GetByRequestID, Unpend
    <3>2. QED
      BY <1>3, <3>1, <1>c DEF GetByRequestID
  <2>3. CASE t = None \/ GetResult(t) # None
    BY <1>3, <2>3, <1>c DEF GetByRequestID
  <2>4. QED
    BY <2>1, <2>2, <2>3 DEF GetResult
<1>4. ASSUME NEW t \in Threads, NEW r \in Requests, Resolve(t, r)
      PROVE [Lifecycle!Next]_(Lifecycle!vars)
  <2>1. CASE ResolveResult(t, r) = "live"
    <3>1. byKey[t] = r /\ ~IsExpired(r)
      BY <2>1 DEF ResolveResult, PendingVerdict
    <3>2. now <= Deadlines[byKey[t]]
      BY <3>1, WaitingDeadline DEF IsExpired, PendingGate
    <3>3. Lifecycle!Approve(t)
      BY <1>4, <2>1, <3>1, <3>2, DeadlinesKept
         DEF Resolve, Unpend, Lifecycle!Approve, Deadlines, OneAnswer
    <3>4. QED
      BY <3>3 DEF Lifecycle!Next
  <2>2. CASE ResolveResult(t, r) = "expired"
    <3>1. byKey[t] = r /\ IsExpired(r)
      BY <2>2 DEF ResolveResult, PendingVerdict
    <3>2. QED
      BY <1>4, <2>2, <3>1, <1>b DEF Resolve, Unpend
  <2>3. CASE ResolveResult(t, r) \notin {"live", "expired"}
    BY <1>4, <2>3, <1>c DEF Resolve
  <2>4. QED
    BY <2>1, <2>2, <2>3
<1>5. ASSUME NEW t \in Threads, NEW r \in Requests, Deny(t, r)
      PROVE [Lifecycle!Next]_(Lifecycle!vars)
  <2>1. CASE DenyResult(t, r) = "live"
    <3>1. byKey[t] = r /\ ~IsExpired(r)
      BY <2>1 DEF DenyResult, PendingVerdict
    <3>2. now <= Deadlines[byKey[t]]
      BY <3>1, WaitingDeadline DEF IsExpired, PendingGate
    <3>3. Lifecycle!Refuse(t)
      BY <1>5, <2>1, <3>1, <3>2, DeadlinesKept
         DEF Deny, Unpend, Lifecycle!Refuse, Deadlines, OneAnswer
    <3>4. QED
      BY <3>3 DEF Lifecycle!Next
  <2>2. CASE DenyResult(t, r) = "expired"
    <3>1. byKey[t] = r /\ IsExpired(r)
      BY <2>2 DEF DenyResult, PendingVerdict
    <3>2. QED
      BY <1>5, <2>2, <3>1, <1>b DEF Deny, Unpend
  <2>3. CASE DenyResult(t, r) \notin {"live", "expired"}
    BY <1>5, <2>3, <1>c DEF Deny
  <2>4. QED
    BY <2>1, <2>2, <2>3
<1>6. ASSUME NEW t \in Threads, ConsumeResolved(t)
      PROVE [Lifecycle!Next]_(Lifecycle!vars)
  <2>1. CASE resolved[t] # None
    <3>1. Lifecycle!Spend(t)
      BY <1>6, <2>1, DeadlinesKept DEF ConsumeResolved, Lifecycle!Spend, Deadlines
    <3>2. QED
      BY <3>1 DEF Lifecycle!Next
  <2>2. CASE resolved[t] = None
    BY <1>6, <2>2, <1>c DEF ConsumeResolved
  <2>3. QED
    BY <2>1, <2>2
<1>7. ASSUME NEW t \in Threads, ClearResolved(t)
      PROVE [Lifecycle!Next]_(Lifecycle!vars)
  <2>1. CASE resolved[t] # None
    <3>1. Lifecycle!Spend(t)
      BY <1>7, <2>1, DeadlinesKept DEF ClearResolved, Lifecycle!Spend, Deadlines
    <3>2. QED
      BY <3>1 DEF Lifecycle!Next
  <2>2. CASE resolved[t] = None
    <3>1. resolved' = resolved
      BY <1>7, <2>2 DEF ClearResolved
    <3>2. QED
      BY <1>7, <3>1, <1>c DEF ClearResolved
  <2>3. QED
    BY <2>1, <2>2
<1>8. CASE List
  <2> DEFINE S == {t \in Threads : byKey[t] # None /\ IsExpired(byKey[t])}
  <2>1. byKey' = [t \in Threads |-> IF t \in S THEN None ELSE byKey[t]]
    BY <1>8 DEF List
  <2>2. UNCHANGED <<now, gate, resolved, granted, refused>>
    BY <1>8 DEF List
  <2>3. S \in SUBSET Threads /\ \A t \in S : byKey[t] # None /\ IsExpired(byKey[t])
    OBVIOUS
  <2> HIDE DEF S
  <2>4. Lifecycle!Lapse
    BY <2>1, <2>2, <2>3, <1>a
  <2>5. QED
    BY <2>4 DEF Lifecycle!Next
<1>9. CASE Tick
  <2>1. Lifecycle!Pass
    BY <1>9, DeadlinesKept DEF Tick, Lifecycle!Pass, Deadlines
  <2>2. QED
    BY <2>1 DEF Lifecycle!Next
<1>10. CASE UNCHANGED storeVars
  BY <1>10, <1>c DEF storeVars
<1>11. QED
  BY <1>1, <1>2, <1>3, <1>4, <1>5, <1>6, <1>7, <1>8, <1>9, <1>10 DEF StoreNext

\* The store implements the lifecycle of approval requests.
THEOREM Refinement == StoreSpec => ImplementsLifecycle
<1>1. NewPendingStore => Lifecycle!Init
  BY NoneFacts DEF NewPendingStore, Lifecycle!Init
<1>2. QED
  BY <1>1, LifecycleStep, StoreCorrect, PTL DEF StoreSpec, ImplementsLifecycle, Lifecycle!Spec
=============================================================================
