----------------------------- MODULE PendingStore -----------------------------
(***************************************************************************)
(* The store of approval requests, internal/gate/store.go: one mutex and   *)
(* four maps.  Every exported method holds the mutex for its whole body,   *)
(* so every method is one atomic action here.                              *)
(*                                                                         *)
(* A *PendingGate is identified by its request id (a fresh UUID), and its  *)
(* fields never change after Create; gate[r] is the object behind the      *)
(* pointers, the maps hold request ids.  PendingStore.key drops the user   *)
(* id, so the key of a gate is its thread.                                 *)
(***************************************************************************)
EXTENDS Naturals

CONSTANTS Threads,   \* thread ids, the keys of byKey and resolved
          Requests,  \* request ids Create may draw
          Calls,     \* what a gate asks about: tool name and parameters
          TTL,       \* lifetime of a gate and of a consumed record
          MaxTime,   \* bound on the model's clock
          None       \* absent map entry

ASSUME StoreAssumption ==
  /\ None \notin Threads \cup Requests \cup Nat
  /\ None \notin [thread : Threads, call : Calls, expiresAt : Nat]
  /\ TTL \in Nat
  /\ MaxTime \in Nat

VARIABLES now,       \* the clock behind time.Now()
          gate,      \* request id -> the PendingGate created for it
          byKey,     \* thread -> request waiting for an answer
          byReqID,   \* request id -> thread
          resolved,  \* thread -> request approved and not yet executed
          consumed,  \* request id -> time it was executed or denied
          granted,   \* history: requests a Resolve approved
          refused    \* history: requests a Deny refused

storeVars == <<now, gate, byKey, byReqID, resolved, consumed, granted, refused>>

PendingGate == [thread : Threads, call : Calls, expiresAt : Nat]

TypeOK ==
  /\ now \in Nat
  /\ gate \in [Requests -> PendingGate \cup {None}]
  /\ byKey \in [Threads -> Requests \cup {None}]
  /\ byReqID \in [Requests -> Threads \cup {None}]
  /\ resolved \in [Threads -> Requests \cup {None}]
  /\ consumed \in [Requests -> Nat \cup {None}]
  /\ granted \subseteq Requests
  /\ refused \subseteq Requests

NewPendingStore ==
  /\ now = 0
  /\ gate = [r \in Requests |-> None]
  /\ byKey = [t \in Threads |-> None]
  /\ byReqID = [r \in Requests |-> None]
  /\ resolved = [t \in Threads |-> None]
  /\ consumed = [r \in Requests |-> None]
  /\ granted = {}
  /\ refused = {}

-----------------------------------------------------------------------------
(* Helpers.                                                                *)

IsExpired(r) == now > gate[r].expiresAt

\* Fault: the gate stays in byKey.
UnpendKeepsKey(t, r) ==
  /\ byReqID' = [byReqID EXCEPT ![r] = None]
  /\ UNCHANGED byKey

\* delete(byKey, t) and delete(byReqID, r), as every removal of a gate does.
Unpend(t, r) ==
  /\ byKey' = [byKey EXCEPT ![t] = None]
  /\ byReqID' = [byReqID EXCEPT ![r] = None]

\* Fault: a record is forgotten at the TTL, not after it.
PurgeConsumedEarly(cons) ==
  [r \in Requests |-> IF cons[r] # None /\ now >= cons[r] + TTL
                      THEN None ELSE cons[r]]

\* Create forgets consumed records older than the TTL.
PurgeConsumed(cons) ==
  [r \in Requests |-> IF cons[r] # None /\ now > cons[r] + TTL
                      THEN None ELSE cons[r]]

Fresh(r) == gate[r] = None

\* Fault: expiry is not looked at.
PendingVerdictIgnoresExpiry(t, r) ==
  IF byKey[t] = None THEN "missing"
  ELSE IF byKey[t] # r THEN "mismatch"
  ELSE "live"

\* What the lookups of Resolve and Deny conclude about the gate of thread t.
PendingVerdict(t, r) ==
  IF byKey[t] = None THEN "missing"
  ELSE IF byKey[t] # r THEN "mismatch"
  ELSE IF IsExpired(r) THEN "expired"
  ELSE "live"

\* What Resolve returns: the gate, (nil, nil) for "handled", or an error.
ResolveResult(t, r) ==
  IF resolved[t] = r THEN "again"
  ELSE IF consumed[r] # None THEN "handled"
  ELSE PendingVerdict(t, r)

\* What Deny returns: nil for "handled" and "live", else an error.
DenyResult(t, r) ==
  IF consumed[r] # None THEN "handled" ELSE PendingVerdict(t, r)

\* What Get and HasPending answer for thread t.
GetResult(t) == IF byKey[t] # None /\ ~IsExpired(byKey[t]) THEN byKey[t] ELSE None

-----------------------------------------------------------------------------
(* The exported methods.                                                   *)

\* Fault: byReqID holds the request id instead of the key.
CreateWithoutKey(r, t, c) ==
  /\ Fresh(r)
  /\ consumed' = PurgeConsumed(consumed)
  /\ gate' = [gate EXCEPT ![r] = [thread |-> t, call |-> c,
                                  expiresAt |-> now + TTL]]
  /\ byKey' = [byKey EXCEPT ![t] = r]
  /\ byReqID' = [byReqID EXCEPT ![r] = r]
  /\ UNCHANGED <<now, resolved, granted, refused>>

Create(r, t, c) ==
  /\ Fresh(r)
  /\ consumed' = PurgeConsumed(consumed)
  /\ gate' = [gate EXCEPT ![r] = [thread |-> t, call |-> c,
                                  expiresAt |-> now + TTL]]
  /\ byKey' = [byKey EXCEPT ![t] = r]
  /\ byReqID' = [byReqID EXCEPT ![r] = t]
  /\ UNCHANGED <<now, resolved, granted, refused>>

Get(t) ==
  /\ IF byKey[t] # None /\ IsExpired(byKey[t])
     THEN Unpend(t, byKey[t])
     ELSE UNCHANGED <<byKey, byReqID>>
  /\ UNCHANGED <<now, gate, resolved, consumed, granted, refused>>

\* The gate found under r's key may belong to a later request: then it is
\* that gate which is deleted from byKey, and r's own entry from byReqID.
GetByRequestID(r) ==
  /\ IF byReqID[r] # None /\ GetResult(byReqID[r]) = None
     THEN Unpend(byReqID[r], r)
     ELSE UNCHANGED <<byKey, byReqID>>
  /\ UNCHANGED <<now, gate, resolved, consumed, granted, refused>>

Resolve(t, r) ==
  /\ \/ /\ ResolveResult(t, r) = "live"
        /\ Unpend(t, r)
        /\ resolved' = [resolved EXCEPT ![t] = r]
        /\ granted' = granted \cup {r}
     \/ /\ ResolveResult(t, r) = "expired"
        /\ Unpend(t, r)
        /\ UNCHANGED <<resolved, granted>>
     \/ /\ ResolveResult(t, r) \in {"again", "handled", "missing", "mismatch"}
        /\ UNCHANGED <<byKey, byReqID, resolved, granted>>
  /\ UNCHANGED <<now, gate, consumed, refused>>

\* Fault: a denied gate stays pending.
DenyKeepsGate(t, r) ==
  /\ DenyResult(t, r) = "live"
  /\ consumed' = [consumed EXCEPT ![r] = now]
  /\ refused' = refused \cup {r}
  /\ UNCHANGED <<now, gate, byKey, byReqID, resolved, granted>>

Deny(t, r) ==
  /\ \/ /\ DenyResult(t, r) = "live"
        /\ Unpend(t, r)
        /\ consumed' = [consumed EXCEPT ![r] = now]
        /\ refused' = refused \cup {r}
     \/ /\ DenyResult(t, r) = "expired"
        /\ Unpend(t, r)
        /\ UNCHANGED <<consumed, refused>>
     \/ /\ DenyResult(t, r) \in {"handled", "missing", "mismatch"}
        /\ UNCHANGED <<byKey, byReqID, consumed, refused>>
  /\ UNCHANGED <<now, gate, resolved, granted>>

\* Fault: the approval is recorded as consumed but not taken away.
ConsumeResolvedKeeps(t) ==
  /\ consumed' = IF resolved[t] # None
                 THEN [consumed EXCEPT ![resolved[t]] = now] ELSE consumed
  /\ UNCHANGED <<now, gate, byKey, byReqID, resolved, granted, refused>>

ConsumeResolved(t) ==
  /\ IF resolved[t] # None
     THEN /\ resolved' = [resolved EXCEPT ![t] = None]
          /\ consumed' = [consumed EXCEPT ![resolved[t]] = now]
     ELSE UNCHANGED <<resolved, consumed>>
  /\ UNCHANGED <<now, gate, byKey, byReqID, granted, refused>>

ClearResolved(t) ==
  /\ resolved' = [resolved EXCEPT ![t] = None]
  /\ UNCHANGED <<now, gate, byKey, byReqID, consumed, granted, refused>>

\* List drops every expired gate it walks over.
List ==
  LET stale == {t \in Threads : byKey[t] # None /\ IsExpired(byKey[t])}
  IN /\ byKey' = [t \in Threads |-> IF t \in stale THEN None ELSE byKey[t]]
     /\ byReqID' = [r \in Requests |->
                      IF \E t \in stale : byKey[t] = r THEN None ELSE byReqID[r]]
     /\ UNCHANGED <<now, gate, resolved, consumed, granted, refused>>

\* Time passes outside the store.
Tick ==
  /\ now < MaxTime
  /\ now' = now + 1
  /\ UNCHANGED <<gate, byKey, byReqID, resolved, consumed, granted, refused>>

StoreNext ==
  \/ \E r \in Requests, t \in Threads, c \in Calls : Create(r, t, c)
  \/ \E t \in Threads : Get(t)
  \/ \E r \in Requests : GetByRequestID(r)
  \/ \E t \in Threads, r \in Requests : Resolve(t, r)
  \/ \E t \in Threads, r \in Requests : Deny(t, r)
  \/ \E t \in Threads : ConsumeResolved(t)
  \/ \E t \in Threads : ClearResolved(t)
  \/ List
  \/ Tick

StoreSpec == NewPendingStore /\ [][StoreNext]_storeVars

-----------------------------------------------------------------------------
(* Properties.                                                             *)

\* A pending gate is always reachable by its own request id: no removal
\* through an overwritten request may leave a waiting gate without its
\* byReqID entry, or filed under a thread that is not its own.
IndexSound ==
  \A t \in Threads : byKey[t] # None =>
    /\ byReqID[byKey[t]] = t
    /\ gate[byKey[t]] # None
    /\ gate[byKey[t]].thread = t

\* An approval waiting for execution was given by Resolve for a gate of that
\* very thread, and its request is neither waiting nor already consumed.
ApprovalSound ==
  \A t \in Threads : resolved[t] # None =>
    /\ resolved[t] \in granted
    /\ consumed[resolved[t]] = None
    /\ gate[resolved[t]] # None
    /\ gate[resolved[t]].thread = t

\* A request gets one answer: it is never both approved and denied, and one
\* that still waits, or was never created, has no answer and no record.
OneAnswer ==
  /\ granted \cap refused = {}
  /\ \A t \in Threads : byKey[t] # None =>
       /\ byKey[t] \notin granted \cup refused
       /\ consumed[byKey[t]] = None
  /\ \A r \in Requests : gate[r] = None =>
       /\ r \notin granted \cup refused
       /\ consumed[r] = None
       /\ byReqID[r] = None
  /\ \A r \in Requests : consumed[r] # None => r \in granted \cup refused

\* The inductive invariant of the store.
StoreInv == TypeOK /\ IndexSound /\ ApprovalSound /\ OneAnswer

\* An answer given while it is still remembered is stable: until the record
\* ages past the TTL, a consumed request keeps answering "handled" to both
\* Resolve and Deny whatever happens to its thread meanwhile.
ConsumedRemembered ==
  [][\A r \in Requests : consumed[r] # None /\ now <= consumed[r] + TTL
        => consumed'[r] = consumed[r]]_storeVars

-----------------------------------------------------------------------------
\* The store, seen as the lifecycle of its requests.
Lifecycle == INSTANCE ApprovalLifecycle WITH
  deadline <- [r \in Requests |-> IF gate[r] = None THEN None ELSE gate[r].expiresAt],
  waiting <- byKey,
  approval <- resolved

\* Every method of the store is a step of the request lifecycle or invisible
\* to it: what the maps, the idempotence records and the lazy deletions do
\* never approves twice, late, for another thread, or brings a request back.
ImplementsLifecycle == Lifecycle!Spec
=============================================================================
