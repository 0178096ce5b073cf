----------------------------- MODULE PartsProofs ------------------------------
(***************************************************************************)
(* Proofs about the parts that share no state with each other, for every   *)
(* value of their constants: what an approval teaches never allows more    *)
(* than its own user approved; the rate limiter never lets more than two   *)
(* quotas pass within the length of a window; the extensions on disk and   *)
(* in the maps agree whatever calls overlap; the index of the catalog      *)
(* agrees with its manifests; a loaded configuration follows its layers;   *)
(* and a message leaves the hooks, events and turns of the way it took.    *)
(***************************************************************************)
EXTENDS RiskEvaluator, RateLimiter, Extensions, Catalog, Config, Pipeline,
        FiniteSetTheorems, FunctionTheorems, WellFoundedInduction, TLAPS

-----------------------------------------------------------------------------
(* The approval policy.                                                    *)

\* What an approval writes, for the key of the call ...
LEMMA RecordLearned ==
  ASSUME RiskTypeOK, NEW c \in Calls, NEW u \in Users, RecordApproval(c, u),
         NEW v \in Users, NEW k \in Keys
  PROVE  learned'[<<v, k>>] = IF v = u /\ k = autoApproveKey(c) THEN now ELSE learned[<<v, k>>]
<1>1. autoApproveKey(c) \in Keys
  BY DEF Keys
<1>2. /\ learned' = [learned EXCEPT ![<<u, autoApproveKey(c)>>] = now]
      /\ learned \in [Users \X Keys -> Nat \cup {None}]
  BY DEF RecordApproval, RiskTypeOK
<1>3. QED
  BY <1>1, <1>2

\* ... and for the call.
LEMMA RecordTaught ==
  ASSUME RiskTypeOK, NEW c \in Calls, NEW u \in Users, RecordApproval(c, u),
         NEW v \in Users, NEW d \in Calls
  PROVE  taught'[<<v, d>>] = IF v = u /\ d = c THEN now ELSE taught[<<v, d>>]
<1>1. /\ taught' = [taught EXCEPT ![<<u, c>>] = now]
      /\ taught \in [Users \X Calls -> Nat \cup {None}]
  BY DEF RecordApproval, RiskTypeOK
<1>2. QED
  BY <1>1

\* Every step keeps the types.
LEMMA RiskTypeStep == RiskTypeOK /\ [RiskNext]_riskVars => RiskTypeOK'
<1> SUFFICES ASSUME RiskTypeOK, [RiskNext]_riskVars PROVE RiskTypeOK'
  OBVIOUS
<1> USE DEF RiskTypeOK
<1>1. ASSUME NEW c \in Calls, NEW u \in Users, RecordApproval(c, u) PROVE RiskTypeOK'
  BY <1>1 DEF RecordApproval, Keys
<1>2. CASE CleanupExpired
  BY <1>2 DEF CleanupExpired
<1>3. CASE RiskTick
  BY <1>3 DEF RiskTick
<1>4. QED
  BY <1>1, <1>2, <1>3 DEF RiskNext, riskVars

\* A learned approval is replaced together with what its user last approved; an
\* expired one only goes away.
LEMMA LearnedStep ==
  ASSUME RiskTypeOK, LearnedFromUser, [RiskNext]_riskVars
  PROVE  LearnedFromUser'
<1>1. SUFFICES ASSUME NEW v \in Users, NEW d \in Calls, learned'[<<v, autoApproveKey(d)>>] # None
               PROVE \E e \in Calls : /\ autoApproveKey(e) = autoApproveKey(d)
                                      /\ taught'[<<v, e>>] = learned'[<<v, autoApproveKey(d)>>]
  BY DEF LearnedFromUser, autoApproveKey
<1> DEFINE k == autoApproveKey(d)
<1>2. ASSUME learned'[<<v, k>>] = learned[<<v, k>>]
      PROVE \E e \in Calls : autoApproveKey(e) = k /\ taught[<<v, e>>] = learned'[<<v, k>>]
  BY <1>1, <1>2 DEF LearnedFromUser
<1>3. ASSUME NEW c \in Calls, NEW u \in Users, RecordApproval(c, u)
      PROVE \E e \in Calls : autoApproveKey(e) = k /\ taught'[<<v, e>>] = learned'[<<v, k>>]
  <2>a. learned'[<<v, k>>] = IF v = u /\ k = autoApproveKey(c) THEN now ELSE learned[<<v, k>>]
    <3>1. k \in Keys
      BY DEF Keys
    <3>2. QED
      BY <1>3, <3>1, RecordLearned
  <2>1. CASE v = u /\ k = autoApproveKey(c)
    <3>1. learned'[<<v, k>>] = now /\ taught'[<<v, c>>] = now
      BY <1>3, <2>1, <2>a, RecordTaught
    <3>2. QED
      BY <2>1, <3>1
  <2>2. CASE ~(v = u /\ k = autoApproveKey(c))
    <3>1. learned'[<<v, k>>] = learned[<<v, k>>]
      BY <2>2, <2>a
    <3>2. PICK e \in Calls : autoApproveKey(e) = k /\ taught[<<v, e>>] = learned'[<<v, k>>]
      BY <1>2, <3>1
    <3>3. taught'[<<v, e>>] = taught[<<v, e>>]
      BY <1>3, <2>2, <3>2, RecordTaught
    <3>4. QED
      BY <3>2, <3>3
  <2>3. QED
    BY <2>1, <2>2
<1>4. CASE CleanupExpired
  <2>1. k \in Keys /\ taught' = taught
    BY <1>4 DEF CleanupExpired, Keys
  <2>2. learned'[<<v, k>>] = learned[<<v, k>>]
    <3>1. learned'[<<v, k>>] = None \/ learned'[<<v, k>>] = learned[<<v, k>>]
      BY <1>4, <2>1 DEF CleanupExpired
    <3>2. QED
      BY <1>1, <3>1
  <2>3. QED
    BY <1>2, <2>1, <2>2
<1>5. CASE RiskTick \/ UNCHANGED riskVars
  BY <1>2, <1>5 DEF RiskTick, riskVars
<1>6. QED
  BY <1>3, <1>4, <1>5 DEF RiskNext

\* The gate lets pass unasked what its rules and learned approvals allow.
LEMMA GateAllows ==
  ASSUME LearnedFromUser
  PROVE  AllowedOnlyIfTaught
<1>1. SUFFICES ASSUME NEW c \in Calls, NEW u \in Users,
                      Decision(c, u, "interactive") = "allow", c.tool \notin AutoApproved
               PROVE  \/ assessRisk(c) = "low"
                      \/ /\ assessRisk(c) = "medium"
                         /\ Trust = "permissive" \/ (Trust = "balanced" /\ Taught(c, u))
  BY DEF AllowedOnlyIfTaught
<1>2. Requirement(c, u) = "never"
  BY <1>1 DEF Decision
<1>3. assessRisk(c) \in {"low", "medium", "high"}
  <2>1. c.tool \in Tool
    BY RiskAssumption DEF Call
  <2>2. QED
    BY <2>1 DEF assessRisk, Tool
<1>4. CASE assessRisk(c) = "medium"
  <2>1. Trust = "permissive" \/ (Trust = "balanced" /\ isLearnedApproved(c, u))
    BY <1>2, <1>4, RiskAssumption DEF Requirement
  <2>2. isLearnedApproved(c, u) => Taught(c, u)
    BY DEF isLearnedApproved, LearnedFromUser, Taught
  <2>3. QED
    BY <1>4, <2>1, <2>2
<1>5. CASE assessRisk(c) = "high"
  BY <1>2, <1>5 DEF Requirement
<1>6. QED
  BY <1>3, <1>4, <1>5

\* For any users and calls: no high-risk call ever runs unasked, and a medium-risk one does only
\* by configuration, trust level, or an approval by the same user of the same tool and action
\* that is no older than the TTL (risk.go, approval.go).
THEOREM PolicyCorrect == RiskSpec => []RiskInv
<1>1. RiskInit => RiskTypeOK /\ LearnedFromUser
  <2> SUFFICES ASSUME RiskInit PROVE RiskTypeOK /\ LearnedFromUser
    OBVIOUS
  <2>1. RiskTypeOK
    BY DEF RiskInit, RiskTypeOK
  <2>2. \A c \in Calls, u \in Users : learned[<<u, autoApproveKey(c)>>] = None
    BY DEF RiskInit, Keys
  <2>3. QED
    BY <2>1, <2>2 DEF LearnedFromUser
<1>2. RiskTypeOK /\ LearnedFromUser /\ [RiskNext]_riskVars => (RiskTypeOK /\ LearnedFromUser)'
  BY RiskTypeStep, LearnedStep
<1>3. RiskTypeOK /\ LearnedFromUser => RiskInv
  BY GateAllows DEF RiskInv
<1>4. QED
  BY <1>1, <1>2, <1>3, PTL DEF RiskSpec

-----------------------------------------------------------------------------
(* The rate limiter.                                                       *)

\* What a quota is.
LEMMA QuotaFacts ==
  /\ Quota \in Nat /\ Quota >= 1 /\ RateMaxCalls <= Quota
  /\ RateWindow \in Nat /\ RateMaxCalls \in Nat
BY LimiterAssumption DEF Quota

\* The window in the terms of its fields.
LEMMA WindowFacts ==
  ASSUME LimiterTypeOK, lim # NoWindow
  PROVE  lim.count \in Nat /\ lim.window \in Nat /\ lim \in [count : Nat, window : Nat]
BY DEF LimiterTypeOK

\* A call that passes is the last one.
LEMMA PassedAppend ==
  ASSUME LimiterTypeOK, passed' = Append(passed, clock)
  PROVE  /\ passed' \in Seq(Nat) /\ Len(passed) \in Nat /\ clock \in Nat
         /\ Len(passed') = Len(passed) + 1
         /\ \A i \in 1..Len(passed) : passed'[i] = passed[i] /\ passed[i] \in Nat
         /\ passed'[Len(passed) + 1] = clock
BY DEF LimiterTypeOK

\* A call opens a new window: all calls before are older than it, and all but a quota of them
\* older than the window before.
LEMMA NewWindowInv ==
  ASSUME LimiterTypeOK, WindowsApart, NewWindow, passed' = Append(passed, clock),
         lim' = [count |-> 1, window |-> clock + RateWindow], UNCHANGED clock
  PROVE  LimiterTypeOK' /\ WindowsApart'
<1> DEFINE n == Len(passed)
<1>1. /\ passed' \in Seq(Nat) /\ n \in Nat /\ clock \in Nat /\ Len(passed') = n + 1
      /\ \A i \in 1..n : passed'[i] = passed[i] /\ passed[i] \in Nat
      /\ passed'[n + 1] = clock
  BY PassedAppend
<1>2. /\ lim'.count = 1 /\ lim'.window = clock + RateWindow
      /\ lim' \in [count : Nat, window : Nat] /\ lim' # NoWindow
  BY <1>1, QuotaFacts, LimiterAssumption
<1>3. LimiterTypeOK'
  BY <1>1, <1>2 DEF LimiterTypeOK
<1>4. ASSUME NEW i \in 1..n
      PROVE  /\ passed[i] < clock
             /\ i + Quota <= n => passed[i] + RateWindow < clock
  <2>1. lim # NoWindow
    <3>1. SUFFICES ASSUME lim = NoWindow PROVE FALSE
      OBVIOUS
    <3>2. passed = <<>>
      BY <3>1 DEF WindowsApart
    <3>3. n = 0
      BY <3>2
    <3>4. QED
      BY <1>4, <3>3
  <2>2. RateWindow > 0 /\ clock > lim.window
    BY <2>1 DEF NewWindow
  <2>3. lim.count \in Nat /\ lim.window \in Nat
    BY <2>1, WindowFacts
  <2>4. /\ lim.count \in 1..Quota /\ passed[i] <= lim.window
        /\ i + lim.count <= n => passed[i] + RateWindow < lim.window
    BY <1>4, <2>1, <2>2 DEF WindowsApart
  <2>5. passed[i] \in Nat /\ i \in Nat
    BY <1>1, <1>4
  <2>6. i + Quota <= n => i + lim.count <= n
    BY <1>1, <2>3, <2>4, <2>5, QuotaFacts
  <2> HIDE DEF n
  <2>7. RateWindow \in Nat /\ clock \in Nat
    BY <1>1, QuotaFacts
  <2>8. passed[i] < clock
    BY <2>2, <2>3, <2>4, <2>5, <2>7
  <2>9. ASSUME i + Quota <= n PROVE passed[i] + RateWindow < clock
    <3>1. passed[i] + RateWindow < lim.window
      BY <2>4, <2>6, <2>9
    <3>2. QED
      BY <2>2, <2>3, <2>5, <2>7, <3>1
  <2>10. QED
    BY <2>8, <2>9
<1>5. \A i \in 1..(n + 1) :
        /\ passed'[i] <= lim'.window
        /\ i + 1 <= n + 1 => passed'[i] + RateWindow < lim'.window
        /\ i + 1 + Quota <= n + 1 => passed'[i] + 2 * RateWindow < lim'.window
  <2> HIDE DEF n
  <2>1. SUFFICES ASSUME NEW i \in 1..(n + 1)
                 PROVE  /\ passed'[i] <= lim'.window
                        /\ i + 1 <= n + 1 => passed'[i] + RateWindow < lim'.window
                        /\ i + 1 + Quota <= n + 1 => passed'[i] + 2 * RateWindow < lim'.window
    OBVIOUS
  <2>2. CASE i \in 1..n
    <3>1. passed'[i] = passed[i] /\ passed[i] \in Nat /\ passed[i] < clock
      BY <1>1, <1>4, <2>2
    <3>2. i + 1 + Quota <= n + 1 => passed[i] + RateWindow < clock
      BY <1>1, <1>4, <2>2, QuotaFacts
    <3>3. QED
      BY <1>1, <1>2, <3>1, <3>2, QuotaFacts
  <2>3. CASE i = n + 1
    BY <1>1, <1>2, <2>3, QuotaFacts
  <2>4. QED
    BY <1>1, <2>2, <2>3
<1>6. lim'.window <= clock' + RateWindow /\ 1 \in 1..Quota /\ 1 <= n + 1
  BY <1>1, <1>2, QuotaFacts
<1>7. WindowsApart'
  BY <1>1, <1>2, <1>5, <1>6 DEF WindowsApart, Quota
<1>8. QED
  BY <1>3, <1>7

\* One call more on both sides.
LEMMA OneMore ==
  ASSUME NEW n \in Nat, NEW i \in 1..n, NEW c \in Nat, NEW d \in Nat, NEW q \in Nat, d = c + 1
  PROVE  /\ i + d <= n + 1 => i + c <= n
         /\ i + d + q <= n + 1 => i + c + q <= n
OBVIOUS

\* A call within the window: it is counted, and the calls before the window stay where they are.
LEMMA SameWindowInv ==
  ASSUME LimiterTypeOK, WindowsApart, ~NewWindow, lim.count < RateMaxCalls,
         passed' = Append(passed, clock), lim' = [lim EXCEPT !.count = @ + 1], UNCHANGED clock
  PROVE  LimiterTypeOK' /\ WindowsApart'
<1> DEFINE n == Len(passed)
<1>1. /\ passed' \in Seq(Nat) /\ n \in Nat /\ clock \in Nat /\ Len(passed') = n + 1
      /\ \A i \in 1..n : passed'[i] = passed[i] /\ passed[i] \in Nat
      /\ passed'[n + 1] = clock
  BY PassedAppend
<1>2. lim # NoWindow /\ (RateWindow > 0 => clock <= lim.window)
  <2>1. lim # NoWindow
    BY DEF NewWindow
  <2>2. QED
    BY <1>1, <2>1, WindowFacts, QuotaFacts DEF NewWindow
<1>3. /\ lim.count \in Nat /\ lim.window \in Nat /\ lim \in [count : Nat, window : Nat]
  BY <1>2, WindowFacts
<1>4. /\ lim'.count = lim.count + 1 /\ lim'.window = lim.window
      /\ lim' \in [count : Nat, window : Nat] /\ lim' # NoWindow
  BY <1>3, LimiterAssumption
<1>5. LimiterTypeOK'
  BY <1>1, <1>4 DEF LimiterTypeOK
<1>6. /\ lim.count \in 1..Quota /\ lim.count <= n /\ lim.window <= clock + RateWindow
      /\ \A i \in 1..n :
           /\ RateWindow > 0 => passed[i] <= lim.window
           /\ i + lim.count <= n => passed[i] + RateWindow < lim.window
           /\ i + lim.count + Quota <= n => passed[i] + 2 * RateWindow < lim.window
  BY <1>2 DEF WindowsApart
<1> HIDE DEF n
<1>7. ASSUME NEW i \in 1..(n + 1)
      PROVE  /\ RateWindow > 0 => passed'[i] <= lim'.window
             /\ i + lim'.count <= n + 1 => passed'[i] + RateWindow < lim'.window
             /\ i + lim'.count + Quota <= n + 1 => passed'[i] + 2 * RateWindow < lim'.window
  <2>1. CASE i \in 1..n
    <3>1. passed'[i] = passed[i]
      BY <1>1, <2>1
    <3>2. /\ i + lim'.count <= n + 1 => i + lim.count <= n
          /\ i + lim'.count + Quota <= n + 1 => i + lim.count + Quota <= n
      BY <1>1, <1>3, <1>4, <2>1, QuotaFacts, OneMore
    <3>3. QED
      BY <1>4, <1>6, <2>1, <3>1, <3>2
  <2>2. CASE i = n + 1
    <3>1. ~(i + lim'.count <= n + 1) /\ ~(i + lim'.count + Quota <= n + 1)
      BY <1>1, <1>3, <1>4, <2>2, QuotaFacts
    <3>2. passed'[i] = clock
      BY <1>1, <2>2
    <3>3. QED
      BY <1>2, <1>4, <3>1, <3>2
  <2>3. QED
    BY <1>1, <2>1, <2>2
<1>8. lim'.count \in 1..Quota /\ lim'.count <= n + 1 /\ lim'.window <= clock' + RateWindow
  <2>1. /\ lim.count \in Nat /\ lim.count <= n /\ lim.window <= clock + RateWindow /\ n \in Nat
        /\ lim'.count = lim.count + 1 /\ lim'.window = lim.window /\ clock' = clock
    BY <1>1, <1>3, <1>4, <1>6
  <2>2. lim.count < RateMaxCalls /\ RateMaxCalls <= Quota /\ RateMaxCalls \in Nat /\ Quota \in Nat
    BY QuotaFacts
  <2>3. lim'.count \in 1..Quota /\ lim'.count <= n + 1
    BY <2>1, <2>2
  <2>4. QED
    BY <2>1, <2>3
<1>9. WindowsApart'
  BY <1>1, <1>4, <1>7, <1>8 DEF WindowsApart, Quota
<1>10. QED
  BY <1>5, <1>9

\* All calls but the last two quotas are older than the length of a window.
LEMMA BurstFromWindows ==
  ASSUME LimiterTypeOK, WindowsApart
  PROVE  BurstBounded
<1> SUFFICES ASSUME RateWindow > 0 PROVE Recent(RateWindow) <= 2 * Quota
  BY DEF BurstBounded
<1> DEFINE n == Len(passed)
<1> DEFINE R == {i \in DOMAIN passed : passed[i] + RateWindow >= clock}
<1>1. /\ n \in Nat /\ clock \in Nat /\ DOMAIN passed = 1..n
      /\ \A i \in 1..n : passed[i] \in Nat
  BY DEF LimiterTypeOK
<1>2. Recent(RateWindow) = Cardinality(R)
  BY DEF Recent
<1>3. CASE lim = NoWindow
  <2>1. passed = <<>>
    BY <1>3 DEF WindowsApart
  <2>2. R = {}
    BY <2>1
  <2> HIDE DEF R
  <2>3. Cardinality(R) = 0
    BY <2>2, FS_EmptySet
  <2>4. QED
    BY <1>2, <2>3, QuotaFacts
<1>4. CASE lim # NoWindow
  <2>1. lim.count \in Nat /\ lim.window \in Nat
    BY <1>4, WindowFacts
  <2>2. /\ lim.count \in 1..Quota /\ lim.count <= n /\ lim.window <= clock + RateWindow
        /\ \A i \in 1..n : i + lim.count + Quota <= n => passed[i] + 2 * RateWindow < lim.window
    BY <1>4 DEF WindowsApart
  <2> DEFINE a == n + 1 - (2 * Quota)
  <2> HIDE DEF n
  <2>3. ASSUME NEW i \in R PROVE i \in a..n
    <3>1. i \in 1..n /\ passed[i] + RateWindow >= clock /\ passed[i] \in Nat
      BY <1>1
    <3>2. ~(i + lim.count + Quota <= n)
      <4>1. SUFFICES ASSUME i + lim.count + Quota <= n PROVE FALSE
        OBVIOUS
      <4>2. passed[i] + 2 * RateWindow < lim.window
        BY <2>2, <3>1, <4>1
      <4>3. RateWindow \in Nat /\ clock \in Nat
        BY <1>1, QuotaFacts
      <4>4. lim.window <= clock + RateWindow
        BY <2>2
      <4>5. QED
        BY <2>1, <3>1, <4>2, <4>3, <4>4
    <3>3. i \in Int /\ 1 <= i /\ i <= n /\ n \in Int /\ Quota \in Int /\ lim.count \in Int
      BY <1>1, <2>1, <3>1, QuotaFacts
    <3>4. lim.count <= Quota
      BY <2>2, <3>3
    <3> DEFINE c == lim.count
               q == Quota
    <3>5. c \in Int /\ q \in Int /\ c <= q /\ ~(i + c + q <= n)
      BY <3>2, <3>3, <3>4
    <3> HIDE DEF c, q
    <3>6. n + 1 - (2 * q) <= i
      BY <3>3, <3>5
    <3>7. QED
      BY <3>3, <3>6 DEF q
  <2>4. a \in Int /\ n \in Int /\ n - a + 1 = 2 * Quota /\ ~(a > n)
    BY <1>1, QuotaFacts
  <2> HIDE DEF a, R
  <2>5. IsFiniteSet(a..n) /\ Cardinality(a..n) = 2 * Quota
    BY <2>4, FS_Interval
  <2>6. R \in SUBSET (a..n)
    BY <2>3
  <2>7. Cardinality(R) <= Cardinality(a..n)
    BY <2>5, <2>6, FS_Subset
  <2>8. QED
    BY <1>2, <2>5, <2>7
<1>5. QED
  BY <1>3, <1>4

\* For any limit and window: never more than two quotas pass within the length of a window, and
\* the calls of different windows stay apart (ratelimit.go: Allow).
THEOREM LimiterCorrect == LimiterSpec => []LimiterInv
<1>1. LimiterInit => LimiterTypeOK /\ WindowsApart
  BY DEF LimiterInit, LimiterTypeOK, WindowsApart
<1>2. LimiterTypeOK /\ WindowsApart /\ [LimiterNext]_limiterVars => (LimiterTypeOK /\ WindowsApart)'
  <2> SUFFICES ASSUME LimiterTypeOK, WindowsApart, [LimiterNext]_limiterVars
               PROVE  LimiterTypeOK' /\ WindowsApart'
    OBVIOUS
  <2>1. CASE Allow
    BY <2>1, NewWindowInv, SameWindowInv DEF Allow
  <2>2. CASE Refuse \/ UNCHANGED limiterVars
    BY <2>2 DEF Refuse, limiterVars, LimiterTypeOK, WindowsApart
  <2>3. CASE LimiterTick
    <3>1. clock \in Nat /\ clock' = clock + 1 /\ lim' = lim /\ passed' = passed
      BY <2>3 DEF LimiterTick, LimiterTypeOK
    <3>2. LimiterTypeOK'
      BY <3>1 DEF LimiterTypeOK
    <3>3. lim # NoWindow => lim.window <= clock + RateWindow /\ lim.window \in Nat
      BY WindowFacts DEF WindowsApart
    <3>4. lim # NoWindow => lim.window <= clock' + RateWindow
      BY <3>1, <3>3, QuotaFacts
    <3>5. QED
      BY <3>1, <3>2, <3>4 DEF WindowsApart
  <2>4. QED
    BY <2>1, <2>2, <2>3 DEF LimiterNext
<1>3. LimiterTypeOK /\ WindowsApart => LimiterInv
  BY BurstFromWindows DEF LimiterInv
<1>4. QED
  BY <1>1, <1>2, <1>3, PTL DEF LimiterSpec

-----------------------------------------------------------------------------
(* The extensions.                                                         *)

\* A set whose elements are all the same has at most one.
LEMMA AtMostOne ==
  ASSUME NEW S, \A e, f \in S : e = f
  PROVE  Cardinality(S) <= 1
<1>1. CASE S = {}
  BY <1>1, FS_EmptySet
<1>2. CASE S # {}
  <2>1. PICK e : e \in S
    BY <1>2
  <2>2. S = {e}
    BY <2>1
  <2>3. QED
    BY <2>2, FS_Singleton
<1>3. QED
  BY <1>1, <1>2

\* Every step of a call keeps the tables of the manager within their types.
LEMMA ExtTypeStep ==
  ASSUME ExtTypeOK, CallsApart, ExtNext, \A e, f \in ext' : e = f
  PROVE  ExtTypeOK'
<1> USE DEF ExtTypeOK, Steps
<1>t. Types = {"tool", "channel"}
  BY DEF Types
<1>0. Cardinality(ext') <= 1
  BY AtMostOne
<1>1. ASSUME NEW c \in Callers, NEW t \in Types, InstallBegin(c, t) PROVE ExtTypeOK'
  <2>1. /\ step' \in [Callers -> Steps] /\ target' \in [Callers -> Types]
        /\ calls' \in [Callers -> 0..MaxExtCalls]
    BY <1>1, ExtensionsAssumption DEF InstallBegin, Begin
  <2>2. clean' \in BOOLEAN
    BY <1>1 DEF InstallBegin
  <2>3. QED
    BY <1>0, <1>1, <2>1, <2>2 DEF InstallBegin, extMap, disk
<1>2. ASSUME NEW c \in Callers, UninstallBegin(c) PROVE ExtTypeOK'
  <2>1. PICK e \in ext : Begin(c, "remove", e.type) /\ clean' = (clean /\ Quiet) /\ ext' = {}
    BY <1>2 DEF UninstallBegin
  <2>2. e.type \in Types
    BY DEF Extension
  <2>3. /\ step' \in [Callers -> Steps] /\ target' \in [Callers -> Types]
        /\ calls' \in [Callers -> 0..MaxExtCalls]
    BY <2>1, <2>2, ExtensionsAssumption DEF Begin
  <2>4. UNCHANGED <<known, vetted, disk>>
    BY <1>2 DEF UninstallBegin
  <2>5. QED
    BY <1>0, <2>1, <2>3, <2>4 DEF disk
<1>3. ASSUME NEW c \in Callers, MkdirAll(c) PROVE ExtTypeOK'
  <2>1. tree' \in [Types -> {"none", "dir", "file"}]
    BY <1>3 DEF MkdirAll
  <2>2. step' \in [Callers -> Steps]
    BY <1>3 DEF MkdirAll, Goes
  <2>3. QED
    BY <1>0, <1>3, <2>1, <2>2 DEF MkdirAll, Goes, extMap
<1>4. ASSUME NEW c \in Callers, WriteOpen(c) PROVE ExtTypeOK'
  <2>1. /\ tree' \in [Types -> {"none", "dir", "file"}] /\ wasm' \in [Types -> SUBSET Callers]
        /\ open' \in [Types -> SUBSET Callers]
    BY <1>4 DEF WriteOpen
  <2>2. step' \in [Callers -> Steps]
    BY <1>4 DEF WriteOpen, Goes
  <2>3. QED
    BY <1>0, <1>4, <2>1, <2>2 DEF WriteOpen, Goes, extMap
<1>5. ASSUME NEW c \in Callers, WriteBytes(c) PROVE ExtTypeOK'
  <2>1. wasm' \in [Types -> SUBSET Callers]
    BY <1>5 DEF WriteBytes
  <2>2. step' \in [Callers -> Steps] /\ open' \in [Types -> SUBSET Callers]
    BY <1>5 DEF WriteBytes, Goes
  <2>3. QED
    BY <1>0, <1>5, <2>1, <2>2 DEF WriteBytes, Goes, extMap
<1>6. ASSUME NEW c \in Callers, InstallRegister(c) PROVE ExtTypeOK'
  <2>1. ext' \in SUBSET Extension
    BY <1>6 DEF InstallRegister, Extension
  <2>2. step' \in [Callers -> Steps]
    BY <1>6 DEF InstallRegister, Goes
  <2>3. QED
    BY <1>0, <1>6, <2>1, <2>2 DEF InstallRegister, Goes, disk
<1>7. ASSUME NEW c \in Callers, InstallFails(c) \/ UninstallFails(c) PROVE ExtTypeOK'
  <2>1. step' \in [Callers -> Steps] /\ UNCHANGED <<target, calls>> /\ clean' = FALSE
    BY <1>7 DEF InstallFails, UninstallFails, Fails, Goes
  <2>2. open' \in [Types -> SUBSET Callers] /\ UNCHANGED <<extMap, tree, wasm>>
    BY <1>7 DEF InstallFails, UninstallFails, Fails, disk
  <2>3. QED
    BY <1>0, <2>1, <2>2 DEF extMap
<1>8. ASSUME NEW c \in Callers, RemoveAll(c) PROVE ExtTypeOK'
  <2>1. /\ tree' \in [Types -> {"none", "dir", "file"}] /\ wasm' \in [Types -> SUBSET Callers]
        /\ open' \in [Types -> SUBSET Callers]
    BY <1>8 DEF RemoveAll
  <2>2. step' \in [Callers -> Steps]
    BY <1>8 DEF RemoveAll, Goes
  <2>3. QED
    BY <1>0, <1>8, <2>1, <2>2 DEF RemoveAll, Goes, extMap
<1>9. ASSUME NEW a \in BOOLEAN, SetActive(a) PROVE ExtTypeOK'
  <2>1. PICK e \in ext : ext = {e}
    BY <1>9 DEF SetActive, CallsApart
  <2>2. ext' = {[e EXCEPT !.active = a]} /\ vetted' = IF a THEN CHOOSE w \in {wasm[e.type]} : TRUE ELSE vetted
    BY <1>9, <2>1 DEF SetActive
  <2>3. ext' \in SUBSET Extension /\ e.type \in Types
    BY <2>2 DEF Extension
  <2>4. vetted' \in SUBSET Callers
    BY <2>2, <2>3
  <2>5. QED
    BY <1>0, <1>9, <2>3, <2>4 DEF SetActive, disk, callVars
<1>10. CASE Discover
  <2>1. ext' \in SUBSET Extension
    BY <1>10, <1>t DEF Discover, Extension
  <2>2. QED
    BY <1>0, <1>10, <2>1 DEF Discover, disk, callVars
<1>11. CASE Restart
  <2>1. open' \in [Types -> SUBSET Callers] /\ step' \in [Callers -> Steps]
    BY <1>11 DEF Restart
  <2>2. QED
    BY <1>0, <1>11, <2>1 DEF Restart
<1>12. QED
  BY <1>1, <1>2, <1>3, <1>4, <1>5, <1>6, <1>7, <1>8, <1>9, <1>10, <1>11 DEF ExtNext

\* The map has at most one entry for the name, and none that it was never written.
LEMMA ExtMapStep ==
  ASSUME ExtTypeOK, CallsApart, ExtNext
  PROVE  /\ \A e, f \in ext' : e = f
         /\ ext' # {} => known'
<1>1. CASE UNCHANGED <<ext, known>>
  BY <1>1 DEF CallsApart
<1>2. ASSUME NEW c \in Callers, InstallRegister(c) \/ UninstallBegin(c)
      PROVE  (\A e, f \in ext' : e = f) /\ (ext' # {} => known')
  BY <1>2 DEF InstallRegister, UninstallBegin
<1>3. ASSUME NEW a \in BOOLEAN, SetActive(a)
      PROVE  (\A e, f \in ext' : e = f) /\ (ext' # {} => known')
  <2>1. PICK e \in ext : ext = {e}
    BY <1>3 DEF SetActive, CallsApart
  <2>2. ext' = {[e EXCEPT !.active = a]} /\ known' = known
    BY <1>3, <2>1 DEF SetActive
  <2>3. QED
    BY <2>1, <2>2 DEF CallsApart
<1>4. CASE Discover
  BY <1>4 DEF Discover, CallsApart
<1>5. CASE Restart
  BY <1>5 DEF Restart
<1>6. QED
  BY <1>1, <1>2, <1>3, <1>4, <1>5
     DEF ExtNext, InstallBegin, MkdirAll, WriteOpen, WriteBytes, InstallFails, RemoveAll,
         UninstallFails, Fails, extMap

\* A file that is open is being written.
LEMMA OpenStep ==
  ASSUME ExtTypeOK, CallsApart, ExtNext
  PROVE  \A t \in Types : \A c \in open'[t] : step'[c] = "write" /\ target'[c] = t
<1> USE DEF ExtTypeOK
<1>a. \A t \in Types : \A c \in open[t] : c \in Callers /\ step[c] = "write" /\ target[c] = t
  BY DEF CallsApart
<1>1. ASSUME NEW c \in Callers, NEW t \in Types, InstallBegin(c, t)
      PROVE \A u \in Types : \A d \in open'[u] : step'[d] = "write" /\ target'[d] = u
  BY <1>a, <1>1 DEF InstallBegin, Begin, disk
<1>2. ASSUME NEW c \in Callers, UninstallBegin(c)
      PROVE \A u \in Types : \A d \in open'[u] : step'[d] = "write" /\ target'[d] = u
  <2>1. step[c] = "idle" /\ step' = [step EXCEPT ![c] = "remove"] /\ open' = open
    BY <1>2 DEF UninstallBegin, Begin, disk
  <2>2. PICK e \in ext : target' = [target EXCEPT ![c] = e.type]
    BY <1>2 DEF UninstallBegin, Begin
  <2>3. QED
    BY <1>a, <2>1, <2>2
<1>3. ASSUME NEW c \in Callers, MkdirAll(c) \/ InstallRegister(c) \/ UninstallFails(c)
      PROVE \A u \in Types : \A d \in open'[u] : step'[d] = "write" /\ target'[d] = u
  BY <1>a, <1>3 DEF MkdirAll, InstallRegister, UninstallFails, Fails, Goes, disk
<1>4. ASSUME NEW c \in Callers, WriteOpen(c) \/ WriteBytes(c)
      PROVE \A u \in Types : \A d \in open'[u] : step'[d] = "write" /\ target'[d] = u
  BY <1>a, <1>4 DEF WriteOpen, WriteBytes, Goes
<1>5. ASSUME NEW c \in Callers, InstallFails(c)
      PROVE \A u \in Types : \A d \in open'[u] : step'[d] = "write" /\ target'[d] = u
  BY <1>a, <1>5 DEF InstallFails, Fails, Goes, disk
<1>6. ASSUME NEW c \in Callers, RemoveAll(c)
      PROVE \A u \in Types : \A d \in open'[u] : step'[d] = "write" /\ target'[d] = u
  BY <1>a, <1>6 DEF RemoveAll, Goes
<1>7. CASE (\E a \in BOOLEAN : SetActive(a)) \/ Discover
  BY <1>a, <1>7 DEF SetActive, Discover, disk, callVars
<1>8. CASE Restart
  BY <1>8 DEF Restart
<1>9. QED
  BY <1>1, <1>2, <1>3, <1>4, <1>5, <1>6, <1>7, <1>8 DEF ExtNext

\* A call begins: it is the only one, or the history is not clean.
LEMMA ExtBeginStep ==
  ASSUME ExtInv, NEW c \in Callers, (\E t \in Types : InstallBegin(c, t)) \/ UninstallBegin(c), clean'
  PROVE  /\ \A d \in Callers : step'[d] # "idle" <=> d = c
         /\ step'[c] \in {"mkdir", "remove"}
         /\ Found' = Found /\ Found \subseteq {target'[c]}
         /\ step'[c] = "remove" => ext' = {} /\ known'
<1> USE DEF ExtInv, ExtTypeOK
<1>1. CASE \E t \in Types : InstallBegin(c, t)
  <2>1. PICK t \in Types : InstallBegin(c, t)
    BY <1>1
  <2>2. /\ Quiet /\ (\A u \in Types \ {t} : tree[u] # "file") /\ tree' = tree
        /\ step' = [step EXCEPT ![c] = "mkdir"] /\ target' = [target EXCEPT ![c] = t]
    BY <2>1 DEF InstallBegin, Begin, disk
  <2>3. QED
    BY <2>2 DEF Quiet, Found
<1>2. CASE UninstallBegin(c)
  <2>1. PICK e \in ext : /\ step' = [step EXCEPT ![c] = "remove"]
                         /\ target' = [target EXCEPT ![c] = e.type]
    BY <1>2 DEF UninstallBegin, Begin
  <2>2. clean /\ Quiet /\ ext' = {} /\ known' = known /\ tree' = tree
    BY <1>2 DEF UninstallBegin, disk
  <2>3. known /\ Found = {e.type}
    BY <2>2 DEF CallsApart, MapMatchesDisk
  <2>4. QED
    BY <2>1, <2>2, <2>3 DEF Quiet, Found
<1>3. QED
  BY <1>1, <1>2

\* What holds of a caller inside a clean call, and of the tree between clean calls.
CallAt(c) ==
  LET t == target[c] IN
  /\ Found \subseteq {t}
  /\ step[c] \in {"open", "write", "config"} => tree[t] # "none"
  /\ step[c] = "write" => t \in Found /\ c \in open[t] /\ wasm[t] = {}
  /\ step[c] = "config" => t \in Found /\ wasm[t] = {c}
  /\ step[c] = "remove" => ext = {} /\ known
Alone == \A c, d \in Callers : step[c] # "idle" /\ step[d] # "idle" => c = d
Whole == Quiet => \A t \in Found : Found = {t} /\ \E c \in Callers : wasm[t] = {c}
Agrees ==
  /\ Alone /\ Whole
  /\ \A c \in Callers : step[c] # "idle" => CallAt(c)
  /\ Quiet => /\ \A e \in ext : Found = {e.type} /\ \E c \in Callers : wasm[e.type] = {c}
              /\ known /\ ext = {} => Found = {}
              /\ \A e \in ext : e.active => wasm[e.type] = vetted

\* The invariant of the extensions in the terms of single entries and calls.
LEMMA ExtInvParts ==
  ExtInv <=> /\ ExtTypeOK
             /\ \A e, f \in ext : e = f
             /\ ext # {} => known
             /\ \A t \in Types : \A c \in open[t] : step[c] = "write" /\ target[c] = t
             /\ clean => Agrees
BY DEF ExtInv, CallsApart, MapMatchesDisk, ActiveIsVetted, Agrees, Alone, Whole, CallAt

\* A step of the one caller inside a clean call.
LEMMA ExtCallStep ==
  ASSUME ExtInv, clean, NEW c \in Callers,
         MkdirAll(c) \/ WriteOpen(c) \/ WriteBytes(c) \/ InstallRegister(c) \/ RemoveAll(c)
  PROVE  Agrees'
<1> USE DEF ExtTypeOK
<1>a. ExtTypeOK /\ Agrees
  BY ExtInvParts
<1>b. target[c] \in Types /\ target' = target
  BY <1>a DEF MkdirAll, WriteOpen, WriteBytes, InstallRegister, RemoveAll, Goes
<1>c. step[c] # "idle" /\ \A d \in Callers : d # c => step[d] = "idle"
  BY <1>a DEF Agrees, Alone, MkdirAll, WriteOpen, WriteBytes, InstallRegister, RemoveAll
<1>d. CallAt(c)
  BY <1>a, <1>c DEF Agrees
<1> DEFINE t == target[c]
<1>1. ASSUME NEW s \in {"open", "write", "config"}, Goes(c, s)
      PROVE  /\ Alone' /\ ~Quiet' /\ step'[c] = s
             /\ \A d \in Callers : step'[d] # "idle" => d = c
  BY <1>a, <1>1, <1>c DEF Goes, Alone, Quiet
<1>2. ASSUME Goes(c, "idle") PROVE Alone' /\ Quiet' /\ \A d \in Callers : step'[d] = "idle"
  BY <1>a, <1>2, <1>c DEF Goes, Alone, Quiet
<1>3. CASE MkdirAll(c)
  <2>1. /\ Goes(c, "open") /\ tree' = [tree EXCEPT ![t] = IF tree[t] = "none" THEN "dir" ELSE tree[t]]
        /\ UNCHANGED <<ext, known, wasm, open>>
    BY <1>3 DEF MkdirAll, extMap
  <2>2. tree'[t] # "none" /\ Found' = Found
    BY <1>a, <1>b, <2>1 DEF Found
  <2>3. CallAt(c)'
    BY <1>1, <1>b, <1>d, <2>1, <2>2 DEF CallAt
  <2>4. QED
    BY <1>1, <2>1, <2>3 DEF Agrees, Whole
<1>4. CASE WriteOpen(c)
  <2>1. /\ Goes(c, "write") /\ tree' = [tree EXCEPT ![t] = "file"]
        /\ wasm' = [wasm EXCEPT ![t] = {}] /\ open' = [open EXCEPT ![t] = open[t] \cup {c}]
    BY <1>4 DEF WriteOpen
  <2>2. /\ tree'[t] = "file" /\ wasm'[t] = {} /\ c \in open'[t] /\ t \in Found'
        /\ Found' \subseteq Found \cup {t}
    BY <1>a, <1>b, <2>1 DEF Found
  <2>3. CallAt(c)'
    BY <1>1, <1>b, <1>d, <2>1, <2>2 DEF CallAt
  <2>4. QED
    BY <1>1, <2>1, <2>3 DEF Agrees, Whole
<1>5. CASE WriteBytes(c)
  <2>1. step[c] = "write" /\ Goes(c, "config") /\ UNCHANGED tree
    BY <1>5 DEF WriteBytes
  <2>2. t \in Found /\ c \in open[t] /\ wasm[t] = {}
    BY <1>d, <2>1 DEF CallAt
  <2>3. wasm' = [wasm EXCEPT ![t] = {c}]
    BY <1>5, <2>2 DEF WriteBytes
  <2>4. Found' = Found /\ wasm'[t] = {c} /\ tree'[t] # "none"
    BY <1>a, <1>b, <2>1, <2>2, <2>3 DEF Found
  <2>5. CallAt(c)'
    BY <1>1, <1>b, <1>d, <2>1, <2>2, <2>4 DEF CallAt
  <2>6. QED
    BY <1>1, <2>1, <2>5 DEF Agrees, Whole
<1>6. CASE InstallRegister(c)
  <2>1. /\ step[c] = "config" /\ Goes(c, "idle") /\ ext' = {[type |-> t, active |-> FALSE]}
        /\ UNCHANGED <<tree, wasm>>
    BY <1>6 DEF InstallRegister, disk
  <2>2. Found' = {t} /\ wasm'[t] = {c}
    BY <1>d, <2>1 DEF CallAt, Found
  <2>3. (\A e \in ext' : e.type = t /\ ~e.active) /\ ext' # {}
    BY <2>1
  <2>4. Whole'
    BY <2>2 DEF Whole
  <2>5. QED
    BY <1>2, <2>1, <2>2, <2>3, <2>4 DEF Agrees
<1>7. CASE RemoveAll(c)
  <2>1. /\ step[c] = "remove" /\ Goes(c, "idle") /\ tree' = [tree EXCEPT ![t] = "none"]
        /\ UNCHANGED <<ext, known>>
    BY <1>7 DEF RemoveAll, extMap
  <2>2. Found' = {} /\ ext' = {}
    BY <1>a, <1>b, <1>d, <2>1 DEF CallAt, Found
  <2>3. QED
    BY <1>2, <2>1, <2>2 DEF Agrees, Whole
<1>8. QED
  BY <1>3, <1>4, <1>5, <1>6, <1>7

\* The methods that are one step, and the end of the process.
LEMMA ExtOtherStep ==
  ASSUME ExtInv, clean', (\E a \in BOOLEAN : SetActive(a)) \/ Discover \/ Restart
  PROVE  Agrees'
<1> USE DEF ExtTypeOK
<1>a. ExtTypeOK /\ (clean => Agrees) /\ (\A e, f \in ext : e = f) /\ (ext # {} => known)
  BY ExtInvParts
<1>b. clean /\ Agrees
  BY <1>a DEF SetActive, Discover, Restart
<1>1. ASSUME NEW a \in BOOLEAN, SetActive(a) PROVE Agrees'
  <2>1. PICK e \in ext : ext = {e}
    BY <1>1, <1>a DEF SetActive
  <2>2. ext' = {[e EXCEPT !.active = a]} /\ vetted' = IF a THEN CHOOSE w \in {wasm[e.type]} : TRUE ELSE vetted
    BY <1>1, <2>1 DEF SetActive
  <2>3. UNCHANGED <<known, disk, callVars>>
    BY <1>1 DEF SetActive
  <2>4. Alone' /\ Whole' /\ Found' = Found /\ Quiet' = Quiet
    BY <1>b, <2>3 DEF Agrees, Alone, Whole, Found, Quiet, disk, callVars
  <2>5. \A c \in Callers : step'[c] # "idle" => CallAt(c)'
    <3>1. ASSUME NEW c \in Callers, step[c] # "idle" PROVE CallAt(c)'
      <4>1. CallAt(c) /\ step[c] # "remove"
        BY <1>b, <2>1, <3>1 DEF Agrees, CallAt
      <4>2. QED
        BY <2>3, <2>4, <4>1 DEF CallAt, disk, callVars
    <3>2. QED
      BY <2>3, <3>1 DEF callVars
  <2>6. ASSUME Quiet PROVE /\ \A f \in ext' : Found = {f.type} /\ \E c \in Callers : wasm[f.type] = {c}
                           /\ \A f \in ext' : f.active => wasm[f.type] = vetted'
    <3>1. e \in Extension /\ Found = {e.type} /\ (\E c \in Callers : wasm[e.type] = {c})
          /\ (e.active => wasm[e.type] = vetted)
      BY <1>a, <1>b, <2>6 DEF Agrees
    <3>2. [e EXCEPT !.active = a].type = e.type /\ [e EXCEPT !.active = a].active = a
      BY <3>1 DEF Extension
    <3>3. a => vetted' = wasm[e.type]
      BY <2>2
    <3>4. QED
      BY <2>2, <3>1, <3>2, <3>3
  <2>7. QED
    BY <2>1, <2>2, <2>3, <2>4, <2>5, <2>6 DEF Agrees, disk, callVars
<1>2. CASE Discover
  <2>1. Quiet /\ UNCHANGED <<vetted, tree, wasm, open, step, target, calls>> /\ known'
    BY <1>2 DEF Discover, disk, callVars
  <2>2. Alone' /\ Whole' /\ Found' = Found /\ Quiet' /\ \A c \in Callers : step'[c] = "idle"
    BY <1>b, <2>1 DEF Agrees, Alone, Whole, Found, Quiet
  <2>3. \A t \in Found : Found = {t} /\ \E c \in Callers : wasm[t] = {c}
    BY <1>b, <2>1 DEF Agrees, Whole
  <2>4. CASE Found = {}
    <3>1. ext' = ext
      BY <1>2, <2>4 DEF Discover
    <3>2. ext = {}
      BY <1>b, <2>1, <2>4 DEF Agrees
    <3>3. QED
      BY <2>2, <2>4, <3>1, <3>2 DEF Agrees
  <2>5. CASE Found # {}
    <3>1. PICK t \in Found : Found = {t}
      BY <2>3, <2>5
    <3>2. t = "tool" \/ t = "channel"
      BY DEF Found, Types
    <3>3. ext' = {[type |-> t, active |-> FALSE]}
      BY <1>2, <3>1, <3>2 DEF Discover
    <3>4. QED
      <4>1. \A e \in ext' : e.type = t /\ ~e.active
        BY <3>3
      <4>2. \E c \in Callers : wasm'[t] = {c}
        BY <2>1, <2>3
      <4>3. ext' # {} /\ Found' = {t}
        BY <2>2, <3>1, <3>3
      <4>4. QED
        BY <2>2, <4>1, <4>2, <4>3 DEF Agrees
  <2>6. QED
    BY <2>4, <2>5
<1>3. CASE Restart
  <2>1. Quiet /\ UNCHANGED <<vetted, tree, wasm>> /\ ext' = {} /\ ~known'
        /\ step' = [c \in Callers |-> "idle"]
    BY <1>3 DEF Restart
  <2>2. Alone' /\ Whole' /\ \A c \in Callers : step'[c] = "idle"
    BY <1>b, <2>1 DEF Agrees, Alone, Whole, Found
  <2>3. QED
    BY <2>1, <2>2 DEF Agrees
<1>4. QED
  BY <1>1, <1>2, <1>3

\* Map, tree and activation agree between calls, whoever uses the manager and however
\* often, unless a call has failed, was overlapped or cut off (extensions.go).
THEOREM ExtensionsCorrect == ExtSpec => []ExtInv
<1>1. ExtInit => ExtInv
  <2> SUFFICES ASSUME ExtInit PROVE ExtInv
    OBVIOUS
  <2>1. ExtTypeOK
    <3>1. Cardinality(ext) <= 1
      BY FS_EmptySet DEF ExtInit
    <3>2. {known, clean} \subseteq BOOLEAN /\ ext \in SUBSET Extension /\ vetted \in SUBSET Callers
      BY DEF ExtInit
    <3>3. /\ tree \in [Types -> {"none", "dir", "file"}]
          /\ wasm \in [Types -> SUBSET Callers] /\ open \in [Types -> SUBSET Callers]
      BY DEF ExtInit
    <3>4. /\ step \in [Callers -> Steps] /\ target \in [Callers -> Types]
          /\ calls \in [Callers -> 0..MaxExtCalls]
      BY ExtensionsAssumption DEF ExtInit, Types, Steps
    <3>5. QED
      BY <3>1, <3>2, <3>3, <3>4 DEF ExtTypeOK
  <2>2. Agrees
    BY DEF ExtInit, Agrees, Alone, Whole, Found
  <2>3. QED
    BY <2>1, <2>2, ExtInvParts DEF ExtInit
<1>2. ExtInv /\ [ExtNext]_extVars => ExtInv'
  <2> SUFFICES ASSUME ExtInv, [ExtNext]_extVars PROVE ExtInv'
    OBVIOUS
  <2>1. CASE ExtNext
    <3>1. /\ \A e, f \in ext' : e = f
          /\ ext' # {} => known'
      BY <2>1, ExtMapStep DEF ExtInv
    <3>2. ExtTypeOK'
      BY <2>1, <3>1, ExtTypeStep DEF ExtInv
    <3>3. \A t \in Types : \A c \in open'[t] : step'[c] = "write" /\ target'[c] = t
      BY <2>1, OpenStep DEF ExtInv
    <3>4. ASSUME clean' PROVE Agrees'
      <4>1. ASSUME NEW c \in Callers, (\E t \in Types : InstallBegin(c, t)) \/ UninstallBegin(c)
            PROVE Agrees'
        <5>1. /\ \A d \in Callers : step'[d] # "idle" <=> d = c
              /\ step'[c] \in {"mkdir", "remove"}
              /\ Found' = Found /\ Found \subseteq {target'[c]}
              /\ step'[c] = "remove" => ext' = {} /\ known'
          BY <3>4, <4>1, ExtBeginStep
        <5>2. Alone' /\ Whole' /\ ~Quiet'
          BY <5>1 DEF Alone, Whole, Quiet
        <5>3. CallAt(c)'
          BY <5>1 DEF CallAt
        <5>4. QED
          BY <5>1, <5>2, <5>3 DEF Agrees
      <4>2. ASSUME NEW c \in Callers,
                   MkdirAll(c) \/ WriteOpen(c) \/ WriteBytes(c) \/ InstallRegister(c) \/ RemoveAll(c)
            PROVE Agrees'
        <5>1. clean
          BY <3>4, <4>2 DEF MkdirAll, WriteOpen, WriteBytes, InstallRegister, RemoveAll
        <5>2. QED
          BY <4>2, <5>1, ExtCallStep
      <4>3. ASSUME NEW c \in Callers, InstallFails(c) \/ UninstallFails(c) PROVE FALSE
        BY <3>4, <4>3 DEF InstallFails, UninstallFails, Fails
      <4>4. QED
        BY <2>1, <3>4, <4>1, <4>2, <4>3, ExtOtherStep DEF ExtNext
    <3>5. QED
      BY <3>1, <3>2, <3>3, <3>4
         DEF ExtInv, CallsApart, MapMatchesDisk, ActiveIsVetted, Agrees, Alone, Whole, CallAt
  <2>2. CASE UNCHANGED extVars
    <3>1. ExtTypeOK'
      BY <2>2 DEF ExtInv, ExtTypeOK, extVars, extMap, disk, callVars
    <3>2. CallsApart' /\ MapMatchesDisk' /\ ActiveIsVetted'
      BY <2>2 DEF ExtInv, CallsApart, MapMatchesDisk, ActiveIsVetted, Found, Quiet,
                  extVars, extMap, disk, callVars
    <3>3. QED
      BY <3>1, <3>2 DEF ExtInv
  <2>3. QED
    BY <2>1, <2>2
<1>3. QED
  BY <1>1, <1>2, PTL DEF ExtSpec

-----------------------------------------------------------------------------
(* The catalog.                                                            *)

\* What the entry of a manifest says: its name, the offers of the manifest, the
\* download before the build, and whether it is hidden.
LEMMA EntryFacts ==
  ASSUME NEW m \in ManifestType, NEW e \in ToRegistryEntry(m)
  PROVE  /\ e.name = m.name /\ e.hidden = m.hidden /\ e.kind # ""
         /\ m.kind = "mcp_server" => m.url
         /\ ToRegistryEntry(m) = {e}
         /\ KeepsOffers(m, e.source, {e.source} \cup e.fallback)
         /\ e.source \notin e.fallback
<1> DEFINE page == Source("mcp_url", "url")
           download == Source("wasm_download", "url")
           build == Source("wasm_buildable", "dir")
           empty == Source("wasm_buildable", "")
<1>1. page # download /\ page # build /\ page # empty /\ download # build /\ download # empty /\ build # empty
  BY DEF Source
<1>2. CASE m.kind = "mcp_server"
  <2>1. m.url /\ e = [name |-> m.name, kind |-> "mcp_server", source |-> page, fallback |-> {},
                      hint |-> mcpHint(m), hidden |-> m.hidden]
    BY <1>2 DEF ToRegistryEntry, toMcpRegistryEntry
  <2>2. ToRegistryEntry(m) = {e}
    BY <1>2, <2>1 DEF ToRegistryEntry, toMcpRegistryEntry
  <2> HIDE DEF page
  <2>3. /\ e.name = m.name /\ e.hidden = m.hidden /\ e.kind = "mcp_server"
        /\ e.source = page /\ e.fallback = {}
    BY <2>1
  <2>4. Offers(m) = {page}
    BY <1>2, <2>1 DEF Offers, page
  <2> HIDE DEF download, empty, build
  <2>5. KeepsOffers(m, page, {page})
    BY <1>1, <2>4 DEF KeepsOffers, download
  <2>6. QED
    BY <2>1, <2>2, <2>3, <2>5
<1>3. CASE m.kind # "mcp_server"
  <2> DEFINE loadable == m.artifact = "url"
             from == CASE loadable -> download
                       [] ~loadable /\ m.source = "dir" -> build
                       [] OTHER -> empty
             back == IF loadable THEN buildableSource(m) ELSE {}
             entry == [name |-> m.name, kind |-> ToExtensionKind(m.kind), source |-> from,
                       fallback |-> back, hint |-> wasmHint(m), hidden |-> m.hidden]
  <2>1. ToRegistryEntry(m) = {entry}
    BY <1>3 DEF ToRegistryEntry, toWasmRegistryEntry
  <2>2. ToExtensionKind(m.kind) # ""
    BY DEF ToExtensionKind
  <2>3. from = IF loadable THEN download ELSE IF m.source = "dir" THEN build ELSE empty
    OBVIOUS
  <2> HIDE DEF from, back
  <2>4. /\ e = entry /\ e.name = m.name /\ e.hidden = m.hidden /\ e.kind # ""
        /\ e.source = from /\ e.fallback = back
    <3>1. /\ entry.name = m.name /\ entry.hidden = m.hidden /\ entry.kind # ""
          /\ entry.source = from /\ entry.fallback = back
      BY <2>2
    <3> HIDE DEF entry
    <3>2. e \in {entry}
      BY <2>1
    <3>3. e = entry
      BY <3>2
    <3>4. QED
      BY <3>1, <3>3
  <2>5. m.source \in {"none", "empty", "dir"}
    BY DEF ManifestType
  <2>6. \A w : w \in Offers(m) <=> \/ w = download /\ loadable
                                   \/ w = build /\ m.source = "dir"
    BY <1>3 DEF Offers
  <2>7. \A w : w \in back <=> \/ w = empty /\ loadable /\ m.source = "empty"
                              \/ w = build /\ loadable /\ m.source = "dir"
    BY <2>5 DEF back, buildableSource
  <2> HIDE DEF download, build, empty, loadable
  <2> DEFINE had == {from} \cup back
  <2>8. \A w : w \in had <=> w = from \/ w \in back
    OBVIOUS
  <2> HIDE DEF had
  <2>9. Offers(m) \subseteq had
    BY <2>3, <2>6, <2>7, <2>8
  <2>10. had \ Offers(m) \subseteq {empty}
    BY <2>3, <2>5, <2>6, <2>7, <2>8
  <2>11. ASSUME m.source # "empty", Offers(m) # {} PROVE had \subseteq Offers(m)
    BY <2>3, <2>5, <2>6, <2>7, <2>8, <2>11
  <2>12. had = Offers(m) \/ Offers(m) = {} \/ m.source = "empty"
    BY <2>9, <2>11
  <2>13. (download \in Offers(m) => from = download) /\ from \notin back
    BY <1>1, <2>3, <2>6, <2>7
  <2>14. KeepsOffers(m, from, had)
    BY <2>9, <2>10, <2>12, <2>13 DEF KeepsOffers, download, empty
  <2>15. QED
    BY <1>3, <2>1, <2>4, <2>13, <2>14 DEF had
<1>4. QED
  BY <1>2, <1>3

\* Every manifest has an entry but an MCP server without a URL.
LEMMA EntryExists ==
  ASSUME NEW m \in ManifestType, m.kind = "mcp_server" => m.url
  PROVE  \E e : e \in ToRegistryEntry(m)
BY DEF ToRegistryEntry, toMcpRegistryEntry, toWasmRegistryEntry

\* The index is the catalog seen through the conversion: one entry for each usable
\* manifest, under its name.
LEMMA CatalogEntries ==
  ASSUME CatalogTypeOK
  PROVE  OffersKept /\ IndexMatchesCatalog
<1> USE DEF CatalogTypeOK
<1>1. ASSUME NEW e \in AllEntries
      PROVE  /\ e.name \in DOMAIN manifests /\ e \in ToRegistryEntry(manifests[e.name])
             /\ manifests[e.name] \in ManifestType
  <2>1. PICK n \in DOMAIN manifests : e \in ToRegistryEntry(manifests[n])
    BY <1>1 DEF AllEntries
  <2>2. manifests[n] \in ManifestType /\ manifests[n].name = n
    OBVIOUS
  <2>3. e.name = n
    <3> DEFINE m == manifests[n]
    <3>1. m \in ManifestType /\ e \in ToRegistryEntry(m) /\ m.name = n
      BY <2>1, <2>2
    <3> HIDE DEF m
    <3>2. e.name = m.name
      BY <3>1, EntryFacts, Zenon
    <3>3. QED
      BY <3>1, <3>2
  <2>4. QED
    BY <2>1, <2>2, <2>3
<1>2. OffersKept
  <2> SUFFICES ASSUME NEW e \in AllEntries
               PROVE  /\ KeepsOffers(manifests[e.name], e.source, {e.source} \cup e.fallback)
                      /\ e.source \notin e.fallback
    BY Zenon DEF OffersKept
  <2>1. e \in ToRegistryEntry(manifests[e.name]) /\ manifests[e.name] \in ManifestType
    BY <1>1
  <2> DEFINE m == manifests[e.name]
  <2>2. m \in ManifestType /\ e \in ToRegistryEntry(m)
    BY <2>1
  <2> HIDE DEF m
  <2>3. /\ KeepsOffers(m, e.source, {e.source} \cup e.fallback)
        /\ e.source \notin e.fallback
    BY <2>2, EntryFacts, Zenon
  <2>4. QED
    BY <2>3, Zenon DEF m
<1> DEFINE usable == {n \in DOMAIN manifests \ {""} : manifests[n].kind = "mcp_server" => manifests[n].url}
<1>3. ASSUME NEW e \in Index
      PROVE  /\ e.name \in usable /\ e.hidden = manifests[e.name].hidden
             /\ ToRegistryEntry(manifests[e.name]) = {e}
  <2>1. e \in AllEntries /\ e.name # ""
    BY <1>3 DEF Index
  <2>2. /\ e.name \in DOMAIN manifests /\ e \in ToRegistryEntry(manifests[e.name])
        /\ manifests[e.name] \in ManifestType
    BY <1>1, <2>1
  <2>3. QED
    BY <2>1, <2>2, EntryFacts
<1>4. ASSUME NEW n \in usable PROVE \E e \in Index : e.name = n
  <2>1. n \in DOMAIN manifests /\ n # "" /\ manifests[n] \in ManifestType /\ manifests[n].name = n
    BY <1>4
  <2>2. PICK e : e \in ToRegistryEntry(manifests[n])
    BY <1>4, <2>1, EntryExists
  <2>3. e.name = manifests[n].name /\ e.kind # ""
    <3> DEFINE m == manifests[n]
    <3>1. m \in ManifestType /\ e \in ToRegistryEntry(m)
      BY <2>1, <2>2
    <3> HIDE DEF m
    <3>2. e.name = m.name /\ e.kind # ""
      BY <3>1, EntryFacts, Zenon
    <3>3. QED
      BY <3>2 DEF m
  <2>4. QED
    BY <2>1, <2>2, <2>3 DEF Index, AllEntries
<1>5. \A d, e \in Index : d.name = e.name => d = e
  <2> SUFFICES ASSUME NEW d \in Index, NEW e \in Index, d.name = e.name PROVE d = e
    OBVIOUS
  <2>1. {d} = {e}
    BY <1>3
  <2>2. QED
    BY <2>1
<1> HIDE DEF usable
<1>6. {e.name : e \in Index} = usable
  <2>1. \A e \in Index : e.name \in usable
    BY <1>3
  <2>2. \A n \in usable : \E e \in Index : n = e.name
    BY <1>4
  <2>3. QED
    BY <2>1, <2>2, Zenon
<1>7. Cardinality(Index) = Cardinality(usable)
  <2> DEFINE f == [e \in Index |-> e.name]
  <2>1. f \in Bijection(Index, usable)
    <3>1. f \in [Index -> usable]
      BY <1>3
    <3>2. \A d, e \in Index : f[d] = f[e] => d = e
      BY <1>5
    <3>3. \A n \in usable : \E e \in Index : f[e] = n
      BY <1>4
    <3>4. QED
      BY <3>1, <3>2, <3>3, Fun_IsBij
  <2>2. IsFiniteSet(usable)
    BY FS_Subset DEF usable
  <2>3. f \in Injection(Index, usable) /\ f \in Surjection(Index, usable)
    BY <2>1 DEF Bijection
  <2>4. QED
    BY <2>2, <2>3, FS_Injection
<1>8. SearchEntries = SearchManifests("query") \cap usable
  <2>1. ASSUME NEW n PROVE n \in SearchEntries <=> n \in usable /\ ~manifests[n].hidden
    <3>1. n \in SearchEntries <=> \E e \in Index : e.name = n /\ ~e.hidden
      BY DEF SearchEntries
    <3>2. ASSUME NEW e \in Index, e.name = n, ~e.hidden PROVE n \in usable /\ ~manifests[n].hidden
      BY <1>3, <3>2
    <3>3. ASSUME n \in usable, ~manifests[n].hidden PROVE \E e \in Index : e.name = n /\ ~e.hidden
      <4>1. PICK e \in Index : e.name = n
        BY <1>4, <3>3
      <4>2. e.hidden = manifests[n].hidden
        BY <1>3, <4>1
      <4>3. QED
        BY <3>3, <4>1, <4>2
    <3>4. QED
      BY <3>1, <3>2, <3>3, Zenon
  <2>2. \A n \in usable : n \in DOMAIN manifests
    BY DEF usable
  <2>3. QED
    BY <2>1, <2>2 DEF SearchManifests
<1>9. QED
  BY <1>2, <1>6, <1>7, <1>8 DEF IndexMatchesCatalog, usable

\* Whatever manifests are loaded and registered, in any order and number, the index
\* and the searches agree with them (catalog.go, manifest.go, extensions/registry.go).
THEOREM CatalogCorrect == CatalogSpec => []CatalogInv
<1>1. CatalogInit => CatalogTypeOK
  BY CatalogAssumption, FS_EmptySet DEF CatalogInit, CatalogTypeOK
<1>2. CatalogTypeOK /\ [CatalogNext]_catalogVars => CatalogTypeOK'
  <2> SUFFICES ASSUME CatalogTypeOK, [CatalogNext]_catalogVars PROVE CatalogTypeOK'
    OBVIOUS
  <2>1. ASSUME NEW m \in Manifests, LoadFromDir(m) \/ Register(m) PROVE CatalogTypeOK'
    <3>1. /\ loads < MaxLoads /\ loads' = loads + 1 /\ manifests' = Put(manifests, m.name, m)
      BY <2>1 DEF LoadFromDir, Register
    <3>2. m \in ManifestType /\ m.name \in Names \cup {""}
      BY CatalogAssumption DEF ManifestType
    <3>3. loads' \in 0..MaxLoads
      <4>1. loads \in 0..MaxLoads /\ MaxLoads \in Nat
        BY CatalogAssumption DEF CatalogTypeOK
      <4>2. QED
        BY <3>1, <4>1
    <3>4. /\ DOMAIN manifests' = DOMAIN manifests \cup {m.name}
          /\ \A n \in DOMAIN manifests' : manifests'[n] = IF n = m.name THEN m ELSE manifests[n]
      BY <3>1 DEF Put
    <3>5. IsFiniteSet(DOMAIN manifests')
      <4>1. IsFiniteSet(DOMAIN manifests)
        BY DEF CatalogTypeOK
      <4>2. IsFiniteSet(DOMAIN manifests \cup {m.name})
        BY <4>1, FS_AddElement, Zenon
      <4>3. QED
        BY <3>4, <4>2, Zenon
    <3>6. QED
      BY <3>2, <3>3, <3>4, <3>5 DEF CatalogTypeOK
  <2>2. CASE UNCHANGED catalogVars
    BY <2>2 DEF catalogVars, CatalogTypeOK
  <2>3. QED
    BY <2>1, <2>2 DEF CatalogNext
<1>3. CatalogTypeOK => CatalogInv
  BY CatalogEntries DEF CatalogInv
<1>4. QED
  BY <1>1, <1>2, <1>3, PTL DEF CatalogSpec

-----------------------------------------------------------------------------
(* The configuration.                                                      *)

\* A nonempty set of numbers has a least one.
LEMMA Least ==
  ASSUME NEW T \in SUBSET Nat, T # {}
  PROVE  \E n \in T : \A m \in T : n <= m
<1>1. PICK n \in T : \A m \in T : ~(<<m, n>> \in OpToRel(<, Nat))
  BY WFMin, NatLessThanWellFounded
<1>2. \A m \in T : ~(m < n)
  BY <1>1 DEF OpToRel
<1>3. QED
  BY <1>2

\* The inputs of Load: they are read and never written.
Inputs == environ \in Environments /\ files \in Files

\* The environment is typed.
LEMMA EnvironType ==
  ASSUME Inputs
  PROVE  environ.s \in Settings /\ environ.minimax \in {"", "mmKey"}
BY ConfigAssumption DEF Inputs, Environment

\* The file that Load reads is one of those that exist.
LEMMA FirstType ==
  ASSUME Inputs, Present # {}
  PROVE  /\ First \in Present /\ files[First].state \in {"bad", "ok"}
         /\ files[First].state = "ok" => files[First].s \in Settings /\ files[First].s.jobs # "many"
<1>1. files \in Seq(File) /\ \A i \in DOMAIN files : files[i].state = "ok" => files[i].s \in Settings /\ files[i].s.jobs # "many"
  BY ConfigAssumption DEF Inputs
<1>2. Present \in SUBSET Nat
  BY <1>1 DEF Present
<1>3. \E i \in Present : \A j \in Present : i <= j
  BY <1>2, Least
<1>4. First \in Present
  BY <1>3 DEF First
<1>5. First \in DOMAIN files /\ files[First].state # "none"
  BY <1>4 DEF Present
<1>6. files[First] \in File
  BY <1>1, <1>5
<1>7. files[First].state \in {"none", "bad", "ok"}
  BY <1>6 DEF File
<1>8. QED
  BY <1>1, <1>4, <1>5, <1>7

\* The fields of a configuration with settings on top.
LEMMA OverlayFields ==
  ASSUME NEW c, NEW s
  PROVE  /\ Overlay(c, s).env = Or(s.env, c.env) /\ Overlay(c, s).driver = Or(s.driver, c.driver)
         /\ Overlay(c, s).dsn = Or(s.dsn, c.dsn) /\ Overlay(c, s).jobs = OrNumber(s.jobs, c.jobs)
         /\ Overlay(c, s).provider = Or(s.provider, c.provider)
         /\ Overlay(c, s).model = Or(s.model, c.model)
         /\ Overlay(c, s).key = Or(s.key, c.key) /\ Overlay(c, s).base = Or(s.base, c.base)
BY DEF Overlay

ConfigType == [env : Env \ {""}, jobs : Int, driver : Driver \ {""}, dsn : {"", "url"},
               provider : {"openai", "anthropic", "minimax"},
               model : {"gpt-4o-mini", "own", "MiniMax-M2.7"},
               key : {"", "envKey", "fileKey", "mmKey"},
               base : {"", "envBase", "fileBase", "minimax"}]

\* A number that parses, on top of a number, is one.
LEMMA NumberType ==
  ASSUME NEW n \in Numbers \ {"many"}, NEW d \in Int
  PROVE  OrNumber(n, d) \in Int
<1>1. Atoi["-1"] = -1 /\ Atoi["0"] = 0 /\ Atoi["3"] = 3
  BY DEF Atoi
<1>2. n \in {"", "-1", "0", "3"}
  BY DEF Numbers
<1>3. CASE n = ""
  BY <1>3 DEF OrNumber
<1>4. CASE n \in {"-1", "0", "3"}
  <2>1. OrNumber(n, d) = Atoi[n]
    BY <1>4 DEF OrNumber
  <2>2. Atoi[n] \in {-1, 0, 3}
    BY <1>1, <1>4
  <2>3. QED
    BY <2>1, <2>2
<1>5. QED
  BY <1>2, <1>3, <1>4

\* Settings on top of a configuration are a configuration.
LEMMA OverlayType ==
  ASSUME NEW c \in ConfigType, NEW s \in Settings, s.jobs # "many"
  PROVE  Overlay(c, s) \in ConfigType
<1>1. OrNumber(s.jobs, c.jobs) \in Int
  BY NumberType DEF ConfigType, Settings
<1>2. /\ Or(s.env, c.env) \in Env \ {""} /\ Or(s.driver, c.driver) \in Driver \ {""}
      /\ Or(s.dsn, c.dsn) \in {"", "url"}
  BY DEF Or, Settings, ConfigType
<1>3. /\ Or(s.provider, c.provider) \in {"openai", "anthropic", "minimax"}
      /\ Or(s.model, c.model) \in {"gpt-4o-mini", "own", "MiniMax-M2.7"}
  BY DEF Or, Settings, ConfigType
<1>4. /\ Or(s.key, c.key) \in {"", "envKey", "fileKey", "mmKey"}
      /\ Or(s.base, c.base) \in {"", "envBase", "fileBase", "minimax"}
  BY DEF Or, Settings, ConfigType
<1>5. QED
  <2> DEFINE e == Or(s.env, c.env)
             j == OrNumber(s.jobs, c.jobs)
             r == Or(s.driver, c.driver)
             n == Or(s.dsn, c.dsn)
             p == Or(s.provider, c.provider)
             m == Or(s.model, c.model)
             k == Or(s.key, c.key)
             b == Or(s.base, c.base)
  <2>1. Overlay(c, s) = [env |-> e, jobs |-> j, driver |-> r, dsn |-> n, provider |-> p,
                         model |-> m, key |-> k, base |-> b]
    BY DEF Overlay
  <2>2. /\ e \in Env \ {""} /\ j \in Int /\ r \in Driver \ {""} /\ n \in {"", "url"}
        /\ p \in {"openai", "anthropic", "minimax"} /\ m \in {"gpt-4o-mini", "own", "MiniMax-M2.7"}
        /\ k \in {"", "envKey", "fileKey", "mmKey"} /\ b \in {"", "envBase", "fileBase", "minimax"}
    BY <1>1, <1>2, <1>3, <1>4
  <2> HIDE DEF e, j, r, n, p, m, k, b
  <2>3. [env |-> e, jobs |-> j, driver |-> r, dsn |-> n, provider |-> p, model |-> m, key |-> k,
         base |-> b] \in ConfigType
    BY <2>2 DEF ConfigType
  <2>4. QED
    BY <2>1, <2>3

\* What the environment makes of the defaults, field by field.
LEMMA EnvFields ==
  ASSUME Inputs, environ.s.jobs # "many"
  PROVE  /\ FromEnv \in ConfigType
         /\ FromEnv.env = Or(environ.s.env, "development")
         /\ FromEnv.driver = Or(environ.s.driver, "memory")
         /\ FromEnv.dsn = Or(environ.s.dsn, "")
         /\ FromEnv.provider =
              IF environ.minimax # "" /\ environ.s.provider \in {"", "openai"} THEN "minimax"
              ELSE Or(environ.s.provider, "openai")
         /\ FromEnv.model =
              IF environ.minimax # "" /\ environ.s.model \in {"", "gpt-4o-mini"} THEN "MiniMax-M2.7"
              ELSE Or(environ.s.model, "gpt-4o-mini")
         /\ FromEnv.key = IF environ.minimax # "" THEN environ.minimax ELSE Or(environ.s.key, "")
         /\ FromEnv.base = Or(environ.s.base, IF environ.minimax # "" THEN "minimax" ELSE "")
<1> DEFINE s == [environ.s EXCEPT !.base = ""]
           b == Overlay(DefaultConfig, s)
           c == withMinimax(b, environ.minimax)
<1>1. environ.s \in Settings /\ environ.minimax \in {"", "mmKey"}
  BY EnvironType
<1>2. /\ s \in Settings /\ s.base = "" /\ s.jobs # "many" /\ s.env = environ.s.env
      /\ s.driver = environ.s.driver /\ s.dsn = environ.s.dsn /\ s.provider = environ.s.provider
      /\ s.model = environ.s.model /\ s.key = environ.s.key
  BY <1>1 DEF Settings
<1>3. DefaultConfig \in ConfigType
  BY DEF DefaultConfig, ConfigType, Env, Driver
<1> HIDE DEF s
<1>4. b \in ConfigType
  BY <1>2, <1>3, OverlayType
<1>5. /\ b.env = Or(environ.s.env, "development") /\ b.driver = Or(environ.s.driver, "memory")
      /\ b.dsn = Or(environ.s.dsn, "") /\ b.provider = Or(environ.s.provider, "openai")
      /\ b.model = Or(environ.s.model, "gpt-4o-mini") /\ b.key = Or(environ.s.key, "") /\ b.base = ""
  <2>1. /\ b.env = Or(s.env, DefaultConfig.env) /\ b.driver = Or(s.driver, DefaultConfig.driver)
        /\ b.dsn = Or(s.dsn, DefaultConfig.dsn) /\ b.provider = Or(s.provider, DefaultConfig.provider)
        /\ b.model = Or(s.model, DefaultConfig.model) /\ b.key = Or(s.key, DefaultConfig.key)
        /\ b.base = Or(s.base, DefaultConfig.base)
    BY OverlayFields
  <2> HIDE DEF b
  <2>2. QED
    BY <1>2, <2>1 DEF DefaultConfig, Or
<1> HIDE DEF b
<1>6. /\ c \in ConfigType /\ c.env = b.env /\ c.driver = b.driver /\ c.dsn = b.dsn
      /\ c.key = IF environ.minimax # "" THEN environ.minimax ELSE b.key
      /\ c.provider = IF environ.minimax # "" /\ b.provider \in {"", "openai"} THEN "minimax" ELSE b.provider
      /\ c.model = IF environ.minimax # "" /\ b.model \in {"", "gpt-4o-mini"} THEN "MiniMax-M2.7" ELSE b.model
      /\ c.base = IF environ.minimax # "" THEN Or(b.base, "minimax") ELSE b.base
  <2>1. CASE environ.minimax = ""
    BY <1>4, <2>1 DEF withMinimax
  <2>2. CASE environ.minimax = "mmKey"
    <3> DEFINE p == IF b.provider \in {"", "openai"} THEN "minimax" ELSE b.provider
               m == IF b.model \in {"", "gpt-4o-mini"} THEN "MiniMax-M2.7" ELSE b.model
               u == Or(b.base, "minimax")
    <3>1. c = [b EXCEPT !.key = "mmKey", !.provider = p, !.model = m, !.base = u]
      BY <2>2 DEF withMinimax
    <3>2. /\ p \in {"openai", "anthropic", "minimax"} /\ m \in {"gpt-4o-mini", "own", "MiniMax-M2.7"}
          /\ u \in {"", "envBase", "fileBase", "minimax"}
      BY <1>4 DEF ConfigType, Or
    <3> HIDE DEF c, p, m, u
    <3>3. /\ c \in ConfigType /\ c.env = b.env /\ c.driver = b.driver /\ c.dsn = b.dsn
          /\ c.key = "mmKey" /\ c.provider = p /\ c.model = m /\ c.base = u
      <4>1. c \in ConfigType
        BY <1>4, <3>1, <3>2 DEF ConfigType
      <4>2. c.env = b.env /\ c.driver = b.driver /\ c.dsn = b.dsn
        BY <1>4, <3>1 DEF ConfigType
      <4>3. c.key = "mmKey" /\ c.provider = p /\ c.model = m /\ c.base = u
        BY <1>4, <3>1 DEF ConfigType
      <4>4. QED
        BY <4>1, <4>2, <4>3
    <3>4. QED
      BY <2>2, <3>3 DEF p, m, u
  <2>3. QED
    BY <1>1, <2>1, <2>2
<1> HIDE DEF c
<1>7. FromEnv = [c EXCEPT !.base = Or(environ.s.base, c.base)]
  BY DEF FromEnv, c, b, s
<1>8. Or(environ.s.base, c.base) \in {"", "envBase", "fileBase", "minimax"}
  BY <1>1, <1>6 DEF Or, ConfigType, Settings
<1>9. /\ FromEnv \in ConfigType /\ FromEnv.env = c.env /\ FromEnv.driver = c.driver
      /\ FromEnv.dsn = c.dsn /\ FromEnv.provider = c.provider /\ FromEnv.model = c.model
      /\ FromEnv.key = c.key /\ FromEnv.base = Or(environ.s.base, c.base)
  BY <1>6, <1>7, <1>8 DEF ConfigType
<1>10. /\ environ.s.provider \in {"", "openai"} <=> b.provider \in {"", "openai"}
       /\ environ.s.model \in {"", "gpt-4o-mini"} <=> b.model \in {"", "gpt-4o-mini"}
       /\ b.base = "" /\ Or("", "minimax") = "minimax"
  BY <1>1, <1>5 DEF Or, Settings
<1>11. QED
  BY <1>5, <1>6, <1>9, <1>10

\* What the first file makes of that: a configuration, and a string of the file
\* wins over the environment.
LEMMA FileFields ==
  ASSUME Inputs, environ.s.jobs # "many", Present = {} \/ files[First].state = "ok"
  PROVE  /\ FromFile \in ConfigType
         /\ Present = {} => FromFile = FromEnv
         /\ Present # {} =>
              /\ files[First].s \in Settings
              /\ FromFile.env = Or(files[First].s.env, FromEnv.env)
              /\ FromFile.driver = Or(files[First].s.driver, FromEnv.driver)
              /\ FromFile.dsn = Or(files[First].s.dsn, FromEnv.dsn)
              /\ FromFile.provider = Or(files[First].s.provider, FromEnv.provider)
              /\ FromFile.model = Or(files[First].s.model, FromEnv.model)
              /\ FromFile.key = Or(files[First].s.key, FromEnv.key)
              /\ FromFile.base = Or(files[First].s.base, FromEnv.base)
<1>1. FromEnv \in ConfigType
  BY EnvFields
<1>2. CASE Present = {}
  BY <1>1, <1>2 DEF FromFile
<1>3. CASE Present # {}
  <2>1. files[First].s \in Settings /\ files[First].s.jobs # "many"
    BY <1>3, FirstType
  <2>2. FromFile = Overlay(FromEnv, files[First].s)
    BY <1>3 DEF FromFile
  <2>3. FromFile \in ConfigType
    BY <1>1, <2>1, <2>2, OverlayType
  <2>4. QED
    BY <1>3, <2>1, <2>2, <2>3, OverlayFields
<1>4. QED
  BY <1>2, <1>3

\* The inductive invariant of Load.
ConfigInductive == Inputs /\ cfg \in ConfigType /\ ConfigTypeOK /\ LayerByLayer

\* In a state that follows its layers the configuration that Load returns is the
\* one the properties speak of.
LEMMA ConfigLoaded ==
  ASSUME ConfigInductive
  PROVE  LayersInOrder /\ LoadedIsUsable /\ MinimaxComplete
<1> SUFFICES ASSUME phase = "loaded" PROVE LayersInOrder /\ LoadedIsUsable /\ MinimaxComplete
  BY DEF LayersInOrder, LoadedIsUsable, MinimaxComplete
<1>1. /\ Inputs /\ cfg \in ConfigType /\ environ.s.jobs # "many"
      /\ Present = {} \/ files[First].state = "ok"
      /\ Valid(cfg) /\ cfg = [FromFile EXCEPT !.jobs = IF @ <= 0 THEN 1 ELSE @]
  BY DEF ConfigInductive, LayerByLayer
<1>2. FromFile \in ConfigType
  BY <1>1, FileFields
<1>3. /\ cfg.env = FromFile.env /\ cfg.driver = FromFile.driver /\ cfg.dsn = FromFile.dsn
      /\ cfg.provider = FromFile.provider /\ cfg.model = FromFile.model
      /\ cfg.key = FromFile.key /\ cfg.base = FromFile.base
      /\ cfg.jobs = IF FromFile.jobs <= 0 THEN 1 ELSE FromFile.jobs
  <2> DEFINE f == FromFile
             j == IF f.jobs <= 0 THEN 1 ELSE f.jobs
  <2>1. cfg = [f EXCEPT !.jobs = j] /\ f \in ConfigType
    BY <1>1, <1>2
  <2> HIDE DEF f, j
  <2>2. /\ cfg.env = f.env /\ cfg.driver = f.driver /\ cfg.dsn = f.dsn
        /\ cfg.provider = f.provider /\ cfg.model = f.model
        /\ cfg.key = f.key /\ cfg.base = f.base /\ cfg.jobs = j
    BY <2>1 DEF ConfigType
  <2>3. QED
    BY <2>2 DEF f, j
<1>4. LoadedIsUsable
  <2>1. cfg.jobs >= 1
    <3>1. FromFile.jobs \in Int
      BY <1>2 DEF ConfigType
    <3>2. QED
      BY <1>3, <3>1
  <2>2. QED
    BY <1>1, <2>1 DEF Valid, LoadedIsUsable
<1>5. environ.s \in Settings /\ environ.minimax \in {"", "mmKey"}
  BY <1>1, EnvironType
<1> DEFINE given(field) == IF Present = {} THEN "" ELSE Given(First, field)
<1>6. /\ cfg.env = Or(given("env"), FromEnv.env) /\ cfg.driver = Or(given("driver"), FromEnv.driver)
      /\ cfg.dsn = Or(given("dsn"), FromEnv.dsn)
      /\ cfg.provider = Or(given("provider"), FromEnv.provider)
      /\ cfg.model = Or(given("model"), FromEnv.model)
      /\ cfg.key = Or(given("key"), FromEnv.key) /\ cfg.base = Or(given("base"), FromEnv.base)
  <2>1. CASE Present = {}
    BY <1>1, <1>3, <2>1, FileFields DEF Or
  <2>2. CASE Present # {}
    <3>1. given("env") = files[First].s.env /\ given("driver") = files[First].s.driver
          /\ given("dsn") = files[First].s.dsn /\ given("provider") = files[First].s.provider
          /\ given("model") = files[First].s.model /\ given("key") = files[First].s.key
          /\ given("base") = files[First].s.base
      BY <1>1, <2>2 DEF Given
    <3> HIDE DEF given
    <3>2. QED
      BY <1>1, <1>3, <2>2, <3>1, FileFields
  <2>3. QED
    BY <2>1, <2>2
<1>7. \A field \in {"env", "driver", "dsn", "provider", "model", "key", "base"} :
        given(field) \in {"", "envKey", "fileKey"} \/ field # "key"
  <2> SUFFICES given("key") \in {"", "envKey", "fileKey"}
    OBVIOUS
  <2>1. CASE Present = {}
    BY <2>1
  <2>2. CASE Present # {}
    <3>1. files[First].s \in Settings /\ files[First].state = "ok"
      BY <1>1, <2>2, FirstType
    <3>2. QED
      BY <2>2, <3>1 DEF Given, Settings
  <2>3. QED
    BY <2>1, <2>2
<1>8. LayersInOrder
  <2> SUFFICES ASSUME NEW field \in {"env", "driver", "dsn", "provider", "model", "key", "base"}
               PROVE  IF given(field) # "" THEN cfg[field] = given(field)
                      ELSE \/ cfg[field] = Or(environ.s[field], DefaultConfig[field])
                           \/ environ.minimax # "" /\ field \in {"provider", "model", "key", "base"}
    BY DEF LayersInOrder
  <2> HIDE DEF given
  <2>1. /\ DefaultConfig.env = "development" /\ DefaultConfig.driver = "memory"
        /\ DefaultConfig.dsn = "" /\ DefaultConfig.provider = "openai"
        /\ DefaultConfig.model = "gpt-4o-mini" /\ DefaultConfig.key = "" /\ DefaultConfig.base = ""
    BY DEF DefaultConfig
  <2>2. CASE field = "env"
    <3>1. cfg.env = Or(given("env"), FromEnv.env)
      BY <1>6
    <3>2. FromEnv.env = Or(environ.s.env, DefaultConfig.env)
      BY <1>1, <2>1, EnvFields
    <3>3. QED
      BY <2>2, <3>1, <3>2 DEF Or
  <2>3. CASE field = "driver"
    <3>1. cfg.driver = Or(given("driver"), FromEnv.driver)
      BY <1>6
    <3>2. FromEnv.driver = Or(environ.s.driver, DefaultConfig.driver)
      BY <1>1, <2>1, EnvFields
    <3>3. QED
      BY <2>3, <3>1, <3>2 DEF Or
  <2>4. CASE field = "dsn"
    <3>1. cfg.dsn = Or(given("dsn"), FromEnv.dsn)
      BY <1>6
    <3>2. FromEnv.dsn = Or(environ.s.dsn, DefaultConfig.dsn)
      BY <1>1, <2>1, EnvFields
    <3>3. QED
      BY <2>4, <3>1, <3>2 DEF Or
  <2>5. CASE field = "provider"
    <3>1. cfg.provider = Or(given("provider"), FromEnv.provider)
      BY <1>6
    <3>2. environ.minimax = "" => FromEnv.provider = Or(environ.s.provider, DefaultConfig.provider)
      BY <1>1, <2>1, EnvFields DEF Or
    <3>3. QED
      BY <2>5, <3>1, <3>2 DEF Or
  <2>6. CASE field = "model"
    <3>1. cfg.model = Or(given("model"), FromEnv.model)
      BY <1>6
    <3>2. environ.minimax = "" => FromEnv.model = Or(environ.s.model, DefaultConfig.model)
      BY <1>1, <2>1, EnvFields DEF Or
    <3>3. QED
      BY <2>6, <3>1, <3>2 DEF Or
  <2>7. CASE field = "key"
    <3>1. cfg.key = Or(given("key"), FromEnv.key)
      BY <1>6
    <3>2. environ.minimax = "" => FromEnv.key = Or(environ.s.key, DefaultConfig.key)
      BY <1>1, <2>1, EnvFields DEF Or
    <3>3. QED
      BY <2>7, <3>1, <3>2 DEF Or
  <2>8. CASE field = "base"
    <3>1. cfg.base = Or(given("base"), FromEnv.base)
      BY <1>6
    <3>2. environ.minimax = "" => FromEnv.base = Or(environ.s.base, DefaultConfig.base)
      BY <1>1, <2>1, EnvFields DEF Or
    <3>3. QED
      BY <2>8, <3>1, <3>2 DEF Or
  <2>9. QED
    BY <2>2, <2>3, <2>4, <2>5, <2>6, <2>7, <2>8
<1>9. MinimaxComplete
  <2> SUFFICES ASSUME cfg.key = "mmKey"
               PROVE  /\ environ.s.provider \in {"", "openai"} /\ given("provider") = ""
                            => cfg.provider = "minimax"
                      /\ environ.s.model \in {"", "gpt-4o-mini"} /\ given("model") = ""
                            => cfg.model = "MiniMax-M2.7"
                      /\ cfg.base # ""
    BY DEF MinimaxComplete
  <2>1. given("key") \in {"", "envKey", "fileKey"}
    BY <1>7
  <2> HIDE DEF given
  <2>2. environ.minimax # ""
    BY <1>1, <1>5, <1>6, <2>1, EnvFields DEF Or, Settings
  <2>3. QED
    BY <1>1, <1>6, <2>2, EnvFields DEF Or
<1>10. QED
  BY <1>4, <1>8, <1>9

\* Load applies the layers in their order: every step adds one.
LEMMA ConfigStep ==
  ASSUME ConfigInductive, [ConfigNext]_configVars
  PROVE  ConfigInductive'
<1> USE DEF ConfigInductive
<1>1. /\ environ' = environ /\ files' = files
  BY DEF ConfigNext, configVars, loadFromEnv, loadFromFile, validate
<1>2. /\ Inputs' /\ Present' = Present /\ First' = First /\ FromEnv' = FromEnv
      /\ FromFile' = FromFile
  BY <1>1 DEF Inputs, Present, First, FromEnv, FromFile
<1>3. ASSUME cfg' \in ConfigType, phase' \in {"env", "file", "validate", "loaded", "failed"}
      PROVE  ConfigTypeOK'
  BY <1>3 DEF ConfigTypeOK, ConfigType
<1>4. CASE loadFromEnv
  <2>1. cfg = DefaultConfig /\ phase = "env"
    BY <1>4 DEF loadFromEnv, LayerByLayer
  <2>2. CASE environ.s.jobs = "many"
    <3>1. cfg' = cfg /\ phase' = "failed"
      BY <1>4, <2>2 DEF loadFromEnv
    <3>2. QED
      BY <1>2, <1>3, <3>1 DEF LayerByLayer
  <2>3. CASE environ.s.jobs # "many"
    <3>1. cfg' = FromEnv /\ phase' = "file"
      BY <1>4, <2>1, <2>3 DEF loadFromEnv, FromEnv
    <3>2. FromEnv \in ConfigType
      BY <2>3, EnvFields
    <3>3. LayerByLayer'
      BY <1>1, <1>2, <2>3, <3>1 DEF LayerByLayer
    <3>4. QED
      BY <1>2, <1>3, <3>1, <3>2, <3>3
  <2>4. QED
    BY <2>2, <2>3
<1>5. CASE loadFromFile
  <2>1. cfg = FromEnv /\ phase = "file" /\ environ.s.jobs # "many"
    BY <1>5 DEF loadFromFile, LayerByLayer
  <2>2. CASE Present # {} /\ files[First].state = "bad"
    <3>1. cfg' = cfg /\ phase' = "failed"
      BY <1>5, <2>2 DEF loadFromFile
    <3>2. QED
      BY <1>2, <1>3, <3>1 DEF LayerByLayer
  <2>3. CASE Present = {} \/ files[First].state = "ok"
    <3>1. cfg' = FromFile /\ phase' = "validate"
      BY <1>5, <2>1, <2>3 DEF loadFromFile, FromFile
    <3>2. FromFile \in ConfigType
      BY <2>1, <2>3, FileFields
    <3>3. LayerByLayer'
      BY <1>1, <1>2, <2>1, <2>3, <3>1 DEF LayerByLayer
    <3>4. QED
      BY <1>2, <1>3, <3>1, <3>2, <3>3
  <2>4. QED
    BY <2>2, <2>3, FirstType
<1>6. CASE validate
  <2>1. /\ cfg = FromFile /\ phase = "validate" /\ environ.s.jobs # "many"
        /\ Present = {} \/ files[First].state = "ok"
    BY <1>6 DEF validate, LayerByLayer
  <2>2. CASE ~Valid(cfg)
    <3>1. cfg' = cfg /\ phase' = "failed"
      BY <1>6, <2>2 DEF validate
    <3>2. QED
      BY <1>2, <1>3, <3>1 DEF LayerByLayer
  <2>3. CASE Valid(cfg)
    <3>1. cfg' = (IF cfg.jobs <= 0 THEN [cfg EXCEPT !.jobs = 1] ELSE cfg) /\ phase' = "loaded"
      BY <1>6, <2>3 DEF validate
    <3>2. cfg' = [FromFile EXCEPT !.jobs = IF @ <= 0 THEN 1 ELSE @]
      BY <2>1, <3>1 DEF ConfigType
    <3>3. cfg' \in ConfigType /\ Valid(cfg')
      <4>1. cfg \in ConfigType /\ 1 \in Int
        OBVIOUS
      <4>2. cfg' \in ConfigType
        BY <3>1, <4>1 DEF ConfigType
      <4>3. cfg'.env = cfg.env /\ cfg'.driver = cfg.driver /\ cfg'.dsn = cfg.dsn
        BY <3>1, <4>1 DEF ConfigType
      <4>4. QED
        BY <2>3, <4>2, <4>3 DEF Valid
    <3>4. LayerByLayer'
      BY <1>1, <1>2, <2>1, <3>1, <3>2, <3>3 DEF LayerByLayer
    <3>5. QED
      BY <1>2, <1>3, <3>1, <3>3, <3>4
  <2>4. QED
    BY <2>2, <2>3
<1>7. CASE UNCHANGED configVars
  <2>1. cfg' = cfg /\ phase' = phase
    BY <1>7 DEF configVars
  <2>2. LayerByLayer'
    BY <1>1, <1>2, <2>1 DEF LayerByLayer
  <2>3. ConfigTypeOK'
    BY <2>1 DEF ConfigTypeOK
  <2>4. QED
    BY <1>2, <2>1, <2>2, <2>3
<1>8. QED
  BY <1>4, <1>5, <1>6, <1>7 DEF ConfigNext

\* Whatever the environment and the files hold, a configuration that Load returns
\* follows its layers and can be used (config.go).
THEOREM ConfigCorrect == ConfigSpec => []ConfigInv
<1>1. ConfigInit => ConfigInductive
  <2> SUFFICES ASSUME ConfigInit PROVE ConfigInductive
    OBVIOUS
  <2>1. cfg = DefaultConfig /\ phase = "env" /\ Inputs
    BY DEF ConfigInit, Inputs
  <2>2. DefaultConfig \in ConfigType
    BY DEF DefaultConfig, ConfigType, Env, Driver
  <2>3. ConfigTypeOK
    BY <2>1, <2>2 DEF ConfigTypeOK, ConfigType
  <2>4. QED
    BY <2>1, <2>2, <2>3 DEF ConfigInductive, LayerByLayer
<1>2. ConfigInductive /\ [ConfigNext]_configVars => ConfigInductive'
  BY ConfigStep
<1>3. ConfigInductive => ConfigInv
  BY ConfigLoaded DEF ConfigInductive, ConfigInv
<1>4. QED
  BY <1>1, <1>2, <1>3, PTL DEF ConfigSpec

-----------------------------------------------------------------------------
(* The path of a message.                                                  *)

\* The texts that the documents step may leave.
LEMMA ProcessTexts ==
  ASSUME NEW f \in Attachment, f.text \in {"", "given"}, NEW text \in Process(f)
  PROVE  /\ text \in {"", "given", "extracted", "truncated", "notice"}
         /\ ~f.document => text = f.text
         /\ f.document /\ text = "" =>
              f.content = "blank" \/ (f.type = "extension" /\ f.content = "broken")
<1>1. /\ f.document \in BOOLEAN /\ f.content \in {"broken", "blank", "text"} /\ f.size \in {"empty", "fits", "toolarge"}
      /\ f.type \in {"mime", "extension", "unknown"}
  BY DEF Attachment
<1>2. CASE ~f.document \/ f.text # ""
  BY <1>1, <1>2 DEF Process
<1>3. CASE f.document /\ f.text = "" /\ f.size # "fits"
  <2>1. Process(f) = {"notice"}
    BY <1>3 DEF Process
  <2>2. QED
    BY <1>3, <2>1
<1>4. CASE f.document /\ f.text = "" /\ f.size = "fits"
  <2>1. Process(f) = ExtractText(f)
    BY <1>4 DEF Process
  <2>2. CASE f.type = "unknown"
    BY <1>4, <2>1, <2>2 DEF ExtractText
  <2>3. CASE f.type # "unknown" /\ f.content = "blank"
    BY <1>4, <2>1, <2>3 DEF ExtractText
  <2>4. CASE f.type = "extension" /\ f.content = "broken"
    BY <1>4, <2>1, <2>4 DEF ExtractText
  <2>5. CASE f.type = "mime" /\ f.content = "broken"
    BY <1>4, <2>1, <2>5 DEF ExtractText
  <2>6. CASE f.type # "unknown" /\ f.content = "text"
    BY <1>1, <1>4, <2>1, <2>6 DEF ExtractText
  <2>7. QED
    BY <1>1, <2>2, <2>3, <2>4, <2>5, <2>6
<1>5. QED
  BY <1>1, <1>2, <1>3, <1>4

\* The hook events in the order in which they are triggered.
LEMMA Logs ==
  /\ Append(<<>>, "before:message") = <<"before:message">>
  /\ Append(<<"before:message">>, "before:tool_call") = <<"before:message">> \o <<"before:tool_call">>
  /\ Append(<<"before:message">> \o <<"before:tool_call">>, "after:tool_call")
       = <<"before:message">> \o <<"before:tool_call", "after:tool_call">>
  /\ Append(<<"before:message">>, "after:message") = <<"before:message">> \o <<>> \o <<"after:message">>
  /\ \A tool \in Seq(EventType) :
       /\ Append(<<"before:message">> \o tool, "after:message")
            = <<"before:message">> \o tool \o <<"after:message">>
       /\ Append(<<"before:message">> \o tool \o <<"after:message">>, "before:response")
            = <<"before:message">> \o tool \o <<"after:message", "before:response">>
<1>1. Append(<<>>, "before:message") = <<"before:message">>
  OBVIOUS
<1>2. Append(<<"before:message">>, "before:tool_call") = <<"before:message">> \o <<"before:tool_call">>
  OBVIOUS
<1>3. Append(<<"before:message">> \o <<"before:tool_call">>, "after:tool_call")
       = <<"before:message">> \o <<"before:tool_call", "after:tool_call">>
  OBVIOUS
<1>4. Append(<<"before:message">>, "after:message") = <<"before:message">> \o <<>> \o <<"after:message">>
  OBVIOUS
<1>5. ASSUME NEW tool \in Seq(EventType)
      PROVE  /\ Append(<<"before:message">> \o tool, "after:message")
                  = <<"before:message">> \o tool \o <<"after:message">>
             /\ Append(<<"before:message">> \o tool \o <<"after:message">>, "before:response")
                  = <<"before:message">> \o tool \o <<"after:message", "before:response">>
  <2>1. {"before:message", "after:message", "before:response"} \subseteq EventType
    BY DEF EventType
  <2>2. QED
    BY <2>1
<1>6. QED
  BY <1>1, <1>2, <1>3, <1>4, <1>5

\* A step of the hooks alone or of the skills: the message is where it was.
LEMMA QuietStep ==
  ASSUME PipelineInv,
         \/ \E e \in HookEvents : RegisterHook(e)
         \/ \E name \in SkillNames, t \in TrustLevel : RegisterSkill(name, t)
         \/ \E name \in SkillNames : RemoveSkill(name)
         \/ HookPasses \/ HookIgnored \/ UNCHANGED pipelineVars
  PROVE  PipelineInv'
<1>1. /\ hookLog' = hookLog /\ at' = at /\ UNCHANGED messageVars /\ UNCHANGED countVars
      /\ llmSet' = llmSet /\ prompt' = prompt /\ offered' = offered
  BY DEF RegisterHook, RegisterSkill, RemoveSkill, SetSkill, HookPasses, HookIgnored, pipelineVars,
     hookVars, skillVars
<1>2. /\ intent' = intent /\ file' = file /\ reply' = reply /\ events' = events
      /\ turnsAdded' = turnsAdded /\ toolRuns' = toolRuns
      /\ received' = received /\ broadcasts' = broadcasts
  BY <1>1 DEF messageVars, countVars
<1>3. handlers' \in [EventType -> 0..MaxHandlers] /\ calling' \in 0..MaxHandlers
  <2>1. handlers \in [EventType -> 0..MaxHandlers] /\ calling \in 0..MaxHandlers /\ MaxHandlers \in Nat
    BY PipelineAssumption DEF PipelineInv, PipelineTypeOK
  <2>2. ASSUME NEW e \in HookEvents, RegisterHook(e)
        PROVE  handlers' \in [EventType -> 0..MaxHandlers] /\ calling' = calling
    <3>1. e \in EventType
      BY PipelineAssumption
    <3>2. QED
      BY <2>1, <2>2, <3>1 DEF RegisterHook
  <2>3. ASSUME HookPasses \/ HookIgnored PROVE handlers' = handlers /\ calling' \in 0..MaxHandlers
    BY <2>1, <2>3 DEF HookPasses, HookIgnored
  <2>4. ASSUME NEW name \in SkillNames, NEW t, SetSkill(name, t)
        PROVE  handlers' = handlers /\ calling' = calling
    BY <2>4 DEF SetSkill, hookVars
  <2>5. ASSUME UNCHANGED pipelineVars PROVE handlers' = handlers /\ calling' = calling
    BY <2>5 DEF pipelineVars, hookVars
  <2>6. QED
    BY <2>1, <2>2, <2>3, <2>4, <2>5 DEF RegisterSkill, RemoveSkill
<1> DEFINE skillsOk == /\ skills' \in SkillTable /\ lost' \subseteq SkillNames
                       /\ at # "offer" => lost' = lost
                       /\ at = "offer" => \A n \in SkillNames \ lost' :
                                             prompt[n] = "installed" => skills'[n] = "installed"
<1>4. skillsOk
  <2>1. /\ skills \in SkillTable /\ lost \subseteq SkillNames
        /\ at = "offer" => \A n \in SkillNames \ lost :
                              prompt[n] = "installed" => skills[n] = "installed"
    BY DEF PipelineInv, PipelineTypeOK, OnItsWay
  <2>2. ASSUME NEW name \in SkillNames, NEW t \in TrustLevel \cup {"absent"}, SetSkill(name, t)
        PROVE  skillsOk
    <3>1. skills' = [skills EXCEPT ![name] = t]
      BY <2>2 DEF SetSkill
    <3>2. skills' \in SkillTable /\ \A n \in SkillNames : n # name => skills'[n] = skills[n]
      BY <2>1, <3>1 DEF SkillTable
    <3>3. skills'[name] = t
      BY <2>1, <3>1 DEF SkillTable
    <3>4. CASE at # "offer"
      <4>1. lost' = lost
        BY <2>2, <3>4 DEF SetSkill
      <4>2. QED
        BY <2>1, <3>2, <3>4, <4>1
    <3>5. CASE at = "offer" /\ t = "installed"
      <4>1. lost' = lost \ {name}
        BY <2>2, <3>5 DEF SetSkill
      <4>2. QED
        BY <2>1, <3>2, <3>3, <3>5, <4>1
    <3>6. CASE at = "offer" /\ t # "installed"
      <4>1. lost' = lost \cup {n \in {name} : skills[n] = "installed"}
        BY <2>2, <3>6 DEF SetSkill
      <4>2. QED
        BY <2>1, <3>2, <3>6, <4>1
    <3>7. QED
      BY <3>4, <3>5, <3>6
  <2>3. ASSUME skills' = skills, lost' = lost PROVE skillsOk
    BY <2>1, <2>3
  <2>4. QED
    BY <2>2, <2>3 DEF RegisterSkill, RemoveSkill, RegisterHook, HookPasses, HookIgnored, pipelineVars,
       skillVars, TrustLevel
<1>5. PipelineTypeOK'
  BY <1>1, <1>2, <1>3, <1>4 DEF PipelineInv, PipelineTypeOK
<1>6. OnItsWay'
  <2>1. /\ Passed(<<"after:message">>)' = Passed(<<"after:message">>)
        /\ Passed(<<"after:message", "before:response">>)' = Passed(<<"after:message", "before:response">>)
    BY <1>1, <1>2 DEF Passed, ToolLogs
  <2>2. Published(0)' = Published(0) /\ Published(1)' = Published(1) /\ Refused' = Refused
    BY <1>1, <1>2 DEF Published, Refused, Rejected
  <2>3. QED
    BY <1>1, <1>2, <1>4, <2>1, <2>2 DEF PipelineInv, OnItsWay
<1>7. HooksPaired' /\ ResponseEvents'
  BY <1>1, <1>2 DEF PipelineInv, HooksPaired, ResponseEvents, Passed, ToolLogs, Published, Refused, Rejected
<1>8. DocumentText' /\ PromptIsAttenuated'
  BY <1>1, <1>2, <1>4 DEF PipelineInv, DocumentText, PromptIsAttenuated
<1>9. QED
  BY <1>5, <1>6, <1>7, <1>8 DEF PipelineInv

\* What tools trigger are sequences of events.
LEMMA ToolLogsType ==
  ASSUME toolRuns \in Nat
  PROVE  ToolLogs \subseteq Seq(EventType)
<1>1. /\ <<>> \in Seq(EventType) /\ <<"before:tool_call">> \in Seq(EventType)
      /\ <<"before:tool_call", "after:tool_call">> \in Seq(EventType)
  BY DEF EventType
<1>2. ASSUME NEW n \in 1..toolRuns PROVE Pairs(n) \in Seq(EventType)
  <2>1. 2 * n \in Nat
    OBVIOUS
  <2>2. Pairs(n) \in [1..(2 * n) -> EventType]
    BY DEF Pairs, EventType
  <2>3. QED
    BY <2>1, <2>2
<1>3. QED
  BY <1>1, <1>2 DEF ToolLogs

\* A Trigger takes the handlers of its event.
LEMMA TriggerType ==
  ASSUME PipelineTypeOK, NEW e \in EventType, Trigger(e)
  PROVE  /\ handlers' \in [EventType -> 0..MaxHandlers] /\ calling' \in 0..MaxHandlers
         /\ hookLog' \in Seq(EventType) /\ hookLog' = Append(hookLog, e) /\ at' = e
<1>1. handlers \in [EventType -> 0..MaxHandlers] /\ hookLog \in Seq(EventType)
  BY DEF PipelineTypeOK
<1>2. at' = e /\ calling' = handlers[e] /\ hookLog' = Append(hookLog, e) /\ handlers' = handlers
  BY DEF Trigger
<1>3. Append(hookLog, e) \in Seq(EventType)
  BY <1>1
<1>4. QED
  BY <1>1, <1>2, <1>3

\* A handler has its response: the hooks after the message are next.
LEMMA RespondStep ==
  ASSUME PipelineInv, NEW r \in {"ok", "error", "pending_gate"}, Respond(r),
         UNCHANGED <<intent, file, toolRuns, countVars, skillVars>>,
         events' \in Nat, turnsAdded' \in Nat, at \notin {"idle", "documents"},
         NEW tool \in ToolLogs,
         Append(hookLog, "after:message") = <<"before:message">> \o tool \o <<"after:message">>,
         intent = "command" => toolRuns = 0,
         intent = "tool" => toolRuns = 1 \/ (toolRuns = 0 /\ r = "error"), Published(0)'
  PROVE  PipelineInv'
<1> USE DEF PipelineInv
<1>1. /\ reply' = r /\ at' = "after:message" /\ intent' = intent /\ file' = file
      /\ toolRuns' = toolRuns /\ received' = received /\ broadcasts' = broadcasts
      /\ llmSet' = llmSet /\ skills' = skills /\ prompt' = prompt /\ lost' = lost
        /\ offered' = offered
      /\ hookLog' = Append(hookLog, "after:message")
  BY DEF Respond, Trigger, countVars, skillVars
<1>2. PipelineTypeOK'
  <2>1. /\ handlers' \in [EventType -> 0..MaxHandlers] /\ calling' \in 0..MaxHandlers
        /\ hookLog' \in Seq(EventType) /\ "after:message" \in EventType
    BY TriggerType DEF Respond, EventType
  <2>2. QED
    BY <1>1, <2>1 DEF PipelineTypeOK
<1>3. Passed(<<"after:message">>)'
  BY <1>1 DEF Passed, ToolLogs
<1>4. OnItsWay'
  BY <1>1, <1>3 DEF OnItsWay
<1>5. HooksPaired' /\ ResponseEvents' /\ DocumentText' /\ PromptIsAttenuated'
  BY <1>1 DEF HooksPaired, ResponseEvents, DocumentText, PromptIsAttenuated
<1>6. QED
  BY <1>2, <1>4, <1>5

\* The steps that end in a response, whichever handler took the message.
LEMMA AnswerStep ==
  ASSUME PipelineInv,
         \/ AnswerDirectly \/ ToolRejected \/ ToolEnds \/ Echo \/ AskFails \/ AskText
         \/ ChainPauses \/ ChainEnds \/ ChainFails
  PROVE  PipelineInv'
<1>1. /\ events \in Nat /\ turnsAdded \in Nat /\ toolRuns \in Nat /\ intent \in Intents
      /\ events + 1 \in Nat /\ turnsAdded + 1 \in Nat
  <2>1. events \in Nat /\ turnsAdded \in Nat /\ toolRuns \in Nat /\ intent \in Intents
    BY DEF PipelineInv, PipelineTypeOK
  <2>2. QED
    BY <2>1
<1>2. OnItsWay
  BY DEF PipelineInv
<1>3. /\ intent # "tool" => <<>> \in ToolLogs
      /\ intent = "tool" /\ toolRuns = 0 => <<"before:tool_call">> \in ToolLogs
      /\ intent = "tool" /\ toolRuns = 1 => <<"before:tool_call", "after:tool_call">> \in ToolLogs
  BY DEF ToolLogs
<1>5. ASSUME AnswerDirectly \/ Echo \/ AskFails \/ AskText \/ ChainPauses \/ ChainEnds \/ ChainFails
      PROVE  PipelineInv'
  <2>1. /\ hookLog = <<"before:message">> /\ at \notin {"idle", "documents"} /\ intent # "tool"
        /\ events = 0 /\ turnsAdded = 0
    BY <1>2, <1>5 DEF OnItsWay, Returned, AnswerDirectly, Echo, AskFails, AskText, ChainPauses,
       ChainEnds, ChainFails
  <2>2. UNCHANGED <<intent, file, toolRuns, countVars, skillVars>>
    BY <1>5 DEF AnswerDirectly, Echo, AskFails, AskText, ChainPauses, ChainEnds, ChainFails
  <2>3. PICK r \in {"ok", "error", "pending_gate"} :
          /\ Respond(r) /\ events' \in Nat /\ turnsAdded' \in Nat /\ Published(0)'
    <3>1. CASE AnswerDirectly
      <4>1. /\ Respond("ok") /\ toolRuns = 0 /\ events' = events /\ turnsAdded' = turnsAdded
        BY <1>2, <3>1 DEF AnswerDirectly, Returned, OnItsWay
      <4>2. Published(0)'
        BY <2>1, <2>2, <4>1 DEF Published, Respond
      <4>3. QED
        BY <1>1, <4>1, <4>2
    <3>2. CASE Echo
      <4>1. /\ Respond("ok") /\ toolRuns = 0 /\ events' = events /\ turnsAdded' = turnsAdded + 1
        BY <1>2, <3>2 DEF Echo, Returned, OnItsWay
      <4>2. Published(0)'
        BY <2>1, <2>2, <4>1 DEF Published, Respond
      <4>3. QED
        BY <1>1, <4>1, <4>2
    <3>3. CASE AskFails
      <4>1. /\ Respond("error") /\ toolRuns = 0 /\ events' = events /\ turnsAdded' = turnsAdded
        BY <1>2, <3>3 DEF AskFails, OnItsWay
      <4>2. Published(0)'
        BY <2>1, <2>2, <4>1 DEF Published, Respond
      <4>3. QED
        BY <1>1, <4>1, <4>2
    <3>4. CASE AskText
      <4>1. /\ Respond("ok") /\ toolRuns = 0 /\ events' = events /\ turnsAdded' = turnsAdded + 1
        BY <1>2, <3>4 DEF AskText, OnItsWay
      <4>2. Published(0)'
        BY <2>1, <2>2, <4>1 DEF Published, Respond
      <4>3. QED
        BY <1>1, <4>1, <4>2
    <3>5. CASE ChainPauses
      <4>1. /\ Respond("pending_gate") /\ events' = events /\ turnsAdded' = turnsAdded
        BY <3>5 DEF ChainPauses
      <4>2. Published(0)'
        BY <2>1, <2>2, <4>1 DEF Published, Respond
      <4>3. QED
        BY <1>1, <4>1, <4>2
    <3>6. CASE ChainEnds
      <4>1. /\ Respond("ok") /\ toolRuns > 0 /\ events' = events + 1 /\ turnsAdded' = turnsAdded + 1
            /\ intent \in {"query", "chat"}
        BY <1>2, <3>6 DEF ChainEnds, OnItsWay
      <4>2. Published(0)'
        BY <2>1, <2>2, <4>1 DEF Published, Respond
      <4>3. QED
        BY <1>1, <4>1, <4>2
    <3>7. CASE ChainFails
      <4>1. /\ Respond("error") /\ events' = events /\ turnsAdded' = turnsAdded
        BY <3>7 DEF ChainFails
      <4>2. Published(0)'
        BY <2>1, <2>2, <4>1 DEF Published, Respond
      <4>3. QED
        BY <1>1, <4>1, <4>2
    <3>8. QED
      BY <1>5, <3>1, <3>2, <3>3, <3>4, <3>5, <3>6, <3>7
  <2> DEFINE tool == <<>>
  <2>4. Append(hookLog, "after:message") = <<"before:message">> \o tool \o <<"after:message">>
    BY <2>1, Logs
  <2>5. tool \in ToolLogs
    BY <1>3, <2>1
  <2> HIDE DEF tool
  <2>6. intent = "command" => toolRuns = 0
    BY <1>2, <1>5 DEF OnItsWay, Returned, AnswerDirectly, Echo, AskFails, AskText, ChainPauses,
       ChainEnds, ChainFails
  <2>7. QED
    BY <2>1, <2>2, <2>3, <2>4, <2>5, <2>6, RespondStep, Zenon
<1>6. CASE ToolRejected
  <2>1. /\ hookLog = <<"before:message">> \o <<"before:tool_call">> /\ at \notin {"idle", "documents"}
        /\ intent = "tool" /\ events = 0 /\ turnsAdded = 0 /\ toolRuns = 0
    BY <1>2, <1>6 DEF OnItsWay, ToolRejected
  <2>2. /\ UNCHANGED <<intent, file, toolRuns, countVars, skillVars>>
        /\ Respond("error") /\ events' = events /\ turnsAdded' = turnsAdded
    BY <1>6 DEF ToolRejected
  <2>3. Published(0)'
    BY <2>1, <2>2 DEF Published, Respond
  <2> DEFINE tool == <<"before:tool_call">>
  <2>4. tool \in Seq(EventType) /\ tool \in ToolLogs
    BY <1>1, <1>3, <2>1, ToolLogsType
  <2>5. hookLog = <<"before:message">> \o tool
    BY <2>1
  <2> HIDE DEF tool
  <2>6. Append(hookLog, "after:message") = <<"before:message">> \o tool \o <<"after:message">>
    BY <2>4, <2>5, Logs
  <2>7. /\ intent = "command" => toolRuns = 0
        /\ intent = "tool" => toolRuns = 1 \/ (toolRuns = 0 /\ "error" = "error")
        /\ events' \in Nat /\ turnsAdded' \in Nat /\ "error" \in {"ok", "error", "pending_gate"}
    BY <1>1, <2>1, <2>2, <2>4
  <2>8. QED
    BY <2>1, <2>2, <2>3, <2>4, <2>6, <2>7, RespondStep, Zenon
<1>7. CASE ToolEnds
  <2>1. /\ hookLog = <<"before:message">> \o <<"before:tool_call", "after:tool_call">>
        /\ at \notin {"idle", "documents"}
        /\ intent = "tool" /\ events = 0 /\ turnsAdded = 0 /\ toolRuns = 1
    BY <1>2, <1>7 DEF OnItsWay, ToolEnds, Returned
  <2>2. /\ UNCHANGED <<intent, file, toolRuns, countVars, skillVars>>
        /\ Respond("ok") /\ events' = events /\ turnsAdded' = turnsAdded + 1
    BY <1>7 DEF ToolEnds
  <2>3. Published(0)'
    BY <2>1, <2>2 DEF Published, Respond
  <2> DEFINE tool == <<"before:tool_call", "after:tool_call">>
  <2>4. tool \in Seq(EventType) /\ tool \in ToolLogs
    BY <1>1, <1>3, <2>1, ToolLogsType
  <2>5. hookLog = <<"before:message">> \o tool
    BY <2>1
  <2> HIDE DEF tool
  <2>6. Append(hookLog, "after:message") = <<"before:message">> \o tool \o <<"after:message">>
    BY <2>4, <2>5, Logs
  <2>7. /\ intent = "command" => toolRuns = 0
        /\ intent = "tool" => toolRuns = 1 \/ (toolRuns = 0 /\ "ok" = "error")
        /\ events' \in Nat /\ turnsAdded' \in Nat /\ "ok" \in {"ok", "error", "pending_gate"}
    BY <1>1, <2>1, <2>2, <2>4
  <2>8. QED
    BY <2>1, <2>2, <2>3, <2>4, <2>6, <2>7, RespondStep, Zenon
<1>8. QED
  BY <1>5, <1>6, <1>7

\* A message comes in and its attachment is read.
LEMMA EntryStep ==
  ASSUME PipelineInv, (\E i \in Intents, f \in Attachments : Receive(i, f)) \/ Documents
  PROVE  PipelineInv'
<1> USE DEF PipelineInv
<1>1. ASSUME NEW i \in Intents, NEW f \in Attachments, Receive(i, f) PROVE PipelineInv'
  <2>1. /\ at' = "documents" /\ intent' = i /\ file' = f /\ reply' = "" /\ events' = 0
        /\ turnsAdded' = 0 /\ toolRuns' = 0 /\ hookLog' = <<>> /\ received' = received + 1
        /\ broadcasts' = broadcasts /\ handlers' = handlers /\ calling' = calling
        /\ llmSet' = llmSet /\ skills' = skills /\ prompt' = prompt /\ lost' = lost
        /\ offered' = offered
    BY <1>1 DEF Receive, skillVars
  <2>2. f \in Attachment /\ f.text \in {"", "given"}
    BY AttachmentAssumption
  <2>3. received' \in Nat
    <3>1. received \in Nat /\ received' = received + 1
      BY <2>1 DEF PipelineTypeOK
    <3> HIDE DEF PipelineInv
    <3>2. QED
      BY <3>1
  <2>4. hookLog' \in Seq(EventType)
    <3>1. hookLog' = <<>>
      BY <2>1
    <3> HIDE DEF PipelineInv
    <3>2. QED
      BY <3>1
  <2>5. /\ events' \in Nat /\ turnsAdded' \in Nat /\ toolRuns' \in Nat
        /\ received' \in Nat /\ broadcasts' \in Nat
    BY <2>1, <2>3 DEF PipelineTypeOK
  <2>6. PipelineTypeOK'
    <3>1. /\ at' = "documents" /\ intent' \in Intents /\ file' \in Attachment /\ reply' = ""
          /\ handlers' = handlers /\ calling' = calling
          /\ llmSet' = llmSet /\ skills' = skills /\ prompt' = prompt /\ lost' = lost
        /\ offered' = offered
      BY <2>1, <2>2
    <3>2. QED
      BY <2>4, <2>5, <3>1 DEF PipelineTypeOK
  <2>7. QED
    BY <2>1, <2>2, <2>6 DEF OnItsWay, HooksPaired, ResponseEvents, DocumentText, PromptIsAttenuated
<1>2. CASE Documents
  <2>1. PICK text \in Process(file) : file' = [file EXCEPT !.text = text]
    BY <1>2 DEF Documents
  <2>2. /\ at = "documents" /\ Trigger("before:message") /\ "before:message" \in EventType
        /\ intent' = intent /\ reply' = reply /\ events' = events /\ turnsAdded' = turnsAdded
        /\ toolRuns' = toolRuns /\ received' = received /\ broadcasts' = broadcasts
        /\ llmSet' = llmSet /\ skills' = skills /\ prompt' = prompt /\ lost' = lost
        /\ offered' = offered
    BY <1>2 DEF Documents, countVars, skillVars, EventType
  <2>3. /\ hookLog = <<>> /\ file.text \in {"", "given"} /\ file \in Attachment
        /\ events = 0 /\ turnsAdded = 0 /\ toolRuns = 0
    BY <2>2 DEF OnItsWay, PipelineTypeOK
  <2>4. /\ text \in {"", "given", "extracted", "truncated", "notice"}
        /\ ~file.document => text = file.text
        /\ file.document /\ text = "" =>
             file.content = "blank" \/ (file.type = "extension" /\ file.content = "broken")
    BY <2>3, ProcessTexts
  <2>5. /\ file' \in Attachment /\ file'.document = file.document /\ file'.text = text
        /\ file'.type = file.type /\ file'.content = file.content
    BY <2>1, <2>3, <2>4 DEF Attachment
  <2>6. /\ handlers' \in [EventType -> 0..MaxHandlers] /\ calling' \in 0..MaxHandlers
        /\ hookLog' \in Seq(EventType) /\ hookLog' = Append(hookLog, "before:message")
        /\ at' = "before:message"
    BY <2>2, TriggerType
  <2>7. PipelineTypeOK'
    BY <2>2, <2>5, <2>6 DEF PipelineTypeOK
  <2>8. hookLog' = <<"before:message">>
    BY <2>3, <2>6, Logs
  <2>9. DocumentText'
    BY <2>3, <2>4, <2>5 DEF DocumentText
  <2>10. OnItsWay' /\ HooksPaired' /\ ResponseEvents' /\ PromptIsAttenuated'
    BY <2>2, <2>3, <2>6, <2>8 DEF OnItsWay, HooksPaired, ResponseEvents, PromptIsAttenuated
  <2>11. QED
    BY <2>7, <2>9, <2>10
<1>3. QED
  BY <1>1, <1>2

\* A tool on the user's command, between its two events.
LEMMA ToolStep ==
  ASSUME PipelineInv, ToolBegins \/ ToolDispatch
  PROVE  PipelineInv'
<1> USE DEF PipelineInv
<1>1. /\ intent' = intent /\ file' = file /\ reply' = reply /\ events' = events
      /\ turnsAdded' = turnsAdded /\ received' = received /\ broadcasts' = broadcasts
      /\ llmSet' = llmSet /\ skills' = skills /\ prompt' = prompt /\ lost' = lost
        /\ offered' = offered
  BY DEF ToolBegins, ToolDispatch, messageVars, countVars, skillVars
<1>2. toolRuns \in Nat /\ file \in Attachment
  BY DEF PipelineTypeOK
<1>3. CASE ToolBegins
  <2>1. /\ at = "before:message" /\ intent = "tool" /\ Trigger("before:tool_call")
        /\ "before:tool_call" \in EventType /\ toolRuns' = toolRuns
    BY <1>3 DEF ToolBegins, Returned, messageVars, EventType
  <2>2. /\ handlers' \in [EventType -> 0..MaxHandlers] /\ calling' \in 0..MaxHandlers
        /\ hookLog' \in Seq(EventType) /\ hookLog' = Append(hookLog, "before:tool_call")
        /\ at' = "before:tool_call"
    BY <2>1, TriggerType
  <2>3. PipelineTypeOK'
    BY <1>1, <2>1, <2>2 DEF PipelineTypeOK
  <2>4. hookLog' = <<"before:message">> \o <<"before:tool_call">>
    BY <2>1, <2>2, Logs DEF OnItsWay
  <2>5. OnItsWay'
    BY <1>1, <2>1, <2>2, <2>4 DEF OnItsWay
  <2>6. HooksPaired' /\ ResponseEvents' /\ DocumentText' /\ PromptIsAttenuated'
    BY <1>1, <2>1, <2>2 DEF HooksPaired, ResponseEvents, DocumentText, PromptIsAttenuated
  <2>7. QED
    BY <2>3, <2>5, <2>6
<1>4. CASE ToolDispatch
  <2>1. /\ at = "before:tool_call" /\ Trigger("after:tool_call")
        /\ "after:tool_call" \in EventType /\ toolRuns' = toolRuns + 1
    BY <1>4 DEF ToolDispatch, Returned, EventType
  <2>2. /\ handlers' \in [EventType -> 0..MaxHandlers] /\ calling' \in 0..MaxHandlers
        /\ hookLog' \in Seq(EventType) /\ hookLog' = Append(hookLog, "after:tool_call")
        /\ at' = "after:tool_call"
    BY <2>1, TriggerType
  <2>3. toolRuns' \in Nat
    BY <1>2, <2>1
  <2>4. PipelineTypeOK'
    BY <1>1, <2>1, <2>2, <2>3 DEF PipelineTypeOK
  <2>5. hookLog' = <<"before:message">> \o <<"before:tool_call", "after:tool_call">>
    BY <2>1, <2>2, Logs DEF OnItsWay
  <2>6. OnItsWay'
    BY <1>1, <2>1, <2>2, <2>5 DEF OnItsWay
  <2>7. HooksPaired' /\ ResponseEvents' /\ DocumentText' /\ PromptIsAttenuated'
    BY <1>1, <2>1, <2>2 DEF HooksPaired, ResponseEvents, DocumentText, PromptIsAttenuated
  <2>8. QED
    BY <2>4, <2>6, <2>7
<1>5. QED
  BY <1>3, <1>4

\* The request to the LLM and its tool chain, up to the response.
LEMMA ChainStep ==
  ASSUME PipelineInv, BuildMessages \/ BuildTools \/ AskTools \/ ChainCall
  PROVE  PipelineInv'
<1> USE DEF PipelineInv
<1>1. /\ handlers' = handlers /\ calling' = calling /\ hookLog' = hookLog
      /\ intent' = intent /\ file' = file /\ reply' = reply /\ events' = events
      /\ turnsAdded' = turnsAdded /\ received' = received /\ broadcasts' = broadcasts
      /\ llmSet' = llmSet /\ skills' = skills
  BY DEF BuildMessages, BuildTools, AskTools, ChainCall, hookVars, messageVars, countVars, skillVars
<1>2. /\ at' \in {"offer", "ask", "chain"} /\ at \in {"before:message", "offer", "ask", "chain"}
      /\ intent \in {"query", "chat"}
  BY DEF BuildMessages, BuildTools, AskTools, ChainCall, Returned, OnItsWay
<1>3. toolRuns' \in Nat /\ (at' # "chain" => toolRuns' = toolRuns)
  <2>1. toolRuns \in Nat
    BY DEF PipelineTypeOK
  <2>2. QED
    BY <2>1 DEF BuildMessages, BuildTools, AskTools, ChainCall, messageVars
<1>4. prompt' \in SkillTable /\ lost' \subseteq SkillNames /\ offered' \subseteq PipelineTools
  BY PipelineAssumption DEF BuildMessages, BuildTools, AskTools, ChainCall, skillVars, AttenuateTools,
     PipelineTypeOK
<1>5. PipelineTypeOK'
  BY <1>1, <1>2, <1>3, <1>4 DEF PipelineTypeOK
<1>6. at' = "offer" => prompt' = skills
  BY <1>1 DEF BuildMessages, BuildTools, AskTools, ChainCall
<1>7. at' # "chain" => at # "chain"
  BY DEF BuildMessages, BuildTools, AskTools, ChainCall, Returned
<1>8. OnItsWay'
  BY <1>1, <1>2, <1>3, <1>6, <1>7 DEF OnItsWay
<1>9. PromptIsAttenuated'
  <2>1. CASE BuildTools
    <3>1. /\ \A name \in SkillNames \ lost : prompt[name] = "installed" => skills[name] = "installed"
          /\ prompt' = prompt /\ lost' = lost /\ offered' = AttenuateTools(skills)
      BY <2>1 DEF BuildTools, OnItsWay
    <3>2. QED
      BY <3>1 DEF AttenuateTools, PromptIsAttenuated
  <2>2. CASE BuildMessages
    BY <2>2 DEF BuildMessages, PromptIsAttenuated
  <2>3. CASE AskTools \/ ChainCall
    BY <2>3 DEF AskTools, ChainCall, PromptIsAttenuated, skillVars
  <2>4. QED
    BY <2>1, <2>2, <2>3
<1>10. HooksPaired' /\ ResponseEvents' /\ DocumentText'
  BY <1>1, <1>2 DEF HooksPaired, ResponseEvents, DocumentText
<1>11. QED
  BY <1>5, <1>8, <1>9, <1>10

\* The end of a message: its last hooks, its event and its broadcast.
LEMMA EndStep ==
  ASSUME PipelineInv, MessageRejected \/ BeforeResponse \/ PublishResponse \/ BroadcastReply
  PROVE  PipelineInv'
<1> USE DEF PipelineInv
<1> DEFINE rest == <<"after:message", "before:response">>
<1>1. /\ intent' = intent /\ file' = file /\ turnsAdded' = turnsAdded /\ toolRuns' = toolRuns
      /\ received' = received
      /\ llmSet' = llmSet /\ skills' = skills /\ prompt' = prompt /\ lost' = lost
        /\ offered' = offered
  BY DEF MessageRejected, BeforeResponse, PublishResponse, BroadcastReply, messageVars, countVars,
     skillVars
<1>2. /\ handlers \in [EventType -> 0..MaxHandlers] /\ calling \in 0..MaxHandlers
      /\ hookLog \in Seq(EventType) /\ events \in Nat /\ broadcasts \in Nat /\ MaxHandlers \in Nat
  BY PipelineAssumption DEF PipelineTypeOK
<1>3. CASE MessageRejected
  <2>1. /\ at = "before:message" /\ at' = "broadcast" /\ calling' = 0 /\ reply' = "error"
        /\ handlers' = handlers /\ hookLog' = hookLog /\ events' = events /\ broadcasts' = broadcasts
    BY <1>3 DEF MessageRejected, countVars
  <2>2. 0 \in 0..MaxHandlers
    BY <1>2
  <2>3. PipelineTypeOK'
    BY <1>1, <2>1, <2>2 DEF PipelineTypeOK
  <2>4. Refused'
    BY <1>1, <2>1 DEF OnItsWay, Refused, Rejected
  <2>5. QED
    BY <1>1, <2>1, <2>3, <2>4 DEF OnItsWay, HooksPaired, ResponseEvents, DocumentText, PromptIsAttenuated
<1>4. CASE BeforeResponse
  <2>1. /\ at = "after:message" /\ Trigger("before:response") /\ "before:response" \in EventType
        /\ reply' = reply /\ events' = events /\ broadcasts' = broadcasts
    BY <1>4 DEF BeforeResponse, Returned, messageVars, countVars, EventType
  <2>2. /\ handlers' \in [EventType -> 0..MaxHandlers] /\ calling' \in 0..MaxHandlers
        /\ hookLog' \in Seq(EventType) /\ hookLog' = Append(hookLog, "before:response")
        /\ at' = "before:response"
    BY <2>1, TriggerType
  <2>3. PipelineTypeOK'
    BY <1>1, <2>1, <2>2 DEF PipelineTypeOK
  <2>4. PICK tool \in ToolLogs :
          /\ hookLog = <<"before:message">> \o tool \o <<"after:message">>
          /\ intent = "command" => toolRuns = 0
          /\ intent = "tool" => toolRuns = 1 \/ (toolRuns = 0 /\ reply = "error")
    BY <2>1 DEF OnItsWay, Passed
  <2>5. hookLog' = <<"before:message">> \o tool \o rest
    <3>1. toolRuns \in Nat
      BY DEF PipelineTypeOK
    <3>2. tool \in Seq(EventType)
      BY <2>4, <3>1, ToolLogsType
    <3>3. QED
      BY <2>2, <2>4, <3>2, Logs
  <2>6. Passed(rest)'
    BY <1>1, <2>1, <2>4, <2>5 DEF Passed, ToolLogs
  <2>7. Published(0)'
    BY <1>1, <2>1 DEF OnItsWay, Published
  <2>8. OnItsWay'
    BY <2>2, <2>6, <2>7 DEF OnItsWay
  <2>9. QED
    BY <1>1, <2>1, <2>2, <2>3, <2>8 DEF HooksPaired, ResponseEvents, DocumentText, PromptIsAttenuated
<1>5. CASE PublishResponse
  <2>1. /\ at = "before:response" /\ at' = "broadcast" /\ reply' = reply /\ broadcasts' = broadcasts
        /\ events' = events + (IF reply = "pending_gate" THEN 0 ELSE 1)
        /\ handlers' = handlers /\ calling' = calling /\ hookLog' = hookLog
    BY <1>5 DEF PublishResponse, Returned, hookVars, countVars
  <2>2. events' \in Nat
    BY <1>2, <2>1
  <2>3. PipelineTypeOK'
    BY <1>1, <2>1, <2>2 DEF PipelineTypeOK
  <2>4. Passed(rest) /\ Published(0)
    BY <2>1 DEF OnItsWay
  <2>5. Passed(rest)'
    BY <1>1, <2>1, <2>4 DEF Passed, ToolLogs
  <2>6. turnsAdded \in Nat
    BY DEF PipelineTypeOK
  <2>7. Published(1)'
    BY <1>1, <1>2, <2>1, <2>4, <2>6 DEF Published
  <2>8. OnItsWay'
    BY <2>1, <2>5, <2>7 DEF OnItsWay
  <2>9. QED
    BY <1>1, <2>1, <2>3, <2>8 DEF HooksPaired, ResponseEvents, DocumentText, PromptIsAttenuated
<1>6. CASE BroadcastReply
  <2>1. /\ at = "broadcast" /\ at' = "idle" /\ reply' = reply /\ broadcasts' = broadcasts + 1
        /\ events' = events /\ handlers' = handlers /\ calling' = calling /\ hookLog' = hookLog
    BY <1>6 DEF BroadcastReply, hookVars, messageVars
  <2>2. broadcasts' \in Nat
    BY <1>2, <2>1
  <2>3. PipelineTypeOK'
    BY <1>1, <2>1, <2>2 DEF PipelineTypeOK
  <2>4. Refused \/ (Passed(rest) /\ Published(1))
    BY <2>1 DEF OnItsWay
  <2>5. Refused' = Refused /\ Passed(rest)' = Passed(rest) /\ Published(1)' = Published(1)
    BY <1>1, <2>1 DEF Refused, Rejected, Passed, ToolLogs, Published
  <2>6. Refused => Rejected
    BY DEF Refused
  <2>7. Rejected' = Rejected
    BY <2>1 DEF Rejected
  <2>8. HooksPaired' /\ ResponseEvents'
    BY <2>4, <2>5, <2>6, <2>7 DEF HooksPaired, ResponseEvents
  <2>9. OnItsWay' /\ DocumentText' /\ PromptIsAttenuated'
    BY <2>1 DEF OnItsWay, DocumentText, PromptIsAttenuated
  <2>10. QED
    BY <2>3, <2>8, <2>9
<1>7. QED
  BY <1>3, <1>4, <1>5, <1>6

\* Whichever way a message takes, whatever hooks fail and whatever is registered
\* meanwhile, its hooks, events, documents and tools are the ones of that way
\* (agent.go: ProcessMessage, runLLM; middleware.go).
THEOREM PipelineCorrect == PipelineSpec => []PipelineInv
<1>1. PipelineInit => PipelineInv
  <2> SUFFICES ASSUME PipelineInit PROVE PipelineInv
    OBVIOUS
  <2>1. PipelineTypeOK
    <3>1. 0 \in 0..MaxHandlers
      BY PipelineAssumption
    <3>2. NoAttachment \in Attachment
      BY DEF NoAttachment, Attachment
    <3>3. <<>> \in Seq(EventType)
      OBVIOUS
    <3>4. /\ handlers = [e \in EventType |-> 0] /\ calling = 0 /\ hookLog \in Seq(EventType)
          /\ at = "idle" /\ intent = "chat" /\ reply = "" /\ file = NoAttachment
          /\ events = 0 /\ turnsAdded = 0 /\ toolRuns = 0 /\ received = 0 /\ broadcasts = 0
          /\ llmSet \in BOOLEAN /\ skills \in SkillTable /\ prompt \in SkillTable /\ lost = {} /\ offered = {}
      BY <3>3 DEF PipelineInit, SkillTable
    <3>5. {events, turnsAdded, toolRuns, received, broadcasts} \subseteq Nat
      <4>1. events = 0 /\ turnsAdded = 0 /\ toolRuns = 0 /\ received = 0 /\ broadcasts = 0
        BY <3>4
      <4>2. {0} \subseteq Nat /\ {events, turnsAdded, toolRuns, received, broadcasts} = {0}
        BY <4>1
      <4>3. QED
        BY <4>2
    <3>6. QED
      BY <3>1, <3>2, <3>4, <3>5 DEF PipelineTypeOK, Intents
  <2>2. at = "idle" /\ received = 0
    BY DEF PipelineInit
  <2>3. QED
    BY <2>1, <2>2 DEF PipelineInv, OnItsWay, HooksPaired, ResponseEvents, DocumentText, PromptIsAttenuated
<1>2. PipelineInv /\ [PipelineNext]_pipelineVars => PipelineInv'
  BY QuietStep, AnswerStep, EntryStep, ToolStep, ChainStep, EndStep DEF PipelineNext
<1>3. QED
  BY <1>1, <1>2, PTL DEF PipelineSpec
===============================================================================
