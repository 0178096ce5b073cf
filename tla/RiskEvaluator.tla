---------------------------- MODULE RiskEvaluator ----------------------------
(***************************************************************************)
(* The approval policy: the risk of a call and the approvals learned from  *)
(* the user (internal/gate/risk.go), and the gate that turns both into a   *)
(* decision (internal/gate/approval.go).                                   *)
(*                                                                         *)
(* A call is what assessRisk can tell apart of a tool name and its         *)
(* parameters: the tool, its "action", its "method" and where its "url"    *)
(* points.                                                                 *)
(***************************************************************************)
EXTENDS Naturals

CONSTANTS Users,
          Calls,         \* the calls considered, a subset of Call
          Trust,         \* the trust level the evaluator was built with
          AutoApproved,  \* tools approved by configuration
          LearnTTL,      \* learnedAutoApproveTTL
          MaxTime,       \* bound on the model's clock
          None

Tool == {"shell", "file", "http", "memory", "echo", "time", "json", "other"}
Action == {"", "read", "write", "delete", "mkdir", "get", "set"}
Method == {"", "GET", "HEAD", "POST"}
Target == {"empty", "local", "private", "external"}
Call == [tool : Tool, action : Action, method : Method, url : Target]

ASSUME RiskAssumption ==
  /\ Calls \subseteq Call
  /\ Trust \in {"cautious", "balanced", "permissive"}
  /\ AutoApproved \subseteq Tool
  /\ LearnTTL \in Nat
  /\ None \notin Nat

VARIABLES now,      \* the clock
          learned,  \* user and key -> LastUsed of the learned approval
          taught    \* history: user and call -> last approval by that user

riskVars == <<now, learned, taught>>

-----------------------------------------------------------------------------
(* Risk and requirement.                                                   *)

isExternalDomain(url) == url = "external"

assessRisk(c) ==
  CASE c.tool = "shell" -> "high"
    [] c.tool = "file" -> (CASE c.action = "read" -> "low"
                             [] c.action \in {"delete", "mkdir"} -> "high"
                             [] OTHER -> "medium")
    [] c.tool = "http" -> IF c.method \in {"GET", "HEAD"} THEN "low"
                          ELSE IF isExternalDomain(c.url) THEN "high" ELSE "medium"
    [] c.tool = "memory" -> IF c.action = "get" THEN "low" ELSE "medium"
    [] c.tool \in {"echo", "time", "json"} -> "low"
    [] c.tool = "other" -> "medium"

\* The key of a learned approval has the tool and the action, no target.
autoApproveKey(c) == <<c.tool, c.action>>

Keys == {autoApproveKey(c) : c \in Calls}

\* Fault: learned approvals do not age.
isLearnedApprovedForever(c, u) == learned[<<u, autoApproveKey(c)>>] # None

isLearnedApproved(c, u) ==
  LET last == learned[<<u, autoApproveKey(c)>>]
  IN last # None /\ now <= last + LearnTTL

\* RiskBasedEvaluator.Evaluate.
Requirement(c, u) ==
  CASE assessRisk(c) = "low" -> "never"
    [] assessRisk(c) = "high" -> "always"
    [] assessRisk(c) = "medium" ->
         (CASE Trust = "permissive" -> "never"
            [] Trust = "cautious" -> "unlessAutoApproved"
            [] Trust = "balanced" -> IF isLearnedApproved(c, u) THEN "never"
                                     ELSE "unlessAutoApproved")

\* ApprovalGate.Evaluate, for a call that may be paused or not.
Decision(c, u, mode) ==
  LET req == Requirement(c, u)
  IN IF \/ req = "never"
        \/ req = "unlessAutoApproved" /\ c.tool \in AutoApproved
     THEN "allow"
     ELSE IF mode = "autonomous" THEN "deny" ELSE "pause"

-----------------------------------------------------------------------------
(* The methods that change what was learned.                               *)

RiskInit ==
  /\ now = 0
  /\ learned = [k \in Users \X Keys |-> None]
  /\ taught = [k \in Users \X Calls |-> None]

RecordApproval(c, u) ==
  /\ learned' = [learned EXCEPT ![<<u, autoApproveKey(c)>>] = now]
  /\ taught' = [taught EXCEPT ![<<u, c>>] = now]
  /\ UNCHANGED now

CleanupExpired ==
  /\ learned' = [k \in Users \X Keys |->
                   IF learned[k] # None /\ now > learned[k] + LearnTTL
                   THEN None ELSE learned[k]]
  /\ UNCHANGED <<now, taught>>

RiskTick ==
  /\ now < MaxTime
  /\ now' = now + 1
  /\ UNCHANGED <<learned, taught>>

RiskNext ==
  \/ \E c \in Calls, u \in Users : RecordApproval(c, u)
  \/ CleanupExpired
  \/ RiskTick

RiskSpec == RiskInit /\ [][RiskNext]_riskVars

-----------------------------------------------------------------------------
(* Properties.                                                             *)

RiskTypeOK ==
  /\ now \in Nat
  /\ learned \in [Users \X Keys -> Nat \cup {None}]
  /\ taught \in [Users \X Calls -> Nat \cup {None}]

\* Whether a user still remembers approving, within the TTL, a call that
\* learning treats like c.
Taught(c, u) ==
  \E d \in Calls : /\ autoApproveKey(d) = autoApproveKey(c)
                   /\ taught[<<u, d>>] # None
                   /\ now <= taught[<<u, d>>] + LearnTTL

\* Learning never widens what runs unasked beyond what its own user approved:
\* a call that the configuration does not approve is allowed only if it is low
\* risk, or medium risk under a policy that lets it pass or an approval by the
\* same user, of the same tool and action, no older than the TTL.  No amount of
\* approving lets a high-risk call through.
AllowedOnlyIfTaught ==
  \A c \in Calls, u \in Users :
    Decision(c, u, "interactive") = "allow" /\ c.tool \notin AutoApproved =>
      \/ assessRisk(c) = "low"
      \/ /\ assessRisk(c) = "medium"
         /\ Trust = "permissive" \/ (Trust = "balanced" /\ Taught(c, u))

\* Every learned approval is the last one its user gave to some call of its key.
LearnedFromUser ==
  \A u \in Users, c \in Calls :
    LET last == learned[<<u, autoApproveKey(c)>>]
    IN last # None => \E d \in Calls : /\ autoApproveKey(d) = autoApproveKey(c)
                                      /\ taught[<<u, d>>] = last

\* The safety of the approval policy: what is learned never allows more than was
\* approved (risk.go).
RiskInv ==
  /\ RiskTypeOK
  /\ LearnedFromUser
  /\ AllowedOnlyIfTaught
=============================================================================
