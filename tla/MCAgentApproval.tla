--------------------------- MODULE MCAgentApproval ---------------------------
(* Model-checking instance of the agent loop with approvals.               *)
EXTENDS AgentApproval, TLC

Shell == [tool |-> "shell", action |-> "", method |-> "", url |-> "empty"]
Write == [tool |-> "file", action |-> "write", method |-> "", url |-> "empty"]
Read  == [tool |-> "file", action |-> "read", method |-> "", url |-> "empty"]

\* A high-, a medium- and a low-risk call.
MCCalls == {Shell, Write, Read}

\* The pause comes first, second, or twice.
MCPlans == {<<Shell>>, <<Read, Shell>>, <<Shell, Write>>}

\* High-risk calls only, for two sessions at once.
HighCalls == {Shell}
HighPlans == {<<Shell>>, <<Shell, Shell>>}

MCJobCalls == {Shell, Write}

NoJobs == {}

Symmetry == Permutations(Requests) \cup Permutations(Sessions)
=============================================================================
