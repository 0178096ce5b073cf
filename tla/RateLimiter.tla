----------------------------- MODULE RateLimiter -----------------------------
(***************************************************************************)
(* The fixed-window rate limiter of the dispatcher,                        *)
(* internal/safety/ratelimit.go.  Keys are independent of each other (each *)
(* is a user and a tool) and Allow holds the mutex for its whole body, so  *)
(* one key is modelled.                                                    *)
(***************************************************************************)
EXTENDS Naturals, FiniteSets, Sequences

CONSTANTS RateMaxCalls,  \* calls allowed per window
          RateWindow,    \* length of a window, 0 for one that never ends
          LimiterEnd,    \* bound on the model's clock
          NoWindow

ASSUME LimiterAssumption ==
  /\ RateMaxCalls \in Nat
  /\ RateWindow \in Nat
  /\ LimiterEnd \in Nat
  /\ NoWindow \notin [count : Nat, window : Nat]

VARIABLES clock,
          lim,    \* the rateLimit of the key
          passed  \* history: instants at which calls were allowed

limiterVars == <<clock, lim, passed>>

LimiterTypeOK ==
  /\ clock \in Nat
  /\ lim \in [count : Nat, window : Nat] \cup {NoWindow}
  /\ passed \in Seq(Nat)

LimiterInit == clock = 0 /\ lim = NoWindow /\ passed = <<>>

\* The first call of a window is always allowed.
NewWindow == IF lim = NoWindow THEN TRUE ELSE RateWindow > 0 /\ clock > lim.window

\* Fault: one call too many in a window.
AllowOneMore ==
  /\ \/ /\ NewWindow
        /\ lim' = [count |-> 1, window |-> clock + RateWindow]
     \/ /\ ~NewWindow
        /\ lim.count <= RateMaxCalls
        /\ lim' = [lim EXCEPT !.count = @ + 1]
  /\ passed' = Append(passed, clock)
  /\ UNCHANGED clock

Allow ==
  /\ \/ /\ NewWindow
        /\ lim' = [count |-> 1, window |-> clock + RateWindow]
     \/ /\ ~NewWindow
        /\ lim.count < RateMaxCalls
        /\ lim' = [lim EXCEPT !.count = @ + 1]
  /\ passed' = Append(passed, clock)
  /\ UNCHANGED clock

Refuse ==
  /\ ~NewWindow
  /\ lim.count >= RateMaxCalls
  /\ UNCHANGED limiterVars

LimiterTick ==
  /\ clock < LimiterEnd
  /\ clock' = clock + 1
  /\ UNCHANGED <<lim, passed>>

LimiterNext == Allow \/ Refuse \/ LimiterTick

LimiterSpec == LimiterInit /\ [][LimiterNext]_limiterVars

-----------------------------------------------------------------------------
(* Properties.                                                             *)

\* What a limit of zero becomes: the first call of a window is not counted
\* against it.
Quota == IF RateMaxCalls = 0 THEN 1 ELSE RateMaxCalls

\* The calls allowed in the last d units of time.
Recent(d) == Cardinality({i \in DOMAIN passed : passed[i] + d >= clock})

\* A fixed window is not a sliding one: around the border of two windows up to
\* twice the quota passes within one window's length, and never more.
BurstBounded == RateWindow > 0 => Recent(RateWindow) <= 2 * Quota

\* The calls of the current window are the last lim.count ones; those before them are
\* older than the window, and those a quota further back older by a window's length.
WindowsApart ==
  IF lim = NoWindow THEN passed = <<>>
  ELSE LET n == Len(passed) IN
       /\ lim.count \in 1..Quota /\ lim.count <= n
       /\ lim.window <= clock + RateWindow
       /\ \A i \in 1..n :
            /\ RateWindow > 0 => passed[i] <= lim.window
            /\ i + lim.count <= n => passed[i] + RateWindow < lim.window
            /\ i + lim.count + Quota <= n => passed[i] + 2 * RateWindow < lim.window

\* The safety of the rate limiter: what passes within a window's length is bounded
\* (ratelimit.go).
LimiterInv ==
  /\ LimiterTypeOK
  /\ WindowsApart
  /\ BurstBounded
=============================================================================
