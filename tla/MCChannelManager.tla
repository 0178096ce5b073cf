--------------------------- MODULE MCChannelManager ---------------------------
(* Model-checking instance of the channel manager.                         *)
EXTENDS ChannelManager, TLC

CONSTANTS a1, a2

\* Two objects that share a name.
Namesakes == (a1 :> "a") @@ (a2 :> "a")

\* The first one has more to say; nothing is injected.
ChannelsOnly == (a1 :> 2) @@ (a2 :> 1) @@ (Injector :> 0)

\* Bound: nothing is looked at after ShutdownAll has returned, or after a panic,
\* which ends the process.
Alive == ~crashed /\ stop # "returned"
=============================================================================
