-------------------------------- MODULE Relay --------------------------------
(***************************************************************************)
(* What a publisher that wraps another one promises: the wrapped publisher *)
(* gets the accepted items in the order they were accepted, none twice and *)
(* none skipped, and nothing after its close().                            *)
(***************************************************************************)
EXTENDS Naturals, Sequences

CONSTANTS Items

VARIABLES
    accepted,   \* items the wrapper took, in order
    delivered,  \* items the wrapped publisher got, in order
    ended       \* the wrapped publisher was closed

relayVars == <<accepted, delivered, ended>>

RelayInit == accepted = <<>> /\ delivered = <<>> /\ ended = FALSE

Accept == \E i \in Items : accepted' = Append(accepted, i) /\ UNCHANGED <<delivered, ended>>

Forward ==
    /\ ~ended /\ Len(delivered) < Len(accepted)
    /\ delivered' = Append(delivered, accepted[Len(delivered) + 1])
    /\ UNCHANGED <<accepted, ended>>

End == ~ended /\ ended' = TRUE /\ UNCHANGED <<accepted, delivered>>

RelayNext == Accept \/ Forward \/ End

RelaySpec == RelayInit /\ [][RelayNext]_relayVars
=============================================================================
