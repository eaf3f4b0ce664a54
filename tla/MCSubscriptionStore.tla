-------------------------- MODULE MCSubscriptionStore --------------------------
(***************************************************************************)
(* SubscriptionStore for TLC.  Calls of one kind and challenges are        *)
(* interchangeable. Used by safety runs. *)
(***************************************************************************)
EXTENDS SubscriptionStore, FiniteSets, TLC

Interchangeable ==
    Permutations(Activations) \cup Permutations(Renewals) \cup Permutations(Challenges)

\* Three of the four calls start: two activations with a renewal, or one
\* activation with two renewals, which have more time.
ThreeCalls ==
    /\ Cardinality({a \in Activations : activations[a].pc # "idle"})
        + Cardinality({r \in Renewals : renewals[r].pc # "idle"}) <= 3
    /\ clock = MaxTime => \E a \in Activations : activations[a].pc = "idle"

=============================================================================
