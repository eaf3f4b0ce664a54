----------------------------- MODULE SponsorBudget -----------------------------
(***************************************************************************)
(* The aggregate fee budget of a sponsor, shared by every process that     *)
(* co-signs charges (tempo/server/SponsorBudget.ts).  The budget is one    *)
(* store value, the reservations by transaction, and every change of it is *)
(* one atomic update; this module says what each update makes of the       *)
(* reservations, TransactionCharge when it happens.                        *)
(***************************************************************************)
EXTENDS Integers, FiniteSets, Functions

CONSTANTS
    MaxReservations,   \* sponsorBudget.maxInFlightReservations
    MaxTotalFee,       \* sponsorBudget.maxInFlightTotalFee
    PreparedLease      \* preparedLeaseMs

ASSUME BudgetAssumption ==
    MaxReservations \in Nat /\ MaxTotalFee \in Nat /\ PreparedLease \in Nat \ {0}

Phases == {"prepared", "broadcasting", "pending"}

Reservation(owners) ==
    [fee: Nat, expiresAt: Nat, leaseUntil: Int, owner: owners, phase: Phases]

NoReservations == [id \in {} |-> 0]

\* Mutant: a transaction on its way loses its reservation with the lease.
LapsedByLease(reservation, now) == reservation.leaseUntil <= now

\* A worker whose lease or validity has passed may lose its reservation; a
\* transaction that may be on its way keeps it until it can no longer land.
Lapsed(reservation, now) ==
    \/ reservation.expiresAt <= now
    \/ reservation.phase = "prepared" /\ reservation.leaseUntil <= now

Owns(reservations, id, owner) ==
    id \in DOMAIN reservations /\ reservations[id].owner = owner

TotalFee(reservations) ==
    SumFunction([id \in DOMAIN reservations |-> reservations[id].fee])

HasRoom(reservations, fee) ==
    /\ Cardinality(DOMAIN reservations) < MaxReservations
    /\ TotalFee(reservations) + fee <= MaxTotalFee

\* The lease runs from the reading of the clock the attempt began with.
Prepared(reservations, id, fee, expiresAt, owner, now) ==
    LET reservation == [fee |-> fee, expiresAt |-> expiresAt,
                        leaseUntil |-> IF expiresAt < now + PreparedLease
                                       THEN expiresAt ELSE now + PreparedLease,
                        owner |-> owner, phase |-> "prepared"]
    IN [i \in DOMAIN reservations \cup {id} |->
            IF i = id THEN reservation ELSE reservations[i]]

\* Mutant: a transition without the owner's reservation writes a partial one.
TransitionedUnowned(reservations, id, owner, phase) ==
    IF id \in DOMAIN reservations
    THEN [reservations EXCEPT ![id].phase = phase]
    ELSE [i \in DOMAIN reservations \cup {id} |->
             IF i = id THEN [phase |-> phase] ELSE reservations[i]]

Transitioned(reservations, id, owner, phase) ==
    IF Owns(reservations, id, owner)
    THEN [reservations EXCEPT ![id].phase = phase]
    ELSE reservations

Released(reservations, id, owner) ==
    IF Owns(reservations, id, owner)
    THEN [i \in DOMAIN reservations \ {id} |-> reservations[i]]
    ELSE reservations

=============================================================================
