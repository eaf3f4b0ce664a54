---------------------------- MODULE StreamMetering ----------------------------
(***************************************************************************)
(* Paid streams that share one channel:                                    *)
(* src/src/tempo/session/server/MeteredStream.ts (meterIterable) and the   *)
(* reservations of Transports.ts it is built from.  A stream reserves      *)
(* voucher coverage for an item before producing or sending it, waits for  *)
(* a larger voucher when there is none, and commits the reservation before *)
(* the item counts as paid.  Around the streams run other charges of the   *)
(* channel, the client that answers need-voucher events or goes away, and  *)
(* whoever closes the channel.                                             *)
(*                                                                         *)
(* A charge is the pair of its stream and its number.  An automatic stream *)
(* makes one charge after the other; the generator of a manual one calls   *)
(* charge() itself and may have several calls running at a time.  Store    *)
(* updates are atomic; their answers may arrive in any order.              *)
(*                                                                         *)
(* A stream whose server stops takes no further step.  Servers' clocks     *)
(* differ from each other by at most twice the drift.                      *)
(***************************************************************************)
EXTENDS Integers, FiniteSets, Functions

CONSTANTS
    Streams,          \* metered streams of the channel
    Manual,           \* those whose generator calls charge()
    Overlapping,      \* manual ones that do not await one charge before the next
    MaxCharges,       \* bound: charges of one stream
    Amounts,          \* what a charge costs
    Prepaid,          \* prepaidUnits of every stream
    Lease,            \* streamReservationLeaseMs
    ClockDrift,       \* bound: how far servers' clocks may be from clock
    MaxSpent,         \* bound: charges besides the streams stop here
    MaxTime           \* bound: the clock

ASSUME MeteringConstants ==
    /\ IsFiniteSet(Streams)
    /\ Manual \subseteq Streams
    /\ Overlapping \subseteq Manual
    /\ MaxCharges \in Nat
    /\ Amounts \subseteq Nat \ {0}
    /\ Prepaid \in Nat
    /\ Lease \in Nat \ {0}
    /\ ClockDrift \in Nat
    /\ MaxSpent \in Nat
    /\ MaxTime \in Nat

VARIABLES
    clock,
    drift,     \* largest difference between a server's clock and clock
    ch,        \* the stored channel record, as far as streams see it
    asked,     \* amounts of need-voucher events the client has not answered
    streams,   \* meterIterable's locals
    charges    \* reserveChargeOrWait's and commit's locals

vars == <<clock, drift, ch, asked, streams, charges>>

Charges == Streams \X (1 .. MaxCharges)

NoReservation == [amount |-> 0, expiresAt |-> 0]

Channel ==
    [spent : Nat, highest : Nat, closed : BOOLEAN,
     reservations : [Streams -> [amount : Nat, expiresAt : Nat]]]

Stream ==
    [phase : {"running", "committing", "committed", "releasing", "over"}, prepaid : Nat,
     pending : BOOLEAN, aborted : BOOLEAN, abortRelease : BOOLEAN, committed : Nat]

ChargeCall ==
    [pc : {"idle", "started", "waiting", "reserving", "reserved", "checking",
           "committing", "committed", "done", "failed"},
     amount : Nat, requireExisting : BOOLEAN, lastRequired : Nat]

TypeOK ==
    /\ clock \in Nat
    /\ drift \in {0, ClockDrift}
    /\ ch \in Channel
    /\ asked \subseteq Nat
    /\ streams \in [Streams -> Stream]
    /\ charges \in [Charges -> ChargeCall]

Init ==
    /\ clock = ClockDrift
    /\ drift \in {0, ClockDrift}
    /\ ch \in [spent : {0}, highest : Amounts, closed : {FALSE},
               reservations : {[s \in Streams |-> NoReservation]}]
    /\ asked = {}
    /\ streams = [s \in Streams |->
          [phase |-> "running", prepaid |-> Prepaid, pending |-> FALSE,
           aborted |-> FALSE, abortRelease |-> FALSE, committed |-> 0]]
    /\ charges = [c \in Charges |->
          [pc |-> "idle", amount |-> 0, requireExisting |-> FALSE, lastRequired |-> 0]]

-----------------------------------------------------------------------------
(* Reservations *)

\* What Date.now() may return to the server running an update.
Clocks == clock - drift .. clock + drift

IsLive(s, now) == ch.reservations[s].expiresAt > now

reservedStreamAmount(now) ==
    SumFunction([s \in Streams |-> IF IsLive(s, now) THEN ch.reservations[s].amount ELSE 0])

\* Bug: forget the reservations of the streams.
HeadroomUnreserved(now) == ch.highest - ch.spent

\* What planDeduction and a reservation may still use.
Headroom(now) == ch.highest - ch.spent - reservedStreamAmount(now)

\* Bug: drop the coverage check of a commit.
CanCommitLease(s, now) ==
    /\ ~ch.closed
    /\ ch.reservations[s] # NoReservation
    /\ IsLive(s, now)

\* commitReservedCharges commits unless it throws or finds no reservation.
CanCommit(s, now) ==
    /\ ~ch.closed
    /\ ch.reservations[s] # NoReservation
    /\ IsLive(s, now)
    /\ ch.highest - ch.spent >= ch.reservations[s].amount

\* Bug: charge the reservation and leave it in place.
commitAndKeep(s) == [ch EXCEPT !.spent = @ + ch.reservations[s].amount]

commitReservedCharges(s) ==
    [ch EXCEPT !.spent = @ + ch.reservations[s].amount,
               !.reservations[s] = NoReservation]

\* Bug: reservations of a finished stream are left to their lease.
keepReservation(s) == ch

releaseReservedCharges(s) == [ch EXCEPT !.reservations[s] = NoReservation]

\* The reservation is renewed with the charge added; expired ones of other
\* streams are dropped on the way.
reserve(s, amount, now) ==
    [ch EXCEPT !.reservations = [t \in Streams |->
        IF t = s THEN [amount |-> ch.reservations[s].amount + amount,
                       expiresAt |-> now + Lease]
        ELSE IF IsLive(t, now) THEN ch.reservations[t]
        ELSE NoReservation]]

-----------------------------------------------------------------------------
(* charge() *)

ToPc(c, pc) == charges' = [charges EXCEPT ![c].pc = pc]

\* An automatic stream ends with its first failed charge; only an overlapping
\* generator starts a charge while another one runs.
MayStart(c) ==
    LET earlier == {<<c[1], j>> : j \in 1 .. c[2] - 1}
    IN  /\ charges[c].pc = "idle"
        /\ streams[c[1]].phase = "running"
        /\ ~streams[c[1]].aborted
        /\ \A d \in earlier : charges[d].pc # "idle"
        /\ c[1] \notin Overlapping =>
              \A d \in earlier : charges[d].pc \in {"done", "failed"}
        /\ c[1] \notin Manual => \A d \in earlier : charges[d].pc = "done"

\* Bug: the unit after the last one is free.
HasOneMore(s) == streams[s].prepaid >= 0

HasPrepaid(s) == streams[s].prepaid > 0

\* A charge at the tick cost uses up a unit the request paid already.
ChargePrepaid(c) ==
    /\ MayStart(c)
    /\ HasPrepaid(c[1])
    /\ streams' = [streams EXCEPT ![c[1]].prepaid = @ - 1]
    /\ ToPc(c, "done")
    /\ UNCHANGED <<clock, drift, ch, asked>>

ChargeStart(c) ==
    /\ MayStart(c)
    /\ ~HasPrepaid(c[1]) \/ c[1] \in Manual
    /\ \E amount \in Amounts :
          charges' = [charges EXCEPT ![c] =
             [pc |-> "started", amount |-> amount,
              requireExisting |-> streams[c[1]].pending, lastRequired |-> 0]]
    /\ UNCHANGED <<clock, drift, ch, asked, streams>>

\* The hook runs before the reservation and before the commit; it rejects when
\* the channel on chain cannot fund the charge.
BeforeChargeRejects(c) ==
    /\ MayStart(c) \/ charges[c].pc = "checking"
    /\ ToPc(c, "failed")
    /\ UNCHANGED <<clock, drift, ch, asked, streams>>

\* Bug: ask the client for a voucher only once.
AskOnce(lastRequired, required) == lastRequired = 0

\* The client is asked again whenever the amount it has to sign changed.
MustAsk(lastRequired, required) == required # lastRequired

WaitFor(c, required) ==
    /\ asked' = IF MustAsk(charges[c].lastRequired, required)
                THEN asked \cup {required} ELSE asked
    /\ charges' = [charges EXCEPT ![c].pc = "waiting", ![c].lastRequired = required]

Covered(c, now) == Headroom(now) >= charges[c].amount

RequiredFor(c, now) == ch.spent + reservedStreamAmount(now) + charges[c].amount

\* The channel is read before each attempt: at the start and after a store
\* notification or a poll.
ReserveRead(c) ==
    LET s == c[1]
    IN  /\ charges[c].pc \in {"started", "waiting"}
        /\ \E now \in Clocks :
              IF \/ streams[s].aborted
                 \/ ch.closed
                 \/ charges[c].requireExisting /\ ~IsLive(s, now)
              THEN ToPc(c, "failed") /\ UNCHANGED asked
              ELSE IF Covered(c, now)
              THEN ToPc(c, "reserving") /\ UNCHANGED asked
              ELSE WaitFor(c, RequiredFor(c, now))
        /\ UNCHANGED <<clock, drift, ch, streams>>

\* The update decides again on the stored channel.  An abort may come before
\* or after it looked at the signal.
ReserveUpdate(c) ==
    LET s == c[1]
        previous == ch.reservations[s]
    IN  /\ charges[c].pc = "reserving"
        /\ \E now \in Clocks :
              \/ /\ \/ ch.closed
                    \/ streams[s].aborted
                    \/ charges[c].requireExisting /\ previous = NoReservation
                    \/ previous # NoReservation /\ ~IsLive(s, now)
                 /\ ToPc(c, "failed")
                 /\ UNCHANGED <<ch, asked>>
              \/ /\ ~ch.closed
                 /\ charges[c].requireExisting => previous # NoReservation
                 /\ previous # NoReservation => IsLive(s, now)
                 /\ IF Covered(c, now)
                    THEN /\ ch' = reserve(s, charges[c].amount, now)
                         /\ ToPc(c, "reserved")
                         /\ UNCHANGED asked
                    ELSE /\ WaitFor(c, RequiredFor(c, now))
                         /\ UNCHANGED ch
        /\ UNCHANGED <<clock, drift, streams>>

\* Bug: the flag is set after the commit, which then finds nothing to do.
forgetPending(s) == streams

notePending(s) == [streams EXCEPT ![s].pending = TRUE]

Reserved(c) ==
    /\ charges[c].pc = "reserved"
    /\ streams' = notePending(c[1])
    /\ ToPc(c, "checking")
    /\ UNCHANGED <<clock, drift, ch, asked>>

\* commit(): nothing to do when the reservation is not pending any more.
CommitStart(c) ==
    /\ charges[c].pc = "checking"
    /\ ToPc(c, IF streams[c[1]].aborted THEN "failed"
               ELSE IF ~streams[c[1]].pending THEN "done"
               ELSE "committing")
    /\ UNCHANGED <<clock, drift, ch, asked, streams>>

CommitUpdate(c) ==
    LET s == c[1]
    IN  /\ charges[c].pc = "committing"
        /\ \E now \in Clocks :
              IF CanCommit(s, now)
              THEN /\ ch' = commitReservedCharges(s)
                   /\ streams' = [streams EXCEPT ![s].committed = @ + ch.reservations[s].amount]
                   /\ ToPc(c, "committed")
              ELSE /\ ToPc(c, "failed")
                   /\ UNCHANGED <<ch, streams>>
        /\ UNCHANGED <<clock, drift, asked>>

\* The answer of the commit arrives; the charge is kept even if the stream was
\* aborted, but its item is not delivered.
Committed(c) ==
    /\ charges[c].pc = "committed"
    /\ streams' = [streams EXCEPT ![c[1]].pending = FALSE]
    /\ ToPc(c, IF streams[c[1]].aborted THEN "failed" ELSE "done")
    /\ UNCHANGED <<clock, drift, ch, asked>>

-----------------------------------------------------------------------------
(* The stream *)

\* Only an overlapping generator goes on while one of its charges runs.
Resolved(s) ==
    s \notin Overlapping =>
        \A j \in 1 .. MaxCharges : charges[<<s, j>>].pc \in {"idle", "done", "failed"}

\* The generator is exhausted, throws or is not asked for more.
StreamEnd(s) ==
    /\ streams[s].phase = "running"
    /\ Resolved(s)
    /\ streams' = [streams EXCEPT ![s].phase = "releasing"]
    /\ UNCHANGED <<clock, drift, ch, asked, charges>>

\* A manual generator that survived a failed charge yields its item, or is
\* exhausted, with the reservation still pending: it is committed first, unless
\* beforeCharge rejects and the stream ends.
PendingCommitStart(s) ==
    /\ streams[s].phase = "running"
    /\ s \in Manual
    /\ streams[s].pending
    /\ ~streams[s].aborted
    /\ Resolved(s)
    /\ streams' = [streams EXCEPT ![s].phase = "committing"]
    /\ UNCHANGED <<clock, drift, ch, asked, charges>>

PendingCommitUpdate(s) ==
    /\ streams[s].phase = "committing"
    /\ \E now \in Clocks :
          IF CanCommit(s, now)
          THEN /\ ch' = commitReservedCharges(s)
               /\ streams' = [streams EXCEPT ![s].phase = "committed",
                                 ![s].committed = @ + ch.reservations[s].amount]
          ELSE /\ streams' = [streams EXCEPT ![s].phase = "releasing"]
               /\ UNCHANGED ch
    /\ UNCHANGED <<clock, drift, asked, charges>>

PendingCommitted(s) ==
    /\ streams[s].phase = "committed"
    /\ \E phase \in {"running", "releasing"} :
          streams' = [streams EXCEPT ![s].phase = phase, ![s].pending = FALSE]
    /\ UNCHANGED <<clock, drift, ch, asked, charges>>

StreamRelease(s) ==
    /\ streams[s].phase = "releasing"
    /\ ch' = releaseReservedCharges(s)
    /\ streams' = [streams EXCEPT ![s].phase = "over"]
    /\ UNCHANGED <<clock, drift, asked, charges>>

\* releaseOnAbort does not wait for what the stream is doing.
AbortRelease(s) ==
    /\ streams[s].abortRelease
    /\ ch' = releaseReservedCharges(s)
    /\ streams' = [streams EXCEPT ![s].abortRelease = FALSE]
    /\ UNCHANGED <<clock, drift, asked, charges>>

-----------------------------------------------------------------------------
(* The rest of the system *)

\* The client goes away or asks for its receipt.
Abort(s) ==
    /\ streams[s].phase # "over"
    /\ ~streams[s].aborted
    /\ streams' = [streams EXCEPT ![s].aborted = TRUE, ![s].abortRelease = TRUE]
    /\ UNCHANGED <<clock, drift, ch, asked, charges>>

\* The client answers a need-voucher event with a voucher for its amount.
ClientAnswers ==
    /\ ~ch.closed
    /\ \E required \in asked :
          /\ ch' = [ch EXCEPT !.highest = IF required > @ THEN required ELSE @]
          /\ asked' = asked \ {required}
    /\ UNCHANGED <<clock, drift, streams, charges>>

\* deductFromChannel, for another request of the channel.
OtherCharge ==
    /\ ~ch.closed
    /\ \E amount \in Amounts, now \in Clocks :
          /\ ch.spent + amount <= MaxSpent
          /\ Headroom(now) >= amount
          /\ ch' = [ch EXCEPT !.spent = @ + amount]
    /\ UNCHANGED <<clock, drift, asked, streams, charges>>

\* A close is marked, requested or finalized.
CloseChannel ==
    /\ ~ch.closed
    /\ ch' = [ch EXCEPT !.closed = TRUE]
    /\ UNCHANGED <<clock, drift, asked, streams, charges>>

Tick ==
    /\ clock < MaxTime
    /\ clock' = clock + 1
    /\ UNCHANGED <<drift, ch, asked, streams, charges>>

-----------------------------------------------------------------------------
ChargeStep(c) ==
    \/ ChargePrepaid(c)
    \/ ChargeStart(c)
    \/ BeforeChargeRejects(c)
    \/ ReserveRead(c)
    \/ ReserveUpdate(c)
    \/ Reserved(c)
    \/ CommitStart(c)
    \/ CommitUpdate(c)
    \/ Committed(c)

StreamStep(s) ==
    \/ StreamEnd(s)
    \/ PendingCommitStart(s)
    \/ PendingCommitUpdate(s)
    \/ PendingCommitted(s)
    \/ StreamRelease(s)
    \/ AbortRelease(s)
    \/ Abort(s)

Next ==
    \/ \E c \in Charges : ChargeStep(c)
    \/ \E s \in Streams : StreamStep(s)
    \/ ClientAnswers
    \/ OtherCharge
    \/ CloseChannel
    \/ Tick

Spec == Init /\ [][Next]_vars

\* The store answers, a waiting charge polls, and the client answers what it is
\* asked.  Neither generators nor the clock are assumed to go on.
Fairness ==
    /\ WF_vars(ClientAnswers)
    /\ \A c \in Charges :
          WF_vars(ReserveRead(c) \/ ReserveUpdate(c) \/ Reserved(c)
                    \/ CommitStart(c) \/ CommitUpdate(c) \/ Committed(c))

FairSpec == Spec /\ Fairness

-----------------------------------------------------------------------------
(* Properties *)

\* Whatever the clocks of the servers say about leases, streams and other
\* charges together never spend more than the payer signed for.
SpentWithinAccepted == ch.spent <= ch.highest

\* While the servers' clocks agree, every live reservation can be committed:
\* streams and other charges never reserve or spend the same part of a voucher
\* twice.
ReservationsCovered ==
    drift = 0 => ch.spent + reservedStreamAmount(clock) <= ch.highest

\* The voucher as the streams share it: a reservation sets aside its amount
\* until its lease is over.
Voucher == INSTANCE SharedVoucher WITH
    Holders <- Streams,
    limit   <- ch.highest,
    spent   <- ch.spent,
    held    <- [s \in Streams |-> IF IsLive(s, clock) THEN ch.reservations[s].amount ELSE 0],
    earned  <- [s \in Streams |-> streams[s].committed]

\* While the servers' clocks agree, every step of a stream, of another request
\* or of the client is one step of the shared voucher, or none: however reads,
\* updates, retries, aborts and expiring leases interleave, a commit charges all
\* that its stream set aside and nothing else, and nobody spends what another
\* one holds.
SharesVoucher ==
    /\ drift = 0 => Voucher!VoucherInit
    /\ [][drift = 0 => [Voucher!VoucherNext]_(Voucher!voucher)]_vars

\* SessionController.charge "commits the charge before resolving": what the
\* resolved charges of a stream cost has been committed.
ResolvedIsCharged ==
    \A s \in Streams :
        SumFunction([j \in 1 .. MaxCharges |->
            IF charges[<<s, j>>].pc = "done" THEN charges[<<s, j>>].amount ELSE 0])
          <= streams[s].committed

\* A stream never commits more than its charges asked for, although a charge is
\* repeated after a failure, merged into a pending reservation or committed at
\* the end of the stream.
ChargedAtMostOnce ==
    \A s \in Streams :
        streams[s].committed <=
            SumFunction([j \in 1 .. MaxCharges |-> charges[<<s, j>>].amount])

\* A stream that is over keeps no part of the voucher to itself, although an
\* abort may overtake a reservation in flight.
NothingReservedWhenOver ==
    \A s \in Streams : streams[s].phase = "over" => ch.reservations[s] = NoReservation

\* A charge that waits for a voucher is served or fails: no store update between
\* the check and the wait, and no charge of another stream, makes it wait for an
\* event that never comes.
WaitingIsServed ==
    \A c \in Charges : charges[c].pc = "waiting" ~> charges[c].pc \in {"done", "failed"}

=============================================================================
