-------------------------- MODULE ScheduledSettlement --------------------------
(***************************************************************************)
(* Settlements the server schedules (session/server/Settlement.ts,         *)
(* maybeSettleScheduled).  Workers that find one due after a charge, or    *)
(* while they supervise closes, claim a lease in the channel's record,     *)
(* renew it while the settlement is under way and give it up at its end.   *)
(* Workers stop, updates fail or lose their answers, and a transaction     *)
(* that its worker gave up on may land later.                              *)
(***************************************************************************)
EXTENDS Integers

CONSTANTS
    Workers,      \* workers of the server, each on one request at a time
    Threshold,    \* schedule.amount
    LeaseTime,    \* scheduledSettlementLeaseMs
    MaxLatency,   \* bound: how long an update takes to be applied
    MaxCharged,   \* bound: what is charged
    MaxFaults     \* bound: faults

ASSUME ScheduleAssumption ==
    /\ {Threshold, LeaseTime} \subseteq Nat \ {0}
    /\ {MaxLatency, MaxCharged, MaxFaults} \subseteq Nat

VARIABLES
    channel,      \* the stored record
    lease,        \* its scheduledSettlementLease, with the time it has left
    captured,     \* what the escrow has settled
    loose,        \* transactions given up that may still land
    workers,      \* the workers' progress
    faults        \* faults so far

scheduleVars == <<channel, lease, captured, loose, workers, faults>>

Nobody == "nobody"
NoLease == [owner |-> Nobody, left |-> 0]

\* What is left when updates judged by an older clock still see the lease.
Left == -MaxLatency .. LeaseTime

ChannelState ==
    [spent : Nat, vouchers : SUBSET (1 .. MaxCharged), settled : Nat, last : Nat,
     closing : BOOLEAN]

LeaseState == [owner : Workers \cup {Nobody}, left : Left]

WorkerPcs ==
    {"idle", "claiming", "starting", "sending", "recording", "failing", "unrecorded",
     "completing", "releasing"}

WorkerState ==
    [pc : WorkerPcs, age : 0 .. MaxLatency, amount : Nat, lapsed : BOOLEAN, renewing : BOOLEAN]

ScheduleTypeOK ==
    /\ channel \in ChannelState
    /\ lease \in LeaseState
    /\ captured \in Nat
    /\ loose \subseteq Nat
    /\ workers \in [Workers -> WorkerState]
    /\ faults \in 0 .. MaxFaults

\* The locals of a request end with it; its renewals may not have arrived yet.
AtRest(renewing) ==
    [pc |-> "idle", age |-> 0, amount |-> 0, lapsed |-> FALSE, renewing |-> renewing]

ScheduleInit ==
    /\ \E vouchers \in SUBSET (1 .. MaxCharged) :
          channel = [spent |-> 0, vouchers |-> vouchers, settled |-> 0, last |-> 0,
                     closing |-> FALSE]
    /\ lease = NoLease
    /\ captured = 0
    /\ loose = {}
    /\ workers = [w \in Workers |-> AtRest(FALSE)]
    /\ faults = 0

Doing(w, pc) == workers[w].pc = pc
Does(w, pc) == workers' = [workers EXCEPT ![w].pc = pc]
Ends(w) == workers' = [workers EXCEPT ![w] = AtRest(@.renewing)]

\* An update fails, a call of the node fails, or a worker stops.
Fault ==
    /\ faults < MaxFaults
    /\ faults' = faults + 1
-----------------------------------------------------------------------------
(* The schedule *)

\* resolveSettleableVoucher: the largest accepted voucher that is above what
\* is settled and within what was spent.
Settleable == {v \in channel.vouchers : channel.settled < v /\ v <= channel.spent}

\* lastSettlementSpent, or what is settled as long as there is none.
AmountBoundary == IF channel.last > 0 THEN channel.last ELSE channel.settled

\* A payer's close request makes outstanding vouchers due at once.
isSettlementDue ==
    /\ Settleable # {}
    /\ channel.closing \/ channel.spent - AmountBoundary >= Threshold

\* Bug: a lease stays until it is given up.
LeaseHeldForever(age) == lease # NoLease

\* Bug: nobody else's lease counts.
LeaseHeldNever(age) == FALSE

\* The lease as an update sees that read the clock when it was sent.
LeaseHeld(age) == lease # NoLease /\ lease.left + age > 0

\* Bug: whoever has worked under a lease may change it.
OwnsAny(w) == lease # NoLease

OwnsLease(w) == lease.owner = w

Renewed == [lease EXCEPT !.left = LeaseTime]
-----------------------------------------------------------------------------
(* maybeSettleScheduled *)

\* Charges stop at a close request.
Charged ==
    /\ ~channel.closing
    /\ channel.spent < MaxCharged
    /\ channel' = [channel EXCEPT !.spent = @ + 1]
    /\ UNCHANGED <<lease, captured, loose, workers, faults>>

CloseRequested ==
    /\ ~channel.closing
    /\ channel' = [channel EXCEPT !.closing = TRUE]
    /\ UNCHANGED <<lease, captured, loose, workers, faults>>

\* Other handlers record what they read of the escrow.
Refreshed ==
    /\ channel.settled < captured
    /\ channel' = [channel EXCEPT !.settled = captured]
    /\ UNCHANGED <<lease, captured, loose, workers, faults>>

\* The clock is read before the update is sent.
FindDue(w) ==
    /\ Doing(w, "idle")
    /\ ~workers[w].renewing
    /\ isSettlementDue
    /\ Does(w, "claiming")
    /\ UNCHANGED <<channel, lease, captured, loose, faults>>

\* When the answer is lost the lease is nobody's, and stays until it is over.
claimScheduledSettlement(w) ==
    LET age == workers[w].age
    IN /\ Doing(w, "claiming")
       /\ \/ /\ isSettlementDue /\ ~LeaseHeld(age)
             /\ lease' = [owner |-> w, left |-> LeaseTime - age]
             /\ \/ /\ \E lapsed \in BOOLEAN :
                         /\ lapsed <=> LeaseTime <= age
                         /\ workers' = [workers EXCEPT ![w] =
                               [@ EXCEPT !.pc = "starting", !.age = 0, !.lapsed = lapsed]]
                   /\ UNCHANGED faults
                \/ Ends(w) /\ Fault
          \/ ~(isSettlementDue /\ ~LeaseHeld(age)) /\ Ends(w) /\ UNCHANGED <<lease, faults>>
          \/ Ends(w) /\ Fault /\ UNCHANGED lease
       /\ UNCHANGED <<channel, captured, loose>>

AtWork(w) == workers[w].pc \notin {"idle", "claiming"}

\* The interval that renews the lease runs until settle is over.
Interval(w) == AtWork(w) /\ workers[w].pc \notin {"completing", "releasing"}

\* The renewal keeps an owner's lease, over or not; it may reach the store
\* after the worker's settlement is done.
SendRenewal(w) ==
    /\ Interval(w) /\ ~workers[w].renewing
    /\ lease.left <= LeaseTime \div 2
    /\ workers' = [workers EXCEPT ![w].renewing = TRUE]
    /\ UNCHANGED <<channel, lease, captured, loose, faults>>

renewScheduledSettlement(w) ==
    /\ workers[w].renewing
    /\ \/ /\ OwnsLease(w)
          /\ lease' = Renewed
          /\ workers' = [workers EXCEPT ![w] = [@ EXCEPT !.renewing = FALSE, !.lapsed = FALSE]]
          /\ UNCHANGED faults
       \/ /\ (~OwnsLease(w) /\ UNCHANGED faults) \/ Fault
          /\ workers' = [workers EXCEPT ![w].renewing = FALSE]
          /\ UNCHANGED lease
    /\ UNCHANGED <<channel, captured, loose>>

\* settle: one update picks the voucher; there may be none left.
settle(w) ==
    /\ Doing(w, "starting")
    /\ \/ /\ \E amount \in Settleable :
                /\ \A v \in Settleable : v <= amount
                /\ workers' = [workers EXCEPT ![w] = [@ EXCEPT !.pc = "sending", !.amount = amount]]
          /\ UNCHANGED faults
       \/ Settleable = {} /\ Does(w, "failing") /\ UNCHANGED faults
       \/ Fault /\ Does(w, "failing")
    /\ UNCHANGED <<channel, lease, captured, loose>>

\* The escrow captures a voucher above what it has settled and reverts the
\* others.  A worker that gets no answer gives up on its transaction.
Capture(w) ==
    LET amount == workers[w].amount
    IN /\ Doing(w, "sending")
       /\ \/ /\ amount > captured
             /\ captured' = amount
             /\ (Does(w, "recording") /\ UNCHANGED faults) \/ (Does(w, "failing") /\ Fault)
             /\ UNCHANGED loose
          \/ amount <= captured /\ Does(w, "failing") /\ UNCHANGED <<captured, loose, faults>>
          \/ /\ Fault /\ Does(w, "failing")
             /\ loose' \in {loose, loose \cup {amount}}
             /\ UNCHANGED captured
       /\ UNCHANGED <<channel, lease>>

Land ==
    /\ \E amount \in loose :
          /\ loose' = loose \ {amount}
          /\ captured' = IF amount > captured THEN amount ELSE captured
    /\ UNCHANGED <<channel, lease, workers, faults>>

\* The checkpoint of a confirmed settlement, SettlementCheckpointError without.
Checkpoint(w) ==
    LET amount == workers[w].amount
    IN /\ Doing(w, "recording")
       /\ \/ /\ channel' = [channel EXCEPT !.settled = IF amount > @ THEN amount ELSE @,
                                           !.last = IF amount > @ THEN amount ELSE @]
             /\ Does(w, "completing") /\ UNCHANGED faults
          \/ Fault /\ Does(w, "unrecorded") /\ UNCHANGED channel
       /\ UNCHANGED <<lease, captured, loose>>

\* markSettlementComplete, and releaseScheduledSettlement when that fails.
markSettlementComplete(w) ==
    /\ Doing(w, "completing")
    /\ \/ lease' = (IF OwnsLease(w) THEN NoLease ELSE lease) /\ Ends(w) /\ UNCHANGED faults
       \/ Fault /\ Does(w, "releasing") /\ UNCHANGED lease
    /\ UNCHANGED <<channel, captured, loose>>

\* After a failure; when it fails as well the lease runs out, unless it was only
\* the record that failed: then it is completed, which changes no other's lease.
releaseScheduledSettlement(w) ==
    /\ workers[w].pc \in {"failing", "unrecorded", "releasing"}
    /\ \/ lease' = (IF OwnsLease(w) THEN NoLease ELSE lease) /\ Ends(w) /\ UNCHANGED faults
       \/ /\ Fault /\ UNCHANGED lease
          /\ IF Doing(w, "unrecorded") THEN Does(w, "completing") ELSE Ends(w)
    /\ UNCHANGED <<channel, captured, loose>>

\* The worker stops; the next one starts afresh.
StopWorker(w) ==
    /\ workers[w].pc # "idle"
    /\ Fault
    /\ workers' = [workers EXCEPT ![w] = AtRest(FALSE)]
    /\ UNCHANGED <<channel, lease, captured, loose>>

\* Time passes; updates are applied within MaxLatency of their clock.
PassTime ==
    LET left == lease.left - 1
    IN /\ \A w \in Workers : Doing(w, "claiming") => workers[w].age < MaxLatency
       /\ \/ lease # NoLease /\ left >= -MaxLatency
          \/ \E w \in Workers : Doing(w, "claiming")
       /\ lease' = IF lease # NoLease /\ left >= -MaxLatency THEN [lease EXCEPT !.left = left] ELSE lease
       /\ workers' = [w \in Workers |->
             [workers[w] EXCEPT !.age = IF Doing(w, "claiming") THEN @ + 1 ELSE @,
                                !.lapsed = IF AtWork(w) /\ OwnsLease(w) /\ left <= 0 THEN TRUE ELSE @]]
       /\ UNCHANGED <<channel, captured, loose, faults>>

WorkerStep(w) ==
    \/ FindDue(w) \/ claimScheduledSettlement(w) \/ settle(w) \/ Capture(w) \/ Checkpoint(w)
    \/ markSettlementComplete(w) \/ releaseScheduledSettlement(w)

ScheduleNext ==
    \/ Charged \/ CloseRequested \/ Refreshed \/ Land \/ PassTime
    \/ \E w \in Workers :
          WorkerStep(w) \/ SendRenewal(w) \/ renewScheduledSettlement(w) \/ StopWorker(w)

ScheduleSpec == ScheduleInit /\ [][ScheduleNext]_scheduleVars

\* A worker's request proceeds, updates and renewals arrive, time passes, and
\* charges or the close supervisor look at the channel again and again.
ScheduleFairness ==
    /\ WF_scheduleVars(PassTime)
    /\ \A w \in Workers : /\ WF_scheduleVars(WorkerStep(w))
                          /\ WF_scheduleVars(renewScheduledSettlement(w))
-----------------------------------------------------------------------------
\* A worker whose lease has not run out is the only one that settles: leases
\* are not taken, renewed or given up by anybody else, however late their
\* updates are applied (Settlement.ts:277, "across server workers").
LeaseHeldWhileSettling ==
    \A w \in Workers : AtWork(w) /\ ~workers[w].lapsed => OwnsLease(w)

\* What is due is collected, although workers stop with the lease, lose their
\* answers and give up on transactions (Settlement.ts:550, "the next settlement
\* can still collect this charge").
DueIsCollected ==
    \A v \in 1 .. MaxCharged :
        (isSettlementDue /\ v \in Settleable) ~> captured >= v
=============================================================================
