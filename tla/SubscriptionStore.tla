--------------------------- MODULE SubscriptionStore ---------------------------
(***************************************************************************)
(* Activations and renewals of the subscriptions of one lookup key:        *)
(* src/src/tempo/subscription/Store.ts (activate, renew) with the handlers *)
(* of src/src/tempo/server/Subscription.ts that call them.                 *)
(*                                                                         *)
(* The store updates one key at a time; every get, put and update is an    *)
(* action.  An activation locks the lookup key with a marker, pays the     *)
(* first period, cancels the subscription it replaces and only then points *)
(* the lookup key to its own.  A renewal locks the record of its           *)
(* subscription, pays a period and records it.  A lock that is older than  *)
(* its timeout may be replaced, except by design one that is committing.   *)
(*                                                                         *)
(* The subscription that an activation creates is named after it.  A call  *)
(* whose process stops takes no further step.                              *)
(***************************************************************************)
EXTENDS Integers

CONSTANTS
    Challenges,         \* challenges the server issued
    Activations,        \* calls of verify
    Renewals,           \* renewals by requests or background workers
    Existing,           \* subscriptions stored before
    RequireCredential,  \* an overdue subscription is reused and renewed
    LostAnswers,        \* a payment may land although its call fails
    PeriodLength,
    ActivationTimeout,
    RenewalTimeout,
    MaxTime             \* bound: the clock

ASSUME SubscriptionConstants ==
    /\ Activations \cap Existing = {}
    /\ "none" \notin Activations \cup Existing
    /\ "none" \notin Challenges \cup Renewals
    /\ RequireCredential \in BOOLEAN
    /\ LostAnswers \in BOOLEAN
    /\ PeriodLength \in Nat \ {0}
    /\ ActivationTimeout \in Nat
    /\ RenewalTimeout \in Nat
    /\ MaxTime \in Nat

VARIABLES
    clock,
    claimed,      \* challenges with a credential marker
    marker,       \* the activation lock
    lookup,       \* the subscription of the lookup key
    records,
    activations, renewals,   \* calls in flight
    charged       \* payments that landed, by subscription and period

vars == <<clock, claimed, marker, lookup, records, activations, renewals, charged>>
store == <<claimed, marker, lookup, records>>

Subscriptions == Activations \cup Existing
Periods == 0 .. MaxTime

Unlocked == [challenge |-> "none", startedAt |-> 0, committing |-> FALSE]
NoInFlight == [period |-> 0, attempt |-> "none", startedAt |-> 0]
NoRecord ==
    [exists |-> FALSE, anchor |-> 0, lastCharged |-> 0, inFlight |-> NoInFlight,
     canceled |-> FALSE]

Marker ==
    [challenge : Challenges, startedAt : Nat, committing : BOOLEAN] \cup {Unlocked}

InFlight ==
    [period : Nat \ {0}, attempt : Renewals, startedAt : Nat] \cup {NoInFlight}

Record ==
    [exists : BOOLEAN, anchor : Nat, lastCharged : Nat, inFlight : InFlight,
     canceled : BOOLEAN]

ActivationPcs ==
    {"idle", "claimed", "claimedId", "locking", "inFlight", "locked", "lockedId",
     "clearExisting", "existing", "creating", "clearFailed", "created", "mismatched",
     "committed", "committedId", "ownCancel", "putCancel", "ownRecord", "putRecord",
     "ownLookup", "putLookup", "clearDone", "released", "replayed", "refused", "done"}

ActivationCall ==
    [pc : ActivationPcs, challenge : Challenges \cup {"none"},
     seen : Subscriptions \cup {"none"}, previous : Record, anchor : Nat]

RenewalPcs ==
    {"idle", "requestId", "read", "due", "started", "charging", "charged", "committing",
     "clearing", "done"}

RenewalCall ==
    [pc : RenewalPcs, sub : Subscriptions \cup {"none"}, period : Nat, startedAt : Nat]

TypeOK ==
    /\ clock \in Nat
    /\ claimed \subseteq Challenges
    /\ marker \in Marker
    /\ lookup \in Subscriptions \cup {"none"}
    /\ records \in [Subscriptions -> Record]
    /\ activations \in [Activations -> ActivationCall]
    /\ renewals \in [Renewals -> RenewalCall]
    /\ charged \in [Subscriptions -> [Periods -> Nat]]

Init ==
    /\ clock = 0
    /\ claimed = {}
    /\ marker = Unlocked
    /\ lookup \in IF Existing = {} THEN {"none"} ELSE Existing
    /\ records = [s \in Subscriptions |-> [NoRecord EXCEPT !.exists = (s = lookup)]]
    /\ activations = [a \in Activations |->
          [pc |-> "idle", challenge |-> "none", seen |-> "none",
           previous |-> NoRecord, anchor |-> 0]]
    /\ renewals = [r \in Renewals |->
          [pc |-> "idle", sub |-> "none", period |-> 0, startedAt |-> 0]]
    /\ charged = [s \in Subscriptions |-> [p \in Periods |-> 0]]

-----------------------------------------------------------------------------
(* Helpers *)

RecordOf(s) == IF s = "none" THEN NoRecord ELSE records[s]

getPeriodIndex(record) == (clock - record.anchor) \div PeriodLength

isActive(record) == record.exists /\ ~record.canceled

isReusable(record) ==
    /\ isActive(record)
    /\ RequireCredential \/ getPeriodIndex(record) <= record.lastCharged

\* Bug: a committing activation may be replaced as well.
isStaleCommitting == clock - marker.startedAt >= ActivationTimeout

isStaleActivation == ~marker.committing /\ clock - marker.startedAt >= ActivationTimeout

isStaleRenewal(record) == clock - record.inFlight.startedAt >= RenewalTimeout

ownsActivation(a) == marker.challenge = activations[a].challenge

\* Bug: the marker stays, without its owner.
clearOwnerOnly(a) ==
    IF ownsActivation(a) THEN [marker EXCEPT !.challenge = "none"] ELSE marker

clearActivationState(a) == IF ownsActivation(a) THEN Unlocked ELSE marker

Paid(s, period) == charged' = [charged EXCEPT ![s][period] = @ + 1]

\* A call that fails may have paid when its answer is lost.
PaidUnnoticed(s, period) ==
    \/ UNCHANGED charged
    \/ LostAnswers /\ Paid(s, period)

ActivationTo(a, pc) == activations' = [activations EXCEPT ![a].pc = pc]

RenewalTo(r, pc) == renewals' = [renewals EXCEPT ![r].pc = pc]

-----------------------------------------------------------------------------
(* activate *)

Claim(a) ==
    /\ activations[a].pc = "idle"
    /\ \E c \in Challenges :
          /\ claimed' = claimed \cup {c}
          /\ activations' = [activations EXCEPT
                ![a].challenge = c,
                ![a].pc = IF c \in claimed THEN "replayed" ELSE "claimed"]
    /\ UNCHANGED <<clock, marker, lookup, records, renewals, charged>>

AfterLookup ==
    [claimed |-> "claimedId", locked |-> "lockedId", committed |-> "committedId"]

\* getByLookupKey gets the lookup key, then the record it names.
ReadLookup(a) ==
    /\ activations[a].pc \in DOMAIN AfterLookup
    /\ activations' = [activations EXCEPT ![a].pc = AfterLookup[@], ![a].seen = lookup]
    /\ UNCHANGED <<clock, store, renewals, charged>>

\* The subscription found is used only if it matches the request.
FindExisting(a) ==
    /\ activations[a].pc = "claimedId"
    /\ \E matches \in BOOLEAN :
          ActivationTo(a, IF matches /\ isReusable(RecordOf(activations[a].seen))
                          THEN "existing" ELSE "locking")
    /\ UNCHANGED <<clock, store, renewals, charged>>

Lock(a) ==
    /\ activations[a].pc = "locking"
    /\ IF marker # Unlocked /\ ~isStaleActivation
       THEN /\ ActivationTo(a, "inFlight")
            /\ UNCHANGED marker
       ELSE /\ marker' = [challenge |-> activations[a].challenge, startedAt |-> clock,
                          committing |-> FALSE]
            /\ ActivationTo(a, "locked")
    /\ UNCHANGED <<clock, claimed, lookup, records, renewals, charged>>

FindExistingAgain(a) ==
    /\ activations[a].pc = "lockedId"
    /\ \E matches \in BOOLEAN :
          ActivationTo(a, IF matches /\ isReusable(RecordOf(activations[a].seen))
                          THEN "clearExisting" ELSE "creating")
    /\ UNCHANGED <<clock, store, renewals, charged>>

Create(a) ==
    /\ activations[a].pc = "creating"
    /\ Paid(a, 0)
    /\ activations' = [activations EXCEPT ![a].pc = "created", ![a].anchor = clock]
    /\ UNCHANGED <<clock, store, renewals>>

CreateFails(a) ==
    /\ activations[a].pc = "creating"
    /\ PaidUnnoticed(a, 0)
    /\ ActivationTo(a, "clearFailed")
    /\ UNCHANGED <<clock, store, renewals>>

Commit(a) ==
    /\ activations[a].pc = "created"
    /\ IF ownsActivation(a)
       THEN /\ marker' = [marker EXCEPT !.committing = TRUE, !.startedAt = clock]
            /\ ActivationTo(a, "committed")
       ELSE /\ ActivationTo(a, "mismatched")
            /\ UNCHANGED marker
    /\ UNCHANGED <<clock, claimed, lookup, records, renewals, charged>>

NewRecord(a) == [NoRecord EXCEPT !.exists = TRUE, !.anchor = activations[a].anchor]

\* A paid activation that lost its lock is kept, canceled.
PutMismatched(a) ==
    /\ activations[a].pc = "mismatched"
    /\ records' = [records EXCEPT ![a] = [NewRecord(a) EXCEPT !.canceled = TRUE]]
    /\ ActivationTo(a, "refused")
    /\ UNCHANGED <<clock, claimed, marker, lookup, renewals, charged>>

ReadPrevious(a) ==
    LET previous == RecordOf(activations[a].seen)
    IN  /\ activations[a].pc = "committedId"
        /\ activations' = [activations EXCEPT
              ![a].previous = previous,
              ![a].pc = IF previous.exists /\ activations[a].seen # a
                        THEN "ownCancel" ELSE "ownRecord"]
        /\ UNCHANGED <<clock, store, renewals, charged>>

AfterOwn ==
    [ownCancel |-> "putCancel", ownRecord |-> "putRecord", ownLookup |-> "putLookup"]

CheckOwner(a) ==
    /\ activations[a].pc \in DOMAIN AfterOwn
    /\ ActivationTo(a, IF ownsActivation(a) THEN AfterOwn[activations[a].pc] ELSE "refused")
    /\ UNCHANGED <<clock, store, renewals, charged>>

\* What was read is written back, canceled.
PutCanceled(a) ==
    LET call == activations[a]
    IN  /\ call.pc = "putCancel"
        /\ records' = [records EXCEPT ![call.seen] = [call.previous EXCEPT !.canceled = TRUE]]
        /\ ActivationTo(a, "ownRecord")
        /\ UNCHANGED <<clock, claimed, marker, lookup, renewals, charged>>

PutRecord(a) ==
    /\ activations[a].pc = "putRecord"
    /\ records' = [records EXCEPT ![a] = NewRecord(a)]
    /\ ActivationTo(a, "ownLookup")
    /\ UNCHANGED <<clock, claimed, marker, lookup, renewals, charged>>

PutLookup(a) ==
    /\ activations[a].pc = "putLookup"
    /\ lookup' = a
    /\ ActivationTo(a, "clearDone")
    /\ UNCHANGED <<clock, claimed, marker, records, renewals, charged>>

AfterClear ==
    [clearExisting |-> "existing", clearFailed |-> "refused", clearDone |-> "done"]

Clear(a) ==
    /\ activations[a].pc \in DOMAIN AfterClear
    /\ marker' = clearActivationState(a)
    /\ ActivationTo(a, AfterClear[activations[a].pc])
    /\ UNCHANGED <<clock, claimed, lookup, records, renewals, charged>>

\* A reused subscription is renewed first when it is overdue; any renewal below
\* may be that one.
Reuse(a) ==
    /\ activations[a].pc = "existing"
    /\ ActivationTo(a, "done")
    /\ UNCHANGED <<clock, store, renewals, charged>>

\* Bug: a failed activation may be tried again with the same challenge.
FailedMayRetry(a) ==
    \/ activations[a].pc \in {"inFlight", "refused"}
    \/ activations[a].pc = "existing" /\ RecordOf(activations[a].seen).inFlight # NoInFlight

\* Another call is at work and the challenge may be presented again.
MayRetry(a) ==
    \/ activations[a].pc = "inFlight"
    \/ activations[a].pc = "existing" /\ RecordOf(activations[a].seen).inFlight # NoInFlight

ReleaseCredential(a) ==
    /\ MayRetry(a)
    /\ claimed' = claimed \ {activations[a].challenge}
    /\ ActivationTo(a, "released")
    /\ UNCHANGED <<clock, marker, lookup, records, renewals, charged>>

-----------------------------------------------------------------------------
(* renew *)

\* authorize takes the subscription of the lookup key ...
RequestLookup(r) ==
    /\ renewals[r].pc = "idle"
    /\ lookup # "none"
    /\ renewals' = [renewals EXCEPT ![r].pc = "requestId", ![r].sub = lookup]
    /\ UNCHANGED <<clock, store, activations, charged>>

\* A period is due if it is later than the last one charged when the record was
\* read, which the call keeps in `period' meanwhile.
RenewIfDue(r, active, lastCharged) ==
    LET period == getPeriodIndex(records[renewals[r].sub])
        due    == active /\ period > lastCharged
    IN  renewals' = [renewals EXCEPT
            ![r].pc = IF due THEN "due" ELSE "done",
            ![r].period = IF due THEN period ELSE 0]

RequestRecord(r) ==
    LET record == records[renewals[r].sub]
    IN  /\ renewals[r].pc = "requestId"
        /\ RenewIfDue(r, isActive(record), record.lastCharged)
        /\ UNCHANGED <<clock, store, activations, charged>>

\* ... a background worker takes any, and asks for the lookup key's afterwards.
BackgroundRecord(r) ==
    /\ renewals[r].pc = "idle"
    /\ \E s \in Subscriptions :
          /\ isActive(records[s])
          /\ renewals' = [renewals EXCEPT ![r].pc = "read", ![r].sub = s,
                                          ![r].period = records[s].lastCharged]
    /\ UNCHANGED <<clock, store, activations, charged>>

BackgroundLookup(r) ==
    /\ renewals[r].pc = "read"
    /\ RenewIfDue(r, lookup = renewals[r].sub, renewals[r].period)
    /\ UNCHANGED <<clock, store, activations, charged>>

IsCharged(record, period) == record.lastCharged >= period

StartRenewal(r) ==
    LET call   == renewals[r]
        record == records[call.sub]
    IN  /\ call.pc = "due"
        /\ IF \/ IsCharged(record, call.period)
              \/ record.inFlight # NoInFlight /\ ~isStaleRenewal(record)
           THEN /\ RenewalTo(r, "done")
                /\ UNCHANGED records
           ELSE /\ records' = [records EXCEPT ![call.sub].inFlight =
                      [period |-> call.period, attempt |-> r, startedAt |-> clock]]
                /\ renewals' = [renewals EXCEPT ![r].pc = "started", ![r].startedAt = clock]
        /\ UNCHANGED <<clock, claimed, marker, lookup, activations, charged>>

\* A subscription that is not the lookup key's any more is not charged ...
LookupBefore(r) ==
    /\ renewals[r].pc = "started"
    /\ RenewalTo(r, IF lookup = renewals[r].sub THEN "charging" ELSE "clearing")
    /\ UNCHANGED <<clock, store, activations, charged>>

ChargePeriod(r) ==
    /\ renewals[r].pc = "charging"
    /\ Paid(renewals[r].sub, renewals[r].period)
    /\ RenewalTo(r, "charged")
    /\ UNCHANGED <<clock, store, activations>>

ChargeFails(r) ==
    /\ renewals[r].pc = "charging"
    /\ PaidUnnoticed(renewals[r].sub, renewals[r].period)
    /\ RenewalTo(r, "clearing")
    /\ UNCHANGED <<clock, store, activations>>

\* ... nor recorded.
LookupAfter(r) ==
    /\ renewals[r].pc = "charged"
    /\ RenewalTo(r, IF lookup = renewals[r].sub THEN "committing" ELSE "clearing")
    /\ UNCHANGED <<clock, store, activations, charged>>

\* Bug: whichever attempt holds the lock.
HoldsPeriod(r) == records[renewals[r].sub].inFlight.period = renewals[r].period

HoldsRenewal(r) ==
    /\ records[renewals[r].sub].inFlight.period = renewals[r].period
    /\ records[renewals[r].sub].inFlight.attempt = r

ClearRenewal(r) ==
    /\ renewals[r].pc = "clearing"
    /\ records' = IF HoldsRenewal(r)
                  THEN [records EXCEPT ![renewals[r].sub].inFlight = NoInFlight]
                  ELSE records
    /\ RenewalTo(r, "done")
    /\ UNCHANGED <<clock, claimed, marker, lookup, activations, charged>>

\* Bug: write back the record the renewal started with.
renewedAsStarted(record, period) ==
    [record EXCEPT !.lastCharged = period, !.inFlight = NoInFlight, !.canceled = FALSE]

\* The cancellation of the stored record is kept.
renewedRecord(record, period) ==
    [record EXCEPT !.lastCharged = period, !.inFlight = NoInFlight]

\* The update of the lookup key that follows writes what is there.
CommitRenewal(r) ==
    LET call == renewals[r]
    IN  /\ call.pc = "committing"
        /\ records' = IF HoldsRenewal(r)
                      THEN [records EXCEPT ![call.sub] = renewedRecord(@, call.period)]
                      ELSE records
        /\ RenewalTo(r, "done")
        /\ UNCHANGED <<clock, claimed, marker, lookup, activations, charged>>

-----------------------------------------------------------------------------
(* The rest of the system *)

\* The application cancels or revokes a subscription.
CancelSubscription ==
    /\ \E s \in Subscriptions :
          /\ isActive(records[s])
          /\ records' = [records EXCEPT ![s].canceled = TRUE]
    /\ UNCHANGED <<clock, claimed, marker, lookup, activations, renewals, charged>>

Tick ==
    /\ clock < MaxTime
    /\ clock' = clock + 1
    /\ UNCHANGED <<store, activations, renewals, charged>>

-----------------------------------------------------------------------------
ActivationStep(a) ==
    \/ Claim(a)
    \/ ReadLookup(a)
    \/ FindExisting(a)
    \/ Lock(a)
    \/ FindExistingAgain(a)
    \/ Create(a)
    \/ CreateFails(a)
    \/ Commit(a)
    \/ PutMismatched(a)
    \/ ReadPrevious(a)
    \/ CheckOwner(a)
    \/ PutCanceled(a)
    \/ PutRecord(a)
    \/ PutLookup(a)
    \/ Clear(a)
    \/ Reuse(a)
    \/ ReleaseCredential(a)

RenewalStep(r) ==
    \/ RequestLookup(r)
    \/ RequestRecord(r)
    \/ BackgroundRecord(r)
    \/ BackgroundLookup(r)
    \/ StartRenewal(r)
    \/ LookupBefore(r)
    \/ ChargePeriod(r)
    \/ ChargeFails(r)
    \/ LookupAfter(r)
    \/ ClearRenewal(r)
    \/ CommitRenewal(r)

Next ==
    \/ \E a \in Activations : ActivationStep(a)
    \/ \E r \in Renewals : RenewalStep(r)
    \/ CancelSubscription
    \/ Tick

Spec == Init /\ [][Next]_vars

-----------------------------------------------------------------------------
(* Properties *)

\* SubscriptionStore: "Runs activation once for a challenge".  However often a
\* challenge is presented, released and presented again, one activation pays.
ActivatedOncePerChallenge ==
    \A a, b \in Activations :
        a # b /\ activations[a].challenge = activations[b].challenge =>
            charged[a][0] = 0 \/ charged[b][0] = 0

\* An activation that committed keeps its lock, however long it takes: it never
\* stops between canceling the old subscription and activating its own.
CommittedOwns ==
    \A a \in Activations :
        activations[a].pc \in {"committed", "committedId", "ownCancel", "putCancel",
                               "ownRecord", "putRecord", "ownLookup", "putLookup",
                               "clearDone"}
            => ownsActivation(a)

\* At most the lookup key's subscription is billable: every other one is
\* canceled, or its activation has yet to point the lookup key to it.
LiveIsCurrent ==
    \A s \in Subscriptions :
        isActive(records[s]) /\ s # lookup =>
            s \in Activations /\ activations[s].pc \in {"ownLookup", "putLookup"}

IsFresh(r) == clock - renewals[r].startedAt < RenewalTimeout

\* Until its lock is stale, a renewal that may charge a period is alone: it
\* holds the lock and the period is not recorded as charged.  A subscription
\* canceled meanwhile is excepted, see PeriodChargedOnce.
RenewalExclusive ==
    \A r \in Renewals :
        LET record == records[renewals[r].sub]
        IN  renewals[r].pc \in {"started", "charging", "charged"} /\ IsFresh(r) =>
                \/ record.canceled
                \/ HoldsRenewal(r) /\ record.lastCharged < renewals[r].period

\* SubscriptionStore: "Runs renewal once for a subscription period."
PeriodChargedOnce ==
    \A s \in Subscriptions, p \in Periods : p > 0 => charged[s][p] <= 1

=============================================================================
