----------------------------- MODULE PrepaidRefund -----------------------------
(***************************************************************************)
(* Prepaid items of a stream that could not be delivered (Sse.ts, serve    *)
(* with autoCreditPrepaid) and the idempotency markers they rest on        *)
(* (ChannelStore.ts, planCredit and planKeyedDeduction).  Before a stream  *)
(* starts, what it owes is written to the channel's record; a delivery     *)
(* that fails marks it failed, credits it under a key and clears it, and   *)
(* what cannot be credited goes to the merchant's hook.  A server may stop *)
(* between any two of these steps and the answer of each may be lost.      *)
(* Around them the channel settles and closes, and a keyed charge is       *)
(* attempted again under its key.  An item costs one.                      *)
(***************************************************************************)
EXTENDS Integers, FiniteSets, Functions

CONSTANTS
    Deliveries,          \* prepaid streams; also the keys of their refunds
    PrepaidUnits,        \* what each paid for before it started
    Attempts,            \* attempts of one keyed charge
    ChargeKey,           \* its key
    MaxPrepaidRefunds,   \* maxPrepaidRefunds
    Retention,           \* defaultIdempotencyRetention
    MaxRefundTime        \* bound: the clock

ASSUME RefundAssumption ==
    /\ IsFiniteSet(Deliveries)
    /\ PrepaidUnits \in Nat \ {0}
    /\ ChargeKey \notin Deliveries
    /\ {MaxPrepaidRefunds, Retention} \subseteq Nat \ {0}
    /\ MaxRefundTime \in Nat

VARIABLES
    refundTime,
    account,      \* the channel's record
    serves,       \* serve's locals
    keyedCalls,   \* the attempts of the keyed charge
    merchant      \* what the merchant was handed, and returned outside the channel

refundVars == <<refundTime, account, serves, keyedCalls, merchant>>

Keys == Deliveries \cup {ChargeKey}
CreditOutcome == {"credited", "finalized", "closing", "exceedsSpent", "belowSettled"}
FreeKey == [outcome |-> "none", expiresAt |-> 0]
NoObligation == [status |-> "none", units |-> 0, createdAt |-> 0]

RefundTypeOK ==
    /\ refundTime \in Nat
    /\ account \in
         [spent : Nat, settled : Nat, closing : BOOLEAN, finalized : BOOLEAN,
          markers : [Keys -> [outcome : CreditOutcome \cup {"none", "charged"}, expiresAt : Nat]],
          prepaidRefunds : [Deliveries -> [status : {"none", "pending", "failed"},
                                           units : Nat, createdAt : Nat]],
          credited : [Deliveries -> Nat], charges : Nat]
    /\ serves \in [Deliveries ->
         [pc : {"idle", "charged", "streaming", "finishing", "marking", "crediting", "hook",
                "clearing", "over"},
          prepaid : Nat, undelivered : Nat, awaiting : Nat,
          failed : BOOLEAN, external : Nat, late : BOOLEAN, now : Nat]]
    /\ keyedCalls \in [Attempts -> [pc : {"idle", "sent", "charged", "refused", "lost"}, now : Nat]]
    /\ merchant \in [Deliveries -> [job : {"none", "transfer", "reconcile"}, transferred : Nat]]

\* credited and charges count what the record went through.
RefundInit ==
    /\ refundTime = 0
    /\ account = [spent |-> 0, settled |-> 0, closing |-> FALSE, finalized |-> FALSE,
                  markers |-> [k \in Keys |-> FreeKey],
                  prepaidRefunds |-> [d \in Deliveries |-> NoObligation],
                  credited |-> [d \in Deliveries |-> 0], charges |-> 0]
    /\ serves = [d \in Deliveries |->
                   [pc |-> "idle", prepaid |-> PrepaidUnits, undelivered |-> PrepaidUnits,
                    awaiting |-> 0, failed |-> FALSE, external |-> 0, late |-> FALSE, now |-> 0]]
    /\ keyedCalls = [a \in Attempts |-> [pc |-> "idle", now |-> 0]]
    /\ merchant = [d \in Deliveries |-> [job |-> "none", transferred |-> 0]]

At(d, pc) == serves[d].pc = pc
ServeGoes(d, pc) == serves' = [serves EXCEPT ![d].pc = pc]
-----------------------------------------------------------------------------
(* Markers *)

\* Bug: drop markers a moment early.
liveMarkersShort(now) ==
    [k \in Keys |-> IF account.markers[k].expiresAt > now + 1 THEN account.markers[k] ELSE FreeKey]

liveMarkers(now) ==
    [k \in Keys |-> IF account.markers[k].expiresAt > now THEN account.markers[k] ELSE FreeKey]

Held(markers) == Cardinality({k \in Keys : markers[k] # FreeKey})

creditDeclineReason(amount) ==
    IF account.finalized THEN "finalized"
    ELSE IF account.closing THEN "closing"
    ELSE IF amount > account.spent THEN "exceedsSpent"
    ELSE IF account.spent - amount < account.settled THEN "belowSettled"
    ELSE "credited"

\* Bug: only a declined outcome is final.
planCreditAgain(d, amount, now) ==
    LET live    == liveMarkers(now)
        outcome == creditDeclineReason(amount)
        returns == IF outcome = "credited" THEN amount ELSE 0
    IN IF live[d].outcome \notin {"none", "credited"}
       THEN [result |-> live[d].outcome, account |-> account]
       ELSE [result |-> outcome,
             account |-> [account EXCEPT
                !.spent = @ - returns,
                !.credited[d] = @ + returns,
                !.markers = [live EXCEPT ![d] = [outcome |-> outcome,
                                                 expiresAt |-> now + Retention]]]]

\* A key's first outcome is recorded and final; a full ledger records nothing.
planCredit(d, amount, now) ==
    LET live    == liveMarkers(now)
        outcome == creditDeclineReason(amount)
        returns == IF outcome = "credited" THEN amount ELSE 0
    IN IF live[d] # FreeKey THEN [result |-> live[d].outcome, account |-> account]
       ELSE IF Held(live) >= MaxPrepaidRefunds THEN [result |-> "capacity", account |-> account]
       ELSE [result |-> outcome,
             account |-> [account EXCEPT
                !.spent = @ - returns,
                !.credited[d] = @ + returns,
                !.markers = [live EXCEPT ![d] = [outcome |-> outcome,
                                                 expiresAt |-> now + Retention]]]]

CanCharge == ~account.finalized /\ ~account.closing

\* A charge recorded under the key is answered again; a refused one is not.
planKeyedDeduction(now) ==
    LET live == liveMarkers(now)
    IN IF live[ChargeKey] # FreeKey THEN [result |-> "charged", account |-> account]
       ELSE IF ~CanCharge THEN [result |-> "refused", account |-> account]
       ELSE [result |-> "charged",
             account |-> [account EXCEPT
                !.spent = @ + 1, !.charges = @ + 1,
                !.markers = [live EXCEPT ![ChargeKey] = [outcome |-> "charged",
                                                         expiresAt |-> now + Retention]]]]

\* The clock is read before the update is sent.
Attempt(a) ==
    /\ keyedCalls[a].pc = "idle"
    /\ keyedCalls' = [keyedCalls EXCEPT ![a] = [pc |-> "sent", now |-> refundTime]]
    /\ UNCHANGED <<refundTime, account, serves, merchant>>

\* The retention covers every attempt of a charge.
Retained == \A b \in Attempts : keyedCalls[b].pc # "idle" => refundTime < keyedCalls[b].now + Retention

deductFromChannel(a) ==
    LET plan == planKeyedDeduction(keyedCalls[a].now)
    IN /\ keyedCalls[a].pc = "sent"
       /\ Retained
       /\ \/ account' = plan.account
             /\ \E pc \in {plan.result, "lost"} : keyedCalls' = [keyedCalls EXCEPT ![a].pc = pc]
          \/ keyedCalls' = [keyedCalls EXCEPT ![a].pc = "lost"] /\ UNCHANGED account
       /\ UNCHANGED <<refundTime, serves, merchant>>
-----------------------------------------------------------------------------
(* The stream *)

\* The request that carries the voucher is charged before the stream exists.
Charge(d) ==
    /\ At(d, "idle")
    /\ CanCharge
    /\ account' = [account EXCEPT !.spent = @ + PrepaidUnits]
    /\ ServeGoes(d, "charged")
    /\ UNCHANGED <<refundTime, keyedCalls, merchant>>

Obligations == {d \in Deliveries : account.prepaidRefunds[d] # NoObligation}

\* A full ledger refuses the stream; when the answer is lost there is no stream
\* although the obligation may have been written.
preparePrepaidRefund(d) ==
    LET prepared == [account EXCEPT !.prepaidRefunds[d] =
                       [status |-> "pending", units |-> PrepaidUnits, createdAt |-> refundTime]]
    IN /\ At(d, "charged")
       /\ \/ /\ Cardinality(Obligations) + Held(liveMarkers(refundTime)) < MaxPrepaidRefunds
             /\ account' = prepared
             /\ \E pc \in {"streaming", "over"} : ServeGoes(d, pc)
          \/ ServeGoes(d, "over") /\ UNCHANGED account
       /\ UNCHANGED <<refundTime, keyedCalls, merchant>>

Less(n) == IF n > 0 THEN n - 1 ELSE 0

\* A generator's charge() uses up a unit before its item is delivered.
onPrepaidChargeCommitted(d) ==
    /\ At(d, "streaming")
    /\ serves[d].prepaid > 0
    /\ LET s == serves[d] IN
       serves' = [serves EXCEPT ![d] = [s EXCEPT !.prepaid = s.prepaid - 1, !.awaiting = s.awaiting + 1,
                                                 !.undelivered = Less(s.undelivered)]]
    /\ UNCHANGED <<refundTime, account, keyedCalls, merchant>>

\* An item of a unit that charge() used up has been counted.
enqueue(s) ==
    IF s.awaiting > 0 THEN [s EXCEPT !.awaiting = s.awaiting - 1]
    ELSE [s EXCEPT !.undelivered = Less(s.undelivered)]

pull(d) ==
    /\ At(d, "streaming")
    /\ serves' = [serves EXCEPT ![d] = enqueue(serves[d])]
    /\ UNCHANGED <<refundTime, account, keyedCalls, merchant>>

\* What the iterator has counted ends with it.
Leaves(d, pc, failed) ==
    serves' = [serves EXCEPT ![d] = [@ EXCEPT !.pc = pc, !.prepaid = 0, !.awaiting = 0,
                                              !.failed = serves[d].failed \/ failed]]

\* The generator is done, or the client or the request's signal ends the stream.
End(d) ==
    /\ At(d, "streaming")
    /\ \E pc \in {"finishing", "clearing"} : Leaves(d, pc, FALSE)
    /\ UNCHANGED <<refundTime, account, keyedCalls, merchant>>

Credits(d) == IF serves[d].undelivered = 0 THEN "clearing" ELSE "marking"

\* The obligation of a finished stream is cleared; when that or the receipt
\* fails, it is taken for a failed one.
Finish(d) ==
    /\ At(d, "finishing")
    /\ \/ /\ account' = [account EXCEPT !.prepaidRefunds[d] = NoObligation]
          /\ \E pc \in {"over", Credits(d)} : ServeGoes(d, pc)
       \/ ServeGoes(d, Credits(d)) /\ UNCHANGED account
    /\ UNCHANGED <<refundTime, keyedCalls, merchant>>

\* The generator, a charge or beforeCharge throws.
Fail(d) ==
    /\ At(d, "streaming")
    /\ Leaves(d, Credits(d), TRUE)
    /\ UNCHANGED <<refundTime, account, keyedCalls, merchant>>
-----------------------------------------------------------------------------
(* creditFailedDelivery *)

Mark(d, pc) == serves' = [serves EXCEPT ![d] = [@ EXCEPT !.pc = pc, !.now = refundTime]]

\* When the update fails, or finds no obligation, nothing is credited.
recordFailure(d) ==
    LET marked == [account EXCEPT !.prepaidRefunds[d] =
                     [@ EXCEPT !.status = "failed", !.units = serves[d].undelivered]]
    IN /\ At(d, "marking")
       /\ \/ /\ d \in Obligations
             /\ account' = marked
             /\ \E pc \in {"crediting", "hook"} : Mark(d, pc)
          \/ Mark(d, "hook") /\ UNCHANGED account
       /\ UNCHANGED <<refundTime, keyedCalls, merchant>>

\* No call takes as long as outcomes are kept.
InTime(d) == refundTime < serves[d].now + Retention

\* Bug: take everything captured for this delivery's.
externalRefundAll(amount) == IF account.settled > amount THEN amount ELSE account.settled

\* What a channel closed at less than was spent captured of this delivery, when
\* everything else that was spent comes first.
externalRefundAmount(amount) ==
    LET captured == account.settled - (account.spent - amount)
    IN IF captured < 0 THEN 0 ELSE IF captured > amount THEN amount ELSE captured

\* Bug: a finalized channel owes nothing.
NothingDueFinal(d, result) == result \in {"credited", "finalized"}

\* The credit leaves nothing to refund.
NothingDue(d, result) ==
    \/ result = "credited"
    \/ result = "finalized" /\ externalRefundAmount(serves[d].undelivered) = 0

AfterCredit(d, result) ==
    serves' = [serves EXCEPT ![d] =
        [@ EXCEPT !.pc = IF NothingDue(d, result) THEN "clearing" ELSE "hook",
                  !.external = IF result = "finalized"
                               THEN externalRefundAmount(serves[d].undelivered) ELSE 0]]

\* When its answer is lost the credit was made, was not, or still will be.
Unanswered(d, late) ==
    serves' = [serves EXCEPT ![d] = [@ EXCEPT !.pc = "hook", !.late = late]]

creditChannel(d) ==
    LET plan == planCredit(d, serves[d].undelivered, refundTime)
    IN /\ At(d, "crediting") /\ InTime(d)
       /\ \/ account' = plan.account /\ (AfterCredit(d, plan.result) \/ Unanswered(d, FALSE))
          \/ UNCHANGED account /\ \E late \in BOOLEAN : Unanswered(d, late)
       /\ UNCHANGED <<refundTime, keyedCalls, merchant>>

LateCredit(d) ==
    /\ serves[d].late /\ InTime(d)
    /\ account' = planCredit(d, serves[d].undelivered, serves[d].now).account
    /\ serves' = [serves EXCEPT ![d].late = FALSE]
    /\ UNCHANGED <<refundTime, keyedCalls, merchant>>

\* The hook returns when the merchant took the refund over; with none, or when
\* it throws, the obligation stays.
onRefundRequired(d) ==
    /\ At(d, "hook")
    /\ \/ /\ merchant' = [merchant EXCEPT ![d].job =
                IF serves[d].external > 0 THEN "transfer" ELSE "reconcile"]
          /\ ServeGoes(d, "clearing")
       \/ ServeGoes(d, "over") /\ UNCHANGED merchant
    /\ UNCHANGED <<refundTime, account, keyedCalls>>

clearObligation(d) ==
    /\ At(d, "clearing")
    /\ account' \in {account, [account EXCEPT !.prepaidRefunds[d] = NoObligation]}
    /\ ServeGoes(d, "over")
    /\ UNCHANGED <<refundTime, keyedCalls, merchant>>

\* The server stops; the obligation stays in the record.
Stop(d) ==
    /\ serves[d].pc \notin {"idle", "over"}
    /\ Leaves(d, "over", At(d, "streaming"))
    /\ UNCHANGED <<refundTime, account, keyedCalls, merchant>>
-----------------------------------------------------------------------------
(* The merchant and the channel *)

\* A failed entry, or what the hook took over with its credit unknown, may be
\* credited again with its key and terms within the retention.
Recovery(d) ==
    \/ /\ account.prepaidRefunds[d].status = "failed"
       /\ refundTime < account.prepaidRefunds[d].createdAt + Retention
    \/ merchant[d].job = "reconcile" /\ InTime(d)

RetryCredit(d) ==
    LET plan == planCredit(d, serves[d].undelivered, refundTime)
    IN /\ Recovery(d)
       /\ account' = IF plan.result = "credited"
                     THEN [plan.account EXCEPT !.prepaidRefunds[d] = NoObligation]
                     ELSE plan.account
       /\ UNCHANGED <<refundTime, serves, keyedCalls, merchant>>

\* The merchant returns outside the channel what it was told to.
Transfer(d) ==
    /\ merchant[d].job = "transfer"
    /\ merchant' = [merchant EXCEPT ![d].transferred = serves[d].external]
    /\ UNCHANGED <<refundTime, account, serves, keyedCalls>>

\* A settlement, a close that is marked and fails, or one by the server or the
\* payer that captures no more than was spent.
CaptureOrClose ==
    /\ ~account.finalized
    /\ \/ \E settled \in account.settled + 1 .. account.spent :
            account' = [account EXCEPT !.settled = settled]
       \/ account' = [account EXCEPT !.closing = ~@]
       \/ \E settled \in account.settled .. account.spent :
            account' = [account EXCEPT !.settled = settled, !.closing = FALSE, !.finalized = TRUE]
    /\ UNCHANGED <<refundTime, serves, keyedCalls, merchant>>

RefundTick ==
    /\ refundTime < MaxRefundTime
    /\ refundTime' = refundTime + 1
    /\ UNCHANGED <<account, serves, keyedCalls, merchant>>

DeliveryStep(d) ==
    \/ Charge(d) \/ preparePrepaidRefund(d) \/ onPrepaidChargeCommitted(d) \/ pull(d)
    \/ End(d) \/ Finish(d) \/ Fail(d) \/ recordFailure(d) \/ creditChannel(d) \/ LateCredit(d)
    \/ onRefundRequired(d) \/ clearObligation(d) \/ Stop(d) \/ RetryCredit(d) \/ Transfer(d)

RefundNext ==
    \/ \E d \in Deliveries : DeliveryStep(d)
    \/ \E a \in Attempts : Attempt(a) \/ deductFromChannel(a)
    \/ CaptureOrClose
    \/ RefundTick

RefundSpec == RefundInit /\ [][RefundNext]_refundVars
-----------------------------------------------------------------------------
\* What is returned, in the channel or outside it, is at most what was not
\* delivered, although credits are unknown, repeated, late and retried by
\* somebody else (Sse.ts:50, "idempotent credit retries").
RefundedOnce ==
    \A d \in Deliveries :
        account.credited[d] + merchant[d].transferred <= serves[d].undelivered

\* A unit that was paid and not delivered is not forgotten: it was credited,
\* the record or the merchant still has it, or it was never captured
\* (Sse.ts:49, preparePrepaidRefund).
OwedIsKept ==
    \A d \in Deliveries :
        serves[d].failed /\ serves[d].undelivered > 0 =>
            \/ account.credited[d] > 0
            \/ merchant[d].job # "none"
            \/ account.prepaidRefunds[d] # NoObligation
            \/ account.finalized /\ externalRefundAmount(serves[d].undelivered) = 0

\* Transfers come out of what the channel captured beyond everything else that
\* was spent (Sse.ts:29, externalRefundAmount).
TransfersWithinCapture ==
    LET returned == {d \in Deliveries : merchant[d].transferred > 0}
    IN returned # {} =>
         SumFunctionOnSet([d \in Deliveries |-> merchant[d].transferred], returned) <=
           account.settled - account.spent
             + SumFunctionOnSet([d \in Deliveries |-> serves[d].undelivered], returned)

\* However often it is attempted, a keyed charge is made once, and one that was
\* answered has been made (ChannelStore.ts:1131, ChargeOptions).
KeyedChargeOnce ==
    /\ account.charges <= 1
    /\ (\E a \in Attempts : keyedCalls[a].pc = "charged") => account.charges = 1
=============================================================================
