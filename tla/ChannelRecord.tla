---------------------------- MODULE ChannelRecord ----------------------------
(***************************************************************************)
(* The server's record of one payment channel and the pure functions that  *)
(* compute its next value: src/src/tempo/session/server/ChannelStore.ts    *)
(* and the update callbacks of CredentialVerification.ts, Settlement.ts    *)
(* and CloseSupervisor.ts.  Every store update of the session server is    *)
(* one of these functions applied atomically to the stored record.         *)
(*                                                                         *)
(* Amounts are naturals.  A voucher is its cumulative amount: signatures   *)
(* are checked before any of these functions run and carry no other        *)
(* information.  A time of 0 means "not set".  Fields that only label the  *)
(* channel (identity, creation date, units, block numbers) are left out.   *)
(***************************************************************************)
EXTENDS Integers, FiniteSets

CONSTANTS
    CreditKeys,       \* idempotency keys under which credits are issued
    MaxRetained,      \* maxRetainedVouchers
    Validity,         \* pendingCloseValiditySeconds
    ClockSkew,        \* pendingCloseClockSkewSeconds
    MinVoucherDelta   \* minVoucherDelta of the method

ASSUME RecordConstants ==
    /\ MaxRetained \in Nat
    /\ Validity \in Nat \ {0}
    /\ ClockSkew \in Nat
    /\ MinVoucherDelta \in Nat

-----------------------------------------------------------------------------
(* Shape of the record *)

CreditOutcomes ==
    {"none", "credited", "finalized", "closing", "exceedsSpent", "belowSettled"}

NoPending == [amount |-> 0, expiresAt |-> 0]

NoMarker == [outcome |-> "none", amount |-> 0]

\* What the server stores for a channel.
State ==
    [exists           : BOOLEAN,   \* FALSE: the store answers null
     finalized        : BOOLEAN,
     closeRequestedAt : Nat,
     deposit          : Nat,
     highest          : Nat,       \* highestVoucher, highestVoucherAmount
     retained         : SUBSET Nat,\* retainedVouchers
     settledOnChain   : Nat,
     spent            : Nat,
     pendingSettlement: [amount : Nat, expiresAt : Nat],
     markers          : [CreditKeys -> [outcome : CreditOutcomes, amount : Nat]]]

NoRecord ==
    [exists            |-> FALSE,
     finalized         |-> FALSE,
     closeRequestedAt  |-> 0,
     deposit           |-> 0,
     highest           |-> 0,
     retained          |-> {},
     settledOnChain    |-> 0,
     spent             |-> 0,
     pendingSettlement |-> NoPending,
     markers           |-> [k \in CreditKeys |-> NoMarker]]

\* OnChainChannelState: one read of the escrow.
ChainState == [deposit : Nat, settled : Nat, closeRequestedAt : Nat]

-----------------------------------------------------------------------------
(* Merging on-chain reads *)

keepGreater(a, b) == IF a > b THEN a ELSE b

\* Bug: take the read as it is, older or not.
mergeLatestRead(c, s) ==
    [c EXCEPT !.closeRequestedAt = s.closeRequestedAt,
              !.deposit          = s.deposit,
              !.settledOnChain   = s.settled]

mergeActiveOnChainState(c, s) ==
    [c EXCEPT !.closeRequestedAt = keepGreater(@, s.closeRequestedAt),
              !.deposit          = keepGreater(@, s.deposit),
              !.settledOnChain   = keepGreater(@, s.settled)]

\* recordPendingClose: like the merge, but the deposit is left alone.
pendingCloseState(c, s) ==
    [c EXCEPT !.closeRequestedAt = keepGreater(@, s.closeRequestedAt),
              !.settledOnChain   = keepGreater(@, s.settled)]

\* recordOnChainReadInBackground, for a read of an open channel.
backgroundReadState(c, s) ==
    IF c.exists /\ ~c.finalized /\ c.closeRequestedAt = 0
    THEN mergeActiveOnChainState(c, s)
    ELSE c

-----------------------------------------------------------------------------
(* Vouchers *)

\* Sorted neighbours of v among the kept vouchers, the settled amount below
\* them and the new highest voucher above them.
Below(kept, settled, v) ==
    CHOOSE b \in kept \cup {settled} :
        b < v /\ \A u \in kept : u < v => u <= b

Above(kept, newHighest, v) ==
    CHOOSE a \in kept \cup {newHighest} :
        a > v /\ \A u \in kept : u > v => u >= a

Gap(kept, settled, newHighest, v) ==
    Above(kept, newHighest, v) - Below(kept, settled, v)

\* The voucher the loop drops: the first one with the narrowest gap.
Narrowest(kept, settled, newHighest) ==
    CHOOSE v \in kept : \A u \in kept \ {v} :
        \/ Gap(kept, settled, newHighest, v) < Gap(kept, settled, newHighest, u)
        \/ /\ Gap(kept, settled, newHighest, v) = Gap(kept, settled, newHighest, u)
           /\ v < u

\* The record holds at most MaxRetained vouchers, so the candidates exceed it
\* by at most the superseded highest voucher and the loop runs at most once.
retainVouchers(c, newHighest, settled) ==
    LET kept == {v \in c.retained \cup {c.highest} : v > settled /\ v < newHighest}
    IN  IF Cardinality(kept) > MaxRetained
        THEN kept \ {Narrowest(kept, settled, newHighest)}
        ELSE kept

\* Bug: settle the highest voucher, whatever was spent.
IsSettleableHighest(c, v) == v = c.highest /\ v > c.settledOnChain

\* The voucher of resolveSettleableVoucher is v: the largest accepted voucher
\* within spent that still captures something.
IsSettleable(c, v) ==
    LET within == {u \in c.retained \cup {c.highest} :
                       u <= c.spent /\ u > c.settledOnChain}
    IN  v \in within /\ \A u \in within : u <= v

\* Bug: a voucher may exceed the deposit.
VoucherAmountsUnfunded(v, highest, s) ==
    /\ s.deposit # 0
    /\ s.closeRequestedAt = 0
    /\ v >= highest
    /\ v > s.settled
    /\ v = highest \/ v - highest >= MinVoucherDelta

\* validateVoucher and assertVoucherAmounts: s is the on-chain state and
\* highest the highest voucher of the record the caller read.
VoucherAmountsValid(v, highest, s) ==
    /\ s.deposit # 0
    /\ s.closeRequestedAt = 0
    /\ v <= s.deposit
    /\ v >= highest
    /\ v > s.settled
    /\ v = highest \/ v - highest >= MinVoucherDelta

\* acceptVoucherStateUpdate throws unless this holds.
AcceptsVouchers(c) == c.exists /\ ~c.finalized /\ c.closeRequestedAt = 0

acceptVoucherStateUpdate(c, v, s) ==
    LET onChain == mergeActiveOnChainState(c, s)
    IN  IF v <= c.highest
        THEN onChain
        ELSE [onChain EXCEPT
                 !.highest  = v,
                 !.retained = retainVouchers(c, v, onChain.settledOnChain)]

-----------------------------------------------------------------------------
(* Charges and credits *)

\* Bug: keep charging while the channel is closing.
CanDeductClosing(c, amount) ==
    /\ c.exists /\ ~c.finalized
    /\ c.highest - c.spent >= amount

\* planDeduction charges the record.  Stream reservations only lower what it
\* may charge; commitReservedCharges charges under this same condition.
CanDeduct(c, amount) ==
    /\ c.exists
    /\ ~c.finalized
    /\ c.closeRequestedAt = 0
    /\ c.highest - c.spent >= amount

planDeduction(c, amount) == [c EXCEPT !.spent = @ + amount]

\* Bug: charge the acceptance without looking at what is available.
chargeAcceptance(accepted, charge) == planDeduction(accepted, charge)

\* planVoucherAcceptance: the accepted record is charged when it covers the
\* charge and stored uncharged otherwise.
planVoucherAcceptance(accepted, charge) ==
    IF CanDeduct(accepted, charge) THEN planDeduction(accepted, charge) ELSE accepted

\* The amount a settlement in flight may still capture.
SettlingFloor(c, now) ==
    IF c.pendingSettlement.expiresAt > now THEN c.pendingSettlement.amount ELSE 0

creditDeclineReason(c, amount, now) ==
    IF c.finalized THEN "finalized"
    ELSE IF c.closeRequestedAt # 0 THEN "closing"
    ELSE IF amount > c.spent THEN "exceedsSpent"
    ELSE IF c.spent - amount < keepGreater(c.settledOnChain, SettlingFloor(c, now))
         THEN "belowSettled"
    ELSE "credited"

\* Bug: apply the credit before deciding it.
applyCredit(c, key, amount, now) ==
    [c EXCEPT !.spent = @ - amount,
              !.markers[key] = [outcome |-> creditDeclineReason(c, amount, now),
                                amount |-> amount]]

\* planCredit for a key without a recorded outcome.  Whatever is decided is
\* recorded, so a declined key is never credited later.
planCredit(c, key, amount, now) ==
    LET outcome == creditDeclineReason(c, amount, now)
    IN  [c EXCEPT
            !.spent        = IF outcome = "credited" THEN @ - amount ELSE @,
            !.markers[key] = [outcome |-> outcome, amount |-> amount]]

-----------------------------------------------------------------------------
(* Opening and topping up *)

openChannelState(c, cumulative, s) ==
    LET onChain == mergeActiveOnChainState(c, s)
        highest == keepGreater(c.highest, cumulative)
    IN  [onChain EXCEPT
            !.exists   = TRUE,
            !.highest  = highest,
            !.retained = IF highest > c.highest
                         THEN retainVouchers(c, highest, onChain.settledOnChain)
                         ELSE @,
            !.spent    = keepGreater(@, s.settled)]

topUpChannelState(c, s) == IF c.exists THEN mergeActiveOnChainState(c, s) ELSE c

-----------------------------------------------------------------------------
(* Settlement *)

\* Bug: record the settlement when it is claimed, not when it is confirmed.
claimAsSettled(c, amount, expiresAt, now) == [c EXCEPT !.settledOnChain = amount]

\* First update of settle: the floor under credits is raised to the voucher.
claimSettlement(c, amount, expiresAt, now) ==
    [c EXCEPT !.pendingSettlement =
        IF @.expiresAt > now
        THEN [amount    |-> keepGreater(@.amount, amount),
              expiresAt |-> keepGreater(@.expiresAt, expiresAt)]
        ELSE [amount |-> amount, expiresAt |-> expiresAt]]

\* release: a reverted settlement takes back the floor only if it is its own.
releaseSettlement(c, amount, expiresAt) ==
    IF c.pendingSettlement = [amount |-> amount, expiresAt |-> expiresAt]
    THEN [c EXCEPT !.pendingSettlement = NoPending]
    ELSE c

\* Bug: drop the floor without recording what settled.
dropFloor(c, newSettled) == [c EXCEPT !.pendingSettlement = NoPending]

\* Last update of settle: the confirmed amount replaces the floor.
checkpointSettlement(c, newSettled) ==
    LET settled == keepGreater(c.settledOnChain, newSettled)
    IN  [c EXCEPT
            !.settledOnChain    = settled,
            !.pendingSettlement = IF @.amount > settled THEN @ ELSE NoPending,
            !.retained          = {v \in @ : v > settled}]

-----------------------------------------------------------------------------
(* Closing *)

\* resolveCloseCaptureAmount succeeds with max(spent, settled).
CloseCovered(cumulative, spent, s) ==
    /\ cumulative >= spent
    /\ cumulative >= s.settled
    /\ keepGreater(spent, s.settled) <= s.deposit

closeCaptureAmount(spent, s) == keepGreater(spent, s.settled)

\* Bug: take a closed channel, which reads as all zeros, for an open one.
reconcileClosed(c, now, s) ==
    IF /\ c.exists /\ ~c.finalized
       /\ c.closeRequestedAt # 0
       /\ s.closeRequestedAt = 0
       /\ now > c.closeRequestedAt + Validity + ClockSkew
    THEN [c EXCEPT !.closeRequestedAt = 0]
    ELSE c

reconcileExpiredPendingClose(c, now, s) ==
    IF /\ c.exists
       /\ ~c.finalized
       /\ c.closeRequestedAt # 0
       /\ s.closeRequestedAt = 0
       /\ s.deposit # 0
       /\ now > c.closeRequestedAt + Validity + ClockSkew
    THEN [c EXCEPT !.closeRequestedAt = 0]
    ELSE c

\* markPendingClose throws unless this holds.
CanMarkPendingClose(c, cumulative, s) ==
    /\ ~c.finalized
    /\ c.closeRequestedAt = 0
    /\ CloseCovered(cumulative, c.spent, s)

markPendingClose(c, now) == [c EXCEPT !.closeRequestedAt = now]

\* Bug: a failed close removes whatever marker is there.
clearAnyClose(c, startedAt) == [c EXCEPT !.closeRequestedAt = 0]

\* A failed close removes its own marker.
clearPendingClose(c, startedAt) ==
    IF c.closeRequestedAt = startedAt THEN [c EXCEPT !.closeRequestedAt = 0] ELSE c

finalizeClosedChannelState(c, capture, cumulative) ==
    [c EXCEPT !.finalized        = TRUE,
              !.closeRequestedAt = 0,
              !.deposit          = 0,
              !.settledOnChain   = keepGreater(@, capture),
              !.highest          = keepGreater(@, cumulative)]

\* superviseChannel, for a deposit that already left the escrow.
finalizeFromEvent(c, paid) ==
    IF c.exists /\ ~c.finalized
    THEN [c EXCEPT !.finalized        = TRUE,
                   !.closeRequestedAt = 0,
                   !.deposit          = 0,
                   !.settledOnChain   = keepGreater(@, paid)]
    ELSE c

=============================================================================
