---------------------------- MODULE SessionChannel ----------------------------
(***************************************************************************)
(* The Tempo session server and one TIP-1034 payment channel: the handlers *)
(* of src/src/tempo/session/server (open, top-up, voucher and close        *)
(* credentials, charge, credit, settle, close supervision), the escrow     *)
(* precompile they talk to and the payer, interleaved at every await.      *)
(*                                                                         *)
(* A call of a handler is an element of a constant set (Vouchers, ...).    *)
(* It runs once, from pc "idle"; between two of its store updates and      *)
(* chain requests any other call may run.  A call that crashes, or whose   *)
(* answer is lost, simply takes no further step.  Calls are symmetric:     *)
(* any process of any server instance may run any of them.                 *)
(*                                                                         *)
(* One clock is kept, the server's.  A block's timestamp differs from it   *)
(* by at most ClockDrift.                                                  *)
(***************************************************************************)
EXTENDS ChannelRecord

CONSTANTS
    Opens,            \* calls of handleOpenCredential
    TopUps,           \* calls of handleTopUpCredential
    Vouchers,         \* calls of handleVoucherCredential
    Settlements,      \* calls of settle
    Closes,           \* calls of handleCloseCredential
    Supervisors,      \* runs of superviseCloses
    VoucherAmounts,   \* cumulative amounts the payer signs
    Charges,          \* amounts charged and credited
    Deposits,         \* amounts deposited by an open or a top-up
    ClockDrift,       \* largest difference between block time and server time
    GracePeriod,      \* the escrow's delay between a close request and withdrawal
    MaxReadAge,       \* longest time between a chain read and the update it feeds
    MaxDeposit,       \* bound: total deposit
    MaxTime           \* bound: the clock

ASSUME ChannelConstants ==
    /\ VoucherAmounts \subseteq Nat \ {0}
    /\ Charges \subseteq Nat \ {0}
    /\ Deposits \subseteq Nat \ {0}
    /\ ClockDrift \in Nat
    /\ GracePeriod \in Nat
    /\ MaxReadAge \in Nat
    /\ MaxDeposit \in Nat
    /\ MaxTime \in Nat

VARIABLES
    clock,    \* Date.now() in seconds
    escrow,   \* the precompile's channel
    ch,       \* the stored channel record
    opens, topUps, vouchers, settlements, closes, supervisors  \* calls in flight

calls == <<opens, topUps, vouchers, settlements, closes, supervisors>>
vars == <<clock, escrow, ch, calls>>

NoRead == [deposit |-> 0, settled |-> 0, closeRequestedAt |-> 0]

\* States of a transaction: not sent, in the mempool, mined.
TxStates == {"none", "pending", "landed", "reverted"}

\* The escrow, and what a call holds between two of its steps.
Escrow == [phase : {"absent", "open", "closed"}, opened : Nat, deposit : Nat,
           settled : Nat, closeRequestedAt : Nat]

OpenCall ==
    [pc : {"idle", "landed", "done", "refused"}, amount : Nat,
     requireAdvance : BOOLEAN, read : ChainState]

TopUpCall == [pc : {"idle", "landed", "done"}, read : ChainState]

VoucherCall ==
    [pc : {"idle", "read", "loaded", "recordClose", "checked", "stored", "accepted",
           "refused"},
     amount : Nat, charge : Nat, requireAdvance : BOOLEAN, read : ChainState,
     readAt : Nat, background : BOOLEAN, state : ChainState, highest : Nat,
     closing : BOOLEAN]

SettleCall ==
    [pc : {"idle", "claimed", "sent", "done", "failed"}, amount : Nat,
     validBefore : Nat, tx : TxStates]

CloseCall ==
    [pc : {"idle", "read", "marked", "sent", "done", "failed"}, amount : Nat,
     capture : Nat, read : ChainState, readAt : Nat, startedAt : Nat, tx : TxStates]

SuperviseCall ==
    [pc : {"idle", "read", "closing", "sent", "done"}, read : ChainState,
     readAt : Nat, timestamp : Nat, paid : Nat, closing : BOOLEAN, amount : Nat,
     capture : Nat, validBefore : Nat, tx : TxStates]

TypeOK ==
    /\ clock \in Nat \ {0}
    /\ escrow \in Escrow
    /\ ch \in State
    /\ opens \in [Opens -> OpenCall]
    /\ topUps \in [TopUps -> TopUpCall]
    /\ vouchers \in [Vouchers -> VoucherCall]
    /\ settlements \in [Settlements -> SettleCall]
    /\ closes \in [Closes -> CloseCall]
    /\ supervisors \in [Supervisors -> SuperviseCall]

Init ==
    /\ clock = 1
    /\ escrow = [phase |-> "absent", opened |-> 0, deposit |-> 0, settled |-> 0,
                 closeRequestedAt |-> 0]
    /\ ch = NoRecord
    /\ opens = [o \in Opens |->
          [pc |-> "idle", amount |-> 0, requireAdvance |-> FALSE, read |-> NoRead]]
    /\ topUps = [t \in TopUps |-> [pc |-> "idle", read |-> NoRead]]
    /\ vouchers = [r \in Vouchers |->
          [pc |-> "idle", amount |-> 0, charge |-> 0, requireAdvance |-> FALSE,
           read |-> NoRead, readAt |-> 0, background |-> FALSE, state |-> NoRead,
           highest |-> 0, closing |-> FALSE]]
    /\ settlements = [s \in Settlements |->
          [pc |-> "idle", amount |-> 0, validBefore |-> 0, tx |-> "none"]]
    /\ closes = [c \in Closes |->
          [pc |-> "idle", amount |-> 0, capture |-> 0, read |-> NoRead,
           readAt |-> 0, startedAt |-> 0, tx |-> "none"]]
    /\ supervisors = [p \in Supervisors |->
          [pc |-> "idle", read |-> NoRead, readAt |-> 0, timestamp |-> 0,
           paid |-> 0, closing |-> FALSE, amount |-> 0, capture |-> 0,
           validBefore |-> 0, tx |-> "none"]]

-----------------------------------------------------------------------------
(* The escrow precompile (external) *)

\* What getChannelState answers: a closed channel reads as all zeros.
EscrowRead ==
    IF escrow.phase = "open"
    THEN [deposit |-> escrow.deposit, settled |-> escrow.settled,
          closeRequestedAt |-> escrow.closeRequestedAt]
    ELSE NoRead

\* Timestamps the next block may carry.
BlockTimes == {t \in 1 .. clock + ClockDrift : t >= clock - ClockDrift}

\* Some next block is early enough to include a transaction.
CanLand(validBefore) == \E t \in BlockTimes : t < validBefore

EscrowSettles(amount) ==
    escrow.phase = "open" /\ amount > escrow.settled /\ amount <= escrow.deposit

EscrowCloses(amount, capture) ==
    /\ escrow.phase = "open"
    /\ capture >= escrow.settled
    /\ capture <= amount
    /\ capture <= escrow.deposit

ClosedWith(capture) ==
    [escrow EXCEPT !.phase = "closed", !.settled = capture]

\* The payer asks the escrow to close.
PayerRequestClose ==
    /\ escrow.phase = "open"
    /\ escrow.closeRequestedAt = 0
    /\ \E t \in BlockTimes : escrow' = [escrow EXCEPT !.closeRequestedAt = t]
    /\ UNCHANGED <<clock, ch, calls>>

\* The payer withdraws what was not settled once the grace period is over.
PayerWithdraw ==
    /\ escrow.phase = "open"
    /\ escrow.closeRequestedAt # 0
    /\ \E t \in BlockTimes : t >= escrow.closeRequestedAt + GracePeriod
    /\ escrow' = ClosedWith(escrow.settled)
    /\ UNCHANGED <<clock, ch, calls>>

Tick ==
    /\ clock < MaxTime
    /\ clock' = clock + 1
    /\ UNCHANGED <<escrow, ch, calls>>

\* A chain read issued, or a time taken, at readAt is still applied.
Recent(readAt) == clock <= readAt + MaxReadAge

-----------------------------------------------------------------------------
(* handleOpenCredential *)

\* broadcastOpenTransaction: the open lands and is read back at its block.
OpenLand(o) ==
    /\ opens[o].pc = "idle"
    /\ escrow.phase = "absent"
    /\ \E amount \in VoucherAmounts, deposit \in Deposits, requireAdvance \in BOOLEAN :
          /\ amount <= deposit
          /\ deposit <= MaxDeposit
          /\ escrow' = [escrow EXCEPT !.phase = "open", !.opened = deposit,
                                      !.deposit = deposit]
          /\ opens' = [opens EXCEPT ![o] =
                [pc |-> "landed", amount |-> amount, requireAdvance |-> requireAdvance,
                 read |-> [deposit |-> deposit, settled |-> 0, closeRequestedAt |-> 0]]]
    /\ UNCHANGED <<clock, ch, topUps, vouchers, settlements, closes, supervisors>>

\* The same open presented again, with a voucher of its own: its receipt is
\* found and its block read again.
OpenReplay(o) ==
    /\ opens[o].pc = "idle"
    /\ escrow.phase # "absent"
    /\ \E amount \in VoucherAmounts, requireAdvance \in BOOLEAN :
          /\ amount <= escrow.opened
          /\ opens' = [opens EXCEPT ![o] =
                [pc |-> "landed", amount |-> amount, requireAdvance |-> requireAdvance,
                 read |-> [deposit |-> escrow.opened, settled |-> 0,
                           closeRequestedAt |-> 0]]]
    /\ UNCHANGED <<clock, escrow, ch, topUps, vouchers, settlements, closes, supervisors>>

OpenStore(o) ==
    /\ opens[o].pc = "landed"
    /\ IF opens[o].requireAdvance /\ ch.exists /\ opens[o].amount <= ch.highest
       THEN opens' = [opens EXCEPT ![o].pc = "refused"] /\ UNCHANGED ch
       ELSE /\ ch' = openChannelState(ch, opens[o].amount, opens[o].read)
            /\ opens' = [opens EXCEPT ![o].pc = "done"]
    /\ UNCHANGED <<clock, escrow, topUps, vouchers, settlements, closes, supervisors>>

-----------------------------------------------------------------------------
(* handleTopUpCredential *)

\* broadcastTopUpTransaction: the deposit grows and a close request is
\* cancelled (external); the result is read back at its block.
TopUpLand(t) ==
    /\ topUps[t].pc = "idle"
    /\ ch.exists
    /\ escrow.phase = "open"
    /\ \E amount \in Deposits :
          /\ escrow.deposit + amount <= MaxDeposit
          /\ escrow' = [escrow EXCEPT !.deposit = @ + amount, !.closeRequestedAt = 0]
    /\ topUps' = [topUps EXCEPT ![t] =
          [pc |-> "landed",
           read |-> [deposit |-> escrow'.deposit, settled |-> escrow.settled,
                     closeRequestedAt |-> 0]]]
    /\ UNCHANGED <<clock, ch, opens, vouchers, settlements, closes, supervisors>>

TopUpStore(t) ==
    /\ topUps[t].pc = "landed"
    /\ ch' = topUpChannelState(ch, topUps[t].read)
    /\ topUps' = [topUps EXCEPT ![t].pc = "done"]
    /\ UNCHANGED <<clock, escrow, opens, vouchers, settlements, closes, supervisors>>

-----------------------------------------------------------------------------
(* handleVoucherCredential *)

VoucherUnchanged == UNCHANGED <<clock, escrow, opens, topUps, settlements, closes, supervisors>>

\* The on-chain read is issued first and overlaps everything below.
VoucherRead(r) ==
    /\ vouchers[r].pc = "idle"
    /\ escrow.phase # "absent"
    /\ \E amount \in VoucherAmounts, charge \in Charges \cup {0}, requireAdvance \in BOOLEAN :
          vouchers' = [vouchers EXCEPT ![r] =
             [pc |-> "read", amount |-> amount, charge |-> charge,
              requireAdvance |-> requireAdvance, read |-> EscrowRead, readAt |-> clock,
              background |-> FALSE, state |-> NoRead, highest |-> 0, closing |-> FALSE]]
    /\ UNCHANGED ch
    /\ VoucherUnchanged

\* The call ends.  A read it did not wait for is recorded in the background.
Finished(r, pc, background) ==
    [vouchers EXCEPT ![r].pc = pc, ![r].state = NoRead, ![r].highest = 0,
                     ![r].closing = FALSE, ![r].background = background,
                     ![r].read = IF background THEN @ ELSE NoRead,
                     ![r].readAt = IF background THEN @ ELSE 0]

VoucherRefused(r) ==
    vouchers' = Finished(r, "refused", vouchers[r].background) /\ UNCHANGED ch

\* Bug: the voucher's advance is not checked again on the current record.
AcceptStale(r, state, background) ==
    IF ~AcceptsVouchers(ch)
    THEN VoucherRefused(r)
    ELSE LET accepted == acceptVoucherStateUpdate(ch, vouchers[r].amount, state)
         IN  /\ ch' = planVoucherAcceptance(accepted, vouchers[r].charge)
             /\ vouchers' = Finished(r, "accepted", background)

\* The store update that accepts a voucher: requireAdvance is checked again
\* on the current record, then the voucher is merged and its request charged.
\* Without the funds for the charge the voucher is kept and the call refused.
AcceptIn(r, state, background) ==
    LET v == vouchers[r]
        accepted == acceptVoucherStateUpdate(ch, v.amount, state)
    IN  IF \/ ~AcceptsVouchers(ch)
           \/ v.requireAdvance /\ v.amount <= ch.highest
        THEN VoucherRefused(r)
        ELSE /\ ch' = planVoucherAcceptance(accepted, v.charge)
             /\ vouchers' = IF v.charge = 0 \/ CanDeduct(accepted, v.charge)
                            THEN Finished(r, "accepted", background)
                            ELSE Finished(r, "refused", v.background)

storedChannelState(c) ==
    [deposit |-> c.deposit, settled |-> c.settledOnChain,
     closeRequestedAt |-> c.closeRequestedAt]

\* acceptVoucherInOneUpdate: the stored on-chain state was verified recently
\* enough to accept against (how recently is not modelled here).
VoucherOneUpdate(r) ==
    LET v == vouchers[r]
        stored == storedChannelState(ch)
    IN  /\ v.pc = "read"
        /\ ch.exists
        /\ IF ch.finalized
           THEN VoucherRefused(r)
           ELSE /\ ch.closeRequestedAt = 0 /\ v.amount <= ch.deposit
                /\ IF \/ v.requireAdvance /\ v.amount <= ch.highest
                      \/ ~VoucherAmountsValid(v.amount, ch.highest, stored)
                   THEN VoucherRefused(r)
                   ELSE IF v.amount = ch.highest /\ v.charge = 0
                   THEN vouchers' = Finished(r, "accepted", TRUE) /\ UNCHANGED ch
                   ELSE AcceptIn(r, stored, TRUE)
        /\ VoucherUnchanged

\* recordOnChainReadInBackground: the read is recorded whatever the call, which
\* did not wait for it, does meanwhile.
VoucherBackground(r) ==
    LET v == vouchers[r]
    IN  /\ v.background
        /\ Recent(v.readAt)
        /\ ch' = IF v.read.closeRequestedAt # 0 THEN pendingCloseState(ch, v.read)
                 ELSE IF v.read.deposit = 0 THEN ch
                 ELSE backgroundReadState(ch, v.read)
        /\ vouchers' = [vouchers EXCEPT ![r].background = FALSE, ![r].read = NoRead,
                                        ![r].readAt = 0]
        /\ VoucherUnchanged

VoucherLoad(r) ==
    /\ vouchers[r].pc = "read"
    /\ IF ~ch.exists \/ ch.finalized
       THEN VoucherRefused(r)
       ELSE /\ vouchers' = [vouchers EXCEPT
                  ![r].pc = "loaded", ![r].highest = ch.highest,
                  ![r].closing = (ch.closeRequestedAt # 0)]
            /\ UNCHANGED ch
    /\ VoucherUnchanged

\* Stores without updateChannelResult: the loaded record, when verified
\* recently enough, stands in for the read, which is left to the background.
VoucherLoadStored(r) ==
    /\ vouchers[r].pc = "read"
    /\ AcceptsVouchers(ch)
    /\ vouchers[r].amount <= ch.deposit
    /\ vouchers' = [vouchers EXCEPT
          ![r].pc = "stored", ![r].highest = ch.highest,
          ![r].state = storedChannelState(ch), ![r].background = TRUE]
    /\ UNCHANGED ch
    /\ VoucherUnchanged

\* A record loaded as closing is first reconciled with the read.
VoucherReconcile(r) ==
    LET v == vouchers[r]
        next == IF v.read.closeRequestedAt # 0 THEN "recordClose" ELSE "checked"
    IN  /\ v.pc = "loaded"
        /\ Recent(v.readAt)
        /\ IF v.closing
           THEN /\ ch' = reconcileExpiredPendingClose(ch, clock, v.read)
                /\ vouchers' = [vouchers EXCEPT ![r].pc = next, ![r].state = v.read,
                                                ![r].highest = ch.highest]
           ELSE /\ vouchers' = [vouchers EXCEPT ![r].pc = next, ![r].state = v.read]
                /\ UNCHANGED ch
        /\ VoucherUnchanged

\* recordPendingClose, then the call fails.  The settlement it triggers is a
\* call of Settlements, which may start at any time.
VoucherRecordClose(r) ==
    /\ vouchers[r].pc = "recordClose"
    /\ Recent(vouchers[r].readAt)
    /\ ch' = pendingCloseState(ch, vouchers[r].read)
    /\ vouchers' = Finished(r, "refused", FALSE)
    /\ VoucherUnchanged

\* verifyAndAcceptVoucher: validated against what was read, accepted on the
\* current record.
VoucherAccept(r) ==
    LET v == vouchers[r]
        alreadyAccepted == v.amount = v.highest
    IN  /\ v.pc = "stored" \/ (v.pc = "checked" /\ Recent(v.readAt))
        /\ IF \/ ~VoucherAmountsValid(v.amount, v.highest, v.state)
              \/ alreadyAccepted /\ v.requireAdvance
           THEN VoucherRefused(r)
           ELSE IF alreadyAccepted /\ v.charge = 0
           THEN vouchers' = Finished(r, "accepted", v.background) /\ UNCHANGED ch
           ELSE AcceptIn(r, v.state, v.background)
        /\ VoucherUnchanged

-----------------------------------------------------------------------------
(* deductFromChannel, commitReservedCharges and creditChannel *)

Charge(amount) ==
    /\ CanDeduct(ch, amount)
    /\ ch' = planDeduction(ch, amount)
    /\ UNCHANGED <<clock, escrow, calls>>

\* Retries of a decided key return the recorded outcome and change nothing.
Credit(key, amount) ==
    /\ ch.exists
    /\ ch.markers[key].outcome = "none"
    /\ ch' = planCredit(ch, key, amount, clock)
    /\ UNCHANGED <<clock, escrow, calls>>

-----------------------------------------------------------------------------
(* settle *)

SettlementUnchanged == UNCHANGED <<clock, opens, topUps, vouchers, closes, supervisors>>

\* The largest voucher within spent is chosen and the credit floor raised in
\* one update.  The transaction's expiry is pinned to a time taken before that
\* update; the floor outlives it.
SettleClaim(s) ==
    /\ settlements[s].pc = "idle"
    /\ ch.exists
    /\ \E v \in ch.retained \cup {ch.highest}, now \in 1 .. clock :
          /\ IsSettleable(ch, v)
          /\ Recent(now)
          /\ ch' = claimSettlement(ch, v, now + Validity + ClockSkew, clock)
          /\ settlements' = [settlements EXCEPT ![s] =
                [pc |-> "claimed", amount |-> v, validBefore |-> now + Validity,
                 tx |-> "none"]]
    /\ UNCHANGED escrow
    /\ SettlementUnchanged

SettleSend(s) ==
    /\ settlements[s].pc = "claimed"
    /\ settlements' = [settlements EXCEPT ![s].pc = "sent", ![s].tx = "pending"]
    /\ UNCHANGED <<ch, escrow>>
    /\ SettlementUnchanged

\* Chain: the transaction is mined before its expiry and succeeds or reverts.
SettleMine(s) ==
    /\ settlements[s].tx = "pending"
    /\ CanLand(settlements[s].validBefore)
    /\ IF EscrowSettles(settlements[s].amount)
       THEN /\ escrow' = [escrow EXCEPT !.settled = settlements[s].amount]
            /\ settlements' = [settlements EXCEPT ![s].tx = "landed"]
       ELSE /\ settlements' = [settlements EXCEPT ![s].tx = "reverted"]
            /\ UNCHANGED escrow
    /\ UNCHANGED ch
    /\ SettlementUnchanged

\* The receipt is seen and recorded.
SettleCheckpoint(s) ==
    /\ settlements[s].pc = "sent"
    /\ settlements[s].tx = "landed"
    /\ ch' = checkpointSettlement(ch, settlements[s].amount)
    /\ settlements' = [settlements EXCEPT ![s].pc = "done"]
    /\ UNCHANGED escrow
    /\ SettlementUnchanged

\* A revert, of the transaction or while preparing it, proves it cannot land.
SettleRelease(s) ==
    /\ \/ settlements[s].pc = "sent" /\ settlements[s].tx = "reverted"
       \/ settlements[s].pc = "claimed"
    /\ ch' = releaseSettlement(ch, settlements[s].amount,
                               settlements[s].validBefore + ClockSkew)
    /\ settlements' = [settlements EXCEPT ![s].pc = "failed"]
    /\ UNCHANGED escrow
    /\ SettlementUnchanged

-----------------------------------------------------------------------------
(* handleCloseCredential *)

CloseUnchanged == UNCHANGED <<clock, opens, topUps, vouchers, settlements, supervisors>>

\* The record and the escrow are read and the close voucher checked.
CloseRead(c) ==
    /\ closes[c].pc = "idle"
    /\ ch.exists /\ ~ch.finalized
    /\ EscrowRead.closeRequestedAt = 0
    /\ \E amount \in VoucherAmounts \cup {0} :
          /\ EscrowRead.deposit = 0 => amount = 0 /\ ch.spent = 0
          /\ CloseCovered(amount, ch.spent, EscrowRead)
          /\ closes' = [closes EXCEPT ![c] =
                [pc |-> "read", amount |-> amount, capture |-> 0, read |-> EscrowRead,
                 readAt |-> clock, startedAt |-> 0, tx |-> "none"]]
    /\ UNCHANGED <<ch, escrow>>
    /\ CloseUnchanged

\* The pending-close marker is written; it carries the time taken before the
\* update, to which the transaction's expiry is pinned as well.
CloseMark(c) ==
    LET call == closes[c]
    IN  /\ call.pc = "read"
        /\ Recent(call.readAt)
        /\ \E now \in call.readAt .. clock :
             LET current == reconcileExpiredPendingClose(ch, now, call.read)
             IN  IF CanMarkPendingClose(current, call.amount, call.read)
                 THEN /\ ch' = markPendingClose(current, now)
                      /\ closes' = [closes EXCEPT
                            ![c].pc = "marked", ![c].startedAt = now,
                            ![c].read = NoRead, ![c].readAt = 0,
                            ![c].capture = closeCaptureAmount(current.spent, call.read)]
                 ELSE /\ closes' = [closes EXCEPT ![c].pc = "failed"]
                      /\ UNCHANGED ch
        /\ UNCHANGED escrow
        /\ CloseUnchanged

CloseSend(c) ==
    /\ closes[c].pc = "marked"
    /\ closes' = [closes EXCEPT ![c].pc = "sent", ![c].tx = "pending"]
    /\ UNCHANGED <<ch, escrow>>
    /\ CloseUnchanged

\* Chain: the close is mined before its expiry.
CloseMine(c) ==
    /\ closes[c].tx = "pending"
    /\ CanLand(closes[c].startedAt + Validity)
    /\ IF EscrowCloses(closes[c].amount, closes[c].capture)
       THEN /\ escrow' = ClosedWith(closes[c].capture)
            /\ closes' = [closes EXCEPT ![c].tx = "landed"]
       ELSE /\ closes' = [closes EXCEPT ![c].tx = "reverted"]
            /\ UNCHANGED escrow
    /\ UNCHANGED ch
    /\ CloseUnchanged

CloseFinalize(c) ==
    /\ closes[c].pc = "sent"
    /\ closes[c].tx = "landed"
    /\ ch' = finalizeClosedChannelState(ch, closes[c].capture, closes[c].amount)
    /\ closes' = [closes EXCEPT ![c].pc = "done"]
    /\ UNCHANGED escrow
    /\ CloseUnchanged

\* A close never handed to the node, or reverted, removes its marker.  One
\* whose answer is lost keeps it.
CloseFail(c) ==
    /\ \/ closes[c].pc = "marked"
       \/ closes[c].pc = "sent" /\ closes[c].tx = "reverted"
    /\ ch' = clearPendingClose(ch, closes[c].startedAt)
    /\ closes' = [closes EXCEPT ![c].pc = "failed"]
    /\ UNCHANGED escrow
    /\ CloseUnchanged

-----------------------------------------------------------------------------
(* superviseCloses *)

SupervisorUnchanged == UNCHANGED <<clock, opens, topUps, vouchers, settlements, closes>>

\* The record is loaded and the escrow read at the pinned block.  What a
\* closed channel paid is found in its ChannelClosed event.
SuperviseRead(p) ==
    /\ supervisors[p].pc = "idle"
    /\ ch.exists /\ ~ch.finalized
    /\ \E t \in BlockTimes :
          supervisors' = [supervisors EXCEPT ![p] =
             [@ EXCEPT !.pc = "read", !.read = EscrowRead, !.readAt = clock,
                       !.timestamp = t,
                       !.paid = IF escrow.phase = "closed" THEN escrow.settled ELSE 0,
                       !.closing = (ch.closeRequestedAt # 0)]]
    /\ UNCHANGED <<ch, escrow>>
    /\ SupervisorUnchanged

SupervisorDone(p) ==
    [supervisors EXCEPT ![p].pc = "done", ![p].read = NoRead, ![p].readAt = 0,
                        ![p].timestamp = 0, ![p].paid = 0, ![p].closing = FALSE]

\* The deposit left the escrow.
SuperviseClosed(p) ==
    /\ supervisors[p].pc = "read"
    /\ Recent(supervisors[p].readAt)
    /\ supervisors[p].read.deposit = 0
    /\ ch' = finalizeFromEvent(ch, supervisors[p].paid)
    /\ supervisors' = SupervisorDone(p)
    /\ UNCHANGED escrow
    /\ SupervisorUnchanged

\* Open on chain without a request.  An open record is left to settleDue (a
\* call of Settlements); a closing one may have been cancelled.
SuperviseOpen(p) ==
    LET call == supervisors[p]
    IN  /\ call.pc = "read"
        /\ Recent(call.readAt)
        /\ call.read.deposit # 0
        /\ call.read.closeRequestedAt = 0
        /\ ch' = IF call.closing
                 THEN reconcileExpiredPendingClose(ch, call.timestamp, call.read)
                 ELSE ch
        /\ supervisors' = SupervisorDone(p)
        /\ UNCHANGED escrow
        /\ SupervisorUnchanged

\* Bug: close without first storing that the channel is closing.
SuperviseUnmarked(p) ==
    LET call    == supervisors[p]
        capture == closeCaptureAmount(ch.spent, call.read)
    IN  /\ call.pc = "read"
        /\ Recent(call.readAt)
        /\ call.read.closeRequestedAt # 0
        /\ ~ch.finalized
        /\ CloseCovered(ch.highest, ch.spent, call.read)
        /\ supervisors' = [supervisors EXCEPT ![p].pc = "closing",
                               ![p].amount = ch.highest, ![p].capture = capture]
        /\ UNCHANGED <<ch, escrow>>
        /\ SupervisorUnchanged

\* A close request: the record stops charges and credits, and closeAtSpend
\* computes the capture from what that update stored.
SuperviseClosing(p) ==
    LET call    == supervisors[p]
        closing == mergeActiveOnChainState(ch, call.read)
        capture == closeCaptureAmount(closing.spent, call.read)
    IN  /\ call.pc = "read"
        /\ Recent(call.readAt)
        /\ call.read.deposit # 0
        /\ call.read.closeRequestedAt # 0
        /\ IF ch.finalized
           THEN supervisors' = SupervisorDone(p) /\ UNCHANGED ch
           ELSE /\ ch' = closing
                /\ IF /\ CloseCovered(closing.highest, closing.spent, call.read)
                      /\ capture > call.read.settled
                   THEN supervisors' = [supervisors EXCEPT ![p].pc = "closing",
                           ![p].amount = closing.highest, ![p].capture = capture]
                   ELSE supervisors' = SupervisorDone(p)
        /\ UNCHANGED escrow
        /\ SupervisorUnchanged

\* No expiry is passed: the transaction gets the default of its expiring
\* nonce, Validity after it is built (external).
SuperviseSend(p) ==
    /\ supervisors[p].pc = "closing"
    /\ supervisors' = [supervisors EXCEPT
          ![p].pc = "sent", ![p].tx = "pending", ![p].validBefore = clock + Validity]
    /\ UNCHANGED <<ch, escrow>>
    /\ SupervisorUnchanged

\* Chain: the supervisor's close is mined before its expiry.
SuperviseMine(p) ==
    /\ supervisors[p].tx = "pending"
    /\ CanLand(supervisors[p].validBefore)
    /\ IF EscrowCloses(supervisors[p].amount, supervisors[p].capture)
       THEN /\ escrow' = ClosedWith(supervisors[p].capture)
            /\ supervisors' = [supervisors EXCEPT ![p].tx = "landed"]
       ELSE /\ supervisors' = [supervisors EXCEPT ![p].tx = "reverted"]
            /\ UNCHANGED escrow
    /\ UNCHANGED ch
    /\ SupervisorUnchanged

SuperviseFinalize(p) ==
    /\ supervisors[p].pc = "sent"
    /\ supervisors[p].tx = "landed"
    /\ ch' = finalizeClosedChannelState(ch, supervisors[p].capture, supervisors[p].amount)
    /\ supervisors' = SupervisorDone(p)
    /\ UNCHANGED escrow
    /\ SupervisorUnchanged

-----------------------------------------------------------------------------
PayerStep == PayerRequestClose \/ PayerWithdraw

OpenStep == \E o \in Opens : OpenLand(o) \/ OpenReplay(o) \/ OpenStore(o)

TopUpStep == \E t \in TopUps : TopUpLand(t) \/ TopUpStore(t)

VoucherStep == \E r \in Vouchers :
    \/ VoucherRead(r)
    \/ VoucherOneUpdate(r)
    \/ VoucherBackground(r)
    \/ VoucherLoad(r)
    \/ VoucherLoadStored(r)
    \/ VoucherReconcile(r)
    \/ VoucherRecordClose(r)
    \/ VoucherAccept(r)

AccountingStep == \E amount \in Charges :
    \/ Charge(amount)
    \/ \E key \in CreditKeys : Credit(key, amount)

SettleStep == \E s \in Settlements :
    \/ SettleClaim(s)
    \/ SettleSend(s)
    \/ SettleMine(s)
    \/ SettleCheckpoint(s)
    \/ SettleRelease(s)

CloseStep == \E c \in Closes :
    \/ CloseRead(c)
    \/ CloseMark(c)
    \/ CloseSend(c)
    \/ CloseMine(c)
    \/ CloseFinalize(c)
    \/ CloseFail(c)

SuperviseStep == \E p \in Supervisors :
    \/ SuperviseRead(p)
    \/ SuperviseClosed(p)
    \/ SuperviseOpen(p)
    \/ SuperviseClosing(p)
    \/ SuperviseSend(p)
    \/ SuperviseMine(p)
    \/ SuperviseFinalize(p)

Next ==
    \/ Tick
    \/ PayerStep
    \/ OpenStep
    \/ TopUpStep
    \/ VoucherStep
    \/ AccountingStep
    \/ SettleStep
    \/ CloseStep
    \/ SuperviseStep

Spec == Init /\ [][Next]_vars

-----------------------------------------------------------------------------
(* Properties *)

\* README: spent "never exceeds accepted authorization".  Charges, commits and
\* voucher acceptances of concurrent calls, each validated against an older
\* record, never spend more than the payer signed for.
SpentWithinAccepted == ch.spent <= ch.highest

\* Every accepted voucher is covered by what the escrow holds, although it is
\* checked against a read, or a stored deposit, older than its acceptance.
VouchersAreFunded == escrow.phase = "open" => ch.highest <= escrow.deposit

\* The receipt of a settlement that landed has not been recorded and the
\* credit floor it raised has expired.
UnrecordedSettlement ==
    \E s \in Settlements :
        /\ settlements[s].tx = "landed"
        /\ settlements[s].pc = "sent"
        /\ clock >= settlements[s].validBefore + ClockSkew

\* Whatever mines, a settlement or a close, captures at most what is charged at
\* that moment: "a concurrent credit cannot lower spent below what lands".
CaptureWithinSpent ==
    [][escrow'.settled > escrow.settled => escrow'.settled <= ch.spent]_vars

\* A credit never takes spent below what the escrow already paid.  The one
\* exception is a settlement whose receipt is not recorded before its credit
\* floor expires.
CreditKeepsSettled ==
    [][ch'.spent < ch.spent =>
         escrow.settled <= ch'.spent \/ UnrecordedSettlement]_vars

\* The record never claims more settled than the escrow paid, whatever order
\* receipts and reads are applied in.
RecordBehindEscrow == ch.settledOnChain <= escrow.settled

\* "Pin the close transaction's expiry to the marker so an expired marker proves
\* it can no longer land": while a cooperative close may land, the record is
\* closing, so nothing is charged or credited.
CloseKeepsMarker ==
    \A c \in Closes :
        closes[c].tx = "pending" /\ CanLand(closes[c].startedAt + Validity)
            => ch.closeRequestedAt # 0 \/ ch.finalized

\* "An open channel with no on-chain close request proves the expired close never
\* executed": a record is not reopened once its cooperative close landed.
ReopenedOnlyIfNotClosed ==
    [][ch.closeRequestedAt # 0 /\ ch'.closeRequestedAt = 0 /\ ~ch'.finalized
         => \A c \in Closes : closes[c].tx # "landed"]_vars

\* A cooperative close that landed paid everything that was ever charged: no
\* charge slipped in between computing the capture and mining it.
ClosePaysSpent ==
    \A c \in Closes : closes[c].tx = "landed" => closes[c].capture >= ch.spent

\* The close a supervisor sent pays exactly what is charged: "A pending close
\* stops charges and credits, so the spend this close captures stays fixed."
SupervisedCaptureFixed ==
    \A p \in Supervisors :
        \/ supervisors[p].tx = "pending" /\ CanLand(supervisors[p].validBefore)
        \/ supervisors[p].tx = "landed"
        => supervisors[p].capture = ch.spent

\* The calls that opened the channel or advanced its voucher for amount, and
\* whose request had to bring new funds.
AdvancedTo(amount) ==
    {o \in Opens : /\ opens[o].pc = "done" /\ opens[o].requireAdvance
                   /\ opens[o].amount = amount}
      \cup {r \in Vouchers : /\ vouchers[r].pc = "accepted" /\ vouchers[r].requireAdvance
                             /\ vouchers[r].amount = amount}

\* Two requests that require their voucher to add funds are never both accepted
\* with the same voucher, however their reads and updates interleave and
\* whichever of them opens, or opens again, the channel.
OneRequestPerVoucher ==
    \A amount \in VoucherAmounts : Cardinality(AdvancedTo(amount)) <= 1

\* No step takes back accepted authorization, a recorded settlement, a
\* finalization or the recorded outcome of a credit.
NothingTakenBack ==
    [][/\ ch'.highest >= ch.highest
       /\ ch'.settledOnChain >= ch.settledOnChain
       /\ ch.finalized => ch'.finalized /\ ch'.spent = ch.spent
       /\ \A k \in CreditKeys :
             ch.markers[k].outcome # "none" => ch'.markers[k] = ch.markers[k]]_vars

\* The money of the channel, without the calls that move it.
Ledger == INSTANCE ChannelLedger WITH
    phase      <- escrow.phase,
    deposit    <- escrow.deposit,
    paid       <- escrow.settled,
    authorized <- ch.highest,
    charged    <- ch.spent,
    recorded   <- ch.settledOnChain,
    closing    <- (ch.closeRequestedAt # 0),
    over       <- ch.finalized

\* Every step of the server, the payer and the escrow is one step of the ledger,
\* or none: however stale what a call decides from, the escrow pays only what was
\* accepted and deposited, charges and credits stay within what is accepted and
\* known to be paid, and a record is finalized with what was really paid.
KeepsLedger == Ledger!LedgerSpec

=============================================================================
