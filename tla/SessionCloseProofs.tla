--------------------------- MODULE SessionCloseProofs ---------------------------
(***************************************************************************)
(* Theorems of SessionChannel about what mines while a channel is charged  *)
(* and credited, for every set of calls, amount and bound, as long as the  *)
(* skew covers the clocks' drift and the age of reads.                     *)
(*                                                                         *)
(* MarkInv: while a cooperative close may be mined, the record shows a     *)
(* marker at least as recent as its own, and nothing was charged since its *)
(* capture was computed.  LandInv: the same of one that landed, and what   *)
(* was read of the open channel was read before.  FixedInv: the same of a  *)
(* supervisor's close, by the request it found.  FloorInv: what a          *)
(* settlement may capture is charged and below no credit, or is recorded.  *)
(* PaidInv: what the escrow paid is recorded, or a settlement that landed  *)
(* still has to record it, or the channel ended.                           *)
(***************************************************************************)
EXTENDS SessionChannelProofs

-----------------------------------------------------------------------------
(* The times a call holds, and a close at work                              *)

\* What a call reads, it reads now.
VoucherTimes == \A r \in Vouchers :
    \/ vouchers'[r].read = vouchers[r].read /\ vouchers'[r].readAt = vouchers[r].readAt
    \/ vouchers'[r].read = NoRead /\ vouchers'[r].readAt = 0
    \/ vouchers'[r].read = EscrowRead /\ vouchers'[r].readAt = clock /\ UNCHANGED escrow

CloseTimes == \A c \in Closes :
    \/ closes'[c].read = closes[c].read /\ closes'[c].readAt = closes[c].readAt
    \/ closes'[c].read = NoRead /\ closes'[c].readAt = 0
    \/ closes'[c].read = EscrowRead /\ closes'[c].readAt = clock /\ UNCHANGED escrow

SuperviseTimes == \A p \in Supervisors :
    \/ /\ supervisors'[p].read = supervisors[p].read
       /\ supervisors'[p].timestamp = supervisors[p].timestamp
    \/ supervisors'[p].read = NoRead /\ supervisors'[p].timestamp = 0
    \/ /\ supervisors'[p].read = EscrowRead /\ UNCHANGED escrow
       /\ supervisors'[p].timestamp \in BlockTimes

LEMMA FinishedTimes ==
    ASSUME IInv, NEW r \in Vouchers, NEW pc, NEW background \in BOOLEAN,
           vouchers' = Finished(r, pc, background)
    PROVE  VoucherTimes
<1>1. vouchers \in [Vouchers -> VoucherCall]
  BY DEF IInv, VoucherInv
<1>2. /\ \/ vouchers'[r].read = vouchers[r].read /\ vouchers'[r].readAt = vouchers[r].readAt
         \/ vouchers'[r].read = NoRead /\ vouchers'[r].readAt = 0
      /\ \A q \in Vouchers \ {r} : vouchers'[q] = vouchers[q]
  BY <1>1 DEF Finished, VoucherCall
<1> QED
  BY <1>2 DEF VoucherTimes

LEMMA VoucherTimesOK ==
    ASSUME IInv, VoucherStep
    PROVE  VoucherTimes
<1>1. PICK r \in Vouchers :
        \/ VoucherRead(r) \/ VoucherOneUpdate(r) \/ VoucherBackground(r)
        \/ VoucherLoad(r) \/ VoucherLoadStored(r) \/ VoucherReconcile(r)
        \/ VoucherRecordClose(r) \/ VoucherAccept(r)
  BY DEF VoucherStep
<1>2. vouchers \in [Vouchers -> VoucherCall] /\ vouchers[r].background \in BOOLEAN
  BY DEF IInv, VoucherInv, VoucherCall
<1>3. CASE \E pc \in {"accepted", "refused"}, background \in BOOLEAN :
             vouchers' = Finished(r, pc, background)
  BY <1>3, FinishedTimes
<1>4. CASE VoucherRead(r)
  <2>1. /\ vouchers'[r].read = EscrowRead /\ vouchers'[r].readAt = clock
        /\ \A q \in Vouchers \ {r} : vouchers'[q] = vouchers[q]
    <3>1. PICK amount \in VoucherAmounts, charge \in Charges \cup {0}, advance \in BOOLEAN :
            vouchers' = [vouchers EXCEPT ![r] =
               [pc |-> "read", amount |-> amount, charge |-> charge,
                requireAdvance |-> advance, read |-> EscrowRead, readAt |-> clock,
                background |-> FALSE, state |-> NoRead, highest |-> 0, closing |-> FALSE]]
      BY <1>4 DEF VoucherRead
    <3> QED
      BY <1>2, <3>1
  <2> QED
    BY <1>4, <2>1 DEF VoucherRead, VoucherUnchanged, VoucherTimes
<1>5. CASE VoucherBackground(r)
  BY <1>2, <1>5 DEF VoucherBackground, VoucherTimes, VoucherCall
<1>6. CASE VoucherOneUpdate(r)
  BY <1>2, <1>3, <1>6 DEF VoucherOneUpdate, VoucherRefused, AcceptIn
<1>7. CASE VoucherAccept(r)
  BY <1>2, <1>3, <1>7 DEF VoucherAccept, VoucherRefused, AcceptIn
<1>8. CASE VoucherRecordClose(r)
  BY <1>2, <1>3, <1>8 DEF VoucherRecordClose
<1>9. CASE VoucherLoad(r)
  <2>1. CASE VoucherRefused(r)
    BY <1>2, <1>3, <2>1 DEF VoucherRefused
  <2>2. CASE ~VoucherRefused(r)
    BY <1>2, <1>9, <2>2 DEF VoucherLoad, VoucherTimes, VoucherCall
  <2> QED
    BY <2>1, <2>2
<1>10. CASE VoucherLoadStored(r)
  BY <1>2, <1>10 DEF VoucherLoadStored, VoucherTimes, VoucherCall
<1>11. CASE VoucherReconcile(r)
  <2>1. PICK next \in {"recordClose", "checked"} :
          \/ vouchers' = [vouchers EXCEPT ![r].pc = next, ![r].state = vouchers[r].read,
                                          ![r].highest = ch.highest]
          \/ vouchers' = [vouchers EXCEPT ![r].pc = next, ![r].state = vouchers[r].read]
    BY <1>11 DEF VoucherReconcile
  <2> QED
    BY <1>2, <2>1 DEF VoucherTimes, VoucherCall
<1> QED
  BY <1>1, <1>4, <1>5, <1>6, <1>7, <1>8, <1>9, <1>10, <1>11

LEMMA CloseTimesOK ==
    ASSUME IInv, CloseStep
    PROVE  CloseTimes
<1>1. PICK c \in Closes : \/ CloseRead(c) \/ CloseMark(c) \/ CloseSend(c) \/ CloseMine(c)
                          \/ CloseFinalize(c) \/ CloseFail(c)
  BY DEF CloseStep
<1>2. closes \in [Closes -> CloseCall]
  BY DEF IInv, CloseInv
<1>3. CASE CloseRead(c)
  <2>1. PICK amount \in VoucherAmounts \cup {0} :
          closes' = [closes EXCEPT ![c] =
                [pc |-> "read", amount |-> amount, capture |-> 0, read |-> EscrowRead,
                 readAt |-> clock, startedAt |-> 0, tx |-> "none"]]
    BY <1>3 DEF CloseRead
  <2>2. UNCHANGED escrow
    BY <1>3 DEF CloseRead
  <2> QED
    BY <1>2, <2>1, <2>2 DEF CloseTimes
<1>4. CASE CloseMark(c)
  <2>1. PICK now, n :
          \/ closes' = [closes EXCEPT
                   ![c].pc = "marked", ![c].startedAt = now,
                   ![c].read = NoRead, ![c].readAt = 0, ![c].capture = n]
          \/ closes' = [closes EXCEPT ![c].pc = "failed"]
    BY <1>4 DEF CloseMark
  <2> QED
    BY <1>2, <2>1 DEF CloseTimes, CloseCall
<1>5. CASE CloseSend(c) \/ CloseMine(c) \/ CloseFinalize(c) \/ CloseFail(c)
  <2>1. \/ closes' = [closes EXCEPT ![c].pc = "sent", ![c].tx = "pending"]
        \/ closes' = [closes EXCEPT ![c].tx = "landed"]
        \/ closes' = [closes EXCEPT ![c].tx = "reverted"]
        \/ closes' = [closes EXCEPT ![c].pc = "done"]
        \/ closes' = [closes EXCEPT ![c].pc = "failed"]
    BY <1>5 DEF CloseSend, CloseMine, CloseFinalize, CloseFail
  <2> QED
    BY <1>2, <2>1 DEF CloseTimes, CloseCall
<1> QED
  BY <1>1, <1>3, <1>4, <1>5

LEMMA SupervisorDoneTimes ==
    ASSUME IInv, NEW p \in Supervisors, supervisors' = SupervisorDone(p)
    PROVE  SuperviseTimes
<1>1. supervisors \in [Supervisors -> SuperviseCall]
  BY DEF IInv, SuperviseInv
<1> QED
  BY <1>1 DEF SupervisorDone, SuperviseTimes, SuperviseCall

LEMMA SuperviseTimesOK ==
    ASSUME IInv, SuperviseStep
    PROVE  SuperviseTimes
<1>1. PICK p \in Supervisors :
        \/ SuperviseRead(p) \/ SuperviseClosed(p) \/ SuperviseOpen(p)
        \/ SuperviseClosing(p) \/ SuperviseSend(p) \/ SuperviseMine(p)
        \/ SuperviseFinalize(p)
  BY DEF SuperviseStep
<1>2. supervisors \in [Supervisors -> SuperviseCall]
  BY DEF IInv, SuperviseInv
<1>3. CASE supervisors' = SupervisorDone(p)
  BY <1>3, SupervisorDoneTimes
<1>4. CASE SuperviseRead(p)
  <2> DEFINE paid == IF escrow.phase = "closed" THEN escrow.settled ELSE 0
             closing == (ch.closeRequestedAt # 0)
  <2>1. PICK t \in BlockTimes :
          supervisors' = [supervisors EXCEPT ![p] =
             [supervisors[p] EXCEPT !.pc = "read", !.read = EscrowRead, !.readAt = clock,
                                    !.timestamp = t, !.paid = paid, !.closing = closing]]
    BY <1>4 DEF SuperviseRead
  <2>2. UNCHANGED escrow
    BY <1>4 DEF SuperviseRead
  <2> HIDE DEF paid, closing
  <2> QED
    BY <1>2, <2>1, <2>2 DEF SuperviseTimes, SuperviseCall
<1>5. CASE /\ SuperviseClosing(p)
           /\ supervisors' # SupervisorDone(p)
  <2>1. PICK n, m : supervisors' = [supervisors EXCEPT ![p].pc = "closing",
                                       ![p].amount = n, ![p].capture = m]
    BY <1>5 DEF SuperviseClosing
  <2> QED
    BY <1>2, <2>1 DEF SuperviseTimes, SuperviseCall
<1>6. CASE SuperviseSend(p) \/ SuperviseMine(p)
  <2>1. \/ supervisors' = [supervisors EXCEPT ![p].pc = "sent", ![p].tx = "pending",
                                              ![p].validBefore = clock + Validity]
        \/ supervisors' = [supervisors EXCEPT ![p].tx = "landed"]
        \/ supervisors' = [supervisors EXCEPT ![p].tx = "reverted"]
    BY <1>6 DEF SuperviseSend, SuperviseMine
  <2> QED
    BY <1>2, <2>1 DEF SuperviseTimes, SuperviseCall
<1> QED
  BY <1>1, <1>3, <1>4, <1>5, <1>6 DEF SuperviseClosed, SuperviseOpen, SuperviseFinalize

LEMMA SameTimes ==
    /\ UNCHANGED vouchers => VoucherTimes
    /\ UNCHANGED closes => CloseTimes
    /\ UNCHANGED supervisors => SuperviseTimes
BY DEF VoucherTimes, CloseTimes, SuperviseTimes

LEMMA NextTimes ==
    ASSUME IInv, [Next]_vars
    PROVE  /\ VoucherTimes /\ CloseTimes /\ SuperviseTimes
           /\ clock \in Nat /\ clock' \in Nat /\ clock' >= clock
           /\ UNCHANGED clock \/ UNCHANGED <<ch, escrow, calls>>
<1>1. clock \in Nat /\ clock' \in Nat
  BY NextOK DEF IInv, EscrowInv
<1>2. CASE Tick \/ PayerStep \/ OpenStep \/ TopUpStep \/ AccountingStep \/ UNCHANGED vars
  <2>1. /\ UNCHANGED <<vouchers, closes, supervisors>>
        /\ \/ UNCHANGED clock
           \/ clock' = clock + 1 /\ UNCHANGED <<ch, escrow, calls>>
    <3>1. CASE Tick
      BY <3>1 DEF Tick, calls
    <3>2. CASE PayerStep \/ AccountingStep
      BY <3>2 DEF PayerStep, PayerRequestClose, PayerWithdraw, AccountingStep, Charge, Credit, calls
    <3>3. CASE OpenStep \/ TopUpStep
      BY <3>3 DEF OpenStep, OpenLand, OpenReplay, OpenStore, TopUpStep, TopUpLand, TopUpStore
    <3>4. CASE UNCHANGED vars
      BY <3>4 DEF vars, calls
    <3> QED
      BY <1>2, <3>1, <3>2, <3>3, <3>4
  <2> QED
    BY <1>1, <2>1, SameTimes
<1>3. CASE SettleStep
  <2>1. UNCHANGED <<clock, vouchers, closes, supervisors>>
    BY <1>3 DEF SettleStep, SettleClaim, SettleSend, SettleMine, SettleCheckpoint, SettleRelease,
                SettlementUnchanged
  <2> QED
    BY <1>1, <2>1, SameTimes
<1>4. CASE VoucherStep
  <2>1. UNCHANGED <<clock, closes, supervisors>>
    BY <1>4 DEF VoucherStep, VoucherRead, VoucherOneUpdate, VoucherBackground, VoucherLoad,
                VoucherLoadStored, VoucherReconcile, VoucherRecordClose, VoucherAccept,
                VoucherUnchanged
  <2> QED
    BY <1>1, <1>4, <2>1, SameTimes, VoucherTimesOK
<1>5. CASE CloseStep
  <2>1. UNCHANGED <<clock, vouchers, supervisors>>
    BY <1>5 DEF CloseStep, CloseRead, CloseMark, CloseSend, CloseMine, CloseFinalize, CloseFail,
                CloseUnchanged
  <2> QED
    BY <1>1, <1>5, <2>1, SameTimes, CloseTimesOK
<1>6. CASE SuperviseStep
  <2>1. UNCHANGED <<clock, vouchers, closes>>
    BY <1>6 DEF SuperviseStep, SuperviseRead, SuperviseClosed, SuperviseOpen, SuperviseClosing,
                SuperviseSend, SuperviseMine, SuperviseFinalize, SupervisorUnchanged
  <2> QED
    BY <1>1, <1>6, <2>1, SameTimes, SuperviseTimesOK
<1> QED
  BY <1>2, <1>3, <1>4, <1>5, <1>6 DEF Next

-----------------------------------------------------------------------------
(* The marker of a close                                                    *)

\* No call knows a time ahead of the clock, or of a block.
CallTimes ==
    /\ \A p \in Supervisors : supervisors[p].timestamp <= clock + ClockDrift
    /\ \A r \in Vouchers : vouchers[r].readAt <= clock
    /\ \A c \in Closes : closes[c].readAt <= clock

CloseCalls == \A c \in Closes :
    /\ closes[c].pc = "read" => closes[c].readAt >= 1
    /\ closes[c].pc \in {"marked", "sent", "done"} => closes[c].startedAt >= 1
    /\ closes[c].tx = "pending" => closes[c].pc = "sent"
    /\ closes[c].tx = "landed" => closes[c].pc \in {"sent", "done"}

Marking(c) == closes[c].pc \in {"marked", "sent"}

\* The close may still be mined.
Live(c) == Marking(c) /\ clock < closes[c].startedAt + Validity + ClockDrift

Landed(c) == closes[c].tx = "landed"

\* The record shows the close, nothing was charged since its capture was
\* computed, and every other close that may remove a marker has an older one.
Marked(c) ==
    /\ ch.finalized \/ ch.closeRequestedAt >= closes[c].startedAt
    /\ closes[c].capture >= ch.spent
    /\ \A d \in Closes \ {c} : Marking(d) => closes[d].startedAt < closes[c].startedAt

MarkInv == CallTimes /\ CloseCalls /\ \A c \in Closes : Live(c) => Marked(c)

LEMMA InitMark == Init => MarkInv
BY RecordConstants, ChannelConstants
DEF Init, MarkInv, CallTimes, CloseCalls, Live, Marking

LEMMA CallTimesStay ==
    ASSUME IInv, IInv', CallTimes, [Next]_vars
    PROVE  CallTimes'
<1>1. /\ VoucherTimes /\ CloseTimes /\ SuperviseTimes
      /\ clock \in Nat /\ clock' \in Nat /\ clock' >= clock /\ ClockDrift \in Nat
  BY NextTimes, ChannelConstants
<1>2. ASSUME NEW p \in Supervisors PROVE supervisors'[p].timestamp <= clock' + ClockDrift
  <2>1. supervisors[p].timestamp \in Nat /\ supervisors'[p].timestamp \in Nat
    BY DEF IInv, SuperviseInv, SuperviseCall
  <2>2. \/ supervisors'[p].timestamp \in {0, supervisors[p].timestamp}
        \/ supervisors'[p].timestamp \in BlockTimes
    BY <1>1 DEF SuperviseTimes
  <2> QED
    BY <1>1, <2>1, <2>2 DEF CallTimes, BlockTimes
<1>3. ASSUME NEW r \in Vouchers PROVE vouchers'[r].readAt <= clock'
  <2>1. vouchers[r].readAt \in Nat
    BY DEF IInv, VoucherInv, VoucherCall
  <2> QED
    BY <1>1, <2>1 DEF CallTimes, VoucherTimes
<1>4. ASSUME NEW c \in Closes PROVE closes'[c].readAt <= clock'
  <2>1. closes[c].readAt \in Nat
    BY DEF IInv, CloseInv, CloseCall
  <2> QED
    BY <1>1, <2>1 DEF CallTimes, CloseTimes
<1> QED
  BY <1>2, <1>3, <1>4 DEF CallTimes

\* The places a close goes through.
LEMMA ClosePlaces ==
    ASSUME IInv, CloseCalls, NEW c \in Closes,
           \/ CloseRead(c) \/ CloseMark(c) \/ CloseSend(c) \/ CloseMine(c)
           \/ CloseFinalize(c) \/ CloseFail(c)
    PROVE  /\ CloseCalls'
           /\ \A d \in Closes \ {c} : closes'[d] = closes[d]
           /\ ~CloseMark(c) /\ Marking(c)' =>
                 /\ Marking(c) /\ closes'[c].startedAt = closes[c].startedAt
                 /\ closes'[c].capture = closes[c].capture
           /\ Landed(c) => closes'[c].startedAt = closes[c].startedAt
                           /\ closes'[c].capture = closes[c].capture /\ Landed(c)'
           /\ Landed(c)' => Landed(c) \/ (CloseMine(c) /\ Marking(c)')
<1>1. /\ closes \in [Closes -> CloseCall] /\ clock \in Nat \ {0}
      /\ closes[c].pc \in {"idle", "read", "marked"} => closes[c].tx = "none"
      /\ closes[c].readAt \in Nat
  BY DEF IInv, CloseInv, CloseCall, EscrowInv
<1>2. CASE CloseRead(c)
  <2>1. PICK amount \in VoucherAmounts \cup {0} :
          closes' = [closes EXCEPT ![c] =
                [pc |-> "read", amount |-> amount, capture |-> 0, read |-> EscrowRead,
                 readAt |-> clock, startedAt |-> 0, tx |-> "none"]]
    BY <1>2 DEF CloseRead
  <2>2. closes[c].pc = "idle"
    BY <1>2 DEF CloseRead
  <2> QED
    BY <1>1, <2>1, <2>2 DEF CloseCalls, Marking, Landed
<1>3. CASE CloseMark(c)
  <2>1. PICK now \in closes[c].readAt .. clock :
          \/ \E n : closes' = [closes EXCEPT
                       ![c].pc = "marked", ![c].startedAt = now,
                       ![c].read = NoRead, ![c].readAt = 0, ![c].capture = n]
          \/ closes' = [closes EXCEPT ![c].pc = "failed"]
    BY <1>3 DEF CloseMark
  <2>2. closes[c].pc = "read"
    BY <1>3 DEF CloseMark
  <2>3. now >= 1
    BY <1>1, <2>2 DEF CloseCalls
  <2>4. closes[c].tx = "none"
    BY <1>1, <2>2
  <2> QED
    BY <1>1, <1>3, <2>1, <2>2, <2>3, <2>4 DEF CloseCalls, CloseCall, Marking, Landed
<1>4. CASE CloseSend(c)
  BY <1>1, <1>4 DEF CloseSend, CloseCalls, CloseCall, Marking, Landed
<1>5. CASE CloseMine(c)
  <2>1. /\ closes' = [closes EXCEPT ![c].tx = "landed"]
           \/ closes' = [closes EXCEPT ![c].tx = "reverted"]
        /\ closes[c].tx = "pending"
    BY <1>5 DEF CloseMine
  <2> QED
    BY <1>1, <1>5, <2>1 DEF CloseCalls, CloseCall, Marking, Landed
<1>6. CASE CloseFinalize(c)
  BY <1>1, <1>6 DEF CloseFinalize, CloseCalls, CloseCall, Marking, Landed
<1>7. CASE CloseFail(c)
  BY <1>1, <1>7 DEF CloseFail, CloseCalls, CloseCall, Marking, Landed
<1> QED
  BY <1>2, <1>3, <1>4, <1>5, <1>6, <1>7

LEMMA ClosesMove ==
    ASSUME [Next]_vars
    PROVE  CloseStep \/ UNCHANGED closes
<1>1. CASE Tick \/ PayerStep \/ AccountingStep \/ UNCHANGED vars
  BY <1>1 DEF Tick, PayerStep, PayerRequestClose, PayerWithdraw, AccountingStep, Charge, Credit,
              calls, vars
<1>2. CASE OpenStep \/ TopUpStep
  BY <1>2 DEF OpenStep, OpenLand, OpenReplay, OpenStore, TopUpStep, TopUpLand, TopUpStore
<1>3. CASE SettleStep
  BY <1>3 DEF SettleStep, SettleClaim, SettleSend, SettleMine, SettleCheckpoint, SettleRelease,
              SettlementUnchanged
<1>4. CASE VoucherStep
  BY <1>4 DEF VoucherStep, VoucherRead, VoucherOneUpdate, VoucherBackground, VoucherLoad,
              VoucherLoadStored, VoucherReconcile, VoucherRecordClose, VoucherAccept,
              VoucherUnchanged
<1>5. CASE SuperviseStep
  BY <1>5 DEF SuperviseStep, SuperviseRead, SuperviseClosed, SuperviseOpen, SuperviseClosing,
              SuperviseSend, SuperviseMine, SuperviseFinalize, SupervisorUnchanged
<1> QED
  BY <1>1, <1>2, <1>3, <1>4, <1>5 DEF Next

\* No step takes the marker for expired.
Spared ==
    /\ \A r \in Vouchers :
          VoucherReconcile(r) => ~Expired(ch, clock, vouchers[r].read)
    /\ \A p \in Supervisors :
          SuperviseOpen(p) => ~Expired(ch, supervisors[p].timestamp, supervisors[p].read)
    /\ \A d \in Closes : CloseMark(d) =>
          \A now \in closes[d].readAt .. clock : ~Expired(ch, now, closes[d].read)

\* Nothing marks a record that carries a marker which is spared.
LEMMA MarkedTwice ==
    ASSUME IInv, Spared, NEW d \in Closes, CloseMark(d),
           ch.finalized \/ ch.closeRequestedAt # 0
    PROVE  UNCHANGED ch /\ closes' = [closes EXCEPT ![d].pc = "failed"]
<1>1. ch \in State /\ closes[d].read \in ChainState /\ closes[d].readAt \in Nat /\ clock \in Nat
  BY DEF IInv, RecordInv, CloseInv, CloseCall, EscrowInv
<1>2. PICK now \in closes[d].readAt .. clock :
        LET current == reconcileExpiredPendingClose(ch, now, closes[d].read)
        IN  \/ CanMarkPendingClose(current, closes[d].amount, closes[d].read)
            \/ UNCHANGED ch /\ closes' = [closes EXCEPT ![d].pc = "failed"]
  BY DEF CloseMark
<1>3. reconcileExpiredPendingClose(ch, now, closes[d].read) = ch
  <2>1. now \in Nat
    BY <1>1
  <2>2. ~Expired(ch, now, closes[d].read)
    BY DEF Spared
  <2> QED
    BY <1>1, <2>1, <2>2, ReconcileSteady
<1> QED
  BY <1>2, <1>3 DEF CanMarkPendingClose

LEMMA HeldStays ==
    ASSUME IInv, FundInv, CloseCalls, [Next]_vars, Spared, NEW c \in Closes,
           Live(c) \/ Landed(c), Marked(c), Live(c)' \/ Landed(c)'
    PROVE  Marked(c)'
<1> DEFINE t == closes[c].startedAt
<1>1. /\ ch \in State /\ ch' \in State /\ closes \in [Closes -> CloseCall]
      /\ t \in Nat /\ t >= 1
      /\ closes[c].pc \in {"marked", "sent", "done"}
      /\ \A d \in Closes : closes[d].startedAt \in Nat
      /\ closes[c].capture \in Nat
  BY NextOK DEF IInv, RecordInv, CloseInv, CloseCall, CloseCalls, Live, Landed, Marking
<1>2. ch.finalized \/ ch.closeRequestedAt >= t
  BY DEF Marked
<1>3. ch.finalized \/ ch.closeRequestedAt # 0
  BY <1>1, <1>2 DEF State
<1>4. ~CloseMark(c)
  BY <1>1 DEF CloseMark
<1>5. RecordMoves /\ (ch.finalized => ch'.finalized)
  BY NextFunds, NextOK DEF Kept
<1>6. ch'.spent = ch.spent
  BY <1>3, <1>5 DEF RecordMoves, Uncharged
<1>7. CASE UNCHANGED closes
  <2>1. ch'.finalized \/ ch'.closeRequestedAt >= t
    <3>1. CASE NotReopened(ch, ch')
      BY <1>1, <1>2, <3>1 DEF NotReopened, State
    <3>2. ASSUME NEW d \in Closes, CloseMark(d)
          PROVE  UNCHANGED ch
      BY <1>3, <3>2, MarkedTwice
    <3>3. ASSUME NEW d \in Closes, CloseFail(d)
          PROVE  FALSE
      BY <1>1, <1>7, <3>3 DEF CloseFail, CloseCall
    <3> QED
      BY <1>2, <1>5, <3>1, <3>2, <3>3 DEF RecordMoves, Reopening, Spared
  <2> QED
    BY <1>6, <1>7, <2>1 DEF Marked, Marking
<1>8. CASE CloseStep
  <2>1. PICK d \in Closes : \/ CloseRead(d) \/ CloseMark(d) \/ CloseSend(d) \/ CloseMine(d)
                            \/ CloseFinalize(d) \/ CloseFail(d)
    BY <1>8 DEF CloseStep
  <2>2. /\ \A e \in Closes \ {d} : closes'[e] = closes[e]
        /\ ~CloseMark(d) /\ Marking(d)' =>
              /\ Marking(d) /\ closes'[d].startedAt = closes[d].startedAt
              /\ closes'[d].capture = closes[d].capture
        /\ Landed(d) => closes'[d].startedAt = closes[d].startedAt
                        /\ closes'[d].capture = closes[d].capture /\ Landed(d)'
        /\ Landed(d)' => Landed(d) \/ (CloseMine(d) /\ Marking(d)')
    BY <2>1, ClosePlaces
  <2>3. closes'[c].startedAt = t /\ closes'[c].capture = closes[c].capture
    <3>1. CASE c = d
      <4>1. CASE Landed(c)
        BY <2>2, <3>1, <4>1
      <4>2. CASE ~Landed(c)
        <5>1. Marking(c)'
          BY <2>2, <3>1, <4>2 DEF Live
        <5> QED
          BY <1>4, <2>2, <3>1, <5>1
      <4> QED
        BY <4>1, <4>2
    <3>2. CASE c # d
      BY <2>2, <3>2
    <3> QED
      BY <3>1, <3>2
  <2>4. ASSUME CloseMark(d)
        PROVE  UNCHANGED ch /\ ~Marking(d)'
    <3>1. UNCHANGED ch /\ closes' = [closes EXCEPT ![d].pc = "failed"]
      BY <1>3, <2>4, MarkedTwice
    <3> QED
      BY <1>1, <3>1 DEF Marking, CloseCall
  <2>5. ASSUME NEW e \in Closes \ {c}, Marking(e)'
        PROVE  closes'[e].startedAt < closes'[c].startedAt
    <3>1. Marking(e) /\ closes'[e].startedAt = closes[e].startedAt
      BY <2>2, <2>4, <2>5 DEF Marking
    <3> QED
      BY <2>3, <3>1 DEF Marked
  <2>6. ch'.finalized \/ ch'.closeRequestedAt >= t
    <3>1. CASE CloseFail(d)
      <4>1. c # d
        <5>1. closes'[d].pc = "failed" /\ closes[d].pc \in {"marked", "sent"}
              /\ closes'[d].tx = closes[d].tx
              /\ (closes[d].pc = "sent" => closes[d].tx = "reverted")
          BY <1>1, <3>1 DEF CloseFail, CloseCall
        <5>2. closes[d].tx # "landed"
          BY <5>1 DEF CloseCalls
        <5> QED
          BY <5>1, <5>2 DEF Live, Landed, Marking
      <4>2. Marking(d)
        BY <3>1 DEF CloseFail, Marking
      <4>3. closes[d].startedAt < t
        BY <4>1, <4>2 DEF Marked
      <4>4. ch' = ch \/ ch.closeRequestedAt = closes[d].startedAt
        BY <1>1, <3>1, ClearSteady DEF CloseFail
      <4> QED
        BY <1>1, <1>2, <1>5, <4>3, <4>4 DEF State
    <3>2. CASE CloseFinalize(d)
      BY <1>1, <3>2, FinalizeSteady DEF CloseFinalize, IInv, CloseInv, CloseCall
    <3>3. CASE CloseMark(d)
      BY <1>2, <2>4, <3>3
    <3>4. CASE CloseRead(d) \/ CloseSend(d) \/ CloseMine(d)
      BY <1>2, <3>4 DEF CloseRead, CloseSend, CloseMine
    <3> QED
      BY <2>1, <3>1, <3>2, <3>3, <3>4
  <2>7. closes[c].capture >= ch.spent
    BY DEF Marked
  <2> QED
    BY <1>6, <2>3, <2>5, <2>6, <2>7 DEF Marked
<1> QED
  BY <1>7, <1>8, ClosesMove

\* A close that is marked finds no other that may outlive it.
LEMMA MarkStarts ==
    ASSUME IInv, MarkInv, NEW c \in Closes, CloseMark(c), Live(c)'
    PROVE  Marked(c)'
<1>1. /\ ch \in State /\ closes \in [Closes -> CloseCall] /\ clock \in Nat
      /\ closes[c].read \in ChainState /\ closes[c].readAt \in Nat /\ closes[c].readAt >= 1
      /\ closes[c].amount \in Nat
      /\ \A d \in Closes : closes[d].startedAt \in Nat
      /\ clock' = clock
      /\ Validity \in Nat /\ ClockSkew \in Nat /\ ClockDrift \in Nat
  BY RecordConstants, ChannelConstants
  DEF IInv, RecordInv, CloseInv, CloseCall, EscrowInv, MarkInv, CloseCalls, CloseMark,
      CloseUnchanged
<1>2. PICK now \in closes[c].readAt .. clock :
        LET current == reconcileExpiredPendingClose(ch, now, closes[c].read)
        IN  \/ /\ CanMarkPendingClose(current, closes[c].amount, closes[c].read)
               /\ ch' = markPendingClose(current, now)
               /\ closes' = [closes EXCEPT
                     ![c].pc = "marked", ![c].startedAt = now,
                     ![c].read = NoRead, ![c].readAt = 0,
                     ![c].capture = closeCaptureAmount(current.spent, closes[c].read)]
            \/ closes' = [closes EXCEPT ![c].pc = "failed"]
  BY DEF CloseMark
<1> DEFINE current == reconcileExpiredPendingClose(ch, now, closes[c].read)
           capture == closeCaptureAmount(current.spent, closes[c].read)
<1>3. closes' # [closes EXCEPT ![c].pc = "failed"]
  BY <1>1 DEF Live, Marking, CloseCall
<1>4. /\ ~current.finalized /\ current.closeRequestedAt = 0
      /\ ch' = markPendingClose(current, now)
      /\ closes' = [closes EXCEPT
            ![c].pc = "marked", ![c].startedAt = now,
            ![c].read = NoRead, ![c].readAt = 0, ![c].capture = capture]
  BY <1>2, <1>3 DEF CanMarkPendingClose
<1>5. now \in Nat /\ now >= 1 /\ now <= clock
  BY <1>1
<1>6. /\ current \in State /\ current.spent = ch.spent
      /\ current = ch \/ Expired(ch, now, closes[c].read)
  BY <1>1, <1>5, ReconcileKeeps, ReconcileSteady
<1>7. capture >= current.spent
  BY <1>1, <1>6 DEF closeCaptureAmount, keepGreater, State, ChainState
<1> HIDE DEF current, capture
<1>8. ch'.closeRequestedAt = now /\ ch'.spent = current.spent
  BY <1>4, <1>5, <1>6, MarkSteady
<1>9. /\ closes'[c].startedAt = now /\ closes'[c].capture = capture
      /\ \A d \in Closes \ {c} : closes'[d] = closes[d]
  BY <1>1, <1>4 DEF CloseCall
<1>10. clock < now + Validity + ClockDrift
  BY <1>1, <1>9 DEF Live
<1>11. ASSUME NEW d \in Closes \ {c}, Marking(d)
       PROVE  closes[d].startedAt < now
  <2>1. CASE Live(d)
    <3>1. ch.finalized \/ ch.closeRequestedAt >= closes[d].startedAt
      BY <2>1 DEF MarkInv, Marked
    <3>2. closes[d].startedAt >= 1
      BY <1>11 DEF MarkInv, CloseCalls, Marking
    <3>3. CASE Expired(ch, now, closes[c].read)
      BY <1>1, <1>5, <3>1, <3>3 DEF Expired, State
    <3>4. CASE current = ch
      BY <1>1, <1>4, <3>1, <3>2, <3>4
    <3> QED
      BY <1>6, <3>3, <3>4
  <2>2. CASE ~Live(d)
    BY <1>1, <1>5, <1>10, <1>11, <2>2 DEF Live
  <2> QED
    BY <2>1, <2>2
<1>12. \A d \in Closes \ {c} : Marking(d)' => closes'[d].startedAt < now
  BY <1>9, <1>11 DEF Marking
<1> QED
  BY <1>5, <1>7, <1>8, <1>9, <1>12 DEF Marked

\* The clocks: the skew left after a marker's validity covers the drift between
\* the server and a block, in both directions.
DriftWithinSkew == 2 * ClockDrift <= ClockSkew

LEMMA CallTimesRange ==
    ASSUME IInv
    PROVE  /\ clock \in Nat /\ ch \in State
           /\ Validity \in Nat /\ ClockSkew \in Nat /\ ClockDrift \in Nat /\ MaxReadAge \in Nat
           /\ \A r \in Vouchers : vouchers[r].readAt \in Nat
           /\ \A p \in Supervisors : supervisors[p].timestamp \in Nat
           /\ \A c \in Closes : closes[c].readAt \in Nat /\ closes[c].startedAt \in Nat
BY RecordConstants, ChannelConstants
DEF IInv, EscrowInv, RecordInv, VoucherInv, VoucherCall, CloseInv, CloseCall, SuperviseInv,
    SuperviseCall

\* Until the close can no longer be mined, no call takes its marker for expired.
LEMMA LiveSpared ==
    ASSUME IInv, CallTimes, DriftWithinSkew, NEW c \in Closes, Live(c), Marked(c)
    PROVE  Spared
<1>1. /\ clock < closes[c].startedAt + Validity + ClockDrift
      /\ ch.finalized \/ ch.closeRequestedAt >= closes[c].startedAt
  BY DEF Live, Marked
<1>2. ASSUME NEW now \in Nat, now <= clock + ClockDrift, NEW s
      PROVE  ~Expired(ch, now, s)
  BY <1>1, <1>2, CallTimesRange DEF Expired, State, DriftWithinSkew
<1>3. ASSUME NEW d \in Closes, NEW now \in closes[d].readAt .. clock
      PROVE  ~Expired(ch, now, closes[d].read)
  <2>1. now \in Nat /\ now <= clock + ClockDrift
    BY CallTimesRange
  <2> QED
    BY <1>2, <2>1
<1>4. clock <= clock + ClockDrift
  BY CallTimesRange
<1> QED
  BY <1>2, <1>3, <1>4, CallTimesRange DEF Spared, CallTimes

LEMMA CloseCallsStay ==
    ASSUME IInv, CloseCalls, [Next]_vars
    PROVE  CloseCalls'
<1>1. CASE CloseStep
  BY <1>1, ClosePlaces DEF CloseStep
<1>2. CASE UNCHANGED closes
  BY <1>2 DEF CloseCalls
<1> QED
  BY <1>1, <1>2, ClosesMove

\* A close that may be mined after a step could be before, or is marked by it.
LEMMA LiveBefore ==
    ASSUME IInv, CloseCalls, [Next]_vars, NEW c \in Closes, Live(c)'
    PROVE  Live(c) \/ CloseMark(c)
<1>1. /\ clock' \in Nat /\ clock \in Nat /\ clock' >= clock /\ Marking(c)'
      /\ clock' < closes'[c].startedAt + Validity + ClockDrift
  BY NextTimes DEF Live
<1>2. CASE Marking(c) /\ closes'[c].startedAt = closes[c].startedAt
  BY <1>1, <1>2, CallTimesRange DEF Live
<1>3. CASE UNCHANGED closes
  BY <1>1, <1>2, <1>3 DEF Marking
<1>4. CASE CloseStep
  <2>1. PICK d \in Closes : \/ CloseRead(d) \/ CloseMark(d) \/ CloseSend(d) \/ CloseMine(d)
                            \/ CloseFinalize(d) \/ CloseFail(d)
    BY <1>4 DEF CloseStep
  <2>2. /\ \A e \in Closes \ {d} : closes'[e] = closes[e]
        /\ ~CloseMark(d) /\ Marking(d)' =>
              Marking(d) /\ closes'[d].startedAt = closes[d].startedAt
    BY <2>1, ClosePlaces
  <2>3. CASE c = d
    BY <1>1, <1>2, <2>2, <2>3
  <2>4. CASE c # d
    BY <1>1, <1>2, <2>2, <2>4 DEF Marking
  <2> QED
    BY <2>3, <2>4
<1> QED
  BY <1>3, <1>4, ClosesMove

LEMMA NextMark ==
    ASSUME IInv, FundInv, MarkInv, DriftWithinSkew, [Next]_vars
    PROVE  MarkInv'
<1>1. CallTimes' /\ CloseCalls'
  BY NextOK, CallTimesStay, CloseCallsStay DEF MarkInv
<1>2. ASSUME NEW c \in Closes, Live(c)'
      PROVE  Marked(c)'
  <2>1. CASE Live(c)
    BY <1>2, <2>1, LiveSpared, HeldStays DEF MarkInv
  <2>2. CASE CloseMark(c)
    BY <1>2, <2>2, MarkStarts
  <2> QED
    BY <1>2, <2>1, <2>2, LiveBefore DEF MarkInv
<1> QED
  BY <1>1, <1>2 DEF MarkInv

\* While a cooperative close may be mined the record carries its marker.
THEOREM MarkerIsKept ==
    ASSUME DriftWithinSkew
    PROVE  Spec => []CloseKeepsMarker
<1>1. IInv /\ MarkInv => CloseKeepsMarker
  <2> SUFFICES ASSUME IInv, MarkInv, NEW c \in Closes, closes[c].tx = "pending",
                      CanLand(closes[c].startedAt + Validity)
               PROVE  ch.closeRequestedAt # 0 \/ ch.finalized
    BY DEF CloseKeepsMarker
  <2>1. clock < closes[c].startedAt + Validity + ClockDrift
    <3>1. PICK t \in BlockTimes : t < closes[c].startedAt + Validity
      BY DEF CanLand
    <3> QED
      BY <3>1, CallTimesRange DEF BlockTimes
  <2>2. Marking(c) /\ closes[c].startedAt >= 1
    BY DEF MarkInv, CloseCalls, Marking
  <2>3. Marked(c)
    BY <2>1, <2>2 DEF MarkInv, Live
  <2> QED
    BY <2>2, <2>3, CallTimesRange DEF Marked, State
<1>2. IInv /\ FundInv /\ [Next]_vars => FundInv'
  BY NextFunds
<1>3. IInv /\ FundInv /\ MarkInv /\ [Next]_vars => MarkInv'
  BY NextMark
<1> QED
  BY Inductive, InitFunds, InitMark, <1>1, <1>2, <1>3, PTL DEF Spec
-----------------------------------------------------------------------------
(* A close that landed                                                      *)

\* A read is applied before the skew is over.
ReadsWithinSkew == MaxReadAge + ClockDrift <= ClockSkew

\* What was read of the open channel was read before the close c landed.
OldReads(c) ==
    /\ \A r \in Vouchers : vouchers[r].read.deposit # 0 =>
          vouchers[r].readAt < closes[c].startedAt + Validity + ClockDrift
    /\ \A d \in Closes : closes[d].read.deposit # 0 =>
          closes[d].readAt < closes[c].startedAt + Validity + ClockDrift
    /\ \A p \in Supervisors : supervisors[p].read.deposit # 0 =>
          supervisors[p].timestamp < closes[c].startedAt + Validity + 2 * ClockDrift

LandInv == \A c \in Closes : Landed(c) => Marked(c) /\ OldReads(c)

LEMMA InitLand == Init => LandInv
BY DEF Init, LandInv, Landed

LEMMA LandedSpared ==
    ASSUME IInv, DriftWithinSkew, ReadsWithinSkew, NEW c \in Closes, Marked(c), OldReads(c)
    PROVE  Spared
<1> DEFINE t == closes[c].startedAt
<1>1. t \in Nat /\ (ch.finalized \/ ch.closeRequestedAt >= t)
  BY CallTimesRange DEF Marked
<1>2. ASSUME NEW r \in Vouchers, VoucherReconcile(r)
      PROVE  ~Expired(ch, clock, vouchers[r].read)
  <2>1. clock <= vouchers[r].readAt + MaxReadAge
    BY <1>2 DEF VoucherReconcile, Recent
  <2>2. vouchers[r].read.deposit # 0 => vouchers[r].readAt < t + Validity + ClockDrift
    BY DEF OldReads
  <2> QED
    BY <1>1, <2>1, <2>2, CallTimesRange DEF Expired, State, ReadsWithinSkew
<1>3. ASSUME NEW p \in Supervisors
      PROVE  ~Expired(ch, supervisors[p].timestamp, supervisors[p].read)
  <2>1. supervisors[p].read.deposit # 0 =>
          supervisors[p].timestamp < t + Validity + 2 * ClockDrift
    BY DEF OldReads
  <2> QED
    BY <1>1, <2>1, CallTimesRange DEF Expired, State, DriftWithinSkew
<1>4. ASSUME NEW d \in Closes, CloseMark(d), NEW now \in closes[d].readAt .. clock
      PROVE  ~Expired(ch, now, closes[d].read)
  <2>1. clock <= closes[d].readAt + MaxReadAge
    BY <1>4 DEF CloseMark, Recent
  <2>2. closes[d].read.deposit # 0 => closes[d].readAt < t + Validity + ClockDrift
    BY DEF OldReads
  <2>3. now \in Nat /\ now <= clock
    BY CallTimesRange
  <2> QED
    BY <1>1, <2>1, <2>2, <2>3, CallTimesRange DEF Expired, State, ReadsWithinSkew
<1> QED
  BY <1>2, <1>3, <1>4 DEF Spared

\* When the close lands, whatever was read was read in time.
LEMMA ReadsAreOld ==
    ASSUME IInv, CallTimes, NEW c \in Closes, Live(c)
    PROVE  OldReads(c)
BY CallTimesRange DEF Live, CallTimes, OldReads


\* No step reads a channel as open once the close has landed.
LEMMA OldReadsStay ==
    ASSUME IInv, [Next]_vars, NEW c \in Closes, OldReads(c),
           closes'[c].startedAt = closes[c].startedAt,
           escrow.phase # "open" \/ escrow' # escrow
    PROVE  OldReads(c)'
<1>1. VoucherTimes /\ CloseTimes /\ SuperviseTimes
  BY NextTimes
<1>2. escrow' = escrow => EscrowRead.deposit = 0
  BY DEF EscrowRead, NoRead
<1>3. NoRead.deposit = 0
  BY DEF NoRead
<1>4. ASSUME NEW r \in Vouchers, vouchers'[r].read.deposit # 0
      PROVE  vouchers'[r].readAt < closes'[c].startedAt + Validity + ClockDrift
  BY <1>1, <1>2, <1>3, <1>4 DEF OldReads, VoucherTimes
<1>5. ASSUME NEW d \in Closes, closes'[d].read.deposit # 0
      PROVE  closes'[d].readAt < closes'[c].startedAt + Validity + ClockDrift
  BY <1>1, <1>2, <1>3, <1>5 DEF OldReads, CloseTimes
<1>6. ASSUME NEW p \in Supervisors, supervisors'[p].read.deposit # 0
      PROVE  supervisors'[p].timestamp < closes'[c].startedAt + Validity + 2 * ClockDrift
  BY <1>1, <1>2, <1>3, <1>6 DEF OldReads, SuperviseTimes
<1> QED
  BY <1>4, <1>5, <1>6 DEF OldReads

\* A close that has landed stays so; one that lands was live.
LEMMA LandedBefore ==
    ASSUME IInv, CloseCalls, [Next]_vars, NEW c \in Closes
    PROVE  /\ Landed(c) => Landed(c)' /\ closes'[c].startedAt = closes[c].startedAt
           /\ Landed(c)' => \/ Landed(c)
                            \/ /\ Live(c) /\ escrow' # escrow
                               /\ closes'[c].startedAt = closes[c].startedAt
<1>1. CASE UNCHANGED closes
  BY <1>1 DEF Landed
<1>2. CASE CloseStep
  <2>1. PICK d \in Closes : \/ CloseRead(d) \/ CloseMark(d) \/ CloseSend(d) \/ CloseMine(d)
                            \/ CloseFinalize(d) \/ CloseFail(d)
    BY <1>2 DEF CloseStep
  <2>2. /\ \A e \in Closes \ {d} : closes'[e] = closes[e]
        /\ Landed(d) => closes'[d].startedAt = closes[d].startedAt /\ Landed(d)'
        /\ Landed(d)' => Landed(d) \/ CloseMine(d)
    BY <2>1, ClosePlaces
  <2>3. CASE c # d
    BY <2>2, <2>3 DEF Landed
  <2>4. ASSUME c = d, CloseMine(c), Landed(c)'
        PROVE  /\ Live(c) /\ escrow' # escrow
               /\ closes'[c].startedAt = closes[c].startedAt
    <3>1. closes[c].tx = "pending" /\ Marking(c) /\ closes \in [Closes -> CloseCall]
      BY <2>4 DEF CloseMine, CloseCalls, Marking, IInv, CloseInv
    <3>2. clock < closes[c].startedAt + Validity + ClockDrift
      <4>1. PICK t \in BlockTimes : t < closes[c].startedAt + Validity
        BY <2>4 DEF CloseMine, CanLand
      <4> QED
        BY <4>1, CallTimesRange DEF BlockTimes
    <3>3. EscrowCloses(closes[c].amount, closes[c].capture)
      <4>1. CASE closes' = [closes EXCEPT ![c].tx = "reverted"]
        BY <2>4, <3>1, <4>1 DEF Landed, CloseCall
      <4> QED
        BY <2>4, <4>1 DEF CloseMine
    <3>4. escrow.phase = "open" /\ escrow' = ClosedWith(closes[c].capture)
          /\ closes' = [closes EXCEPT ![c].tx = "landed"]
      BY <2>4, <3>3 DEF CloseMine, EscrowCloses
    <3>5. escrow' # escrow
      BY <3>4 DEF ClosedWith, IInv, EscrowInv, Escrow
    <3>6. closes'[c].startedAt = closes[c].startedAt
      BY <3>1, <3>4 DEF CloseCall
    <3> QED
      BY <3>1, <3>2, <3>5, <3>6 DEF Live
  <2> QED
    BY <2>2, <2>3, <2>4
<1> QED
  BY <1>1, <1>2, ClosesMove

LEMMA NextLand ==
    ASSUME IInv, FundInv, MarkInv, LandInv, DriftWithinSkew, ReadsWithinSkew, [Next]_vars
    PROVE  LandInv'
<1> SUFFICES ASSUME NEW c \in Closes, Landed(c)'
             PROVE  Marked(c)' /\ OldReads(c)'
  BY DEF LandInv
<1>1. CASE Landed(c)
  <2>1. Marked(c) /\ OldReads(c) /\ escrow.phase = "closed"
    BY <1>1 DEF LandInv, FundInv, CloseFunds, Landed
  <2>2. closes'[c].startedAt = closes[c].startedAt
    BY <1>1, LandedBefore DEF MarkInv
  <2>3. Spared
    BY <2>1, LandedSpared
  <2> QED
    BY <1>1, <2>1, <2>2, <2>3, HeldStays, OldReadsStay DEF MarkInv
<1>2. CASE /\ Live(c) /\ escrow' # escrow
           /\ closes'[c].startedAt = closes[c].startedAt
  <2>1. Marked(c) /\ OldReads(c)
    BY <1>2, ReadsAreOld DEF MarkInv
  <2>2. Spared
    BY <1>2, <2>1, LiveSpared DEF MarkInv
  <2> QED
    BY <1>2, <2>1, <2>2, HeldStays, OldReadsStay DEF MarkInv
<1> QED
  BY <1>1, <1>2, LandedBefore DEF MarkInv

LEMMA LandingInductive ==
    ASSUME DriftWithinSkew, ReadsWithinSkew
    PROVE  Spec => [](IInv /\ FundInv /\ MarkInv /\ LandInv)
<1>1. IInv /\ FundInv /\ [Next]_vars => FundInv'
  BY NextFunds
<1>2. IInv /\ FundInv /\ MarkInv /\ [Next]_vars => MarkInv'
  BY NextMark
<1>3. IInv /\ FundInv /\ MarkInv /\ LandInv /\ [Next]_vars => LandInv'
  BY NextLand
<1> QED
  BY Inductive, InitFunds, InitMark, InitLand, <1>1, <1>2, <1>3, PTL DEF Spec

\* A cooperative close that landed paid everything that was ever charged.
THEOREM ClosePaysAll ==
    ASSUME DriftWithinSkew, ReadsWithinSkew
    PROVE  Spec => []ClosePaysSpent
<1>1. LandInv => ClosePaysSpent
  BY DEF LandInv, Landed, Marked, ClosePaysSpent
<1> QED
  BY LandingInductive, <1>1, PTL

\* A record whose cooperative close landed is never opened again.
THEOREM ClosedStaysClosed ==
    ASSUME DriftWithinSkew, ReadsWithinSkew
    PROVE  Spec => ReopenedOnlyIfNotClosed
<1> DEFINE Stays == ch.closeRequestedAt # 0 /\ ch'.closeRequestedAt = 0 /\ ~ch'.finalized
                        => \A c \in Closes : closes[c].tx # "landed"
<1>1. IInv /\ FundInv /\ MarkInv /\ LandInv /\ [Next]_vars => Stays
  <2> SUFFICES ASSUME IInv, FundInv, MarkInv, LandInv, [Next]_vars,
                      ch'.closeRequestedAt = 0, ~ch'.finalized,
                      NEW c \in Closes, Landed(c)
               PROVE  FALSE
    BY DEF Landed
  <2>1. Marked(c)' /\ Landed(c)'
    BY NextLand, LandedBefore DEF LandInv, MarkInv
  <2>2. closes'[c].startedAt \in Nat /\ closes'[c].startedAt >= 1
    BY <2>1, NextOK, CloseCallsStay DEF MarkInv, CloseCalls, Landed, IInv, CloseInv, CloseCall
  <2> QED
    BY <2>1, <2>2 DEF Marked
<1>2. IInv /\ FundInv /\ MarkInv /\ LandInv /\ [Next]_vars => [Stays]_vars
  BY <1>1
<1> QED
  BY LandingInductive, <1>2, PTL DEF Spec, ReopenedOnlyIfNotClosed

-----------------------------------------------------------------------------
(* The close of a supervisor                                                *)

\* The payer's request stands: no top-up cancels it, and no cooperative close,
\* whose marker it may have been merged into, fails while it does.
RequestStands ==
    escrow.closeRequestedAt # 0 =>
        /\ escrow'.closeRequestedAt = escrow.closeRequestedAt
        /\ \A c \in Closes : ~CloseFail(c)

\* The supervisor has read the request and computed what it captures.
Ending(p) == supervisors[p].pc \in {"closing", "sent"} \/ supervisors[p].tx # "none"

\* The record shows the payer's request.
Requested ==
    /\ escrow.closeRequestedAt # 0
    /\ ch.finalized \/ ch.closeRequestedAt >= escrow.closeRequestedAt

\* What was read of the open channel without the request was read before it.
ReadBefore(s) == escrow.closeRequestedAt # 0 /\ s.closeRequestedAt = 0 /\ s.deposit # 0

RequestInv ==
    /\ escrow.phase = "absent" => escrow.closeRequestedAt = 0
    /\ \A p \in Supervisors :
          supervisors[p].read.closeRequestedAt \in {0, escrow.closeRequestedAt}
    /\ \A r \in Vouchers : ReadBefore(vouchers[r].read) =>
          vouchers[r].readAt <= escrow.closeRequestedAt + ClockDrift
    /\ \A c \in Closes : ReadBefore(closes[c].read) =>
          closes[c].readAt <= escrow.closeRequestedAt + ClockDrift
    /\ \A p \in Supervisors : ReadBefore(supervisors[p].read) =>
          supervisors[p].timestamp <= escrow.closeRequestedAt + 2 * ClockDrift

FixedInv == \A p \in Supervisors :
    Ending(p) => Requested /\ supervisors[p].capture = ch.spent

LEMMA InitRequest == Init => RequestInv /\ FixedInv
BY DEF Init, RequestInv, ReadBefore, FixedInv, Ending, NoRead

\* How a step may change the request.
LEMMA RequestMoves ==
    ASSUME IInv, [Next]_vars
    PROVE  \/ UNCHANGED escrow
           \/ /\ escrow'.phase # "absent"
              /\ escrow'.closeRequestedAt \in {0, escrow.closeRequestedAt}
           \/ /\ escrow.closeRequestedAt = 0 /\ escrow'.closeRequestedAt \in BlockTimes
              /\ escrow'.phase # "absent" /\ UNCHANGED <<clock, ch, calls>>
<1>1. escrow \in Escrow
  BY DEF IInv, EscrowInv
<1>2. CASE Tick \/ AccountingStep \/ UNCHANGED vars
  BY <1>2 DEF Tick, AccountingStep, Charge, Credit, vars
<1>3. CASE PayerStep
  <2>1. CASE PayerRequestClose
    <3>1. PICK t \in BlockTimes : escrow' = [escrow EXCEPT !.closeRequestedAt = t]
      BY <2>1 DEF PayerRequestClose
    <3> QED
      BY <1>1, <2>1, <3>1 DEF PayerRequestClose, Escrow
  <2>2. CASE PayerWithdraw
    BY <1>1, <2>2 DEF PayerWithdraw, ClosedWith, Escrow
  <2> QED
    BY <1>3, <2>1, <2>2 DEF PayerStep
<1>4. CASE OpenStep
  <2>1. PICK o \in Opens : OpenLand(o) \/ OpenReplay(o) \/ OpenStore(o)
    BY <1>4 DEF OpenStep
  <2>2. CASE OpenLand(o)
    <3>1. PICK deposit \in Deposits :
            escrow' = [escrow EXCEPT !.phase = "open", !.opened = deposit,
                                     !.deposit = deposit]
      BY <2>2 DEF OpenLand
    <3> QED
      BY <1>1, <3>1 DEF Escrow
  <2> QED
    BY <2>1, <2>2 DEF OpenReplay, OpenStore
<1>5. CASE TopUpStep
  <2>1. PICK u \in TopUps : TopUpLand(u) \/ TopUpStore(u)
    BY <1>5 DEF TopUpStep
  <2>2. CASE TopUpLand(u)
    <3>1. PICK n : escrow' = [escrow EXCEPT !.deposit = n, !.closeRequestedAt = 0]
      BY <2>2 DEF TopUpLand
    <3> QED
      BY <1>1, <2>2, <3>1 DEF TopUpLand, Escrow
  <2> QED
    BY <2>1, <2>2 DEF TopUpStore
<1>6. CASE VoucherStep
  BY <1>6 DEF VoucherStep, VoucherRead, VoucherOneUpdate, VoucherBackground, VoucherLoad,
              VoucherLoadStored, VoucherReconcile, VoucherRecordClose, VoucherAccept,
              VoucherUnchanged
<1>7. CASE SettleStep
  <2>1. PICK s \in Settlements :
          \/ UNCHANGED escrow
          \/ /\ escrow' = [escrow EXCEPT !.settled = settlements[s].amount]
             /\ escrow.phase = "open"
    BY <1>7 DEF SettleStep, SettleClaim, SettleSend, SettleMine, SettleCheckpoint, SettleRelease,
                EscrowSettles
  <2> QED
    BY <1>1, <2>1 DEF Escrow
<1>8. CASE CloseStep \/ SuperviseStep
  <2>1. UNCHANGED escrow \/ \E n : escrow' = ClosedWith(n)
    BY <1>8 DEF CloseStep, CloseRead, CloseMark, CloseSend, CloseMine, CloseFinalize, CloseFail,
                SuperviseStep, SuperviseRead, SuperviseClosed, SuperviseOpen, SuperviseClosing,
                SuperviseSend, SuperviseMine, SuperviseFinalize
  <2> QED
    BY <1>1, <2>1 DEF ClosedWith, Escrow
<1> QED
  BY <1>2, <1>3, <1>4, <1>5, <1>6, <1>7, <1>8 DEF Next

LEMMA NextRequest ==
    ASSUME IInv, CallTimes, RequestInv, [Next]_vars, RequestStands
    PROVE  RequestInv'
<1>1. VoucherTimes /\ CloseTimes /\ SuperviseTimes /\ escrow \in Escrow /\ escrow' \in Escrow
  BY NextTimes, NextOK DEF IInv, EscrowInv
<1>2. CASE /\ escrow.closeRequestedAt = 0 /\ escrow'.closeRequestedAt \in BlockTimes
           /\ escrow'.phase # "absent" /\ UNCHANGED <<clock, ch, calls>>
  <2>1. UNCHANGED <<vouchers, closes, supervisors>>
    BY <1>2 DEF calls
  <2>2. clock <= escrow'.closeRequestedAt + ClockDrift
    BY <1>2, CallTimesRange DEF BlockTimes
  <2>3. \A p \in Supervisors : supervisors[p].read.closeRequestedAt = 0
    BY <1>2 DEF RequestInv
  <2>4. clock + ClockDrift <= escrow'.closeRequestedAt + 2 * ClockDrift
    BY <1>1, <2>2, CallTimesRange DEF Escrow
  <2>5. \A p \in Supervisors :
          supervisors[p].timestamp <= escrow'.closeRequestedAt + 2 * ClockDrift
    BY <1>1, <2>4, CallTimesRange DEF CallTimes, Escrow
  <2>6. /\ \A r \in Vouchers : vouchers[r].readAt <= escrow'.closeRequestedAt + ClockDrift
        /\ \A c \in Closes : closes[c].readAt <= escrow'.closeRequestedAt + ClockDrift
    BY <1>1, <2>2, CallTimesRange DEF CallTimes, Escrow
  <2> QED
    BY <1>2, <2>1, <2>3, <2>5, <2>6 DEF RequestInv
<1>3. CASE \/ UNCHANGED escrow
           \/ /\ escrow'.phase # "absent"
              /\ escrow'.closeRequestedAt \in {0, escrow.closeRequestedAt}
  <2>1. escrow'.closeRequestedAt = escrow.closeRequestedAt
    BY <1>3 DEF RequestStands
  <2>2. escrow'.phase = "absent" => escrow'.closeRequestedAt = 0
    BY <1>3 DEF RequestInv
  <2>3. NoRead.closeRequestedAt = 0 /\ ~ReadBefore(NoRead)'
    BY DEF NoRead, ReadBefore
  <2>4. /\ EscrowRead.closeRequestedAt \in {0, escrow.closeRequestedAt}
        /\ ~ReadBefore(EscrowRead)
    BY DEF EscrowRead, NoRead, ReadBefore
  <2>5. ASSUME NEW p \in Supervisors
        PROVE  /\ supervisors'[p].read.closeRequestedAt \in {0, escrow'.closeRequestedAt}
               /\ ReadBefore(supervisors[p].read)' =>
                    supervisors'[p].timestamp <= escrow'.closeRequestedAt + 2 * ClockDrift
    BY <1>1, <2>1, <2>3, <2>4 DEF SuperviseTimes, RequestInv, ReadBefore
  <2>6. ASSUME NEW r \in Vouchers, ReadBefore(vouchers[r].read)'
        PROVE  vouchers'[r].readAt <= escrow'.closeRequestedAt + ClockDrift
    BY <1>1, <2>1, <2>3, <2>4, <2>6 DEF VoucherTimes, RequestInv, ReadBefore
  <2>7. ASSUME NEW c \in Closes, ReadBefore(closes[c].read)'
        PROVE  closes'[c].readAt <= escrow'.closeRequestedAt + ClockDrift
    BY <1>1, <2>1, <2>3, <2>4, <2>7 DEF CloseTimes, RequestInv, ReadBefore
  <2> QED
    BY <2>2, <2>5, <2>6, <2>7 DEF RequestInv
<1> QED
  BY <1>2, <1>3, RequestMoves

\* While the record shows the request, no call takes it for an expired marker.
LEMMA RequestSpared ==
    ASSUME IInv, RequestInv, DriftWithinSkew, ReadsWithinSkew, Requested
    PROVE  Spared
<1> DEFINE t == escrow.closeRequestedAt
<1>1. t \in Nat /\ t # 0 /\ (ch.finalized \/ ch.closeRequestedAt >= t)
  BY DEF Requested, IInv, EscrowInv, Escrow
<1>2. ASSUME NEW now \in Nat, NEW s, Expired(ch, now, s)
      PROVE  now > t + Validity + ClockSkew /\ ReadBefore(s)
  BY <1>1, <1>2, CallTimesRange DEF Expired, ReadBefore, State
<1>3. ASSUME NEW r \in Vouchers, VoucherReconcile(r), Expired(ch, clock, vouchers[r].read)
      PROVE  FALSE
  <2>1. clock <= vouchers[r].readAt + MaxReadAge
    BY <1>3 DEF VoucherReconcile, Recent
  <2>2. /\ clock > t + Validity + ClockSkew
        /\ vouchers[r].readAt <= t + ClockDrift
    BY <1>2, <1>3, CallTimesRange DEF RequestInv
  <2> QED
    BY <1>1, <2>1, <2>2, CallTimesRange DEF ReadsWithinSkew
<1>4. ASSUME NEW p \in Supervisors,
             Expired(ch, supervisors[p].timestamp, supervisors[p].read)
      PROVE  FALSE
  <2>1. /\ supervisors[p].timestamp > t + Validity + ClockSkew
        /\ supervisors[p].timestamp <= t + 2 * ClockDrift
    BY <1>2, <1>4, CallTimesRange DEF RequestInv
  <2> QED
    BY <1>1, <2>1, CallTimesRange DEF DriftWithinSkew
<1>5. ASSUME NEW d \in Closes, CloseMark(d), NEW now \in closes[d].readAt .. clock,
             Expired(ch, now, closes[d].read)
      PROVE  FALSE
  <2>1. clock <= closes[d].readAt + MaxReadAge
    BY <1>5 DEF CloseMark, Recent
  <2>2. now \in Nat /\ now <= clock
    BY CallTimesRange
  <2>3. /\ now > t + Validity + ClockSkew
        /\ closes[d].readAt <= t + ClockDrift
    BY <1>2, <1>5, <2>2 DEF RequestInv
  <2> QED
    BY <1>1, <2>1, <2>2, <2>3, CallTimesRange DEF ReadsWithinSkew
<1> QED
  BY <1>3, <1>4, <1>5 DEF Spared

LEMMA RequestedStays ==
    ASSUME IInv, FundInv, [Next]_vars, Spared, RequestStands, Requested
    PROVE  Requested' /\ ch'.spent = ch.spent
<1>1. /\ ch \in State /\ ch' \in State /\ escrow \in Escrow
      /\ escrow'.closeRequestedAt = escrow.closeRequestedAt
      /\ \A c \in Closes : ~CloseFail(c)
      /\ escrow.closeRequestedAt # 0
      /\ ch.finalized \/ ch.closeRequestedAt >= escrow.closeRequestedAt
  BY NextOK DEF IInv, RecordInv, EscrowInv, Requested, RequestStands
<1>2. ch.finalized \/ ch.closeRequestedAt # 0
  BY <1>1 DEF State, Escrow
<1>3. RecordMoves /\ (ch.finalized => ch'.finalized)
  BY NextFunds, NextOK DEF Kept
<1>4. CASE NotReopened(ch, ch')
  BY <1>1, <1>2, <1>3, <1>4 DEF NotReopened, RecordMoves, Uncharged, Requested, State, Escrow
<1>5. CASE UNCHANGED ch
  BY <1>1, <1>5 DEF Requested
<1>6. ASSUME NEW d \in Closes, CloseMark(d)
      PROVE  UNCHANGED ch
  BY <1>2, <1>6, MarkedTwice
<1> QED
  BY <1>1, <1>3, <1>4, <1>5, <1>6 DEF RecordMoves, Reopening, Spared

LEMMA SupervisorsMove ==
    ASSUME [Next]_vars
    PROVE  SuperviseStep \/ UNCHANGED supervisors
<1>1. CASE Tick \/ PayerStep \/ AccountingStep \/ UNCHANGED vars
  BY <1>1 DEF Tick, PayerStep, PayerRequestClose, PayerWithdraw, AccountingStep, Charge, Credit,
              calls, vars
<1>2. CASE OpenStep \/ TopUpStep
  BY <1>2 DEF OpenStep, OpenLand, OpenReplay, OpenStore, TopUpStep, TopUpLand, TopUpStore
<1>3. CASE SettleStep
  BY <1>3 DEF SettleStep, SettleClaim, SettleSend, SettleMine, SettleCheckpoint, SettleRelease,
              SettlementUnchanged
<1>4. CASE VoucherStep
  BY <1>4 DEF VoucherStep, VoucherRead, VoucherOneUpdate, VoucherBackground, VoucherLoad,
              VoucherLoadStored, VoucherReconcile, VoucherRecordClose, VoucherAccept,
              VoucherUnchanged
<1>5. CASE CloseStep
  BY <1>5 DEF CloseStep, CloseRead, CloseMark, CloseSend, CloseMine, CloseFinalize, CloseFail,
              CloseUnchanged
<1> QED
  BY <1>1, <1>2, <1>3, <1>4, <1>5 DEF Next

\* A capture is computed from the record that is stored with the request.
LEMMA EndingBefore ==
    ASSUME IInv, RequestInv, [Next]_vars, NEW p \in Supervisors, Ending(p)'
    PROVE  \/ Ending(p) /\ supervisors'[p].capture = supervisors[p].capture
           \/ /\ escrow.closeRequestedAt # 0 /\ UNCHANGED escrow
              /\ Requested' /\ supervisors'[p].capture = ch'.spent
<1>1. /\ supervisors \in [Supervisors -> SuperviseCall] /\ ch \in State /\ escrow \in Escrow
      /\ \A q \in Supervisors :
            supervisors[q].pc \in {"idle", "read", "closing"} => supervisors[q].tx = "none"
  BY DEF IInv, SuperviseInv, RecordInv, EscrowInv
<1>2. CASE UNCHANGED supervisors
  BY <1>2 DEF Ending
<1>3. CASE SuperviseStep
  <2>1. PICK q \in Supervisors :
          \/ SuperviseRead(q) \/ SuperviseClosed(q) \/ SuperviseOpen(q)
          \/ SuperviseClosing(q) \/ SuperviseSend(q) \/ SuperviseMine(q)
          \/ SuperviseFinalize(q)
    BY <1>3 DEF SuperviseStep
  <2> DEFINE call == supervisors[q]
  <2>2. call \in SuperviseCall /\ call.read \in ChainState
    BY <1>1 DEF SuperviseCall
  <2>3. CASE supervisors' = SupervisorDone(q)
    BY <1>1, <2>3 DEF SupervisorDone, Ending, SuperviseCall
  <2>4. CASE SuperviseRead(q)
    <3> DEFINE paid == IF escrow.phase = "closed" THEN escrow.settled ELSE 0
               closing == (ch.closeRequestedAt # 0)
    <3>1. PICK t \in BlockTimes :
            supervisors' = [supervisors EXCEPT ![q] =
               [call EXCEPT !.pc = "read", !.read = EscrowRead, !.readAt = clock,
                            !.timestamp = t, !.paid = paid, !.closing = closing]]
      BY <2>4 DEF SuperviseRead
    <3>2. call.tx = "none"
      BY <1>1, <2>4 DEF SuperviseRead
    <3> HIDE DEF paid, closing
    <3> QED
      BY <1>1, <3>1, <3>2 DEF Ending, SuperviseCall
  <2>5. CASE SuperviseClosing(q) /\ supervisors' # SupervisorDone(q)
    <3> DEFINE d == mergeActiveOnChainState(ch, call.read)
               capture == closeCaptureAmount(d.spent, call.read)
    <3>1. /\ ch' = d /\ capture > call.read.settled /\ call.read.closeRequestedAt # 0
          /\ supervisors' = [supervisors EXCEPT ![q].pc = "closing",
                               ![q].amount = d.highest, ![q].capture = capture]
          /\ UNCHANGED escrow
      BY <2>5 DEF SuperviseClosing
    <3>2. d \in State /\ d.closeRequestedAt >= call.read.closeRequestedAt
      BY <1>1, <2>2, MergeKeeps, MergeSteady
    <3> HIDE DEF d
    <3>3. capture = d.spent
      BY <2>2, <3>1, <3>2 DEF closeCaptureAmount, keepGreater, State, ChainState
    <3>4. escrow.closeRequestedAt = call.read.closeRequestedAt
      BY <3>1 DEF RequestInv
    <3> HIDE DEF capture
    <3>5. CASE p = q
      BY <1>1, <3>1, <3>2, <3>3, <3>4, <3>5 DEF Requested, SuperviseCall
    <3>6. CASE p # q
      BY <1>1, <3>1, <3>6 DEF Ending
    <3> QED
      BY <3>5, <3>6
  <2>6. CASE SuperviseSend(q) \/ SuperviseMine(q)
    <3>1. \/ supervisors' = [supervisors EXCEPT ![q].pc = "sent", ![q].tx = "pending",
                                                ![q].validBefore = clock + Validity]
          \/ supervisors' = [supervisors EXCEPT ![q].tx = "landed"]
          \/ supervisors' = [supervisors EXCEPT ![q].tx = "reverted"]
      BY <2>6 DEF SuperviseSend, SuperviseMine
    <3>2. Ending(q)
      BY <2>6 DEF SuperviseSend, SuperviseMine, Ending
    <3> QED
      BY <1>1, <3>1, <3>2 DEF Ending, SuperviseCall
  <2> QED
    BY <2>1, <2>3, <2>4, <2>5, <2>6 DEF SuperviseClosed, SuperviseOpen, SuperviseFinalize
<1> QED
  BY <1>2, <1>3, SupervisorsMove

LEMMA NextFixed ==
    ASSUME IInv, FundInv, RequestInv, FixedInv, DriftWithinSkew, ReadsWithinSkew,
           [Next]_vars, RequestStands
    PROVE  FixedInv'
<1> SUFFICES ASSUME NEW p \in Supervisors, Ending(p)'
             PROVE  Requested' /\ supervisors'[p].capture = ch'.spent
  BY DEF FixedInv
<1>1. CASE Ending(p) /\ supervisors'[p].capture = supervisors[p].capture
  <2>1. Requested /\ supervisors[p].capture = ch.spent
    BY <1>1 DEF FixedInv
  <2> QED
    BY <1>1, <2>1, RequestSpared, RequestedStays
<1> QED
  BY <1>1, EndingBefore

LEMMA RequestInductive ==
    ASSUME DriftWithinSkew, ReadsWithinSkew
    PROVE  Spec /\ [][RequestStands]_vars
             => [](IInv /\ FundInv /\ MarkInv /\ RequestInv /\ FixedInv)
<1>1. IInv /\ FundInv /\ [Next]_vars => FundInv'
  BY NextFunds
<1>2. IInv /\ FundInv /\ MarkInv /\ [Next]_vars => MarkInv'
  BY NextMark
<1>3. IInv /\ UNCHANGED vars => RequestStands
  BY DEF vars, calls, RequestStands, CloseFail, IInv, CloseInv, CloseCall
<1>4. IInv /\ MarkInv /\ RequestInv /\ [Next]_vars /\ [RequestStands]_vars => RequestInv'
  BY <1>3, NextRequest DEF MarkInv
<1>5. IInv /\ FundInv /\ RequestInv /\ FixedInv /\ [Next]_vars /\ [RequestStands]_vars
        => FixedInv'
  BY <1>3, NextFixed
<1> QED
  BY Inductive, InitFunds, InitMark, InitRequest, <1>1, <1>2, <1>4, <1>5, PTL DEF Spec

\* While the payer's request stands, the close a supervisor sends captures what is
\* charged when it is mined, and nothing is charged or credited after.
THEOREM SupervisedCaptureStays ==
    ASSUME DriftWithinSkew, ReadsWithinSkew
    PROVE  Spec /\ [][RequestStands]_vars => []SupervisedCaptureFixed
<1>1. FixedInv => SupervisedCaptureFixed
  BY DEF FixedInv, Ending, SupervisedCaptureFixed
<1> QED
  BY RequestInductive, <1>1, PTL

-----------------------------------------------------------------------------
(* What mines, and what a credit may take back                              *)

\* The update d of c charges or leaves what is charged, and leaves the floor.
Extends(c, d) == d.spent >= c.spent /\ d.pendingSettlement = c.pendingSettlement

LEMMA MergeExtends ==
    ASSUME NEW c \in State, NEW s \in ChainState
    PROVE  /\ Extends(c, mergeActiveOnChainState(c, s))
           /\ Extends(c, pendingCloseState(c, s))
           /\ Extends(c, backgroundReadState(c, s))
           /\ Extends(c, topUpChannelState(c, s))
BY DEF mergeActiveOnChainState, pendingCloseState, backgroundReadState, topUpChannelState,
       State, Extends

LEMMA AcceptExtends ==
    ASSUME NEW c \in State, NEW v \in Nat, NEW s \in ChainState, NEW a \in Nat
    PROVE  Extends(c, planVoucherAcceptance(acceptVoucherStateUpdate(c, v, s), a))
<1> DEFINE m == mergeActiveOnChainState(c, s)
           d == acceptVoucherStateUpdate(c, v, s)
<1>1. m \in State /\ m.spent = c.spent /\ Extends(c, m)
  BY MergeKeeps, MergeExtends
<1>2. d.spent = c.spent /\ d.pendingSettlement = c.pendingSettlement
  <2>1. CASE d = m
    BY <1>1, <2>1 DEF Extends
  <2>2. CASE d = [m EXCEPT !.highest = v,
                           !.retained = retainVouchers(c, v, m.settledOnChain)]
    BY <1>1, <2>2 DEF Extends, State
  <2> QED
    BY <2>1, <2>2 DEF acceptVoucherStateUpdate
<1>3. d \in State
  BY AcceptKeeps
<1>4. planVoucherAcceptance(d, a) \in {d, planDeduction(d, a)}
  BY DEF planVoucherAcceptance
<1>5. /\ planDeduction(d, a).spent = d.spent + a
      /\ planDeduction(d, a).pendingSettlement = d.pendingSettlement
  BY <1>3 DEF planDeduction, State
<1>6. d.spent + a >= c.spent /\ d.spent >= c.spent
  BY <1>2 DEF State
<1> HIDE DEF d
<1> QED
  BY <1>2, <1>4, <1>5, <1>6 DEF Extends, d

LEMMA OpenExtends ==
    ASSUME NEW c \in State, NEW v \in Nat, NEW s \in ChainState
    PROVE  Extends(c, openChannelState(c, v, s))
<1> DEFINE m == mergeActiveOnChainState(c, s)
           h == keepGreater(c.highest, v)
           r == IF h > c.highest THEN retainVouchers(c, h, m.settledOnChain) ELSE m.retained
           n == keepGreater(m.spent, s.settled)
<1>1. m \in State /\ m.spent = c.spent /\ Extends(c, m)
  BY MergeKeeps, MergeExtends
<1>2. openChannelState(c, v, s) =
        [m EXCEPT !.exists = TRUE, !.highest = h, !.retained = r, !.spent = n]
  BY <1>1 DEF openChannelState, State
<1>3. n >= c.spent
  BY <1>1 DEF keepGreater, State, ChainState
<1> HIDE DEF m, h, r, n
<1> QED
  BY <1>1, <1>2, <1>3 DEF Extends, State

LEMMA CloseExtends ==
    ASSUME NEW c \in State, NEW s \in ChainState, NEW now, NEW n \in Nat, NEW v \in Nat
    PROVE  /\ Extends(c, reconcileExpiredPendingClose(c, now, s))
           /\ Extends(c, markPendingClose(c, n))
           /\ Extends(c, clearPendingClose(c, n))
           /\ Extends(c, finalizeClosedChannelState(c, n, v))
           /\ Extends(c, finalizeFromEvent(c, n))
BY DEF reconcileExpiredPendingClose, markPendingClose, clearPendingClose,
       finalizeClosedChannelState, finalizeFromEvent, State, Extends

LEMMA SameExtends == ASSUME IInv, UNCHANGED ch PROVE Extends(ch, ch')
BY DEF IInv, RecordInv, State, Extends

LEMMA VoucherExtends == ASSUME IInv, VoucherStep PROVE Extends(ch, ch')
<1>1. PICK r \in Vouchers :
        \/ VoucherRead(r) \/ VoucherOneUpdate(r) \/ VoucherBackground(r)
        \/ VoucherLoad(r) \/ VoucherLoadStored(r) \/ VoucherReconcile(r)
        \/ VoucherRecordClose(r) \/ VoucherAccept(r)
  BY DEF VoucherStep
<1>2. /\ ch \in State
      /\ vouchers[r].read \in ChainState /\ vouchers[r].state \in ChainState
      /\ vouchers[r].amount \in Nat /\ vouchers[r].charge \in Nat
  BY DEF IInv, RecordInv, VoucherInv, VoucherCall
<1>3. ASSUME NEW s \in ChainState, NEW background, AcceptIn(r, s, background)
      PROVE  Extends(ch, ch')
  BY <1>2, <1>3, AcceptExtends, SameExtends DEF AcceptIn, VoucherRefused
<1>4. storedChannelState(ch) \in ChainState
  BY <1>2 DEF storedChannelState, State, ChainState
<1>5. CASE VoucherRead(r) \/ VoucherLoad(r) \/ VoucherLoadStored(r)
  BY <1>5, SameExtends DEF VoucherRead, VoucherLoad, VoucherLoadStored, VoucherRefused
<1>6. CASE VoucherOneUpdate(r)
  BY <1>3, <1>4, <1>6, SameExtends DEF VoucherOneUpdate, VoucherRefused
<1>7. CASE VoucherAccept(r)
  BY <1>2, <1>3, <1>7, SameExtends DEF VoucherAccept, VoucherRefused
<1>8. CASE VoucherBackground(r) \/ VoucherRecordClose(r)
  BY <1>2, <1>8, MergeExtends, SameExtends DEF VoucherBackground, VoucherRecordClose
<1>9. CASE VoucherReconcile(r)
  BY <1>2, <1>9, CloseExtends, SameExtends DEF VoucherReconcile
<1> QED
  BY <1>1, <1>5, <1>6, <1>7, <1>8, <1>9

LEMMA ClosingExtends == ASSUME IInv, CloseStep \/ SuperviseStep PROVE Extends(ch, ch')
<1>1. ch \in State
  BY DEF IInv, RecordInv
<1>2. ASSUME NEW c \in Closes,
             \/ CloseRead(c) \/ CloseMark(c) \/ CloseSend(c) \/ CloseMine(c)
             \/ CloseFinalize(c) \/ CloseFail(c)
      PROVE  Extends(ch, ch')
  <2>1. /\ closes[c].read \in ChainState /\ closes[c].readAt \in Nat
        /\ closes[c].amount \in Nat /\ closes[c].capture \in Nat
        /\ closes[c].startedAt \in Nat
    BY DEF IInv, CloseInv, CloseCall
  <2>2. CASE UNCHANGED ch
    BY <2>2, SameExtends
  <2>3. CASE CloseMark(c) /\ ch' # ch
    <3>1. PICK now \in closes[c].readAt .. clock :
            ch' = markPendingClose(reconcileExpiredPendingClose(ch, now, closes[c].read), now)
      BY <2>3 DEF CloseMark
    <3> DEFINE d == reconcileExpiredPendingClose(ch, now, closes[c].read)
    <3>2. now \in Nat
      BY <2>1 DEF IInv, EscrowInv
    <3>3. d \in State /\ Extends(ch, d)
      BY <1>1, <2>1, <3>2, ReconcileKeeps, CloseExtends
    <3> HIDE DEF d
    <3>4. ch' = markPendingClose(d, now)
      BY <3>1 DEF d
    <3> QED
      BY <1>1, <2>1, <3>2, <3>3, <3>4 DEF markPendingClose, Extends, State
  <2>4. CASE CloseFinalize(c) \/ CloseFail(c)
    BY <1>1, <2>1, <2>4, CloseExtends DEF CloseFinalize, CloseFail
  <2> QED
    BY <1>2, <2>2, <2>3, <2>4 DEF CloseRead, CloseSend, CloseMine
<1>3. ASSUME NEW p \in Supervisors,
             \/ SuperviseRead(p) \/ SuperviseClosed(p) \/ SuperviseOpen(p)
             \/ SuperviseClosing(p) \/ SuperviseSend(p) \/ SuperviseMine(p)
             \/ SuperviseFinalize(p)
      PROVE  Extends(ch, ch')
  <2>1. /\ supervisors[p].read \in ChainState /\ supervisors[p].paid \in Nat
        /\ supervisors[p].amount \in Nat /\ supervisors[p].capture \in Nat
    BY DEF IInv, SuperviseInv, SuperviseCall
  <2>2. CASE UNCHANGED ch
    BY <2>2, SameExtends
  <2>3. CASE SuperviseClosed(p) \/ SuperviseOpen(p) \/ SuperviseFinalize(p)
    BY <1>1, <2>1, <2>2, <2>3, CloseExtends
    DEF SuperviseClosed, SuperviseOpen, SuperviseFinalize
  <2>4. CASE SuperviseClosing(p)
    BY <1>1, <2>1, <2>2, <2>4, MergeExtends DEF SuperviseClosing
  <2> QED
    BY <1>3, <2>2, <2>3, <2>4 DEF SuperviseRead, SuperviseSend, SuperviseMine
<1> QED
  BY <1>2, <1>3 DEF CloseStep, SuperviseStep

\* A credit leaves what is settled or settling; no other step lowers spent.
Credits ==
    /\ ~ch.finalized /\ ch.closeRequestedAt = 0
    /\ ch'.spent >= ch.settledOnChain /\ ch'.spent >= SettlingFloor(ch, clock)
    /\ ch'.pendingSettlement = ch.pendingSettlement

LEMMA NextSpends ==
    ASSUME IInv, [Next]_vars
    PROVE  \/ SettleStep
           \/ UNCHANGED settlements /\ (Extends(ch, ch') \/ Credits)
<1>1. ch \in State /\ clock \in Nat
  BY DEF IInv, RecordInv, EscrowInv
<1>2. CASE Tick \/ PayerStep \/ UNCHANGED vars
  BY <1>2, SameExtends DEF Tick, PayerStep, PayerRequestClose, PayerWithdraw, calls, vars
<1>3. CASE OpenStep
  <2>1. PICK o \in Opens : OpenLand(o) \/ OpenReplay(o) \/ OpenStore(o)
    BY <1>3 DEF OpenStep
  <2>2. opens[o].amount \in Nat /\ opens[o].read \in ChainState
    BY DEF IInv, OpenInv, OpenCall
  <2> QED
    BY <1>1, <2>1, <2>2, OpenExtends, SameExtends DEF OpenLand, OpenReplay, OpenStore
<1>4. CASE TopUpStep
  <2>1. PICK u \in TopUps : TopUpLand(u) \/ TopUpStore(u)
    BY <1>4 DEF TopUpStep
  <2>2. topUps[u].read \in ChainState
    BY DEF IInv, TopUpInv, TopUpCall
  <2> QED
    BY <1>1, <2>1, <2>2, MergeExtends, SameExtends DEF TopUpLand, TopUpStore
<1>5. CASE VoucherStep
  <2>1. UNCHANGED settlements
    BY <1>5 DEF VoucherStep, VoucherRead, VoucherOneUpdate, VoucherBackground, VoucherLoad,
                VoucherLoadStored, VoucherReconcile, VoucherRecordClose, VoucherAccept,
                VoucherUnchanged
  <2> QED
    BY <1>5, <2>1, VoucherExtends
<1>6. CASE AccountingStep
  <2>1. PICK amount \in Charges :
          Charge(amount) \/ \E key \in CreditKeys : Credit(key, amount)
    BY <1>6 DEF AccountingStep
  <2>2. amount \in Nat
    BY ChannelConstants
  <2>3. CASE Charge(amount)
    BY <1>1, <2>2, <2>3 DEF Charge, planDeduction, Extends, State, calls
  <2>4. ASSUME NEW key \in CreditKeys, Credit(key, amount)
        PROVE  UNCHANGED settlements /\ (Extends(ch, ch') \/ Credits)
    <3>1. UNCHANGED settlements /\ ch' = planCredit(ch, key, amount, clock)
      BY <2>4 DEF Credit, calls
    <3>2. /\ ch'.pendingSettlement = ch.pendingSettlement
          /\ \/ ch'.spent = ch.spent
             \/ /\ ~ch.finalized /\ ch.closeRequestedAt = 0
                /\ ch'.spent >= ch.settledOnChain /\ ch'.spent >= SettlingFloor(ch, clock)
      BY <1>1, <2>2, <3>1, CreditSteady
    <3> QED
      BY <1>1, <3>1, <3>2 DEF Extends, Credits, State
  <2> QED
    BY <2>1, <2>3, <2>4
<1>7. CASE CloseStep \/ SuperviseStep
  <2>1. UNCHANGED settlements
    BY <1>7 DEF CloseStep, CloseRead, CloseMark, CloseSend, CloseMine, CloseFinalize, CloseFail,
                CloseUnchanged, SuperviseStep, SuperviseRead, SuperviseClosed, SuperviseOpen,
                SuperviseClosing, SuperviseSend, SuperviseMine, SuperviseFinalize,
                SupervisorUnchanged
  <2> QED
    BY <1>7, <2>1, ClosingExtends
<1> QED
  BY <1>2, <1>3, <1>4, <1>5, <1>6, <1>7 DEF Next

\* The settlement may still need the floor it raised.
Holding(s) ==
    /\ settlements[s].pc \in {"claimed", "sent"}
    /\ clock < settlements[s].validBefore + ClockSkew

\* Settlements do not overlap: none is claimed while the floor of another holds.
OneSettling == \A s, t \in Settlements : Holding(s) /\ Holding(t) => s = t

FloorOf(s) ==
    [amount |-> settlements[s].amount, expiresAt |-> settlements[s].validBefore + ClockSkew]

SettlePlaces == \A s \in Settlements :
    /\ settlements[s].pc \in {"idle", "claimed"} => settlements[s].tx = "none"
    /\ settlements[s].tx = "pending" => settlements[s].pc = "sent"
    /\ settlements[s].tx = "landed" => settlements[s].pc \in {"sent", "done"}

\* What a settlement may capture is charged and kept from credits, or recorded.
FloorInv ==
    /\ SettlePlaces
    /\ \A s \in Settlements : Holding(s) =>
          \/ settlements[s].amount <= ch.settledOnChain
          \/ ch.pendingSettlement = FloorOf(s) /\ settlements[s].amount <= ch.spent
    /\ ch.pendingSettlement.expiresAt > clock =>
          \E s \in Settlements : Holding(s) /\ ch.pendingSettlement = FloorOf(s)

\* What the escrow paid and the record does not show.
Unrecorded(s) ==
    /\ settlements[s].tx = "landed" /\ settlements[s].pc = "sent"
    /\ escrow.settled <= settlements[s].amount

Ended ==
    \/ ch.finalized
    \/ \E c \in Closes : Landed(c)
    \/ \E p \in Supervisors : supervisors[p].tx = "landed"

PaidInv ==
    \/ escrow.settled <= ch.settledOnChain
    \/ \E s \in Settlements : Unrecorded(s)
    \/ Ended

\* A cooperative close captures what is charged or already paid.
CaptureInv == \A c \in Closes : Live(c) =>
    closes[c].capture <= ch.spent \/ closes[c].capture <= escrow.settled

LEMMA InitFloor == Init => FloorInv /\ PaidInv /\ CaptureInv
<1> SUFFICES ASSUME Init PROVE FloorInv /\ PaidInv /\ CaptureInv
  OBVIOUS
<1>1. ch.pendingSettlement.expiresAt = 0 /\ ch.settledOnChain = 0 /\ escrow.settled = 0 /\ clock = 1
  BY DEF Init, NoRecord, NoPending
<1>2. \A s \in Settlements : settlements[s].pc = "idle" /\ settlements[s].tx = "none"
  BY DEF Init
<1>3. \A c \in Closes : ~Live(c)
  BY DEF Init, Live, Marking
<1> QED
  BY <1>1, <1>2, <1>3 DEF FloorInv, SettlePlaces, Holding, PaidInv, CaptureInv

SettleTypes ==
    /\ ch \in State /\ ch' \in State /\ clock \in Nat
    /\ escrow \in Escrow /\ escrow' \in Escrow
    /\ settlements \in [Settlements -> SettleCall]
    /\ \A s \in Settlements :
          /\ settlements[s].amount \in Nat /\ settlements[s].validBefore \in Nat
    /\ Validity \in Nat \ {0} /\ ClockSkew \in Nat /\ ClockDrift \in Nat /\ MaxReadAge \in Nat
    /\ ch.settledOnChain <= escrow.settled
    /\ ch'.settledOnChain >= ch.settledOnChain
    /\ ch.finalized => ch'.finalized

LEMMA SettleTyped ==
    ASSUME IInv, [Next]_vars
    PROVE  SettleTypes
BY NextOK, RecordConstants, ChannelConstants
DEF IInv, RecordInv, EscrowInv, SettleInv, SettleCall, Kept, SettleTypes

\* What moves money: a settlement that mines, or a close.
LEMMA PaidMoves ==
    ASSUME IInv, [Next]_vars
    PROVE  \/ escrow'.settled = escrow.settled
           \/ \E s \in Settlements :
                 /\ SettleMine(s) /\ escrow'.settled = settlements[s].amount
                 /\ escrow'.settled > escrow.settled
           \/ \E c \in Closes :
                 /\ CloseMine(c) /\ escrow'.settled = closes[c].capture
                 /\ escrow'.settled >= escrow.settled
                 /\ closes' = [closes EXCEPT ![c].tx = "landed"]
           \/ \E p \in Supervisors :
                 /\ SuperviseMine(p) /\ escrow'.settled = supervisors[p].capture
                 /\ escrow'.settled >= escrow.settled
                 /\ supervisors' = [supervisors EXCEPT ![p].tx = "landed"]
<1>1. escrow \in Escrow
  BY DEF IInv, EscrowInv
<1>2. CASE Tick \/ AccountingStep \/ UNCHANGED vars
  BY <1>2 DEF Tick, AccountingStep, Charge, Credit, vars
<1>3. CASE PayerStep
  <2>1. escrow' = ClosedWith(escrow.settled) \/ \E t : escrow' = [escrow EXCEPT !.closeRequestedAt = t]
    BY <1>3 DEF PayerStep, PayerRequestClose, PayerWithdraw
  <2> QED
    BY <1>1, <2>1 DEF ClosedWith, Escrow
<1>4. CASE OpenStep
  <2>1. PICK o \in Opens : OpenLand(o) \/ OpenReplay(o) \/ OpenStore(o)
    BY <1>4 DEF OpenStep
  <2>2. CASE OpenLand(o)
    <3>1. PICK deposit \in Deposits :
            escrow' = [escrow EXCEPT !.phase = "open", !.opened = deposit,
                                     !.deposit = deposit]
      BY <2>2 DEF OpenLand
    <3> QED
      BY <1>1, <3>1 DEF Escrow
  <2> QED
    BY <2>1, <2>2 DEF OpenReplay, OpenStore
<1>5. CASE TopUpStep
  <2>1. PICK u \in TopUps : TopUpLand(u) \/ TopUpStore(u)
    BY <1>5 DEF TopUpStep
  <2>2. CASE TopUpLand(u)
    <3>1. PICK n : escrow' = [escrow EXCEPT !.deposit = n, !.closeRequestedAt = 0]
      BY <2>2 DEF TopUpLand
    <3> QED
      BY <1>1, <3>1 DEF Escrow
  <2> QED
    BY <2>1, <2>2 DEF TopUpStore
<1>6. CASE VoucherStep
  BY <1>6 DEF VoucherStep, VoucherRead, VoucherOneUpdate, VoucherBackground, VoucherLoad,
              VoucherLoadStored, VoucherReconcile, VoucherRecordClose, VoucherAccept,
              VoucherUnchanged
<1>7. CASE SettleStep
  <2>1. PICK s \in Settlements : \/ SettleClaim(s) \/ SettleSend(s) \/ SettleMine(s)
                                \/ SettleCheckpoint(s) \/ SettleRelease(s)
    BY <1>7 DEF SettleStep
  <2>2. CASE SettleMine(s) /\ EscrowSettles(settlements[s].amount)
    <3>1. escrow'.settled = settlements[s].amount /\ escrow'.settled > escrow.settled
      BY <1>1, <2>2 DEF SettleMine, EscrowSettles, Escrow
    <3> QED
      BY <2>2, <3>1
  <2> QED
    BY <2>1, <2>2 DEF SettleClaim, SettleSend, SettleMine, SettleCheckpoint, SettleRelease
<1>8. CASE CloseStep
  <2>1. PICK c \in Closes : \/ CloseRead(c) \/ CloseMark(c) \/ CloseSend(c) \/ CloseMine(c)
                            \/ CloseFinalize(c) \/ CloseFail(c)
    BY <1>8 DEF CloseStep
  <2>2. CASE CloseMine(c) /\ EscrowCloses(closes[c].amount, closes[c].capture)
    <3>1. /\ escrow'.settled = closes[c].capture /\ escrow'.settled >= escrow.settled
          /\ closes' = [closes EXCEPT ![c].tx = "landed"]
      BY <1>1, <2>2 DEF CloseMine, EscrowCloses, ClosedWith, Escrow
    <3> QED
      BY <2>2, <3>1
  <2> QED
    BY <2>1, <2>2 DEF CloseRead, CloseMark, CloseSend, CloseMine, CloseFinalize, CloseFail
<1>9. CASE SuperviseStep
  <2>1. PICK p \in Supervisors :
          \/ SuperviseRead(p) \/ SuperviseClosed(p) \/ SuperviseOpen(p)
          \/ SuperviseClosing(p) \/ SuperviseSend(p) \/ SuperviseMine(p)
          \/ SuperviseFinalize(p)
    BY <1>9 DEF SuperviseStep
  <2>2. CASE SuperviseMine(p) /\ EscrowCloses(supervisors[p].amount, supervisors[p].capture)
    <3>1. /\ escrow'.settled = supervisors[p].capture /\ escrow'.settled >= escrow.settled
          /\ supervisors' = [supervisors EXCEPT ![p].tx = "landed"]
      BY <1>1, <2>2 DEF SuperviseMine, EscrowCloses, ClosedWith, Escrow
    <3> QED
      BY <2>2, <3>1
  <2> QED
    BY <2>1, <2>2 DEF SuperviseRead, SuperviseClosed, SuperviseOpen, SuperviseClosing,
                      SuperviseSend, SuperviseMine, SuperviseFinalize
<1> QED
  BY <1>2, <1>3, <1>4, <1>5, <1>6, <1>7, <1>8, <1>9 DEF Next

\* A supervisor's close that has landed stays so.
LEMMA SupervisedStays ==
    ASSUME IInv, [Next]_vars, NEW p \in Supervisors, supervisors[p].tx = "landed"
    PROVE  supervisors'[p].tx = "landed"
<1>1. /\ supervisors \in [Supervisors -> SuperviseCall]
      /\ \A q \in Supervisors :
            supervisors[q].pc \in {"idle", "read", "closing"} => supervisors[q].tx = "none"
  BY DEF IInv, SuperviseInv
<1>2. CASE SuperviseStep
  <2>1. PICK q \in Supervisors :
          \/ SuperviseRead(q) \/ SuperviseClosed(q) \/ SuperviseOpen(q)
          \/ SuperviseClosing(q) \/ SuperviseSend(q) \/ SuperviseMine(q)
          \/ SuperviseFinalize(q)
    BY <1>2 DEF SuperviseStep
  <2>2. CASE supervisors' = SupervisorDone(q)
    BY <1>1, <2>2 DEF SupervisorDone, SuperviseCall
  <2>3. CASE SuperviseRead(q) \/ SuperviseSend(q) \/ SuperviseMine(q)
    <3>1. /\ supervisors[q].tx # "landed"
          /\ \E v : supervisors' = [supervisors EXCEPT ![q] = v]
      BY <1>1, <2>3 DEF SuperviseRead, SuperviseSend, SuperviseMine
    <3> QED
      BY <1>1, <3>1
  <2>4. CASE SuperviseClosing(q) /\ supervisors' # SupervisorDone(q)
    <3> DEFINE n == mergeActiveOnChainState(ch, supervisors[q].read).highest
               m == closeCaptureAmount(mergeActiveOnChainState(ch, supervisors[q].read).spent,
                                       supervisors[q].read)
    <3>1. supervisors' = [supervisors EXCEPT ![q].pc = "closing",
                                             ![q].amount = n, ![q].capture = m]
      BY <2>4 DEF SuperviseClosing
    <3> HIDE DEF n, m
    <3> QED
      BY <1>1, <3>1 DEF SuperviseCall
  <2> QED
    BY <2>1, <2>2, <2>3, <2>4 DEF SuperviseClosed, SuperviseOpen, SuperviseFinalize
<1> QED
  BY <1>2, SupervisorsMove

LEMMA EndedStays ==
    ASSUME IInv, CloseCalls, [Next]_vars, Ended
    PROVE  Ended'
BY LandedBefore, SupervisedStays, SettleTyped DEF Ended, SettleTypes

\* A step that is not a settlement's.
LEMMA OthersKeepFloor ==
    ASSUME IInv, FloorInv, [Next]_vars,
           UNCHANGED settlements, Extends(ch, ch') \/ Credits
    PROVE  FloorInv'
<1>1. SettleTypes /\ clock' \in Nat /\ clock' >= clock
  BY SettleTyped, NextTimes
<1>2. SettlePlaces' /\ ch'.pendingSettlement = ch.pendingSettlement
  BY DEF FloorInv, SettlePlaces, Extends, Credits
<1>3. \A s \in Settlements : Holding(s)' => Holding(s)
  BY <1>1 DEF Holding, SettleTypes
<1>4. \A s \in Settlements : FloorOf(s)' = FloorOf(s)
  BY DEF FloorOf
<1>5. ASSUME NEW s \in Settlements, Holding(s)'
      PROVE  \/ settlements'[s].amount <= ch'.settledOnChain
             \/ ch'.pendingSettlement = FloorOf(s)' /\ settlements'[s].amount <= ch'.spent
  <2>1. CASE settlements[s].amount <= ch.settledOnChain
    BY <1>1, <2>1 DEF SettleTypes, State
  <2>2. CASE ch.pendingSettlement = FloorOf(s) /\ settlements[s].amount <= ch.spent
    <3>1. settlements[s].amount <= ch'.spent
      <4>1. CASE Extends(ch, ch')
        BY <1>1, <2>2, <4>1 DEF Extends, SettleTypes, State
      <4>2. CASE Credits
        <5>1. SettlingFloor(ch, clock) = settlements[s].amount
          BY <1>1, <1>3, <1>5, <2>2 DEF SettlingFloor, FloorOf, Holding, SettleTypes
        <5> QED
          BY <4>2, <5>1 DEF Credits
      <4> QED
        BY <4>1, <4>2
    <3> QED
      BY <1>2, <1>4, <2>2, <3>1
  <2> QED
    BY <1>3, <1>5, <2>1, <2>2 DEF FloorInv
<1>6. ASSUME ch'.pendingSettlement.expiresAt > clock'
      PROVE  \E s \in Settlements : Holding(s)' /\ ch'.pendingSettlement = FloorOf(s)'
  <2>1. ch.pendingSettlement.expiresAt > clock
    BY <1>1, <1>2, <1>6 DEF SettleTypes, State
  <2>2. PICK s \in Settlements : Holding(s) /\ ch.pendingSettlement = FloorOf(s)
    BY <2>1 DEF FloorInv
  <2>3. ch.pendingSettlement.expiresAt = settlements[s].validBefore + ClockSkew
    BY <2>2 DEF FloorOf
  <2>4. Holding(s)'
    BY <1>1, <1>2, <1>6, <2>2, <2>3 DEF Holding, SettleTypes
  <2> QED
    BY <1>2, <1>4, <2>2, <2>4
<1> QED
  BY <1>2, <1>5, <1>6 DEF FloorInv

\* Only one floor is raised at a time.
LEMMA ClaimKeepsFloor ==
    ASSUME IInv, FloorInv, ReadsWithinSkew, SettleTypes, OneSettling', UNCHANGED clock,
           NEW s \in Settlements, SettleClaim(s)
    PROVE  FloorInv' /\ ch'.settledOnChain = ch.settledOnChain /\ ch'.spent = ch.spent
<1>1. PICK v \in ch.retained \cup {ch.highest}, now \in 1 .. clock :
        /\ IsSettleable(ch, v)
        /\ Recent(now)
        /\ ch' = claimSettlement(ch, v, now + Validity + ClockSkew, clock)
        /\ settlements' = [settlements EXCEPT ![s] =
              [pc |-> "claimed", amount |-> v, validBefore |-> now + Validity, tx |-> "none"]]
  BY DEF SettleClaim
<1> DEFINE e == now + Validity + ClockSkew
<1>2. /\ v \in Nat /\ now \in Nat /\ v <= ch.spent /\ e \in Nat /\ e > clock
  BY <1>1 DEF SettleTypes, State, IsSettleable, Recent, ReadsWithinSkew
<1>3. settlements[s].pc = "idle"
  BY DEF SettleClaim
<1>4. /\ settlements'[s].pc = "claimed" /\ settlements'[s].amount = v
      /\ settlements'[s].validBefore = now + Validity /\ settlements'[s].tx = "none"
      /\ \A t \in Settlements \ {s} : settlements'[t] = settlements[t]
  BY <1>1 DEF SettleTypes
<1>5. Holding(s)'
  BY <1>2, <1>4 DEF Holding
<1>6. \A t \in Settlements \ {s} : ~Holding(t)' /\ ~Holding(t)
  BY <1>4, <1>5 DEF OneSettling, Holding
<1>7. ~Holding(s)
  BY <1>3 DEF Holding
<1>8. ~(ch.pendingSettlement.expiresAt > clock)
  BY <1>6, <1>7 DEF FloorInv
<1> HIDE DEF e
<1>9. ch' = [ch EXCEPT !.pendingSettlement = [amount |-> v, expiresAt |-> e]]
  BY <1>1, <1>8 DEF claimSettlement, e
<1>10. /\ ch'.pendingSettlement = [amount |-> v, expiresAt |-> e]
       /\ ch'.settledOnChain = ch.settledOnChain /\ ch'.spent = ch.spent
  BY <1>9 DEF SettleTypes, State
<1>11. FloorOf(s)' = [amount |-> v, expiresAt |-> e]
  BY <1>4 DEF FloorOf, e
<1>12. SettlePlaces'
  BY <1>4 DEF FloorInv, SettlePlaces
<1> QED
  BY <1>2, <1>4, <1>5, <1>6, <1>10, <1>11, <1>12 DEF FloorInv

LEMMA SendKeepsFloor ==
    ASSUME IInv, FloorInv, SettleTypes, UNCHANGED clock,
           NEW s \in Settlements, SettleSend(s) \/ SettleMine(s)
    PROVE  FloorInv' /\ UNCHANGED ch
<1>1. UNCHANGED ch
  BY DEF SettleSend, SettleMine
<1>2. \/ settlements' = [settlements EXCEPT ![s].pc = "sent", ![s].tx = "pending"]
         /\ settlements[s].pc = "claimed"
      \/ settlements' = [settlements EXCEPT ![s].tx = "landed"] /\ settlements[s].tx = "pending"
      \/ settlements' = [settlements EXCEPT ![s].tx = "reverted"] /\ settlements[s].tx = "pending"
  BY DEF SettleSend, SettleMine
<1>3. /\ settlements'[s].amount = settlements[s].amount
      /\ settlements'[s].validBefore = settlements[s].validBefore
      /\ settlements[s].pc \in {"claimed", "sent"} /\ settlements'[s].pc = "sent"
      /\ settlements'[s].tx \in {"pending", "landed", "reverted"}
      /\ \A t \in Settlements \ {s} : settlements'[t] = settlements[t]
  BY <1>2 DEF SettleTypes, SettleCall, FloorInv, SettlePlaces
<1>4. \A t \in Settlements : Holding(t)' = Holding(t) /\ FloorOf(t)' = FloorOf(t)
  BY <1>3 DEF Holding, FloorOf
<1>5. SettlePlaces'
  BY <1>3 DEF FloorInv, SettlePlaces
<1>6. \A t \in Settlements : settlements'[t].amount = settlements[t].amount
  BY <1>3
<1> QED
  BY <1>1, <1>4, <1>5, <1>6 DEF FloorInv

\* A settlement ends: the floors of the others stay as they are.
LEMMA EndKeepsFloor ==
    ASSUME IInv, FloorInv, SettleTypes, UNCHANGED clock, NEW s \in Settlements,
           NEW pc \in {"done", "failed"}, settlements' = [settlements EXCEPT ![s].pc = pc],
           settlements[s].tx # "pending", settlements[s].tx = "landed" => pc = "done",
           ch'.spent = ch.spent,
           \/ ch'.pendingSettlement = ch.pendingSettlement /\ ch.pendingSettlement # FloorOf(s)
           \/ ch'.pendingSettlement = ch.pendingSettlement /\ ~Holding(s)
           \/ /\ ch'.pendingSettlement = NoPending
              /\ \A t \in Settlements \ {s} : Holding(t) =>
                    \/ settlements[t].amount <= ch'.settledOnChain
                    \/ ch.pendingSettlement # FloorOf(t)
    PROVE  FloorInv'
<1>1. /\ settlements'[s].pc = pc /\ settlements'[s].tx = settlements[s].tx
      /\ \A t \in Settlements \ {s} : settlements'[t] = settlements[t]
  BY DEF SettleTypes, SettleCall
<1>2. /\ ~Holding(s)'
      /\ \A t \in Settlements \ {s} : Holding(t)' = Holding(t) /\ FloorOf(t)' = FloorOf(t)
  BY <1>1 DEF Holding, FloorOf
<1>3. SettlePlaces'
  BY <1>1 DEF FloorInv, SettlePlaces
<1>4. ASSUME NEW t \in Settlements, Holding(t)'
      PROVE  \/ settlements'[t].amount <= ch'.settledOnChain
             \/ ch'.pendingSettlement = FloorOf(t)' /\ settlements'[t].amount <= ch'.spent
  <2>1. t # s /\ Holding(t) /\ settlements'[t] = settlements[t] /\ FloorOf(t)' = FloorOf(t)
    BY <1>1, <1>2, <1>4
  <2>2. CASE settlements[t].amount <= ch.settledOnChain
    BY <2>1, <2>2 DEF SettleTypes, State
  <2>3. CASE ch.pendingSettlement = FloorOf(t) /\ settlements[t].amount <= ch.spent
    BY <2>1, <2>3
  <2> QED
    BY <2>1, <2>2, <2>3 DEF FloorInv
<1>5. ASSUME ch'.pendingSettlement.expiresAt > clock
      PROVE  \E t \in Settlements : Holding(t)' /\ ch'.pendingSettlement = FloorOf(t)'
  <2>1. ch'.pendingSettlement = ch.pendingSettlement
        /\ (ch.pendingSettlement # FloorOf(s) \/ ~Holding(s))
    BY <1>5 DEF NoPending, SettleTypes
  <2>2. PICK t \in Settlements : Holding(t) /\ ch.pendingSettlement = FloorOf(t)
    BY <1>5, <2>1 DEF FloorInv
  <2> QED
    BY <1>2, <2>1, <2>2
<1> QED
  BY <1>3, <1>4, <1>5 DEF FloorInv

LEMMA CheckpointKeepsFloor ==
    ASSUME IInv, FloorInv, SettleTypes, UNCHANGED clock,
           NEW s \in Settlements, SettleCheckpoint(s)
    PROVE  FloorInv' /\ ch'.spent = ch.spent /\ ch'.settledOnChain >= settlements[s].amount
<1> DEFINE amount == settlements[s].amount
           settled == keepGreater(ch.settledOnChain, amount)
           p == IF ch.pendingSettlement.amount > settled THEN ch.pendingSettlement ELSE NoPending
           r == {v \in ch.retained : v > settled}
<1>1. /\ ch' = [ch EXCEPT !.settledOnChain = settled, !.pendingSettlement = p, !.retained = r]
      /\ settlements' = [settlements EXCEPT ![s].pc = "done"]
      /\ settlements[s].tx = "landed"
  BY DEF SettleCheckpoint, checkpointSettlement, SettleTypes, State
<1>2. /\ settled \in Nat /\ settled >= amount /\ amount \in Nat
      /\ ch.pendingSettlement.amount \in Nat
  BY DEF keepGreater, SettleTypes, State
<1> HIDE DEF amount, settled, r
<1>3. \/ p = ch.pendingSettlement /\ ch.pendingSettlement.amount > settled
      \/ p = NoPending /\ ch.pendingSettlement.amount <= settled
  <2>1. CASE ch.pendingSettlement.amount > settled
    BY <2>1
  <2>2. CASE ~(ch.pendingSettlement.amount > settled)
    BY <1>2, <2>2
  <2> QED
    BY <2>1, <2>2
<1> HIDE DEF p
<1>4. ch'.spent = ch.spent /\ ch'.pendingSettlement = p /\ ch'.settledOnChain = settled
  BY <1>1 DEF SettleTypes, State
<1>5. CASE p = ch.pendingSettlement /\ ch.pendingSettlement.amount > settled
  <2>1. ch.pendingSettlement # FloorOf(s)
    BY <1>2, <1>5 DEF FloorOf, SettleTypes, amount
  <2> QED
    BY <1>1, <1>2, <1>4, <1>5, <2>1, EndKeepsFloor DEF amount
<1>6. CASE p = NoPending /\ ch.pendingSettlement.amount <= settled
  <2>1. \A t \in Settlements \ {s} :
          settlements[t].amount <= settled \/ ch.pendingSettlement # FloorOf(t)
    BY <1>6 DEF FloorOf
  <2> QED
    BY <1>1, <1>2, <1>4, <1>6, <2>1, EndKeepsFloor DEF amount
<1> QED
  BY <1>3, <1>5, <1>6

\* A settlement that reverts takes back its own floor only.
LEMMA ReleaseKeepsFloor ==
    ASSUME IInv, FloorInv, SettleTypes, OneSettling, UNCHANGED clock,
           NEW s \in Settlements, SettleRelease(s)
    PROVE  FloorInv' /\ ch'.settledOnChain = ch.settledOnChain /\ ch'.spent = ch.spent
<1>1. /\ settlements' = [settlements EXCEPT ![s].pc = "failed"]
      /\ settlements[s].pc \in {"claimed", "sent"}
      /\ settlements[s].tx # "pending" /\ settlements[s].tx # "landed"
  BY DEF SettleRelease, FloorInv, SettlePlaces
<1>2. CASE ch' = ch /\ ch.pendingSettlement # FloorOf(s)
  BY <1>1, <1>2, EndKeepsFloor
<1>3. CASE /\ ch' = [ch EXCEPT !.pendingSettlement = NoPending]
           /\ ch.pendingSettlement = FloorOf(s)
  <2>1. /\ ch'.spent = ch.spent /\ ch'.pendingSettlement = NoPending
        /\ ch'.settledOnChain = ch.settledOnChain
    BY <1>3 DEF SettleTypes, State
  <2>2. ASSUME NEW t \in Settlements \ {s}, Holding(t), ch.pendingSettlement = FloorOf(t)
        PROVE  FALSE
    <3>1. settlements[t].validBefore + ClockSkew = settlements[s].validBefore + ClockSkew
      BY <1>3, <2>2 DEF FloorOf
    <3>2. Holding(s)
      BY <1>1, <2>2, <3>1 DEF Holding
    <3> QED
      BY <2>2, <3>2 DEF OneSettling
  <2> QED
    BY <1>1, <2>1, <2>2, EndKeepsFloor
<1> QED
  BY <1>2, <1>3 DEF SettleRelease, releaseSettlement, FloorOf

LEMMA NextFloor ==
    ASSUME IInv, FloorInv, ReadsWithinSkew, OneSettling, OneSettling', [Next]_vars
    PROVE  FloorInv' /\ (SettleStep => ch'.spent = ch.spent)
<1>1. SettleTypes
  BY SettleTyped
<1>2. CASE SettleStep
  <2>1. PICK s \in Settlements : \/ SettleClaim(s) \/ SettleSend(s) \/ SettleMine(s)
                                \/ SettleCheckpoint(s) \/ SettleRelease(s)
    BY <1>2 DEF SettleStep
  <2>2. UNCHANGED clock
    BY <2>1 DEF SettleClaim, SettleSend, SettleMine, SettleCheckpoint, SettleRelease,
                SettlementUnchanged
  <2> QED
    BY <1>1, <2>1, <2>2, ClaimKeepsFloor, SendKeepsFloor, CheckpointKeepsFloor,
       ReleaseKeepsFloor
<1>3. CASE ~SettleStep
  BY <1>3, NextSpends, OthersKeepFloor
<1> QED
  BY <1>2, <1>3

LEMMA NextPaid ==
    ASSUME IInv, FloorInv, PaidInv, CloseCalls, [Next]_vars
    PROVE  PaidInv'
<1>1. SettleTypes
  BY SettleTyped
<1>2. CASE Ended
  BY <1>2, EndedStays DEF PaidInv
<1>3. CASE escrow'.settled = escrow.settled /\ escrow.settled <= ch.settledOnChain
  <2>1. escrow'.settled <= ch'.settledOnChain
    BY <1>1, <1>3 DEF SettleTypes, State, Escrow
  <2> QED
    BY <2>1 DEF PaidInv
<1>4. ASSUME escrow'.settled = escrow.settled, NEW s \in Settlements, Unrecorded(s)
      PROVE  PaidInv'
  <2>1. CASE settlements'[s] = settlements[s]
    BY <1>4, <2>1 DEF Unrecorded, PaidInv
  <2>2. CASE SettleStep /\ settlements'[s] # settlements[s]
    <3>1. PICK t \in Settlements : \/ SettleClaim(t) \/ SettleSend(t) \/ SettleMine(t)
                                  \/ SettleCheckpoint(t) \/ SettleRelease(t)
      BY <2>2 DEF SettleStep
    <3>2. t = s
      BY <1>1, <2>2, <3>1 DEF SettleTypes, SettleClaim, SettleSend, SettleMine,
                              SettleCheckpoint, SettleRelease
    <3>3. SettleCheckpoint(s)
      BY <1>4, <3>1, <3>2 DEF Unrecorded, SettleClaim, SettleSend, SettleMine, SettleRelease
    <3>4. ch'.settledOnChain >= settlements[s].amount
      BY <1>1, <3>3, CheckpointKeepsFloor DEF SettleCheckpoint, SettlementUnchanged
    <3>5. escrow'.settled <= ch'.settledOnChain
      BY <1>1, <1>4, <3>4 DEF Unrecorded, SettleTypes, State, Escrow
    <3> QED
      BY <3>5 DEF PaidInv
  <2> QED
    BY <2>1, <2>2, NextSpends
<1>5. ASSUME NEW s \in Settlements, SettleMine(s), escrow'.settled = settlements[s].amount,
             escrow'.settled > escrow.settled
      PROVE  PaidInv'
  <2>1. settlements[s].tx = "pending" /\ settlements[s].pc = "sent"
    BY <1>5 DEF SettleMine, FloorInv, SettlePlaces
  <2>2. escrow' # escrow
    BY <1>1, <1>5 DEF SettleTypes, Escrow
  <2>3. settlements' = [settlements EXCEPT ![s].tx = "landed"]
    BY <1>5, <2>2 DEF SettleMine
  <2>4. /\ settlements'[s].tx = "landed" /\ settlements'[s].pc = "sent"
        /\ settlements'[s].amount = settlements[s].amount
    BY <1>1, <2>1, <2>3 DEF SettleTypes, SettleCall
  <2>5. Unrecorded(s)'
    BY <1>1, <1>5, <2>4 DEF Unrecorded, SettleTypes
  <2> QED
    BY <2>5 DEF PaidInv
<1>6. ASSUME NEW c \in Closes, closes' = [closes EXCEPT ![c].tx = "landed"]
      PROVE  PaidInv'
  <2>1. Landed(c)'
    BY <1>6 DEF Landed, IInv, CloseInv, CloseCall
  <2> QED
    BY <2>1 DEF PaidInv, Ended
<1>7. ASSUME NEW p \in Supervisors, supervisors' = [supervisors EXCEPT ![p].tx = "landed"]
      PROVE  PaidInv'
  <2>1. supervisors'[p].tx = "landed"
    BY <1>7 DEF IInv, SuperviseInv, SuperviseCall
  <2> QED
    BY <2>1 DEF PaidInv, Ended
<1>8. CASE escrow'.settled = escrow.settled
  BY <1>2, <1>3, <1>4, <1>8 DEF PaidInv
<1> QED
  BY <1>5, <1>6, <1>7, <1>8, PaidMoves

LEMMA NextCapture ==
    ASSUME IInv, FundInv, MarkInv, CaptureInv, [Next]_vars
    PROVE  CaptureInv'
<1>1. SettleTypes /\ RecordMoves /\ closes \in [Closes -> CloseCall]
  BY SettleTyped, NextFunds DEF IInv, CloseInv
<1>2. escrow.settled \in Nat /\ escrow'.settled \in Nat /\ escrow'.settled >= escrow.settled
  <2>1. escrow.settled \in Nat /\ escrow'.settled \in Nat
    BY <1>1 DEF SettleTypes, Escrow
  <2> QED
    BY <2>1, PaidMoves
<1> SUFFICES ASSUME NEW c \in Closes, Live(c)'
             PROVE  closes'[c].capture <= ch'.spent \/ closes'[c].capture <= escrow'.settled
  BY DEF CaptureInv
<1>3. CASE Live(c) /\ ~CloseMark(c)
  <2>1. closes'[c].capture = closes[c].capture
    <3>1. CASE CloseStep
      <4>1. PICK d \in Closes : \/ CloseRead(d) \/ CloseMark(d) \/ CloseSend(d)
                                \/ CloseMine(d) \/ CloseFinalize(d) \/ CloseFail(d)
        BY <3>1 DEF CloseStep
      <4> QED
        BY <1>3, <4>1, ClosePlaces DEF MarkInv, Live
    <3> QED
      BY <3>1, ClosesMove
  <2>2. ch'.spent = ch.spent
    <3>1. /\ ch.finalized \/ ch.closeRequestedAt >= closes[c].startedAt
          /\ closes[c].startedAt >= 1
      BY <1>3 DEF MarkInv, Marked, CloseCalls, Live, Marking
    <3>2. ch.finalized \/ ch.closeRequestedAt # 0
      BY <1>1, <3>1 DEF SettleTypes, State, CloseCall
    <3> QED
      BY <1>1, <3>2 DEF RecordMoves, Uncharged
  <2> QED
    BY <1>1, <1>2, <1>3, <2>1, <2>2 DEF CaptureInv, CloseCall
<1>4. CASE CloseMark(c)
  <2>1. PICK now \in closes[c].readAt .. clock :
          LET current == reconcileExpiredPendingClose(ch, now, closes[c].read)
          IN  \/ /\ ch' = markPendingClose(current, now)
                 /\ closes' = [closes EXCEPT
                       ![c].pc = "marked", ![c].startedAt = now,
                       ![c].read = NoRead, ![c].readAt = 0,
                       ![c].capture = closeCaptureAmount(current.spent, closes[c].read)]
              \/ closes' = [closes EXCEPT ![c].pc = "failed"]
    BY <1>4 DEF CloseMark
  <2> DEFINE current == reconcileExpiredPendingClose(ch, now, closes[c].read)
             capture == closeCaptureAmount(current.spent, closes[c].read)
  <2>2. closes' # [closes EXCEPT ![c].pc = "failed"]
    BY <1>1 DEF Live, Marking, CloseCall
  <2>3. /\ ch' = markPendingClose(current, now)
        /\ closes' = [closes EXCEPT
              ![c].pc = "marked", ![c].startedAt = now,
              ![c].read = NoRead, ![c].readAt = 0, ![c].capture = capture]
    BY <2>1, <2>2
  <2>4. /\ now \in Nat /\ closes[c].read \in ChainState
        /\ closes[c].read.settled <= escrow.settled
    BY <1>1 DEF SettleTypes, CloseCall, IInv, CloseInv
  <2>5. current \in State
    BY <1>1, <2>4, ReconcileKeeps DEF SettleTypes
  <2>6. capture \in {current.spent, closes[c].read.settled}
    BY DEF closeCaptureAmount, keepGreater
  <2> HIDE DEF current, capture
  <2>7. ch'.spent = current.spent /\ current.spent \in Nat
    BY <2>3, <2>5 DEF markPendingClose, State
  <2>8. closes'[c].capture = capture
    BY <1>1, <2>3 DEF CloseCall
  <2> QED
    BY <1>2, <2>4, <2>6, <2>7, <2>8 DEF ChainState
<1> QED
  BY <1>3, <1>4, LiveBefore DEF MarkInv

LEMMA FloorsInductive ==
    ASSUME DriftWithinSkew, ReadsWithinSkew
    PROVE  Spec /\ []OneSettling /\ [][RequestStands]_vars
             => [](/\ IInv /\ FundInv /\ MarkInv /\ LandInv /\ FixedInv
                   /\ FloorInv /\ PaidInv /\ CaptureInv)
<1>1. IInv /\ FloorInv /\ OneSettling /\ OneSettling' /\ [Next]_vars => FloorInv'
  BY NextFloor
<1>2. IInv /\ MarkInv /\ FloorInv /\ PaidInv /\ [Next]_vars => PaidInv'
  BY NextPaid DEF MarkInv
<1>3. IInv /\ FundInv /\ MarkInv /\ CaptureInv /\ [Next]_vars => CaptureInv'
  BY NextCapture
<1> QED
  BY LandingInductive, RequestInductive, InitFloor, <1>1, <1>2, <1>3, PTL DEF Spec

\* Whatever mines, a settlement or a close, captures at most what is charged at
\* that moment, while settlements do not overlap and the payer's request stands.
THEOREM CaptureIsCharged ==
    ASSUME DriftWithinSkew, ReadsWithinSkew
    PROVE  Spec /\ []OneSettling /\ [][RequestStands]_vars => CaptureWithinSpent
<1> DEFINE Charged == escrow'.settled > escrow.settled => escrow'.settled <= ch.spent
<1>1. /\ IInv /\ FundInv /\ MarkInv /\ LandInv /\ FixedInv /\ FloorInv /\ CaptureInv
      /\ [Next]_vars
      => Charged
  <2> SUFFICES ASSUME IInv, MarkInv, FixedInv, FloorInv, CaptureInv, [Next]_vars,
                      escrow'.settled > escrow.settled
               PROVE  escrow'.settled <= ch.spent
    OBVIOUS
  <2>1. SettleTypes /\ escrow.settled \in Nat
    BY SettleTyped DEF SettleTypes, Escrow
  <2>2. ASSUME NEW s \in Settlements, SettleMine(s), escrow'.settled = settlements[s].amount
        PROVE  escrow'.settled <= ch.spent
    <3>1. settlements[s].pc = "sent"
      BY <2>2 DEF SettleMine, FloorInv, SettlePlaces
    <3>2. PICK t \in BlockTimes : t < settlements[s].validBefore
      BY <2>2 DEF SettleMine, CanLand
    <3>3. clock < settlements[s].validBefore + ClockSkew
      BY <2>1, <3>2 DEF BlockTimes, SettleTypes, DriftWithinSkew
    <3>4. settlements[s].amount <= ch.settledOnChain \/ settlements[s].amount <= ch.spent
      BY <3>1, <3>3 DEF FloorInv, Holding
    <3> QED
      BY <2>1, <2>2, <3>4 DEF SettleTypes, State
  <2>3. ASSUME NEW c \in Closes, CloseMine(c), escrow'.settled = closes[c].capture,
               closes' = [closes EXCEPT ![c].tx = "landed"]
        PROVE  escrow'.settled <= ch.spent
    <3>1. Landed(c)' /\ ~Landed(c)
      BY <2>3 DEF CloseMine, Landed, IInv, CloseInv, CloseCall
    <3>2. Live(c)
      BY <3>1, LandedBefore DEF MarkInv
    <3> QED
      BY <2>1, <2>3, <3>2 DEF CaptureInv, IInv, CloseInv, CloseCall
  <2>4. ASSUME NEW p \in Supervisors, SuperviseMine(p),
               escrow'.settled = supervisors[p].capture
        PROVE  escrow'.settled <= ch.spent
    <3>1. supervisors[p].capture = ch.spent
      BY <2>4 DEF SuperviseMine, FixedInv, Ending
    <3> QED
      BY <2>1, <2>4, <3>1 DEF SettleTypes, State
  <2> QED
    BY <2>1, <2>2, <2>3, <2>4, PaidMoves
<1>2. /\ IInv /\ FundInv /\ MarkInv /\ LandInv /\ FixedInv /\ FloorInv /\ CaptureInv
      /\ [Next]_vars
      => [Charged]_vars
  BY <1>1
<1> QED
  BY FloorsInductive, <1>2, PTL DEF Spec, CaptureWithinSpent

\* A credit never takes spent below what the escrow paid, unless a settlement's
\* receipt is still not recorded when its floor expires.
THEOREM CreditsKeepSettled ==
    ASSUME DriftWithinSkew, ReadsWithinSkew
    PROVE  Spec /\ []OneSettling /\ [][RequestStands]_vars => CreditKeepsSettled
<1> DEFINE Keeps == ch'.spent < ch.spent =>
                       escrow.settled <= ch'.spent \/ UnrecordedSettlement
<1>1. /\ IInv /\ FundInv /\ MarkInv /\ LandInv /\ FixedInv /\ FloorInv /\ PaidInv
      /\ OneSettling /\ OneSettling' /\ [Next]_vars
      => Keeps
  <2> SUFFICES ASSUME IInv, MarkInv, LandInv, FixedInv, FloorInv, PaidInv,
                      OneSettling, OneSettling', [Next]_vars, ch'.spent < ch.spent
               PROVE  escrow.settled <= ch'.spent \/ UnrecordedSettlement
    OBVIOUS
  <2>1. SettleTypes /\ escrow.settled \in Nat
    BY SettleTyped DEF SettleTypes, Escrow
  <2>2. Credits
    <3>1. ~SettleStep
      BY <2>1, NextFloor DEF SettleTypes, State
    <3>2. ~Extends(ch, ch')
      BY <2>1 DEF Extends, SettleTypes, State
    <3> QED
      BY <3>1, <3>2, NextSpends
  <2>3. CASE escrow.settled <= ch.settledOnChain
    BY <2>1, <2>2, <2>3 DEF Credits, SettleTypes, State
  <2>4. ASSUME NEW s \in Settlements, Unrecorded(s)
        PROVE  escrow.settled <= ch'.spent \/ UnrecordedSettlement
    <3>1. CASE clock >= settlements[s].validBefore + ClockSkew
      BY <2>4, <3>1 DEF Unrecorded, UnrecordedSettlement
    <3>2. CASE clock < settlements[s].validBefore + ClockSkew
      <4>1. CASE settlements[s].amount <= ch.settledOnChain
        BY <2>1, <2>2, <2>4, <4>1 DEF Unrecorded, Credits, SettleTypes, State
      <4>2. CASE ch.pendingSettlement = FloorOf(s)
        <5>1. SettlingFloor(ch, clock) = settlements[s].amount
          BY <2>1, <3>2, <4>2 DEF SettlingFloor, FloorOf, SettleTypes
        <5> QED
          BY <2>1, <2>2, <2>4, <5>1 DEF Unrecorded, Credits, SettleTypes, State
      <4> QED
        BY <2>4, <3>2, <4>1, <4>2 DEF FloorInv, Holding, Unrecorded
    <3> QED
      BY <2>1, <3>1, <3>2 DEF SettleTypes
  <2>5. ~Ended
    <3>1. ASSUME NEW c \in Closes, Landed(c)
          PROVE  FALSE
      <4>1. ch.finalized \/ ch.closeRequestedAt >= closes[c].startedAt
        BY <3>1 DEF LandInv, Marked
      <4>2. closes[c].startedAt \in Nat /\ closes[c].startedAt >= 1
        BY <3>1 DEF MarkInv, CloseCalls, Landed, IInv, CloseInv, CloseCall
      <4> QED
        BY <2>2, <4>1, <4>2 DEF Credits
    <3>2. ASSUME NEW p \in Supervisors, supervisors[p].tx = "landed"
          PROVE  FALSE
      <4>1. Requested
        BY <3>2 DEF FixedInv, Ending
      <4> QED
        BY <2>1, <2>2, <4>1 DEF Requested, Credits, SettleTypes, Escrow
    <3> QED
      BY <2>2, <3>1, <3>2 DEF Ended, Credits
  <2> QED
    BY <2>3, <2>4, <2>5 DEF PaidInv
<1>2. /\ IInv /\ FundInv /\ MarkInv /\ LandInv /\ FixedInv /\ FloorInv /\ PaidInv
      /\ OneSettling /\ OneSettling' /\ [Next]_vars
      => [Keeps]_vars
  BY <1>1
<1> QED
  BY FloorsInductive, <1>2, PTL DEF Spec, CreditKeepsSettled
=============================================================================
