-------------------------- MODULE SessionChannelProofs --------------------------
(***************************************************************************)
(* Theorems of SessionChannel for every set of calls, amount and bound:    *)
(* type correctness, spending within accepted vouchers, a record that      *)
(* never runs ahead of the escrow, and a record that takes nothing back;   *)
(* vouchers that are funded, and a voucher that pays one request.          *)
(*                                                                         *)
(* The inductive invariant IInv adds to the first four what every call in  *)
(* flight holds: a chain read, a mined settlement or a mined close never   *)
(* exceeds what the escrow has settled, which only grows.  FundInv says    *)
(* that the deposit covers the record, and every amount and deposit a call *)
(* holds, as long as the channel may still pay.  AdvanceInv says that      *)
(* whoever advanced the channel did so past every other.                   *)
(***************************************************************************)
EXTENDS SessionChannel, TLAPS, FiniteSetTheorems

-----------------------------------------------------------------------------
(* What each update of the record preserves: its type, the bound            *)
(* spent <= highest, and the fields that never go back.                     *)

\* Within(c): a record does not spend more than its highest voucher.
Within(c) == c.spent <= c.highest

\* Kept(c, d): nothing recorded in c is taken back in d.
Kept(c, d) ==
    /\ d.highest >= c.highest
    /\ d.settledOnChain >= c.settledOnChain
    /\ c.finalized => d.finalized /\ d.spent = c.spent
    /\ \A k \in CreditKeys :
          c.markers[k].outcome # "none" => d.markers[k] = c.markers[k]

\* The empty record a store without the channel stands for.
LEMMA NoRecordType == NoRecord \in State /\ Within(NoRecord)
BY DEF NoRecord, State, NoPending, NoMarker, CreditOutcomes, Within

LEMMA KeepGreaterNat ==
    ASSUME NEW a \in Nat, NEW b \in Nat
    PROVE  /\ keepGreater(a, b) \in Nat
           /\ keepGreater(a, b) >= a
           /\ keepGreater(a, b) >= b
           /\ keepGreater(a, b) = a \/ keepGreater(a, b) = b
BY DEF keepGreater

\* Merging an on-chain read raises three fields and leaves the rest alone.
LEMMA MergeKeeps ==
    ASSUME NEW c \in State, NEW s \in ChainState
    PROVE  LET d == mergeActiveOnChainState(c, s)
           IN  /\ d \in State
               /\ d.spent = c.spent /\ d.highest = c.highest
               /\ d.settledOnChain = keepGreater(c.settledOnChain, s.settled)
               /\ Within(c) => Within(d)
               /\ Kept(c, d)
<1> DEFINE d == mergeActiveOnChainState(c, s)
<1>1. /\ keepGreater(c.closeRequestedAt, s.closeRequestedAt) \in Nat
      /\ keepGreater(c.deposit, s.deposit) \in Nat
      /\ keepGreater(c.settledOnChain, s.settled) \in Nat
      /\ keepGreater(c.settledOnChain, s.settled) >= c.settledOnChain
  BY KeepGreaterNat DEF State, ChainState
<1>2. d \in State
  BY <1>1 DEF mergeActiveOnChainState, State
<1>3. /\ d.spent = c.spent /\ d.highest = c.highest
      /\ d.finalized = c.finalized /\ d.markers = c.markers
      /\ d.settledOnChain = keepGreater(c.settledOnChain, s.settled)
  BY DEF mergeActiveOnChainState, State
<1> QED
  BY <1>1, <1>2, <1>3 DEF Within, Kept, State

\* A pending close seen on chain raises two fields.
LEMMA PendingCloseKeeps ==
    ASSUME NEW c \in State, NEW s \in ChainState
    PROVE  LET d == pendingCloseState(c, s)
           IN  /\ d \in State
               /\ d.settledOnChain = keepGreater(c.settledOnChain, s.settled)
               /\ Within(c) => Within(d)
               /\ Kept(c, d)
<1> DEFINE d == pendingCloseState(c, s)
<1>1. /\ keepGreater(c.closeRequestedAt, s.closeRequestedAt) \in Nat
      /\ keepGreater(c.settledOnChain, s.settled) \in Nat
      /\ keepGreater(c.settledOnChain, s.settled) >= c.settledOnChain
  BY KeepGreaterNat DEF State, ChainState
<1>2. d \in State
  BY <1>1 DEF pendingCloseState, State
<1>3. /\ d.spent = c.spent /\ d.highest = c.highest
      /\ d.finalized = c.finalized /\ d.markers = c.markers
      /\ d.settledOnChain = keepGreater(c.settledOnChain, s.settled)
  BY DEF pendingCloseState, State
<1> QED
  BY <1>1, <1>2, <1>3 DEF Within, Kept, State

\* The retained vouchers are vouchers the record already held.
LEMMA RetainedWereHeld ==
    ASSUME NEW c \in State, NEW h \in Nat, NEW s \in Nat
    PROVE  /\ retainVouchers(c, h, s) \subseteq c.retained \cup {c.highest}
           /\ retainVouchers(c, h, s) \in SUBSET Nat
           /\ \A v \in retainVouchers(c, h, s) : v > s /\ v < h
<1>1. c.retained \cup {c.highest} \in SUBSET Nat
  BY DEF State
<1> QED
  BY <1>1 DEF retainVouchers

\* Accepting a voucher raises the highest one and leaves spent alone.
LEMMA AcceptKeeps ==
    ASSUME NEW c \in State, NEW v \in Nat, NEW s \in ChainState
    PROVE  LET d == acceptVoucherStateUpdate(c, v, s)
           IN  /\ d \in State
               /\ d.settledOnChain = keepGreater(c.settledOnChain, s.settled)
               /\ Within(c) => Within(d)
               /\ Kept(c, d)
<1> DEFINE m == mergeActiveOnChainState(c, s)
           d == acceptVoucherStateUpdate(c, v, s)
<1>1. /\ m \in State
      /\ m.spent = c.spent /\ m.highest = c.highest
      /\ m.settledOnChain = keepGreater(c.settledOnChain, s.settled)
      /\ Within(c) => Within(m)
      /\ Kept(c, m)
  BY MergeKeeps
<1>2. CASE v <= c.highest
  BY <1>1, <1>2 DEF acceptVoucherStateUpdate
<1>3. CASE ~(v <= c.highest)
  <2>1. d = [m EXCEPT !.highest = v,
                      !.retained = retainVouchers(c, v, m.settledOnChain)]
    BY <1>3 DEF acceptVoucherStateUpdate
  <2>2. retainVouchers(c, v, m.settledOnChain) \in SUBSET Nat
    BY <1>1, RetainedWereHeld DEF State
  <2>3. d \in State
    BY <1>1, <2>1, <2>2 DEF State
  <2>4. /\ d.spent = m.spent /\ d.highest = v
        /\ d.finalized = m.finalized /\ d.markers = m.markers
        /\ d.settledOnChain = m.settledOnChain
    BY <1>1, <2>1 DEF State
  <2>5. v > c.highest /\ c.highest \in Nat /\ c.spent \in Nat
    BY <1>3 DEF State
  <2> QED
    BY <1>1, <2>3, <2>4, <2>5 DEF Within, Kept
<1> QED
  BY <1>2, <1>3

\* The read issued in the background only merges.
LEMMA BackgroundKeeps ==
    ASSUME NEW c \in State, NEW s \in ChainState
    PROVE  LET d == backgroundReadState(c, s)
           IN  /\ d \in State
               /\ d.settledOnChain \in {c.settledOnChain,
                                        keepGreater(c.settledOnChain, s.settled)}
               /\ Within(c) => Within(d)
               /\ Kept(c, d)
<1>1. CASE c.exists /\ ~c.finalized /\ c.closeRequestedAt = 0
  BY <1>1, MergeKeeps DEF backgroundReadState
<1>2. CASE ~(c.exists /\ ~c.finalized /\ c.closeRequestedAt = 0)
  BY <1>2 DEF backgroundReadState, State, Kept
<1> QED
  BY <1>1, <1>2

\* A top-up only merges.
LEMMA TopUpKeeps ==
    ASSUME NEW c \in State, NEW s \in ChainState
    PROVE  LET d == topUpChannelState(c, s)
           IN  /\ d \in State
               /\ d.settledOnChain \in {c.settledOnChain,
                                        keepGreater(c.settledOnChain, s.settled)}
               /\ Within(c) => Within(d)
               /\ Kept(c, d)
<1>1. CASE c.exists
  BY <1>1, MergeKeeps DEF topUpChannelState
<1>2. CASE ~c.exists
  BY <1>2 DEF topUpChannelState, State, Kept
<1> QED
  BY <1>1, <1>2

\* A charge the record covers stays within the highest voucher.
LEMMA DeductKeeps ==
    ASSUME NEW c \in State, NEW a \in Nat, CanDeduct(c, a)
    PROVE  LET d == planDeduction(c, a)
           IN  /\ d \in State
               /\ d.settledOnChain = c.settledOnChain
               /\ Within(d)
               /\ Kept(c, d)
BY DEF State, CanDeduct, planDeduction, Within, Kept

\* Charging on acceptance: either the charge is covered or nothing changes.
LEMMA AcceptanceKeeps ==
    ASSUME NEW c \in State, NEW a \in Nat
    PROVE  LET d == planVoucherAcceptance(c, a)
           IN  /\ d \in State
               /\ d.settledOnChain = c.settledOnChain
               /\ Within(c) => Within(d)
               /\ Kept(c, d)
<1>1. CASE CanDeduct(c, a)
  BY <1>1, DeductKeeps DEF planVoucherAcceptance
<1>2. CASE ~CanDeduct(c, a)
  BY <1>2 DEF planVoucherAcceptance, State, Kept
<1> QED
  BY <1>1, <1>2

\* A decided credit lowers spent by the amount or not at all, and never on a
\* finalized record.
LEMMA CreditKeeps ==
    ASSUME NEW c \in State, NEW k \in CreditKeys, NEW a \in Nat, NEW now \in Nat,
           c.markers[k].outcome = "none"
    PROVE  LET d == planCredit(c, k, a, now)
           IN  /\ d \in State
               /\ d.settledOnChain = c.settledOnChain
               /\ Within(c) => Within(d)
               /\ Kept(c, d)
<1> DEFINE o == creditDeclineReason(c, a, now)
           d == planCredit(c, k, a, now)
<1>1. o \in CreditOutcomes
  BY DEF creditDeclineReason, CreditOutcomes
<1>2. o = "credited" => a <= c.spent /\ ~c.finalized
  BY DEF creditDeclineReason, State
<1>3. d = [c EXCEPT !.spent = IF o = "credited" THEN c.spent - a ELSE c.spent,
                    !.markers = [c.markers EXCEPT ![k] = [outcome |-> o, amount |-> a]]]
  BY DEF planCredit, State
<1> HIDE DEF o, d
<1>4. [c.markers EXCEPT ![k] = [outcome |-> o, amount |-> a]]
         \in [CreditKeys -> [outcome : CreditOutcomes, amount : Nat]]
  BY <1>1 DEF State
<1>5. (IF o = "credited" THEN c.spent - a ELSE c.spent) \in Nat
  BY <1>2 DEF State
<1>6. d \in State
  BY <1>3, <1>4, <1>5 DEF State
<1>7. /\ d.highest = c.highest /\ d.settledOnChain = c.settledOnChain
      /\ d.finalized = c.finalized
      /\ d.spent = IF o = "credited" THEN c.spent - a ELSE c.spent
      /\ d.markers = [c.markers EXCEPT ![k] = [outcome |-> o, amount |-> a]]
  BY <1>3 DEF State
<1>8. Within(c) => Within(d)
  BY <1>2, <1>7 DEF Within, State
<1>9. Kept(c, d)
  BY <1>2, <1>7 DEF Kept, State
<1> QED
  BY <1>6, <1>7, <1>8, <1>9 DEF d

\* Opening, or opening again, raises the highest voucher; spent follows an
\* on-chain settlement only.
LEMMA OpenKeeps ==
    ASSUME NEW c \in State, NEW v \in Nat, NEW s \in ChainState, s.settled = 0
    PROVE  LET d == openChannelState(c, v, s)
           IN  /\ d \in State
               /\ d.settledOnChain = c.settledOnChain
               /\ Within(c) => Within(d)
               /\ Kept(c, d)
<1> DEFINE m == mergeActiveOnChainState(c, s)
           h == keepGreater(c.highest, v)
           r == IF h > c.highest THEN retainVouchers(c, h, m.settledOnChain) ELSE c.retained
           d == openChannelState(c, v, s)
<1>1. /\ m \in State
      /\ m.spent = c.spent /\ m.highest = c.highest
      /\ m.settledOnChain = c.settledOnChain
      /\ m.finalized = c.finalized /\ m.markers = c.markers /\ m.retained = c.retained
  <2>1. m \in State /\ m.spent = c.spent /\ m.highest = c.highest
    BY MergeKeeps
  <2>2. /\ m.finalized = c.finalized /\ m.markers = c.markers /\ m.retained = c.retained
        /\ m.settledOnChain = keepGreater(c.settledOnChain, s.settled)
    BY DEF mergeActiveOnChainState, State
  <2>3. keepGreater(c.settledOnChain, s.settled) = c.settledOnChain
    BY DEF keepGreater, State
  <2> QED
    BY <2>1, <2>2, <2>3
<1>2. h \in Nat /\ h >= c.highest
  BY KeepGreaterNat DEF State
<1>3. r \in SUBSET Nat
  BY <1>1, <1>2, RetainedWereHeld DEF State
<1>4. keepGreater(c.spent, s.settled) = c.spent
  BY DEF keepGreater, State
<1>5. d = [m EXCEPT !.exists = TRUE, !.highest = h, !.retained = r, !.spent = c.spent]
  BY <1>1, <1>4 DEF openChannelState
<1> HIDE DEF m, h, r, d
<1>6. d \in State
  BY <1>1, <1>2, <1>3, <1>5 DEF State
<1>7. /\ d.highest = h /\ d.spent = c.spent /\ d.settledOnChain = c.settledOnChain
      /\ d.finalized = c.finalized /\ d.markers = c.markers
  BY <1>1, <1>5 DEF State
<1> QED
  BY <1>2, <1>6, <1>7 DEF Within, Kept, State, d

\* Raising the credit floor touches nothing else.
LEMMA ClaimKeeps ==
    ASSUME NEW c \in State, NEW a \in Nat, NEW e \in Nat, NEW now \in Nat
    PROVE  LET d == claimSettlement(c, a, e, now)
           IN  /\ d \in State
               /\ d.settledOnChain = c.settledOnChain
               /\ Within(c) => Within(d)
               /\ Kept(c, d)
<1> DEFINE p == IF c.pendingSettlement.expiresAt > now
                THEN [amount    |-> keepGreater(c.pendingSettlement.amount, a),
                      expiresAt |-> keepGreater(c.pendingSettlement.expiresAt, e)]
                ELSE [amount |-> a, expiresAt |-> e]
<1>1. p \in [amount : Nat, expiresAt : Nat]
  BY KeepGreaterNat DEF State
<1>2. claimSettlement(c, a, e, now) = [c EXCEPT !.pendingSettlement = p]
  BY DEF claimSettlement, State
<1> DEFINE d == [c EXCEPT !.pendingSettlement = p]
<1> HIDE DEF p
<1>3. d \in State
  BY <1>1 DEF State
<1>4. /\ d.spent = c.spent /\ d.highest = c.highest
      /\ d.settledOnChain = c.settledOnChain
      /\ d.finalized = c.finalized /\ d.markers = c.markers
  BY DEF State
<1> QED
  BY <1>2, <1>3, <1>4 DEF State, Within, Kept

\* So does dropping it.
LEMMA ReleaseKeeps ==
    ASSUME NEW c \in State, NEW a \in Nat, NEW e \in Nat
    PROVE  LET d == releaseSettlement(c, a, e)
           IN  /\ d \in State
               /\ d.settledOnChain = c.settledOnChain
               /\ Within(c) => Within(d)
               /\ Kept(c, d)
BY DEF releaseSettlement, NoPending, State, Within, Kept

\* Recording a settlement raises settledOnChain to it.
LEMMA CheckpointKeeps ==
    ASSUME NEW c \in State, NEW n \in Nat
    PROVE  LET d == checkpointSettlement(c, n)
           IN  /\ d \in State
               /\ d.settledOnChain = keepGreater(c.settledOnChain, n)
               /\ Within(c) => Within(d)
               /\ Kept(c, d)
<1> DEFINE settled == keepGreater(c.settledOnChain, n)
           p == IF c.pendingSettlement.amount > settled
                THEN c.pendingSettlement ELSE NoPending
           r == {v \in c.retained : v > settled}
<1>1. settled \in Nat /\ settled >= c.settledOnChain
  BY KeepGreaterNat DEF State
<1>2. p \in [amount : Nat, expiresAt : Nat] /\ r \in SUBSET Nat
  BY DEF State, NoPending
<1>3. checkpointSettlement(c, n) =
        [c EXCEPT !.settledOnChain = settled, !.pendingSettlement = p, !.retained = r]
  BY DEF checkpointSettlement, State
<1> DEFINE d == [c EXCEPT !.settledOnChain = settled, !.pendingSettlement = p,
                          !.retained = r]
<1> HIDE DEF p, r, settled
<1>4. d \in State
  BY <1>1, <1>2 DEF State
<1>5. /\ d.spent = c.spent /\ d.highest = c.highest
      /\ d.settledOnChain = settled
      /\ d.finalized = c.finalized /\ d.markers = c.markers
  BY DEF State
<1>6. d.settledOnChain = keepGreater(c.settledOnChain, n)
  BY <1>5 DEF settled
<1> QED
  BY <1>1, <1>3, <1>4, <1>5, <1>6 DEF State, Within, Kept

\* Reconciling may only reopen the record.
LEMMA ReconcileKeeps ==
    ASSUME NEW c \in State, NEW now \in Int, NEW s \in ChainState
    PROVE  LET d == reconcileExpiredPendingClose(c, now, s)
           IN  /\ d \in State
               /\ d.settledOnChain = c.settledOnChain
               /\ d.spent = c.spent
               /\ Within(c) => Within(d)
               /\ Kept(c, d)
<1>1. CASE reconcileExpiredPendingClose(c, now, s) = c
  BY <1>1 DEF State, Kept
<1>2. CASE reconcileExpiredPendingClose(c, now, s) = [c EXCEPT !.closeRequestedAt = 0]
  BY <1>2 DEF State, Kept, Within
<1> QED
  BY <1>1, <1>2 DEF reconcileExpiredPendingClose

\* A marker touches nothing else.
LEMMA MarkKeeps ==
    ASSUME NEW c \in State, NEW now \in Nat
    PROVE  LET d == markPendingClose(c, now)
           IN  /\ d \in State
               /\ d.settledOnChain = c.settledOnChain
               /\ Within(c) => Within(d)
               /\ Kept(c, d)
BY DEF markPendingClose, State, Within, Kept

\* Neither does clearing it.
LEMMA ClearKeeps ==
    ASSUME NEW c \in State, NEW t \in Nat
    PROVE  LET d == clearPendingClose(c, t)
           IN  /\ d \in State
               /\ d.settledOnChain = c.settledOnChain
               /\ Within(c) => Within(d)
               /\ Kept(c, d)
BY DEF clearPendingClose, State, Within, Kept

\* A finalized record keeps what was charged and records the capture.
LEMMA FinalizeKeeps ==
    ASSUME NEW c \in State, NEW capture \in Nat, NEW v \in Nat
    PROVE  LET d == finalizeClosedChannelState(c, capture, v)
           IN  /\ d \in State
               /\ d.settledOnChain = keepGreater(c.settledOnChain, capture)
               /\ Within(c) => Within(d)
               /\ Kept(c, d)
<1>1. /\ keepGreater(c.settledOnChain, capture) \in Nat
      /\ keepGreater(c.settledOnChain, capture) >= c.settledOnChain
      /\ keepGreater(c.highest, v) \in Nat
      /\ keepGreater(c.highest, v) >= c.highest
  BY KeepGreaterNat DEF State
<1> DEFINE d == finalizeClosedChannelState(c, capture, v)
<1>2. d \in State
  BY <1>1 DEF finalizeClosedChannelState, State
<1>3. /\ d.spent = c.spent /\ d.finalized /\ d.markers = c.markers
      /\ d.highest = keepGreater(c.highest, v)
      /\ d.settledOnChain = keepGreater(c.settledOnChain, capture)
  BY DEF finalizeClosedChannelState, State
<1>4. c.spent \in Nat /\ c.highest \in Nat
  BY DEF State
<1> QED
  BY <1>1, <1>2, <1>3, <1>4 DEF Within, Kept

\* So does one finalized from the escrow's event.
LEMMA FinalizeFromEventKeeps ==
    ASSUME NEW c \in State, NEW paid \in Nat
    PROVE  LET d == finalizeFromEvent(c, paid)
           IN  /\ d \in State
               /\ d.settledOnChain \in {c.settledOnChain,
                                        keepGreater(c.settledOnChain, paid)}
               /\ Within(c) => Within(d)
               /\ Kept(c, d)
<1>1. /\ keepGreater(c.settledOnChain, paid) \in Nat
      /\ keepGreater(c.settledOnChain, paid) >= c.settledOnChain
  BY KeepGreaterNat DEF State
<1> DEFINE d == finalizeFromEvent(c, paid)
<1>2. CASE c.exists /\ ~c.finalized
  <2>1. d \in State
    BY <1>1, <1>2 DEF finalizeFromEvent, State
  <2>2. /\ d.spent = c.spent /\ d.finalized /\ d.markers = c.markers
        /\ d.highest = c.highest
        /\ d.settledOnChain = keepGreater(c.settledOnChain, paid)
    BY <1>2 DEF finalizeFromEvent, State
  <2> QED
    BY <1>1, <1>2, <2>1, <2>2 DEF Within, Kept, State
<1>3. CASE ~(c.exists /\ ~c.finalized)
  BY <1>3 DEF finalizeFromEvent, State, Kept
<1> QED
  BY <1>2, <1>3
-----------------------------------------------------------------------------
(* The server and the escrow around it *)

EscrowInv == clock \in Nat \ {0} /\ escrow \in Escrow

RecordInv == ch \in State /\ Within(ch) /\ ch.settledOnChain <= escrow.settled

\* An open is read back at its own block, before anything was settled.
OpenInv ==
    /\ opens \in [Opens -> OpenCall]
    /\ \A o \in Opens : opens[o].read.settled = 0

TopUpInv ==
    /\ topUps \in [TopUps -> TopUpCall]
    /\ \A t \in TopUps : topUps[t].read.settled <= escrow.settled

VoucherInv ==
    /\ vouchers \in [Vouchers -> VoucherCall]
    /\ \A r \in Vouchers :
          /\ vouchers[r].read.settled <= escrow.settled
          /\ vouchers[r].state.settled <= escrow.settled

SettleInv ==
    /\ settlements \in [Settlements -> SettleCall]
    /\ \A s \in Settlements :
          settlements[s].tx = "landed" => settlements[s].amount <= escrow.settled

CloseInv ==
    /\ closes \in [Closes -> CloseCall]
    /\ \A c \in Closes :
          /\ closes[c].read.settled <= escrow.settled
          /\ closes[c].pc \in {"idle", "read", "marked"} => closes[c].tx = "none"
          /\ closes[c].tx = "landed" => closes[c].capture <= escrow.settled

SuperviseInv ==
    /\ supervisors \in [Supervisors -> SuperviseCall]
    /\ \A p \in Supervisors :
          /\ supervisors[p].read.settled <= escrow.settled
          /\ supervisors[p].paid <= escrow.settled
          /\ supervisors[p].pc \in {"idle", "read", "closing"} => supervisors[p].tx = "none"
          /\ supervisors[p].tx = "landed" => supervisors[p].capture <= escrow.settled

IInv ==
    /\ EscrowInv
    /\ RecordInv
    /\ OpenInv
    /\ TopUpInv
    /\ VoucherInv
    /\ SettleInv
    /\ CloseInv
    /\ SuperviseInv

\* What a step may do to the escrow, and to the record.
EscrowGrows ==
    clock' \in Nat \ {0} /\ escrow' \in Escrow /\ escrow'.settled >= escrow.settled

RecordGrows == RecordInv' /\ Kept(ch, ch')

-----------------------------------------------------------------------------
(* What a step leaves alone stays as it was *)

LEMMA EscrowStays ==
    ASSUME EscrowInv, UNCHANGED <<clock, escrow>>
    PROVE  EscrowGrows
BY DEF EscrowInv, EscrowGrows, Escrow

LEMMA OthersStay ==
    ASSUME IInv, EscrowGrows
    PROVE  /\ EscrowInv'
           /\ UNCHANGED ch => RecordGrows
           /\ UNCHANGED opens => OpenInv'
           /\ UNCHANGED topUps => TopUpInv'
           /\ UNCHANGED vouchers => VoucherInv'
           /\ UNCHANGED settlements => SettleInv'
           /\ UNCHANGED closes => CloseInv'
           /\ UNCHANGED supervisors => SuperviseInv'
<1>1. /\ escrow.settled \in Nat /\ escrow'.settled \in Nat
      /\ escrow'.settled >= escrow.settled
  BY DEF IInv, EscrowInv, EscrowGrows, Escrow
<1>2. EscrowInv'
  BY DEF EscrowGrows, EscrowInv
<1>3. UNCHANGED ch => RecordGrows
  BY <1>1 DEF IInv, RecordInv, RecordGrows, State, Within, Kept
<1>4. UNCHANGED opens => OpenInv'
  BY DEF IInv, OpenInv
<1>5. UNCHANGED topUps => TopUpInv'
  BY <1>1 DEF IInv, TopUpInv, TopUpCall, ChainState
<1>6. UNCHANGED vouchers => VoucherInv'
  BY <1>1 DEF IInv, VoucherInv, VoucherCall, ChainState
<1>7. UNCHANGED settlements => SettleInv'
  BY <1>1 DEF IInv, SettleInv, SettleCall
<1>8. UNCHANGED closes => CloseInv'
  BY <1>1 DEF IInv, CloseInv, CloseCall, ChainState
<1>9. UNCHANGED supervisors => SuperviseInv'
  BY <1>1 DEF IInv, SuperviseInv, SuperviseCall, ChainState
<1> QED
  BY <1>2, <1>3, <1>4, <1>5, <1>6, <1>7, <1>8, <1>9

\* A read of the escrow is typed and within what it settled.
LEMMA EscrowReadOK ==
    ASSUME EscrowInv
    PROVE  EscrowRead \in ChainState /\ EscrowRead.settled <= escrow.settled
BY DEF EscrowInv, Escrow, EscrowRead, NoRead, ChainState

\* A close that pays at least what was settled closes the escrow.
LEMMA ClosedWithOK ==
    ASSUME EscrowInv, NEW capture \in Nat, capture >= escrow.settled
    PROVE  ClosedWith(capture) \in Escrow /\ ClosedWith(capture).settled >= escrow.settled
BY DEF EscrowInv, Escrow, ClosedWith

\* So do an open and a top-up leave the escrow typed, and what was settled alone.
LEMMA OpenedOK ==
    ASSUME NEW e \in Escrow, NEW d \in Nat
    PROVE  LET f == [e EXCEPT !.phase = "open", !.opened = d, !.deposit = d]
           IN  f \in Escrow /\ f.settled = e.settled
BY DEF Escrow

LEMMA DepositedOK ==
    ASSUME NEW e \in Escrow, NEW d \in Nat
    PROVE  LET f == [e EXCEPT !.deposit = @ + d, !.closeRequestedAt = 0]
           IN  f \in Escrow /\ f.settled = e.settled
<1> DEFINE n == e.deposit + d
<1>1. n \in Nat
  BY DEF Escrow
<1> HIDE DEF n
<1>2. LET f == [e EXCEPT !.deposit = n, !.closeRequestedAt = 0]
      IN  f \in Escrow /\ f.settled = e.settled
  BY <1>1 DEF Escrow
<1> QED
  BY <1>2 DEF n

LEMMA NoReadOK ==
    ASSUME EscrowInv
    PROVE  NoRead \in ChainState /\ NoRead.settled <= escrow.settled /\ NoRead.settled = 0
BY DEF EscrowInv, Escrow, NoRead, ChainState

-----------------------------------------------------------------------------
(* The escrow and the payer *)

LEMMA InitOK == Init => IInv
<1> SUFFICES ASSUME Init PROVE IInv
  OBVIOUS
<1>1. EscrowInv /\ escrow.settled = 0
  BY DEF Init, EscrowInv, Escrow
<1>2. RecordInv
  BY <1>1, NoRecordType DEF Init, RecordInv, NoRecord
<1>3. OpenInv /\ TopUpInv
  BY <1>1, NoReadOK DEF Init, OpenInv, TopUpInv, OpenCall, TopUpCall
<1>4. VoucherInv
  BY <1>1, NoReadOK DEF Init, VoucherInv, VoucherCall
<1>5. SettleInv
  BY <1>1 DEF Init, SettleInv, SettleCall, TxStates
<1>6. CloseInv
  BY <1>1, NoReadOK DEF Init, CloseInv, CloseCall, TxStates
<1>7. SuperviseInv
  BY <1>1, NoReadOK DEF Init, SuperviseInv, SuperviseCall, TxStates
<1> QED
  BY <1>1, <1>2, <1>3, <1>4, <1>5, <1>6, <1>7 DEF IInv

LEMMA TickOK ==
    ASSUME IInv, Tick
    PROVE  IInv' /\ Kept(ch, ch')
<1>1. EscrowGrows
  BY DEF IInv, EscrowInv, EscrowGrows, Tick, Escrow
<1> QED
  BY <1>1, OthersStay DEF Tick, calls, IInv, RecordGrows

LEMMA PayerOK ==
    ASSUME IInv, PayerStep
    PROVE  IInv' /\ Kept(ch, ch')
<1>1. CASE PayerRequestClose
  <2>1. EscrowGrows
    <3>1. PICK t \in BlockTimes : escrow' = [escrow EXCEPT !.closeRequestedAt = t]
      BY <1>1 DEF PayerRequestClose
    <3>2. t \in Nat
      BY DEF BlockTimes
    <3> QED
      BY <1>1, <3>1, <3>2 DEF PayerRequestClose, IInv, EscrowInv, EscrowGrows, Escrow
  <2> QED
    BY <1>1, <2>1, OthersStay DEF PayerRequestClose, calls, IInv, RecordGrows
<1>2. CASE PayerWithdraw
  <2>1. EscrowGrows
    <3>1. EscrowInv /\ escrow.settled \in Nat
      BY DEF IInv, EscrowInv, Escrow
    <3> QED
      BY <1>2, <3>1, ClosedWithOK DEF PayerWithdraw, EscrowInv, EscrowGrows
  <2> QED
    BY <1>2, <2>1, OthersStay DEF PayerWithdraw, calls, IInv, RecordGrows
<1> QED
  BY <1>1, <1>2 DEF PayerStep

-----------------------------------------------------------------------------
(* Opens, top-ups, charges and credits *)

LEMMA OpenOK ==
    ASSUME IInv, NEW o \in Opens, OpenLand(o) \/ OpenReplay(o) \/ OpenStore(o)
    PROVE  IInv' /\ Kept(ch, ch')
<1>1. OpenInv /\ opens[o] \in OpenCall /\ EscrowInv /\ RecordInv
  BY DEF IInv, OpenInv
<1>2. CASE OpenLand(o)
  <2>1. PICK amount \in VoucherAmounts, deposit \in Deposits, requireAdvance \in BOOLEAN :
          /\ escrow' = [escrow EXCEPT !.phase = "open", !.opened = deposit,
                                      !.deposit = deposit]
          /\ opens' = [opens EXCEPT ![o] =
                [pc |-> "landed", amount |-> amount, requireAdvance |-> requireAdvance,
                 read |-> [deposit |-> deposit, settled |-> 0, closeRequestedAt |-> 0]]]
    BY <1>2 DEF OpenLand
  <2>2. amount \in Nat /\ deposit \in Nat
    BY ChannelConstants
  <2>3. EscrowGrows
    <3>1. clock' = clock
      BY <1>2 DEF OpenLand
    <3>2. escrow \in Escrow /\ clock \in Nat \ {0}
      BY <1>1 DEF EscrowInv
    <3>3. escrow' \in Escrow /\ escrow'.settled = escrow.settled
      BY <2>1, <2>2, <3>2, OpenedOK
    <3>4. escrow.settled \in Nat
      BY <3>2 DEF Escrow
    <3> QED
      BY <3>1, <3>2, <3>3, <3>4 DEF EscrowGrows
  <2>4. OpenInv'
    BY <1>1, <2>1, <2>2 DEF OpenInv, OpenCall, ChainState
  <2> QED
    BY <1>2, <2>3, <2>4, OthersStay DEF OpenLand, IInv, RecordGrows
<1>3. CASE OpenReplay(o)
  <2>1. PICK amount \in VoucherAmounts, requireAdvance \in BOOLEAN :
          opens' = [opens EXCEPT ![o] =
                [pc |-> "landed", amount |-> amount, requireAdvance |-> requireAdvance,
                 read |-> [deposit |-> escrow.opened, settled |-> 0,
                           closeRequestedAt |-> 0]]]
    BY <1>3 DEF OpenReplay
  <2>2. amount \in Nat /\ escrow.opened \in Nat
    BY <1>1, ChannelConstants DEF EscrowInv, Escrow
  <2>3. EscrowGrows
    BY <1>1, <1>3, EscrowStays DEF OpenReplay
  <2>4. OpenInv'
    BY <1>1, <2>1, <2>2 DEF OpenInv, OpenCall, ChainState
  <2> QED
    BY <1>3, <2>3, <2>4, OthersStay DEF OpenReplay, IInv, RecordGrows
<1>4. CASE OpenStore(o)
  <2>1. EscrowGrows
    BY <1>1, <1>4, EscrowStays DEF OpenStore
  <2>2. /\ opens[o].amount \in Nat /\ opens[o].read \in ChainState
        /\ opens[o].read.settled = 0
    BY <1>1 DEF OpenInv, OpenCall
  <2>3. RecordGrows
    <3>1. CASE UNCHANGED ch
      BY <2>1, <3>1, OthersStay
    <3>2. CASE ch' = openChannelState(ch, opens[o].amount, opens[o].read)
      <4>1. escrow' = escrow
        BY <1>4 DEF OpenStore
      <4> QED
        BY <1>1, <2>2, <3>2, <4>1, OpenKeeps DEF RecordInv, RecordGrows
    <3>3. CASE opens[o].requireAdvance /\ ch.exists /\ opens[o].amount <= ch.highest
      BY <1>4, <3>1, <3>3 DEF OpenStore
    <3>4. CASE ~(opens[o].requireAdvance /\ ch.exists /\ opens[o].amount <= ch.highest)
      BY <1>4, <3>2, <3>4 DEF OpenStore
    <3> QED
      BY <3>3, <3>4
  <2>4. OpenInv'
    BY <1>1, <1>4 DEF OpenStore, OpenInv, OpenCall
  <2> QED
    BY <1>4, <2>1, <2>3, <2>4, OthersStay DEF OpenStore, IInv, RecordGrows
<1> QED
  BY <1>2, <1>3, <1>4

LEMMA TopUpOK ==
    ASSUME IInv, NEW t \in TopUps, TopUpLand(t) \/ TopUpStore(t)
    PROVE  IInv' /\ Kept(ch, ch')
<1>1. TopUpInv /\ topUps[t] \in TopUpCall /\ EscrowInv /\ RecordInv
  BY DEF IInv, TopUpInv
<1>2. CASE TopUpLand(t)
  <2>1. PICK amount \in Deposits :
          escrow' = [escrow EXCEPT !.deposit = @ + amount, !.closeRequestedAt = 0]
    BY <1>2 DEF TopUpLand
  <2>2. EscrowGrows /\ escrow'.settled = escrow.settled
    <3>1. clock' = clock
      BY <1>2 DEF TopUpLand
    <3>2. escrow \in Escrow /\ clock \in Nat \ {0} /\ amount \in Nat
      BY <1>1, ChannelConstants DEF EscrowInv
    <3>3. escrow' \in Escrow /\ escrow'.settled = escrow.settled
      BY <2>1, <3>2, DepositedOK
    <3>4. escrow.settled \in Nat
      BY <3>2 DEF Escrow
    <3> QED
      BY <3>1, <3>2, <3>3, <3>4 DEF EscrowGrows
  <2>3. [deposit |-> escrow'.deposit, settled |-> escrow.settled,
         closeRequestedAt |-> 0] \in ChainState
    <3>1. escrow.settled \in Nat /\ escrow'.deposit \in Nat
      BY <1>1, <2>2 DEF EscrowGrows, EscrowInv, Escrow
    <3> QED
      BY <3>1 DEF ChainState
  <2>4. TopUpInv'
    <3> DEFINE read == [deposit |-> escrow'.deposit, settled |-> escrow.settled,
                        closeRequestedAt |-> 0]
    <3>1. topUps' = [topUps EXCEPT ![t] = [pc |-> "landed", read |-> read]]
      BY <1>2 DEF TopUpLand
    <3>2. escrow.settled \in Nat /\ read.settled = escrow.settled /\ read \in ChainState
      BY <1>1, <2>3 DEF EscrowInv, Escrow
    <3> HIDE DEF read
    <3> QED
      BY <1>1, <2>2, <3>1, <3>2 DEF TopUpInv, TopUpCall
  <2> QED
    BY <1>2, <2>2, <2>4, OthersStay DEF TopUpLand, IInv, RecordGrows
<1>3. CASE TopUpStore(t)
  <2>1. EscrowGrows /\ escrow'.settled = escrow.settled
    BY <1>1, <1>3, EscrowStays DEF TopUpStore
  <2>2. topUps[t].read \in ChainState /\ topUps[t].read.settled <= escrow.settled
    BY <1>1 DEF TopUpInv, TopUpCall
  <2>3. RecordGrows
    BY <1>1, <1>3, <2>1, <2>2, TopUpKeeps
    DEF TopUpStore, RecordInv, RecordGrows, keepGreater
  <2>4. TopUpInv'
    BY <1>1, <1>3 DEF TopUpStore, TopUpInv, TopUpCall
  <2> QED
    BY <1>3, <2>1, <2>3, <2>4, OthersStay DEF TopUpStore, IInv, RecordGrows
<1> QED
  BY <1>2, <1>3

LEMMA AccountingOK ==
    ASSUME IInv, AccountingStep
    PROVE  IInv' /\ Kept(ch, ch')
<1>1. PICK amount \in Charges :
        Charge(amount) \/ \E key \in CreditKeys : Credit(key, amount)
  BY DEF AccountingStep
<1>2. amount \in Nat /\ RecordInv /\ EscrowInv
  BY ChannelConstants DEF IInv
<1>3. CASE Charge(amount)
  <2>1. EscrowGrows
    BY <1>2, <1>3, EscrowStays DEF Charge
  <2>2. RecordGrows
    BY <1>2, <1>3, DeductKeeps DEF Charge, RecordInv, RecordGrows
  <2> QED
    BY <1>3, <2>1, <2>2, OthersStay DEF Charge, calls, IInv, RecordGrows
<1>4. ASSUME NEW key \in CreditKeys, Credit(key, amount)
      PROVE  IInv' /\ Kept(ch, ch')
  <2>1. EscrowGrows
    BY <1>2, <1>4, EscrowStays DEF Credit
  <2>2. RecordGrows
    BY <1>2, <1>4, CreditKeeps DEF Credit, RecordInv, RecordGrows, EscrowInv
  <2> QED
    BY <1>4, <2>1, <2>2, OthersStay DEF Credit, calls, IInv, RecordGrows
<1> QED
  BY <1>1, <1>3, <1>4

-----------------------------------------------------------------------------
(* Vouchers *)

\* A call that ends keeps at most its read.
LEMMA FinishedOK ==
    ASSUME IInv, UNCHANGED escrow, NEW r \in Vouchers,
           NEW pc \in {"accepted", "refused"}, NEW background \in BOOLEAN,
           vouchers' = Finished(r, pc, background)
    PROVE  VoucherInv'
<1> DEFINE read == IF background THEN vouchers[r].read ELSE NoRead
           readAt == IF background THEN vouchers[r].readAt ELSE 0
<1>1. VoucherInv /\ EscrowInv /\ vouchers[r] \in VoucherCall
  BY DEF IInv, VoucherInv
<1>2. NoRead \in ChainState /\ NoRead.settled <= escrow.settled
  BY <1>1, NoReadOK
<1>3. read \in ChainState /\ read.settled <= escrow.settled /\ readAt \in Nat
  BY <1>1, <1>2 DEF VoucherInv, VoucherCall
<1> DEFINE v == [vouchers[r] EXCEPT
          !.pc = pc, !.state = NoRead, !.highest = 0, !.closing = FALSE,
          !.background = background, !.read = read, !.readAt = readAt]
<1>4. vouchers' = [vouchers EXCEPT ![r] = v]
  BY <1>1 DEF Finished, VoucherInv, VoucherCall
<1> HIDE DEF read, readAt
<1>5. /\ v \in VoucherCall
      /\ v.read.settled <= escrow.settled /\ v.state.settled <= escrow.settled
  BY <1>1, <1>2, <1>3 DEF VoucherCall
<1> HIDE DEF v
<1> QED
  BY <1>1, <1>4, <1>5 DEF VoucherInv

LEMMA RefusedOK ==
    ASSUME IInv, EscrowGrows, UNCHANGED escrow, NEW r \in Vouchers, VoucherRefused(r)
    PROVE  VoucherInv' /\ RecordGrows
<1>1. vouchers[r].background \in BOOLEAN
  BY DEF IInv, VoucherInv, VoucherCall
<1> QED
  BY <1>1, FinishedOK, OthersStay DEF VoucherRefused

LEMMA AcceptInOK ==
    ASSUME IInv, EscrowGrows, UNCHANGED escrow, NEW r \in Vouchers,
           NEW state \in ChainState, state.settled <= escrow.settled,
           NEW background \in BOOLEAN, AcceptIn(r, state, background)
    PROVE  VoucherInv' /\ RecordGrows
<1> DEFINE v == vouchers[r]
           accepted == acceptVoucherStateUpdate(ch, v.amount, state)
<1>1. /\ v \in VoucherCall /\ RecordInv /\ v.amount \in Nat /\ v.charge \in Nat
      /\ v.background \in BOOLEAN
  BY DEF IInv, VoucherInv, VoucherCall
<1>2. CASE VoucherRefused(r)
  BY <1>2, RefusedOK
<1>3. CASE /\ ch' = planVoucherAcceptance(accepted, v.charge)
           /\ \/ vouchers' = Finished(r, "accepted", background)
              \/ vouchers' = Finished(r, "refused", v.background)
  <2>1. /\ accepted \in State /\ Within(accepted)
        /\ accepted.settledOnChain = keepGreater(ch.settledOnChain, state.settled)
        /\ Kept(ch, accepted)
    BY <1>1, AcceptKeeps DEF RecordInv
  <2> HIDE DEF accepted
  <2>2. /\ ch' \in State /\ Within(ch')
        /\ ch'.settledOnChain = accepted.settledOnChain
        /\ Kept(accepted, ch')
    BY <1>1, <1>3, <2>1, AcceptanceKeeps
  <2>3. Kept(ch, ch')
    BY <1>1, <2>1, <2>2 DEF Kept, State, RecordInv
  <2>4. ch'.settledOnChain <= escrow'.settled
    BY <1>1, <2>1, <2>2 DEF keepGreater, RecordInv
  <2>5. VoucherInv'
    BY <1>1, <1>3, FinishedOK
  <2> QED
    BY <2>2, <2>3, <2>4, <2>5 DEF RecordGrows, RecordInv
<1> QED
  BY <1>2, <1>3 DEF AcceptIn

LEMMA VoucherOK ==
    ASSUME IInv, NEW r \in Vouchers,
           \/ VoucherRead(r) \/ VoucherOneUpdate(r) \/ VoucherBackground(r)
           \/ VoucherLoad(r) \/ VoucherLoadStored(r) \/ VoucherReconcile(r)
           \/ VoucherRecordClose(r) \/ VoucherAccept(r)
    PROVE  IInv' /\ Kept(ch, ch')
<1>1. /\ VoucherInv /\ EscrowInv /\ RecordInv /\ vouchers[r] \in VoucherCall
      /\ vouchers[r].read \in ChainState /\ vouchers[r].read.settled <= escrow.settled
      /\ vouchers[r].state \in ChainState /\ vouchers[r].state.settled <= escrow.settled
      /\ vouchers[r].background \in BOOLEAN
      /\ NoRead \in ChainState /\ NoRead.settled <= escrow.settled
      /\ clock \in Nat /\ escrow.settled \in Nat
  BY NoReadOK DEF IInv, VoucherInv, VoucherCall, EscrowInv, Escrow
<1>2. VoucherUnchanged
  BY DEF VoucherRead, VoucherOneUpdate, VoucherBackground, VoucherLoad,
         VoucherLoadStored, VoucherReconcile, VoucherRecordClose, VoucherAccept
<1>3. EscrowGrows /\ UNCHANGED escrow
  BY <1>1, <1>2, EscrowStays DEF VoucherUnchanged
<1>4. SUFFICES VoucherInv' /\ RecordGrows
  BY <1>2, <1>3, OthersStay DEF VoucherUnchanged, IInv, RecordGrows
<1>5. CASE VoucherRead(r)
  <2>1. PICK amount \in VoucherAmounts, charge \in Charges \cup {0}, advance \in BOOLEAN :
          vouchers' = [vouchers EXCEPT ![r] =
             [pc |-> "read", amount |-> amount, charge |-> charge,
              requireAdvance |-> advance, read |-> EscrowRead, readAt |-> clock,
              background |-> FALSE, state |-> NoRead, highest |-> 0, closing |-> FALSE]]
    BY <1>5 DEF VoucherRead
  <2>2. amount \in Nat /\ charge \in Nat
    BY ChannelConstants
  <2>3. EscrowRead \in ChainState /\ EscrowRead.settled <= escrow.settled
    BY <1>1, EscrowReadOK
  <2>4. VoucherInv'
    BY <1>1, <1>3, <2>1, <2>2, <2>3 DEF VoucherInv, VoucherCall
  <2> QED
    BY <1>3, <1>5, <2>4, OthersStay DEF VoucherRead
<1>6. CASE VoucherOneUpdate(r)
  <2> DEFINE stored == storedChannelState(ch)
  <2>1. stored \in ChainState /\ stored.settled <= escrow.settled
    BY <1>1 DEF storedChannelState, ChainState, RecordInv, State
  <2>2. \/ VoucherRefused(r)
        \/ vouchers' = Finished(r, "accepted", TRUE) /\ UNCHANGED ch
        \/ AcceptIn(r, stored, TRUE)
    BY <1>6 DEF VoucherOneUpdate
  <2> HIDE DEF stored
  <2> QED
    BY <1>3, <2>1, <2>2, RefusedOK, FinishedOK, AcceptInOK, OthersStay
<1>7. CASE VoucherBackground(r)
  <2>1. VoucherInv'
    <3>1. vouchers' = [vouchers EXCEPT ![r].background = FALSE, ![r].read = NoRead,
                                       ![r].readAt = 0]
      BY <1>7 DEF VoucherBackground
    <3> QED
      BY <1>1, <1>3, <3>1 DEF VoucherInv, VoucherCall
  <2>2. \/ UNCHANGED ch
        \/ ch' = pendingCloseState(ch, vouchers[r].read)
        \/ ch' = backgroundReadState(ch, vouchers[r].read)
    BY <1>7 DEF VoucherBackground
  <2>3. RecordGrows
    <3>1. CASE UNCHANGED ch
      BY <1>3, <3>1, OthersStay
    <3>2. CASE ch' = pendingCloseState(ch, vouchers[r].read)
      BY <1>1, <1>3, <3>2, PendingCloseKeeps DEF RecordGrows, RecordInv, keepGreater
    <3>3. CASE ch' = backgroundReadState(ch, vouchers[r].read)
      BY <1>1, <1>3, <3>3, BackgroundKeeps DEF RecordGrows, RecordInv, keepGreater
    <3> QED
      BY <2>2, <3>1, <3>2, <3>3
  <2> QED
    BY <2>1, <2>3
<1>8. CASE VoucherLoad(r)
  <2>1. CASE VoucherRefused(r)
    BY <1>3, <2>1, RefusedOK
  <2>2. CASE /\ vouchers' = [vouchers EXCEPT
                   ![r].pc = "loaded", ![r].highest = ch.highest,
                   ![r].closing = (ch.closeRequestedAt # 0)]
             /\ UNCHANGED ch
    <3>1. ch.highest \in Nat /\ (ch.closeRequestedAt # 0) \in BOOLEAN
      BY <1>1 DEF RecordInv, State
    <3>2. VoucherInv'
      BY <1>1, <1>3, <2>2, <3>1 DEF VoucherInv, VoucherCall
    <3> QED
      BY <1>3, <2>2, <3>2, OthersStay
  <2> QED
    BY <1>8, <2>1, <2>2 DEF VoucherLoad
<1>9. CASE VoucherLoadStored(r)
  <2> DEFINE stored == storedChannelState(ch)
  <2>1. stored \in ChainState /\ stored.settled <= escrow.settled /\ ch.highest \in Nat
    BY <1>1 DEF storedChannelState, ChainState, RecordInv, State
  <2>2. /\ vouchers' = [vouchers EXCEPT
               ![r].pc = "stored", ![r].highest = ch.highest,
               ![r].state = stored, ![r].background = TRUE]
        /\ UNCHANGED ch
    BY <1>9 DEF VoucherLoadStored
  <2> HIDE DEF stored
  <2>3. VoucherInv'
    BY <1>1, <1>3, <2>1, <2>2 DEF VoucherInv, VoucherCall
  <2> QED
    BY <1>3, <2>2, <2>3, OthersStay
<1>10. CASE VoucherReconcile(r)
  <2>1. PICK next \in {"recordClose", "checked"} :
          \/ vouchers' = [vouchers EXCEPT ![r].pc = next, ![r].state = vouchers[r].read,
                                          ![r].highest = ch.highest]
          \/ vouchers' = [vouchers EXCEPT ![r].pc = next, ![r].state = vouchers[r].read]
    BY <1>10 DEF VoucherReconcile
  <2>2. ch.highest \in Nat
    BY <1>1 DEF RecordInv, State
  <2>3. VoucherInv'
    BY <1>1, <1>3, <2>1, <2>2 DEF VoucherInv, VoucherCall
  <2>4. UNCHANGED ch \/ ch' = reconcileExpiredPendingClose(ch, clock, vouchers[r].read)
    BY <1>10 DEF VoucherReconcile
  <2>5. RecordGrows
    BY <1>1, <1>3, <2>4, ReconcileKeeps, OthersStay DEF RecordGrows, RecordInv
  <2> QED
    BY <2>3, <2>5
<1>11. CASE VoucherRecordClose(r)
  <2>1. VoucherInv'
    BY <1>3, <1>11, FinishedOK DEF VoucherRecordClose
  <2>2. RecordGrows
    BY <1>1, <1>3, <1>11, PendingCloseKeeps
    DEF VoucherRecordClose, RecordGrows, RecordInv, keepGreater
  <2> QED
    BY <2>1, <2>2
<1>12. CASE VoucherAccept(r)
  <2>1. \/ VoucherRefused(r)
        \/ vouchers' = Finished(r, "accepted", vouchers[r].background) /\ UNCHANGED ch
        \/ AcceptIn(r, vouchers[r].state, vouchers[r].background)
    BY <1>12 DEF VoucherAccept
  <2> QED
    BY <1>1, <1>3, <2>1, RefusedOK, FinishedOK, AcceptInOK, OthersStay
<1> QED
  BY <1>5, <1>6, <1>7, <1>8, <1>9, <1>10, <1>11, <1>12

-----------------------------------------------------------------------------
(* Settlements *)

LEMMA SettleOK ==
    ASSUME IInv, NEW s \in Settlements,
           \/ SettleClaim(s) \/ SettleSend(s) \/ SettleMine(s)
           \/ SettleCheckpoint(s) \/ SettleRelease(s)
    PROVE  IInv' /\ Kept(ch, ch')
<1>1. /\ SettleInv /\ EscrowInv /\ RecordInv /\ settlements[s] \in SettleCall
      /\ settlements[s].amount \in Nat /\ settlements[s].validBefore \in Nat
      /\ clock \in Nat /\ escrow.settled \in Nat
      /\ Validity \in Nat /\ ClockSkew \in Nat
  BY RecordConstants DEF IInv, SettleInv, SettleCall, EscrowInv, Escrow
<1>2. SettlementUnchanged
  BY DEF SettleClaim, SettleSend, SettleMine, SettleCheckpoint, SettleRelease
<1>3. UNCHANGED escrow => EscrowGrows
  BY <1>1, <1>2, EscrowStays DEF SettlementUnchanged
<1>4. SUFFICES EscrowGrows /\ SettleInv' /\ RecordGrows
  BY <1>2, OthersStay DEF SettlementUnchanged, IInv, RecordGrows
<1>5. CASE SettleClaim(s)
  <2>1. PICK v \in ch.retained \cup {ch.highest}, now \in 1 .. clock :
          /\ ch' = claimSettlement(ch, v, now + Validity + ClockSkew, clock)
          /\ settlements' = [settlements EXCEPT ![s] =
                [pc |-> "claimed", amount |-> v, validBefore |-> now + Validity,
                 tx |-> "none"]]
    BY <1>5 DEF SettleClaim
  <2>2. v \in Nat /\ now + Validity \in Nat
    BY <1>1 DEF RecordInv, State
  <2>3. SettleInv'
    BY <1>1, <1>5, <2>1, <2>2 DEF SettleClaim, SettleInv, SettleCall, TxStates
  <2>4. RecordGrows
    <3> DEFINE expiresAt == now + Validity + ClockSkew
               d == claimSettlement(ch, v, expiresAt, clock)
    <3>1. expiresAt \in Nat
      BY <1>1
    <3>2. ch' = d
      BY <2>1
    <3> HIDE DEF expiresAt
    <3>3. /\ d \in State /\ d.settledOnChain = ch.settledOnChain
          /\ Within(ch) => Within(d)
          /\ Kept(ch, d)
      <4>1. ch \in State /\ clock \in Nat
        BY <1>1 DEF RecordInv
      <4> QED
        BY <2>2, <3>1, <4>1, ClaimKeeps
    <3>4. /\ ch' \in State /\ ch'.settledOnChain = ch.settledOnChain
          /\ Within(ch') /\ Kept(ch, ch')
      BY <1>1, <3>2, <3>3 DEF RecordInv
    <3> QED
      BY <1>1, <1>5, <3>4 DEF SettleClaim, RecordGrows, RecordInv
  <2> QED
    BY <1>3, <1>5, <2>3, <2>4 DEF SettleClaim
<1>6. CASE SettleSend(s)
  <2>1. SettleInv'
    BY <1>1, <1>6 DEF SettleSend, SettleInv, SettleCall, TxStates
  <2> QED
    BY <1>3, <1>6, <2>1, OthersStay DEF SettleSend
<1>7. CASE SettleMine(s)
  <2>1. CASE EscrowSettles(settlements[s].amount)
    <3>1. /\ escrow' = [escrow EXCEPT !.settled = settlements[s].amount]
          /\ settlements' = [settlements EXCEPT ![s].tx = "landed"]
      BY <1>7, <2>1 DEF SettleMine
    <3>2. EscrowGrows /\ escrow'.settled = settlements[s].amount
      BY <1>1, <1>2, <2>1, <3>1
      DEF EscrowSettles, EscrowGrows, EscrowInv, Escrow, SettlementUnchanged
    <3>3. escrow'.settled >= escrow.settled
      BY <3>2 DEF EscrowGrows
    <3>4. SettleInv'
      BY <1>1, <3>1, <3>2, <3>3 DEF SettleInv, SettleCall, TxStates
    <3> QED
      BY <1>7, <3>2, <3>4, OthersStay DEF SettleMine
  <2>2. CASE ~EscrowSettles(settlements[s].amount)
    <3>1. SettleInv'
      BY <1>1, <1>7, <2>2 DEF SettleMine, SettleInv, SettleCall, TxStates
    <3> QED
      BY <1>3, <1>7, <2>2, <3>1, OthersStay DEF SettleMine
  <2> QED
    BY <2>1, <2>2
<1>8. CASE SettleCheckpoint(s)
  <2>1. SettleInv'
    BY <1>1, <1>8 DEF SettleCheckpoint, SettleInv, SettleCall, TxStates
  <2>2. settlements[s].amount <= escrow.settled
    BY <1>1, <1>8 DEF SettleCheckpoint, SettleInv
  <2>3. RecordGrows
    BY <1>1, <1>8, <2>2, CheckpointKeeps
    DEF SettleCheckpoint, RecordGrows, RecordInv, keepGreater
  <2> QED
    BY <1>3, <1>8, <2>1, <2>3 DEF SettleCheckpoint
<1>9. CASE SettleRelease(s)
  <2>1. SettleInv'
    BY <1>1, <1>9 DEF SettleRelease, SettleInv, SettleCall, TxStates
  <2>2. RecordGrows
    <3>1. settlements[s].validBefore + ClockSkew \in Nat
      BY <1>1
    <3>2. /\ ch' \in State /\ ch'.settledOnChain = ch.settledOnChain
          /\ Within(ch') /\ Kept(ch, ch')
      BY <1>1, <1>9, <3>1, ReleaseKeeps DEF SettleRelease, RecordInv
    <3> QED
      BY <1>1, <1>9, <3>2 DEF SettleRelease, RecordGrows, RecordInv
  <2> QED
    BY <1>3, <1>9, <2>1, <2>2 DEF SettleRelease
<1> QED
  BY <1>5, <1>6, <1>7, <1>8, <1>9

-----------------------------------------------------------------------------
(* Closes *)

LEMMA CloseOK ==
    ASSUME IInv, NEW c \in Closes,
           \/ CloseRead(c) \/ CloseMark(c) \/ CloseSend(c) \/ CloseMine(c)
           \/ CloseFinalize(c) \/ CloseFail(c)
    PROVE  IInv' /\ Kept(ch, ch')
<1>1. /\ CloseInv /\ EscrowInv /\ RecordInv /\ closes[c] \in CloseCall
      /\ closes[c].amount \in Nat /\ closes[c].capture \in Nat
      /\ closes[c].startedAt \in Nat /\ closes[c].readAt \in Nat
      /\ closes[c].read \in ChainState /\ closes[c].read.settled <= escrow.settled
      /\ clock \in Nat /\ escrow.settled \in Nat
  BY DEF IInv, CloseInv, CloseCall, EscrowInv, Escrow
<1>2. CloseUnchanged
  BY DEF CloseRead, CloseMark, CloseSend, CloseMine, CloseFinalize, CloseFail
<1>3. UNCHANGED escrow => EscrowGrows
  BY <1>1, <1>2, EscrowStays DEF CloseUnchanged
<1>4. SUFFICES EscrowGrows /\ CloseInv' /\ RecordGrows
  BY <1>2, OthersStay DEF CloseUnchanged, IInv, RecordGrows
<1>5. CASE CloseRead(c)
  <2>1. PICK amount \in VoucherAmounts \cup {0} :
          closes' = [closes EXCEPT ![c] =
                [pc |-> "read", amount |-> amount, capture |-> 0, read |-> EscrowRead,
                 readAt |-> clock, startedAt |-> 0, tx |-> "none"]]
    BY <1>5 DEF CloseRead
  <2>2. amount \in Nat
    BY ChannelConstants
  <2>3. EscrowRead \in ChainState /\ EscrowRead.settled <= escrow.settled
    BY <1>1, EscrowReadOK
  <2>4. CloseInv'
    BY <1>1, <1>5, <2>1, <2>2, <2>3 DEF CloseRead, CloseInv, CloseCall, TxStates
  <2> QED
    BY <1>3, <1>5, <2>4, OthersStay DEF CloseRead
<1>6. CASE CloseMark(c)
  <2> DEFINE current(now) == reconcileExpiredPendingClose(ch, now, closes[c].read)
  <2>1. PICK now \in closes[c].readAt .. clock :
          IF CanMarkPendingClose(current(now), closes[c].amount, closes[c].read)
          THEN /\ ch' = markPendingClose(current(now), now)
               /\ closes' = [closes EXCEPT
                     ![c].pc = "marked", ![c].startedAt = now,
                     ![c].read = NoRead, ![c].readAt = 0,
                     ![c].capture = closeCaptureAmount(current(now).spent, closes[c].read)]
          ELSE closes' = [closes EXCEPT ![c].pc = "failed"] /\ UNCHANGED ch
    BY <1>6 DEF CloseMark
  <2>2. now \in Nat
    BY <1>1
  <2>3. /\ current(now) \in State /\ Within(current(now))
        /\ current(now).settledOnChain = ch.settledOnChain
        /\ Kept(ch, current(now))
    BY <1>1, <2>2, ReconcileKeeps DEF RecordInv
  <2>4. closeCaptureAmount(current(now).spent, closes[c].read) \in Nat
    BY <1>1, <2>3, KeepGreaterNat DEF closeCaptureAmount, State, ChainState
  <2>5. NoRead \in ChainState /\ NoRead.settled <= escrow.settled
    BY <1>1, NoReadOK
  <2> DEFINE cur == current(now)
             cap == closeCaptureAmount(current(now).spent, closes[c].read)
  <2>6. CASE /\ ch' = markPendingClose(cur, now)
             /\ closes' = [closes EXCEPT
                   ![c].pc = "marked", ![c].startedAt = now, ![c].read = NoRead,
                   ![c].readAt = 0, ![c].capture = cap]
             /\ closes[c].pc = "read"
    <3> HIDE DEF cur, cap
    <3>1. cap \in Nat /\ closes[c].tx \in TxStates
      BY <1>1, <2>4 DEF cap, CloseCall
    <3>2. closes'[c].tx = "landed" => closes'[c].capture <= escrow.settled
      BY <1>1, <2>6 DEF CloseInv, CloseCall
    <3>3. CloseInv'
      <4>1. closes' \in [Closes -> CloseCall]
        BY <1>1, <2>2, <2>5, <2>6, <3>1 DEF CloseInv, CloseCall
      <4>2. /\ closes'[c].read.settled <= escrow.settled /\ closes'[c].tx = "none"
            /\ \A d \in Closes \ {c} : closes'[d] = closes[d]
        BY <1>1, <2>5, <2>6 DEF CloseInv, CloseCall
      <4> QED
        BY <1>1, <1>6, <3>2, <4>1, <4>2 DEF CloseMark, CloseInv
    <3>4. RecordGrows
      <4>1. /\ cur \in State /\ Within(cur) /\ Kept(ch, cur)
            /\ cur.settledOnChain = ch.settledOnChain
        BY <2>3 DEF cur
      <4>2. /\ ch' \in State /\ Within(ch') /\ Kept(cur, ch')
            /\ ch'.settledOnChain = cur.settledOnChain
        BY <2>2, <2>6, <4>1, MarkKeeps
      <4>3. Kept(ch, ch')
        BY <1>1, <4>1, <4>2 DEF Kept, RecordInv, State
      <4> QED
        BY <1>1, <1>6, <4>1, <4>2, <4>3 DEF CloseMark, RecordGrows, RecordInv
    <3> QED
      BY <1>3, <1>6, <3>3, <3>4 DEF CloseMark
  <2>7. CASE closes' = [closes EXCEPT ![c].pc = "failed"] /\ UNCHANGED ch
    <3>1. CloseInv'
      BY <1>1, <1>6, <2>7 DEF CloseMark, CloseInv, CloseCall
    <3> QED
      BY <1>3, <1>6, <2>7, <3>1, OthersStay DEF CloseMark
  <2> QED
    BY <1>6, <2>1, <2>6, <2>7 DEF CloseMark
<1>7. CASE CloseSend(c)
  <2>1. CloseInv'
    BY <1>1, <1>7 DEF CloseSend, CloseInv, CloseCall, TxStates
  <2> QED
    BY <1>3, <1>7, <2>1, OthersStay DEF CloseSend
<1>8. CASE CloseMine(c)
  <2>1. CASE EscrowCloses(closes[c].amount, closes[c].capture)
    <3>1. /\ escrow' = ClosedWith(closes[c].capture)
          /\ closes' = [closes EXCEPT ![c].tx = "landed"]
          /\ closes[c].capture >= escrow.settled
          /\ closes[c].tx = "pending"
      BY <1>8, <2>1 DEF CloseMine, EscrowCloses
    <3>2. EscrowGrows
      BY <1>1, <1>2, <3>1, ClosedWithOK DEF EscrowGrows, EscrowInv, CloseUnchanged
    <3>3. escrow'.settled = closes[c].capture /\ escrow'.settled >= escrow.settled
      BY <1>1, <3>1 DEF ClosedWith, EscrowInv, Escrow
    <3>4. CloseInv'
      BY <1>1, <3>1, <3>3 DEF CloseInv, CloseCall, TxStates, ChainState
    <3> QED
      BY <1>8, <3>2, <3>4, OthersStay DEF CloseMine
  <2>2. CASE ~EscrowCloses(closes[c].amount, closes[c].capture)
    <3>1. CloseInv'
      BY <1>1, <1>8, <2>2 DEF CloseMine, CloseInv, CloseCall, TxStates
    <3> QED
      BY <1>3, <1>8, <2>2, <3>1, OthersStay DEF CloseMine
  <2> QED
    BY <2>1, <2>2
<1>9. CASE CloseFinalize(c)
  <2>1. CloseInv'
    BY <1>1, <1>9 DEF CloseFinalize, CloseInv, CloseCall
  <2>2. closes[c].capture <= escrow.settled
    BY <1>1, <1>9 DEF CloseFinalize, CloseInv
  <2>3. RecordGrows
    <3>1. /\ ch' = finalizeClosedChannelState(ch, closes[c].capture, closes[c].amount)
          /\ UNCHANGED escrow
      BY <1>9 DEF CloseFinalize
    <3>2. ch \in State /\ Within(ch) /\ ch.settledOnChain <= escrow.settled
      BY <1>1 DEF RecordInv
    <3>3. /\ ch' \in State /\ Within(ch') /\ Kept(ch, ch')
          /\ ch'.settledOnChain = keepGreater(ch.settledOnChain, closes[c].capture)
      BY <1>1, <3>1, <3>2, FinalizeKeeps
    <3> QED
      BY <2>2, <3>1, <3>2, <3>3 DEF RecordGrows, RecordInv, keepGreater
  <2> QED
    BY <1>3, <1>9, <2>1, <2>3 DEF CloseFinalize
<1>10. CASE CloseFail(c)
  <2>1. CloseInv'
    BY <1>1, <1>10 DEF CloseFail, CloseInv, CloseCall
  <2>2. RecordGrows
    BY <1>1, <1>10, ClearKeeps DEF CloseFail, RecordGrows, RecordInv
  <2> QED
    BY <1>3, <1>10, <2>1, <2>2 DEF CloseFail
<1> QED
  BY <1>5, <1>6, <1>7, <1>8, <1>9, <1>10

-----------------------------------------------------------------------------
(* Close supervision *)

\* A run that ends forgets what it read.
LEMMA SupervisorDoneOK ==
    ASSUME IInv, UNCHANGED escrow, NEW p \in Supervisors,
           supervisors' = SupervisorDone(p)
    PROVE  SuperviseInv'
<1>1. SuperviseInv /\ EscrowInv /\ supervisors[p] \in SuperviseCall
  BY DEF IInv, SuperviseInv
<1>2. /\ NoRead \in ChainState /\ NoRead.settled <= escrow.settled
      /\ 0 <= escrow.settled
  BY <1>1, NoReadOK DEF EscrowInv, Escrow
<1>3. supervisors' \in [Supervisors -> SuperviseCall]
  BY <1>1, <1>2 DEF SupervisorDone, SuperviseInv, SuperviseCall
<1>4. /\ supervisors'[p].read = NoRead /\ supervisors'[p].paid = 0
      /\ supervisors'[p].pc = "done" /\ supervisors'[p].tx = supervisors[p].tx
      /\ supervisors'[p].capture = supervisors[p].capture
      /\ \A q \in Supervisors \ {p} : supervisors'[q] = supervisors[q]
  BY <1>1 DEF SupervisorDone, SuperviseInv, SuperviseCall
<1> QED
  BY <1>1, <1>2, <1>3, <1>4 DEF SuperviseInv

LEMMA SuperviseOK ==
    ASSUME IInv, NEW p \in Supervisors,
           \/ SuperviseRead(p) \/ SuperviseClosed(p) \/ SuperviseOpen(p)
           \/ SuperviseClosing(p) \/ SuperviseSend(p) \/ SuperviseMine(p)
           \/ SuperviseFinalize(p)
    PROVE  IInv' /\ Kept(ch, ch')
<1> DEFINE call == supervisors[p]
<1>1. /\ SuperviseInv /\ EscrowInv /\ RecordInv /\ call \in SuperviseCall
      /\ call.amount \in Nat /\ call.capture \in Nat /\ call.paid \in Nat
      /\ call.timestamp \in Nat /\ call.validBefore \in Nat
      /\ call.read \in ChainState /\ call.read.settled <= escrow.settled
      /\ call.paid <= escrow.settled
      /\ clock \in Nat /\ escrow.settled \in Nat /\ Validity \in Nat
  BY RecordConstants DEF IInv, SuperviseInv, SuperviseCall, EscrowInv, Escrow
<1>2. SupervisorUnchanged
  BY DEF SuperviseRead, SuperviseClosed, SuperviseOpen, SuperviseClosing,
         SuperviseSend, SuperviseMine, SuperviseFinalize
<1>3. UNCHANGED escrow => EscrowGrows
  BY <1>1, <1>2, EscrowStays DEF SupervisorUnchanged
<1>4. SUFFICES EscrowGrows /\ SuperviseInv' /\ RecordGrows
  BY <1>2, OthersStay DEF SupervisorUnchanged, IInv, RecordGrows
<1>5. CASE SuperviseRead(p)
  <2> DEFINE paid == IF escrow.phase = "closed" THEN escrow.settled ELSE 0
  <2>1. PICK t \in BlockTimes :
          supervisors' = [supervisors EXCEPT ![p] =
             [@ EXCEPT !.pc = "read", !.read = EscrowRead, !.readAt = clock,
                       !.timestamp = t, !.paid = paid,
                       !.closing = (ch.closeRequestedAt # 0)]]
    BY <1>5 DEF SuperviseRead
  <2>2. t \in Nat /\ paid \in Nat /\ paid <= escrow.settled
    BY <1>1 DEF BlockTimes
  <2>3. EscrowRead \in ChainState /\ EscrowRead.settled <= escrow.settled
    BY <1>1, EscrowReadOK
  <2>4. call.tx = "none"
    BY <1>1, <1>5 DEF SuperviseRead, SuperviseInv
  <2> DEFINE closing == (ch.closeRequestedAt # 0)
  <2>5. closing \in BOOLEAN
    OBVIOUS
  <2> HIDE DEF paid, closing
  <2>6. supervisors' = [supervisors EXCEPT ![p] =
             [call EXCEPT !.pc = "read", !.read = EscrowRead, !.readAt = clock,
                          !.timestamp = t, !.paid = paid, !.closing = closing]]
    BY <2>1 DEF closing
  <2>7. SuperviseInv'
    BY <1>1, <1>5, <2>2, <2>3, <2>4, <2>5, <2>6
    DEF SuperviseRead, SuperviseInv, SuperviseCall
  <2> QED
    BY <1>3, <1>5, <2>7, OthersStay DEF SuperviseRead
<1>6. CASE SuperviseClosed(p)
  <2>1. SuperviseInv'
    BY <1>6, SupervisorDoneOK DEF SuperviseClosed
  <2>2. RecordGrows
    BY <1>1, <1>6, FinalizeFromEventKeeps
    DEF SuperviseClosed, RecordGrows, RecordInv, keepGreater
  <2> QED
    BY <1>3, <1>6, <2>1, <2>2 DEF SuperviseClosed
<1>7. CASE SuperviseOpen(p)
  <2>1. SuperviseInv'
    BY <1>7, SupervisorDoneOK DEF SuperviseOpen
  <2>2. UNCHANGED ch \/ ch' = reconcileExpiredPendingClose(ch, call.timestamp, call.read)
    BY <1>7 DEF SuperviseOpen
  <2>3. RecordGrows
    BY <1>1, <1>3, <1>7, <2>2, ReconcileKeeps, OthersStay
    DEF SuperviseOpen, RecordGrows, RecordInv
  <2> QED
    BY <1>3, <1>7, <2>1, <2>3 DEF SuperviseOpen
<1>8. CASE SuperviseClosing(p)
  <2> DEFINE closing == mergeActiveOnChainState(ch, call.read)
             capture == closeCaptureAmount(closing.spent, call.read)
             amount == closing.highest
  <2>1. /\ closing \in State /\ Within(closing) /\ Kept(ch, closing)
        /\ closing.settledOnChain = keepGreater(ch.settledOnChain, call.read.settled)
    BY <1>1, MergeKeeps DEF RecordInv
  <2>2. capture \in Nat /\ amount \in Nat
    BY <1>1, <2>1, KeepGreaterNat DEF closeCaptureAmount, State, ChainState
  <2>3. call.tx = "none"
    BY <1>1, <1>8 DEF SuperviseClosing, SuperviseInv
  <2>4. /\ UNCHANGED ch \/ ch' = closing
        /\ \/ supervisors' = SupervisorDone(p)
           \/ supervisors' = [supervisors EXCEPT ![p].pc = "closing",
                                 ![p].amount = amount, ![p].capture = capture]
    BY <1>8 DEF SuperviseClosing
  <2>5. escrow' = escrow
    BY <1>8 DEF SuperviseClosing
  <2> HIDE DEF capture, amount, closing
  <2>6. SuperviseInv'
    BY <1>1, <2>2, <2>3, <2>4, <2>5, SupervisorDoneOK DEF SuperviseInv, SuperviseCall
  <2>7. RecordGrows
    BY <1>1, <1>3, <2>1, <2>4, <2>5, OthersStay DEF RecordGrows, RecordInv, keepGreater
  <2> QED
    BY <1>3, <2>5, <2>6, <2>7
<1>9. CASE SuperviseSend(p)
  <2>1. clock + Validity \in Nat
    BY <1>1
  <2>2. SuperviseInv'
    BY <1>1, <1>9, <2>1 DEF SuperviseSend, SuperviseInv, SuperviseCall, TxStates
  <2> QED
    BY <1>3, <1>9, <2>2, OthersStay DEF SuperviseSend
<1>10. CASE SuperviseMine(p)
  <2>1. CASE EscrowCloses(call.amount, call.capture)
    <3>1. /\ escrow' = ClosedWith(call.capture)
          /\ supervisors' = [supervisors EXCEPT ![p].tx = "landed"]
          /\ call.capture >= escrow.settled
          /\ call.tx = "pending"
      BY <1>10, <2>1 DEF SuperviseMine, EscrowCloses
    <3>2. EscrowGrows
      BY <1>1, <1>2, <3>1, ClosedWithOK DEF EscrowGrows, EscrowInv, SupervisorUnchanged
    <3>3. escrow'.settled = call.capture /\ escrow'.settled >= escrow.settled
      BY <1>1, <3>1 DEF ClosedWith, EscrowInv, Escrow
    <3>4. SuperviseInv'
      BY <1>1, <3>1, <3>3 DEF SuperviseInv, SuperviseCall, TxStates, ChainState
    <3> QED
      BY <1>10, <3>2, <3>4, OthersStay DEF SuperviseMine
  <2>2. CASE ~EscrowCloses(call.amount, call.capture)
    <3>1. SuperviseInv'
      BY <1>1, <1>10, <2>2 DEF SuperviseMine, SuperviseInv, SuperviseCall, TxStates
    <3> QED
      BY <1>3, <1>10, <2>2, <3>1, OthersStay DEF SuperviseMine
  <2> QED
    BY <2>1, <2>2
<1>11. CASE SuperviseFinalize(p)
  <2>1. SuperviseInv'
    BY <1>11, SupervisorDoneOK DEF SuperviseFinalize
  <2>2. call.capture <= escrow.settled
    BY <1>1, <1>11 DEF SuperviseFinalize, SuperviseInv
  <2>3. RecordGrows
    <3>1. /\ ch' = finalizeClosedChannelState(ch, call.capture, call.amount)
          /\ UNCHANGED escrow
      BY <1>11 DEF SuperviseFinalize
    <3>2. ch \in State /\ Within(ch) /\ ch.settledOnChain <= escrow.settled
      BY <1>1 DEF RecordInv
    <3>3. /\ ch' \in State /\ Within(ch') /\ Kept(ch, ch')
          /\ ch'.settledOnChain = keepGreater(ch.settledOnChain, call.capture)
      BY <1>1, <3>1, <3>2, FinalizeKeeps
    <3> QED
      BY <2>2, <3>1, <3>2, <3>3 DEF RecordGrows, RecordInv, keepGreater
  <2> QED
    BY <1>3, <1>11, <2>1, <2>3 DEF SuperviseFinalize
<1> QED
  BY <1>5, <1>6, <1>7, <1>8, <1>9, <1>10, <1>11

-----------------------------------------------------------------------------
(* The theorems *)

\* Every step keeps the inductive invariant and takes nothing back.
LEMMA NextOK ==
    ASSUME IInv, [Next]_vars
    PROVE  IInv' /\ Kept(ch, ch')
<1>1. CASE UNCHANGED vars
  <2>1. EscrowGrows
    BY <1>1, EscrowStays DEF vars, IInv
  <2> QED
    BY <1>1, <2>1, OthersStay DEF vars, calls, IInv, RecordGrows
<1>2. CASE Tick
  BY <1>2, TickOK
<1>3. CASE PayerStep
  BY <1>3, PayerOK
<1>4. CASE OpenStep
  BY <1>4, OpenOK DEF OpenStep
<1>5. CASE TopUpStep
  BY <1>5, TopUpOK DEF TopUpStep
<1>6. CASE VoucherStep
  BY <1>6, VoucherOK DEF VoucherStep
<1>7. CASE AccountingStep
  BY <1>7, AccountingOK
<1>8. CASE SettleStep
  BY <1>8, SettleOK DEF SettleStep
<1>9. CASE CloseStep
  BY <1>9, CloseOK DEF CloseStep
<1>10. CASE SuperviseStep
  BY <1>10, SuperviseOK DEF SuperviseStep
<1> QED
  BY <1>1, <1>2, <1>3, <1>4, <1>5, <1>6, <1>7, <1>8, <1>9, <1>10 DEF Next

\* The inductive invariant holds in every reachable state.
THEOREM Inductive == Spec => []IInv
<1>1. IInv /\ [Next]_vars => IInv'
  BY NextOK
<1> QED
  BY InitOK, <1>1, PTL DEF Spec

\* Every variable keeps its type: in particular no amount of the record, the
\* escrow or a call ever turns negative.
THEOREM TypeCorrect == Spec => []TypeOK
<1>1. IInv => TypeOK
  BY DEF IInv, EscrowInv, RecordInv, OpenInv, TopUpInv, VoucherInv, SettleInv,
         CloseInv, SuperviseInv, TypeOK
<1> QED
  BY Inductive, <1>1, PTL

\* Concurrent charges, commits and acceptances never spend more than the payer
\* signed for.
THEOREM SpendingAuthorized == Spec => []SpentWithinAccepted
<1>1. IInv => SpentWithinAccepted
  BY DEF IInv, RecordInv, Within, SpentWithinAccepted
<1> QED
  BY Inductive, <1>1, PTL

\* No order of receipts and chain reads makes the record claim more settled than
\* the escrow paid.
THEOREM RecordNeverAhead == Spec => []RecordBehindEscrow
<1>1. IInv => RecordBehindEscrow
  BY DEF IInv, RecordInv, RecordBehindEscrow
<1> QED
  BY Inductive, <1>1, PTL

\* No step takes back authorization, a recorded settlement, a finalization or
\* the outcome of a credit.
THEOREM RecordGrowsOnly == Spec => NothingTakenBack
<1> DEFINE Keeps ==
      /\ ch'.highest >= ch.highest
      /\ ch'.settledOnChain >= ch.settledOnChain
      /\ ch.finalized => ch'.finalized /\ ch'.spent = ch.spent
      /\ \A k \in CreditKeys :
            ch.markers[k].outcome # "none" => ch'.markers[k] = ch.markers[k]
<1>1. IInv /\ [Next]_vars => Keeps
  BY NextOK DEF Kept
<1>2. IInv /\ [Next]_vars => [Keeps]_vars
  BY <1>1
<1> QED
  BY Inductive, <1>2, PTL DEF Spec, NothingTakenBack

-----------------------------------------------------------------------------
(* What each update does to the fields an advance and a close depend on     *)

\* The record d has what an advance of c relied on, and is funded by c or s.
Advances(c, d) ==
    /\ c.exists => d.exists
    /\ d.highest >= c.highest

\* Nothing is charged or credited while c is closing or finalized.
Uncharged(c, d) == c.finalized \/ c.closeRequestedAt # 0 => d.spent = c.spent

\* The marker of a close is not taken away before the record is finalized.
NotReopened(c, d) ==
    /\ c.finalized => d.finalized
    /\ d.finalized \/ d.closeRequestedAt >= c.closeRequestedAt

Steady(c, d) == Advances(c, d) /\ Uncharged(c, d) /\ NotReopened(c, d)

LEMMA SteadyTransitive ==
    ASSUME NEW c \in State, NEW d \in State, NEW e \in State,
           Steady(c, d), Steady(d, e)
    PROVE  Steady(c, e)
BY DEF Steady, Advances, Uncharged, NotReopened, State

LEMMA MergeSteady ==
    ASSUME NEW c \in State, NEW s \in ChainState
    PROVE  LET d == mergeActiveOnChainState(c, s)
           IN  /\ Steady(c, d)
               /\ d.highest = c.highest /\ d.spent = c.spent /\ d.exists = c.exists
               /\ d.finalized = c.finalized
               /\ d.deposit \in {c.deposit, s.deposit}
               /\ d.closeRequestedAt >= s.closeRequestedAt
BY KeepGreaterNat
DEF mergeActiveOnChainState, keepGreater, State, ChainState, Steady, Advances, Uncharged, NotReopened

LEMMA PendingCloseSteady ==
    ASSUME NEW c \in State, NEW s \in ChainState
    PROVE  LET d == pendingCloseState(c, s)
           IN  /\ Steady(c, d)
               /\ d.highest = c.highest /\ d.deposit = c.deposit
BY DEF pendingCloseState, keepGreater, State, ChainState, Steady, Advances, Uncharged, NotReopened

LEMMA BackgroundSteady ==
    ASSUME NEW c \in State, NEW s \in ChainState
    PROVE  LET d == backgroundReadState(c, s)
           IN  /\ Steady(c, d)
               /\ d.highest = c.highest /\ d.deposit \in {c.deposit, s.deposit}
<1>1. CASE c.exists /\ ~c.finalized /\ c.closeRequestedAt = 0
  BY <1>1, MergeSteady DEF backgroundReadState
<1>2. CASE ~(c.exists /\ ~c.finalized /\ c.closeRequestedAt = 0)
  BY <1>2 DEF backgroundReadState, State, Steady, Advances, Uncharged, NotReopened
<1> QED
  BY <1>1, <1>2

LEMMA TopUpSteady ==
    ASSUME NEW c \in State, NEW s \in ChainState
    PROVE  LET d == topUpChannelState(c, s)
           IN  /\ Steady(c, d)
               /\ d.highest = c.highest /\ d.deposit \in {c.deposit, s.deposit}
<1>1. CASE c.exists
  BY <1>1, MergeSteady DEF topUpChannelState
<1>2. CASE ~c.exists
  BY <1>2 DEF topUpChannelState, State, Steady, Advances, Uncharged, NotReopened
<1> QED
  BY <1>1, <1>2

LEMMA AcceptSteady ==
    ASSUME NEW c \in State, NEW v \in Nat, NEW s \in ChainState
    PROVE  LET d == acceptVoucherStateUpdate(c, v, s)
           IN  /\ Steady(c, d)
               /\ d.exists = c.exists
               /\ d.highest \in {c.highest, v} /\ d.highest >= v
               /\ d.deposit \in {c.deposit, s.deposit}
<1> DEFINE m == mergeActiveOnChainState(c, s)
           d == acceptVoucherStateUpdate(c, v, s)
<1>1. /\ Steady(c, m) /\ m \in State /\ m.highest = c.highest /\ m.exists = c.exists
      /\ m.deposit \in {c.deposit, s.deposit}
  BY MergeSteady, MergeKeeps
<1>2. CASE v <= c.highest
  BY <1>1, <1>2 DEF acceptVoucherStateUpdate, State
<1>3. CASE ~(v <= c.highest)
  <2>1. d = [m EXCEPT !.highest = v,
                      !.retained = retainVouchers(c, v, m.settledOnChain)]
    BY <1>3 DEF acceptVoucherStateUpdate
  <2>2. /\ d.exists = m.exists /\ d.finalized = m.finalized /\ d.spent = m.spent
        /\ d.closeRequestedAt = m.closeRequestedAt /\ d.deposit = m.deposit
        /\ d.highest = v /\ v > c.highest
    BY <1>1, <1>3, <2>1 DEF State
  <2> HIDE DEF d, m
  <2> QED
    BY <1>1, <2>2 DEF State, Steady, Advances, Uncharged, NotReopened, d
<1> QED
  BY <1>2, <1>3

LEMMA DeductSteady ==
    ASSUME NEW c \in State, NEW a \in Nat, CanDeduct(c, a)
    PROVE  LET d == planDeduction(c, a)
           IN  /\ Steady(c, d)
               /\ d.highest = c.highest /\ d.deposit = c.deposit
BY DEF planDeduction, CanDeduct, State, Steady, Advances, Uncharged, NotReopened

LEMMA AcceptanceSteady ==
    ASSUME NEW c \in State, NEW a \in Nat
    PROVE  LET d == planVoucherAcceptance(c, a)
           IN  /\ Steady(c, d)
               /\ d.highest = c.highest /\ d.deposit = c.deposit
<1>1. CASE CanDeduct(c, a)
  BY <1>1, DeductSteady DEF planVoucherAcceptance
<1>2. CASE ~CanDeduct(c, a)
  BY <1>2 DEF planVoucherAcceptance, State, Steady, Advances, Uncharged, NotReopened
<1> QED
  BY <1>1, <1>2

\* A credit that is granted leaves what is settled or settling.
LEMMA CreditSteady ==
    ASSUME NEW c \in State, NEW k \in CreditKeys, NEW a \in Nat, NEW now \in Nat
    PROVE  LET d == planCredit(c, k, a, now)
           IN  /\ Steady(c, d)
               /\ d.highest = c.highest /\ d.deposit = c.deposit
               /\ d.settledOnChain = c.settledOnChain
               /\ d.pendingSettlement = c.pendingSettlement
               /\ \/ d.spent = c.spent
                  \/ /\ ~c.finalized /\ c.closeRequestedAt = 0
                     /\ d.spent >= c.settledOnChain /\ d.spent >= SettlingFloor(c, now)
<1> DEFINE o == creditDeclineReason(c, a, now)
           d == planCredit(c, k, a, now)
<1>1. o = "credited" =>
        /\ ~c.finalized /\ c.closeRequestedAt = 0 /\ a <= c.spent
        /\ c.spent - a >= c.settledOnChain /\ c.spent - a >= SettlingFloor(c, now)
  <2>1. SettlingFloor(c, now) \in Nat
    BY DEF SettlingFloor, State
  <2> HIDE DEF SettlingFloor
  <2> QED
    BY <2>1 DEF creditDeclineReason, keepGreater, State
<1>2. d = [c EXCEPT !.spent = IF o = "credited" THEN c.spent - a ELSE c.spent,
                    !.markers = [c.markers EXCEPT ![k] = [outcome |-> o, amount |-> a]]]
  BY DEF planCredit, State
<1> HIDE DEF o, d
<1>3. /\ d.exists = c.exists /\ d.finalized = c.finalized /\ d.highest = c.highest
      /\ d.closeRequestedAt = c.closeRequestedAt /\ d.deposit = c.deposit
      /\ d.settledOnChain = c.settledOnChain /\ d.pendingSettlement = c.pendingSettlement
      /\ d.spent = IF o = "credited" THEN c.spent - a ELSE c.spent
  BY <1>2 DEF State
<1>4. Steady(c, d)
  BY <1>1, <1>3 DEF State, Steady, Advances, Uncharged, NotReopened
<1> QED
  BY <1>1, <1>3, <1>4 DEF d

LEMMA OpenSteady ==
    ASSUME NEW c \in State, NEW v \in Nat, NEW s \in ChainState, s.settled = 0
    PROVE  LET d == openChannelState(c, v, s)
           IN  /\ Steady(c, d)
               /\ d.exists /\ d.spent = c.spent
               /\ d.highest \in {c.highest, v} /\ d.highest >= v
               /\ d.deposit \in {c.deposit, s.deposit}
<1> DEFINE m == mergeActiveOnChainState(c, s)
           h == keepGreater(c.highest, v)
           r == IF h > c.highest THEN retainVouchers(c, h, m.settledOnChain) ELSE c.retained
           d == openChannelState(c, v, s)
<1>1. /\ Steady(c, m) /\ m \in State /\ m.highest = c.highest /\ m.spent = c.spent
      /\ m.finalized = c.finalized
      /\ m.deposit \in {c.deposit, s.deposit}
  BY MergeSteady, MergeKeeps
<1>2. m.retained = c.retained
  BY DEF mergeActiveOnChainState, State
<1>3. h \in Nat /\ h >= c.highest /\ h >= v /\ h \in {c.highest, v}
  BY DEF keepGreater, State
<1>4. keepGreater(c.spent, s.settled) = c.spent
  BY DEF keepGreater, State
<1>5. d = [m EXCEPT !.exists = TRUE, !.highest = h, !.retained = r, !.spent = c.spent]
  BY <1>1, <1>2, <1>4 DEF openChannelState
<1> HIDE DEF m, h, r, d
<1>6. /\ d.exists /\ d.highest = h /\ d.spent = c.spent /\ d.finalized = m.finalized
      /\ d.closeRequestedAt = m.closeRequestedAt /\ d.deposit = m.deposit
  BY <1>1, <1>5 DEF State
<1>7. Steady(c, d)
  BY <1>1, <1>3, <1>6 DEF State, Steady, Advances, Uncharged, NotReopened
<1> QED
  BY <1>1, <1>3, <1>6, <1>7 DEF d

LEMMA ClaimSteady ==
    ASSUME NEW c \in State, NEW a \in Nat, NEW e \in Nat, NEW now \in Nat
    PROVE  LET d == claimSettlement(c, a, e, now)
           IN  /\ Steady(c, d)
               /\ d.highest = c.highest /\ d.deposit = c.deposit /\ d.spent = c.spent
<1> DEFINE p == IF c.pendingSettlement.expiresAt > now
                THEN [amount    |-> keepGreater(c.pendingSettlement.amount, a),
                      expiresAt |-> keepGreater(c.pendingSettlement.expiresAt, e)]
                ELSE [amount |-> a, expiresAt |-> e]
           d == claimSettlement(c, a, e, now)
<1>1. d = [c EXCEPT !.pendingSettlement = p]
  BY DEF claimSettlement, State
<1> HIDE DEF p
<1> QED
  BY <1>1 DEF State, Steady, Advances, Uncharged, NotReopened

LEMMA ReleaseSteady ==
    ASSUME NEW c \in State, NEW a \in Nat, NEW e \in Nat
    PROVE  LET d == releaseSettlement(c, a, e)
           IN  /\ Steady(c, d)
               /\ d.highest = c.highest /\ d.deposit = c.deposit /\ d.spent = c.spent
BY DEF releaseSettlement, State, Steady, Advances, Uncharged, NotReopened

LEMMA CheckpointSteady ==
    ASSUME NEW c \in State, NEW n \in Nat
    PROVE  LET d == checkpointSettlement(c, n)
           IN  /\ Steady(c, d)
               /\ d.highest = c.highest /\ d.deposit = c.deposit /\ d.spent = c.spent
BY DEF checkpointSettlement, State, Steady, Advances, Uncharged, NotReopened

\* Only an expired marker of a channel that reads open is removed.
Expired(c, now, s) ==
    /\ ~c.finalized
    /\ s.closeRequestedAt = 0 /\ s.deposit # 0
    /\ now > c.closeRequestedAt + Validity + ClockSkew

LEMMA ReconcileSteady ==
    ASSUME NEW c \in State, NEW now \in Int, NEW s \in ChainState
    PROVE  LET d == reconcileExpiredPendingClose(c, now, s)
           IN  /\ Advances(c, d) /\ Uncharged(c, d)
               /\ d.highest = c.highest /\ d.deposit = c.deposit /\ d.spent = c.spent
               /\ d = c \/ Expired(c, now, s)
<1>1. CASE reconcileExpiredPendingClose(c, now, s) = c
  BY <1>1 DEF State, Advances, Uncharged
<1>2. CASE reconcileExpiredPendingClose(c, now, s) # c
  <2>1. /\ reconcileExpiredPendingClose(c, now, s) = [c EXCEPT !.closeRequestedAt = 0]
        /\ Expired(c, now, s)
    BY <1>2 DEF reconcileExpiredPendingClose, Expired
  <2> QED
    BY <2>1 DEF State, Advances, Uncharged
<1> QED
  BY <1>1, <1>2

LEMMA MarkSteady ==
    ASSUME NEW c \in State, NEW now \in Nat
    PROVE  LET d == markPendingClose(c, now)
           IN  /\ Advances(c, d) /\ Uncharged(c, d)
               /\ d.highest = c.highest /\ d.deposit = c.deposit /\ d.spent = c.spent
               /\ d.closeRequestedAt = now
BY DEF markPendingClose, State, Advances, Uncharged

LEMMA ClearSteady ==
    ASSUME NEW c \in State, NEW t \in Nat
    PROVE  LET d == clearPendingClose(c, t)
           IN  /\ Advances(c, d) /\ Uncharged(c, d)
               /\ d.highest = c.highest /\ d.deposit = c.deposit /\ d.spent = c.spent
               /\ d.finalized = c.finalized
               /\ d = c \/ c.closeRequestedAt = t
BY DEF clearPendingClose, State, Advances, Uncharged

LEMMA FinalizeSteady ==
    ASSUME NEW c \in State, NEW capture \in Nat, NEW v \in Nat
    PROVE  LET d == finalizeClosedChannelState(c, capture, v)
           IN  /\ Steady(c, d) /\ d.finalized
               /\ d.spent = c.spent /\ d.settledOnChain >= capture
BY DEF finalizeClosedChannelState, keepGreater, State, Steady, Advances, Uncharged, NotReopened

LEMMA FinalizeFromEventSteady ==
    ASSUME NEW c \in State, NEW paid \in Nat
    PROVE  LET d == finalizeFromEvent(c, paid)
           IN  /\ Steady(c, d)
               /\ d.spent = c.spent /\ d.highest = c.highest
               /\ d.deposit \in {0, c.deposit}
BY DEF finalizeFromEvent, keepGreater, State, Steady, Advances, Uncharged, NotReopened

-----------------------------------------------------------------------------
(* What the record accepts is funded, and what it promised a close is kept  *)

\* While the channel may still pay, its deposit covers n.
Covers(n) == escrow.phase # "closed" => n <= escrow.deposit

EscrowFunds == (escrow.phase = "absent" => escrow.deposit = 0) /\ Covers(escrow.opened)

RecordFunds == Covers(ch.highest) /\ Covers(ch.deposit)

OpenFunds == \A o \in Opens : Covers(opens[o].amount) /\ Covers(opens[o].read.deposit)

TopUpFunds == \A t \in TopUps : Covers(topUps[t].read.deposit)

VoucherFunds == \A r \in Vouchers :
    Covers(vouchers[r].read.deposit) /\ Covers(vouchers[r].state.deposit)

CloseFunds == \A c \in Closes : closes[c].tx = "landed" => escrow.phase = "closed"

SuperviseFunds == \A p \in Supervisors :
    /\ Covers(supervisors[p].read.deposit)
    /\ supervisors[p].tx = "landed" => escrow.phase = "closed"

FundInv ==
    /\ EscrowFunds
    /\ RecordFunds
    /\ OpenFunds
    /\ TopUpFunds
    /\ VoucherFunds
    /\ CloseFunds
    /\ SuperviseFunds

\* A deposit only grows until the channel is closed for good.
FundsGrow ==
    /\ escrow'.phase # "closed" => /\ escrow.phase # "closed"
                                   /\ escrow'.deposit >= escrow.deposit
    /\ EscrowFunds'

\* The steps that may reopen a record.
Reopening ==
    \/ \E r \in Vouchers :
          VoucherReconcile(r) /\ Expired(ch, clock, vouchers[r].read)
    \/ \E p \in Supervisors :
          SuperviseOpen(p) /\ Expired(ch, supervisors[p].timestamp, supervisors[p].read)
    \/ \E c \in Closes : CloseMark(c)
    \/ \E c \in Closes : CloseFail(c)

RecordMoves ==
    /\ Advances(ch, ch') /\ Uncharged(ch, ch')
    /\ NotReopened(ch, ch') \/ Reopening

LEMMA SteadyMoves == Steady(ch, ch') => RecordMoves
BY DEF Steady, RecordMoves

LEMMA SameMoves == ASSUME IInv, UNCHANGED ch PROVE RecordMoves
BY DEF IInv, RecordInv, State, RecordMoves, Advances, Uncharged, NotReopened

LEMMA CoversStays ==
    ASSUME IInv, FundsGrow, escrow' \in Escrow, NEW n \in Nat, Covers(n)
    PROVE  Covers(n)'
BY DEF IInv, EscrowInv, Escrow, FundsGrow, Covers

LEMMA FundsStay ==
    ASSUME IInv, FundInv, FundsGrow, escrow' \in Escrow
    PROVE  /\ UNCHANGED ch => RecordFunds'
           /\ UNCHANGED opens => OpenFunds'
           /\ UNCHANGED topUps => TopUpFunds'
           /\ UNCHANGED vouchers => VoucherFunds'
           /\ UNCHANGED closes => CloseFunds'
           /\ UNCHANGED supervisors => SuperviseFunds'
<1>2. escrow.phase = "closed" => escrow'.phase = "closed"
  BY DEF FundsGrow, EscrowFunds
<1>3. UNCHANGED ch => RecordFunds'
  BY CoversStays DEF IInv, RecordInv, State, FundInv, RecordFunds
<1>4. UNCHANGED opens => OpenFunds'
  BY CoversStays DEF IInv, OpenInv, OpenCall, ChainState, FundInv, OpenFunds
<1>5. UNCHANGED topUps => TopUpFunds'
  BY CoversStays DEF IInv, TopUpInv, TopUpCall, ChainState, FundInv, TopUpFunds
<1>6. UNCHANGED vouchers => VoucherFunds'
  BY CoversStays DEF IInv, VoucherInv, VoucherCall, ChainState, FundInv, VoucherFunds
<1>7. UNCHANGED closes => CloseFunds'
  BY <1>2 DEF FundInv, CloseFunds
<1>8. UNCHANGED supervisors => SuperviseFunds'
  BY <1>2, CoversStays
  DEF IInv, SuperviseInv, SuperviseCall, ChainState, FundInv, SuperviseFunds
<1> QED
  BY <1>3, <1>4, <1>5, <1>6, <1>7, <1>8

\* A step that leaves the escrow alone.
LEMMA FundsSame == ASSUME IInv, FundInv, UNCHANGED escrow PROVE FundsGrow
BY DEF IInv, EscrowInv, Escrow, FundInv, FundsGrow, EscrowFunds, Covers

LEMMA InitFunds == Init => FundInv
BY DEF Init, FundInv, EscrowFunds, RecordFunds, OpenFunds, TopUpFunds, VoucherFunds,
       CloseFunds, SuperviseFunds, Covers, NoRecord, NoRead

LEMMA PayerFunds ==
    ASSUME IInv, IInv', FundInv, Tick \/ PayerStep
    PROVE  FundInv' /\ RecordMoves
<1>1. /\ UNCHANGED <<ch, calls>>
      /\ escrow'.deposit = escrow.deposit /\ escrow'.opened = escrow.opened
      /\ escrow'.phase \in {escrow.phase, "closed"}
      /\ escrow'.phase = "absent" => escrow.phase = "absent"
  <2>1. CASE Tick
    BY <2>1 DEF Tick
  <2>2. CASE PayerRequestClose
    <3>1. PICK t \in BlockTimes : escrow' = [escrow EXCEPT !.closeRequestedAt = t]
      BY <2>2 DEF PayerRequestClose
    <3> QED
      BY <2>2, <3>1 DEF PayerRequestClose, IInv, EscrowInv, Escrow
  <2>3. CASE PayerWithdraw
    BY <2>3 DEF PayerWithdraw, ClosedWith, IInv, EscrowInv, Escrow
  <2> QED
    BY <2>1, <2>2, <2>3 DEF PayerStep
<1>2. FundsGrow
  BY <1>1 DEF FundInv, FundsGrow, EscrowFunds, Covers, IInv, EscrowInv, Escrow
<1>3. escrow' \in Escrow
  BY DEF IInv, EscrowInv
<1> QED
  BY <1>1, <1>2, <1>3, FundsStay, SameMoves DEF calls, FundInv, FundsGrow

LEMMA OpenFundsOK ==
    ASSUME IInv, IInv', FundInv, NEW o \in Opens,
           OpenLand(o) \/ OpenReplay(o) \/ OpenStore(o)
    PROVE  FundInv' /\ RecordMoves
<1>1. /\ opens \in [Opens -> OpenCall] /\ escrow \in Escrow /\ escrow' \in Escrow
      /\ opens[o].amount \in Nat /\ opens[o].read \in ChainState /\ opens[o].read.settled = 0
      /\ ch \in State
      /\ EscrowFunds /\ RecordFunds /\ OpenFunds
  BY DEF IInv, OpenInv, OpenCall, EscrowInv, RecordInv, FundInv
<1>2. CASE OpenLand(o)
  <2>1. PICK amount \in VoucherAmounts, deposit \in Deposits, requireAdvance \in BOOLEAN :
          /\ amount <= deposit
          /\ escrow' = [escrow EXCEPT !.phase = "open", !.opened = deposit,
                                      !.deposit = deposit]
          /\ opens' = [opens EXCEPT ![o] =
                [pc |-> "landed", amount |-> amount, requireAdvance |-> requireAdvance,
                 read |-> [deposit |-> deposit, settled |-> 0, closeRequestedAt |-> 0]]]
    BY <1>2 DEF OpenLand
  <2>2. /\ amount \in Nat /\ deposit \in Nat /\ escrow.phase = "absent"
        /\ escrow'.phase = "open" /\ escrow'.deposit = deposit /\ escrow'.opened = deposit
    BY <1>1, <1>2, <2>1, ChannelConstants DEF OpenLand, Escrow
  <2>3. FundsGrow
    BY <1>1, <2>2 DEF FundsGrow, EscrowFunds, Covers
  <2>4. OpenFunds'
    <3>1. \A q \in Opens : Covers(opens[q].amount)' /\ Covers(opens[q].read.deposit)'
      BY <1>1, <2>1, <2>2 DEF OpenFunds, OpenCall, ChainState, EscrowFunds, Covers
    <3> QED
      BY <3>1 DEF OpenFunds
  <2> QED
    BY <1>1, <1>2, <2>3, <2>4, FundsStay, SameMoves DEF OpenLand, FundInv, FundsGrow
<1>3. CASE OpenReplay(o)
  <2>1. PICK amount \in VoucherAmounts, requireAdvance \in BOOLEAN :
          /\ amount <= escrow.opened
          /\ opens' = [opens EXCEPT ![o] =
                [pc |-> "landed", amount |-> amount, requireAdvance |-> requireAdvance,
                 read |-> [deposit |-> escrow.opened, settled |-> 0,
                           closeRequestedAt |-> 0]]]
    BY <1>3 DEF OpenReplay
  <2>2. amount \in Nat /\ escrow.opened \in Nat /\ escrow' = escrow
    BY <1>1, <1>3, ChannelConstants DEF Escrow, OpenReplay
  <2>3. OpenFunds'
    BY <1>1, <2>1, <2>2 DEF OpenFunds, OpenCall, EscrowFunds, Covers, Escrow
  <2> QED
    BY <1>1, <1>3, <2>2, <2>3, FundsSame, FundsStay, SameMoves DEF OpenReplay, FundInv, FundsGrow
<1>4. CASE OpenStore(o)
  <2>1. escrow' = escrow /\ FundsGrow
    BY <1>4, FundsSame DEF OpenStore
  <2>2. OpenFunds'
    BY <1>1, <1>4, <2>1 DEF OpenStore, OpenFunds, OpenCall, Covers
  <2>3. RecordFunds' /\ RecordMoves
    <3>1. CASE UNCHANGED ch
      BY <1>1, <2>1, <3>1, FundsStay, SameMoves
    <3>2. CASE ch' = openChannelState(ch, opens[o].amount, opens[o].read)
      <4>1. /\ Steady(ch, ch')
            /\ ch'.highest \in {ch.highest, opens[o].amount}
            /\ ch'.deposit \in {ch.deposit, opens[o].read.deposit}
        BY <1>1, <3>2, OpenSteady
      <4> QED
        BY <1>1, <2>1, <4>1, SteadyMoves DEF OpenFunds, RecordFunds, Covers
    <3> QED
      BY <1>4, <3>1, <3>2 DEF OpenStore
  <2> QED
    BY <1>1, <1>4, <2>1, <2>2, <2>3, FundsStay DEF OpenStore, FundInv, FundsGrow
<1> QED
  BY <1>2, <1>3, <1>4

LEMMA TopUpFundsOK ==
    ASSUME IInv, IInv', FundInv, NEW t \in TopUps, TopUpLand(t) \/ TopUpStore(t)
    PROVE  FundInv' /\ RecordMoves
<1>1. /\ topUps \in [TopUps -> TopUpCall] /\ escrow \in Escrow /\ escrow' \in Escrow
      /\ topUps[t].read \in ChainState /\ ch \in State
      /\ EscrowFunds /\ RecordFunds /\ TopUpFunds
  BY DEF IInv, TopUpInv, TopUpCall, EscrowInv, RecordInv, FundInv
<1>2. CASE TopUpLand(t)
  <2>1. PICK amount \in Deposits :
          escrow' = [escrow EXCEPT !.deposit = @ + amount, !.closeRequestedAt = 0]
    BY <1>2 DEF TopUpLand
  <2>2. /\ escrow.phase = "open" /\ escrow'.phase = "open" /\ escrow'.opened = escrow.opened
        /\ escrow'.deposit >= escrow.deposit
    <3> DEFINE n == escrow.deposit + amount
    <3>1. n \in Nat /\ n >= escrow.deposit
      BY <1>1, ChannelConstants DEF Escrow
    <3>2. escrow' = [escrow EXCEPT !.deposit = n, !.closeRequestedAt = 0]
      BY <2>1
    <3> HIDE DEF n
    <3> QED
      BY <1>1, <1>2, <3>1, <3>2 DEF TopUpLand, Escrow
  <2>3. FundsGrow
    BY <1>1, <2>2 DEF FundsGrow, EscrowFunds, Covers, Escrow
  <2>4. TopUpFunds'
    <3> DEFINE read == [deposit |-> escrow'.deposit, settled |-> escrow.settled,
                        closeRequestedAt |-> 0]
    <3>1. topUps' = [topUps EXCEPT ![t] = [pc |-> "landed", read |-> read]]
      BY <1>2 DEF TopUpLand
    <3>2. read.deposit = escrow'.deposit /\ escrow'.deposit \in Nat
      BY <1>1 DEF Escrow
    <3> HIDE DEF read
    <3>3. topUps'[t].read.deposit = escrow'.deposit /\ \A q \in TopUps \ {t} : topUps'[q] = topUps[q]
      BY <1>1, <3>1, <3>2
    <3>4. \A q \in TopUps : topUps[q].read.deposit \in Nat /\ Covers(topUps[q].read.deposit)
      BY <1>1 DEF TopUpFunds, TopUpCall, ChainState
    <3> QED
      BY <1>1, <2>2, <3>2, <3>3, <3>4 DEF TopUpFunds, Covers, Escrow
  <2> QED
    BY <1>1, <1>2, <2>3, <2>4, FundsStay, SameMoves DEF TopUpLand, FundInv, FundsGrow
<1>3. CASE TopUpStore(t)
  <2>1. escrow' = escrow /\ FundsGrow
    BY <1>3, FundsSame DEF TopUpStore
  <2>2. TopUpFunds'
    BY <1>1, <1>3, <2>1 DEF TopUpStore, TopUpFunds, TopUpCall, Covers
  <2>3. /\ Steady(ch, ch') /\ ch'.highest = ch.highest
        /\ ch'.deposit \in {ch.deposit, topUps[t].read.deposit}
    BY <1>1, <1>3, TopUpSteady DEF TopUpStore
  <2>4. RecordFunds'
    BY <1>1, <2>1, <2>3 DEF TopUpFunds, RecordFunds, Covers
  <2> QED
    BY <1>1, <1>3, <2>1, <2>2, <2>3, <2>4, FundsStay, SteadyMoves
    DEF TopUpStore, FundInv, FundsGrow
<1> QED
  BY <1>2, <1>3

LEMMA AccountingFunds ==
    ASSUME IInv, IInv', FundInv, AccountingStep
    PROVE  FundInv' /\ RecordMoves
<1>1. ch \in State /\ escrow' \in Escrow /\ clock \in Nat
  BY DEF IInv, RecordInv, EscrowInv
<1>2. UNCHANGED <<escrow, calls>>
  BY DEF AccountingStep, Charge, Credit
<1>3. Steady(ch, ch') /\ ch'.highest = ch.highest /\ ch'.deposit = ch.deposit
  <2>1. PICK amount \in Charges :
          Charge(amount) \/ \E key \in CreditKeys : Credit(key, amount)
    BY DEF AccountingStep
  <2>2. amount \in Nat
    BY ChannelConstants
  <2>3. CASE Charge(amount)
    BY <1>1, <2>2, <2>3, DeductSteady DEF Charge
  <2>4. ASSUME NEW key \in CreditKeys, Credit(key, amount)
        PROVE  Steady(ch, ch') /\ ch'.highest = ch.highest /\ ch'.deposit = ch.deposit
    BY <1>1, <2>2, <2>4, CreditSteady DEF Credit
  <2> QED
    BY <2>1, <2>3, <2>4
<1>4. RecordFunds'
  BY <1>2, <1>3 DEF FundInv, RecordFunds, Covers
<1> QED
  BY <1>1, <1>2, <1>3, <1>4, FundsSame, FundsStay, SteadyMoves DEF calls, FundInv, FundsGrow

LEMMA FinishedFunds ==
    ASSUME IInv, FundInv, UNCHANGED escrow, NEW r \in Vouchers,
           NEW pc \in {"accepted", "refused"}, NEW background \in BOOLEAN,
           vouchers' = Finished(r, pc, background)
    PROVE  VoucherFunds'
<1>1. /\ vouchers \in [Vouchers -> VoucherCall] /\ escrow \in Escrow /\ VoucherFunds
      /\ vouchers[r].read \in ChainState
  BY DEF IInv, VoucherInv, VoucherCall, EscrowInv, FundInv
<1>2. Covers(NoRead.deposit)
  BY <1>1 DEF NoRead, Covers, Escrow
<1>3. /\ vouchers'[r].read \in {vouchers[r].read, NoRead} /\ vouchers'[r].state = NoRead
      /\ \A q \in Vouchers \ {r} : vouchers'[q] = vouchers[q]
  BY <1>1 DEF Finished, VoucherCall
<1> QED
  BY <1>1, <1>2, <1>3 DEF VoucherFunds, Covers

LEMMA RefusedFunds ==
    ASSUME IInv, FundInv, UNCHANGED escrow, NEW r \in Vouchers, VoucherRefused(r)
    PROVE  VoucherFunds' /\ RecordFunds' /\ RecordMoves
<1>1. vouchers[r].background \in BOOLEAN /\ escrow' \in Escrow
  BY DEF IInv, VoucherInv, VoucherCall, EscrowInv
<1> QED
  BY <1>1, FinishedFunds, FundsSame, FundsStay, SameMoves DEF VoucherRefused

LEMMA AcceptInFunds ==
    ASSUME IInv, FundInv, UNCHANGED escrow, NEW r \in Vouchers,
           NEW state \in ChainState, Covers(state.deposit),
           vouchers[r].amount <= state.deposit,
           NEW background \in BOOLEAN, AcceptIn(r, state, background)
    PROVE  VoucherFunds' /\ RecordFunds' /\ RecordMoves
<1> DEFINE v == vouchers[r]
           accepted == acceptVoucherStateUpdate(ch, v.amount, state)
<1>1. /\ v \in VoucherCall /\ ch \in State /\ v.amount \in Nat /\ v.charge \in Nat
      /\ v.background \in BOOLEAN /\ escrow \in Escrow
  BY DEF IInv, VoucherInv, VoucherCall, RecordInv, EscrowInv
<1>2. CASE VoucherRefused(r)
  BY <1>2, RefusedFunds
<1>3. CASE /\ ch' = planVoucherAcceptance(accepted, v.charge)
           /\ \/ vouchers' = Finished(r, "accepted", background)
              \/ vouchers' = Finished(r, "refused", v.background)
  <2>1. /\ accepted \in State /\ Steady(ch, accepted)
        /\ accepted.highest \in {ch.highest, v.amount}
        /\ accepted.deposit \in {ch.deposit, state.deposit}
    BY <1>1, AcceptKeeps, AcceptSteady
  <2> HIDE DEF accepted
  <2>2. /\ ch' \in State /\ Steady(accepted, ch')
        /\ ch'.highest = accepted.highest /\ ch'.deposit = accepted.deposit
    BY <1>1, <1>3, <2>1, AcceptanceKeeps, AcceptanceSteady
  <2>3. RecordMoves
    BY <1>1, <2>1, <2>2, SteadyTransitive, SteadyMoves
  <2>4. Covers(v.amount)
    BY <1>1 DEF Covers, ChainState, Escrow
  <2>5. RecordFunds'
    BY <2>1, <2>2, <2>4 DEF FundInv, RecordFunds, Covers
  <2>6. VoucherFunds'
    BY <1>1, <1>3, FinishedFunds
  <2> QED
    BY <2>3, <2>5, <2>6
<1> QED
  BY <1>2, <1>3 DEF AcceptIn

LEMMA VoucherFundsOK ==
    ASSUME IInv, IInv', FundInv, NEW r \in Vouchers,
           \/ VoucherRead(r) \/ VoucherOneUpdate(r) \/ VoucherBackground(r)
           \/ VoucherLoad(r) \/ VoucherLoadStored(r) \/ VoucherReconcile(r)
           \/ VoucherRecordClose(r) \/ VoucherAccept(r)
    PROVE  FundInv' /\ RecordMoves
<1>1. /\ vouchers \in [Vouchers -> VoucherCall]
      /\ vouchers[r].read \in ChainState /\ vouchers[r].state \in ChainState
      /\ vouchers[r].background \in BOOLEAN /\ vouchers[r].amount \in Nat
      /\ ch \in State /\ escrow \in Escrow /\ escrow' \in Escrow /\ clock \in Nat
      /\ VoucherFunds /\ RecordFunds
      /\ Covers(vouchers[r].read.deposit) /\ Covers(vouchers[r].state.deposit)
  BY DEF IInv, VoucherInv, VoucherCall, RecordInv, EscrowInv, FundInv, VoucherFunds
<1>2. VoucherUnchanged
  BY DEF VoucherRead, VoucherOneUpdate, VoucherBackground, VoucherLoad,
         VoucherLoadStored, VoucherReconcile, VoucherRecordClose, VoucherAccept
<1>3. FundsGrow /\ UNCHANGED escrow
  BY <1>2, FundsSame DEF VoucherUnchanged
<1>4. SUFFICES VoucherFunds' /\ RecordFunds' /\ RecordMoves
  BY <1>1, <1>2, <1>3, FundsStay DEF VoucherUnchanged, FundInv, FundsGrow
<1>5. Covers(NoRead.deposit) /\ Covers(EscrowRead.deposit)
  BY <1>1 DEF NoRead, EscrowRead, Covers, Escrow
<1>6. CASE VoucherRead(r)
  <2>1. PICK amount \in VoucherAmounts, charge \in Charges \cup {0}, advance \in BOOLEAN :
          vouchers' = [vouchers EXCEPT ![r] =
             [pc |-> "read", amount |-> amount, charge |-> charge,
              requireAdvance |-> advance, read |-> EscrowRead, readAt |-> clock,
              background |-> FALSE, state |-> NoRead, highest |-> 0, closing |-> FALSE]]
    BY <1>6 DEF VoucherRead
  <2>2. VoucherFunds'
    BY <1>1, <1>3, <1>5, <2>1 DEF VoucherFunds, Covers
  <2> QED
    BY <1>1, <1>3, <1>6, <2>2, FundsStay, SameMoves DEF VoucherRead
<1>7. CASE VoucherOneUpdate(r)
  <2> DEFINE stored == storedChannelState(ch)
  <2>1. stored \in ChainState /\ stored.deposit = ch.deposit /\ Covers(stored.deposit)
    BY <1>1 DEF storedChannelState, ChainState, State, RecordFunds
  <2>2. \/ VoucherRefused(r)
        \/ vouchers' = Finished(r, "accepted", TRUE) /\ UNCHANGED ch
        \/ AcceptIn(r, stored, TRUE) /\ vouchers[r].amount <= ch.deposit
    BY <1>7 DEF VoucherOneUpdate
  <2> HIDE DEF stored
  <2>3. CASE AcceptIn(r, stored, TRUE) /\ vouchers[r].amount <= ch.deposit
    BY <1>3, <2>1, <2>3, AcceptInFunds
  <2>4. CASE vouchers' = Finished(r, "accepted", TRUE) /\ UNCHANGED ch
    BY <1>1, <1>3, <2>4, FinishedFunds, FundsStay, SameMoves
  <2> QED
    BY <1>3, <2>2, <2>3, <2>4, RefusedFunds
<1>8. CASE VoucherBackground(r)
  <2>1. vouchers' = [vouchers EXCEPT ![r].background = FALSE, ![r].read = NoRead,
                                     ![r].readAt = 0]
    BY <1>8 DEF VoucherBackground
  <2>2. VoucherFunds'
    BY <1>1, <1>3, <1>5, <2>1 DEF VoucherFunds, VoucherCall, Covers
  <2>3. \/ UNCHANGED ch
        \/ ch' = pendingCloseState(ch, vouchers[r].read)
        \/ ch' = backgroundReadState(ch, vouchers[r].read)
    BY <1>8 DEF VoucherBackground
  <2>4. CASE UNCHANGED ch
    BY <1>1, <1>3, <2>2, <2>4, FundsStay, SameMoves
  <2>5. CASE \/ ch' = pendingCloseState(ch, vouchers[r].read)
             \/ ch' = backgroundReadState(ch, vouchers[r].read)
    <3>1. /\ Steady(ch, ch') /\ ch'.highest = ch.highest
          /\ ch'.deposit \in {ch.deposit, vouchers[r].read.deposit}
      BY <1>1, <2>5, PendingCloseSteady, BackgroundSteady
    <3>2. RecordFunds'
      BY <1>1, <1>3, <3>1 DEF RecordFunds, Covers
    <3> QED
      BY <2>2, <3>1, <3>2, SteadyMoves
  <2> QED
    BY <2>3, <2>4, <2>5
<1>9. CASE VoucherLoad(r)
  <2>1. CASE VoucherRefused(r)
    BY <1>3, <2>1, RefusedFunds
  <2>2. CASE /\ vouchers' = [vouchers EXCEPT
                   ![r].pc = "loaded", ![r].highest = ch.highest,
                   ![r].closing = (ch.closeRequestedAt # 0)]
             /\ UNCHANGED ch
    <3>1. VoucherFunds'
      BY <1>1, <1>3, <2>2 DEF VoucherFunds, VoucherCall, Covers
    <3> QED
      BY <1>1, <1>3, <2>2, <3>1, FundsStay, SameMoves
  <2> QED
    BY <1>9, <2>1, <2>2 DEF VoucherLoad
<1>10. CASE VoucherLoadStored(r)
  <2> DEFINE stored == storedChannelState(ch)
  <2>1. stored.deposit = ch.deposit
    BY DEF storedChannelState
  <2>2. /\ vouchers' = [vouchers EXCEPT
               ![r].pc = "stored", ![r].highest = ch.highest,
               ![r].state = stored, ![r].background = TRUE]
        /\ UNCHANGED ch
    BY <1>10 DEF VoucherLoadStored
  <2> HIDE DEF stored
  <2>3. VoucherFunds'
    BY <1>1, <1>3, <2>1, <2>2 DEF VoucherFunds, VoucherCall, RecordFunds, Covers
  <2> QED
    BY <1>1, <1>3, <2>2, <2>3, FundsStay, SameMoves
<1>11. CASE VoucherReconcile(r)
  <2>1. PICK next \in {"recordClose", "checked"} :
          \/ vouchers' = [vouchers EXCEPT ![r].pc = next, ![r].state = vouchers[r].read,
                                          ![r].highest = ch.highest]
          \/ vouchers' = [vouchers EXCEPT ![r].pc = next, ![r].state = vouchers[r].read]
    BY <1>11 DEF VoucherReconcile
  <2>2. VoucherFunds'
    BY <1>1, <1>3, <2>1 DEF VoucherFunds, VoucherCall, Covers
  <2>3. CASE UNCHANGED ch
    BY <1>1, <1>3, <2>2, <2>3, FundsStay, SameMoves
  <2>4. CASE ch' # ch
    <3>1. ch' = reconcileExpiredPendingClose(ch, clock, vouchers[r].read)
      BY <1>11, <2>4 DEF VoucherReconcile
    <3>2. /\ Advances(ch, ch') /\ Uncharged(ch, ch') /\ Expired(ch, clock, vouchers[r].read)
          /\ ch'.highest = ch.highest /\ ch'.deposit = ch.deposit
      BY <1>1, <2>4, <3>1, ReconcileSteady
    <3>3. RecordFunds'
      BY <1>1, <1>3, <3>2 DEF RecordFunds, Covers
    <3> QED
      BY <1>11, <2>2, <3>2, <3>3 DEF RecordMoves, Reopening
  <2> QED
    BY <2>3, <2>4
<1>12. CASE VoucherRecordClose(r)
  <2>1. VoucherFunds'
    BY <1>3, <1>12, FinishedFunds DEF VoucherRecordClose
  <2>2. Steady(ch, ch') /\ ch'.highest = ch.highest /\ ch'.deposit = ch.deposit
    BY <1>1, <1>12, PendingCloseSteady DEF VoucherRecordClose
  <2>3. RecordFunds'
    BY <1>1, <1>3, <2>2 DEF RecordFunds, Covers
  <2> QED
    BY <2>1, <2>2, <2>3, SteadyMoves
<1>13. CASE VoucherAccept(r)
  <2>1. \/ VoucherRefused(r)
        \/ vouchers' = Finished(r, "accepted", vouchers[r].background) /\ UNCHANGED ch
        \/ /\ AcceptIn(r, vouchers[r].state, vouchers[r].background)
           /\ vouchers[r].amount <= vouchers[r].state.deposit
    BY <1>13 DEF VoucherAccept, VoucherAmountsValid
  <2>2. CASE /\ AcceptIn(r, vouchers[r].state, vouchers[r].background)
             /\ vouchers[r].amount <= vouchers[r].state.deposit
    BY <1>1, <1>3, <2>2, AcceptInFunds
  <2>3. CASE vouchers' = Finished(r, "accepted", vouchers[r].background) /\ UNCHANGED ch
    BY <1>1, <1>3, <2>3, FinishedFunds, FundsStay, SameMoves
  <2> QED
    BY <1>3, <2>1, <2>2, <2>3, RefusedFunds
<1> QED
  BY <1>6, <1>7, <1>8, <1>9, <1>10, <1>11, <1>12, <1>13

LEMMA SettleFunds ==
    ASSUME IInv, IInv', FundInv, SettleStep
    PROVE  FundInv' /\ RecordMoves
<1>1. /\ settlements \in [Settlements -> SettleCall]
      /\ ch \in State /\ escrow \in Escrow /\ escrow' \in Escrow /\ clock \in Nat
      /\ RecordFunds
      /\ Validity \in Nat /\ ClockSkew \in Nat
  BY RecordConstants DEF IInv, SettleInv, RecordInv, EscrowInv, FundInv
<1>2. PICK s \in Settlements : \/ SettleClaim(s) \/ SettleSend(s) \/ SettleMine(s)
                              \/ SettleCheckpoint(s) \/ SettleRelease(s)
  BY DEF SettleStep
<1>3. SettlementUnchanged
  BY <1>2 DEF SettleClaim, SettleSend, SettleMine, SettleCheckpoint, SettleRelease
<1>4. settlements[s].amount \in Nat /\ settlements[s].validBefore \in Nat
  BY <1>1 DEF SettleCall
<1>5. FundsGrow /\ escrow'.deposit = escrow.deposit /\ escrow'.phase = escrow.phase
  <2>1. CASE UNCHANGED escrow
    BY <2>1, FundsSame
  <2>2. CASE escrow' = [escrow EXCEPT !.settled = settlements[s].amount]
    BY <1>1, <2>2 DEF FundInv, FundsGrow, EscrowFunds, Covers, Escrow
  <2> QED
    BY <1>2, <2>1, <2>2 DEF SettleClaim, SettleSend, SettleMine, SettleCheckpoint, SettleRelease
<1>6. Steady(ch, ch') /\ ch'.highest = ch.highest /\ ch'.deposit = ch.deposit
  <2>1. CASE SettleClaim(s)
    <3>1. PICK v \in ch.retained \cup {ch.highest}, now \in 1 .. clock :
            ch' = claimSettlement(ch, v, now + Validity + ClockSkew, clock)
      BY <2>1 DEF SettleClaim
    <3> DEFINE expiresAt == now + Validity + ClockSkew
    <3>2. v \in Nat /\ expiresAt \in Nat
      BY <1>1 DEF State
    <3> HIDE DEF expiresAt
    <3>3. ch' = claimSettlement(ch, v, expiresAt, clock)
      BY <3>1 DEF expiresAt
    <3> QED
      BY <1>1, <3>2, <3>3, ClaimSteady
  <2>2. CASE SettleSend(s) \/ SettleMine(s)
    BY <1>1, <2>2 DEF SettleSend, SettleMine, State, Steady, Advances, Uncharged, NotReopened
  <2>3. CASE SettleCheckpoint(s)
    BY <1>1, <1>4, <2>3, CheckpointSteady DEF SettleCheckpoint
  <2>4. CASE SettleRelease(s)
    <3>1. settlements[s].validBefore + ClockSkew \in Nat
      BY <1>1, <1>4
    <3> QED
      BY <1>1, <1>4, <2>4, <3>1, ReleaseSteady DEF SettleRelease
  <2> QED
    BY <1>2, <2>1, <2>2, <2>3, <2>4
<1>7. RecordFunds'
  BY <1>1, <1>5, <1>6 DEF RecordFunds, Covers
<1> QED
  BY <1>1, <1>3, <1>5, <1>6, <1>7, FundsStay, SteadyMoves
  DEF SettlementUnchanged, FundInv, FundsGrow

\* The escrow closes when a close lands.
LEMMA ClosedFunds ==
    ASSUME IInv, FundInv, NEW capture \in Nat, escrow.phase = "open",
           escrow' = ClosedWith(capture)
    PROVE  FundsGrow /\ escrow'.phase = "closed" /\ RecordFunds'
BY DEF IInv, EscrowInv, Escrow, FundInv, FundsGrow, EscrowFunds, RecordFunds, Covers, ClosedWith

LEMMA CloseFundsOK ==
    ASSUME IInv, IInv', FundInv, NEW c \in Closes,
           \/ CloseRead(c) \/ CloseMark(c) \/ CloseSend(c) \/ CloseMine(c)
           \/ CloseFinalize(c) \/ CloseFail(c)
    PROVE  FundInv' /\ RecordMoves
<1>1. /\ closes \in [Closes -> CloseCall] /\ closes[c].read \in ChainState
      /\ closes[c].amount \in Nat /\ closes[c].capture \in Nat /\ closes[c].startedAt \in Nat
      /\ closes[c].readAt \in Nat
      /\ ch \in State /\ ch' \in State /\ escrow \in Escrow /\ escrow' \in Escrow
      /\ clock \in Nat /\ RecordFunds /\ CloseFunds
  BY DEF IInv, CloseInv, CloseCall, RecordInv, EscrowInv, FundInv
<1>2. CloseUnchanged
  BY DEF CloseRead, CloseMark, CloseSend, CloseMine, CloseFinalize, CloseFail
<1>3. UNCHANGED escrow => FundsGrow
  BY FundsSame
<1>4. SUFFICES FundsGrow /\ CloseFunds' /\ RecordFunds' /\ RecordMoves
  BY <1>1, <1>2, FundsStay DEF CloseUnchanged, FundInv, FundsGrow
<1>5. CASE CloseRead(c) \/ CloseSend(c)
  <2>1. CloseFunds'
    BY <1>1, <1>5 DEF CloseRead, CloseSend, CloseFunds, CloseCall
  <2> QED
    BY <1>1, <1>3, <1>5, <2>1, FundsStay, SameMoves DEF CloseRead, CloseSend
<1>6. CASE CloseMark(c)
  <2>1. UNCHANGED escrow /\ FundsGrow
    BY <1>3, <1>6 DEF CloseMark
  <2>2. CloseFunds'
    <3>1. PICK now, n :
            \/ closes' = [closes EXCEPT
                     ![c].pc = "marked", ![c].startedAt = now,
                     ![c].read = NoRead, ![c].readAt = 0, ![c].capture = n]
            \/ closes' = [closes EXCEPT ![c].pc = "failed"]
      BY <1>6 DEF CloseMark
    <3> QED
      BY <1>1, <2>1, <3>1 DEF CloseFunds, CloseCall
  <2>3. CASE UNCHANGED ch
    BY <1>1, <2>1, <2>2, <2>3, FundsStay, SameMoves
  <2>4. CASE ch' # ch
    <3>1. PICK now \in closes[c].readAt .. clock :
            ch' = markPendingClose(reconcileExpiredPendingClose(ch, now, closes[c].read), now)
      BY <1>6, <2>4 DEF CloseMark
    <3> DEFINE current == reconcileExpiredPendingClose(ch, now, closes[c].read)
    <3>2. /\ current \in State /\ Advances(ch, current) /\ Uncharged(ch, current)
          /\ current.highest = ch.highest /\ current.deposit = ch.deposit
          /\ current.spent = ch.spent
      BY <1>1, ReconcileKeeps, ReconcileSteady
    <3> HIDE DEF current
    <3>3. now \in Nat /\ ch' = markPendingClose(current, now)
      BY <1>1, <3>1 DEF current
    <3>4. /\ Advances(current, ch') /\ ch'.spent = current.spent
          /\ ch'.highest = current.highest /\ ch'.deposit = current.deposit
      BY <3>2, <3>3, MarkSteady
    <3>5. RecordMoves
      BY <1>1, <1>6, <3>2, <3>4 DEF RecordMoves, Reopening, Advances, Uncharged, State
    <3>6. RecordFunds'
      BY <1>1, <2>1, <3>2, <3>4 DEF RecordFunds, Covers
    <3> QED
      BY <2>1, <2>2, <3>5, <3>6
  <2> QED
    BY <2>3, <2>4
<1>7. CASE CloseMine(c)
  <2>1. UNCHANGED ch
    BY <1>7 DEF CloseMine
  <2>2. CASE EscrowCloses(closes[c].amount, closes[c].capture)
    <3>1. FundsGrow /\ escrow'.phase = "closed" /\ RecordFunds'
      BY <1>1, <1>7, <2>2, ClosedFunds DEF CloseMine, EscrowCloses
    <3>2. CloseFunds'
      BY <3>1 DEF CloseFunds
    <3> QED
      BY <2>1, <3>1, <3>2, SameMoves
  <2>3. CASE ~EscrowCloses(closes[c].amount, closes[c].capture)
    <3>1. UNCHANGED escrow /\ closes' = [closes EXCEPT ![c].tx = "reverted"]
      BY <1>7, <2>3 DEF CloseMine
    <3>2. CloseFunds'
      BY <1>1, <3>1 DEF CloseFunds, CloseCall
    <3> QED
      BY <1>1, <1>3, <2>1, <3>1, <3>2, FundsStay, SameMoves
  <2> QED
    BY <2>2, <2>3
<1>8. CASE CloseFinalize(c)
  <2>1. UNCHANGED escrow /\ escrow.phase = "closed"
    BY <1>1, <1>8 DEF CloseFinalize, CloseFunds
  <2>2. CloseFunds'
    BY <2>1 DEF CloseFunds
  <2>3. RecordFunds'
    BY <2>1 DEF RecordFunds, Covers
  <2>4. Steady(ch, ch')
    BY <1>1, <1>8, FinalizeSteady DEF CloseFinalize
  <2> QED
    BY <1>3, <2>1, <2>2, <2>3, <2>4, SteadyMoves
<1>9. CASE CloseFail(c)
  <2>1. UNCHANGED escrow
    BY <1>9 DEF CloseFail
  <2>2. CloseFunds'
    BY <1>1, <1>9, <2>1 DEF CloseFail, CloseFunds, CloseCall
  <2>3. /\ Advances(ch, ch') /\ Uncharged(ch, ch')
        /\ ch'.highest = ch.highest /\ ch'.deposit = ch.deposit
    BY <1>1, <1>9, ClearSteady DEF CloseFail
  <2>4. RecordFunds'
    BY <1>1, <2>1, <2>3 DEF RecordFunds, Covers
  <2> QED
    BY <1>3, <1>9, <2>1, <2>2, <2>3, <2>4 DEF RecordMoves, Reopening
<1> QED
  BY <1>5, <1>6, <1>7, <1>8, <1>9

LEMMA SupervisorDoneFunds ==
    ASSUME IInv, FundInv, UNCHANGED escrow, NEW p \in Supervisors,
           supervisors' = SupervisorDone(p)
    PROVE  SuperviseFunds'
<1>1. /\ supervisors \in [Supervisors -> SuperviseCall] /\ escrow \in Escrow /\ SuperviseFunds
  BY DEF IInv, SuperviseInv, EscrowInv, FundInv
<1>2. Covers(NoRead.deposit)
  BY <1>1 DEF NoRead, Covers, Escrow
<1>3. /\ supervisors'[p].read = NoRead /\ supervisors'[p].tx = supervisors[p].tx
      /\ \A q \in Supervisors \ {p} : supervisors'[q] = supervisors[q]
  BY <1>1 DEF SupervisorDone, SuperviseCall
<1> QED
  BY <1>1, <1>2, <1>3 DEF SuperviseFunds, Covers

LEMMA SuperviseFundsOK ==
    ASSUME IInv, IInv', FundInv, NEW p \in Supervisors,
           \/ SuperviseRead(p) \/ SuperviseClosed(p) \/ SuperviseOpen(p)
           \/ SuperviseClosing(p) \/ SuperviseSend(p) \/ SuperviseMine(p)
           \/ SuperviseFinalize(p)
    PROVE  FundInv' /\ RecordMoves
<1> DEFINE call == supervisors[p]
<1>1. /\ supervisors \in [Supervisors -> SuperviseCall] /\ call \in SuperviseCall
      /\ call.read \in ChainState /\ Covers(call.read.deposit)
      /\ call.amount \in Nat /\ call.capture \in Nat /\ call.paid \in Nat
      /\ call.timestamp \in Nat
      /\ ch \in State /\ escrow \in Escrow /\ escrow' \in Escrow /\ clock \in Nat
      /\ RecordFunds /\ SuperviseFunds
  BY DEF IInv, SuperviseInv, SuperviseCall, RecordInv, EscrowInv, FundInv, SuperviseFunds
<1>2. SupervisorUnchanged
  BY DEF SuperviseRead, SuperviseClosed, SuperviseOpen, SuperviseClosing,
         SuperviseSend, SuperviseMine, SuperviseFinalize
<1>3. UNCHANGED escrow => FundsGrow
  BY FundsSame
<1>4. SUFFICES FundsGrow /\ SuperviseFunds' /\ RecordFunds' /\ RecordMoves
  BY <1>1, <1>2, FundsStay DEF SupervisorUnchanged, FundInv, FundsGrow
<1>5. CASE SuperviseRead(p)
  <2>1. UNCHANGED <<ch, escrow>>
    BY <1>5 DEF SuperviseRead
  <2>2. Covers(EscrowRead.deposit)
    BY <1>1 DEF EscrowRead, NoRead, Covers, Escrow
  <2>3. /\ supervisors'[p].read = EscrowRead /\ supervisors'[p].tx = call.tx
        /\ \A q \in Supervisors \ {p} : supervisors'[q] = supervisors[q]
    <3> DEFINE paid == IF escrow.phase = "closed" THEN escrow.settled ELSE 0
               closing == (ch.closeRequestedAt # 0)
    <3>1. PICK t \in BlockTimes :
            supervisors' = [supervisors EXCEPT ![p] =
               [call EXCEPT !.pc = "read", !.read = EscrowRead, !.readAt = clock,
                            !.timestamp = t, !.paid = paid, !.closing = closing]]
      BY <1>5 DEF SuperviseRead
    <3> HIDE DEF paid, closing
    <3> QED
      BY <1>1, <3>1 DEF SuperviseCall
  <2>4. SuperviseFunds'
    BY <1>1, <2>1, <2>2, <2>3 DEF SuperviseFunds, Covers
  <2> QED
    BY <1>1, <1>3, <2>1, <2>4, FundsStay, SameMoves
<1>6. CASE SuperviseClosed(p)
  <2>1. UNCHANGED escrow /\ SuperviseFunds'
    BY <1>6, SupervisorDoneFunds DEF SuperviseClosed
  <2>2. /\ Steady(ch, ch') /\ ch'.highest = ch.highest
        /\ ch'.deposit \in {0, ch.deposit}
    BY <1>1, <1>6, FinalizeFromEventSteady DEF SuperviseClosed
  <2>3. RecordFunds'
    BY <1>1, <2>1, <2>2 DEF RecordFunds, Covers, Escrow
  <2> QED
    BY <1>3, <2>1, <2>2, <2>3, SteadyMoves
<1>7. CASE SuperviseOpen(p)
  <2>1. UNCHANGED escrow /\ SuperviseFunds'
    BY <1>7, SupervisorDoneFunds DEF SuperviseOpen
  <2>2. CASE UNCHANGED ch
    BY <1>1, <1>3, <2>1, <2>2, FundsStay, SameMoves
  <2>3. CASE ch' # ch
    <3>1. ch' = reconcileExpiredPendingClose(ch, call.timestamp, call.read)
      BY <1>7, <2>3 DEF SuperviseOpen
    <3>2. /\ Advances(ch, ch') /\ Uncharged(ch, ch')
          /\ Expired(ch, call.timestamp, call.read)
          /\ ch'.highest = ch.highest /\ ch'.deposit = ch.deposit
      BY <1>1, <2>3, <3>1, ReconcileSteady
    <3>3. RecordFunds'
      BY <1>1, <2>1, <3>2 DEF RecordFunds, Covers
    <3> QED
      BY <1>3, <1>7, <2>1, <3>2, <3>3 DEF RecordMoves, Reopening
  <2> QED
    BY <2>2, <2>3
<1>8. CASE SuperviseClosing(p)
  <2> DEFINE closing == mergeActiveOnChainState(ch, call.read)
  <2>1. /\ UNCHANGED escrow
        /\ UNCHANGED ch \/ ch' = closing
    BY <1>8 DEF SuperviseClosing
  <2>2. SuperviseFunds'
    <3>1. CASE supervisors' = SupervisorDone(p)
      BY <2>1, <3>1, SupervisorDoneFunds
    <3>2. CASE supervisors' # SupervisorDone(p)
      <4>1. PICK n, m : supervisors' = [supervisors EXCEPT ![p].pc = "closing",
                                           ![p].amount = n, ![p].capture = m]
        BY <1>8, <3>2 DEF SuperviseClosing
      <4> QED
        BY <1>1, <2>1, <4>1 DEF SuperviseFunds, SuperviseCall, Covers
    <3> QED
      BY <3>1, <3>2
  <2>3. CASE UNCHANGED ch
    BY <1>1, <1>3, <2>1, <2>2, <2>3, FundsStay, SameMoves
  <2>4. CASE ch' = closing
    <3>1. /\ Steady(ch, ch') /\ ch'.highest = ch.highest
          /\ ch'.deposit \in {ch.deposit, call.read.deposit}
      BY <1>1, <2>4, MergeSteady
    <3>2. RecordFunds'
      BY <1>1, <2>1, <3>1 DEF RecordFunds, Covers
    <3> QED
      BY <1>3, <2>1, <2>2, <3>1, <3>2, SteadyMoves
  <2> QED
    BY <2>1, <2>3, <2>4
<1>9. CASE SuperviseSend(p)
  <2>1. UNCHANGED <<ch, escrow>>
    BY <1>9 DEF SuperviseSend
  <2>2. SuperviseFunds'
    BY <1>1, <1>9, <2>1 DEF SuperviseSend, SuperviseFunds, SuperviseCall, Covers
  <2> QED
    BY <1>1, <1>3, <2>1, <2>2, FundsStay, SameMoves
<1>10. CASE SuperviseMine(p)
  <2>1. UNCHANGED ch
    BY <1>10 DEF SuperviseMine
  <2>2. CASE EscrowCloses(call.amount, call.capture)
    <3>1. FundsGrow /\ escrow'.phase = "closed" /\ RecordFunds'
      BY <1>1, <1>10, <2>2, ClosedFunds DEF SuperviseMine, EscrowCloses
    <3>2. SuperviseFunds'
      BY <3>1 DEF SuperviseFunds, Covers
    <3> QED
      BY <2>1, <3>1, <3>2, SameMoves
  <2>3. CASE ~EscrowCloses(call.amount, call.capture)
    <3>1. UNCHANGED escrow /\ supervisors' = [supervisors EXCEPT ![p].tx = "reverted"]
      BY <1>10, <2>3 DEF SuperviseMine
    <3>2. SuperviseFunds'
      BY <1>1, <3>1 DEF SuperviseFunds, SuperviseCall, Covers
    <3> QED
      BY <1>1, <1>3, <2>1, <3>1, <3>2, FundsStay, SameMoves
  <2> QED
    BY <2>2, <2>3
<1>11. CASE SuperviseFinalize(p)
  <2>1. UNCHANGED escrow /\ escrow.phase = "closed" /\ SuperviseFunds'
    BY <1>1, <1>11, SupervisorDoneFunds DEF SuperviseFinalize, SuperviseFunds
  <2>2. RecordFunds'
    BY <2>1 DEF RecordFunds, Covers
  <2>3. Steady(ch, ch')
    BY <1>1, <1>11, FinalizeSteady DEF SuperviseFinalize
  <2> QED
    BY <1>3, <2>1, <2>2, <2>3, SteadyMoves
<1> QED
  BY <1>5, <1>6, <1>7, <1>8, <1>9, <1>10, <1>11

LEMMA NextFunds ==
    ASSUME IInv, FundInv, [Next]_vars
    PROVE  FundInv' /\ RecordMoves
<1>1. IInv' /\ escrow' \in Escrow
  BY NextOK DEF IInv, EscrowInv
<1>2. CASE UNCHANGED vars
  BY <1>1, <1>2, FundsSame, FundsStay, SameMoves DEF vars, calls, FundInv, FundsGrow
<1>3. CASE Tick \/ PayerStep
  BY <1>1, <1>3, PayerFunds
<1>4. CASE OpenStep
  BY <1>1, <1>4, OpenFundsOK DEF OpenStep
<1>5. CASE TopUpStep
  BY <1>1, <1>5, TopUpFundsOK DEF TopUpStep
<1>6. CASE VoucherStep
  BY <1>1, <1>6, VoucherFundsOK DEF VoucherStep
<1>7. CASE AccountingStep
  BY <1>1, <1>7, AccountingFunds
<1>8. CASE SettleStep
  BY <1>1, <1>8, SettleFunds
<1>9. CASE CloseStep
  BY <1>1, <1>9, CloseFundsOK DEF CloseStep
<1>10. CASE SuperviseStep
  BY <1>1, <1>10, SuperviseFundsOK DEF SuperviseStep
<1> QED
  BY <1>2, <1>3, <1>4, <1>5, <1>6, <1>7, <1>8, <1>9, <1>10 DEF Next

\* Whatever the age of the read or the stored deposit it was checked against, an
\* accepted voucher is covered by the deposit of the open channel.
THEOREM VouchersFunded == Spec => []VouchersAreFunded
<1>1. FundInv => VouchersAreFunded
  BY DEF FundInv, RecordFunds, Covers, VouchersAreFunded
<1>2. IInv /\ FundInv /\ [Next]_vars => FundInv'
  BY NextFunds
<1> QED
  BY Inductive, InitFunds, <1>1, <1>2, PTL DEF Spec

-----------------------------------------------------------------------------
(* One request for each voucher                                             *)

\* The call's request needed a voucher that adds funds, and got it.
Opened(o) == opens[o].pc = "done" /\ opens[o].requireAdvance

Advanced(r) == vouchers[r].pc = "accepted" /\ vouchers[r].requireAdvance

\* Who advanced the channel did so past every other, and the record still holds
\* the voucher.
AdvanceInv ==
    /\ \A o \in Opens : Opened(o) => ch.exists /\ opens[o].amount <= ch.highest
    /\ \A r \in Vouchers : Advanced(r) => ch.exists /\ vouchers[r].amount <= ch.highest
    /\ \A o, q \in Opens :
          Opened(o) /\ Opened(q) /\ opens[o].amount = opens[q].amount => o = q
    /\ \A r, q \in Vouchers :
          Advanced(r) /\ Advanced(q) /\ vouchers[r].amount = vouchers[q].amount => r = q
    /\ \A o \in Opens, r \in Vouchers :
          Opened(o) /\ Advanced(r) => opens[o].amount # vouchers[r].amount

\* This step is the first to bring the record a voucher of this amount.
Brings(amount) ==
    /\ ch.exists => amount > ch.highest
    /\ ch'.exists /\ amount <= ch'.highest

\* The others stay, so one call at most advances the channel in a step.
LEMMA OpenAdvances ==
    ASSUME IInv, IInv', AdvanceInv, Advances(ch, ch'), NEW o \in Opens,
           \A q \in Opens \ {o} : opens'[q] = opens[q],
           UNCHANGED vouchers,
           Opened(o)' => \/ Opened(o) /\ opens'[o].amount = opens[o].amount
                         \/ Brings(opens'[o].amount)
    PROVE  AdvanceInv'
<1>1. /\ \A q \in Opens : opens[q].amount \in Nat /\ opens'[q].amount \in Nat
      /\ \A r \in Vouchers : vouchers[r].amount \in Nat
      /\ ch.highest \in Nat /\ ch'.highest \in Nat
  BY DEF IInv, OpenInv, OpenCall, VoucherInv, VoucherCall, RecordInv, State
<1>2. ASSUME NEW q \in Opens, Opened(q)'
      PROVE  /\ ch'.exists /\ opens'[q].amount <= ch'.highest
             /\ \/ Opened(q) /\ opens'[q].amount = opens[q].amount
                \/ q = o /\ Brings(opens'[q].amount)
  BY <1>1, <1>2 DEF AdvanceInv, Advances, Brings, Opened
<1>3. ASSUME NEW r \in Vouchers, Advanced(r)'
      PROVE  /\ Advanced(r) /\ vouchers'[r].amount = vouchers[r].amount
             /\ ch.exists /\ vouchers[r].amount <= ch.highest
             /\ ch'.exists /\ vouchers[r].amount <= ch'.highest
  BY <1>1, <1>3 DEF AdvanceInv, Advances, Advanced
<1>4. ASSUME NEW q \in Opens, NEW p \in Opens, Opened(q)', Opened(p)',
             opens'[q].amount = opens'[p].amount
      PROVE  q = p
  BY <1>1, <1>2, <1>4 DEF AdvanceInv, Brings
<1>5. ASSUME NEW q \in Opens, NEW r \in Vouchers, Opened(q)', Advanced(r)'
      PROVE  opens'[q].amount # vouchers'[r].amount
  BY <1>1, <1>2, <1>3, <1>5 DEF AdvanceInv, Brings
<1>6. \A r, q \in Vouchers :
         Advanced(r)' /\ Advanced(q)' /\ vouchers'[r].amount = vouchers'[q].amount => r = q
  BY <1>3 DEF AdvanceInv
<1> QED
  BY <1>2, <1>3, <1>4, <1>5, <1>6 DEF AdvanceInv

LEMMA VoucherAdvances ==
    ASSUME IInv, IInv', AdvanceInv, Advances(ch, ch'), NEW v \in Vouchers,
           \A q \in Vouchers \ {v} : vouchers'[q] = vouchers[q],
           UNCHANGED opens,
           Advanced(v)' => \/ Advanced(v) /\ vouchers'[v].amount = vouchers[v].amount
                           \/ Brings(vouchers'[v].amount)
    PROVE  AdvanceInv'
<1>1. /\ \A q \in Vouchers : vouchers[q].amount \in Nat /\ vouchers'[q].amount \in Nat
      /\ \A o \in Opens : opens[o].amount \in Nat
      /\ ch.highest \in Nat /\ ch'.highest \in Nat
  BY DEF IInv, OpenInv, OpenCall, VoucherInv, VoucherCall, RecordInv, State
<1>2. ASSUME NEW q \in Vouchers, Advanced(q)'
      PROVE  /\ ch'.exists /\ vouchers'[q].amount <= ch'.highest
             /\ \/ Advanced(q) /\ vouchers'[q].amount = vouchers[q].amount
                \/ q = v /\ Brings(vouchers'[q].amount)
  BY <1>1, <1>2 DEF AdvanceInv, Advances, Brings, Advanced
<1>3. ASSUME NEW o \in Opens, Opened(o)'
      PROVE  /\ Opened(o) /\ opens'[o].amount = opens[o].amount
             /\ ch.exists /\ opens[o].amount <= ch.highest
             /\ ch'.exists /\ opens[o].amount <= ch'.highest
  BY <1>1, <1>3 DEF AdvanceInv, Advances, Opened
<1>4. ASSUME NEW q \in Vouchers, NEW p \in Vouchers, Advanced(q)', Advanced(p)',
             vouchers'[q].amount = vouchers'[p].amount
      PROVE  q = p
  BY <1>1, <1>2, <1>4 DEF AdvanceInv, Brings
<1>5. ASSUME NEW o \in Opens, NEW q \in Vouchers, Opened(o)', Advanced(q)'
      PROVE  opens'[o].amount # vouchers'[q].amount
  BY <1>1, <1>2, <1>3, <1>5 DEF AdvanceInv, Brings
<1>6. \A o, q \in Opens :
         Opened(o)' /\ Opened(q)' /\ opens'[o].amount = opens'[q].amount => o = q
  BY <1>3 DEF AdvanceInv
<1> QED
  BY <1>2, <1>3, <1>4, <1>5, <1>6 DEF AdvanceInv

\* Without a call that ends, nothing but the record moves.
LEMMA NothingAdvances ==
    ASSUME IInv, IInv', AdvanceInv, Advances(ch, ch'), UNCHANGED <<opens, vouchers>>
    PROVE  AdvanceInv'
BY DEF IInv, OpenInv, OpenCall, VoucherInv, VoucherCall, RecordInv, State, AdvanceInv,
       Advances, Opened, Advanced

\* An acceptance that had to add funds brings them.
LEMMA AcceptInBrings ==
    ASSUME IInv, NEW r \in Vouchers, NEW state \in ChainState, NEW background \in BOOLEAN,
           AcceptIn(r, state, background)
    PROVE  /\ \E pc \in {"accepted", "refused"}, b \in BOOLEAN : vouchers' = Finished(r, pc, b)
           /\ \/ vouchers' = Finished(r, "refused", vouchers[r].background)
              \/ vouchers[r].requireAdvance => Brings(vouchers[r].amount)
<1> DEFINE v == vouchers[r]
           accepted == acceptVoucherStateUpdate(ch, v.amount, state)
<1>1. /\ v \in VoucherCall /\ ch \in State /\ v.amount \in Nat /\ v.charge \in Nat
      /\ v.background \in BOOLEAN
  BY DEF IInv, VoucherInv, VoucherCall, RecordInv
<1>2. CASE VoucherRefused(r)
  BY <1>1, <1>2 DEF VoucherRefused
<1>3. CASE ~(~AcceptsVouchers(ch) \/ (v.requireAdvance /\ v.amount <= ch.highest))
  <2>1. /\ accepted \in State /\ accepted.exists = ch.exists /\ accepted.highest >= v.amount
        /\ Steady(ch, accepted)
    BY <1>1, AcceptKeeps, AcceptSteady
  <2>2. ch' = planVoucherAcceptance(accepted, v.charge)
    BY <1>3 DEF AcceptIn
  <2> HIDE DEF accepted
  <2>3. ch'.highest = accepted.highest /\ (accepted.exists => ch'.exists)
    BY <1>1, <2>1, <2>2, AcceptanceSteady DEF Steady, Advances
  <2>4. v.requireAdvance => Brings(v.amount)
    BY <1>1, <1>3, <2>1, <2>3 DEF AcceptsVouchers, Brings, State
  <2>5. \/ vouchers' = Finished(r, "accepted", background)
        \/ vouchers' = Finished(r, "refused", v.background)
    BY <1>3 DEF AcceptIn
  <2> QED
    BY <1>1, <2>4, <2>5
<1> QED
  BY <1>2, <1>3 DEF AcceptIn

LEMMA VoucherAdvanceOK ==
    ASSUME IInv, IInv', AdvanceInv, Advances(ch, ch'), NEW r \in Vouchers,
           \/ VoucherRead(r) \/ VoucherOneUpdate(r) \/ VoucherBackground(r)
           \/ VoucherLoad(r) \/ VoucherLoadStored(r) \/ VoucherReconcile(r)
           \/ VoucherRecordClose(r) \/ VoucherAccept(r)
    PROVE  AdvanceInv'
<1> DEFINE v == vouchers[r]
<1>1. /\ vouchers \in [Vouchers -> VoucherCall] /\ v.background \in BOOLEAN
      /\ v.state \in ChainState /\ v.requireAdvance \in BOOLEAN
      /\ v.amount \in Nat /\ ch.highest \in Nat
      /\ storedChannelState(ch) \in ChainState
  BY DEF IInv, VoucherInv, VoucherCall, RecordInv, State, storedChannelState, ChainState
<1>2. UNCHANGED opens
  BY DEF VoucherRead, VoucherOneUpdate, VoucherBackground, VoucherLoad,
         VoucherLoadStored, VoucherReconcile, VoucherRecordClose, VoucherAccept,
         VoucherUnchanged
<1>3. ASSUME NEW pc \in {"accepted", "refused"}, NEW background \in BOOLEAN,
             vouchers' = Finished(r, pc, background),
             \/ pc = "refused"
             \/ v.requireAdvance => Brings(v.amount)
      PROVE  AdvanceInv'
  <2>1. /\ vouchers'[r].pc = pc /\ vouchers'[r].amount = v.amount
        /\ vouchers'[r].requireAdvance = v.requireAdvance
        /\ \A q \in Vouchers \ {r} : vouchers'[q] = vouchers[q]
    BY <1>1, <1>3 DEF Finished, VoucherCall
  <2>2. Advanced(r)' => Brings(vouchers'[r].amount)
    BY <1>1, <1>3, <2>1 DEF Advanced
  <2> QED
    BY <1>2, <2>1, <2>2, VoucherAdvances
<1>4. ASSUME VoucherRefused(r) PROVE AdvanceInv'
  BY <1>1, <1>3, <1>4 DEF VoucherRefused
<1>5. ASSUME NEW state \in ChainState, NEW background \in BOOLEAN,
             AcceptIn(r, state, background)
      PROVE  AdvanceInv'
  <2>1. PICK pc \in {"accepted", "refused"}, b \in BOOLEAN : vouchers' = Finished(r, pc, b)
    BY <1>5, AcceptInBrings
  <2>2. \/ vouchers' = Finished(r, "refused", v.background)
        \/ v.requireAdvance => Brings(v.amount)
    BY <1>5, AcceptInBrings
  <2>3. CASE vouchers' = Finished(r, "refused", v.background)
    BY <1>1, <1>3, <2>3
  <2>4. CASE v.requireAdvance => Brings(v.amount)
    BY <1>3, <2>1, <2>4
  <2> QED
    BY <2>2, <2>3, <2>4
<1>6. CASE VoucherOneUpdate(r)
  <2>1. \/ VoucherRefused(r)
        \/ /\ vouchers' = Finished(r, "accepted", TRUE)
           /\ v.amount = ch.highest /\ ~(v.requireAdvance /\ v.amount <= ch.highest)
        \/ AcceptIn(r, storedChannelState(ch), TRUE)
    BY <1>6 DEF VoucherOneUpdate
  <2>2. v.amount = ch.highest => v.amount <= ch.highest
    BY <1>1
  <2> QED
    BY <1>1, <1>3, <1>4, <1>5, <2>1, <2>2
<1>7. CASE VoucherAccept(r)
  <2>1. \/ VoucherRefused(r)
        \/ vouchers' = Finished(r, "accepted", v.background) /\ ~v.requireAdvance
        \/ AcceptIn(r, v.state, v.background)
    BY <1>1, <1>7 DEF VoucherAccept
  <2> QED
    BY <1>1, <1>3, <1>4, <1>5, <2>1
<1>8. CASE VoucherRecordClose(r)
  BY <1>3, <1>8 DEF VoucherRecordClose
<1>9. CASE VoucherLoad(r) /\ VoucherRefused(r)
  BY <1>4, <1>9
<1>10. CASE \/ VoucherRead(r) \/ VoucherBackground(r)
            \/ VoucherLoad(r) /\ ~VoucherRefused(r)
            \/ VoucherLoadStored(r) \/ VoucherReconcile(r)
  <2>1. /\ \A q \in Vouchers \ {r} : vouchers'[q] = vouchers[q]
        /\ \/ vouchers'[r].pc \notin {"accepted", "refused"}
           \/ /\ vouchers'[r].pc = v.pc /\ vouchers'[r].amount = v.amount
              /\ vouchers'[r].requireAdvance = v.requireAdvance
    <3>1. CASE VoucherRead(r)
      BY <1>1, <3>1 DEF VoucherRead
    <3>2. CASE VoucherBackground(r)
      BY <1>1, <3>2 DEF VoucherBackground, VoucherCall
    <3>3. CASE VoucherLoad(r) /\ ~VoucherRefused(r)
      BY <1>1, <3>3 DEF VoucherLoad, VoucherCall
    <3>4. CASE VoucherLoadStored(r)
      BY <1>1, <3>4 DEF VoucherLoadStored, VoucherCall
    <3>5. CASE VoucherReconcile(r)
      <4>1. PICK next \in {"recordClose", "checked"} :
              \/ vouchers' = [vouchers EXCEPT ![r].pc = next, ![r].state = v.read,
                                              ![r].highest = ch.highest]
              \/ vouchers' = [vouchers EXCEPT ![r].pc = next, ![r].state = v.read]
        BY <3>5 DEF VoucherReconcile
      <4> QED
        BY <1>1, <4>1 DEF VoucherCall
    <3> QED
      BY <1>10, <3>1, <3>2, <3>3, <3>4, <3>5
  <2> QED
    BY <1>2, <2>1, VoucherAdvances DEF Advanced
<1> QED
  BY <1>6, <1>7, <1>8, <1>9, <1>10

LEMMA OpenAdvanceOK ==
    ASSUME IInv, IInv', AdvanceInv, Advances(ch, ch'), NEW o \in Opens,
           OpenLand(o) \/ OpenReplay(o) \/ OpenStore(o)
    PROVE  AdvanceInv'
<1>1. /\ opens \in [Opens -> OpenCall] /\ ch \in State
      /\ opens[o].amount \in Nat /\ opens[o].read \in ChainState /\ opens[o].read.settled = 0
  BY DEF IInv, OpenInv, OpenCall, RecordInv
<1>2. UNCHANGED vouchers
  BY DEF OpenLand, OpenReplay, OpenStore
<1>3. CASE OpenLand(o) \/ OpenReplay(o)
  <2>1. opens'[o].pc = "landed" /\ \A q \in Opens \ {o} : opens'[q] = opens[q]
    <3>1. CASE OpenLand(o)
      <4>1. PICK amount \in VoucherAmounts, deposit \in Deposits, requireAdvance \in BOOLEAN :
              opens' = [opens EXCEPT ![o] =
                [pc |-> "landed", amount |-> amount, requireAdvance |-> requireAdvance,
                 read |-> [deposit |-> deposit, settled |-> 0, closeRequestedAt |-> 0]]]
        BY <3>1 DEF OpenLand
      <4> QED
        BY <1>1, <4>1
    <3>2. CASE OpenReplay(o)
      <4>1. PICK amount \in VoucherAmounts, requireAdvance \in BOOLEAN :
              opens' = [opens EXCEPT ![o] =
                [pc |-> "landed", amount |-> amount, requireAdvance |-> requireAdvance,
                 read |-> [deposit |-> escrow.opened, settled |-> 0,
                           closeRequestedAt |-> 0]]]
        BY <3>2 DEF OpenReplay
      <4> QED
        BY <1>1, <4>1
    <3> QED
      BY <1>3, <3>1, <3>2
  <2> QED
    BY <1>2, <2>1, OpenAdvances DEF Opened
<1>4. CASE OpenStore(o)
  <2>1. /\ opens'[o].pc \in {"refused", "done"} /\ opens'[o].amount = opens[o].amount
        /\ opens'[o].requireAdvance = opens[o].requireAdvance
        /\ \A q \in Opens \ {o} : opens'[q] = opens[q]
    BY <1>1, <1>4 DEF OpenStore, OpenCall
  <2>2. ASSUME Opened(o)' PROVE Brings(opens'[o].amount)
    <3>1. opens'[o].pc = "done" /\ opens[o].requireAdvance
      BY <2>1, <2>2 DEF Opened
    <3>2. /\ ~(ch.exists /\ opens[o].amount <= ch.highest)
          /\ ch' = openChannelState(ch, opens[o].amount, opens[o].read)
      BY <1>1, <1>4, <3>1 DEF OpenStore, OpenCall
    <3>3. ch'.exists /\ ch'.highest >= opens[o].amount
      BY <1>1, <3>2, OpenSteady
    <3>4. ch.highest \in Nat /\ ch'.highest \in Nat
      BY DEF IInv, RecordInv, State
    <3> QED
      BY <1>1, <2>1, <3>2, <3>3, <3>4 DEF Brings
  <2> QED
    BY <1>2, <2>1, <2>2, OpenAdvances
<1> QED
  BY <1>3, <1>4

LEMMA NextAdvances ==
    ASSUME IInv, FundInv, AdvanceInv, [Next]_vars
    PROVE  AdvanceInv'
<1>1. IInv' /\ Advances(ch, ch')
  BY NextOK, NextFunds DEF RecordMoves
<1>2. CASE OpenStep
  BY <1>1, <1>2, OpenAdvanceOK DEF OpenStep
<1>3. CASE VoucherStep
  BY <1>1, <1>3, VoucherAdvanceOK DEF VoucherStep
<1>4. CASE Tick \/ PayerStep \/ TopUpStep \/ AccountingStep \/ UNCHANGED vars
  <2>1. UNCHANGED <<opens, vouchers>>
    BY <1>4 DEF Tick, PayerStep, PayerRequestClose, PayerWithdraw, TopUpStep, TopUpLand,
                TopUpStore, AccountingStep, Charge, Credit, vars, calls
  <2> QED
    BY <1>1, <2>1, NothingAdvances
<1>5. CASE SettleStep \/ CloseStep \/ SuperviseStep
  <2>1. CASE SettleStep
    BY <1>1, <2>1, NothingAdvances
    DEF SettleStep, SettleClaim, SettleSend, SettleMine, SettleCheckpoint, SettleRelease,
        SettlementUnchanged
  <2>2. CASE CloseStep
    BY <1>1, <2>2, NothingAdvances
    DEF CloseStep, CloseRead, CloseMark, CloseSend, CloseMine, CloseFinalize, CloseFail,
        CloseUnchanged
  <2>3. CASE SuperviseStep
    BY <1>1, <2>3, NothingAdvances
    DEF SuperviseStep, SuperviseRead, SuperviseClosed, SuperviseOpen, SuperviseClosing,
        SuperviseSend, SuperviseMine, SuperviseFinalize, SupervisorUnchanged
  <2> QED
    BY <1>5, <2>1, <2>2, <2>3
<1> QED
  BY <1>2, <1>3, <1>4, <1>5 DEF Next

LEMMA InitAdvances == Init => AdvanceInv
BY DEF Init, AdvanceInv, Opened, Advanced

\* Equal members only: at most one.
LEMMA AtMostOne ==
    ASSUME NEW S, \A x, y \in S : x = y
    PROVE  Cardinality(S) <= 1
<1>1. CASE S = {}
  BY <1>1, FS_EmptySet
<1>2. CASE S # {}
  <2>1. PICK x \in S : S = {x}
    BY <1>2
  <2> QED
    BY <2>1, FS_Singleton
<1> QED
  BY <1>1, <1>2

\* Two requests that require their voucher to add funds never both get the same
\* one, whichever of them opens the channel or advances it.
THEOREM VoucherPaysOneRequest == Spec => []OneRequestPerVoucher
<1>1. AdvanceInv => OneRequestPerVoucher
  <2> SUFFICES ASSUME AdvanceInv, NEW amount \in VoucherAmounts
               PROVE  Cardinality(AdvancedTo(amount)) <= 1
    BY DEF OneRequestPerVoucher
  <2>1. \A x, y \in AdvancedTo(amount) : x = y
    BY DEF AdvancedTo, AdvanceInv, Opened, Advanced
  <2> QED
    BY <2>1, AtMostOne
<1>2. IInv /\ FundInv /\ AdvanceInv /\ [Next]_vars => FundInv' /\ AdvanceInv'
  BY NextFunds, NextAdvances
<1> QED
  BY Inductive, InitFunds, InitAdvances, <1>1, <1>2, PTL DEF Spec
=============================================================================
