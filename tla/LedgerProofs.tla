----------------------------- MODULE LedgerProofs -----------------------------
(***************************************************************************)
(* SessionChannel implements ChannelLedger, for every set of calls, amount *)
(* and bound: a step of a handler, a supervisor, the payer or the escrow   *)
(* is one step of the ledger, or leaves it alone.                          *)
(*                                                                         *)
(* A step maps to the ledger because of what the call that takes it holds: *)
(* LedgerInv adds to IInv that every deposit a call read is covered by     *)
(* what was ever deposited, that what it settles or closes with is         *)
(* authorized, and that a close which mined is the escrow's last word.     *)
(***************************************************************************)
EXTENDS SessionChannelProofs

-----------------------------------------------------------------------------
(* What each update does to the fields the ledger sees *)

\* Noted(c, d): nothing is authorized, charged or finalized between c and d.
Noted(c, d) ==
    d.highest = c.highest /\ d.spent = c.spent /\ d.finalized = c.finalized

LEMMA MergeNotes ==
    ASSUME NEW c \in State, NEW s \in ChainState,
           NEW d \in {mergeActiveOnChainState(c, s), pendingCloseState(c, s),
                      backgroundReadState(c, s), topUpChannelState(c, s)}
    PROVE  /\ Noted(c, d) /\ d.exists = c.exists
           /\ d.deposit \in {c.deposit, s.deposit}
<1>1. CASE d = mergeActiveOnChainState(c, s)
  BY <1>1, MergeSteady DEF Noted
<1>2. CASE d = pendingCloseState(c, s)
  BY <1>2 DEF pendingCloseState, State, Noted
<1>3. CASE d = c
  BY <1>3 DEF Noted
<1> QED
  BY <1>1, <1>2, <1>3 DEF backgroundReadState, topUpChannelState

\* A merge leaves a record without a close request without one, unless it reads one.
LEMMA MergeKeepsOpen ==
    ASSUME NEW c \in State, NEW s \in ChainState
    PROVE  LET d == mergeActiveOnChainState(c, s)
           IN  s.closeRequestedAt = 0 => d.closeRequestedAt = c.closeRequestedAt
BY DEF mergeActiveOnChainState, keepGreater, State, ChainState

LEMMA ClaimNotes ==
    ASSUME NEW c \in State, NEW a \in Nat, NEW e \in Nat, NEW now \in Nat
    PROVE  LET d == claimSettlement(c, a, e, now)
           IN  Noted(c, d) /\ d.exists = c.exists /\ d.deposit = c.deposit
<1> DEFINE p == IF c.pendingSettlement.expiresAt > now
                THEN [amount    |-> keepGreater(c.pendingSettlement.amount, a),
                      expiresAt |-> keepGreater(c.pendingSettlement.expiresAt, e)]
                ELSE [amount |-> a, expiresAt |-> e]
<1>1. claimSettlement(c, a, e, now) = [c EXCEPT !.pendingSettlement = p]
  BY DEF claimSettlement, State
<1> HIDE DEF p
<1> QED
  BY <1>1 DEF State, Noted

\* The other updates of a settlement, and those of a close before it lands.
LEMMA MarkerNotes ==
    ASSUME NEW c \in State, NEW n, NEW e, NEW s, NEW t,
           NEW d \in {releaseSettlement(c, n, e), checkpointSettlement(c, n),
                      reconcileExpiredPendingClose(c, t, s), markPendingClose(c, t),
                      clearPendingClose(c, t)}
    PROVE  Noted(c, d) /\ d.exists = c.exists /\ d.deposit = c.deposit
<1>1. CASE d = releaseSettlement(c, n, e)
  BY <1>1 DEF releaseSettlement, State, Noted
<1>2. CASE d = checkpointSettlement(c, n)
  BY <1>2 DEF checkpointSettlement, State, Noted
<1>3. CASE d = reconcileExpiredPendingClose(c, t, s)
  BY <1>3 DEF reconcileExpiredPendingClose, State, Noted
<1>4. CASE d = markPendingClose(c, t)
  BY <1>4 DEF markPendingClose, State, Noted
<1>5. CASE d = clearPendingClose(c, t)
  BY <1>5 DEF clearPendingClose, State, Noted
<1> QED
  BY <1>1, <1>2, <1>3, <1>4, <1>5

\* An accepted voucher is the new highest one; otherwise the record merges.
LEMMA AcceptLedger ==
    ASSUME NEW c \in State, NEW v \in Nat, NEW s \in ChainState
    PROVE  LET d == acceptVoucherStateUpdate(c, v, s)
           IN  /\ d.spent = c.spent /\ d.finalized = c.finalized /\ d.exists = c.exists
               /\ d.deposit \in {c.deposit, s.deposit}
               /\ d.highest = c.highest \/ (d.highest = v /\ v > c.highest)
               /\ s.closeRequestedAt = 0 => d.closeRequestedAt = c.closeRequestedAt
<1> DEFINE m == mergeActiveOnChainState(c, s)
           d == acceptVoucherStateUpdate(c, v, s)
<1>1. /\ m \in State /\ Noted(c, m) /\ m.exists = c.exists
      /\ m.deposit \in {c.deposit, s.deposit}
      /\ s.closeRequestedAt = 0 => m.closeRequestedAt = c.closeRequestedAt
  BY MergeKeeps, MergeNotes, MergeKeepsOpen
<1>2. CASE v <= c.highest
  BY <1>1, <1>2 DEF acceptVoucherStateUpdate, Noted
<1>3. CASE ~(v <= c.highest)
  <2>1. d = [m EXCEPT !.highest = v,
                      !.retained = retainVouchers(c, v, m.settledOnChain)]
    BY <1>3 DEF acceptVoucherStateUpdate
  <2>2. /\ d.exists = m.exists /\ d.finalized = m.finalized /\ d.spent = m.spent
        /\ d.closeRequestedAt = m.closeRequestedAt /\ d.deposit = m.deposit
        /\ d.highest = v /\ v > c.highest
    BY <1>1, <1>3, <2>1 DEF State
  <2> HIDE DEF d, m
  <2> QED
    BY <1>1, <2>2 DEF Noted, d
<1> QED
  BY <1>2, <1>3

\* So is the voucher of an open.
LEMMA OpenLedgerOK ==
    ASSUME NEW c \in State, NEW v \in Nat, NEW s \in ChainState,
           s.settled = 0, s.closeRequestedAt = 0
    PROVE  LET d == openChannelState(c, v, s)
           IN  /\ d.spent = c.spent /\ d.finalized = c.finalized
               /\ d.deposit \in {c.deposit, s.deposit}
               /\ d.highest = c.highest \/ (d.highest = v /\ v > c.highest)
               /\ d.closeRequestedAt = c.closeRequestedAt
<1> DEFINE m == mergeActiveOnChainState(c, s)
           h == keepGreater(c.highest, v)
           r == IF h > c.highest THEN retainVouchers(c, h, m.settledOnChain) ELSE c.retained
           d == openChannelState(c, v, s)
<1>1. /\ m \in State /\ Noted(c, m)
      /\ m.deposit \in {c.deposit, s.deposit}
      /\ m.closeRequestedAt = c.closeRequestedAt
  BY MergeKeeps, MergeNotes, MergeKeepsOpen
<1>2. m.retained = c.retained /\ m.spent = c.spent
  BY <1>1 DEF mergeActiveOnChainState, State, Noted
<1>3. h = c.highest \/ (h = v /\ v > c.highest)
  BY DEF keepGreater, State
<1>4. keepGreater(c.spent, s.settled) = c.spent
  BY DEF keepGreater, State
<1>5. d = [m EXCEPT !.exists = TRUE, !.highest = h, !.retained = r, !.spent = c.spent]
  BY <1>2, <1>4 DEF openChannelState
<1> HIDE DEF m, h, r, d
<1>6. /\ d.highest = h /\ d.spent = c.spent /\ d.finalized = m.finalized
      /\ d.closeRequestedAt = m.closeRequestedAt /\ d.deposit = m.deposit
  BY <1>1, <1>5 DEF State
<1> QED
  BY <1>1, <1>3, <1>6 DEF Noted, d

\* A credit takes back what is neither settled nor settling, or nothing.
LEMMA CreditLedger ==
    ASSUME NEW c \in State, NEW k \in CreditKeys, NEW a \in Nat \ {0}, NEW now \in Nat
    PROVE  LET d == planCredit(c, k, a, now)
           IN  /\ d.highest = c.highest /\ d.finalized = c.finalized
               /\ d.exists = c.exists /\ d.deposit = c.deposit
               /\ d.settledOnChain = c.settledOnChain
               /\ d.closeRequestedAt = c.closeRequestedAt
               /\ \/ d.spent = c.spent
                  \/ /\ ~c.finalized /\ c.closeRequestedAt = 0
                     /\ c.settledOnChain <= d.spent /\ d.spent < c.spent
<1> DEFINE o == creditDeclineReason(c, a, now)
           d == planCredit(c, k, a, now)
<1>1. o = "credited" =>
        /\ ~c.finalized /\ c.closeRequestedAt = 0 /\ a <= c.spent
        /\ c.settledOnChain <= c.spent - a
  <2>1. SettlingFloor(c, now) \in Nat
    BY DEF SettlingFloor, State
  <2> HIDE DEF SettlingFloor
  <2> QED
    BY <2>1 DEF creditDeclineReason, keepGreater, State
<1>2. d = [c EXCEPT !.spent = IF o = "credited" THEN c.spent - a ELSE c.spent,
                    !.markers = [c.markers EXCEPT ![k] = [outcome |-> o, amount |-> a]]]
  BY DEF planCredit, State
<1> HIDE DEF o, d
<1>3. /\ d.exists = c.exists /\ d.finalized = c.finalized /\ d.highest = c.highest
      /\ d.closeRequestedAt = c.closeRequestedAt /\ d.deposit = c.deposit
      /\ d.settledOnChain = c.settledOnChain
      /\ d.spent = IF o = "credited" THEN c.spent - a ELSE c.spent
  BY <1>2 DEF State
<1>4. c.spent \in Nat
  BY DEF State
<1> QED
  BY <1>1, <1>3, <1>4 DEF d

LEMMA FinalizeLedger ==
    ASSUME NEW c \in State, NEW capture \in Nat, NEW v \in Nat
    PROVE  LET d == finalizeClosedChannelState(c, capture, v)
           IN  /\ d.finalized /\ d.spent = c.spent /\ d.exists = c.exists /\ d.deposit = 0
               /\ d.settledOnChain = keepGreater(c.settledOnChain, capture)
BY DEF finalizeClosedChannelState, State

-----------------------------------------------------------------------------
(* What the ledger rests on *)

\* What was ever deposited covers n.
Deposited(n) == n <= escrow.deposit

EscrowLedger ==
    /\ escrow.phase = "absent" => escrow.deposit = 0 /\ escrow.settled = 0
    /\ escrow.phase # "absent" => escrow.deposit > 0
    /\ Deposited(escrow.settled) /\ Deposited(escrow.opened)

RecordLedger ==
    /\ ch.exists => escrow.phase # "absent"
    /\ Deposited(ch.deposit)
    /\ escrow.settled <= ch.highest
    /\ ch.finalized => escrow.phase = "closed" /\ ch.settledOnChain = escrow.settled

OpenLedger == \A o \in Opens :
    /\ opens[o].pc = "landed" => escrow.phase # "absent"
    /\ Deposited(opens[o].amount) /\ Deposited(opens[o].read.deposit)
    /\ opens[o].read.closeRequestedAt = 0

TopUpLedger == \A t \in TopUps : Deposited(topUps[t].read.deposit)

VoucherLedger == \A r \in Vouchers :
    Deposited(vouchers[r].read.deposit) /\ Deposited(vouchers[r].state.deposit)

SettleLedger == \A s \in Settlements : settlements[s].amount <= ch.highest

\* A close in flight captures what is authorized; once mined it is what the
\* escrow paid in all.
CloseLedger == \A c \in Closes :
    /\ closes[c].capture <= ch.highest
    /\ closes[c].tx = "landed" =>
          escrow.phase = "closed" /\ closes[c].capture = escrow.settled

SuperviseLedger == \A p \in Supervisors :
    /\ Deposited(supervisors[p].read.deposit)
    /\ supervisors[p].capture <= ch.highest
    /\ supervisors[p].tx = "landed" =>
          escrow.phase = "closed" /\ supervisors[p].capture = escrow.settled
    /\ supervisors[p].pc = "read" /\ supervisors[p].read.deposit = 0 =>
          escrow.phase = "closed" /\ supervisors[p].paid = escrow.settled

LedgerInv ==
    /\ EscrowLedger
    /\ RecordLedger
    /\ OpenLedger
    /\ TopUpLedger
    /\ VoucherLedger
    /\ SettleLedger
    /\ CloseLedger
    /\ SuperviseLedger

\* A step is one of the ledger, or none.
LedgerStep == [Ledger!LedgerNext]_(Ledger!ledger)

\* What no step does to the escrow: shrink the deposit, or pay after a close.
EscrowKeeps ==
    /\ escrow'.deposit >= escrow.deposit
    /\ escrow.phase # "absent" => escrow'.phase # "absent"
    /\ escrow.phase = "closed" => escrow'.phase = "closed" /\ escrow'.settled = escrow.settled

LEMMA InitLedger == Init => LedgerInv /\ Ledger!LedgerInit
BY DEF Init, NoRecord, NoRead, LedgerInv, EscrowLedger, RecordLedger, OpenLedger,
       TopUpLedger, VoucherLedger, SettleLedger, CloseLedger, SuperviseLedger,
       Deposited, Ledger!LedgerInit

LEMMA DepositedStays ==
    ASSUME IInv, EscrowKeeps, escrow' \in Escrow, NEW n \in Nat, Deposited(n)
    PROVE  Deposited(n)'
BY DEF IInv, EscrowInv, Escrow, EscrowKeeps, Deposited

\* What the calls of the other handlers hold stays true.
LEMMA CallsStay ==
    ASSUME IInv, IInv', LedgerInv, EscrowKeeps, Kept(ch, ch')
    PROVE  /\ UNCHANGED opens => OpenLedger'
           /\ UNCHANGED topUps => TopUpLedger'
           /\ UNCHANGED vouchers => VoucherLedger'
           /\ UNCHANGED settlements => SettleLedger'
           /\ UNCHANGED closes => CloseLedger'
           /\ UNCHANGED supervisors => SuperviseLedger'
<1>1. /\ escrow \in Escrow /\ escrow' \in Escrow /\ ch \in State /\ ch' \in State
      /\ ch'.highest >= ch.highest /\ ch.highest \in Nat /\ ch'.highest \in Nat
  BY DEF IInv, EscrowInv, RecordInv, Kept, State
<1>2. UNCHANGED opens => OpenLedger'
  BY <1>1, DepositedStays
  DEF IInv, OpenInv, OpenCall, ChainState, LedgerInv, OpenLedger, EscrowKeeps
<1>3. UNCHANGED topUps => TopUpLedger'
  BY <1>1, DepositedStays DEF IInv, TopUpInv, TopUpCall, ChainState, LedgerInv, TopUpLedger
<1>4. UNCHANGED vouchers => VoucherLedger'
  BY <1>1, DepositedStays
  DEF IInv, VoucherInv, VoucherCall, ChainState, LedgerInv, VoucherLedger
<1>5. UNCHANGED settlements => SettleLedger'
  BY <1>1 DEF IInv, SettleInv, SettleCall, LedgerInv, SettleLedger
<1>6. UNCHANGED closes => CloseLedger'
  BY <1>1 DEF IInv, CloseInv, CloseCall, LedgerInv, CloseLedger, EscrowKeeps
<1>7. UNCHANGED supervisors => SuperviseLedger'
  BY <1>1, DepositedStays
  DEF IInv, SuperviseInv, SuperviseCall, ChainState, LedgerInv, SuperviseLedger, EscrowKeeps
<1> QED
  BY <1>2, <1>3, <1>4, <1>5, <1>6, <1>7

\* A step of the server leaves the escrow alone.
LEMMA EscrowSame ==
    ASSUME IInv, LedgerInv, UNCHANGED escrow
    PROVE  EscrowKeeps /\ EscrowLedger'
BY DEF IInv, EscrowInv, Escrow, EscrowKeeps, LedgerInv, EscrowLedger, Deposited

\* What a finalized record claims stays what the closed escrow paid.
LEMMA FinalStays ==
    ASSUME IInv, IInv', LedgerInv, UNCHANGED escrow, Kept(ch, ch'), ch.finalized
    PROVE  ch'.settledOnChain = escrow.settled
<1>1. ch.settledOnChain = escrow.settled
  BY DEF LedgerInv, RecordLedger
<1>2. /\ ch.settledOnChain <= ch'.settledOnChain /\ ch'.settledOnChain <= escrow.settled
      /\ ch.settledOnChain \in Nat /\ ch'.settledOnChain \in Nat /\ escrow.settled \in Nat
  BY DEF IInv, RecordInv, EscrowInv, State, Escrow, Kept
<1> QED
  BY <1>1, <1>2

\* Whatever update learns from the chain without authorizing, charging or
\* finalizing is a note, or nothing.
LEMMA NoteStep ==
    ASSUME IInv, IInv', LedgerInv, UNCHANGED escrow, Kept(ch, ch'), Noted(ch, ch'),
           ch'.exists => escrow.phase # "absent", Deposited(ch'.deposit)
    PROVE  RecordLedger' /\ LedgerStep
<1>1. /\ ch \in State /\ ch' \in State /\ escrow \in Escrow
      /\ ch.settledOnChain <= ch'.settledOnChain
      /\ ch.settledOnChain <= escrow.settled /\ ch'.settledOnChain <= escrow.settled
  BY DEF IInv, RecordInv, EscrowInv, Kept
<1>2. RecordLedger'
  BY <1>1, FinalStays DEF Noted, LedgerInv, RecordLedger, Deposited
<1>3. Ledger!Note /\ UNCHANGED Ledger!escrowAccount
  BY <1>1 DEF Noted, Ledger!Note, Ledger!Learn, Ledger!escrowAccount
<1> QED
  BY <1>2, <1>3 DEF LedgerStep, Ledger!LedgerNext

LEMMA SameRecord ==
    ASSUME IInv, IInv', LedgerInv, UNCHANGED <<escrow, ch>>
    PROVE  Kept(ch, ch') /\ RecordLedger' /\ LedgerStep
<1>1. ch \in State
  BY DEF IInv, RecordInv
<1>2. RecordLedger'
  BY DEF LedgerInv, RecordLedger, Deposited
<1> QED
  BY <1>1, <1>2 DEF Kept, State, LedgerStep, Ledger!ledger, Ledger!escrowAccount, Ledger!record

-----------------------------------------------------------------------------
(* The payer, opens and top-ups *)

LEMMA PayerLedger ==
    ASSUME IInv, IInv', LedgerInv, Kept(ch, ch'), Tick \/ PayerStep
    PROVE  LedgerInv' /\ LedgerStep
<1>1. /\ escrow \in Escrow /\ escrow' \in Escrow /\ ch \in State
      /\ UNCHANGED <<ch, calls>>
  BY DEF IInv, EscrowInv, RecordInv, Tick, PayerStep, PayerRequestClose, PayerWithdraw
<1>2. CASE /\ escrow'.phase = escrow.phase /\ escrow'.deposit = escrow.deposit
           /\ escrow'.settled = escrow.settled /\ escrow'.opened = escrow.opened
  <2>1. EscrowKeeps /\ EscrowLedger' /\ RecordLedger'
    BY <1>1, <1>2
    DEF EscrowKeeps, LedgerInv, EscrowLedger, RecordLedger, Deposited, Escrow
  <2>2. LedgerStep
    BY <1>1, <1>2 DEF LedgerStep, Ledger!ledger, Ledger!escrowAccount, Ledger!record
  <2> QED
    BY <1>1, <2>1, <2>2, CallsStay DEF calls, LedgerInv
<1>3. CASE PayerWithdraw
  <2>1. /\ escrow.phase = "open" /\ escrow'.phase = "closed"
        /\ escrow'.deposit = escrow.deposit /\ escrow'.opened = escrow.opened
        /\ escrow'.settled = escrow.settled
    BY <1>1, <1>3 DEF PayerWithdraw, ClosedWith, Escrow
  <2>2. EscrowKeeps /\ EscrowLedger' /\ RecordLedger'
    BY <1>1, <2>1
    DEF EscrowKeeps, LedgerInv, EscrowLedger, RecordLedger, Deposited, Escrow
  <2>3. Ledger!Capture /\ UNCHANGED Ledger!record
    BY <1>1, <2>1
    DEF LedgerInv, EscrowLedger, RecordLedger, Deposited, Escrow, Ledger!Capture, Ledger!record
  <2> QED
    BY <1>1, <2>2, <2>3, CallsStay DEF calls, LedgerInv, LedgerStep, Ledger!LedgerNext
<1>4. CASE PayerRequestClose
  <2>1. PICK t \in BlockTimes : escrow' = [escrow EXCEPT !.closeRequestedAt = t]
    BY <1>4 DEF PayerRequestClose
  <2> QED
    BY <1>1, <1>2, <2>1 DEF Escrow
<1> QED
  BY <1>2, <1>3, <1>4 DEF Tick, PayerStep

LEMMA OpenStepLedger ==
    ASSUME IInv, IInv', LedgerInv, Kept(ch, ch'), NEW o \in Opens,
           OpenLand(o) \/ OpenReplay(o) \/ OpenStore(o)
    PROVE  LedgerInv' /\ LedgerStep
<1>1. /\ opens \in [Opens -> OpenCall] /\ escrow \in Escrow /\ escrow' \in Escrow
      /\ opens[o].amount \in Nat /\ opens[o].read \in ChainState
      /\ opens[o].read.settled = 0 /\ opens[o].read.closeRequestedAt = 0
      /\ ch \in State /\ ch' \in State
      /\ EscrowLedger /\ RecordLedger /\ OpenLedger
  BY DEF IInv, OpenInv, OpenCall, EscrowInv, RecordInv, LedgerInv, OpenLedger
<1>2. CASE OpenLand(o)
  <2>1. PICK amount \in VoucherAmounts, deposit \in Deposits, requireAdvance \in BOOLEAN :
          /\ amount <= deposit
          /\ escrow' = [escrow EXCEPT !.phase = "open", !.opened = deposit,
                                      !.deposit = deposit]
          /\ opens' = [opens EXCEPT ![o] =
                [pc |-> "landed", amount |-> amount, requireAdvance |-> requireAdvance,
                 read |-> [deposit |-> deposit, settled |-> 0, closeRequestedAt |-> 0]]]
    BY <1>2 DEF OpenLand
  <2>2. /\ amount \in Nat /\ deposit \in Nat \ {0} /\ escrow.phase = "absent"
        /\ escrow'.phase = "open" /\ escrow'.deposit = deposit /\ escrow'.opened = deposit
        /\ escrow'.settled = escrow.settled /\ UNCHANGED ch
    BY <1>1, <1>2, <2>1, ChannelConstants DEF OpenLand, Escrow
  <2>3. EscrowKeeps /\ EscrowLedger' /\ RecordLedger'
    BY <1>1, <2>2 DEF EscrowKeeps, EscrowLedger, RecordLedger, Deposited, Escrow, State
  <2>4. OpenLedger'
    BY <1>1, <2>1, <2>2
    DEF OpenLedger, OpenCall, ChainState, EscrowLedger, Deposited, Escrow
  <2>5. Ledger!Fund /\ UNCHANGED Ledger!record
    BY <1>1, <2>2 DEF EscrowLedger, Ledger!Fund, Ledger!record
  <2> QED
    BY <1>2, <2>3, <2>4, <2>5, CallsStay
    DEF OpenLand, LedgerInv, LedgerStep, Ledger!LedgerNext
<1>3. CASE OpenReplay(o)
  <2>1. PICK amount \in VoucherAmounts, requireAdvance \in BOOLEAN :
          /\ amount <= escrow.opened
          /\ opens' = [opens EXCEPT ![o] =
                [pc |-> "landed", amount |-> amount, requireAdvance |-> requireAdvance,
                 read |-> [deposit |-> escrow.opened, settled |-> 0,
                           closeRequestedAt |-> 0]]]
    BY <1>3 DEF OpenReplay
  <2>2. /\ amount \in Nat /\ escrow.opened \in Nat /\ escrow.deposit \in Nat
        /\ UNCHANGED <<escrow, ch>> /\ escrow.phase # "absent"
    BY <1>1, <1>3, ChannelConstants DEF Escrow, OpenReplay
  <2>3. OpenLedger'
    BY <1>1, <2>1, <2>2 DEF OpenLedger, OpenCall, EscrowLedger, Deposited
  <2> QED
    BY <1>3, <2>2, <2>3, EscrowSame, SameRecord, CallsStay DEF OpenReplay, LedgerInv
<1>4. CASE OpenStore(o)
  <2>1. UNCHANGED escrow /\ opens[o].pc = "landed"
    BY <1>4 DEF OpenStore
  <2>2. OpenLedger'
    BY <1>1, <1>4, <2>1 DEF OpenStore, OpenLedger, OpenCall, Deposited
  <2>3. RecordLedger' /\ LedgerStep
    <3>1. CASE UNCHANGED ch
      BY <2>1, <3>1, SameRecord
    <3>2. CASE ch' = openChannelState(ch, opens[o].amount, opens[o].read)
      <4>1. /\ ch'.spent = ch.spent /\ ch'.finalized = ch.finalized
            /\ ch'.deposit \in {ch.deposit, opens[o].read.deposit}
            /\ \/ ch'.highest = ch.highest
               \/ ch'.highest = opens[o].amount /\ opens[o].amount > ch.highest
            /\ ch'.closeRequestedAt = ch.closeRequestedAt
        BY <1>1, <3>2, OpenLedgerOK
      <4>2. escrow.phase # "absent" /\ Deposited(ch'.deposit) /\ Deposited(opens[o].amount)
        BY <1>1, <2>1, <4>1 DEF OpenLedger, RecordLedger
      <4>3. CASE ch'.highest = ch.highest
        BY <2>1, <4>1, <4>2, <4>3, NoteStep DEF Noted
      <4>4. CASE ch'.highest = opens[o].amount /\ opens[o].amount > ch.highest
        <5>1. /\ ch.settledOnChain <= ch'.settledOnChain
              /\ ch'.settledOnChain <= escrow.settled
          BY <1>1, <2>1 DEF IInv, RecordInv, Kept, State
        <5>2. Ledger!Accept /\ UNCHANGED Ledger!escrowAccount
          BY <2>1, <4>1, <4>2, <4>4, <5>1
          DEF Deposited, Ledger!Accept, Ledger!Learn, Ledger!Authorizes, Ledger!escrowAccount
        <5>3. RecordLedger'
          BY <1>1, <2>1, <4>1, <4>2, <4>4, FinalStays DEF RecordLedger, Deposited, State, Escrow
        <5> QED
          BY <5>2, <5>3 DEF LedgerStep, Ledger!LedgerNext
      <4> QED
        BY <4>1, <4>3, <4>4
    <3> QED
      BY <1>4, <3>1, <3>2 DEF OpenStore
  <2> QED
    BY <1>4, <2>1, <2>2, <2>3, EscrowSame, CallsStay DEF OpenStore, LedgerInv
<1> QED
  BY <1>2, <1>3, <1>4

LEMMA TopUpStepLedger ==
    ASSUME IInv, IInv', LedgerInv, Kept(ch, ch'), NEW t \in TopUps,
           TopUpLand(t) \/ TopUpStore(t)
    PROVE  LedgerInv' /\ LedgerStep
<1>1. /\ topUps \in [TopUps -> TopUpCall] /\ escrow \in Escrow /\ escrow' \in Escrow
      /\ topUps[t].read \in ChainState /\ ch \in State
      /\ EscrowLedger /\ RecordLedger /\ TopUpLedger
  BY DEF IInv, TopUpInv, TopUpCall, EscrowInv, RecordInv, LedgerInv
<1>2. CASE TopUpLand(t)
  <2>1. PICK amount \in Deposits :
          escrow' = [escrow EXCEPT !.deposit = @ + amount, !.closeRequestedAt = 0]
    BY <1>2 DEF TopUpLand
  <2>2. /\ escrow.phase = "open" /\ escrow'.phase = "open" /\ escrow'.opened = escrow.opened
        /\ escrow'.deposit > escrow.deposit /\ escrow'.settled = escrow.settled
        /\ UNCHANGED ch
    <3> DEFINE n == escrow.deposit + amount
    <3>1. n \in Nat /\ n > escrow.deposit
      BY <1>1, ChannelConstants DEF Escrow
    <3>2. escrow' = [escrow EXCEPT !.deposit = n, !.closeRequestedAt = 0]
      BY <2>1
    <3> HIDE DEF n
    <3> QED
      BY <1>1, <1>2, <3>1, <3>2 DEF TopUpLand, Escrow
  <2>3. EscrowKeeps /\ EscrowLedger' /\ RecordLedger'
    BY <1>1, <2>2 DEF EscrowKeeps, EscrowLedger, RecordLedger, Deposited, Escrow, State
  <2>4. TopUpLedger'
    <3> DEFINE read == [deposit |-> escrow'.deposit, settled |-> escrow.settled,
                        closeRequestedAt |-> 0]
    <3>1. topUps' = [topUps EXCEPT ![t] = [pc |-> "landed", read |-> read]]
      BY <1>2 DEF TopUpLand
    <3>2. read.deposit = escrow'.deposit /\ escrow'.deposit \in Nat
      BY <1>1 DEF Escrow
    <3> HIDE DEF read
    <3>3. /\ topUps'[t].read.deposit = escrow'.deposit
          /\ \A q \in TopUps \ {t} : topUps'[q] = topUps[q]
      BY <1>1, <3>1, <3>2
    <3>4. \A q \in TopUps : topUps[q].read.deposit \in Nat /\ Deposited(topUps[q].read.deposit)
      BY <1>1 DEF TopUpLedger, TopUpCall, ChainState
    <3> QED
      BY <1>1, <2>2, <3>2, <3>3, <3>4 DEF TopUpLedger, Deposited, Escrow
  <2>5. Ledger!Fund /\ UNCHANGED Ledger!record
    BY <2>2 DEF Ledger!Fund, Ledger!record
  <2> QED
    BY <1>2, <2>3, <2>4, <2>5, CallsStay
    DEF TopUpLand, LedgerInv, LedgerStep, Ledger!LedgerNext
<1>3. CASE TopUpStore(t)
  <2>1. UNCHANGED escrow
    BY <1>3 DEF TopUpStore
  <2>2. TopUpLedger'
    BY <1>1, <1>3, <2>1 DEF TopUpStore, TopUpLedger, TopUpCall, Deposited
  <2>3. /\ Noted(ch, ch') /\ ch'.exists = ch.exists
        /\ ch'.deposit \in {ch.deposit, topUps[t].read.deposit}
    BY <1>1, <1>3, MergeNotes DEF TopUpStore
  <2>4. RecordLedger' /\ LedgerStep
    BY <1>1, <2>1, <2>3, NoteStep DEF RecordLedger, TopUpLedger
  <2> QED
    BY <1>3, <2>1, <2>2, <2>4, EscrowSame, CallsStay DEF TopUpStore, LedgerInv
<1> QED
  BY <1>2, <1>3

-----------------------------------------------------------------------------
(* Charges, credits and vouchers *)

\* What a charge within the accepted vouchers is to the ledger, whether or not
\* a voucher comes with it.
LEMMA ChargeStep ==
    ASSUME IInv, IInv', LedgerInv, UNCHANGED escrow, Kept(ch, ch'),
           ~ch.finalized, ch.closeRequestedAt = 0,
           ch'.finalized = ch.finalized, ch'.closeRequestedAt = 0, ch'.exists = ch.exists,
           \/ ch'.highest = ch.highest
           \/ ch'.highest > ch.highest /\ Deposited(ch'.highest),
           ch'.spent > ch.spent, Deposited(ch'.deposit)
    PROVE  RecordLedger' /\ LedgerStep
<1>1. /\ ch \in State /\ ch' \in State /\ escrow \in Escrow
      /\ ch.settledOnChain <= ch'.settledOnChain
      /\ ch.settledOnChain <= escrow.settled /\ ch'.settledOnChain <= escrow.settled
      /\ ch'.spent <= ch'.highest
  BY DEF IInv, RecordInv, EscrowInv, Kept, Within
<1>2. RecordLedger'
  BY <1>1 DEF LedgerInv, RecordLedger, Deposited, State, Escrow
<1>3. Ledger!Charge /\ UNCHANGED Ledger!escrowAccount
  BY <1>1
  DEF Deposited, Ledger!Charge, Ledger!Learn, Ledger!Authorizes, Ledger!escrowAccount
<1> QED
  BY <1>2, <1>3 DEF LedgerStep, Ledger!LedgerNext

LEMMA AccountingLedger ==
    ASSUME IInv, IInv', LedgerInv, Kept(ch, ch'), AccountingStep
    PROVE  LedgerInv' /\ LedgerStep
<1>1. /\ ch \in State /\ ch' \in State /\ clock \in Nat /\ RecordLedger
      /\ UNCHANGED <<escrow, calls>>
  BY DEF IInv, RecordInv, EscrowInv, LedgerInv, AccountingStep, Charge, Credit
<1>2. RecordLedger' /\ LedgerStep
  <2>1. PICK amount \in Charges :
          Charge(amount) \/ \E key \in CreditKeys : Credit(key, amount)
    BY DEF AccountingStep
  <2>2. amount \in Nat \ {0}
    BY ChannelConstants
  <2>3. CASE Charge(amount)
    <3>1. /\ ~ch.finalized /\ ch.closeRequestedAt = 0
          /\ ch' = [ch EXCEPT !.spent = @ + amount]
      BY <2>3 DEF Charge, CanDeduct, planDeduction
    <3>2. /\ ch'.finalized = ch.finalized /\ ch'.closeRequestedAt = 0
          /\ ch'.exists = ch.exists /\ ch'.highest = ch.highest
          /\ ch'.deposit = ch.deposit /\ ch'.spent > ch.spent
      BY <1>1, <2>2, <3>1 DEF State
    <3> QED
      BY <1>1, <3>1, <3>2, ChargeStep DEF RecordLedger, Deposited
  <2>4. ASSUME NEW key \in CreditKeys, Credit(key, amount)
        PROVE  RecordLedger' /\ LedgerStep
    <3>1. /\ ch'.highest = ch.highest /\ ch'.finalized = ch.finalized
          /\ ch'.exists = ch.exists /\ ch'.deposit = ch.deposit
          /\ ch'.settledOnChain = ch.settledOnChain
          /\ ch'.closeRequestedAt = ch.closeRequestedAt
          /\ \/ ch'.spent = ch.spent
             \/ /\ ~ch.finalized /\ ch.closeRequestedAt = 0
                /\ ch.settledOnChain <= ch'.spent /\ ch'.spent < ch.spent
      <4>1. ch' = planCredit(ch, key, amount, clock)
        BY <2>4 DEF Credit
      <4> QED
        BY <1>1, <2>2, <4>1, CreditLedger
    <3>2. CASE ch'.spent = ch.spent
      BY <1>1, <3>1, <3>2, NoteStep DEF Noted, RecordLedger, Deposited
    <3>3. CASE ch'.spent # ch.spent
      <4>1. RecordLedger'
        BY <1>1, <3>1 DEF RecordLedger, Deposited
      <4>2. Ledger!Credit /\ UNCHANGED Ledger!escrowAccount
        BY <1>1, <3>1, <3>3 DEF Ledger!Credit, Ledger!escrowAccount
      <4> QED
        BY <4>1, <4>2 DEF LedgerStep, Ledger!LedgerNext
    <3> QED
      BY <3>2, <3>3
  <2> QED
    BY <2>1, <2>3, <2>4
<1> QED
  BY <1>1, <1>2, EscrowSame, CallsStay DEF calls, LedgerInv

LEMMA FinishedLedger ==
    ASSUME IInv, LedgerInv, UNCHANGED escrow, NEW r \in Vouchers,
           NEW pc \in {"accepted", "refused"}, NEW background \in BOOLEAN,
           vouchers' = Finished(r, pc, background)
    PROVE  VoucherLedger'
<1>1. /\ vouchers \in [Vouchers -> VoucherCall] /\ escrow \in Escrow /\ VoucherLedger
  BY DEF IInv, VoucherInv, EscrowInv, LedgerInv
<1>2. Deposited(NoRead.deposit)
  BY <1>1 DEF NoRead, Deposited, Escrow
<1>3. /\ vouchers'[r].read \in {vouchers[r].read, NoRead} /\ vouchers'[r].state = NoRead
      /\ \A q \in Vouchers \ {r} : vouchers'[q] = vouchers[q]
  BY <1>1 DEF Finished, VoucherCall
<1> QED
  BY <1>1, <1>2, <1>3 DEF VoucherLedger, Deposited

LEMMA RefusedLedger ==
    ASSUME IInv, IInv', LedgerInv, UNCHANGED escrow, NEW r \in Vouchers, VoucherRefused(r)
    PROVE  VoucherLedger' /\ RecordLedger' /\ LedgerStep
<1>1. vouchers[r].background \in BOOLEAN
  BY DEF IInv, VoucherInv, VoucherCall
<1> QED
  BY <1>1, FinishedLedger, SameRecord DEF VoucherRefused

\* An acceptance authorizes, charges, does both, or only merges what was read.
LEMMA AcceptInLedger ==
    ASSUME IInv, IInv', LedgerInv, UNCHANGED escrow, Kept(ch, ch'), NEW r \in Vouchers,
           NEW state \in ChainState, Deposited(state.deposit), state.closeRequestedAt = 0,
           vouchers[r].amount <= state.deposit,
           NEW background \in BOOLEAN, AcceptIn(r, state, background)
    PROVE  VoucherLedger' /\ RecordLedger' /\ LedgerStep
<1> DEFINE v == vouchers[r]
           accepted == acceptVoucherStateUpdate(ch, v.amount, state)
<1>1. /\ v \in VoucherCall /\ ch \in State /\ ch' \in State /\ v.amount \in Nat
      /\ v.charge \in Nat /\ v.background \in BOOLEAN /\ escrow \in Escrow
      /\ state.deposit \in Nat /\ RecordLedger
  BY DEF IInv, VoucherInv, VoucherCall, RecordInv, EscrowInv, ChainState, LedgerInv
<1>2. CASE VoucherRefused(r)
  BY <1>2, RefusedLedger
<1>3. CASE /\ AcceptsVouchers(ch)
           /\ ch' = planVoucherAcceptance(accepted, v.charge)
           /\ \/ vouchers' = Finished(r, "accepted", background)
              \/ vouchers' = Finished(r, "refused", v.background)
  <2>1. /\ accepted \in State
        /\ accepted.spent = ch.spent /\ accepted.finalized = ch.finalized
        /\ accepted.exists = ch.exists
        /\ accepted.deposit \in {ch.deposit, state.deposit}
        /\ \/ accepted.highest = ch.highest
           \/ accepted.highest = v.amount /\ v.amount > ch.highest
        /\ accepted.closeRequestedAt = ch.closeRequestedAt
    BY <1>1, AcceptKeeps, AcceptLedger
  <2>2. ~ch.finalized /\ ch.closeRequestedAt = 0 /\ ch.exists
    BY <1>3 DEF AcceptsVouchers
  <2>3. Deposited(v.amount) /\ Deposited(accepted.deposit)
    BY <1>1, <2>1 DEF Deposited, RecordLedger, Escrow
  <2> HIDE DEF accepted
  <2>4. /\ ch'.highest = accepted.highest /\ ch'.finalized = accepted.finalized
        /\ ch'.exists = accepted.exists /\ ch'.deposit = accepted.deposit
        /\ ch'.closeRequestedAt = accepted.closeRequestedAt
        /\ ch'.spent = accepted.spent \/ ch'.spent > accepted.spent
    <3>1. CASE ch' = accepted
      BY <3>1
    <3>2. CASE ch' = planDeduction(accepted, v.charge)
      BY <1>1, <2>1, <3>2 DEF planDeduction, State
    <3> QED
      BY <1>3, <3>1, <3>2 DEF planVoucherAcceptance
  <2>5. RecordLedger' /\ LedgerStep
    <3>1. CASE ch'.spent > ch.spent
      BY <2>1, <2>2, <2>3, <2>4, <3>1, ChargeStep
    <3>2. CASE ch'.spent = ch.spent /\ ch'.highest = ch.highest
      BY <1>1, <2>1, <2>3, <2>4, <3>2, NoteStep DEF Noted, RecordLedger
    <3>3. CASE ch'.spent = ch.spent /\ ch'.highest = v.amount /\ v.amount > ch.highest
      <4>1. /\ ch.settledOnChain <= ch'.settledOnChain
            /\ ch'.settledOnChain <= escrow.settled
        BY DEF IInv, RecordInv, Kept
      <4>2. Ledger!Accept /\ UNCHANGED Ledger!escrowAccount
        BY <2>1, <2>3, <2>4, <3>3, <4>1
        DEF Deposited, Ledger!Accept, Ledger!Learn, Ledger!Authorizes, Ledger!escrowAccount
      <4>3. RecordLedger'
        BY <1>1, <2>1, <2>2, <2>3, <2>4, <3>3 DEF RecordLedger, Deposited, State, Escrow
      <4> QED
        BY <4>2, <4>3 DEF LedgerStep, Ledger!LedgerNext
    <3> QED
      BY <2>1, <2>4, <3>1, <3>2, <3>3
  <2> QED
    BY <1>1, <1>3, <2>5, FinishedLedger
<1> QED
  BY <1>2, <1>3 DEF AcceptIn

LEMMA VoucherStepLedger ==
    ASSUME IInv, IInv', LedgerInv, Kept(ch, ch'), NEW r \in Vouchers,
           \/ VoucherRead(r) \/ VoucherOneUpdate(r) \/ VoucherBackground(r)
           \/ VoucherLoad(r) \/ VoucherLoadStored(r) \/ VoucherReconcile(r)
           \/ VoucherRecordClose(r) \/ VoucherAccept(r)
    PROVE  LedgerInv' /\ LedgerStep
<1>1. /\ vouchers \in [Vouchers -> VoucherCall]
      /\ vouchers[r].read \in ChainState /\ vouchers[r].state \in ChainState
      /\ vouchers[r].background \in BOOLEAN /\ vouchers[r].amount \in Nat
      /\ ch \in State /\ escrow \in Escrow /\ clock \in Nat
      /\ VoucherLedger /\ RecordLedger
      /\ Deposited(vouchers[r].read.deposit) /\ Deposited(vouchers[r].state.deposit)
  BY DEF IInv, VoucherInv, VoucherCall, RecordInv, EscrowInv, LedgerInv, VoucherLedger
<1>2. VoucherUnchanged /\ UNCHANGED escrow
  BY DEF VoucherRead, VoucherOneUpdate, VoucherBackground, VoucherLoad, VoucherLoadStored,
         VoucherReconcile, VoucherRecordClose, VoucherAccept, VoucherUnchanged
<1>3. SUFFICES VoucherLedger' /\ RecordLedger' /\ LedgerStep
  BY <1>2, EscrowSame, CallsStay DEF VoucherUnchanged, LedgerInv
<1>4. Deposited(NoRead.deposit) /\ Deposited(EscrowRead.deposit)
  BY <1>1 DEF NoRead, EscrowRead, Deposited, Escrow
<1>5. CASE VoucherRead(r)
  <2>1. PICK amount \in VoucherAmounts, charge \in Charges \cup {0}, advance \in BOOLEAN :
          vouchers' = [vouchers EXCEPT ![r] =
             [pc |-> "read", amount |-> amount, charge |-> charge,
              requireAdvance |-> advance, read |-> EscrowRead, readAt |-> clock,
              background |-> FALSE, state |-> NoRead, highest |-> 0, closing |-> FALSE]]
    BY <1>5 DEF VoucherRead
  <2>2. VoucherLedger'
    BY <1>1, <1>2, <1>4, <2>1 DEF VoucherLedger, Deposited
  <2> QED
    BY <1>2, <1>5, <2>2, SameRecord DEF VoucherRead
<1>6. CASE VoucherOneUpdate(r)
  <2> DEFINE stored == storedChannelState(ch)
  <2>1. /\ stored \in ChainState /\ stored.deposit = ch.deposit
        /\ stored.closeRequestedAt = ch.closeRequestedAt /\ Deposited(stored.deposit)
    BY <1>1 DEF storedChannelState, ChainState, State, RecordLedger
  <2>2. \/ VoucherRefused(r)
        \/ vouchers' = Finished(r, "accepted", TRUE) /\ UNCHANGED ch
        \/ /\ AcceptIn(r, stored, TRUE)
           /\ vouchers[r].amount <= ch.deposit /\ ch.closeRequestedAt = 0
    BY <1>6 DEF VoucherOneUpdate
  <2> HIDE DEF stored
  <2>3. CASE /\ AcceptIn(r, stored, TRUE)
             /\ vouchers[r].amount <= ch.deposit /\ ch.closeRequestedAt = 0
    BY <1>2, <2>1, <2>3, AcceptInLedger
  <2>4. CASE vouchers' = Finished(r, "accepted", TRUE) /\ UNCHANGED ch
    BY <1>2, <2>4, FinishedLedger, SameRecord
  <2> QED
    BY <1>2, <2>2, <2>3, <2>4, RefusedLedger
<1>7. CASE VoucherBackground(r)
  <2>1. vouchers' = [vouchers EXCEPT ![r].background = FALSE, ![r].read = NoRead,
                                     ![r].readAt = 0]
    BY <1>7 DEF VoucherBackground
  <2>2. VoucherLedger'
    BY <1>1, <1>2, <1>4, <2>1 DEF VoucherLedger, VoucherCall, Deposited
  <2>3. \/ UNCHANGED ch
        \/ ch' = pendingCloseState(ch, vouchers[r].read)
        \/ ch' = backgroundReadState(ch, vouchers[r].read)
    BY <1>7 DEF VoucherBackground
  <2>4. CASE UNCHANGED ch
    BY <1>2, <2>2, <2>4, SameRecord
  <2>5. CASE \/ ch' = pendingCloseState(ch, vouchers[r].read)
             \/ ch' = backgroundReadState(ch, vouchers[r].read)
    <3>1. /\ Noted(ch, ch') /\ ch'.exists = ch.exists
          /\ ch'.deposit \in {ch.deposit, vouchers[r].read.deposit}
      BY <1>1, <2>5, MergeNotes
    <3> QED
      BY <1>1, <1>2, <2>2, <3>1, NoteStep DEF RecordLedger
  <2> QED
    BY <2>3, <2>4, <2>5
<1>8. CASE VoucherLoad(r)
  <2>1. CASE VoucherRefused(r)
    BY <1>2, <2>1, RefusedLedger
  <2>2. CASE /\ vouchers' = [vouchers EXCEPT
                   ![r].pc = "loaded", ![r].highest = ch.highest,
                   ![r].closing = (ch.closeRequestedAt # 0)]
             /\ UNCHANGED ch
    <3>1. VoucherLedger'
      BY <1>1, <1>2, <2>2 DEF VoucherLedger, VoucherCall, Deposited
    <3> QED
      BY <1>2, <2>2, <3>1, SameRecord
  <2> QED
    BY <1>8, <2>1, <2>2 DEF VoucherLoad
<1>9. CASE VoucherLoadStored(r)
  <2> DEFINE stored == storedChannelState(ch)
  <2>1. stored.deposit = ch.deposit
    BY DEF storedChannelState
  <2>2. /\ vouchers' = [vouchers EXCEPT
               ![r].pc = "stored", ![r].highest = ch.highest,
               ![r].state = stored, ![r].background = TRUE]
        /\ UNCHANGED ch
    BY <1>9 DEF VoucherLoadStored
  <2> HIDE DEF stored
  <2>3. VoucherLedger'
    BY <1>1, <1>2, <2>1, <2>2 DEF VoucherLedger, VoucherCall, RecordLedger, Deposited
  <2> QED
    BY <1>2, <2>2, <2>3, SameRecord
<1>10. CASE VoucherReconcile(r)
  <2>1. PICK next \in {"recordClose", "checked"} :
          \/ vouchers' = [vouchers EXCEPT ![r].pc = next, ![r].state = vouchers[r].read,
                                          ![r].highest = ch.highest]
          \/ vouchers' = [vouchers EXCEPT ![r].pc = next, ![r].state = vouchers[r].read]
    BY <1>10 DEF VoucherReconcile
  <2>2. VoucherLedger'
    BY <1>1, <1>2, <2>1 DEF VoucherLedger, VoucherCall, Deposited
  <2>3. UNCHANGED ch \/ ch' = reconcileExpiredPendingClose(ch, clock, vouchers[r].read)
    BY <1>10 DEF VoucherReconcile
  <2>4. CASE UNCHANGED ch
    BY <1>2, <2>2, <2>4, SameRecord
  <2>5. CASE ch' = reconcileExpiredPendingClose(ch, clock, vouchers[r].read)
    <3>1. Noted(ch, ch') /\ ch'.exists = ch.exists /\ ch'.deposit = ch.deposit
      BY <1>1, <2>5, MarkerNotes
    <3> QED
      BY <1>1, <1>2, <2>2, <3>1, NoteStep DEF RecordLedger
  <2> QED
    BY <2>3, <2>4, <2>5
<1>11. CASE VoucherRecordClose(r)
  <2>1. VoucherLedger'
    BY <1>2, <1>11, FinishedLedger DEF VoucherRecordClose
  <2>2. /\ Noted(ch, ch') /\ ch'.exists = ch.exists
        /\ ch'.deposit \in {ch.deposit, vouchers[r].read.deposit}
    BY <1>1, <1>11, MergeNotes DEF VoucherRecordClose
  <2> QED
    BY <1>1, <1>2, <2>1, <2>2, NoteStep DEF RecordLedger
<1>12. CASE VoucherAccept(r)
  <2>1. \/ VoucherRefused(r)
        \/ vouchers' = Finished(r, "accepted", vouchers[r].background) /\ UNCHANGED ch
        \/ /\ AcceptIn(r, vouchers[r].state, vouchers[r].background)
           /\ vouchers[r].amount <= vouchers[r].state.deposit
           /\ vouchers[r].state.closeRequestedAt = 0
    BY <1>12 DEF VoucherAccept, VoucherAmountsValid
  <2>2. CASE /\ AcceptIn(r, vouchers[r].state, vouchers[r].background)
             /\ vouchers[r].amount <= vouchers[r].state.deposit
             /\ vouchers[r].state.closeRequestedAt = 0
    BY <1>1, <1>2, <2>2, AcceptInLedger
  <2>3. CASE vouchers' = Finished(r, "accepted", vouchers[r].background) /\ UNCHANGED ch
    BY <1>1, <1>2, <2>3, FinishedLedger, SameRecord
  <2> QED
    BY <1>2, <2>1, <2>2, <2>3, RefusedLedger
<1> QED
  BY <1>5, <1>6, <1>7, <1>8, <1>9, <1>10, <1>11, <1>12

-----------------------------------------------------------------------------
(* Settlements and closes *)

\* A transaction that pays what is authorized and deposited is a capture.
LEMMA CaptureStep ==
    ASSUME IInv, IInv', LedgerInv, UNCHANGED ch, escrow.phase = "open",
           escrow'.phase \in {"open", "closed"}, escrow'.deposit = escrow.deposit,
           escrow'.opened = escrow.opened, escrow'.settled >= escrow.settled,
           escrow'.settled <= ch.highest, Deposited(escrow'.settled)
    PROVE  /\ EscrowKeeps /\ EscrowLedger' /\ RecordLedger' /\ LedgerStep
           /\ Kept(ch, ch')
<1>1. /\ escrow \in Escrow /\ escrow' \in Escrow /\ ch \in State
      /\ ch.finalized => escrow.phase = "closed"
  BY DEF IInv, EscrowInv, RecordInv, LedgerInv, RecordLedger
<1>2. EscrowKeeps /\ EscrowLedger' /\ RecordLedger'
  BY <1>1 DEF EscrowKeeps, LedgerInv, EscrowLedger, RecordLedger, Deposited, Escrow
<1>3. Ledger!Capture /\ UNCHANGED Ledger!record
  BY <1>1 DEF Deposited, Ledger!Capture, Ledger!record
<1>4. Kept(ch, ch')
  BY <1>1 DEF Kept, State
<1> QED
  BY <1>2, <1>3, <1>4 DEF LedgerStep, Ledger!LedgerNext

\* The record of a closed channel, finalized with what it paid.
LEMMA FinalStep ==
    ASSUME IInv, IInv', LedgerInv, UNCHANGED escrow, Kept(ch, ch'),
           escrow.phase = "closed", ch'.finalized, ch'.spent = ch.spent,
           ch'.settledOnChain = keepGreater(ch.settledOnChain, escrow.settled),
           ch'.deposit = 0
    PROVE  RecordLedger' /\ LedgerStep
<1>1. /\ ch \in State /\ ch' \in State /\ escrow \in Escrow
      /\ ch.highest <= ch'.highest /\ ch.settledOnChain <= escrow.settled
  BY DEF IInv, RecordInv, EscrowInv, Kept
<1>2. ch'.settledOnChain = escrow.settled
  BY <1>1 DEF keepGreater, State, Escrow
<1>3. RecordLedger'
  BY <1>1, <1>2 DEF LedgerInv, RecordLedger, Deposited, State, Escrow
<1>4. Ledger!Finalize /\ UNCHANGED Ledger!escrowAccount
  BY <1>1, <1>2 DEF Ledger!Finalize, Ledger!escrowAccount
<1> QED
  BY <1>3, <1>4 DEF LedgerStep, Ledger!LedgerNext

LEMMA SettleStepLedger ==
    ASSUME IInv, IInv', LedgerInv, Kept(ch, ch'), NEW s \in Settlements,
           \/ SettleClaim(s) \/ SettleSend(s) \/ SettleMine(s)
           \/ SettleCheckpoint(s) \/ SettleRelease(s)
    PROVE  LedgerInv' /\ LedgerStep
<1>1. /\ settlements \in [Settlements -> SettleCall]
      /\ settlements[s].amount \in Nat
      /\ ch \in State /\ ch' \in State /\ escrow \in Escrow /\ escrow' \in Escrow
      /\ clock \in Nat /\ Within(ch) /\ RecordLedger /\ SettleLedger
      /\ ch.highest <= ch'.highest
      /\ Validity \in Nat /\ ClockSkew \in Nat
  BY RecordConstants
  DEF IInv, SettleInv, SettleCall, RecordInv, EscrowInv, LedgerInv, Kept
<1>2. SettlementUnchanged
  BY DEF SettleClaim, SettleSend, SettleMine, SettleCheckpoint, SettleRelease
<1>3. UNCHANGED escrow => EscrowKeeps /\ EscrowLedger'
  BY EscrowSame
<1>4. SUFFICES EscrowKeeps /\ EscrowLedger' /\ RecordLedger' /\ SettleLedger' /\ LedgerStep
  BY <1>2, CallsStay DEF SettlementUnchanged, LedgerInv
<1>5. CASE SettleClaim(s)
  <2>1. PICK v \in ch.retained \cup {ch.highest}, now \in 1 .. clock :
          /\ IsSettleable(ch, v)
          /\ ch' = claimSettlement(ch, v, now + Validity + ClockSkew, clock)
          /\ settlements' = [settlements EXCEPT ![s] =
                [pc |-> "claimed", amount |-> v, validBefore |-> now + Validity,
                 tx |-> "none"]]
    BY <1>5 DEF SettleClaim
  <2>2. UNCHANGED escrow
    BY <1>5 DEF SettleClaim
  <2>3. v \in Nat /\ v <= ch.highest /\ now + Validity + ClockSkew \in Nat
    BY <1>1, <2>1 DEF IsSettleable, State, Within
  <2>4. SettleLedger'
    BY <1>1, <2>1, <2>3 DEF SettleLedger, SettleCall, State
  <2> DEFINE expiresAt == now + Validity + ClockSkew
             d == claimSettlement(ch, v, expiresAt, clock)
  <2>5. ch' = d /\ expiresAt \in Nat
    BY <2>1, <2>3
  <2> HIDE DEF expiresAt
  <2>6. Noted(ch, d) /\ d.exists = ch.exists /\ d.deposit = ch.deposit
    <3>1. v \in Nat
      BY <2>3
    <3>2. ch \in State /\ clock \in Nat
      BY <1>1
    <3> QED
      BY <2>5, <3>1, <3>2, ClaimNotes
  <2> QED
    BY <1>1, <1>3, <2>2, <2>4, <2>5, <2>6, NoteStep DEF RecordLedger
<1>6. CASE SettleSend(s)
  <2>1. SettleLedger' /\ UNCHANGED <<ch, escrow>>
    BY <1>1, <1>6 DEF SettleSend, SettleLedger, SettleCall
  <2> QED
    BY <1>3, <2>1, SameRecord
<1>7. CASE SettleMine(s)
  <2>1. SettleLedger' /\ UNCHANGED ch
    BY <1>1, <1>7 DEF SettleMine, SettleLedger, SettleCall
  <2>2. CASE UNCHANGED escrow
    BY <1>3, <2>1, <2>2, SameRecord
  <2>3. CASE EscrowSettles(settlements[s].amount)
    <3>1. escrow' = [escrow EXCEPT !.settled = settlements[s].amount]
      BY <1>7, <2>3 DEF SettleMine
    <3>2. /\ escrow.phase = "open" /\ escrow'.phase = "open"
          /\ escrow'.deposit = escrow.deposit /\ escrow'.opened = escrow.opened
          /\ escrow'.settled = settlements[s].amount /\ escrow'.settled >= escrow.settled
          /\ escrow'.settled <= ch.highest /\ Deposited(escrow'.settled)
      BY <1>1, <2>3, <3>1 DEF EscrowSettles, Escrow, SettleLedger, Deposited
    <3> QED
      BY <2>1, <3>2, CaptureStep
  <2> QED
    BY <1>7, <2>2, <2>3 DEF SettleMine
<1>8. CASE SettleCheckpoint(s)
  <2>1. SettleLedger' /\ UNCHANGED escrow
    BY <1>1, <1>8 DEF SettleCheckpoint, SettleLedger, SettleCall, State
  <2>2. Noted(ch, ch') /\ ch'.exists = ch.exists /\ ch'.deposit = ch.deposit
    BY <1>1, <1>8, MarkerNotes DEF SettleCheckpoint
  <2> QED
    BY <1>1, <1>3, <2>1, <2>2, NoteStep DEF RecordLedger
<1>9. CASE SettleRelease(s)
  <2>1. SettleLedger' /\ UNCHANGED escrow
    BY <1>1, <1>9 DEF SettleRelease, SettleLedger, SettleCall, State
  <2>2. Noted(ch, ch') /\ ch'.exists = ch.exists /\ ch'.deposit = ch.deposit
    BY <1>1, <1>9, MarkerNotes DEF SettleRelease
  <2> QED
    BY <1>1, <1>3, <2>1, <2>2, NoteStep DEF RecordLedger
<1> QED
  BY <1>5, <1>6, <1>7, <1>8, <1>9

\* What a close captures is authorized: what is charged, or was settled before.
LEMMA CaptureAuthorized ==
    ASSUME IInv, LedgerInv, NEW n \in Nat, n <= ch.highest,
           NEW s \in ChainState, s.settled <= escrow.settled
    PROVE  closeCaptureAmount(n, s) <= ch.highest
BY DEF IInv, RecordInv, State, EscrowInv, Escrow, LedgerInv, RecordLedger,
       ChainState, closeCaptureAmount, keepGreater

LEMMA CloseStepLedger ==
    ASSUME IInv, IInv', LedgerInv, Kept(ch, ch'), NEW c \in Closes,
           \/ CloseRead(c) \/ CloseMark(c) \/ CloseSend(c) \/ CloseMine(c)
           \/ CloseFinalize(c) \/ CloseFail(c)
    PROVE  LedgerInv' /\ LedgerStep
<1>1. /\ closes \in [Closes -> CloseCall]
      /\ closes[c].read \in ChainState /\ closes[c].read.settled <= escrow.settled
      /\ closes[c].amount \in Nat /\ closes[c].capture \in Nat
      /\ closes[c].startedAt \in Nat /\ closes[c].readAt \in Nat
      /\ ch \in State /\ ch' \in State /\ escrow \in Escrow /\ escrow' \in Escrow
      /\ clock \in Nat /\ Within(ch) /\ RecordLedger /\ CloseLedger
      /\ ch.highest <= ch'.highest
      /\ closes[c].pc \in {"idle", "read", "marked"} => closes[c].tx = "none"
  BY DEF IInv, CloseInv, CloseCall, RecordInv, EscrowInv, LedgerInv, Kept
<1>2. CloseUnchanged
  BY DEF CloseRead, CloseMark, CloseSend, CloseMine, CloseFinalize, CloseFail
<1>3. UNCHANGED escrow => EscrowKeeps /\ EscrowLedger'
  BY EscrowSame
<1>4. SUFFICES EscrowKeeps /\ EscrowLedger' /\ RecordLedger' /\ CloseLedger' /\ LedgerStep
  BY <1>2, CallsStay DEF CloseUnchanged, LedgerInv
<1>5. CASE CloseRead(c)
  <2>1. UNCHANGED <<ch, escrow>>
    BY <1>5 DEF CloseRead
  <2>2. CloseLedger'
    BY <1>1, <1>5, <2>1 DEF CloseRead, CloseLedger, CloseCall, State
  <2> QED
    BY <1>3, <2>1, <2>2, SameRecord
<1>6. CASE CloseMark(c)
  <2> DEFINE current(now) == reconcileExpiredPendingClose(ch, now, closes[c].read)
  <2>1. PICK now \in closes[c].readAt .. clock :
          \/ /\ ch' = markPendingClose(current(now), now)
             /\ closes' = [closes EXCEPT
                   ![c].pc = "marked", ![c].startedAt = now,
                   ![c].read = NoRead, ![c].readAt = 0,
                   ![c].capture = closeCaptureAmount(current(now).spent, closes[c].read)]
          \/ closes' = [closes EXCEPT ![c].pc = "failed"] /\ UNCHANGED ch
    BY <1>6 DEF CloseMark
  <2>2. UNCHANGED escrow /\ closes[c].pc = "read" /\ now \in Nat
    <3>1. now \in Nat
      BY <1>1
    <3> QED
      BY <1>6, <3>1 DEF CloseMark
  <2>3. CASE closes' = [closes EXCEPT ![c].pc = "failed"] /\ UNCHANGED ch
    <3>1. CloseLedger'
      BY <1>1, <2>2, <2>3 DEF CloseLedger, CloseCall
    <3> QED
      BY <1>3, <2>2, <2>3, <3>1, SameRecord
  <2> DEFINE cur == current(now)
             capture == closeCaptureAmount(cur.spent, closes[c].read)
  <2>4. CASE /\ ch' = markPendingClose(cur, now)
             /\ closes' = [closes EXCEPT
                   ![c].pc = "marked", ![c].startedAt = now,
                   ![c].read = NoRead, ![c].readAt = 0, ![c].capture = capture]
    <3>1. /\ cur \in State /\ Noted(ch, cur)
          /\ cur.exists = ch.exists /\ cur.deposit = ch.deposit
      BY <1>1, <2>2, ReconcileKeeps, MarkerNotes
    <3>2. capture \in Nat /\ capture <= ch.highest
      <4>1. cur.spent \in Nat /\ cur.spent <= ch.highest
        BY <1>1, <3>1 DEF Noted, Within, State
      <4> HIDE DEF cur
      <4>2. capture <= ch.highest
        BY <1>1, <4>1, CaptureAuthorized
      <4> QED
        BY <1>1, <4>1, <4>2 DEF closeCaptureAmount, keepGreater, ChainState
    <3> HIDE DEF cur, capture
    <3>3. Noted(cur, ch') /\ ch'.exists = cur.exists /\ ch'.deposit = cur.deposit
      BY <2>2, <2>4, <3>1, MarkerNotes
    <3>4. /\ closes'[c].capture = capture /\ closes'[c].tx = "none"
          /\ \A d \in Closes \ {c} : closes'[d] = closes[d]
      BY <1>1, <2>2, <2>4 DEF CloseCall
    <3>5. CloseLedger'
      BY <1>1, <2>2, <3>2, <3>4 DEF CloseLedger, CloseCall, State
    <3> QED
      BY <1>1, <1>3, <2>2, <3>1, <3>3, <3>5, NoteStep DEF Noted, RecordLedger
  <2> QED
    BY <2>1, <2>3, <2>4
<1>7. CASE CloseSend(c)
  <2>1. UNCHANGED <<ch, escrow>>
    BY <1>7 DEF CloseSend
  <2>2. CloseLedger'
    BY <1>1, <1>7, <2>1 DEF CloseSend, CloseLedger, CloseCall
  <2> QED
    BY <1>3, <2>1, <2>2, SameRecord
<1>8. CASE CloseMine(c)
  <2>1. UNCHANGED ch
    BY <1>8 DEF CloseMine
  <2>2. CASE EscrowCloses(closes[c].amount, closes[c].capture)
    <3>1. /\ escrow' = ClosedWith(closes[c].capture)
          /\ closes' = [closes EXCEPT ![c].tx = "landed"]
          /\ escrow.phase = "open" /\ closes[c].capture >= escrow.settled
          /\ Deposited(closes[c].capture)
      BY <1>8, <2>2 DEF CloseMine, EscrowCloses, Deposited
    <3>2. /\ escrow'.phase = "closed" /\ escrow'.settled = closes[c].capture
          /\ escrow'.deposit = escrow.deposit /\ escrow'.opened = escrow.opened
          /\ closes[c].capture <= ch.highest
      BY <1>1, <3>1 DEF ClosedWith, Escrow, CloseLedger
    <3>3. CloseLedger'
      BY <1>1, <2>1, <3>1, <3>2 DEF CloseLedger, CloseCall
    <3> QED
      BY <2>1, <3>1, <3>2, <3>3, CaptureStep
  <2>3. CASE ~EscrowCloses(closes[c].amount, closes[c].capture)
    <3>1. UNCHANGED escrow /\ closes' = [closes EXCEPT ![c].tx = "reverted"]
      BY <1>8, <2>3 DEF CloseMine
    <3>2. CloseLedger'
      BY <1>1, <2>1, <3>1 DEF CloseLedger, CloseCall
    <3> QED
      BY <1>3, <2>1, <3>1, <3>2, SameRecord
  <2> QED
    BY <2>2, <2>3
<1>9. CASE CloseFinalize(c)
  <2>1. /\ ch' = finalizeClosedChannelState(ch, closes[c].capture, closes[c].amount)
        /\ UNCHANGED escrow
        /\ escrow.phase = "closed" /\ closes[c].capture = escrow.settled
    BY <1>1, <1>9 DEF CloseFinalize, CloseLedger
  <2>2. CloseLedger'
    BY <1>1, <1>9, <2>1 DEF CloseFinalize, CloseLedger, CloseCall, State
  <2>3. /\ ch'.finalized /\ ch'.spent = ch.spent /\ ch'.deposit = 0
        /\ ch'.settledOnChain = keepGreater(ch.settledOnChain, escrow.settled)
    BY <1>1, <2>1, FinalizeLedger
  <2> QED
    BY <1>3, <2>1, <2>2, <2>3, FinalStep
<1>10. CASE CloseFail(c)
  <2>1. UNCHANGED escrow
    BY <1>10 DEF CloseFail
  <2>2. CloseLedger'
    BY <1>1, <1>10, <2>1 DEF CloseFail, CloseLedger, CloseCall, State
  <2>3. Noted(ch, ch') /\ ch'.exists = ch.exists /\ ch'.deposit = ch.deposit
    BY <1>1, <1>10, MarkerNotes DEF CloseFail
  <2> QED
    BY <1>1, <1>3, <2>1, <2>2, <2>3, NoteStep DEF RecordLedger
<1> QED
  BY <1>5, <1>6, <1>7, <1>8, <1>9, <1>10

-----------------------------------------------------------------------------
(* Close supervision *)

\* A run that ends keeps only the close it sent.
LEMMA SupervisorDoneLedger ==
    ASSUME IInv, IInv', LedgerInv, UNCHANGED escrow, Kept(ch, ch'), NEW p \in Supervisors,
           supervisors' = SupervisorDone(p)
    PROVE  SuperviseLedger'
<1>1. /\ supervisors \in [Supervisors -> SuperviseCall] /\ SuperviseLedger
      /\ ch.highest \in Nat /\ ch'.highest \in Nat /\ ch.highest <= ch'.highest
      /\ Deposited(NoRead.deposit)
  BY DEF IInv, SuperviseInv, RecordInv, EscrowInv, State, Escrow, Kept, LedgerInv,
         NoRead, Deposited
<1>2. /\ supervisors'[p].pc = "done" /\ supervisors'[p].tx = supervisors[p].tx
      /\ supervisors'[p].read = NoRead
      /\ supervisors'[p].capture = supervisors[p].capture
      /\ \A q \in Supervisors \ {p} : supervisors'[q] = supervisors[q]
  BY <1>1 DEF SupervisorDone, SuperviseCall
<1> QED
  BY <1>1, <1>2 DEF SuperviseLedger, SuperviseCall, Deposited

LEMMA SuperviseStepLedger ==
    ASSUME IInv, IInv', LedgerInv, Kept(ch, ch'), NEW p \in Supervisors,
           \/ SuperviseRead(p) \/ SuperviseClosed(p) \/ SuperviseOpen(p)
           \/ SuperviseClosing(p) \/ SuperviseSend(p) \/ SuperviseMine(p)
           \/ SuperviseFinalize(p)
    PROVE  LedgerInv' /\ LedgerStep
<1> DEFINE call == supervisors[p]
<1>1. /\ supervisors \in [Supervisors -> SuperviseCall] /\ call \in SuperviseCall
      /\ call.read \in ChainState /\ call.read.settled <= escrow.settled
      /\ call.amount \in Nat /\ call.capture \in Nat /\ call.paid \in Nat
      /\ call.timestamp \in Nat
      /\ ch \in State /\ ch' \in State /\ escrow \in Escrow /\ escrow' \in Escrow
      /\ clock \in Nat /\ Within(ch) /\ EscrowLedger /\ RecordLedger /\ SuperviseLedger
      /\ ch.highest <= ch'.highest
      /\ call.pc \in {"idle", "read", "closing"} => call.tx = "none"
  BY DEF IInv, SuperviseInv, SuperviseCall, RecordInv, EscrowInv, LedgerInv, Kept
<1>2. SupervisorUnchanged
  BY DEF SuperviseRead, SuperviseClosed, SuperviseOpen, SuperviseClosing,
         SuperviseSend, SuperviseMine, SuperviseFinalize
<1>3. UNCHANGED escrow => EscrowKeeps /\ EscrowLedger'
  BY EscrowSame
<1>4. SUFFICES /\ EscrowKeeps /\ EscrowLedger' /\ RecordLedger' /\ SuperviseLedger'
               /\ LedgerStep
  BY <1>2, CallsStay DEF SupervisorUnchanged, LedgerInv
<1>5. CASE SuperviseRead(p)
  <2>1. UNCHANGED <<ch, escrow>> /\ escrow.phase # "absent" /\ call.tx = "none"
    BY <1>1, <1>5 DEF SuperviseRead, RecordLedger
  <2>2. /\ supervisors'[p].read = EscrowRead /\ supervisors'[p].tx = call.tx
        /\ supervisors'[p].capture = call.capture
        /\ escrow.phase = "closed" => supervisors'[p].paid = escrow.settled
        /\ \A q \in Supervisors \ {p} : supervisors'[q] = supervisors[q]
    <3> DEFINE paid == IF escrow.phase = "closed" THEN escrow.settled ELSE 0
               closing == (ch.closeRequestedAt # 0)
    <3>1. PICK t \in BlockTimes :
            supervisors' = [supervisors EXCEPT ![p] =
               [call EXCEPT !.pc = "read", !.read = EscrowRead, !.readAt = clock,
                            !.timestamp = t, !.paid = paid, !.closing = closing]]
      BY <1>5 DEF SuperviseRead
    <3>2. escrow.phase = "closed" => paid = escrow.settled
      OBVIOUS
    <3> HIDE DEF paid, closing
    <3> QED
      BY <1>1, <3>1, <3>2 DEF SuperviseCall
  <2>3. /\ EscrowRead.deposit = 0 => escrow.phase = "closed"
        /\ Deposited(EscrowRead.deposit)
    BY <1>1, <2>1 DEF EscrowRead, NoRead, EscrowLedger, Escrow, Deposited
  <2>4. SuperviseLedger'
    BY <1>1, <2>1, <2>2, <2>3 DEF SuperviseLedger, Deposited
  <2> QED
    BY <1>3, <2>1, <2>4, SameRecord
<1>6. CASE SuperviseClosed(p)
  <2>1. /\ UNCHANGED escrow /\ ch' = finalizeFromEvent(ch, call.paid)
        /\ escrow.phase = "closed" /\ call.paid = escrow.settled
        /\ supervisors' = SupervisorDone(p)
    BY <1>1, <1>6 DEF SuperviseClosed, SuperviseLedger
  <2>2. SuperviseLedger'
    BY <2>1, SupervisorDoneLedger
  <2>3. CASE ch' = ch
    BY <1>3, <2>1, <2>2, <2>3, SameRecord
  <2>4. CASE ch' # ch
    <3>1. /\ ch'.finalized /\ ch'.spent = ch.spent /\ ch'.deposit = 0
          /\ ch'.settledOnChain = keepGreater(ch.settledOnChain, escrow.settled)
      BY <1>1, <2>1, <2>4 DEF finalizeFromEvent, State
    <3> QED
      BY <1>3, <2>1, <2>2, <3>1, FinalStep
  <2> QED
    BY <2>3, <2>4
<1>7. CASE SuperviseOpen(p)
  <2>1. UNCHANGED escrow /\ SuperviseLedger'
    BY <1>7, SupervisorDoneLedger DEF SuperviseOpen
  <2>2. CASE UNCHANGED ch
    BY <1>3, <2>1, <2>2, SameRecord
  <2>3. CASE ch' = reconcileExpiredPendingClose(ch, call.timestamp, call.read)
    <3>1. Noted(ch, ch') /\ ch'.exists = ch.exists /\ ch'.deposit = ch.deposit
      BY <1>1, <2>3, MarkerNotes
    <3> QED
      BY <1>1, <1>3, <2>1, <3>1, NoteStep DEF RecordLedger
  <2> QED
    BY <1>7, <2>2, <2>3 DEF SuperviseOpen
<1>8. CASE SuperviseClosing(p)
  <2> DEFINE closing == mergeActiveOnChainState(ch, call.read)
             capture == closeCaptureAmount(closing.spent, call.read)
             amount == closing.highest
  <2>1. /\ UNCHANGED escrow /\ call.pc = "read" /\ call.read.deposit # 0
        /\ UNCHANGED ch \/ ch' = closing
        /\ \/ supervisors' = SupervisorDone(p)
           \/ supervisors' = [supervisors EXCEPT ![p].pc = "closing",
                                 ![p].amount = amount, ![p].capture = capture]
    BY <1>8 DEF SuperviseClosing
  <2>2. capture <= ch.highest /\ capture \in Nat
    <3>1. closing.spent \in Nat /\ closing.spent <= ch.highest
      BY <1>1, MergeNotes DEF Noted, Within, State
    <3> HIDE DEF closing
    <3>2. capture <= ch.highest
      BY <1>1, <3>1, CaptureAuthorized
    <3> QED
      BY <1>1, <3>1, <3>2 DEF closeCaptureAmount, keepGreater, ChainState
  <2>3. SuperviseLedger'
    <3>1. CASE supervisors' = SupervisorDone(p)
      BY <2>1, <3>1, SupervisorDoneLedger
    <3>2. CASE supervisors' = [supervisors EXCEPT ![p].pc = "closing",
                                  ![p].amount = amount, ![p].capture = capture]
      <4> HIDE DEF amount, capture
      <4>1. /\ supervisors'[p].pc = "closing" /\ supervisors'[p].tx = "none"
            /\ supervisors'[p].read = call.read /\ supervisors'[p].capture = capture
            /\ \A q \in Supervisors \ {p} : supervisors'[q] = supervisors[q]
        BY <1>1, <2>1, <3>2 DEF SuperviseCall
      <4> QED
        BY <1>1, <2>1, <2>2, <4>1 DEF SuperviseLedger, SuperviseCall, State, Deposited
    <3> QED
      BY <2>1, <3>1, <3>2
  <2>4. CASE UNCHANGED ch
    BY <1>3, <2>1, <2>3, <2>4, SameRecord
  <2>5. CASE ch' = closing
    <3>1. /\ Noted(ch, ch') /\ ch'.exists = ch.exists
          /\ ch'.deposit \in {ch.deposit, call.read.deposit}
      BY <1>1, <2>5, MergeNotes
    <3>2. Deposited(call.read.deposit)
      BY <1>1 DEF SuperviseLedger
    <3> QED
      BY <1>1, <1>3, <2>1, <2>3, <3>1, <3>2, NoteStep DEF RecordLedger
  <2> QED
    BY <2>1, <2>4, <2>5
<1>9. CASE SuperviseSend(p)
  <2>1. UNCHANGED <<ch, escrow>>
    BY <1>9 DEF SuperviseSend
  <2>2. SuperviseLedger'
    BY <1>1, <1>9, <2>1 DEF SuperviseSend, SuperviseLedger, SuperviseCall, Deposited
  <2> QED
    BY <1>3, <2>1, <2>2, SameRecord
<1>10. CASE SuperviseMine(p)
  <2>1. UNCHANGED ch /\ call.tx = "pending"
    BY <1>10 DEF SuperviseMine
  <2>2. CASE EscrowCloses(call.amount, call.capture)
    <3>1. /\ escrow' = ClosedWith(call.capture)
          /\ supervisors' = [supervisors EXCEPT ![p].tx = "landed"]
          /\ escrow.phase = "open" /\ call.capture >= escrow.settled
          /\ Deposited(call.capture)
      BY <1>10, <2>2 DEF SuperviseMine, EscrowCloses, Deposited
    <3>2. /\ escrow'.phase = "closed" /\ escrow'.settled = call.capture
          /\ escrow'.deposit = escrow.deposit /\ escrow'.opened = escrow.opened
          /\ call.capture <= ch.highest
      BY <1>1, <3>1 DEF ClosedWith, Escrow, SuperviseLedger
    <3>3. SuperviseLedger'
      BY <1>1, <2>1, <3>1, <3>2 DEF SuperviseLedger, SuperviseCall, Deposited
    <3> QED
      BY <2>1, <3>1, <3>2, <3>3, CaptureStep
  <2>3. CASE ~EscrowCloses(call.amount, call.capture)
    <3>1. UNCHANGED escrow /\ supervisors' = [supervisors EXCEPT ![p].tx = "reverted"]
      BY <1>10, <2>3 DEF SuperviseMine
    <3>2. SuperviseLedger'
      BY <1>1, <2>1, <3>1 DEF SuperviseLedger, SuperviseCall, Deposited
    <3> QED
      BY <1>3, <2>1, <3>1, <3>2, SameRecord
  <2> QED
    BY <2>2, <2>3
<1>11. CASE SuperviseFinalize(p)
  <2>1. /\ ch' = finalizeClosedChannelState(ch, call.capture, call.amount)
        /\ UNCHANGED escrow
        /\ escrow.phase = "closed" /\ call.capture = escrow.settled
    BY <1>1, <1>11 DEF SuperviseFinalize, SuperviseLedger
  <2>2. SuperviseLedger'
    BY <1>11, <2>1, SupervisorDoneLedger DEF SuperviseFinalize
  <2>3. /\ ch'.finalized /\ ch'.spent = ch.spent /\ ch'.deposit = 0
        /\ ch'.settledOnChain = keepGreater(ch.settledOnChain, escrow.settled)
    BY <1>1, <2>1, FinalizeLedger
  <2> QED
    BY <1>3, <2>1, <2>2, <2>3, FinalStep
<1> QED
  BY <1>5, <1>6, <1>7, <1>8, <1>9, <1>10, <1>11

-----------------------------------------------------------------------------
(* The theorems *)

LEMMA NextLedger ==
    ASSUME IInv, LedgerInv, [Next]_vars
    PROVE  LedgerInv' /\ LedgerStep
<1>1. IInv' /\ Kept(ch, ch')
  BY NextOK
<1>2. CASE UNCHANGED vars
  BY <1>1, <1>2, EscrowSame, SameRecord, CallsStay DEF vars, calls, LedgerInv
<1>3. CASE Tick \/ PayerStep
  BY <1>1, <1>3, PayerLedger
<1>4. CASE OpenStep
  BY <1>1, <1>4, OpenStepLedger DEF OpenStep
<1>5. CASE TopUpStep
  BY <1>1, <1>5, TopUpStepLedger DEF TopUpStep
<1>6. CASE VoucherStep
  BY <1>1, <1>6, VoucherStepLedger DEF VoucherStep
<1>7. CASE AccountingStep
  BY <1>1, <1>7, AccountingLedger
<1>8. CASE SettleStep
  BY <1>1, <1>8, SettleStepLedger DEF SettleStep
<1>9. CASE CloseStep
  BY <1>1, <1>9, CloseStepLedger DEF CloseStep
<1>10. CASE SuperviseStep
  BY <1>1, <1>10, SuperviseStepLedger DEF SuperviseStep
<1> QED
  BY <1>2, <1>3, <1>4, <1>5, <1>6, <1>7, <1>8, <1>9, <1>10 DEF Next

\* The session server implements the ledger: however its handlers, supervisors,
\* the payer and the escrow interleave, every step authorizes, charges, credits,
\* pays or finalizes as one atomic step of the ledger may, or does none of it.
THEOREM SessionKeepsLedger == Spec => KeepsLedger
<1>1. Init => LedgerInv /\ Ledger!LedgerInit
  BY InitLedger
<1>2. IInv /\ LedgerInv /\ [Next]_vars => LedgerInv'
  BY NextLedger
<1>3. IInv /\ LedgerInv /\ [Next]_vars => [Ledger!LedgerNext]_(Ledger!ledger)
  BY NextLedger DEF LedgerStep
<1> QED
  BY Inductive, <1>1, <1>2, <1>3, PTL DEF Spec, KeepsLedger, Ledger!LedgerSpec

\* What the ledger promises holds of the server's record and the escrow: nothing
\* is charged or paid beyond what was authorized, nothing paid beyond what was
\* deposited, and a finalized record claims exactly what the escrow paid.
THEOREM ChannelSolvent == Spec => []Ledger!Solvent
<1>1. IInv /\ LedgerInv => Ledger!Solvent
  BY DEF IInv, RecordInv, EscrowInv, Within, LedgerInv, EscrowLedger, RecordLedger,
         Deposited, Ledger!Solvent
<1>2. IInv /\ LedgerInv /\ [Next]_vars => LedgerInv'
  BY NextLedger
<1> QED
  BY Inductive, InitLedger, <1>1, <1>2, PTL DEF Spec
=============================================================================
