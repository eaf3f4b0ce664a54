# Verification of mppx

mppx (`src/src`) implements the Machine Payments Protocol: an HTTP server answers
a request with `402 Payment Required` and a challenge, the client answers with a
credential, and the server verifies and settles the payment. The part that keeps
money and state across requests is the Tempo payment method, above all the
*session* (a TIP-1034 payment channel: the payer deposits once, then signs
cumulative vouchers, and the server charges requests against them). This
directory holds TLA+ models of that part, the TLC runs that check them and the
TLAPS proofs about them.

Contents: [System](#system) · [Modules](#modules) · [Runs](#runs) ·
[Bounds and assumptions](#bounds-and-assumptions) · [Findings](#findings) ·
[Proofs](#proofs) · [Not modelled](#not-modelled) · [Plan](#plan)

## System

Paths are relative to `src/src`.

| Component | State it keeps | Operations | What makes it correct |
|---|---|---|---|
| Channel record (`tempo/session/server/ChannelStore.ts`) | one record per channel: accepted voucher, retained vouchers, deposit, settled, spent, closing marker, credit floor, idempotency markers | pure functions applied by one atomic store update each | spent within what the payer signed; nothing accepted, settled or finalized is taken back |
| Credential handlers (`CredentialVerification.ts`) | locals between awaits | open, top-up, voucher, close | one voucher pays for one request; vouchers are funded; a close captures what was charged |
| Charge and credit (`ChannelStore.ts`) | – | `deductFromChannel`, `creditChannel` | a credit is applied once and never below what settles |
| Settlement (`Settlement.ts`) | credit floor in the record, a scheduled-settlement lease | `settle`, `maybeSettleScheduled`, `settleBatch` | captures at most what is charged; record follows the escrow |
| Close supervisor (`CloseSupervisor.ts`) | – | `superviseCloses` run repeatedly, possibly overlapping | answers a payer's close request with exactly the charged amount |
| Stream metering (`Transports.ts`, `MeteredStream.ts`) | reservations with leases in the record | reserve, commit, release, wait for a voucher | streams never share the same funds; a waiting stream resumes |
| Prepaid refunds (`Sse.ts`) | obligations in the record | prepare, fail, credit, clear | every undelivered prepaid unit is credited or handed over once |
| WebSocket serving (`Ws.ts`) | per-socket action queue | authorize, stream, close | a close stops the stream before its receipt |
| Client session (`tempo/session/client`) | stored channel, cumulative amount, pending top-up, session state | open, voucher, top-up, recover, close | never signs less or funds twice |
| Tempo charge (`tempo/server/Charge.ts`) | replay claims | verify, broadcast, recover | one transaction serves one request |
| Sponsor budget (`tempo/server/SponsorBudget.ts`, `session/server/SponsorshipLimit.ts`) | reservations by sponsor, daily counters | reserve, transition, release, reconcile | fees in flight stay under the cap |
| Subscription store (`tempo/subscription/Store.ts`, `tempo/server/Subscription.ts`) | activation lock, record with renewal lock, credential marker | activate, renew | a period is charged once; a lookup key has one live subscription |
| Atomic store (`Store.ts`, `cloudflare/`) | keys | get, put, update by compare-and-swap, `tryClaim` | an update is atomic and its result is the applied one |
| Proxy replay (`proxy/internal/Replay.ts`) | outcome per credential | lookup, deliver, record | a bounded number of deliveries, one at a time; a recorded answer is repeated |
| Payment handler (`server/Mppx.ts`), client fetch (`client/`) | none (challenges are authenticated, not stored) | issue, verify, dispatch, retry | – |
| Stripe, EVM/x402, legacy session, CLI, identity, MCP, middlewares, discovery, HTML | external or none | – | – |

**How they interact.** A session handler loads a channel record, talks to the
chain (reads, transactions) and applies one or more atomic updates to the record;
between two awaits any other handler, of any server process, may run. Stores
offer `update` (read, compute, write atomically); everything else is message
passing with the chain, whose answers may be late, lost or unknown. Charges,
streams and settlements meet only in the record. Streams also wait for store
notifications, with polling behind them. Settlements and closes are transactions
with an expiry (`validBefore`), so the server can tell after some time that they
can no longer land.

**What is hard.** Every step of a handler that follows an await uses something
that may be stale: a record loaded earlier, a chain read, a spent amount, the
outcome of a transaction. The record carries markers (closing marker, credit
floor, leases) that stand in for transactions still in flight and expire by
clock; correctness depends on the marker outliving the transaction. `PROJECT.json`
lists the hazards at their lines.

## Modules

| Module | Models | Kind |
|---|---|---|
| `ChannelRecord` | the channel record and every pure function that computes its next value | operators |
| `ChannelLedger` | what the server promises about the money of one channel | abstract specification |
| `SessionChannel` | the session server's handlers, the escrow and the payer around one channel | state machine, refines `ChannelLedger` |
| `SharedVoucher` | what streams promise each other about the voucher they share | abstract specification |
| `StreamMetering` | paid streams that reserve, commit and release parts of one channel's voucher | state machine, refines `SharedVoucher` while clocks agree |
| `SubscriptionStore` | activations and renewals of the subscriptions of one lookup key | state machine |
| `SponsorBudget` | the shared fee budget and what each of its atomic updates does | operators |
| `TransactionCharge` | presentations of charge credentials against the replay store, the budget and the chain | state machine |
| `StoreRequests` | the requests callers make on one key of a store and their effect | operators |
| `AtomicRegister` | what an atomic store promises about one key | abstract specification |
| `AtomicStore` | compare-and-swap stores: durable objects and SQL | state machine, refines `AtomicRegister` |
| `ScheduledSettlement` | the settlement schedule and its lease | state machine |
| `PrepaidRefund` | refunds of undelivered prepaid items, idempotency markers, keyed charges | state machine |
| `ProxyReplay` | replay of paid proxy deliveries | state machine |
| `ClientFunding` | session managers that fund, use and replace the stored channel | state machine |
| `MCSessionChannel`, `MCStreamMetering`, `MCSubscriptionStore`, `MCTransactionCharge` | symmetry and constraints for TLC | model |
| `MCServer`, `MCRecords` | several independent parts in one run, each behaviour running one of them | model |
| `…Proofs`, `SumTheorems` | lemmas and theorems | proofs |

`SessionChannel` composes handlers of `ChannelRecord`'s updates, `TransactionCharge`
composes the budget with claims and chain. `SessionChannel`, `StreamMetering` and
`AtomicStore` instantiate the abstract specification they refine (`Ledger`, `Voucher`,
`Register`). The other state machines meet the rest of the server only in one
record, and each models the record's fields it reads and writes.

### ChannelRecord

`State` is the stored record. `highest` stands for `highestVoucher` and
`highestVoucherAmount` (always written together), `retained` for
`retainedVouchers`, `pendingSettlement` for the credit floor, `markers` for the
credit outcomes by idempotency key. A voucher is its cumulative amount: its
signature is checked before any update and carries no other information. Each
operator keeps the name of the function it translates (`openChannelState`,
`acceptVoucherStateUpdate`, `planDeduction`, `planCredit`, `retainVouchers`,
`reconcileExpiredPendingClose`, `markPendingClose`, …); guards that make the code
throw are separate predicates (`AcceptsVouchers`, `CanMarkPendingClose`, …).
`retainVouchers` is written as "drop the voucher with the narrowest gap"; the
record never exceeds its bound by more than one voucher, so the code's loop runs
at most once. Operators under a comment `Bug:` are plausible mistakes in the
function below them; no specification uses them.

### SessionChannel

One channel, its record `ch`, the precompile's channel `escrow`, a clock, and the
calls in flight. A call is an element of a constant set (`Vouchers`, `Closes`, …)
with a program counter; each of its steps is the code between two awaits that
touches shared state. Chain steps (`SettleMine`, `CloseMine`, `SuperviseMine`,
`PayerRequestClose`, `PayerWithdraw`, the escrow part of `OpenLand` and
`TopUpLand`) are external and follow TIP-1034 as the handlers use it. A call that
crashes or whose process restarts takes no further step, which the model allows
at every point because it assumes no fairness; a retry is another call.

| Calls | Code | Steps |
|---|---|---|
| `Opens` | `handleOpenCredential` | `OpenLand` or `OpenReplay` (transaction already mined), `OpenStore` |
| `TopUps` | `handleTopUpCredential` | `TopUpLand`, `TopUpStore` |
| `Vouchers` | `handleVoucherCredential` | `VoucherRead`, then `VoucherOneUpdate`, or `VoucherLoad…`, `VoucherReconcile`, `VoucherRecordClose`, `VoucherAccept`; `VoucherBackground` records the read the call did not wait for |
| – | `deductFromChannel`, `creditChannel` | `Charge`, `Credit` (one update each) |
| `Settlements` | `settle` | `SettleClaim`, `SettleSend`, `SettleMine`, `SettleCheckpoint` or `SettleRelease` |
| `Closes` | `handleCloseCredential` | `CloseRead`, `CloseMark`, `CloseSend`, `CloseMine`, `CloseFinalize` or `CloseFail` |
| `Supervisors` | `superviseCloses` for the channel | `SuperviseRead`, `SuperviseClosed`/`SuperviseOpen`/`SuperviseClosing`, `SuperviseSend`, `SuperviseMine`, `SuperviseFinalize` |

Two abstractions widen what the code does. The code accepts a voucher against the
stored deposit only when the record was verified against the chain recently; the
model allows any stored record. `planDeduction` also subtracts the reservations of
streams; the model charges without them.

`ChannelLedger` is the account the handlers keep between them: what the payer
deposited, authorized and was charged, what the escrow paid and what the record knows
of it. The mapping (`Ledger`) reads `deposit` and `paid` from the escrow, `authorized`,
`charged`, `recorded` and `over` from the record (`highest`, `spent`,
`settledOnChain`, `finalized`), and `closing` from `closeRequestedAt`. An escrow step
is `Fund` or `Capture`; an update is `Accept`, `Charge`, `Credit`, `Note` (a merge, a
marker, a checkpoint) or `Finalize`. The ledger says nothing of calls, transactions
in flight, floors or clocks: that a capture pays only what was authorized although it
was computed from an old read, and that nothing is charged between the announcement of
a close and its end, is what the refinement shows.

### StreamMetering

Streams (`meterIterable`) and their `charge()` calls share one channel record, of
which only `spent`, `highest`, the closing state and `streamReservations` matter
to them. A charge is a pair of its stream and its number with a program counter:

| Action | Code |
|---|---|
| `ChargePrepaid`, `ChargeStart`, `BeforeChargeRejects` | `charge` up to `reserveChargeOrWait`; the hook may reject before the reservation and before the commit |
| `ReserveRead`, `ReserveUpdate`, `WaitFor` | one round of `reserveChargeOrWait`: the read, the update that decides again, the need-voucher event and the wait |
| `Reserved`, `CommitStart`, `CommitUpdate`, `Committed` | `commit`, with the update and its answer apart |
| `PendingCommitStart`, `…Update`, `PendingCommitted` | the loop's `commit` when a manual generator goes on after a failed charge |
| `StreamEnd`, `StreamRelease`, `Abort`, `AbortRelease` | the `finally` blocks; `releaseOnAbort`, which nobody awaits |
| `ClientAnswers`, `OtherCharge`, `CloseChannel`, `Tick` | the client, other requests, whoever closes, time |

An automatic stream (`Streams \ Manual`) makes one charge per item and stops at
the first that fails. Only an `Overlapping` generator starts a charge while
another one runs. Every update looks at its own server's clock, at most
`drift` away from `clock`; `drift` is 0 or `ClockDrift` and stays what it is. A stream whose server stops is
one that takes no further step: its reservation stays until its lease expires.

`SharedVoucher` has a limit, what was spent, and what each stream holds and has earned.
The mapping (`Voucher`) lets a stream hold the amount of its reservation while the lease
runs. `ReserveUpdate` is `Hold`, a commit `Take` (all that was held and nothing
else), a release or a tick `Lapse`, another request `Spend`, a voucher `Raise`; every
other step is invisible. It holds while clocks agree (`drift = 0`): with a drift a
reservation may be committed by a clock that still sees its lease, after another
server's clock gave it up.

### SubscriptionStore

One lookup key with its activation lock (`marker`), the subscription it names
(`lookup`), the records, the credential markers of challenges (`claimed`) and the
payments that landed. Every store call is an action; `getByLookupKey` is two (the
key, then the record it names).

| Calls | Code | Steps |
|---|---|---|
| `Activations` | `verify` with `activate` | `Claim`, `ReadLookup`, `FindExisting`, `Lock`, `ReadLookup`, `FindExistingAgain`, `Create` or `CreateFails`, `Commit` or (lock lost) `PutMismatched`, `ReadLookup`, `ReadPrevious`, then `CheckOwner` before each of `PutCanceled`, `PutRecord`, `PutLookup`, and `Clear`; `Reuse` and `ReleaseCredential` for an activation that found another at work |
| `Renewals` | `renew` from `authorize`, `verify` (`RequestLookup`, `RequestRecord`) or a background worker (`BackgroundRecord`, `BackgroundLookup`) | `StartRenewal`, `LookupBefore`, `ChargePeriod` or `ChargeFails`, `LookupAfter`, `CommitRenewal` or `ClearRenewal` |
| – | the application, time | `CancelSubscription`, `Tick` |

An activation gives its name to the subscription it creates (the code draws a
random identifier). Whether a stored subscription matches a request is a free
choice at each look. With `LostAnswers` a payment may land although its call
fails. What a period costs and how it is paid is left out.

### SponsorBudget and TransactionCharge

A presentation (`requests[r]`) is one run of `broadcast`. `Present` stands for
everything up to the first claim: any credential that validation accepts may be
presented, any number of times. Then every store access, chain call and clock
check is a step.

| Steps | Code |
|---|---|
| `ClaimSigned`, `Prove`, `ClaimFinal` | `tryClaimHash`, `tryClaimProof`, `tryClaimZoneWithdrawal` with the challenge's expiry |
| `Complete` | co-signing, which may fail |
| `Poll`, `Reconcile`, `Reserve` | a round of `SponsorBudget.reserve`: snapshot, release of what looked stale, one update |
| `CheckReserved`, `Advance`, `Send` | expiry check, transition to broadcasting, last checks and the send |
| `Rejected`, `Ambiguous`, `Receipt`, `GiveUp`, `Accepted`, `Publish` | what the node answers, polling, the optimistic path |
| `CleanupBudget`, `UnclaimFinal`, `Unclaim` | the catch block |
| `Arrive`, `Include`, `Evict`, `Crash`, `Tick` | node, chain, process and time |

`wire` holds transactions on their way: the node may take one after its sender
gave up. A payment's calls carry the memo of one challenge, so it has one expiry;
a Zone withdrawal is a settled payment with a key of its own.

### StoreRequests, AtomicRegister and AtomicStore

`Request[c]` is what call `c` asks: an update (its callback as a function from the
stored value to a change), a put, a delete or a claim. `AtomicRegister` is the
abstract store: a call takes effect at one instant between call and answer, with a
clock read in between; a call that failed may have taken effect or do so once
later. `AtomicStore` follows `compareAndSwap`: `Read`, `Decide` (the callback),
`Receive` (the object or the database takes the message), `Retry`, `Answer`,
`Disconnect`. `database` chooses between `sql` (a loser reads again, deleting an
absent key sends nothing, a claim brings its caller's clock) and `durableObject`
(the answer carries the current value, the object has its own clock). The
refinement mapping places the instant at the taking of the message, or at the read
when the callback leaves the value alone. It needs no history or prophecy
variable: a call whose callback returns a noop has taken effect when it reads.

### ScheduledSettlement

Workers run `maybeSettleScheduled`: `FindDue`, `claimScheduledSettlement`,
`settle` (the update that picks the voucher), `Capture` (the transaction),
`Checkpoint`, `markSettlementComplete`, `releaseScheduledSettlement`; the interval
is `SendRenewal` and `renewScheduledSettlement`, whose update may arrive after the
settlement is over. The lease keeps the time it has left, and an update's age says
how far its clock is behind. A `Fault` is an update or a node call that fails, an
answer that is lost, or a worker that stops. A transaction its worker gave up on is
`loose` and may land.

### PrepaidRefund

`serves[d]` are the locals of one `serve` call with `autoCreditPrepaid`;
`undelivered` and `awaiting` are `undeliveredPrepaidUnits` and
`committedPrepaidAwaitingDelivery`. `preparePrepaidRefund`, `pull`, `Finish`,
`Fail`, `recordFailure`, `creditChannel`, `onRefundRequired` and `clearObligation`
follow `Sse.ts`; each update may fail, lose its answer, or (the credit) be applied
late. `account` has the record's fields they touch; `credited` and `charges` count
what it went through. `CaptureOrClose` sums up settlements and closes by what they
capture. `RetryCredit` and `Transfer` are the merchant's, as the comments of
`Sse.ts` ask of it. `Attempt` and `deductFromChannel` are attempts of one keyed
charge.

### ProxyReplay

Requests with one credential and one content: `Lookup` and `claim` (`lookup`'s read
and update), `pay`, `deliver`, `onUpstreamError`, `waitForRetry`, `Respond`, `keep`,
`recordOutcome`. The first record's write and the outcome's are best effort: `record`
lets each be made, fail, or fail and arrive later (`strays`).

What `maxAttempts` bounds is deliveries (`runs`), not requests to the upstream:
within one delivery `proxyUpstream` repeats the request for as long as
`onUpstreamError` asks for it and the delivery's time is not over
(`Proxy.ts:360-397`), here any number of times. Nor does a failure say that nothing
ran: after a timeout, a 5xx or a body that broke off the request is sent again, and an
upstream that is not idempotent may run the operation twice (`Replay.ts:9-13`). So
`RunsInOrder` speaks of deliveries: two never run at once, one that was answered or
stopped without a known end is never followed by another, and every later one follows
one that was seen to fail.

### ClientFunding

`stored` is the entry of one payment scope in the managers' backing store,
`funding` the queue of its funding lock, `managers[m]` what a manager keeps
(`runtime.channel`, `ignoredChannelIds`, `uncertainFunding`), `topUps[t]` one run of
`withTopUpLock`, `fetches[m]` the `ChannelUse` of the fetch in flight with its locals.
`Ask`, `Acquire`, `Check`, `Post` and then `Refused`, `Accepted` or `Lost` and
`MarkUnknown` follow a top-up, of a stream or the user (`postTopUpAndApply`) or of a
challenge (`topUpChannelIfNeeded`). `FetchStart`, `Plan` and `Pay` follow a fetch
that signs for the stored channel or opens its own (each manager has one to open,
named like the manager); `FetchFail` and `Evict` are the ways back
(`rollbackCreatedChannels`, `restoreRuntime`, `retryWithoutResumed`). `Saw` and
`Tracked` are what the manager's view of the store notes on each read and write;
a write that is refused has already taken the entry's channel out of the ignored
ones and counted it as created (`IgnoredAfter`, `SessionManager.ts:318-323`).

An answer that is not ok decides a deposit (`Refused`), also a 5xx that comes after the
server sent the transaction on, because the code treats it so (`Transports.ts:699-700`):
such a deposit is not undecided in the sense of `NoSecondDeposit`.

`NoSecondDeposit` leaves out two cases in which the code itself lets go of the record
that a deposit is undecided; TLC shows both when the property asks for them:
- A top-up sent before a fetch starts and accepted before the fetch has read the
  store is taken for a channel that the fetch created (`SessionManager.ts:318-324`).
  If the fetch fails, the funded channel is ignored from then on
  (`rollbackCreatedChannels`) although the manager goes back to using it, and what
  another manager marks on its entry is no longer seen (`getReusable`).
- A manager that still uses a channel which another one replaced cannot mark it once
  the replacement is marked: `persistChannel` refuses, the error takes the place of
  `UncertainFundingError` (`Transports.ts:693-698`) and `uncertainFunding` stays
  unset (the state "unmarked"). If the manager has signed since its fetch began, a
  restore brings back a copy without the mark.

## Runs

Every run works on one channel, one lookup key or one store key. `server` and
`records` hold several state machines at once: `part` says which of them a
behaviour runs, the others stay where they start, so the runs are the sum and not
the product of the parts.

| Run | Checks | Interleaves |
|---|---|---|
| `vouchers` | `VouchersAreFunded`, `OneRequestPerVoucher`, `KeepsLedger` (refinement) | two voucher requests with their background reads; or one, a top-up and a repeated open |
| `settle` | `TypeOK`, `ClosePaysSpent`, `SupervisedCaptureFixed`, `NothingTakenBack`, `CaptureWithinSpent`, `CreditKeepsSettled`, `KeepsLedger` (refinement) | a settlement, charges, a credit, the payer's close, and one of: a repeated open, a cooperative close, a supervisor run; or two supervisor runs without a settlement |
| `close_retry` | `CloseKeepsMarker`, `ReopenedOnlyIfNotClosed` | two cooperative closes; or one and a voucher request that reconciles its expired marker |
| `stream_clocks` | `SharesVoucher` (refinement), `SpentWithinAccepted` | two manual streams with a prepaid unit and a charge of 1 or 2 (with one charge they do all an automatic one does), other charges, lease expiry, under one clock or under clocks that differ |
| `server`, stream | `ServerTypeOK` (with the parts' type invariants), `ResolvedIsCharged`, `ChargedAtMostOnce`, `NothingReservedWhenOver`, `WaitingIsServed` (liveness) | a manual stream with a prepaid unit and two charges, other charges, aborts, hook failures, lease expiry, a close |
| `server`, store | `ServerTypeOK`, `ConflictIsProgress`, `StoreIsAtomic` (refinement) | two updates and a claim of one key, on a database or an object, with conflicts, lost answers, late messages, an expiring claim |
| `server`, schedule | `ServerTypeOK`, `LeaseHeldWhileSettling`, `DueIsCollected` (liveness) | two workers, charges, a close request, renewals, a lease that runs out, one fault |
| `records`, subscription | `RecordTypeOK` (with the parts' type invariants), `ActivatedOncePerChallenge`, `CommittedOwns`, `LiveIsCurrent`, `RenewalExclusive` | two activations with one or two challenges and a renewal, or one activation and two renewals and more time; lost answers, stale locks, cancellations |
| `records`, refund and keyed | `RecordTypeOK`, `RefundedOnce`, `OwedIsKept`, `TransfersWithinCapture`, `KeyedChargeOnce` | two deliveries within the retention; or one delivery and two attempts of a keyed charge while markers expire |
| `records`, proxy | `RecordTypeOK`, `RunsInOrder`, `CompleteIsKept` | three presentations of one credential, upstream requests repeated within a delivery, writes that fail or arrive late, records that expire, stops |
| `records`, client | `RecordTypeOK`, `NoSecondDeposit` | two managers that share a store: a fetch and a top-up each; or one fetch with four top-ups, one of them for a challenge |
| `charge` | `TypeOK`, `PaidOnce`, `FailureFreesCredential`, `ExposureWithinBudget`, `EveryRequestEnds` (liveness) | three presentations of two sponsored transactions, one of them optimistic, and a budget with room for one; or two presentations of an unsponsored transaction or a proof; a crash |
| `shared_floor` | violates `CaptureWithinSpent` | finding 1 |
| `supervise_cancel` | violates `SupervisedCaptureFixed` | finding 2 |
| `stream_overlap` | violates `ResolvedIsCharged` | finding 3 |
| `subscription_race` | violates `PeriodChargedOnce` | finding 4 |
| `charge_lease` | violates `ExposureWithinBudget` | finding 5 |

A session run declares several calls and a constraint of `MCSessionChannel`
(`VoucherCasts`, `SettlingCasts`, `ClosingCasts`) that says which of them may take
part in one behaviour, so that a run covers each interleaving named above without
all calls at once.

## Bounds and assumptions

- Amounts: vouchers and deposits of 1 and 2, charges of 1. Two amounts are enough
  for a voucher below, at and above another and for a settlement that captures a
  retained voucher below the accepted one; `MaxRetained = 1` fills the list.
- `MaxDeposit` bounds the total deposit, `MaxTime` the clock. The clock reaches
  past a transaction's expiry (`Validity`), the marker's skew (`ClockSkew`) and the
  escrow's grace period in the runs whose properties depend on it (`settle`,
  `close_retry`), so expiry and withdrawal happen there.
- Every call runs once (a worker of `ScheduledSettlement` runs again until nothing is
  due), so behaviours end and deadlock is not checked.
- `ClockDrift`: a block's timestamp is within this distance of the server's
  clock. The code allows 30 s of skew (`pendingCloseClockSkewSeconds`);
  `close_retry` uses half of the skew for drift and half for the age of reads.
- `MaxReadAge`: a chain read, or a time taken, is applied within this time. The
  code has no such bound; `MaxReadAge <= ClockSkew - ClockDrift` is enough for
  `close_retry`, and with older reads `ReopenedOnlyIfNotClosed` fails: a read from
  before a close landed, applied after the marker expired, reopens the record.
- `creditChannel` reads its clock just before its update; the model reads it at
  the update. A slightly older time only keeps the floor longer.
- Streams: a lease of one tick and clocks that reach past it, so that leases
  expire while a charge waits, reserves or commits. With two streams and three
  amounts of coverage a reservation may be granted, refused or retried. With
  `drift > 0` a server may drop a lease another one still holds;
  `SharesVoucher` is then false and only `SpentWithinAccepted` remains, because a
  commit checks coverage again. `stream_clocks` stops at the close of the channel
  (`OpenChannel`), where nothing is charged or reserved any more; `server` goes on.
- Subscriptions: periods of one tick, three of them, and locks that go stale after
  one tick, so that a renewal may be overdue, its lock replaced while it charges
  and an activation's lock taken by another. The constraint `ThreeCalls` lets any
  three of the four calls take part, and the clock reaches its last value only with
  one activation. `subscription_race` needs no timeout: its
  locks outlive the run.
- Charges: `charge` sets `Prompt`, which lets no running server take longer from
  the clock reading its lease runs from to its send than the lease (30 s in the
  code); a stopped server's lease does run out. `charge_lease` drops it. All servers
  and the chain share one clock: the code compares `validBefore` and the
  challenge's expiry with `Date.now()` as they are. One crash, one unit of budget
  and fees of one let each of two sponsored transactions be refused, wait, lose its
  lease or take over.
- Store: `MaxAttempts = 2` and three calls, so that a call can lose once and
  succeed, or lose twice and fail.
- Schedule: `MaxLatency` bounds how long a claim's update takes to be applied after
  its clock was read, `MaxFaults` the faults of a behaviour; the vouchers are
  accepted before. Schedules by time and by units are left out: they make a
  settlement due in more states. The credit floor of `settle` is in
  `SessionChannel`.
- Refunds: no call takes as long as markers are retained (`InTime`; 24 h in the
  code), merchants retry failed entries within the retention, as
  `Sse.ts:50-54` asks, and all attempts of a keyed charge come within it
  (`Retained`). The two-delivery part has no time, since within the retention time
  changes nothing; one delivery and one key run with time.
- Proxy: a ttl of one tick and two ticks of time, so that a record expires while
  its delivery runs.
- Client: amounts are left out, so any top-up may or may not need a deposit. A write
  to the store and its caller's update of the manager are one step, the store does
  not fail, and its entries and snapshots are copies (the in-memory store and a
  snapshot share the object until the next signature, so the code sees a mark at
  least as early). One challenge per fetch, one fetch per manager.
- Fairness: `SessionChannel`, `SubscriptionStore`, `PrepaidRefund`, `ProxyReplay` and
  `ClientFunding` assume none. `TransactionCharge` assumes that a server that has not stopped takes
  its next step, since every wait of `broadcast` has a deadline, and that time
  passes however often servers poll (strong fairness of `Tick`). `ScheduledSettlement`
  assumes that a running worker proceeds and that some worker looks at the channel
  again, which is what the supervisor's repeated `settleDue` does; `StopWorker` needs
  no fairness, and a stopped worker's lease runs out because time passes.
  `StreamMetering` assumes that a store call
  a charge issued is answered and a waiting charge polls again (`waitForUpdate`
  races the notification with `sleep(pollIntervalMs)`), and that the client
  answers an event it received. Generators, closes, aborts and time need not go
  on.

## Findings

1. `shared_floor`. Two settlements claimed in one second with the same amount
   have equal floors, merged into one; when one reverts, `release`
   (`Settlement.ts:652-664`) removes the floor under the other and a credit can
   lower `spent` below what it captures.
2. `supervise_cancel`. The supervisor's close carries no expiry tied to the
   record (`CloseSupervisor.ts:382-398`). If the payer cancels by topping up and
   another run reopens the record, charges resume while the close may land.
3. `stream_overlap`. `meterIterable` clears `pending` when the answer of its commit
   arrives. If a generator runs two `charge()` calls at a time, the second may
   have reserved after the first one's update: its own commit then finds nothing
   pending and `charge()` resolves with nothing committed, although
   `SessionController.charge` promises that the charge is committed before it
   resolves. The reservation is released at the end of the stream.

4. `subscription_race`. `activate` reads the subscription it replaces and writes it
   back, canceled, two store calls later (`subscription/Store.ts:285-293`). A
   renewal that locks the record in between loses its lock, and until the lookup
   key moves a second renewal that already passed its own check starts and runs
   the billing callback for the same period again, although the store's `renew`
   "Runs renewal once for a subscription period". With the built-in handler the
   access key's limit on chain may still refuse the second payment; a custom
   handler has only the period's stable reference to notice.

5. `charge_lease`. `reconcile` decides from a snapshot that a prepared
   reservation's lease is over and then releases it if the owner is still the same
   (`SponsorBudget.ts:95-99`); `transition` looks at the owner only as well. When a
   server takes longer than its lease and moves its reservation to broadcasting
   between the snapshot and the release, the reservation is dropped although its
   transaction is about to be sent, and the budget is given to another one, so that
   more fees are in flight than the budget allows. The comment says pending
   broadcasts remain charged to the budget (`SponsorBudget.ts:123-124`).

What the passing runs leave out on purpose: a settlement whose receipt is
recorded after its credit floor expired (`UnrecordedSettlement`, the exception in
`CreditKeepsSettled`); two settlements at a time (finding 1); a top-up or a
cooperative close during a supervised one (finding 2; a failed cooperative close
clears `closeRequestedAt` when it equals its own marker, also when an on-chain
request was merged into it); reads older than the skew (above); and overlapping
charges of one generator (finding 3). `RenewalExclusive` excepts subscriptions
canceled while they renew (finding 4) and renewals slower than the lock's timeout:
then, or when a payment lands although its call failed, a period may be charged
twice by design, with a stable reference to tell.

Four behaviours to know of that no document contradicts, or only in passing. A process that stops after
its activation committed leaves a lock that never goes stale
(`subscription/Store.ts:514`), and no other activation of that lookup key can
start. And a `charge()` that rejects
after it reserved (its hook failed, say) leaves the reservation pending, and the
next charge or item commits both amounts (`ChargedAtMostOnce` counts it). After a
settlement whose checkpoint failed, the record stays behind the escrow: the
settlement stays due and further ones revert until another handler records what it
read of the escrow (`Refreshed`), because the supervisor's `settleDue` does not merge
its read. And a proxy's pending record expires `ttl` after its write while the body
of that delivery may stream on; a retry then falls through to the payment handler
and gets its challenge, where `Proxy.ts:302-304` speaks of `202` while the delivery
runs; it never pays again and starts no second delivery.

## Proofs

`SessionChannelProofs` and `SessionCloseProofs` prove, for every value of the
constants allowed by `RecordConstants` and `ChannelConstants` (any number of calls,
any amounts, any clock bounds):

| Theorem | States | From |
|---|---|---|
| `TypeCorrect` | `Spec => []TypeOK` | |
| `SpendingAuthorized` | `Spec => []SpentWithinAccepted` | |
| `RecordNeverAhead` | `Spec => []RecordBehindEscrow` | |
| `RecordGrowsOnly` | `Spec => NothingTakenBack` | |
| `VouchersFunded` | `Spec => []VouchersAreFunded` | |
| `VoucherPaysOneRequest` | `Spec => []OneRequestPerVoucher` | |
| `MarkerIsKept` | `Spec => []CloseKeepsMarker` | drift |
| `ClosePaysAll` | `Spec => []ClosePaysSpent` | drift, reads |
| `ClosedStaysClosed` | `Spec => ReopenedOnlyIfNotClosed` | drift, reads |
| `SupervisedCaptureStays` | `Spec /\ [][RequestStands]_vars => []SupervisedCaptureFixed` | drift, reads |
| `CaptureIsCharged` | `Spec /\ []OneSettling /\ [][RequestStands]_vars => CaptureWithinSpent` | drift, reads |
| `CreditsKeepSettled` | `Spec /\ []OneSettling /\ [][RequestStands]_vars => CreditKeepsSettled` | drift, reads |

Two assumptions on the clocks are hypotheses of the theorems that need them, because
the code relies on them and states neither: `DriftWithinSkew`
(`2 * ClockDrift <= ClockSkew`: a block's clock may run ahead when the transaction
expires and behind when a supervisor reads its time) and `ReadsWithinSkew`
(`MaxReadAge + ClockDrift <= ClockSkew`: a read is applied before the skew is over).
With the 30 s of `pendingCloseClockSkewSeconds` that is a drift of up to 15 s and, at
that drift, reads of up to 15 s. `close_retry`, `settle` and `vouchers` satisfy them as they check the
same properties; with older reads `ReopenedOnlyIfNotClosed` is false (see Bounds).

Two more are about behaviour, and each is what a finding shows to be needed.
`OneSettling`: no settlement is claimed while another still may need its floor; the
record has one floor, and `shared_floor` breaks `CaptureWithinSpent` with two.
`RequestStands`: once the payer has asked to close, no top-up cancels the request
(`supervise_cancel` breaks `SupervisedCaptureFixed` with one) and no cooperative close
fails. The second half is needed because `clearPendingClose` removes the marker of
the close that failed although the payer's older request was merged into it: the
record then accepts charges again until the next read of the escrow. The scheduled
settlements of one channel do not overlap while their leases run
(`OneSettlesAtATime`), but a `settle` the application calls may.

The first four theorems follow from one inductive invariant `IInv`. `TypeOK` and
`SpentWithinAccepted` alone are not inductive: `openChannelState` raises `spent`
to the settled amount of the open's read and `RecordBehindEscrow` depends on what
calls hold between two steps. `IInv` therefore adds that everything a call read from
the escrow (`read.settled`, `paid`, a landed capture) is at most what the escrow paid
by now, and that an open's read shows nothing settled. Below it are the lemmas about
the pure functions of `ChannelRecord`: the type of what each returns, that
`spent <= highest` is kept, that accepted and settled amounts do not decrease. The
proof of the step has one lemma per action.

The others add one invariant after the other, each inductive with those before it:

- `FundInv`: as long as the escrow is not closed its deposit covers the record's
  highest voucher and deposit, and every amount and deposit a call holds. The second
  part of its lemma (`RecordMoves`) says what any step may do to the record: spending
  is fixed while it is closing, and only named steps take a close marker away.
- `AdvanceInv`: whoever advanced the channel did so past every other call, and the
  record still holds that voucher; a second request with it is refused.
- `MarkInv`: while a cooperative close may still be mined (`Live`) the record shows a
  marker at least as late as the close's own, nothing was charged since its capture
  was computed, and every other close that could remove a marker has an older one.
  By the drift no step takes the marker for expired in that time (`LiveSpared`).
- `LandInv`: the same of a close that landed. It never expires, so what protects it
  is that a closed channel reads as zeros: whatever still shows an open channel was
  read before the close landed (`OldReads`) and is applied before the marker expires.
- `RequestInv` and `FixedInv`: from the moment a supervisor has computed its capture
  the record shows the payer's request, and the capture is what is charged.
- `FloorInv`: what a settlement may capture is recorded as settled, or is charged and
  is the record's floor; a floor that has not expired is that of such a settlement.
- `PaidInv`: what the escrow paid is recorded, or a settlement that landed has still
  to record it, or the channel ended. `CaptureInv`: a live close captures what is
  charged or what the escrow already paid.

`LedgerProofs` proves the refinement, `SessionKeepsLedger` (`Spec => KeepsLedger`), with
no assumption on clocks, reads or overlapping settlements: whatever the findings break,
they do not break this account. `IInv` is not enough for it. A step that accepts, closes
or finalizes maps to the ledger because of what its call holds, so `LedgerInv` adds what
calls may hold: every deposit that one read is covered by what was ever deposited
(`Deposited`); what a settlement or a close will capture is authorized (`SettleLedger`,
`CloseLedger`, `SuperviseLedger`); a close that mined, or was read as mined, is the
escrow's last word, so what it finalizes with is all that was paid; and a finalized
record already says so (`RecordLedger`). `NextLedger` has one lemma per action.
`ChannelSolvent` (`Spec => []Ledger!Solvent`) carries the ledger's own invariant back to
the session: nothing charged or paid that was not authorized, nothing paid that was not
deposited, and no payment recorded that was not made.

`ServerProofs` is about the three parts that `MCServer` runs: `StreamMetering`,
`AtomicStore` and `ScheduledSettlement`.

Streams, for any finite set of streams and any amounts, leases and clocks.
`SpentStaysAccepted` (`Spec => []SpentWithinAccepted`) holds by any clocks, as each
update that spends checks what is left of the voucher itself. `ReservationsStayCovered`
(`Spec => []ReservationsCovered`) follows from what each update does to the sum of the
live reservations: a reservation is made within what is left, a commit moves its amount
from the sum to what is spent, an expiry only makes the sum smaller.
`StreamsShareVoucher` (`Spec => SharesVoucher`) proves the refinement of `SharedVoucher`:
`RecordStep` says that each of the many steps of streams, charges and clients changes
record and earnings by one of the code's updates, or not at all, and `VoucherStep` maps
each update to a step of the voucher. It holds by types alone; that nobody holds more
than is there follows from `Hold` and `Spend`, whose guards the updates have to meet.
`ChargesCommitOnce` (`Spec => []ChargedAtMostOnce`) is strengthened to `AskedInv`: what
a stream has committed *or reserved* is at most what its calls asked for (`AskedFor`),
and a call that has not started asked for nothing (`Fresh`). `ResolvedCharges`
(`Spec => []ResolvedIsCharged`) and `NothingLeftReserved`
(`Spec => []NothingReservedWhenOver`) have the hypothesis that no generator overlaps its
charges (`Overlapping = {}`): finding 3, `stream_overlap`, breaks the first without it.
Their invariant `AwaitInv` says that calls of a stream run one after the other
(`InTurn`), that none is in flight once the stream has left its loop (`CallsResolved`,
or its reservation could arrive after the release), that what a call
reserved is known as pending before its commit and holds its amount or is gone (`PendingKnown`,
`HeldByCall`), and that what committed calls asked for has been committed (`PaidFor`).

Store. `StoreRefinesRegister` is `StoreSpec => Register!RegisterSpec` under the mapping
above: initial states map to initial states, each step to a step or a stutter. Its
invariant says what the types leave open: which messages may be on their way (one of a
waiting or a disconnected caller, never the swap of a change that leaves nothing to
swap), that only updates read, and that a call still trying has an attempt left.
`LosingIsProgress` proves `ConflictIsProgress`.

Settlement schedule. `ScheduleTyped` and `OneSettlesAtATime`
(`ScheduleSpec => []LeaseHeldWhileSettling`): the property is strengthened by what makes
it inductive, that the lease of a worker that relies on it has time left, so no claim,
whose clock is never ahead, finds it over.

The parts together. The parts share no variable, so a behaviour of `MCServer` is one
of each (`ServerRunsParts`), and what is proved of a part holds of the composed
specification. `ServerTyped` (`ServerSpec => []ServerTypeOK`) takes its types from
`MeteringTyped`, `StoreTyped` and `ScheduleTyped`; that a call of the store only ever has
an answer its request can get needs `StoreInv`, as only updates run callbacks.

`SumTheorems` is what these proofs, and those on the sponsor's budget and on refunds,
need of sums over finite sets: `SumFunctionOnSet` is a natural number (`SumType`), takes
out any element (`SumTake`), grows with its terms (`SumLeq`) and its set (`SumSubset`),
and follows one term that changes (`SumChange`). The library states induction over
finite sets with an operator as parameter, which the provers cannot instantiate;
instead, each lemma takes a smallest subset that violates it (`MinimalSet`, from the
well-foundedness of strict inclusion). That the fold, defined by `CHOOSE`, satisfies its
recursion at all is proved first (`SumsExist`, `SumUnfold`). The modules say that
`Streams` and `Deliveries` are finite, as everything a process holds is.

`SubscriptionStoreProofs` proves, for every value of the constants,
`StoreTyped` (`Spec => []TypeOK`), `OneActivation`
(`Spec => []ActivatedOncePerChallenge`), `CommittedKeepsLock`
(`Spec => []CommittedOwns`), `OthersAreCanceled` (`Spec => []LiveIsCurrent`) and
`RenewalHoldsPeriod` (`Spec => []RenewalExclusive`). The inductive invariant adds to the types that calls
which still hold a claim have different challenges (`ClaimsExclusive`), that only
such a call, past its creation, has paid its first period (`PaidPastCreation`),
that a committed call finds its own committing lock (`CommittedLocked`), and that
renewals charge later periods only (`RenewalsLater`). A claim is released only by
a call that has not paid, so two calls with one challenge never both have.
`LiveInv` adds for the last two what the writers still on their way have seen: an
activation about to replace the current subscription has the one the lookup names, and
has canceled it before it writes its own (`Current`); what is renewed was stored by its
activation, which therefore does not write over it (`RenewedStored`); and the lock of a
renewal that charges is as old as the renewal knows, and its period is not charged
yet (`Alone`), so a lock that replaced it as stale is never taken for it.

`TransactionChargeProofs` is for any presentations, payments, fees, expiries and
crashes. `PaidOnce` (`PaymentAuthorizesOnce`) alone is not inductive: a presentation
that fails deletes its claims by
key, whoever made them. The invariant adds which claims a presentation holds at each
control point (`Keys`), that a held claim is stored with the expiry of the payment's
challenge (`Marked`) and that no two presentations hold the same one (`Exclusive`).
A claim is taken before that expiry and over no unexpired marker, so never over one
that is held. `FailureFrees` (`Spec => []FailureFreesCredential`) is the converse: every
marker that has not expired is held by a presentation, or was by one whose server
stopped (`Backed`).

`ExposureCovered` (`Spec => []ExposureWithinBudget`) has the hypothesis that running
servers broadcast within their prepared lease (`Prompt`; finding 5, `charge_lease`,
breaks the property without it). The budget's own bound, that what is reserved is in
room there was (`Room`), is a sum; the work is that nothing is at risk without a
reservation. `BudgetInv` says that a transaction on its way, whose fee a block may still
cost, is reserved by a presentation that sent it, and one about to be sent by who sends
it (`Covered`); that a reservation is for the fee and the validity its payment declares
and, while only prepared, belongs to a presentation that has not sent yet or never will
(`Owned`); and that whoever noted a reservation as lapsed, however long ago, noted one
whose transaction can no longer land or whose owner has given up (`Noted`, from `Timely`,
the prompt server's lease). So a release, which compares the owner and not what was
noted, never takes a fee at risk.

`RecordProofs` is about the parts that `MCRecords` runs. They too share no variable
(`RecordsRunParts`), and `RecordTyped` (`RecordSpec => []RecordTypeOK`) follows from the
type correctness of each, the subscription store's included.

Client. `ClientTyped` and `DepositsOnce` (`ClientSpec => NoSecondDeposit`) are for any
managers, top-ups and challenges. The
invariant `Funded` says why the property holds of each step: who checks or has a
deposit out is the first on the funding lock (`Locked`), so no other is in flight;
one that stays unknown is marked on the stored entry (`Marked`), which every write
keeps; who checks after that has seen the mark unless its manager ignores the
channel (`Warned`). A channel leaves the ignored ones only when a fetch pays with it,
and then it was not ignored (`Signing`) or is a new one that no top-up names yet
(`Fresh`).

Deliveries. The rest is about `ProxyReplay` and `PrepaidRefund`, for any requests,
deliveries, attempts and times. `RequestsRunInOrder` (`ReplaySpec => []RunsInOrder`)
treats who may start a delivery next as a token: it is with a credential that
has not paid, with the one request that delivers, however often it asks the upstream, or
in the recorded outcome of the last delivery, stored or still to arrive (`OneToken`); it
counts the deliveries started (`Counted`), what it says of a failure is true
(`Followed`), and whose delivery was not seen to fail has it for good (`Standing`). `ResponseIsKept`
follows from the same invariant. `NothingRefundedTwice` and
`KeyedChargeMadeOnce` rest on a marker that is kept for as long as anybody may send
the credit, or the charge, again (`Credited`, `ChargeKept`): times only grow, and a retry
starts from a time before the delivery's own (`Dated`). `OwedIsNotForgotten` adds that
an entry is cleared only with the refund made, handed to the merchant, or nothing
captured (`Owed`). `TransfersCaptured` (`RefundSpec => []TransfersWithinCapture`) rests
on what a delivery is told to return outside: at most the capture less everything else
that was spent (`Outside`). For a set of them, one is bounded by the capture and each of
the others by its own undelivered units, which the first bound has left out.

Every invariant, action property and refinement that a passing run checks is proved,
some under the hypotheses above. Only model-checked: liveness (`WaitingIsServed`,
`DueIsCollected`, `EveryRequestEnds`), which is out of the prover's reach, and the five
counterexamples.

## Not modelled

Units, descriptors, identities, signatures, fee selection, logging and block-number
bookkeeping are outside `SessionChannel`; `renewReservedCharges` (nothing calls it),
`chargeOnce`, free charges and an `emit` or `onChargeCommitted` that fails after a commit
are outside `StreamMetering`; access keys, expiry and
hooks are outside `SubscriptionStore`; credential validation, split payments, fee
tokens and relays outside `TransactionCharge`; native encoding, write hooks, replay
shards and the memory, Redis and KV adapters outside `AtomicStore`; contents, size
limits and a failing `applyReceipt` outside `ProxyReplay`; the session reducer, bootstrap, recovery from a server
snapshot, repeated challenges and closing outside `ClientFunding`. The components marked `not_modelled` in `PROJECT.json` give
their reason there. Liveness, ENABLED and recursive definitions are out of the prover's
reach; liveness is left to TLC, and sums are over finite sets (`SumTheorems`).

## Plan

1. Client: amounts, recovery and close in `ClientFunding`, composed with the server
   record.
2. `WebSocketSession` (`Ws.ts`): serialized actions, a close racing a stream's start.
3. `SubscriptionStore`: expiry of subscriptions (`Subscription.ts:1132`).
4. Replay shards and the remaining adapters of `Store.ts`.
