--------------------------- MODULE TransactionCharge ---------------------------
(***************************************************************************)
(* The settlement of Tempo charge credentials (tempo/server/Charge.ts):    *)
(* several presentations of the same or of different payments, on several  *)
(* servers, against one replay store, one sponsor budget and one chain.    *)
(*                                                                         *)
(* A payment is a signed transaction (or a zero-amount proof); its calls   *)
(* carry the memo of exactly one challenge, so a payment has one expiry.   *)
(* A server claims the payment's hashes in the replay store, reserves the  *)
(* fee it sponsors, sends the transaction and waits for the receipt; when  *)
(* it cannot tell whether the node took the transaction it frees the       *)
(* claims, so that the payer can present the same credential again.        *)
(*                                                                         *)
(* The node may take a message late, answer late or not at all; a server   *)
(* may stop at any step.  Time is Date.now(), the same for all servers     *)
(* and the chain.                                                          *)
(***************************************************************************)
EXTENDS SponsorBudget

CONSTANTS
    Requests,            \* presentations of credentials
    Payments,
    Presents,            \* request -> the payments it may present
    Proofs,              \* zero-amount payments, settled by a signature
    Sponsored,           \* payments whose fee the server's sponsor pays
    Optimistic,          \* payments to a method with waitForConfirmation: false
    Expiry,              \* payment -> expiry of its challenge
    ValidBefore,         \* payment -> first time it can no longer be included
    Fee,                 \* payment -> the fee it declares
    Prompt,              \* running servers broadcast within the prepared lease
    MaxCrashes,
    MaxTime

ASSUME ChargeAssumption ==
    /\ Payments # {}
    /\ Presents \in [Requests -> SUBSET Payments]
    /\ Proofs \subseteq Payments
    /\ Sponsored \subseteq Payments \ Proofs
    /\ Optimistic \subseteq Payments \ Proofs
    /\ Expiry \in [Payments -> Nat \ {0}]
    /\ ValidBefore \in [Payments -> Nat]
    /\ Fee \in [Payments -> Nat]
    /\ Prompt \in BOOLEAN
    /\ MaxCrashes \in Nat
    /\ MaxTime \in Nat

VARIABLES
    now,           \* Date.now()
    claims,        \* replay store: hash -> expiry of its marker, 0 for none
    reservations,  \* the sponsor budget
    requests,      \* what each presentation has done
    wire,          \* presentations whose transaction is on its way to the node
    chain          \* payment -> what the chain knows of it

vars == <<now, claims, reservations, requests, wire, chain>>
-----------------------------------------------------------------------------
\* The co-signature changes the hash of a sponsored transaction.
Hashes == Payments \X {"signed", "cosigned"}
SignedHash(p) == <<p, "signed">>
FinalHash(p) == IF p \in Sponsored THEN <<p, "cosigned">> ELSE SignedHash(p)

Kinds == {"transaction", "settled", "proof"}

Ended == {"succeeded", "failed", "replayed", "crashed"}
Pcs == {"idle", "claim", "proved", "complete", "claimFinal", "reserve", "reconcile",
        "reserved", "advance", "send", "sending", "polling", "accepted",
        "cleanup", "unclaimFinal", "unclaim"} \cup Ended

Seen == [id: Payments, owner: Requests, lapsed: BOOLEAN]

Idle(r) == requests[r].pc = "idle"
At(r, pc) == requests[r].pc = pc
PaymentOf(r) == requests[r].payment

\* The key a presentation claims first: a settled one names the hash on chain.
ClaimedKey(r) ==
    IF requests[r].kind = "settled" THEN FinalHash(PaymentOf(r)) ELSE SignedHash(PaymentOf(r))

Goto(r, pc) == requests' = [requests EXCEPT ![r].pc = pc]

HasReceipt(p) == chain[p] \in {"mined", "reverted"}
Includable(p) == chain[p] = "pooled" /\ now < ValidBefore[p]

NewRequest(p, kind) ==
    [pc |-> "claim", payment |-> p, kind |-> kind, started |-> 0, seen |-> {},
     claimedFinal |-> FALSE, reserved |-> FALSE, attempted |-> FALSE]

TypeOK ==
    /\ now \in Nat
    /\ claims \in [Hashes -> Nat]
    /\ DOMAIN reservations \subseteq Payments
    /\ \A id \in DOMAIN reservations : reservations[id] \in Reservation(Requests)
    /\ requests \in [Requests -> [pc: Pcs, payment: Payments, kind: Kinds, started: Nat,
                                  seen: SUBSET Seen, claimedFinal: BOOLEAN,
                                  reserved: BOOLEAN, attempted: BOOLEAN]]
    /\ wire \subseteq Requests
    /\ chain \in [Payments -> {"absent", "pooled", "mined", "reverted"}]

Init ==
    /\ now = 0
    /\ claims = [h \in Hashes |-> 0]
    /\ reservations = NoReservations
    /\ requests = [r \in Requests |->
                    [NewRequest(CHOOSE p \in Payments : TRUE, "proof") EXCEPT !.pc = "idle"]]
    /\ wire = {}
    /\ chain = [p \in Payments |-> "absent"]
-----------------------------------------------------------------------------
\* The replay store (Store.tryClaim): a marker keeps its key until it expires,
\* and a claim that would be expired already is refused.

Claimed(h) == claims[h] > now

\* Mutant: a claim at the instant its own expiry and the marker's coincide.
CanClaimAtExpiry(h, expires) == expires >= now /\ ~Claimed(h)

CanClaim(h, expires) == expires > now /\ ~Claimed(h)

\* A claim that goes on to `won', or is refused and goes on to `lost'.
Claim(r, h, won, lost) ==
    LET expires == Expiry[PaymentOf(r)]
    IN IF CanClaim(h, expires)
       THEN /\ claims' = [claims EXCEPT ![h] = expires]
            /\ won
       ELSE /\ claims' = claims
            /\ Goto(r, lost)
-----------------------------------------------------------------------------
\* Presentations

\* Validation, up to the first claim.  A hash or a Zone withdrawal is
\* validated against its receipt on chain.
Present(r) ==
    /\ Idle(r)
    /\ \E p \in Presents[r], kind \in Kinds :
        /\ now < Expiry[p]
        /\ kind = "proof" <=> p \in Proofs
        /\ kind = "settled" => chain[p] = "mined"
        /\ requests' = [requests EXCEPT ![r] = NewRequest(p, kind)]
    /\ UNCHANGED <<now, claims, reservations, wire, chain>>

\* The claim is all a settled payment needs.
ClaimSigned(r) ==
    /\ At(r, "claim")
    /\ Claim(r, ClaimedKey(r),
             Goto(r, CASE requests[r].kind = "transaction" -> "complete"
                       [] requests[r].kind = "settled" -> "succeeded"
                       [] requests[r].kind = "proof" -> "proved"),
             "replayed")
    /\ UNCHANGED <<now, reservations, wire, chain>>

\* A proof checks its expiry again.
Prove(r) ==
    /\ At(r, "proved")
    /\ Goto(r, IF now < Expiry[PaymentOf(r)] THEN "succeeded" ELSE "failed")
    /\ UNCHANGED <<now, claims, reservations, wire, chain>>

\* The sponsor simulates and co-signs; either may fail.
Complete(r) ==
    /\ At(r, "complete")
    /\ \/ /\ PaymentOf(r) \in Sponsored
          /\ Goto(r, "claimFinal")
       \/ /\ PaymentOf(r) \notin Sponsored
          /\ Goto(r, "send")
       \/ Goto(r, "cleanup")
    /\ UNCHANGED <<now, claims, reservations, wire, chain>>

ClaimFinal(r) ==
    /\ At(r, "claimFinal")
    /\ Claim(r, FinalHash(PaymentOf(r)),
             requests' = [requests EXCEPT ![r] = [@ EXCEPT !.pc = "reserve", !.claimedFinal = TRUE]],
             "cleanup")
    /\ UNCHANGED <<now, reservations, wire, chain>>
-----------------------------------------------------------------------------
\* The sponsor's budget (SponsorBudget.reserve and what follows it)

Stale ==
    {[id |-> id, owner |-> reservations[id].owner, lapsed |-> Lapsed(reservations[id], now)] :
        id \in {i \in DOMAIN reservations :
                  Lapsed(reservations[i], now) \/ reservations[i].phase = "pending"}}

\* One round of waiting for room: give up at the earlier of the two expiries,
\* else read the reservations and note those that may be stale.
Poll(r) ==
    LET p == PaymentOf(r)
    IN /\ At(r, "reserve")
       /\ IF Fee[p] > MaxTotalFee \/ now >= ValidBefore[p] \/ now >= Expiry[p]
          THEN Goto(r, "cleanup")
          ELSE requests' = [requests EXCEPT ![r] = [@ EXCEPT !.pc = "reconcile", !.started = now,
                                                           !.seen = Stale]]
       /\ UNCHANGED <<now, claims, reservations, wire, chain>>

\* Each noted reservation is released if its owner still holds it: a lapsed
\* one as it is, a pending one when the chain has its receipt.
Reconcile(r) ==
    /\ At(r, "reconcile")
    /\ \E s \in requests[r].seen :
        /\ requests' = [requests EXCEPT ![r].seen = @ \ {s}]
        /\ \/ /\ s.lapsed \/ HasReceipt(s.id)
              /\ reservations' = Released(reservations, s.id, s.owner)
           \/ /\ ~s.lapsed
              /\ reservations' = reservations
    /\ UNCHANGED <<now, claims, wire, chain>>

\* One atomic update: refuse a second reservation of the transaction, wait
\* while there is no room, else reserve.
Reserve(r) ==
    LET p == PaymentOf(r)
    IN /\ At(r, "reconcile")
       /\ requests[r].seen = {}
       /\ IF p \in DOMAIN reservations \/ ~HasRoom(reservations, Fee[p])
          THEN /\ Goto(r, IF p \in DOMAIN reservations THEN "cleanup" ELSE "reserve")
               /\ reservations' = reservations
          ELSE /\ requests' = [requests EXCEPT ![r] = [@ EXCEPT !.pc = "reserved", !.reserved = TRUE]]
               /\ reservations' = Prepared(reservations, p, Fee[p], ValidBefore[p], r,
                                           requests[r].started)
       /\ UNCHANGED <<now, claims, wire, chain>>

CheckReserved(r) ==
    /\ At(r, "reserved")
    /\ Goto(r, IF now < Expiry[PaymentOf(r)] THEN "advance" ELSE "cleanup")
    /\ UNCHANGED <<now, claims, reservations, wire, chain>>

\* The transition fails when the reservation was lost meanwhile.
Advance(r) ==
    LET p == PaymentOf(r)
    IN /\ At(r, "advance")
       /\ reservations' = Transitioned(reservations, p, r, "broadcasting")
       /\ Goto(r, IF Owns(reservations, p, r) THEN "send" ELSE "cleanup")
       /\ UNCHANGED <<now, claims, wire, chain>>
-----------------------------------------------------------------------------
\* The broadcast

\* The last checks: the sponsor's policy wants a transaction that is still valid.
MaySend(p) == now < Expiry[p] /\ (p \in Sponsored => now < ValidBefore[p])

\* From here on the transaction may settle.
Send(r) ==
    /\ At(r, "send")
    /\ IF MaySend(PaymentOf(r))
       THEN /\ requests' = [requests EXCEPT ![r] = [@ EXCEPT !.pc = "sending", !.attempted = TRUE]]
            /\ wire' = wire \cup {r}
       ELSE /\ Goto(r, "cleanup")
            /\ wire' = wire
    /\ UNCHANGED <<now, claims, reservations, chain>>

\* The node answered with an error that rules the transaction out.
Rejected(r) ==
    /\ At(r, "sending")
    /\ wire' = wire \ {r}
    /\ Goto(r, "cleanup")
    /\ UNCHANGED <<now, claims, reservations, chain>>

\* A timeout, a lost connection, "already known": the outcome is unknown.
Ambiguous(r) ==
    /\ At(r, "sending")
    /\ Goto(r, IF PaymentOf(r) \in Optimistic THEN "cleanup" ELSE "polling")
    /\ UNCHANGED <<now, claims, reservations, wire, chain>>

\* The receipt, from the node's answer or from polling for it.  The fee is no
\* longer at risk; a reverted transaction has not paid.
Receipt(r) ==
    LET p == PaymentOf(r)
    IN /\ p \notin Optimistic
       /\ (At(r, "sending") /\ r \notin wire) \/ At(r, "polling")
       /\ HasReceipt(p)
       /\ reservations' = IF requests[r].reserved THEN Released(reservations, p, r)
                          ELSE reservations
       /\ Goto(r, IF chain[p] = "mined" THEN "succeeded" ELSE "cleanup")
       /\ UNCHANGED <<now, claims, wire, chain>>

\* Mutant: the wait for the receipt has no deadline.
GiveUpWithReceipt(r) ==
    /\ At(r, "polling")
    /\ HasReceipt(PaymentOf(r))
    /\ Goto(r, "cleanup")
    /\ UNCHANGED <<now, claims, reservations, wire, chain>>

\* BroadcastOutcomeUnknownError.
GiveUp(r) ==
    /\ At(r, "polling")
    /\ Goto(r, "cleanup")
    /\ UNCHANGED <<now, claims, reservations, wire, chain>>

\* Without a wait for the receipt, the node's acceptance is enough.
Accepted(r) ==
    /\ PaymentOf(r) \in Optimistic
    /\ At(r, "sending")
    /\ r \notin wire
    /\ chain[PaymentOf(r)] # "absent"
    /\ Goto(r, IF requests[r].reserved THEN "accepted" ELSE "succeeded")
    /\ UNCHANGED <<now, claims, reservations, wire, chain>>

Publish(r) ==
    LET p == PaymentOf(r)
    IN /\ At(r, "accepted")
       /\ reservations' = Transitioned(reservations, p, r, "pending")
       /\ Goto(r, IF Owns(reservations, p, r) THEN "succeeded" ELSE "cleanup")
       /\ UNCHANGED <<now, claims, wire, chain>>
-----------------------------------------------------------------------------
\* The catch block

\* Mutant: the claim on the co-signed hash is kept.
CleanupFirstClaim(r) ==
    LET p == PaymentOf(r)
    IN /\ At(r, "cleanup")
       /\ reservations' = IF requests[r].attempted THEN Transitioned(reservations, p, r, "pending")
                          ELSE Released(reservations, p, r)
       /\ Goto(r, "unclaim")
       /\ UNCHANGED <<now, claims, wire, chain>>

\* The fee of a transaction that was sent stays reserved; the update may fail.
CleanupBudget(r) ==
    LET p == PaymentOf(r)
    IN /\ At(r, "cleanup")
       /\ \/ reservations' = IF ~requests[r].reserved THEN reservations
                             ELSE IF requests[r].attempted
                                  THEN Transitioned(reservations, p, r, "pending")
                                  ELSE Released(reservations, p, r)
          \/ reservations' = reservations
       /\ Goto(r, IF requests[r].claimedFinal THEN "unclaimFinal" ELSE "unclaim")
       /\ UNCHANGED <<now, claims, wire, chain>>

UnclaimFinal(r) ==
    /\ At(r, "unclaimFinal")
    /\ claims' = [claims EXCEPT ![FinalHash(PaymentOf(r))] = 0]
    /\ Goto(r, "unclaim")
    /\ UNCHANGED <<now, reservations, wire, chain>>

Unclaim(r) ==
    /\ At(r, "unclaim")
    /\ claims' = [claims EXCEPT ![SignedHash(PaymentOf(r))] = 0]
    /\ Goto(r, "failed")
    /\ UNCHANGED <<now, reservations, wire, chain>>
-----------------------------------------------------------------------------
\* The chain, the process and the clock

Arrive(r) ==
    LET p == PaymentOf(r)
    IN /\ r \in wire
       /\ wire' = wire \ {r}
       /\ chain' = IF chain[p] = "absent" /\ now < ValidBefore[p]
                   THEN [chain EXCEPT ![p] = "pooled"] ELSE chain
       /\ UNCHANGED <<now, claims, reservations, requests>>

Include(p) ==
    /\ Includable(p)
    /\ \E outcome \in {"mined", "reverted"} : chain' = [chain EXCEPT ![p] = outcome]
    /\ UNCHANGED <<now, claims, reservations, requests, wire>>

Evict(p) ==
    /\ chain[p] = "pooled"
    /\ chain' = [chain EXCEPT ![p] = "absent"]
    /\ UNCHANGED <<now, claims, reservations, requests, wire>>

Crash(r) ==
    /\ requests[r].pc \notin Ended \cup {"idle"}
    /\ Cardinality({q \in Requests : At(q, "crashed")}) < MaxCrashes
    /\ Goto(r, "crashed")
    /\ UNCHANGED <<now, claims, reservations, wire, chain>>

\* A server between the clock reading its lease runs from and its broadcast.
Preparing(r) == requests[r].pc \in {"reconcile", "reserved", "advance"}

\* A prompt server does not let its lease run out; a stopped one does.
Tick ==
    /\ now < MaxTime
    /\ Prompt => \A r \in Requests :
                    Preparing(r) => now + 1 < requests[r].started + PreparedLease
    /\ now' = now + 1
    /\ UNCHANGED <<claims, reservations, requests, wire, chain>>

\* A server's own next step.
Serve(r) ==
    \/ ClaimSigned(r) \/ Prove(r) \/ Complete(r) \/ ClaimFinal(r)
    \/ Poll(r) \/ Reconcile(r) \/ Reserve(r) \/ CheckReserved(r) \/ Advance(r)
    \/ Send(r) \/ Rejected(r) \/ Ambiguous(r) \/ Receipt(r) \/ GiveUp(r)
    \/ Accepted(r) \/ Publish(r)
    \/ CleanupBudget(r) \/ UnclaimFinal(r) \/ Unclaim(r)

Next ==
    \/ \E r \in Requests : Present(r) \/ Serve(r) \/ Arrive(r) \/ Crash(r)
    \/ \E p \in Payments : Include(p) \/ Evict(p)
    \/ Tick

Spec == Init /\ [][Next]_vars

\* A server that has not stopped takes its next step, every wait of it being
\* bounded by a deadline, and time passes however often the servers poll.
Fairness == SF_vars(Tick) /\ \A r \in Requests : WF_vars(Serve(r))

FairSpec == Spec /\ Fairness
-----------------------------------------------------------------------------
\* A settled payment authorizes one request: concurrent presentations, retries
\* after an unknown outcome and a hash credential for the transaction another
\* presentation sent never let two of them succeed (Charge.ts:706-768).
PaidOnce ==
    \A q, r \in Requests :
        (At(q, "succeeded") /\ At(r, "succeeded") /\ PaymentOf(q) = PaymentOf(r)) => q = r

\* Only a successful settlement consumes the credential (Charge.ts:1038): when
\* every presentation of a payment has ended without success, and no server
\* stopped, its hashes can be claimed again.
FailureFreesCredential ==
    \A p \in Payments :
        (\A r \in Requests : (PaymentOf(r) = p /\ ~Idle(r)) => requests[r].pc \in {"failed", "replayed"})
            => ~Claimed(SignedHash(p)) /\ ~Claimed(FinalHash(p))

\* The declared fees of the sponsored transactions a block may still include
\* stay within the budget, whatever became of the presentations that sent
\* them (SponsorBudget.ts:123).
Exposed == {p \in Sponsored : Includable(p)}

ExposureWithinBudget ==
    /\ Cardinality(Exposed) <= MaxReservations
    /\ SumFunctionOnSet(Fee, Exposed) <= MaxTotalFee

\* Every presentation ends: none waits for the budget or the node for ever.
EveryRequestEnds ==
    <>[](\A r \in Requests : requests[r].pc \in Ended \cup {"idle"})
=============================================================================
