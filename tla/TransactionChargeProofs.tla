------------------------ MODULE TransactionChargeProofs ------------------------
(***************************************************************************)
(* Proofs about TransactionCharge, for any payments, requests, servers,    *)
(* fees and clocks: the state is well typed, a payment authorizes at most  *)
(* one request, a failure frees its credential, and the sponsor's budget   *)
(* covers every fee that a block may still cost.                           *)
(*                                                                         *)
(* One request: a presentation that may still succeed holds the claims on  *)
(* its payment's hashes (Keys), every held claim is stored with the expiry *)
(* of the payment's challenge, and no two presentations hold the same one. *)
(* A claim is taken only before that expiry and over no unexpired marker,  *)
(* so never over one that is held; and it is removed only by its holder.   *)
(*                                                                         *)
(* Freed: every marker that is not expired has a presentation that still   *)
(* holds it, or stopped on it (Backed).                                    *)
(*                                                                         *)
(* The budget: a transaction that is on its way, or about to be, has the   *)
(* reservation of who sends it (Covered), for the fee it declares (Owned). *)
(* A reservation is dropped for a receipt, for a validity that is over, or *)
(* with a lease that is over, which on a prompt server only a presentation *)
(* that has given up lets happen (Timely, Noted).  What is reserved is in  *)
(* room there was (Room), by the theorems on sums over finite sets.        *)
(***************************************************************************)
EXTENDS TransactionCharge, SumTheorems, TLAPS

Call == [pc: Pcs, payment: Payments, kind: Kinds, started: Nat, seen: SUBSET Seen,
         claimedFinal: BOOLEAN, reserved: BOOLEAN, attempted: BOOLEAN]

\* The control points at which a presentation holds the claim it made first.
Holding == Pcs \ {"idle", "claim", "replayed", "failed", "crashed"}

FirstKey(q) == IF q.kind = "settled" THEN FinalHash(q.payment) ELSE SignedHash(q.payment)

Keys(q) ==
    {k \in Hashes :
        \/ q.pc \in Holding /\ k = FirstKey(q)
        \/ q.pc \in Holding \ {"unclaim"} /\ q.claimedFinal /\ k = FinalHash(q.payment)}

\* How far a presentation has come: what its control point says of its claims.
Shape(q) ==
    /\ q.claimedFinal => q.payment \in Sponsored /\ q.kind = "transaction"
    /\ q.kind = "proof" => q.payment \notin Sponsored \/ q.pc = "idle"
    /\ q.pc = "proved" => q.kind = "proof"
    /\ q.pc = "claimFinal" => q.payment \in Sponsored
    /\ q.pc \in {"idle", "claim", "complete", "claimFinal"} => ~q.claimedFinal
    /\ q.pc = "unclaimFinal" => q.claimedFinal
    /\ q.pc \notin {"idle", "claim", "proved", "succeeded", "failed", "replayed", "crashed"}
         => q.kind = "transaction"
    /\ q.pc \in {"reserve", "reconcile", "reserved", "advance"} => q.claimedFinal
    /\ (q.pc \in {"send", "sending", "polling", "accepted", "succeeded"}
          /\ q.kind = "transaction" /\ q.payment \in Sponsored) => q.claimedFinal

Shaped == \A r \in Requests : Shape(requests[r])

Marked == \A r \in Requests : \A k \in Keys(requests[r]) : claims[k] = Expiry[PaymentOf(r)]

Exclusive == \A q, r \in Requests : \A k \in Hashes :
                (k \in Keys(requests[q]) /\ k \in Keys(requests[r])) => q = r

Claims == Shaped /\ Marked /\ Exclusive
-----------------------------------------------------------------------------
\* The state is well typed.

LEMMA KeyTypes ==
    ASSUME NEW p \in Payments
    PROVE  SignedHash(p) \in Hashes /\ FinalHash(p) \in Hashes
BY DEF SignedHash, FinalHash, Hashes

LEMMA PreparedType ==
    ASSUME NEW rs, DOMAIN rs \subseteq Payments,
           \A id \in DOMAIN rs : rs[id] \in Reservation(Requests),
           NEW p \in Payments, NEW fee \in Nat, NEW expires \in Nat,
           NEW r \in Requests, NEW t \in Nat
    PROVE  LET new == Prepared(rs, p, fee, expires, r, t)
           IN DOMAIN new \subseteq Payments /\ \A id \in DOMAIN new : new[id] \in Reservation(Requests)
<1>1. PreparedLease \in Nat
  BY BudgetAssumption
<1> QED
  BY <1>1 DEF Prepared, Reservation, Phases

LEMMA TransitionedType ==
    ASSUME NEW rs, DOMAIN rs \subseteq Payments,
           \A id \in DOMAIN rs : rs[id] \in Reservation(Requests),
           NEW p \in Payments, NEW r \in Requests, NEW phase \in Phases
    PROVE  LET new == Transitioned(rs, p, r, phase)
           IN DOMAIN new \subseteq Payments /\ \A id \in DOMAIN new : new[id] \in Reservation(Requests)
BY DEF Transitioned, Owns, Reservation

LEMMA ReleasedType ==
    ASSUME NEW rs, DOMAIN rs \subseteq Payments,
           \A id \in DOMAIN rs : rs[id] \in Reservation(Requests),
           NEW p \in Payments, NEW r \in Requests
    PROVE  LET new == Released(rs, p, r)
           IN DOMAIN new \subseteq Payments /\ \A id \in DOMAIN new : new[id] \in Reservation(Requests)
BY DEF Released, Owns

LEMMA GotoType ==
    ASSUME TypeOK, NEW r \in Requests, NEW pc \in Pcs, Goto(r, pc)
    PROVE  requests' \in [Requests -> Call]
BY DEF TypeOK, Goto, Call

LEMMA TypeInit == Init => TypeOK
<1> SUFFICES ASSUME Init PROVE TypeOK
  OBVIOUS
<1> DEFINE any == CHOOSE p \in Payments : TRUE
<1>1. any \in Payments
  BY ChargeAssumption
<1>2. requests = [r \in Requests |-> [NewRequest(any, "proof") EXCEPT !.pc = "idle"]]
  BY DEF Init
<1>3. requests \in [Requests -> Call]
  <2> HIDE DEF any
  <2> QED
    BY <1>1, <1>2 DEF NewRequest, Call, Pcs, Kinds
<1> QED
  BY <1>3 DEF Init, TypeOK, Call, NoReservations

\* Every step keeps the requests well typed.
LEMMA RequestStepType ==
    ASSUME TypeOK, NEW r \in Requests, Present(r) \/ Serve(r) \/ Crash(r)
    PROVE  requests' \in [Requests -> Call]
<1> USE DEF TypeOK
<1>0. /\ requests \in [Requests -> Call]
      /\ requests[r] \in Call
  BY DEF Call
<1>1. ASSUME NEW pc \in Pcs, Goto(r, pc) PROVE requests' \in [Requests -> Call]
  BY <1>1, GotoType
<1>2. ASSUME NEW q \in Call, requests' = [requests EXCEPT ![r] = q]
      PROVE  requests' \in [Requests -> Call]
  BY <1>0, <1>2
<1>3. Stale \in SUBSET Seen
  <2> SUFFICES ASSUME NEW id \in DOMAIN reservations
               PROVE  [id |-> id, owner |-> reservations[id].owner,
                       lapsed |-> Lapsed(reservations[id], now)] \in Seen
    BY DEF Stale
  <2>1. Lapsed(reservations[id], now) \in BOOLEAN
    BY DEF Lapsed
  <2>2. reservations[id].owner \in Requests /\ id \in Payments
    BY DEF Reservation
  <2> QED
    BY <2>1, <2>2 DEF Seen
<1> USE DEF Pcs, Ended
<1>4. CASE Present(r)
  <2> PICK p \in Presents[r], kind \in Kinds :
        requests' = [requests EXCEPT ![r] = NewRequest(p, kind)]
    BY <1>4 DEF Present
  <2>1. NewRequest(p, kind) \in Call
    BY ChargeAssumption DEF NewRequest, Call, Kinds
  <2> QED
    BY <2>1, <1>2
<1>5. CASE ClaimSigned(r)
  BY <1>5, <1>1 DEF ClaimSigned, Claim, Kinds
<1>6. CASE Prove(r)
  BY <1>6, <1>1 DEF Prove
<1>7. CASE Complete(r)
  BY <1>7, <1>1 DEF Complete
<1>8. CASE ClaimFinal(r)
  <2>1. [requests[r] EXCEPT !.pc = "reserve", !.claimedFinal = TRUE] \in Call
    BY <1>0 DEF Call
  <2> QED
    BY <1>8, <1>1, <1>2, <2>1 DEF ClaimFinal, Claim
<1>9. CASE Poll(r)
  <2>1. [requests[r] EXCEPT !.pc = "reconcile", !.started = now, !.seen = Stale] \in Call
    BY <1>0, <1>3 DEF Call
  <2> QED
    BY <1>9, <1>1, <1>2, <2>1 DEF Poll
<1>10. CASE Reconcile(r)
  <2> PICK s \in requests[r].seen :
        requests' = [requests EXCEPT ![r].seen = @ \ {s}]
    BY <1>10 DEF Reconcile
  <2>1. [requests[r] EXCEPT !.seen = requests[r].seen \ {s}] \in Call
    BY <1>0 DEF Call
  <2> QED
    BY <1>2, <2>1
<1>11. CASE Reserve(r)
  <2>1. [requests[r] EXCEPT !.pc = "reserved", !.reserved = TRUE] \in Call
    BY <1>0 DEF Call
  <2> QED
    BY <1>11, <1>1, <1>2, <2>1 DEF Reserve
<1>12. CASE CheckReserved(r)
  BY <1>12, <1>1 DEF CheckReserved
<1>13. CASE Advance(r)
  BY <1>13, <1>1 DEF Advance
<1>14. CASE Send(r)
  <2>1. [requests[r] EXCEPT !.pc = "sending", !.attempted = TRUE] \in Call
    BY <1>0 DEF Call
  <2> QED
    BY <1>14, <1>1, <1>2, <2>1 DEF Send
<1>15. CASE Rejected(r) \/ GiveUp(r) \/ Crash(r) \/ UnclaimFinal(r) \/ Unclaim(r)
  BY <1>15, <1>1 DEF Rejected, GiveUp, Crash, UnclaimFinal, Unclaim
<1>16. CASE Ambiguous(r) \/ Accepted(r)
  BY <1>16, <1>1 DEF Ambiguous, Accepted
<1>17. CASE Receipt(r)
  BY <1>17, <1>1 DEF Receipt
<1>18. CASE Publish(r)
  BY <1>18, <1>1 DEF Publish
<1>19. CASE CleanupBudget(r)
  BY <1>19, <1>1 DEF CleanupBudget
<1> QED
  BY <1>4, <1>5, <1>6, <1>7, <1>8, <1>9, <1>10, <1>11, <1>12, <1>13, <1>14, <1>15,
     <1>16, <1>17, <1>18, <1>19 DEF Serve

BudgetType ==
    /\ DOMAIN reservations \subseteq Payments
    /\ \A id \in DOMAIN reservations : reservations[id] \in Reservation(Requests)

\* Every change of the budget keeps it well typed.
LEMMA BudgetStepType ==
    ASSUME TypeOK, NEW r \in Requests, Serve(r)
    PROVE  BudgetType'
<1> DEFINE p == PaymentOf(r)
<1>0. BudgetType /\ p \in Payments /\ requests[r].started \in Nat /\ requests[r].seen \subseteq Seen
  BY DEF TypeOK, BudgetType, PaymentOf
<1>1. ASSUME NEW phase \in Phases, reservations' = Transitioned(reservations, p, r, phase)
      PROVE  BudgetType'
  BY <1>0, <1>1, TransitionedType DEF BudgetType
<1>2. ASSUME NEW id \in Payments, NEW owner \in Requests,
             reservations' = Released(reservations, id, owner)
      PROVE  BudgetType'
  BY <1>0, <1>2, ReleasedType DEF BudgetType
<1>3. ASSUME reservations' = reservations PROVE BudgetType'
  BY <1>0, <1>3 DEF BudgetType
<1>4. CASE Reserve(r)
  <2>1. Fee[p] \in Nat /\ ValidBefore[p] \in Nat
    BY <1>0, ChargeAssumption
  <2>2. ASSUME reservations' = Prepared(reservations, p, Fee[p], ValidBefore[p], r,
                                        requests[r].started)
        PROVE  BudgetType'
    BY <1>0, <2>1, <2>2, PreparedType DEF BudgetType
  <2> QED
    BY <1>4, <1>3, <2>2 DEF Reserve
<1>5. CASE Reconcile(r)
  <2> PICK s \in requests[r].seen : \/ reservations' = Released(reservations, s.id, s.owner)
                                    \/ reservations' = reservations
    BY <1>5 DEF Reconcile
  <2>1. s.id \in Payments /\ s.owner \in Requests
    BY <1>0 DEF Seen
  <2> QED
    BY <2>1, <1>2, <1>3
<1>6. CASE Advance(r)
  BY <1>6, <1>1 DEF Advance, Phases
<1>7. CASE Publish(r)
  BY <1>7, <1>1 DEF Publish, Phases
<1>8. CASE Receipt(r)
  BY <1>8, <1>0, <1>2, <1>3 DEF Receipt
<1>9. CASE CleanupBudget(r)
  BY <1>9, <1>0, <1>1, <1>2, <1>3 DEF CleanupBudget, Phases
<1>10. CASE UNCHANGED reservations
  BY <1>10, <1>3
<1> QED
  BY <1>4, <1>5, <1>6, <1>7, <1>8, <1>9, <1>10
  DEF Serve, ClaimSigned, Prove, Complete, ClaimFinal, Poll, CheckReserved, Send, Rejected,
      Ambiguous, GiveUp, Accepted, UnclaimFinal, Unclaim

LEMMA TypeStep == TypeOK /\ [Next]_vars => TypeOK'
<1> SUFFICES ASSUME TypeOK, [Next]_vars PROVE TypeOK'
  OBVIOUS
<1> USE DEF TypeOK
<1>1. ASSUME NEW r \in Requests, Present(r) \/ Serve(r) \/ Crash(r) PROVE TypeOK'
  <2>1. requests' \in [Requests -> Call]
    BY <1>1, RequestStepType
  <2>2. BudgetType'
    BY <1>1, BudgetStepType DEF Present, Crash, BudgetType
  <2>3. PaymentOf(r) \in Payments /\ Expiry[PaymentOf(r)] \in Nat
    BY ChargeAssumption DEF PaymentOf
  <2>4. claims' \in [Hashes -> Nat]
    BY <1>1, <2>3, KeyTypes
    DEF Present, Crash, Serve, ClaimSigned, Prove, Complete, ClaimFinal, Claim, ClaimedKey,
        Poll, Reconcile, Reserve, CheckReserved, Advance, Send, Rejected, Ambiguous, Receipt,
        GiveUp, Accepted, Publish, CleanupBudget, UnclaimFinal, Unclaim
  <2>5. now' \in Nat /\ chain' = chain /\ wire' \subseteq Requests
    BY <1>1
    DEF Present, Crash, Serve, ClaimSigned, Prove, Complete, ClaimFinal, Claim,
        Poll, Reconcile, Reserve, CheckReserved, Advance, Send, Rejected, Ambiguous, Receipt,
        GiveUp, Accepted, Publish, CleanupBudget, UnclaimFinal, Unclaim
  <2> QED
    BY <2>1, <2>2, <2>4, <2>5 DEF Call, BudgetType
<1>2. ASSUME NEW r \in Requests, Arrive(r) PROVE TypeOK'
  BY <1>2 DEF Arrive
<1>3. ASSUME NEW p \in Payments, Include(p) \/ Evict(p) PROVE TypeOK'
  BY <1>3 DEF Include, Evict
<1>4. CASE Tick
  BY <1>4 DEF Tick
<1>5. CASE UNCHANGED vars
  BY <1>5 DEF vars
<1> QED
  BY <1>1, <1>2, <1>3, <1>4, <1>5 DEF Next

\* Every reachable state is well typed.
THEOREM ChargeTyped == Spec => []TypeOK
<1> QED
  BY TypeInit, TypeStep, PTL DEF Spec
-----------------------------------------------------------------------------
\* A payment authorizes one request.

LEMMA KeysOf ==
    ASSUME NEW q \in Call, NEW k \in Keys(q)
    PROVE  k \in Hashes /\ k[1] = q.payment
BY DEF Keys, FirstKey, FinalHash, SignedHash, Hashes, Call

\* A step that takes no new claim, and changes the store at most at a claim of
\* its own that it gives up.
LEMMA KeepClaims ==
    ASSUME TypeOK, TypeOK', Claims, NEW r \in Requests, NEW q \in Call,
           requests' = [requests EXCEPT ![r] = q], Shape(q),
           Keys(q) \subseteq Keys(requests[r]),
           q.payment = PaymentOf(r) \/ Keys(q) = {},
           \A k \in Hashes : claims'[k] = claims[k] \/ (k \in Keys(requests[r]) /\ k \notin Keys(q))
    PROVE  Claims'
<1>0. /\ requests \in [Requests -> Call]
      /\ requests'[r] = q
      /\ \A s \in Requests \ {r} : requests'[s] = requests[s]
  BY DEF TypeOK, Call
<1>1. Shaped'
  BY <1>0 DEF Claims, Shaped
<1>2. Exclusive'
  BY <1>0 DEF Claims, Exclusive
<1>3. Marked'
  <2> SUFFICES ASSUME NEW s \in Requests, NEW k \in Keys(requests'[s])
               PROVE  claims'[k] = Expiry[requests'[s].payment]
    BY DEF Marked, PaymentOf
  <2>1. k \in Hashes
    BY DEF Keys
  <2>2. k \in Keys(requests[s])
    BY <1>0
  <2>3. claims[k] = Expiry[requests[s].payment]
    BY <2>2 DEF Claims, Marked, PaymentOf
  <2>4. requests'[s].payment = requests[s].payment
    BY <1>0 DEF PaymentOf
  <2>5. claims'[k] = claims[k]
    <3>1. CASE s = r
      BY <3>1, <1>0, <2>1
    <3>2. CASE s # r
      BY <3>2, <2>1, <2>2 DEF Claims, Exclusive
    <3> QED
      BY <3>1, <3>2
  <2> QED
    BY <2>3, <2>4, <2>5
<1> QED
  BY <1>1, <1>2, <1>3 DEF Claims

\* A step that claims a key of its own payment: no other presentation holds
\* it, for what is held has not expired.
LEMMA TakeClaim ==
    ASSUME TypeOK, TypeOK', Claims, NEW r \in Requests, NEW q \in Call, NEW h \in Hashes,
           requests' = [requests EXCEPT ![r] = q], Shape(q),
           h[1] = PaymentOf(r), q.payment = PaymentOf(r),
           Keys(q) \subseteq Keys(requests[r]) \cup {h},
           CanClaim(h, Expiry[PaymentOf(r)]),
           claims' = [claims EXCEPT ![h] = Expiry[PaymentOf(r)]]
    PROVE  Claims'
<1>0. /\ requests \in [Requests -> Call]
      /\ requests'[r] = q
      /\ \A s \in Requests \ {r} : requests'[s] = requests[s]
      /\ claims \in [Hashes -> Nat]
      /\ now \in Nat /\ Expiry \in [Payments -> Nat]
  BY ChargeAssumption DEF TypeOK, Call
<1>1. Shaped'
  BY <1>0 DEF Claims, Shaped
<1>2. \A s \in Requests : h \notin Keys(requests[s])
  <2> SUFFICES ASSUME NEW s \in Requests, h \in Keys(requests[s]) PROVE FALSE
    OBVIOUS
  <2>1. PaymentOf(s) = PaymentOf(r) /\ PaymentOf(s) \in Payments
    BY <1>0, KeysOf DEF PaymentOf, Call
  <2>2. claims[h] = Expiry[PaymentOf(r)]
    BY <2>1 DEF Claims, Marked
  <2> QED
    BY <2>1, <2>2, <1>0 DEF CanClaim, Claimed
<1>3. Exclusive'
  BY <1>0, <1>2 DEF Claims, Exclusive
<1>4. Marked'
  <2> SUFFICES ASSUME NEW s \in Requests, NEW k \in Keys(requests'[s])
               PROVE  claims'[k] = Expiry[requests'[s].payment]
    BY DEF Marked, PaymentOf
  <2>1. k \in Hashes /\ requests'[s].payment = requests[s].payment
    BY <1>0 DEF Keys, PaymentOf
  <2>2. CASE k = h
    <3>1. s = r
      BY <2>2, <1>0, <1>2
    <3> QED
      BY <3>1, <2>1, <2>2, <1>0 DEF PaymentOf
  <2>3. CASE k # h
    <3>1. k \in Keys(requests[s])
      BY <2>3, <1>0
    <3> QED
      BY <3>1, <2>1, <2>3, <1>0 DEF Claims, Marked, PaymentOf
  <2> QED
    BY <2>2, <2>3
<1> QED
  BY <1>1, <1>3, <1>4 DEF Claims

LEMMA ClaimsInit == Init => Claims
<1> SUFFICES ASSUME Init PROVE Claims
  OBVIOUS
<1> DEFINE any == CHOOSE p \in Payments : TRUE
<1>1. \A r \in Requests : requests[r] = [NewRequest(any, "proof") EXCEPT !.pc = "idle"]
  BY DEF Init
<1>2. \A r \in Requests : /\ requests[r].pc = "idle"
                          /\ requests[r].kind = "proof"
                          /\ requests[r].claimedFinal = FALSE
  <2> HIDE DEF any
  <2> QED
    BY <1>1 DEF NewRequest
<1>3. \A r \in Requests : Shape(requests[r]) /\ Keys(requests[r]) = {}
  BY <1>2 DEF Shape, Keys, Holding
<1> QED
  BY <1>3 DEF Claims, Shaped, Marked, Exclusive

\* A step that moves on without touching the store.
LEMMA GotoClaims ==
    ASSUME TypeOK, TypeOK', Claims, NEW r \in Requests, NEW pc \in Pcs, Goto(r, pc),
           claims' = claims, Shape([requests[r] EXCEPT !.pc = pc]),
           pc \in Holding => requests[r].pc \in Holding,
           pc # "unclaim" => requests[r].pc # "unclaim" \/ pc \notin Holding
    PROVE  Claims'
<1> DEFINE q == [requests[r] EXCEPT !.pc = pc]
<1>1. requests[r] \in Call
  BY DEF TypeOK, Call
<1>2. /\ q \in Call /\ q.pc = pc /\ q.payment = requests[r].payment /\ q.kind = requests[r].kind
      /\ q.claimedFinal = requests[r].claimedFinal
  BY <1>1 DEF Call
<1>3. requests' = [requests EXCEPT ![r] = q]
  BY DEF Goto
<1>4. Keys(q) \subseteq Keys(requests[r])
  <2> HIDE DEF q
  <2> QED
    BY <1>2 DEF Keys, FirstKey
<1>5. Shape(q)
  OBVIOUS
<1> HIDE DEF q
<1> QED
  BY <1>2, <1>3, <1>4, <1>5, KeepClaims DEF PaymentOf

LEMMA ClaimsStep == TypeOK /\ TypeOK' /\ Claims /\ [Next]_vars => Claims'
<1> SUFFICES ASSUME TypeOK, TypeOK', Claims, [Next]_vars PROVE Claims'
  OBVIOUS
<1>1. ASSUME NEW r \in Requests, Present(r) \/ Serve(r) \/ Crash(r) PROVE Claims'
  <2> DEFINE c == requests[r]
  <2>0. c \in Call /\ Shape(c) /\ requests \in [Requests -> Call]
    BY DEF TypeOK, Call, Claims, Shaped
  <2>1. ASSUME NEW pc \in Pcs, Goto(r, pc), claims' = claims,
               Shape([c EXCEPT !.pc = pc]), pc \in Holding => c.pc \in Holding,
               pc # "unclaim" => c.pc # "unclaim" \/ pc \notin Holding
        PROVE  Claims'
    BY <2>1, GotoClaims
  <2>2. CASE Present(r)
    <3> PICK p \in Presents[r], kind \in Kinds :
          /\ requests' = [requests EXCEPT ![r] = NewRequest(p, kind)]
          /\ kind = "proof" <=> p \in Proofs
          /\ claims' = claims
      BY <2>2 DEF Present
    <3>1. NewRequest(p, kind) \in Call
      BY ChargeAssumption DEF NewRequest, Call, Kinds, Pcs
    <3>2. Shape(NewRequest(p, kind)) /\ Keys(NewRequest(p, kind)) = {}
      BY ChargeAssumption DEF NewRequest, Shape, Keys, Holding
    <3> QED
      BY <3>1, <3>2, KeepClaims
  <2>3. CASE ClaimSigned(r)
    <3> DEFINE h == ClaimedKey(r)
               won == CASE c.kind = "transaction" -> "complete"
                        [] c.kind = "settled" -> "succeeded"
                        [] c.kind = "proof" -> "proved"
    <3>1. c.pc = "claim" /\ c.payment \in Payments /\ ~c.claimedFinal
      BY <2>3, <2>0 DEF ClaimSigned, At, Call, Shape
    <3>2. h \in Hashes /\ h = FirstKey(c) /\ h[1] = PaymentOf(r)
      BY <3>1, KeyTypes DEF ClaimedKey, FirstKey, PaymentOf, FinalHash, SignedHash
    <3>3. CASE CanClaim(h, Expiry[PaymentOf(r)])
      <4>1. won \in {"complete", "succeeded", "proved"}
            /\ (c.kind = "transaction" => won = "complete")
            /\ (c.kind # "transaction" => won # "complete")
            /\ (won = "proved" => c.kind = "proof")
        BY <2>0 DEF Call, Kinds
      <4>2. /\ claims' = [claims EXCEPT ![h] = Expiry[PaymentOf(r)]]
            /\ requests' = [requests EXCEPT ![r] = [c EXCEPT !.pc = won]]
        BY <2>3, <3>3 DEF ClaimSigned, Claim, Goto
      <4> DEFINE q == [c EXCEPT !.pc = won]
      <4>3. /\ q.pc = won /\ q.payment = c.payment /\ q.kind = c.kind
            /\ q.claimedFinal = c.claimedFinal /\ q \in Call
        BY <2>0, <4>1 DEF Call, Pcs, Ended
      <4>4. requests' = [requests EXCEPT ![r] = q]
        BY <4>2
      <4> HIDE DEF q, won, h
      <4>5. Shape(q)
        BY <2>0, <3>1, <4>1, <4>3 DEF Shape
      <4>6. Keys(q) \subseteq Keys(c) \cup {h}
        BY <3>1, <3>2, <4>3 DEF Keys, FirstKey
      <4> QED
        BY <3>2, <3>3, <4>2, <4>3, <4>4, <4>5, <4>6, TakeClaim DEF PaymentOf
    <3>4. CASE ~CanClaim(h, Expiry[PaymentOf(r)])
      <4>1. Goto(r, "replayed") /\ claims' = claims
        BY <2>3, <3>4 DEF ClaimSigned, Claim
      <4>2. Shape([c EXCEPT !.pc = "replayed"])
        BY <2>0, <3>1 DEF Shape, Call
      <4> QED
        BY <4>1, <4>2, <2>1 DEF Pcs, Ended, Holding
    <3> QED
      BY <3>3, <3>4
  <2>4. CASE ClaimFinal(r)
    <3> DEFINE h == FinalHash(PaymentOf(r))
    <3>1. /\ c.pc = "claimFinal" /\ c.payment \in Sponsored /\ c.payment \in Payments
          /\ c.kind = "transaction"
      BY <2>4, <2>0 DEF ClaimFinal, At, Call, Shape
    <3>2. h \in Hashes /\ h[1] = PaymentOf(r)
      BY <3>1, KeyTypes DEF PaymentOf, FinalHash, SignedHash
    <3>3. CASE CanClaim(h, Expiry[PaymentOf(r)])
      <4> DEFINE q == [c EXCEPT !.pc = "reserve", !.claimedFinal = TRUE]
      <4>1. /\ q.pc = "reserve" /\ q.payment = c.payment /\ q.kind = c.kind
            /\ q.claimedFinal /\ q \in Call
        BY <2>0 DEF Call, Pcs, Ended
      <4>2. /\ claims' = [claims EXCEPT ![h] = Expiry[PaymentOf(r)]]
            /\ requests' = [requests EXCEPT ![r] = q]
        BY <2>4, <3>3 DEF ClaimFinal, Claim
      <4> HIDE DEF q
      <4>3. Shape(q)
        BY <3>1, <4>1 DEF Shape
      <4>4. Keys(q) \subseteq Keys(c) \cup {h}
        BY <3>1, <4>1 DEF Keys, FirstKey, Holding, Pcs, PaymentOf
      <4> QED
        BY <3>2, <3>3, <4>1, <4>2, <4>3, <4>4, TakeClaim DEF PaymentOf
    <3>4. CASE ~CanClaim(h, Expiry[PaymentOf(r)])
      <4>1. Goto(r, "cleanup") /\ claims' = claims
        BY <2>4, <3>4 DEF ClaimFinal, Claim
      <4>2. Shape([c EXCEPT !.pc = "cleanup"])
        BY <2>0, <3>1 DEF Shape, Call
      <4> QED
        BY <4>1, <4>2, <2>1, <3>1 DEF Pcs, Ended, Holding
    <3> QED
      BY <3>3, <3>4
  \* The remaining steps take no claim; those that set more than the control
  \* point do not touch what the claims depend on.
  <2>5. ASSUME NEW q \in Call, requests' = [requests EXCEPT ![r] = q], claims' = claims,
               q.payment = c.payment, q.kind = c.kind, q.claimedFinal = c.claimedFinal,
               c.pc \in Holding \ {"unclaim"}, q.pc \in Pcs, Shape(q)
        PROVE  Claims'
    <3>1. Keys(q) \subseteq Keys(c)
      BY <2>5 DEF Keys, FirstKey
    <3> QED
      BY <2>5, <3>1, KeepClaims DEF PaymentOf
  <2>6. CASE Poll(r)
    <3> DEFINE q == [c EXCEPT !.pc = "reconcile", !.started = now, !.seen = Stale]
    <3>1. c.pc = "reserve" /\ c.claimedFinal
      BY <2>6, <2>0 DEF Poll, At, Shape
    <3>2. CASE Goto(r, "cleanup")
      <4>1. Shape([c EXCEPT !.pc = "cleanup"])
        BY <2>0, <3>1 DEF Shape, Call
      <4> QED
        BY <2>6, <3>1, <3>2, <4>1, <2>1 DEF Poll, Pcs, Ended, Holding
    <3>3. CASE requests' = [requests EXCEPT ![r] = q]
      <4>1. q \in Call
        <5>1. requests' \in [Requests -> Call] /\ requests'[r] = q
          BY <3>3, <2>0 DEF TypeOK, Call
        <5> QED
          BY <5>1
      <4>2. /\ q.pc = "reconcile" /\ q.payment = c.payment /\ q.kind = c.kind
            /\ q.claimedFinal = c.claimedFinal
        BY <2>0 DEF Call
      <4>3. claims' = claims
        BY <2>6 DEF Poll
      <4> HIDE DEF q
      <4>4. Shape(q)
        BY <2>0, <3>1, <4>2 DEF Shape
      <4> QED
        BY <3>1, <3>3, <4>1, <4>2, <4>3, <4>4, <2>5 DEF Pcs, Ended, Holding
    <3> QED
      BY <2>6, <3>2, <3>3 DEF Poll
  <2>7. CASE Reconcile(r)
    <3> PICK s \in c.seen : requests' = [requests EXCEPT ![r].seen = @ \ {s}]
      BY <2>7 DEF Reconcile
    <3> DEFINE q == [c EXCEPT !.seen = c.seen \ {s}]
    <3>1. c.pc = "reconcile" /\ claims' = claims
      BY <2>7 DEF Reconcile, At
    <3>2. /\ q.pc = c.pc /\ q.payment = c.payment /\ q.kind = c.kind
          /\ q.claimedFinal = c.claimedFinal /\ q \in Call
          /\ requests' = [requests EXCEPT ![r] = q]
      BY <2>0 DEF Call
    <3> HIDE DEF q
    <3>3. Shape(q)
      BY <2>0, <3>2 DEF Shape
    <3> QED
      BY <3>1, <3>2, <3>3, <2>5 DEF Pcs, Ended, Holding
  <2>8. CASE Reserve(r)
    <3> DEFINE q == [c EXCEPT !.pc = "reserved", !.reserved = TRUE]
    <3>1. c.pc = "reconcile" /\ c.claimedFinal /\ claims' = claims
      BY <2>8, <2>0 DEF Reserve, At, Shape
    <3>2. /\ q.pc = "reserved" /\ q.payment = c.payment /\ q.kind = c.kind
          /\ q.claimedFinal = c.claimedFinal /\ q \in Call
      BY <2>0 DEF Call, Pcs, Ended
    <3>3. CASE requests' = [requests EXCEPT ![r] = q]
      <4> HIDE DEF q
      <4>1. Shape(q)
        BY <2>0, <3>1, <3>2 DEF Shape
      <4> QED
        BY <3>1, <3>2, <3>3, <4>1, <2>5 DEF Pcs, Ended, Holding
    <3>4. ASSUME NEW pc \in {"cleanup", "reserve"}, Goto(r, pc) PROVE Claims'
      <4>1. Shape([c EXCEPT !.pc = pc])
        BY <2>0, <3>1 DEF Shape, Call
      <4> QED
        BY <3>1, <3>4, <4>1, <2>1 DEF Pcs, Ended, Holding
    <3> QED
      BY <2>8, <3>3, <3>4 DEF Reserve
  <2>9. CASE Send(r)
    <3> DEFINE q == [c EXCEPT !.pc = "sending", !.attempted = TRUE]
    <3>1. c.pc = "send" /\ c.kind = "transaction" /\ claims' = claims
      BY <2>9, <2>0 DEF Send, At, Shape
    <3>2. /\ q.pc = "sending" /\ q.payment = c.payment /\ q.kind = c.kind
          /\ q.claimedFinal = c.claimedFinal /\ q \in Call
      BY <2>0 DEF Call, Pcs, Ended
    <3>3. CASE requests' = [requests EXCEPT ![r] = q]
      <4> HIDE DEF q
      <4>1. Shape(q)
        BY <2>0, <3>1, <3>2 DEF Shape
      <4> QED
        BY <3>1, <3>2, <3>3, <4>1, <2>5 DEF Pcs, Ended, Holding
    <3>4. CASE Goto(r, "cleanup")
      <4>1. Shape([c EXCEPT !.pc = "cleanup"])
        BY <2>0, <3>1 DEF Shape, Call
      <4> QED
        BY <3>1, <3>4, <4>1, <2>1 DEF Pcs, Ended, Holding
    <3> QED
      BY <2>9, <3>3, <3>4 DEF Send
  <2>10. CASE UnclaimFinal(r) \/ Unclaim(r)
    <3> DEFINE pc == IF UnclaimFinal(r) THEN "unclaim" ELSE "failed"
               h == IF UnclaimFinal(r) THEN FinalHash(c.payment) ELSE SignedHash(c.payment)
               q == [c EXCEPT !.pc = pc]
    <3>1. /\ c.pc = (IF UnclaimFinal(r) THEN "unclaimFinal" ELSE "unclaim")
          /\ c.kind = "transaction" /\ c.payment \in Payments
          /\ UnclaimFinal(r) => c.claimedFinal /\ c.payment \in Sponsored
      BY <2>10, <2>0 DEF UnclaimFinal, Unclaim, At, Shape, Call
    <3>2. /\ q.pc = pc /\ q.payment = c.payment /\ q.kind = c.kind
          /\ q.claimedFinal = c.claimedFinal /\ q \in Call
      BY <2>0 DEF Call, Pcs, Ended
    <3>3. /\ requests' = [requests EXCEPT ![r] = q]
          /\ claims' = [claims EXCEPT ![h] = 0]
      BY <2>10, <3>1 DEF UnclaimFinal, Unclaim, Goto, At, PaymentOf
    <3> HIDE DEF q
    <3>4. Shape(q)
      BY <2>0, <3>1, <3>2 DEF Shape
    <3>5. h \in Keys(c) /\ h \notin Keys(q) /\ Keys(q) \subseteq Keys(c)
      <4>1. h \in Hashes
        BY <3>1, KeyTypes
      <4>2. UnclaimFinal(r) => h # FirstKey(q) /\ q.pc = "unclaim"
        BY <3>1, <3>2 DEF FirstKey, FinalHash, SignedHash
      <4> QED
        BY <4>1, <4>2, <3>1, <3>2 DEF Keys, FirstKey, Holding, Pcs, Ended
    <3>6. \A k \in Hashes : claims'[k] = claims[k] \/ k = h
      BY <3>3 DEF TypeOK
    <3> HIDE DEF h, pc
    <3> QED
      BY <3>2, <3>3, <3>4, <3>5, <3>6, KeepClaims DEF PaymentOf
  <2>11. CASE Crash(r)
    <3>1. Shape([c EXCEPT !.pc = "crashed"])
      BY <2>11, <2>0 DEF Crash, Shape, Call
    <3> QED
      BY <2>11, <3>1, <2>1 DEF Crash, Pcs, Ended, Holding
  <2>12. CASE Complete(r)
    <3>1. c.pc = "complete" /\ claims' = claims /\ c.kind = "transaction" /\ ~c.claimedFinal
      BY <2>12, <2>0 DEF Complete, At, Shape
    <3>2. PICK pc \in {"claimFinal", "send", "cleanup"} :
            /\ Goto(r, pc)
            /\ pc = "claimFinal" => c.payment \in Sponsored
            /\ pc = "send" => c.payment \notin Sponsored
      BY <2>12 DEF Complete, PaymentOf
    <3>3. Shape([c EXCEPT !.pc = pc])
      BY <2>0, <3>1, <3>2 DEF Shape, Call
    <3> QED
      BY <3>1, <3>2, <3>3, <2>1 DEF Pcs, Ended, Holding
  <2>13. CASE Prove(r)
    <3>1. PICK pc \in {"succeeded", "failed"} : Goto(r, pc) /\ c.pc = "proved" /\ claims' = claims
      BY <2>13 DEF Prove, At
    <3>2. Shape([c EXCEPT !.pc = pc])
      BY <2>0, <3>1 DEF Shape, Call
    <3> QED
      BY <3>1, <3>2, <2>1 DEF Pcs, Ended, Holding
  <2>14. CASE CheckReserved(r) \/ Advance(r)
    <3>1. PICK pc \in {"advance", "send", "cleanup"} :
            Goto(r, pc) /\ c.pc \in {"reserved", "advance"} /\ claims' = claims
      BY <2>14 DEF CheckReserved, Advance, At
    <3>2. Shape([c EXCEPT !.pc = pc])
      BY <2>0, <3>1 DEF Shape, Call
    <3> QED
      BY <3>1, <3>2, <2>1 DEF Pcs, Ended, Holding
  <2>15. CASE Rejected(r) \/ Ambiguous(r) \/ Receipt(r) \/ GiveUp(r) \/ Accepted(r) \/ Publish(r)
    <3>1. PICK pc \in {"cleanup", "polling", "succeeded", "accepted"} :
            Goto(r, pc) /\ c.pc \in {"sending", "polling", "accepted"} /\ claims' = claims
      BY <2>15 DEF Rejected, Ambiguous, Receipt, GiveUp, Accepted, Publish, At
    <3>2. Shape([c EXCEPT !.pc = pc])
      BY <2>0, <3>1 DEF Shape, Call
    <3> QED
      BY <3>1, <3>2, <2>1 DEF Pcs, Ended, Holding
  <2>16. CASE CleanupBudget(r)
    <3>1. PICK pc \in {"unclaimFinal", "unclaim"} :
            /\ Goto(r, pc) /\ c.pc = "cleanup" /\ claims' = claims
            /\ pc = "unclaimFinal" => c.claimedFinal
      BY <2>16 DEF CleanupBudget, At
    <3>2. Shape([c EXCEPT !.pc = pc])
      BY <2>0, <3>1 DEF Shape, Call
    <3> QED
      BY <3>1, <3>2, <2>1 DEF Pcs, Ended, Holding
  <2> QED
    BY <1>1, <2>2, <2>3, <2>4, <2>6, <2>7, <2>8, <2>9, <2>10, <2>11, <2>12, <2>13, <2>14,
       <2>15, <2>16 DEF Serve
<1>2. CASE UNCHANGED <<requests, claims>>
  BY <1>2 DEF Claims, Shaped, Marked, Exclusive, PaymentOf
<1> QED
  BY <1>1, <1>2 DEF Next, vars, Arrive, Include, Evict, Tick

\* A payment authorizes at most one request.
THEOREM PaymentAuthorizesOnce == Spec => []PaidOnce
<1>1. TypeOK /\ Claims => PaidOnce
  <2> SUFFICES ASSUME TypeOK, Claims, NEW q \in Requests, NEW r \in Requests,
                      At(q, "succeeded"), At(r, "succeeded"), PaymentOf(q) = PaymentOf(r)
               PROVE  q = r
    BY DEF PaidOnce
  <2>1. ASSUME NEW s \in Requests, At(s, "succeeded")
        PROVE  FinalHash(PaymentOf(s)) \in Keys(requests[s])
    <3>1. requests[s] \in Call /\ Shape(requests[s]) /\ requests[s].pc = "succeeded"
      BY <2>1 DEF TypeOK, Call, Claims, Shaped, At
    <3>2. FinalHash(requests[s].payment) \in Hashes
      BY <3>1, KeyTypes DEF Call
    <3>3. requests[s].kind \in {"transaction", "settled", "proof"}
      BY <3>1 DEF Call, Kinds
    <3> QED
      BY <3>1, <3>2, <3>3 DEF Keys, Holding, Pcs, Ended, Shape, FirstKey, FinalHash, PaymentOf
  <2>2. FinalHash(PaymentOf(q)) \in Hashes
    BY <2>1, KeyTypes DEF PaymentOf, TypeOK
  <2> QED
    BY <2>1, <2>2 DEF Claims, Exclusive
<1> QED
  BY <1>1, TypeInit, ClaimsInit, TypeStep, ClaimsStep, PTL DEF Spec
-----------------------------------------------------------------------------
\* Only a settlement that succeeds, or a server that stops, keeps a credential.

\* What keeps a hash claimed: a presentation that holds it, or one of its
\* payment whose server stopped, which left its claims in the store.
Backs(q, h) == h \in Keys(q) \/ (q.pc = "crashed" /\ q.payment = h[1])

Backed == \A h \in Hashes : Claimed(h) => \E r \in Requests : Backs(requests[r], h)

LEMMA BackedInit == Init => Backed
BY DEF Init, Backed, Claimed

\* A step of r after which each claim is backed by r, or was not backed by r
\* before and has not changed.
LEMMA BackedByOthers ==
    ASSUME TypeOK, Backed, NEW r \in Requests, NEW q \in Call,
           requests' = [requests EXCEPT ![r] = q], now' = now,
           \A h \in Hashes : claims'[h] > now =>
              Backs(q, h) \/ (claims'[h] = claims[h] /\ ~Backs(requests[r], h))
    PROVE  Backed'
<1>0. /\ requests'[r] = q
      /\ \A s \in Requests \ {r} : requests'[s] = requests[s]
  BY DEF TypeOK
<1> SUFFICES ASSUME NEW h \in Hashes, claims'[h] > now
             PROVE  \E s \in Requests : Backs(requests'[s], h)
  BY DEF Backed, Claimed, Backs, Keys, FirstKey, FinalHash, SignedHash
<1>1. CASE Backs(q, h)
  BY <1>0, <1>1
<1>2. CASE claims'[h] = claims[h] /\ ~Backs(requests[r], h)
  <2>1. PICK s \in Requests : Backs(requests[s], h)
    BY <1>2 DEF Backed, Claimed
  <2> QED
    BY <1>0, <1>2, <2>1
<1> QED
  BY <1>1, <1>2

\* A step that leaves the store alone keeps what its presentation backs unless
\* it lets go of a key.
LEMMA BackedOnward ==
    ASSUME TypeOK, Backed, NEW r \in Requests, NEW q \in Call,
           requests' = [requests EXCEPT ![r] = q], now' = now, claims' = claims,
           \A h \in Hashes : Backs(requests[r], h) => Backs(q, h)
    PROVE  Backed'
BY BackedByOthers

\* A presentation that moves on to a control point at which it still holds
\* its keys.
LEMMA BackedHolding ==
    ASSUME TypeOK, Backed, NEW r \in Requests, NEW q \in Call,
           requests' = [requests EXCEPT ![r] = q], now' = now, claims' = claims,
           q.payment = requests[r].payment, q.kind = requests[r].kind,
           q.claimedFinal = requests[r].claimedFinal,
           requests[r].pc # "crashed", q.pc \in Holding,
           q.pc = "unclaim" => ~requests[r].claimedFinal
    PROVE  Backed'
<1>1. \A h \in Hashes : Backs(requests[r], h) => Backs(q, h)
  BY DEF Backs, Keys, FirstKey
<1> QED
  BY <1>1, BackedOnward

LEMMA BackedGoto ==
    ASSUME TypeOK, Backed, NEW r \in Requests, NEW pc \in Holding, Goto(r, pc),
           now' = now, claims' = claims, requests[r].pc # "crashed",
           pc = "unclaim" => ~requests[r].claimedFinal
    PROVE  Backed'
<1> DEFINE q == [requests[r] EXCEPT !.pc = pc]
<1>1. requests[r] \in Call /\ pc \in Pcs
  BY DEF TypeOK, Call, Holding
<1>2. /\ q \in Call /\ q.pc = pc /\ q.payment = requests[r].payment /\ q.kind = requests[r].kind
      /\ q.claimedFinal = requests[r].claimedFinal
  BY <1>1 DEF Call
<1>3. requests' = [requests EXCEPT ![r] = q]
  BY DEF Goto
<1> HIDE DEF q
<1> QED
  BY <1>2, <1>3, BackedHolding

LEMMA BackedStep == TypeOK /\ TypeOK' /\ Claims /\ Backed /\ [Next]_vars => Backed'
<1> SUFFICES ASSUME TypeOK, TypeOK', Claims, Backed, [Next]_vars PROVE Backed'
  OBVIOUS
<1>1. ASSUME NEW r \in Requests, Present(r) \/ Serve(r) \/ Crash(r) PROVE Backed'
  <2> DEFINE c == requests[r]
  <2>0. c \in Call /\ Shape(c) /\ requests \in [Requests -> Call]
    BY DEF TypeOK, Call, Claims, Shaped
  <2>1. ASSUME NEW pc \in Holding, Goto(r, pc), claims' = claims, now' = now,
               c.pc # "crashed", pc = "unclaim" => ~c.claimedFinal
        PROVE  Backed'
    BY <2>1, BackedGoto
  <2>2. ASSUME NEW pc \in Pcs, requests' = [requests EXCEPT ![r] = [c EXCEPT !.pc = pc]],
               claims' = claims, now' = now,
               \A h \in Hashes : ~Backs(c, h)
        PROVE  Backed'
    <3>1. [c EXCEPT !.pc = pc] \in Call
      BY <2>0 DEF Call
    <3> QED
      BY <2>2, <3>1, BackedOnward
  <2>3. CASE Present(r)
    <3> PICK p \in Presents[r], kind \in Kinds :
          /\ requests' = [requests EXCEPT ![r] = NewRequest(p, kind)]
          /\ claims' = claims /\ now' = now
      BY <2>3 DEF Present
    <3>1. NewRequest(p, kind) \in Call
      BY ChargeAssumption DEF NewRequest, Call, Kinds, Pcs
    <3>2. \A h \in Hashes : ~Backs(c, h)
      BY <2>3 DEF Present, Idle, Backs, Keys, Holding
    <3> QED
      BY <3>1, <3>2, BackedOnward
  <2>4. CASE ClaimSigned(r)
    <3> DEFINE h == ClaimedKey(r)
               won == CASE c.kind = "transaction" -> "complete"
                        [] c.kind = "settled" -> "succeeded"
                        [] c.kind = "proof" -> "proved"
    <3>1. c.pc = "claim" /\ c.payment \in Payments /\ now' = now
      BY <2>4, <2>0 DEF ClaimSigned, At, Call
    <3>2. h \in Hashes /\ h = FirstKey(c)
      BY <3>1, KeyTypes DEF ClaimedKey, FirstKey, PaymentOf
    <3>3. \A k \in Hashes : ~Backs(c, k)
      BY <3>1 DEF Backs, Keys, Holding
    <3>4. CASE CanClaim(h, Expiry[PaymentOf(r)])
      <4> DEFINE q == [c EXCEPT !.pc = won]
      <4>1. won \in {"complete", "succeeded", "proved"}
        BY <2>0 DEF Call, Kinds
      <4>2. /\ claims' = [claims EXCEPT ![h] = Expiry[PaymentOf(r)]]
            /\ requests' = [requests EXCEPT ![r] = q]
        BY <2>4, <3>4 DEF ClaimSigned, Claim, Goto
      <4>3. /\ q.pc = won /\ q.payment = c.payment /\ q.kind = c.kind /\ q \in Call
        BY <2>0, <4>1 DEF Call, Pcs, Ended
      <4> HIDE DEF q, won, h
      <4>4. Backs(q, h)
        BY <3>2, <4>1, <4>3 DEF Backs, Keys, FirstKey, Holding, Pcs, Ended
      <4>5. \A k \in Hashes : k # h => claims'[k] = claims[k]
        BY <4>2 DEF TypeOK
      <4>6. \A k \in Hashes : claims'[k] > now =>
               Backs(q, k) \/ (claims'[k] = claims[k] /\ ~Backs(c, k))
        BY <3>3, <4>4, <4>5
      <4> QED
        BY <3>1, <4>2, <4>3, <4>6, BackedByOthers
    <3>5. CASE ~CanClaim(h, Expiry[PaymentOf(r)])
      <4>1. Goto(r, "replayed") /\ claims' = claims
        BY <2>4, <3>5 DEF ClaimSigned, Claim
      <4> QED
        BY <3>1, <3>3, <4>1, <2>2 DEF Goto, Pcs, Ended
    <3> QED
      BY <3>4, <3>5
  \* A proof fails once its challenge has expired, and its claim with it.
  <2>5. CASE Prove(r)
    <3>1. c.pc = "proved" /\ c.kind = "proof" /\ c.payment \in Payments /\ ~c.claimedFinal
      BY <2>5, <2>0 DEF Prove, At, Shape, Call
    <3>2. claims' = claims /\ now' = now
      BY <2>5 DEF Prove
    <3>3. CASE Goto(r, "succeeded")
      BY <3>1, <3>2, <3>3, <2>1 DEF Holding, Pcs, Ended
    <3>4. CASE ~(now < Expiry[PaymentOf(r)]) /\ Goto(r, "failed")
      <4> DEFINE q == [c EXCEPT !.pc = "failed"]
      <4>1. q \in Call /\ requests' = [requests EXCEPT ![r] = q]
        BY <2>0, <3>4 DEF Call, Pcs, Ended, Goto
      <4>2. ASSUME NEW k \in Hashes, claims'[k] > now PROVE ~Backs(c, k)
        <5>1. SUFFICES ASSUME k \in Keys(c) PROVE FALSE
          BY <3>1 DEF Backs
        <5>2. claims[k] = Expiry[PaymentOf(r)]
          BY <5>1 DEF Claims, Marked
        <5>3. now \in Nat /\ Expiry[PaymentOf(r)] \in Nat
          BY <3>1, ChargeAssumption DEF TypeOK, PaymentOf
        <5> QED
          BY <3>2, <3>4, <4>2, <5>2, <5>3
      <4> HIDE DEF q
      <4> QED
        BY <3>2, <4>1, <4>2, BackedByOthers
    <3> QED
      BY <2>5, <3>3, <3>4 DEF Prove
  <2>6. CASE Complete(r)
    <3>1. c.pc = "complete" /\ claims' = claims /\ now' = now
      BY <2>6 DEF Complete, At
    <3>2. PICK pc \in {"claimFinal", "send", "cleanup"} : Goto(r, pc)
      BY <2>6 DEF Complete
    <3> QED
      BY <3>1, <3>2, <2>1 DEF Holding, Pcs, Ended
  <2>7. CASE ClaimFinal(r)
    <3> DEFINE h == FinalHash(PaymentOf(r))
    <3>1. c.pc = "claimFinal" /\ c.payment \in Payments /\ now' = now
      BY <2>7, <2>0 DEF ClaimFinal, At, Call
    <3>2. h \in Hashes
      BY <3>1, KeyTypes DEF PaymentOf
    <3>3. CASE CanClaim(h, Expiry[PaymentOf(r)])
      <4> DEFINE q == [c EXCEPT !.pc = "reserve", !.claimedFinal = TRUE]
      <4>1. /\ q.pc = "reserve" /\ q.payment = c.payment /\ q.kind = c.kind
            /\ q.claimedFinal /\ q \in Call
        BY <2>0 DEF Call, Pcs, Ended
      <4>2. /\ claims' = [claims EXCEPT ![h] = Expiry[PaymentOf(r)]]
            /\ requests' = [requests EXCEPT ![r] = q]
        BY <2>7, <3>3 DEF ClaimFinal, Claim
      <4> HIDE DEF q
      <4>3. Backs(q, h)
        BY <3>2, <4>1 DEF Backs, Keys, Holding, Pcs, PaymentOf
      <4>4. \A k \in Hashes : Backs(c, k) => Backs(q, k)
        BY <3>1, <4>1 DEF Backs, Keys, FirstKey, Holding, Pcs
      <4>5. \A k \in Hashes : k # h => claims'[k] = claims[k]
        BY <4>2 DEF TypeOK
      <4> HIDE DEF h
      <4> QED
        BY <3>1, <4>1, <4>2, <4>3, <4>4, <4>5, BackedByOthers
    <3>4. CASE ~CanClaim(h, Expiry[PaymentOf(r)])
      <4>1. Goto(r, "cleanup") /\ claims' = claims
        BY <2>7, <3>4 DEF ClaimFinal, Claim
      <4> QED
        BY <4>1, <2>1, <3>1 DEF Pcs, Ended, Holding
    <3> QED
      BY <3>3, <3>4
  \* Steps of a presentation that waits for room in the budget, or sends, and
  \* may set more than its control point.
  <2>8. ASSUME NEW q \in Call, requests' = [requests EXCEPT ![r] = q], claims' = claims,
               now' = now, q.payment = c.payment, q.kind = c.kind,
               q.claimedFinal = c.claimedFinal, c.pc # "crashed",
               q.pc \in Holding \ {"unclaim"}
        PROVE  Backed'
    BY <2>8, BackedHolding
  <2>9. CASE Poll(r)
    <3> DEFINE q == [c EXCEPT !.pc = "reconcile", !.started = now, !.seen = Stale]
    <3>1. c.pc = "reserve" /\ claims' = claims /\ now' = now
      BY <2>9 DEF Poll, At
    <3>2. CASE Goto(r, "cleanup")
      BY <3>1, <3>2, <2>1 DEF Pcs, Ended, Holding
    <3>3. CASE requests' = [requests EXCEPT ![r] = q]
      <4>1. q \in Call
        <5>1. requests' \in [Requests -> Call] /\ requests'[r] = q
          BY <3>3, <2>0 DEF TypeOK, Call
        <5> QED
          BY <5>1
      <4>2. /\ q.pc = "reconcile" /\ q.payment = c.payment /\ q.kind = c.kind
            /\ q.claimedFinal = c.claimedFinal
        BY <2>0 DEF Call
      <4> HIDE DEF q
      <4> QED
        BY <3>1, <3>3, <4>1, <4>2, <2>8 DEF Pcs, Ended, Holding
    <3> QED
      BY <2>9, <3>2, <3>3 DEF Poll
  <2>10. CASE Reconcile(r)
    <3> PICK s \in c.seen : requests' = [requests EXCEPT ![r].seen = @ \ {s}]
      BY <2>10 DEF Reconcile
    <3> DEFINE q == [c EXCEPT !.seen = c.seen \ {s}]
    <3>1. c.pc = "reconcile" /\ claims' = claims /\ now' = now
      BY <2>10 DEF Reconcile, At
    <3>2. /\ q.pc = c.pc /\ q.payment = c.payment /\ q.kind = c.kind
          /\ q.claimedFinal = c.claimedFinal /\ q \in Call
          /\ requests' = [requests EXCEPT ![r] = q]
      BY <2>0 DEF Call
    <3> HIDE DEF q
    <3> QED
      BY <3>1, <3>2, <2>8 DEF Pcs, Ended, Holding
  <2>11. CASE Reserve(r)
    <3> DEFINE q == [c EXCEPT !.pc = "reserved", !.reserved = TRUE]
    <3>1. c.pc = "reconcile" /\ claims' = claims /\ now' = now
      BY <2>11 DEF Reserve, At
    <3>2. /\ q.pc = "reserved" /\ q.payment = c.payment /\ q.kind = c.kind
          /\ q.claimedFinal = c.claimedFinal /\ q \in Call
      BY <2>0 DEF Call, Pcs, Ended
    <3>3. CASE requests' = [requests EXCEPT ![r] = q]
      <4> HIDE DEF q
      <4> QED
        BY <3>1, <3>2, <3>3, <2>8 DEF Pcs, Ended, Holding
    <3>4. ASSUME NEW pc \in {"cleanup", "reserve"}, Goto(r, pc) PROVE Backed'
      BY <3>1, <3>4, <2>1 DEF Pcs, Ended, Holding
    <3> QED
      BY <2>11, <3>3, <3>4 DEF Reserve
  <2>12. CASE Send(r)
    <3> DEFINE q == [c EXCEPT !.pc = "sending", !.attempted = TRUE]
    <3>1. c.pc = "send" /\ claims' = claims /\ now' = now
      BY <2>12 DEF Send, At
    <3>2. /\ q.pc = "sending" /\ q.payment = c.payment /\ q.kind = c.kind
          /\ q.claimedFinal = c.claimedFinal /\ q \in Call
      BY <2>0 DEF Call, Pcs, Ended
    <3>3. CASE requests' = [requests EXCEPT ![r] = q]
      <4> HIDE DEF q
      <4> QED
        BY <3>1, <3>2, <3>3, <2>8 DEF Pcs, Ended, Holding
    <3>4. CASE Goto(r, "cleanup")
      BY <3>1, <3>4, <2>1 DEF Pcs, Ended, Holding
    <3> QED
      BY <2>12, <3>3, <3>4 DEF Send
  <2>13. CASE CheckReserved(r) \/ Advance(r) \/ Rejected(r) \/ Ambiguous(r) \/ Receipt(r)
              \/ GiveUp(r) \/ Accepted(r) \/ Publish(r)
    <3>1. PICK pc \in {"advance", "send", "cleanup", "polling", "succeeded", "accepted"} :
            /\ Goto(r, pc) /\ claims' = claims /\ now' = now
            /\ c.pc \in {"reserved", "advance", "sending", "polling", "accepted"}
      BY <2>13
      DEF CheckReserved, Advance, Rejected, Ambiguous, Receipt, GiveUp, Accepted, Publish, At
    <3> QED
      BY <3>1, <2>1 DEF Pcs, Ended, Holding
  <2>14. CASE CleanupBudget(r)
    <3>1. PICK pc \in {"unclaimFinal", "unclaim"} :
            /\ Goto(r, pc) /\ c.pc = "cleanup" /\ claims' = claims /\ now' = now
            /\ pc = "unclaim" => ~c.claimedFinal
      BY <2>14 DEF CleanupBudget, At
    <3> QED
      BY <3>1, <2>1 DEF Pcs, Ended, Holding
  \* What the cleanup lets go of, it removes from the store.
  <2>15. CASE UnclaimFinal(r) \/ Unclaim(r)
    <3> DEFINE pc == IF UnclaimFinal(r) THEN "unclaim" ELSE "failed"
               h == IF UnclaimFinal(r) THEN FinalHash(c.payment) ELSE SignedHash(c.payment)
               q == [c EXCEPT !.pc = pc]
    <3>1. /\ c.pc = (IF UnclaimFinal(r) THEN "unclaimFinal" ELSE "unclaim")
          /\ c.kind = "transaction" /\ now' = now
      BY <2>15, <2>0 DEF UnclaimFinal, Unclaim, At, Shape
    <3>2. /\ q.pc = pc /\ q.payment = c.payment /\ q.kind = c.kind
          /\ q.claimedFinal = c.claimedFinal /\ q \in Call
      BY <2>0 DEF Call, Pcs, Ended
    <3>3. /\ requests' = [requests EXCEPT ![r] = q]
          /\ claims' = [claims EXCEPT ![h] = 0]
      BY <2>15, <3>1 DEF UnclaimFinal, Unclaim, Goto, At, PaymentOf
    <3> HIDE DEF q
    <3>4. \A k \in Hashes : Backs(c, k) => Backs(q, k) \/ k = h
      BY <3>1, <3>2 DEF Backs, Keys, FirstKey, Holding, Pcs, Ended
    <3>5. \A k \in Hashes : claims'[k] = (IF k = h THEN 0 ELSE claims[k])
      BY <3>3 DEF TypeOK
    <3>6. now \in Nat
      BY DEF TypeOK
    <3> HIDE DEF h, pc
    <3>7. \A k \in Hashes : claims'[k] > now =>
            Backs(q, k) \/ (claims'[k] = claims[k] /\ ~Backs(c, k))
      BY <3>4, <3>5, <3>6
    <3> QED
      BY <3>1, <3>2, <3>3, <3>7, BackedByOthers
  \* A stopped server leaves its claims.
  <2>16. CASE Crash(r)
    <3> DEFINE q == [c EXCEPT !.pc = "crashed"]
    <3>1. /\ requests' = [requests EXCEPT ![r] = q] /\ claims' = claims /\ now' = now
          /\ q \in Call /\ q.pc = "crashed" /\ q.payment = c.payment
      BY <2>16, <2>0 DEF Crash, Goto, Call, Pcs, Ended
    <3> HIDE DEF q
    <3>2. \A h \in Hashes : Backs(c, h) => Backs(q, h)
      BY <2>0, <3>1, KeysOf DEF Backs
    <3> QED
      BY <3>1, <3>2, BackedOnward
  <2> QED
    BY <1>1, <2>3, <2>4, <2>5, <2>6, <2>7, <2>9, <2>10, <2>11, <2>12, <2>13, <2>14,
       <2>15, <2>16 DEF Serve
<1>2. CASE Tick
  <2>1. \A h \in Hashes : Claimed(h)' => Claimed(h)
    BY <1>2 DEF Tick, Claimed, TypeOK
  <2> QED
    BY <1>2, <2>1 DEF Tick, Backed, Backs
<1>3. CASE UNCHANGED <<now, requests, claims>>
  BY <1>3 DEF Backed, Backs, Claimed
<1> QED
  BY <1>1, <1>2, <1>3 DEF Next, vars, Arrive, Include, Evict

\* When every presentation of a payment has ended without success and no
\* server stopped, the payment's hashes can be claimed again: the failure has
\* not consumed the credential.
THEOREM FailureFrees == Spec => []FailureFreesCredential
<1>1. TypeOK /\ Backed => FailureFreesCredential
  <2> SUFFICES ASSUME TypeOK, Backed, NEW p \in Payments,
                      \A r \in Requests : (PaymentOf(r) = p /\ ~Idle(r))
                         => requests[r].pc \in {"failed", "replayed"},
                      NEW h \in {SignedHash(p), FinalHash(p)}, Claimed(h)
               PROVE  FALSE
    BY DEF FailureFreesCredential
  <2>1. h \in Hashes /\ h[1] = p
    <3>1. SignedHash(p)[1] = p /\ FinalHash(p)[1] = p
      BY DEF SignedHash, FinalHash
    <3> QED
      BY <3>1, KeyTypes
  <2>2. PICK r \in Requests : Backs(requests[r], h)
    BY <2>1 DEF Backed
  <2>3. requests[r] \in Call
    BY DEF TypeOK, Call
  <2>4. PaymentOf(r) = p
    BY <2>1, <2>2, <2>3, KeysOf DEF Backs, PaymentOf
  <2>5. requests[r].pc \in Holding \cup {"crashed"}
    BY <2>2 DEF Backs, Keys
  <2> QED
    BY <2>4, <2>5 DEF Idle, Holding
<1> QED
  BY <1>1, TypeInit, ClaimsInit, BackedInit, TypeStep, ClaimsStep, BackedStep, PTL DEF Spec
-----------------------------------------------------------------------------
\* The budget covers what a block may still include.

\* The control points from the reservation on, and those from the broadcast on.
AfterSend == {"sending", "polling", "accepted", "cleanup", "unclaimFinal", "unclaim",
              "succeeded", "failed", "crashed"}
Past == {"reserved", "advance", "send"} \cup AfterSend

\* A presentation that will not send its transaction any more.
GivenUp(q) ==
    ~q.attempted /\ q.pc \in {"cleanup", "unclaimFinal", "unclaim", "failed", "crashed"}

\* A reservation is its owner's, for what the payment declares.  While it is only
\* prepared, its owner is about to send the transaction or never will.
Owned ==
    \A id \in DOMAIN reservations :
        LET rv == reservations[id]
            q  == requests[rv.owner]
        IN /\ q.payment = id /\ q.pc \in Past
           /\ rv.fee = Fee[id] /\ rv.expiresAt = ValidBefore[id]
           /\ rv.phase = "prepared" =>
                 /\ q.pc \in {"reserved", "advance"} \/ GivenUp(q)
                 /\ rv.leaseUntil \in {ValidBefore[id], q.started + PreparedLease}

Tried == \A r \in Requests : requests[r].attempted => requests[r].pc \in AfterSend

\* A prompt server's lease has not run out before the broadcast.
Timely == \A r \in Requests : Preparing(r) => now < requests[r].started + PreparedLease

\* So the owner of a lapsed reservation that was noted will not use it.
Noted ==
    \A r \in Requests : \A s \in requests[r].seen :
        s.lapsed => ValidBefore[s.id] <= now \/ GivenUp(requests[s.owner])

\* A fee that a block may still cost.
AtRisk(p) == p \in Sponsored /\ now < ValidBefore[p] /\ ~HasReceipt(p)

OnItsWay(p) == chain[p] = "pooled" \/ \E r \in wire : PaymentOf(r) = p

Sent == \A r \in wire : requests[r].attempted

\* It is reserved by who sent the transaction, or is about to.
Covered ==
    /\ \A p \in Payments : AtRisk(p) /\ OnItsWay(p) =>
          p \in DOMAIN reservations /\ requests[reservations[p].owner].attempted
    /\ \A r \in Requests : At(r, "send") /\ AtRisk(PaymentOf(r)) =>
          Owns(reservations, PaymentOf(r), r)

Room(rs) ==
    /\ IsFiniteSet(DOMAIN rs)
    /\ Cardinality(DOMAIN rs) <= MaxReservations
    /\ TotalFee(rs) <= MaxTotalFee

BudgetInv ==
    TypeOK /\ Owned /\ Tried /\ Timely /\ Noted /\ Sent /\ Covered /\ Room(reservations)

-----------------------------------------------------------------------------
\* What the updates make of the reservations.

Keeps(rs, new) ==
    /\ DOMAIN new \subseteq DOMAIN rs
    /\ \A id \in DOMAIN new :
          /\ new[id].owner = rs[id].owner /\ new[id].fee = rs[id].fee
          /\ new[id].expiresAt = rs[id].expiresAt /\ new[id].leaseUntil = rs[id].leaseUntil
          /\ new[id].phase = "prepared" => rs[id].phase = "prepared"

Typed(rs) ==
    DOMAIN rs \subseteq Payments /\ \A id \in DOMAIN rs : rs[id] \in Reservation(Requests)

LEMMA ReleasedKeeps ==
    ASSUME NEW rs, NEW p, NEW o
    PROVE  /\ Keeps(rs, Released(rs, p, o))
           /\ \A id \in DOMAIN rs \ DOMAIN Released(rs, p, o) : id = p /\ rs[p].owner = o
BY DEF Released, Keeps, Owns

LEMMA TransitionedKeeps ==
    ASSUME NEW rs, Typed(rs), NEW p, NEW o, NEW phase, phase # "prepared"
    PROVE  /\ Keeps(rs, Transitioned(rs, p, o, phase))
           /\ DOMAIN Transitioned(rs, p, o, phase) = DOMAIN rs
           /\ Owns(rs, p, o) => Transitioned(rs, p, o, phase)[p].phase = phase
<1> DEFINE new == [rs EXCEPT ![p].phase = phase]
<1>1. CASE Owns(rs, p, o)
  <2>1. Transitioned(rs, p, o, phase) = new
    BY <1>1 DEF Transitioned
  <2>2. DOMAIN new = DOMAIN rs /\ \A id \in DOMAIN rs \ {p} : new[id] = rs[id]
    OBVIOUS
  <2>3. p \in DOMAIN rs /\ new[p] = [rs[p] EXCEPT !.phase = phase]
    BY <1>1 DEF Owns
  <2>4. /\ new[p].owner = rs[p].owner /\ new[p].fee = rs[p].fee
        /\ new[p].expiresAt = rs[p].expiresAt /\ new[p].leaseUntil = rs[p].leaseUntil
        /\ new[p].phase = phase
    BY <2>3 DEF Typed, Reservation
  <2> HIDE DEF new
  <2> QED
    BY <2>1, <2>2, <2>3, <2>4 DEF Keeps
<1>2. CASE ~Owns(rs, p, o)
  BY <1>2 DEF Transitioned, Keeps
<1> QED
  BY <1>1, <1>2

\* The terms of TotalFee.
LEMMA FeeTerms ==
    ASSUME NEW rs, Typed(rs)
    PROVE  /\ TotalFee(rs) = SumFunctionOnSet([id \in DOMAIN rs |-> rs[id].fee], DOMAIN rs)
           /\ Numbers([id \in DOMAIN rs |-> rs[id].fee], DOMAIN rs)
BY DEF TotalFee, SumFunction, Numbers, Typed, Reservation

LEMMA RoomKept ==
    ASSUME NEW rs, NEW new, Typed(rs), Typed(new), Keeps(rs, new), Room(rs)
    PROVE  Room(new)
<1> DEFINE f == [id \in DOMAIN rs |-> rs[id].fee]
           g == [id \in DOMAIN new |-> new[id].fee]
           S == DOMAIN rs
           T == DOMAIN new
<1>1. T \in SUBSET S /\ IsFiniteSet(S) /\ IsFiniteSet(T)
  BY FS_Subset DEF Keeps, Room
<1>2. Cardinality(T) <= MaxReservations
  <2>1. Cardinality(T) <= Cardinality(S) /\ Cardinality(T) \in Nat /\ Cardinality(S) \in Nat
    BY <1>1, FS_Subset, FS_CardinalityType
  <2> QED
    BY <2>1, BudgetAssumption DEF Room
<1>3. Numbers(f, S) /\ Numbers(g, T) /\ \A x \in T : f[x] = g[x]
  BY FeeTerms DEF Keeps
<1>4. TotalFee(rs) = SumFunctionOnSet(f, S) /\ TotalFee(new) = SumFunctionOnSet(g, T)
  BY FeeTerms
<1> HIDE DEF f, g, S, T
<1>5. SumFunctionOnSet(f, T) = SumFunctionOnSet(g, T)
  BY <1>1, <1>3, SumSame
<1>6. SumFunctionOnSet(f, T) <= SumFunctionOnSet(f, S)
  BY <1>1, <1>3, SumSubset
<1>7. SumFunctionOnSet(f, T) \in Nat /\ SumFunctionOnSet(f, S) \in Nat
  BY <1>1, <1>3, <1>5, SumType
<1>8. TotalFee(new) <= MaxTotalFee
  BY <1>4, <1>5, <1>6, <1>7, BudgetAssumption DEF Room
<1> QED
  BY <1>1, <1>2, <1>8 DEF Room, T

LEMMA RoomTaken ==
    ASSUME NEW rs, Typed(rs), Room(rs), NEW p \in Payments, p \notin DOMAIN rs,
           NEW fee \in Nat, HasRoom(rs, fee), NEW new, Typed(new),
           DOMAIN new = DOMAIN rs \cup {p}, new[p].fee = fee,
           \A id \in DOMAIN rs : new[id] = rs[id]
    PROVE  Room(new)
<1> DEFINE f == [id \in DOMAIN rs |-> rs[id].fee]
           g == [id \in DOMAIN new |-> new[id].fee]
           S == DOMAIN rs
           T == DOMAIN new
<1>0. TotalFee(rs) + fee <= MaxTotalFee /\ Cardinality(S) < MaxReservations
  BY DEF HasRoom
<1>1. T = S \cup {p} /\ S = T \ {p} /\ IsFiniteSet(S) /\ p \notin S
  BY DEF Room
<1>2. IsFiniteSet(T) /\ Cardinality(T) = Cardinality(S) + 1 /\ Cardinality(S) \in Nat
  <2> HIDE DEF S, T
  <2> QED
    BY <1>1, FS_AddElement, FS_CardinalityType
<1>3. Numbers(f, S) /\ Numbers(g, T) /\ (\A x \in S : g[x] = f[x]) /\ g[p] = fee
  BY FeeTerms
<1>4. TotalFee(rs) = SumFunctionOnSet(f, S) /\ TotalFee(new) = SumFunctionOnSet(g, T)
  BY FeeTerms
<1> HIDE DEF f, g, S, T
<1>5. SumFunctionOnSet(g, T) = g[p] + SumFunctionOnSet(g, T \ {p})
  BY <1>1, <1>2, <1>3, SumTake
<1>6. SumFunctionOnSet(g, S) = SumFunctionOnSet(f, S) /\ SumFunctionOnSet(f, S) \in Nat
  BY <1>1, <1>3, SumSame, SumType
<1>7. TotalFee(new) <= MaxTotalFee
  <2>1. SumFunctionOnSet(g, T) = fee + SumFunctionOnSet(f, S)
    BY <1>1, <1>3, <1>5, <1>6
  <2> QED
    BY <1>0, <1>4, <1>6, <2>1, BudgetAssumption
<1>8. Cardinality(T) <= MaxReservations
  BY <1>0, <1>2, BudgetAssumption
<1> QED
  BY <1>2, <1>7, <1>8 DEF Room, T
-----------------------------------------------------------------------------
\* What a step says of the presentation that makes it.
Onward(old, new) ==
    /\ new.attempted => new.pc \in AfterSend
    /\ old.attempted => new.attempted
    /\ old.pc # "idle" => new.payment = old.payment
    /\ old.pc \in Past => new.pc \in Past /\ new.started = old.started
    /\ GivenUp(old) => GivenUp(new)
    /\ old.pc \in {"reserved", "advance"} =>
          new.pc \in {"reserved", "advance", "send"} \/ GivenUp(new)
    /\ new.pc \in {"reconcile", "reserved", "advance"} =>
          \/ /\ old.pc \in {"reconcile", "reserved", "advance"}
             /\ new.started = old.started
          \/ new.started = now
    /\ new.pc = "send" => old.pc \in {"complete", "advance"}

LEMMA GotoOnward ==
    ASSUME TypeOK, Tried, NEW r \in Requests, NEW pc \in Pcs, Goto(r, pc),
           requests[r].attempted => pc \in AfterSend,
           requests[r].pc \in Past => pc \in Past,
           requests[r].pc # "idle",
           GivenUp(requests[r]) =>
              pc \in {"cleanup", "unclaimFinal", "unclaim", "failed", "crashed"},
           requests[r].pc \in {"reserved", "advance"} =>
              pc \in {"reserved", "advance", "send", "cleanup", "crashed"},
           pc \in {"reconcile", "reserved", "advance"} =>
              requests[r].pc \in {"reconcile", "reserved", "advance"},
           pc = "send" => requests[r].pc \in {"complete", "advance"}
    PROVE  Onward(requests[r], requests'[r])
<1> DEFINE old == requests[r]
           new == requests'[r]
<1>1. /\ new.pc = pc /\ (new.attempted <=> old.attempted) /\ new.payment = old.payment
      /\ new.started = old.started
  BY DEF TypeOK, Goto
<1>2. /\ old.attempted => pc \in AfterSend
      /\ old.pc \in Past => pc \in Past
      /\ old.pc # "idle"
      /\ GivenUp(old) => pc \in {"cleanup", "unclaimFinal", "unclaim", "failed", "crashed"}
      /\ old.pc \in {"reserved", "advance"} =>
            /\ pc \in {"reserved", "advance", "send", "cleanup", "crashed"}
            /\ ~old.attempted
      /\ pc \in {"reconcile", "reserved", "advance"} =>
            old.pc \in {"reconcile", "reserved", "advance"}
      /\ pc = "send" => old.pc \in {"complete", "advance"}
  BY DEF Tried, AfterSend
<1> HIDE DEF old, new
<1>3. Onward(old, new)
  BY <1>1, <1>2 DEF Onward, GivenUp
<1> QED
  BY <1>3 DEF old, new

LEMMA RequestOnward ==
    ASSUME TypeOK, Tried, NEW r \in Requests, Present(r) \/ Serve(r) \/ Crash(r)
    PROVE  /\ Onward(requests[r], requests'[r])
           /\ \A q \in Requests \ {r} : requests'[q] = requests[q]
<1> DEFINE old == requests[r]
           new == requests'[r]
<1>0. requests \in [Requests -> Call] /\ old \in Call
  BY DEF TypeOK, Call
<1>1. old.attempted => old.pc \in AfterSend
  BY DEF Tried
<1>2. ASSUME NEW q, requests' = [requests EXCEPT ![r] = q]
      PROVE  new = q /\ \A o \in Requests \ {r} : requests'[o] = requests[o]
  BY <1>0, <1>2
<1>3. ASSUME NEW pc, Goto(r, pc)
      PROVE  \A o \in Requests \ {r} : requests'[o] = requests[o]
  BY <1>0, <1>3 DEF Goto
<1> USE DEF Pcs, Ended, Past, AfterSend, GivenUp
<1>4. CASE Present(r)
  <2> PICK p \in Presents[r], kind \in Kinds :
        old.pc = "idle" /\ requests' = [requests EXCEPT ![r] = NewRequest(p, kind)]
    BY <1>4 DEF Present, Idle
  <2>1. new = NewRequest(p, kind) /\ ~new.attempted /\ new.pc = "claim"
    BY <1>2 DEF NewRequest
  <2> HIDE DEF new
  <2> QED
    BY <1>1, <1>2, <2>1 DEF Onward
<1>5. CASE ClaimSigned(r)
  <2>1. PICK pc \in {"complete", "succeeded", "proved", "replayed"} : Goto(r, pc)
    BY <1>5, <1>0 DEF ClaimSigned, Claim, Call, Kinds
  <2> QED
    BY <1>1, <1>3, <1>5, <2>1, GotoOnward DEF ClaimSigned, At
<1>6. CASE Prove(r)
  <2>1. PICK pc \in {"succeeded", "failed"} : Goto(r, pc)
    BY <1>6 DEF Prove
  <2> QED
    BY <1>1, <1>3, <1>6, <2>1, GotoOnward DEF Prove, At
<1>7. CASE Complete(r)
  <2>1. PICK pc \in {"claimFinal", "send", "cleanup"} : Goto(r, pc)
    BY <1>7 DEF Complete
  <2> QED
    BY <1>1, <1>3, <1>7, <2>1, GotoOnward DEF Complete, At
<1>8. CASE ClaimFinal(r)
  <2>1. CASE requests' = [requests EXCEPT ![r] = [@ EXCEPT !.pc = "reserve", !.claimedFinal = TRUE]]
    <3>1. new.pc = "reserve" /\ (new.attempted <=> old.attempted) /\ new.payment = old.payment
      BY <1>0, <2>1 DEF Call
    <3>2. \A o \in Requests \ {r} : requests'[o] = requests[o]
      BY <1>0, <2>1
    <3>3. old.pc = "claimFinal"
      BY <1>8 DEF ClaimFinal, At
    <3> HIDE DEF old, new
    <3>4. Onward(old, new)
      BY <1>1, <3>1, <3>3 DEF Onward
    <3> QED
      BY <3>2, <3>4 DEF old, new
  <2>2. CASE Goto(r, "cleanup")
    BY <1>1, <1>3, <1>8, <2>2, GotoOnward DEF ClaimFinal, At
  <2> QED
    BY <1>8, <2>1, <2>2 DEF ClaimFinal, Claim
<1>9. CASE Poll(r)
  <2>1. CASE Goto(r, "cleanup")
    BY <1>1, <1>3, <1>9, <2>1, GotoOnward DEF Poll, At
  <2>2. CASE requests' = [requests EXCEPT ![r] = [@ EXCEPT !.pc = "reconcile", !.started = now,
                                                           !.seen = Stale]]
    <3>1. /\ new.pc = "reconcile" /\ (new.attempted <=> old.attempted) /\ new.payment = old.payment
          /\ new.started = now
      BY <1>0, <2>2 DEF Call
    <3>2. \A o \in Requests \ {r} : requests'[o] = requests[o]
      BY <1>0, <2>2
    <3>3. old.pc = "reserve"
      BY <1>9 DEF Poll, At
    <3> HIDE DEF old, new
    <3>4. Onward(old, new)
      BY <1>1, <3>1, <3>3 DEF Onward
    <3> QED
      BY <3>2, <3>4 DEF old, new
  <2> QED
    BY <1>9, <2>1, <2>2 DEF Poll
<1>10. CASE Reconcile(r)
  <2>1. PICK seen : requests' = [requests EXCEPT ![r].seen = seen] /\ old.pc = "reconcile"
    BY <1>10 DEF Reconcile, At
  <2>2. /\ new.pc = "reconcile" /\ (new.attempted <=> old.attempted) /\ new.payment = old.payment
        /\ new.started = old.started
    BY <1>0, <2>1 DEF Call
  <2>3. \A o \in Requests \ {r} : requests'[o] = requests[o]
    BY <1>0, <2>1
  <2> HIDE DEF new
  <2> QED
    BY <1>1, <2>1, <2>2, <2>3 DEF Onward
<1>11. CASE Reserve(r)
  <2>1. CASE \E pc \in {"cleanup", "reserve"} : Goto(r, pc)
    BY <1>1, <1>3, <1>11, <2>1, GotoOnward DEF Reserve, At
  <2>2. CASE requests' = [requests EXCEPT ![r] = [@ EXCEPT !.pc = "reserved", !.reserved = TRUE]]
    <3>1. /\ new.pc = "reserved" /\ (new.attempted <=> old.attempted) /\ new.payment = old.payment
          /\ new.started = old.started
      BY <1>0, <2>2 DEF Call
    <3>2. \A o \in Requests \ {r} : requests'[o] = requests[o]
      BY <1>0, <2>2
    <3>3. old.pc = "reconcile"
      BY <1>11 DEF Reserve, At
    <3> HIDE DEF old, new
    <3>4. Onward(old, new)
      BY <1>1, <3>1, <3>3 DEF Onward
    <3> QED
      BY <3>2, <3>4 DEF old, new
  <2> QED
    BY <1>11, <2>1, <2>2 DEF Reserve
<1>12. CASE CheckReserved(r)
  <2>1. PICK pc \in {"advance", "cleanup"} : Goto(r, pc)
    BY <1>12 DEF CheckReserved
  <2> QED
    BY <1>1, <1>3, <1>12, <2>1, GotoOnward DEF CheckReserved, At
<1>13. CASE Advance(r)
  <2>1. PICK pc \in {"send", "cleanup"} : Goto(r, pc)
    BY <1>13 DEF Advance
  <2> QED
    BY <1>1, <1>3, <1>13, <2>1, GotoOnward DEF Advance, At
<1>14. CASE Send(r)
  <2>1. CASE requests' = [requests EXCEPT ![r] = [@ EXCEPT !.pc = "sending", !.attempted = TRUE]]
    <3>1. /\ new.pc = "sending" /\ new.attempted /\ new.payment = old.payment
          /\ new.started = old.started
      BY <1>0, <2>1 DEF Call
    <3>2. \A o \in Requests \ {r} : requests'[o] = requests[o]
      BY <1>0, <2>1
    <3>3. old.pc = "send"
      BY <1>14 DEF Send, At
    <3> HIDE DEF old, new
    <3>4. Onward(old, new)
      BY <1>1, <3>1, <3>3 DEF Onward
    <3> QED
      BY <3>2, <3>4 DEF old, new
  <2>2. CASE Goto(r, "cleanup")
    BY <1>1, <1>3, <1>14, <2>2, GotoOnward DEF Send, At
  <2> QED
    BY <1>14, <2>1, <2>2 DEF Send
<1>15. CASE Rejected(r) \/ Ambiguous(r) \/ Receipt(r) \/ GiveUp(r) \/ Accepted(r) \/ Publish(r)
  <2>1. PICK pc \in {"cleanup", "polling", "succeeded", "accepted"} : Goto(r, pc)
    BY <1>15 DEF Rejected, Ambiguous, Receipt, GiveUp, Accepted, Publish
  <2>2. old.pc \in {"sending", "polling", "accepted"}
    BY <1>15 DEF Rejected, Ambiguous, Receipt, GiveUp, Accepted, Publish, At
  <2> QED
    BY <1>1, <1>3, <2>1, <2>2, GotoOnward
<1>16. CASE CleanupBudget(r) \/ UnclaimFinal(r) \/ Unclaim(r)
  <2>1. PICK pc \in {"unclaimFinal", "unclaim", "failed"} : Goto(r, pc)
    BY <1>16 DEF CleanupBudget, UnclaimFinal, Unclaim
  <2>2. old.pc \in {"cleanup", "unclaimFinal", "unclaim"}
    BY <1>16 DEF CleanupBudget, UnclaimFinal, Unclaim, At
  <2> QED
    BY <1>1, <1>3, <2>1, <2>2, GotoOnward
<1>17. CASE Crash(r)
  <2>1. Goto(r, "crashed") /\ old.pc # "idle"
    BY <1>17 DEF Crash
  <2> QED
    BY <1>1, <1>3, <2>1, GotoOnward
<1> QED
  BY <1>4, <1>5, <1>6, <1>7, <1>8, <1>9, <1>10, <1>11, <1>12, <1>13, <1>14, <1>15, <1>16,
     <1>17 DEF Serve

\* A step drops a reservation only when its fee is not at risk or its owner has
\* given up, and a sponsored transaction is sent with its reservation.
LEMMA BudgetMoves ==
    ASSUME TypeOK, Tried, Noted, NEW r \in Requests, Present(r) \/ Serve(r) \/ Crash(r),
           ~(At(r, "reconcile") /\ requests'[r].pc = "reserved")
    PROVE  /\ Keeps(reservations, reservations')
           /\ \A id \in DOMAIN reservations \ DOMAIN reservations' :
                 ~AtRisk(id) \/ GivenUp(requests[reservations[id].owner])
           /\ requests'[r].pc = "send" =>
                 \/ At(r, "complete") /\ PaymentOf(r) \notin Sponsored
                 \/ /\ Owns(reservations, PaymentOf(r), r)
                    /\ PaymentOf(r) \in DOMAIN reservations'
                    /\ reservations'[PaymentOf(r)].phase = "broadcasting"
<1> DEFINE p == PaymentOf(r)
<1>0. /\ Typed(reservations) /\ Onward(requests[r], requests'[r])
      /\ requests \in [Requests -> Call]
  BY RequestOnward DEF TypeOK, Typed, Call
<1>1. requests'[r].pc = "send" => requests[r].pc \in {"complete", "advance"}
  BY <1>0 DEF Onward
<1>2. ASSUME reservations' = reservations, requests[r].pc \notin {"complete", "advance"}
      PROVE  /\ Keeps(reservations, reservations')
             /\ DOMAIN reservations' = DOMAIN reservations
             /\ requests'[r].pc # "send"
  BY <1>1, <1>2 DEF Keeps
<1>3. ASSUME NEW phase \in {"broadcasting", "pending"},
             reservations' = Transitioned(reservations, p, r, phase)
      PROVE  /\ Keeps(reservations, reservations')
             /\ DOMAIN reservations' = DOMAIN reservations
             /\ Owns(reservations, p, r) => reservations'[p].phase = phase
  BY <1>0, <1>3, TransitionedKeeps
<1>4. ASSUME NEW id, NEW o, reservations' = Released(reservations, id, o)
      PROVE  /\ Keeps(reservations, reservations')
             /\ \A i \in DOMAIN reservations \ DOMAIN reservations' :
                   i = id /\ reservations[id].owner = o
  BY <1>4, ReleasedKeeps
<1>5. CASE Complete(r)
  <2>1. reservations' = reservations /\ Keeps(reservations, reservations')
    BY <1>5 DEF Complete, Keeps
  <2>2. requests'[r].pc = "send" => At(r, "complete") /\ p \notin Sponsored
    BY <1>0, <1>5 DEF Complete, Goto, Call
  <2> QED
    BY <2>1, <2>2
<1>6. CASE Advance(r)
  <2>1. requests'[r].pc = "send" => Owns(reservations, p, r)
    BY <1>0, <1>6 DEF Advance, Goto, Call
  <2>2. reservations' = Transitioned(reservations, p, r, "broadcasting")
    BY <1>6 DEF Advance
  <2> QED
    BY <1>3, <2>1, <2>2 DEF Owns
<1>7. CASE Reconcile(r)
  <2>1. At(r, "reconcile")
    BY <1>7 DEF Reconcile
  <2>2. PICK s \in requests[r].seen :
           \/ (s.lapsed \/ HasReceipt(s.id)) /\ reservations' = Released(reservations, s.id, s.owner)
           \/ reservations' = reservations
    BY <1>7 DEF Reconcile
  <2>3. CASE reservations' = reservations
    BY <1>2, <2>1, <2>3 DEF At
  <2>4. CASE (s.lapsed \/ HasReceipt(s.id)) /\ reservations' = Released(reservations, s.id, s.owner)
    <3>1. ~AtRisk(s.id) \/ GivenUp(requests[s.owner])
      <4>1. CASE HasReceipt(s.id)
        BY <4>1 DEF AtRisk
      <4>2. CASE s.lapsed
        <5>1. ValidBefore[s.id] <= now \/ GivenUp(requests[s.owner])
          BY <4>2 DEF Noted
        <5>2. s.id \in Payments /\ now \in Nat /\ ValidBefore[s.id] \in Nat
          BY <1>0, ChargeAssumption DEF TypeOK, Call, Seen
        <5> QED
          BY <5>1, <5>2 DEF AtRisk
      <4> QED
        BY <2>4, <4>1, <4>2
    <3>2. \A i \in DOMAIN reservations \ DOMAIN reservations' :
             i = s.id /\ reservations[s.id].owner = s.owner
      BY <1>4, <2>4
    <3>3. requests'[r].pc # "send"
      BY <1>1, <2>1 DEF At
    <3> QED
      BY <1>4, <2>4, <3>1, <3>2, <3>3
  <2> QED
    BY <2>2, <2>3, <2>4
<1>8. CASE Reserve(r)
  <2>1. At(r, "reconcile")
    BY <1>8 DEF Reserve
  <2>2. requests' # [requests EXCEPT ![r] = [@ EXCEPT !.pc = "reserved", !.reserved = TRUE]]
    BY <1>0, <2>1 DEF Call
  <2>3. reservations' = reservations
    BY <1>8, <2>2 DEF Reserve
  <2> QED
    BY <1>2, <2>1, <2>3 DEF At
<1>9. CASE Receipt(r)
  <2>1. HasReceipt(p) /\ requests[r].pc \in {"sending", "polling"}
    BY <1>9 DEF Receipt, At
  <2>2. reservations' = reservations \/ reservations' = Released(reservations, p, r)
    BY <1>9 DEF Receipt
  <2>3. CASE reservations' = reservations
    BY <1>2, <2>1, <2>3
  <2>4. CASE reservations' = Released(reservations, p, r)
    BY <1>1, <1>4, <2>1, <2>4 DEF AtRisk
  <2> QED
    BY <2>2, <2>3, <2>4
<1>10. CASE Publish(r)
  <2>1. requests[r].pc = "accepted" /\ reservations' = Transitioned(reservations, p, r, "pending")
    BY <1>10 DEF Publish, At
  <2> QED
    BY <1>1, <1>3, <2>1
<1>11. CASE CleanupBudget(r)
  <2>1. requests[r].pc = "cleanup"
    BY <1>11 DEF CleanupBudget, At
  <2>2. \/ reservations' = reservations
        \/ reservations' = Transitioned(reservations, p, r, "pending")
        \/ ~requests[r].attempted /\ reservations' = Released(reservations, p, r)
    BY <1>11 DEF CleanupBudget
  <2>3. CASE reservations' = reservations
    BY <1>2, <2>1, <2>3
  <2>4. CASE reservations' = Transitioned(reservations, p, r, "pending")
    BY <1>1, <1>3, <2>1, <2>4
  <2>5. CASE ~requests[r].attempted /\ reservations' = Released(reservations, p, r)
    <3>1. GivenUp(requests[r])
      BY <2>1, <2>5 DEF GivenUp
    <3>2. \A i \in DOMAIN reservations \ DOMAIN reservations' :
             i = p /\ reservations[p].owner = r
      BY <1>4, <2>5
    <3>3. requests'[r].pc # "send"
      BY <1>1, <2>1
    <3> QED
      BY <1>4, <2>5, <3>1, <3>2, <3>3
  <2> QED
    BY <2>2, <2>3, <2>4, <2>5
<1>12. CASE Crash(r)
  <2>1. requests'[r].pc = "crashed" /\ reservations' = reservations
    BY <1>0, <1>12 DEF Crash, Goto, Call
  <2> QED
    BY <2>1 DEF Keeps
<1>13. CASE \/ Present(r) \/ ClaimSigned(r) \/ Prove(r) \/ ClaimFinal(r) \/ Poll(r)
            \/ CheckReserved(r) \/ Send(r) \/ Rejected(r) \/ Ambiguous(r) \/ GiveUp(r)
            \/ Accepted(r) \/ UnclaimFinal(r) \/ Unclaim(r)
  <2>1. reservations' = reservations
    BY <1>13 DEF Present, ClaimSigned, Prove, ClaimFinal, Poll, CheckReserved, Send, Rejected,
       Ambiguous, GiveUp, Accepted, UnclaimFinal, Unclaim
  <2>2. requests[r].pc \notin {"complete", "advance"}
    BY <1>13 DEF Present, Idle, At, ClaimSigned, Prove, ClaimFinal, Poll, CheckReserved, Send,
       Rejected, Ambiguous, GiveUp, Accepted, UnclaimFinal, Unclaim
  <2> QED
    BY <1>2, <2>1, <2>2
<1> QED
  BY <1>5, <1>6, <1>7, <1>8, <1>9, <1>10, <1>11, <1>12, <1>13 DEF Serve

\* A presentation's step that takes no room keeps what is covered.
LEMMA BudgetKept ==
    ASSUME BudgetInv, TypeOK', NEW r \in Requests,
           Onward(requests[r], requests'[r]),
           \A q \in Requests \ {r} : requests'[q] = requests[q],
           Keeps(reservations, reservations'),
           \A id \in DOMAIN reservations \ DOMAIN reservations' :
              ~AtRisk(id) \/ GivenUp(requests[reservations[id].owner]),
           requests'[r].pc = "send" =>
              \/ At(r, "complete") /\ PaymentOf(r) \notin Sponsored
              \/ /\ Owns(reservations, PaymentOf(r), r)
                 /\ PaymentOf(r) \in DOMAIN reservations'
                 /\ reservations'[PaymentOf(r)].phase = "broadcasting",
           \A s \in requests'[r].seen :
              s \in requests[r].seen \/
                 (s.lapsed => ValidBefore[s.id] <= now \/ GivenUp(requests[s.owner])),
           wire' \subseteq wire \/
              (wire' = wire \cup {r} /\ At(r, "send") /\ requests'[r].attempted),
           now' = now, chain' = chain
    PROVE  BudgetInv'
<1> DEFINE old == requests[r]
           new == requests'[r]
<1>0. /\ Typed(reservations) /\ Typed(reservations') /\ requests \in [Requests -> Call]
      /\ now \in Nat /\ PreparedLease \in Nat \ {0} /\ wire \subseteq Requests
      /\ \A id \in DOMAIN reservations : reservations[id].owner \in Requests
  BY BudgetAssumption DEF BudgetInv, TypeOK, Typed, Call, Reservation
<1>1. Owned /\ Tried /\ Timely /\ Noted /\ Sent /\ Covered /\ Room(reservations)
  BY DEF BudgetInv
<1>2. /\ new.attempted => new.pc \in AfterSend
      /\ old.attempted => new.attempted
      /\ old.pc # "idle" => new.payment = old.payment
      /\ old.pc \in Past => new.pc \in Past /\ new.started = old.started
      /\ GivenUp(old) => GivenUp(new)
      /\ old.pc \in {"reserved", "advance"} =>
            new.pc \in {"reserved", "advance", "send"} \/ GivenUp(new)
      /\ new.pc \in {"reconcile", "reserved", "advance"} =>
            \/ /\ old.pc \in {"reconcile", "reserved", "advance"}
               /\ new.started = old.started
            \/ new.started = now
      /\ new.pc = "send" => old.pc \in {"complete", "advance"}
  BY DEF Onward
\* What presentations know of each other is stable.
<1>3. ASSUME NEW q \in Requests
      PROVE  /\ GivenUp(requests[q]) => GivenUp(requests'[q])
             /\ requests[q].attempted => requests'[q].attempted
             /\ requests[q].pc \in Past =>
                   /\ requests'[q].pc \in Past /\ requests'[q].started = requests[q].started
                   /\ requests'[q].payment = requests[q].payment
             /\ requests[q].pc # "idle" => requests'[q].payment = requests[q].payment
  <2>1. "idle" \notin Past
    BY DEF Past, AfterSend
  <2>2. CASE q = r
    BY <1>2, <2>1, <2>2
  <2>3. CASE q # r
    BY <2>3
  <2> QED
    BY <2>2, <2>3
<1>4. Room(reservations')
  BY <1>0, <1>1, RoomKept
<1>5. Tried'
  BY <1>1, <1>2 DEF Tried
<1>6. Timely'
  <2> SUFFICES ASSUME NEW q \in Requests,
                      requests'[q].pc \in {"reconcile", "reserved", "advance"}
               PROVE  now < requests'[q].started + PreparedLease
    BY DEF Timely, Preparing
  <2>1. requests[q].pc \in {"reconcile", "reserved", "advance"} =>
           now < requests[q].started + PreparedLease
    BY <1>1 DEF Timely, Preparing
  <2>2. CASE requests'[q].started = now
    BY <1>0, <2>2
  <2>3. CASE /\ requests[q].pc \in {"reconcile", "reserved", "advance"}
             /\ requests'[q].started = requests[q].started
    BY <2>1, <2>3
  <2> QED
    BY <1>2, <2>2, <2>3
<1>7. Noted'
  <2> SUFFICES ASSUME NEW q \in Requests, NEW s \in requests'[q].seen, s.lapsed
               PROVE  ValidBefore[s.id] <= now \/ GivenUp(requests'[s.owner])
    BY DEF Noted
  <2>1. s.owner \in Requests
    BY DEF TypeOK, Seen
  <2>2. ValidBefore[s.id] <= now \/ GivenUp(requests[s.owner])
    <3>1. CASE s \in requests[q].seen
      BY <1>1, <3>1 DEF Noted
    <3>2. CASE s \notin requests[q].seen
      BY <3>2
    <3> QED
      BY <3>1, <3>2
  <2> QED
    BY <1>3, <2>1, <2>2
<1>8. Sent'
  BY <1>0, <1>1, <1>3 DEF Sent
<1>9. Owned'
  <2> SUFFICES ASSUME NEW id \in DOMAIN reservations'
               PROVE  LET rv == reservations'[id]
                          q  == requests'[rv.owner]
                      IN /\ q.payment = id /\ q.pc \in Past
                         /\ rv.fee = Fee[id] /\ rv.expiresAt = ValidBefore[id]
                         /\ rv.phase = "prepared" =>
                               /\ q.pc \in {"reserved", "advance"} \/ GivenUp(q)
                               /\ rv.leaseUntil \in {ValidBefore[id], q.started + PreparedLease}
    BY DEF Owned
  <2> DEFINE o == reservations[id].owner
  <2>1. /\ id \in DOMAIN reservations /\ o \in Requests /\ reservations'[id].owner = o
        /\ reservations'[id].fee = reservations[id].fee
        /\ reservations'[id].expiresAt = reservations[id].expiresAt
        /\ reservations'[id].leaseUntil = reservations[id].leaseUntil
        /\ reservations'[id].phase = "prepared" => reservations[id].phase = "prepared"
    BY <1>0 DEF Keeps
  <2>2. /\ requests[o].payment = id /\ requests[o].pc \in Past
        /\ reservations[id].fee = Fee[id] /\ reservations[id].expiresAt = ValidBefore[id]
        /\ reservations[id].phase = "prepared" =>
             /\ requests[o].pc \in {"reserved", "advance"} \/ GivenUp(requests[o])
             /\ reservations[id].leaseUntil \in {ValidBefore[id], requests[o].started + PreparedLease}
    BY <1>1, <2>1 DEF Owned
  <2>3. /\ requests'[o].payment = id /\ requests'[o].pc \in Past
        /\ requests'[o].started = requests[o].started
    BY <1>3, <2>1, <2>2
  <2>4. ASSUME reservations'[id].phase = "prepared"
        PROVE  requests'[o].pc \in {"reserved", "advance"} \/ GivenUp(requests'[o])
    <3>1. requests[o].pc \in {"reserved", "advance"} \/ GivenUp(requests[o])
      BY <2>1, <2>2, <2>4
    <3>2. CASE o = r
      <4>1. requests'[o].pc # "send"
        <5>1. SUFFICES ASSUME new.pc = "send" PROVE FALSE
          BY <3>2
        <5>2. old.pc \in {"reserved", "advance"} \/ GivenUp(old)
          BY <3>1, <3>2
        <5>3. old.pc = "advance"
          BY <1>2, <5>1, <5>2 DEF GivenUp
        <5>4. PaymentOf(r) = id
          BY <2>2, <3>2 DEF PaymentOf
        <5>5. reservations'[id].phase = "broadcasting"
          BY <5>1, <5>3, <5>4 DEF At
        <5> QED
          BY <2>4, <5>5
      <4> QED
        BY <1>2, <3>1, <3>2, <4>1
    <3>3. CASE o # r
      BY <2>1, <3>1, <3>3
    <3> QED
      BY <3>2, <3>3
  <2> HIDE DEF o
  <2> QED
    BY <2>1, <2>2, <2>3, <2>4
\* No fee at risk loses its reservation, and only its owner sends.
<1>10. Covered'
  <2>1. \A p \in Payments : AtRisk(p)' <=> AtRisk(p)
    BY DEF AtRisk, HasReceipt
  <2>2. ASSUME NEW id \in DOMAIN reservations, AtRisk(id), ~GivenUp(requests[reservations[id].owner])
        PROVE  id \in DOMAIN reservations' /\ reservations'[id].owner = reservations[id].owner
    BY <2>2 DEF Keeps
  <2>3. ASSUME NEW p \in Payments, AtRisk(p), OnItsWay(p)'
        PROVE  p \in DOMAIN reservations' /\ requests'[reservations'[p].owner].attempted
    <3>1. CASE OnItsWay(p)
      <4>1. p \in DOMAIN reservations /\ requests[reservations[p].owner].attempted
        BY <1>1, <2>3, <3>1 DEF Covered
      <4>2. ~GivenUp(requests[reservations[p].owner])
        BY <4>1 DEF GivenUp
      <4> QED
        BY <1>0, <1>3, <2>2, <2>3, <4>1, <4>2
    <3>2. CASE ~OnItsWay(p)
      <4>1. PICK q \in wire' : requests'[q].payment = p
        BY <2>3, <3>2 DEF OnItsWay, PaymentOf
      <4>2. q \notin wire
        <5> SUFFICES ASSUME q \in wire PROVE FALSE
          OBVIOUS
        <5>1. requests[q].attempted /\ q \in Requests
          BY <1>0, <1>1 DEF Sent
        <5>2. requests[q].pc # "idle"
          BY <1>1, <5>1 DEF Tried, AfterSend
        <5> QED
          BY <1>3, <3>2, <4>1, <5>1, <5>2 DEF OnItsWay, PaymentOf
      <4>3. q = r /\ At(r, "send") /\ new.attempted
        BY <4>1, <4>2
      <4>4. PaymentOf(r) = p
        BY <1>2, <4>1, <4>3 DEF At, PaymentOf
      <4>5. Owns(reservations, p, r)
        BY <1>1, <2>3, <4>3, <4>4 DEF Covered
      <4>6. p \in DOMAIN reservations /\ reservations[p].owner = r
        BY <4>5 DEF Owns
      <4>7. ~GivenUp(requests[r])
        BY <4>3 DEF At, GivenUp
      <4> QED
        BY <2>2, <2>3, <4>3, <4>6, <4>7
    <3> QED
      BY <3>1, <3>2
  <2>4. ASSUME NEW q \in Requests, requests'[q].pc = "send", AtRisk(requests'[q].payment)
        PROVE  Owns(reservations', requests'[q].payment, q)
    <3> DEFINE p == requests'[q].payment
    <3>1. CASE q = r
      <4>1. old.pc \in {"complete", "advance"}
        BY <1>2, <2>4, <3>1
      <4>2. PaymentOf(r) = p
        BY <1>2, <3>1, <4>1 DEF PaymentOf
      <4>3. p \in Sponsored
        BY <2>4 DEF AtRisk
      <4>4. /\ Owns(reservations, p, r) /\ p \in DOMAIN reservations'
        BY <2>4, <3>1, <4>2, <4>3
      <4> QED
        BY <3>1, <4>4 DEF Owns, Keeps
    <3>2. CASE q # r
      <4>1. At(q, "send") /\ PaymentOf(q) = p
        BY <2>4, <3>2 DEF At, PaymentOf
      <4>2. Owns(reservations, p, q)
        BY <1>1, <2>4, <4>1 DEF Covered
      <4>3. p \in DOMAIN reservations /\ reservations[p].owner = q
        BY <4>2 DEF Owns
      <4>4. ~GivenUp(requests[q])
        BY <4>1 DEF At, GivenUp
      <4> QED
        BY <2>2, <2>4, <4>3, <4>4 DEF Owns
    <3> QED
      BY <3>1, <3>2
  <2>5. \A q \in Requests : requests'[q].payment \in Payments
    BY DEF TypeOK
  <2> QED
    BY <2>1, <2>3, <2>4, <2>5 DEF Covered, At, PaymentOf
<1> QED
  BY <1>4, <1>5, <1>6, <1>7, <1>8, <1>9, <1>10 DEF BudgetInv

\* A reservation is made only of room there is, by who will broadcast.
LEMMA BudgetTaken ==
    ASSUME BudgetInv, TypeOK', NEW r \in Requests, Reserve(r), requests'[r].pc = "reserved"
    PROVE  BudgetInv'
<1> DEFINE old == requests[r]
           new == requests'[r]
           p   == PaymentOf(r)
           rv  == reservations'[p]
<1>0. /\ Typed(reservations) /\ Typed(reservations') /\ requests \in [Requests -> Call]
      /\ p \in Payments /\ Fee[p] \in Nat /\ wire \subseteq Requests
      /\ \A id \in DOMAIN reservations : reservations[id].owner \in Requests
  BY ChargeAssumption DEF BudgetInv, TypeOK, Typed, Call, Reservation, PaymentOf
<1>1. Owned /\ Tried /\ Timely /\ Noted /\ Sent /\ Covered /\ Room(reservations)
  BY DEF BudgetInv
<1>2. /\ old.pc = "reconcile" /\ now' = now /\ chain' = chain /\ wire' = wire
      /\ p \notin DOMAIN reservations /\ HasRoom(reservations, Fee[p])
      /\ requests' = [requests EXCEPT ![r] = [@ EXCEPT !.pc = "reserved", !.reserved = TRUE]]
      /\ reservations' = Prepared(reservations, p, Fee[p], ValidBefore[p], r, old.started)
  <2>1. old.pc = "reconcile"
    BY DEF Reserve, At
  <2>2. ~(\E pc \in {"cleanup", "reserve"} : Goto(r, pc))
    BY <1>0 DEF Goto, Call
  <2> QED
    BY <2>1, <2>2 DEF Reserve
<1>3. /\ new.pc = "reserved" /\ (new.attempted <=> old.attempted) /\ new.payment = old.payment
      /\ new.started = old.started /\ new.seen = old.seen
  BY <1>0, <1>2 DEF Call
<1>4. \A q \in Requests \ {r} : requests'[q] = requests[q]
  BY <1>0, <1>2
<1>5. ~old.attempted
  BY <1>1, <1>2 DEF Tried, AfterSend
<1>6. /\ DOMAIN reservations' = DOMAIN reservations \cup {p}
      /\ \A id \in DOMAIN reservations : reservations'[id] = reservations[id]
      /\ rv.fee = Fee[p] /\ rv.expiresAt = ValidBefore[p] /\ rv.owner = r
      /\ rv.leaseUntil \in {ValidBefore[p], old.started + PreparedLease}
  BY <1>2 DEF Prepared
\* Who holds a reservation is further on than r.
<1>7. \A id \in DOMAIN reservations : reservations[id].owner # r
  BY <1>1, <1>2 DEF Owned, Past, AfterSend
<1>8. Room(reservations')
  <2> HIDE DEF p
  <2> QED
    BY <1>0, <1>1, <1>2, <1>6, RoomTaken
<1>9. Tried'
  BY <1>1, <1>3, <1>4, <1>5 DEF Tried
<1>10. Timely'
  BY <1>1, <1>2, <1>3, <1>4 DEF Timely, Preparing
<1>11. Noted'
  <2> SUFFICES ASSUME NEW q \in Requests, NEW s \in requests'[q].seen, s.lapsed
               PROVE  ValidBefore[s.id] <= now \/ GivenUp(requests'[s.owner])
    BY <1>2 DEF Noted
  <2>1. s \in requests[q].seen
    BY <1>3, <1>4
  <2>2. ValidBefore[s.id] <= now \/ GivenUp(requests[s.owner])
    BY <1>1, <2>1 DEF Noted
  <2>3. s.owner \in Requests
    BY DEF TypeOK, Seen
  <2>4. ~GivenUp(requests[r])
    BY <1>2 DEF GivenUp
  <2> QED
    BY <1>4, <2>2, <2>3, <2>4
<1>12. Sent'
  <2>1. r \notin wire
    BY <1>1, <1>5 DEF Sent
  <2> QED
    BY <1>0, <1>1, <1>2, <1>4, <2>1 DEF Sent
<1>13. Owned'
  <2> SUFFICES ASSUME NEW id \in DOMAIN reservations'
               PROVE  LET w == reservations'[id]
                          q == requests'[w.owner]
                      IN /\ q.payment = id /\ q.pc \in Past
                         /\ w.fee = Fee[id] /\ w.expiresAt = ValidBefore[id]
                         /\ w.phase = "prepared" =>
                               /\ q.pc \in {"reserved", "advance"} \/ GivenUp(q)
                               /\ w.leaseUntil \in {ValidBefore[id], q.started + PreparedLease}
    BY DEF Owned
  <2>1. CASE id = p
    BY <1>3, <1>6, <2>1 DEF Past, PaymentOf
  <2>2. CASE id # p
    <3>1. id \in DOMAIN reservations /\ reservations'[id] = reservations[id]
      BY <1>6, <2>2
    <3>2. requests'[reservations[id].owner] = requests[reservations[id].owner]
      BY <1>0, <1>4, <1>7, <3>1
    <3> QED
      BY <1>1, <3>1, <3>2 DEF Owned
  <2> QED
    BY <2>1, <2>2
<1>14. Covered'
  <2>1. \A i \in Payments : AtRisk(i)' <=> AtRisk(i)
    BY <1>2 DEF AtRisk, HasReceipt
  <2>2. \A q \in Requests : PaymentOf(q)' = PaymentOf(q)
    BY <1>3, <1>4 DEF PaymentOf
  <2>3. \A i : OnItsWay(i)' <=> OnItsWay(i)
    BY <1>0, <1>2, <2>2 DEF OnItsWay
  <2>4. ASSUME NEW i \in Payments, AtRisk(i), OnItsWay(i)
        PROVE  i \in DOMAIN reservations' /\ requests'[reservations'[i].owner].attempted
    <3>1. i \in DOMAIN reservations /\ requests[reservations[i].owner].attempted
      BY <1>1, <2>4 DEF Covered
    <3> QED
      BY <1>0, <1>4, <1>6, <1>7, <3>1
  <2>5. ASSUME NEW q \in Requests, requests'[q].pc = "send", AtRisk(PaymentOf(q))
        PROVE  Owns(reservations', PaymentOf(q), q)
    <3>1. q # r /\ At(q, "send")
      BY <1>3, <1>4, <2>5 DEF At
    <3>2. Owns(reservations, PaymentOf(q), q)
      BY <1>1, <2>5, <3>1 DEF Covered
    <3> QED
      BY <1>6, <3>2 DEF Owns
  <2>6. \A q \in Requests : PaymentOf(q) \in Payments
    BY <1>0 DEF Call, PaymentOf
  <2> HIDE DEF p
  <2> QED
    BY <2>1, <2>2, <2>3, <2>4, <2>5, <2>6 DEF Covered, At
<1> QED
  BY <1>8, <1>9, <1>10, <1>11, <1>12, <1>13, <1>14 DEF BudgetInv

LEMMA BudgetInit == Init => BudgetInv
<1> SUFFICES ASSUME Init PROVE BudgetInv
  OBVIOUS
<1>1. \A r \in Requests : requests[r].pc = "idle" /\ ~requests[r].attempted /\ requests[r].seen = {}
  BY DEF Init, NewRequest
<1>2. TypeOK
  BY TypeInit
<1>3. Owned
  BY DEF Init, NoReservations, Owned
<1>4. Tried /\ Timely /\ Noted
  BY <1>1 DEF Tried, Timely, Noted, Preparing
<1>5. Sent /\ Covered
  BY <1>1 DEF Init, Sent, Covered, OnItsWay, At
<1>6. Room(reservations)
  <2> DEFINE D == DOMAIN reservations
  <2>1. D = {} /\ Typed(reservations)
    BY DEF Init, NoReservations, Typed
  <2>2. IsFiniteSet(D) /\ Cardinality(D) = 0
    <3> HIDE DEF D
    <3> QED
      BY <2>1, FS_EmptySet
  <2>3. TotalFee(reservations) = SumFunctionOnSet([id \in D |-> reservations[id].fee], D)
    BY <2>1, FeeTerms
  <2>4. TotalFee(reservations) = 0
    <3> DEFINE f == [id \in D |-> reservations[id].fee]
    <3>1. \A x \in D : f[x] = 0
      BY <2>1
    <3> HIDE DEF D, f
    <3>2. SumFunctionOnSet(f, D) = 0
      BY <2>2, <3>1, SumZero
    <3> QED
      BY <2>3, <3>2 DEF f
  <2> QED
    BY <2>2, <2>4, BudgetAssumption DEF Room
<1> QED
  BY <1>2, <1>3, <1>4, <1>5, <1>6 DEF BudgetInv

\* What a presentation notes of a lapsed reservation is so.
LEMMA NotedRight ==
    ASSUME BudgetInv, NEW s \in Stale, s.lapsed
    PROVE  ValidBefore[s.id] <= now \/ GivenUp(requests[s.owner])
<1> PICK id \in DOMAIN reservations :
        s = [id |-> id, owner |-> reservations[id].owner, lapsed |-> Lapsed(reservations[id], now)]
  BY DEF Stale
<1> DEFINE rv == reservations[id]
           q  == requests[rv.owner]
<1>1. s.id = id /\ s.owner = rv.owner /\ Lapsed(rv, now)
  OBVIOUS
<1>2. /\ rv.owner \in Requests /\ rv.expiresAt = ValidBefore[id] /\ id \in Payments
      /\ rv.phase = "prepared" =>
            /\ q.pc \in {"reserved", "advance"} \/ GivenUp(q)
            /\ rv.leaseUntil \in {ValidBefore[id], q.started + PreparedLease}
  BY DEF BudgetInv, Owned, TypeOK, Reservation
<1>3. /\ now \in Nat /\ ValidBefore[id] \in Nat /\ PreparedLease \in Nat
      /\ q.started \in Nat
  BY <1>2, BudgetAssumption, ChargeAssumption DEF BudgetInv, TypeOK
<1>4. CASE rv.expiresAt <= now
  BY <1>1, <1>2, <1>4
<1>5. CASE rv.phase = "prepared" /\ rv.leaseUntil <= now
  <2>1. q.pc \in {"reserved", "advance"} => now < q.started + PreparedLease
    BY <1>2 DEF BudgetInv, Timely, Preparing
  <2> HIDE DEF q, rv
  <2>2. CASE rv.leaseUntil = ValidBefore[id]
    BY <1>1, <1>5, <2>2
  <2>3. CASE rv.leaseUntil = q.started + PreparedLease
    BY <1>1, <1>2, <1>3, <1>5, <2>1, <2>3 DEF q, rv
  <2> QED
    BY <1>2, <1>5, <2>2, <2>3 DEF q, rv
<1> QED
  BY <1>1, <1>4, <1>5 DEF Lapsed

LEMMA BudgetRequest ==
    ASSUME BudgetInv, TypeOK', NEW r \in Requests, Present(r) \/ Serve(r) \/ Crash(r)
    PROVE  BudgetInv'
<1> DEFINE old == requests[r]
           new == requests'[r]
<1>0. /\ TypeOK /\ Tried /\ Noted /\ requests \in [Requests -> Call] /\ old \in Call
  BY DEF BudgetInv, TypeOK, Call
<1>1. CASE old.pc = "reconcile" /\ new.pc = "reserved"
  <2>1. Reserve(r)
    <3>1. ~Present(r) /\ ~Crash(r)
      BY <1>0, <1>1 DEF Present, Idle, Crash, Goto, Call
    <3>2. ~Reconcile(r)
      BY <1>0, <1>1 DEF Reconcile, Call
    <3> QED
      BY <1>1, <3>1, <3>2 DEF Serve, At, ClaimSigned, Prove, Complete, ClaimFinal, Poll,
         CheckReserved, Advance, Send, Rejected, Ambiguous, Receipt, GiveUp, Accepted, Publish,
         CleanupBudget, UnclaimFinal, Unclaim
  <2> QED
    BY <1>1, <2>1, BudgetTaken
<1>2. CASE ~(old.pc = "reconcile" /\ new.pc = "reserved")
  <2>1. ~(At(r, "reconcile") /\ new.pc = "reserved")
    BY <1>2 DEF At
  <2>2. now' = now /\ chain' = chain
    BY DEF Present, Serve, Crash, ClaimSigned, Prove, Complete, ClaimFinal, Poll, Reconcile,
       Reserve, CheckReserved, Advance, Send, Rejected, Ambiguous, Receipt, GiveUp, Accepted,
       Publish, CleanupBudget, UnclaimFinal, Unclaim
  <2>3. \/ wire' \subseteq wire
        \/ wire' = wire \cup {r} /\ At(r, "send") /\ new.attempted
    <3>1. CASE Send(r)
      <4>1. CASE MaySend(PaymentOf(r))
        <5>1. /\ old.pc = "send" /\ wire' = wire \cup {r}
              /\ requests' = [requests EXCEPT ![r] = [@ EXCEPT !.pc = "sending", !.attempted = TRUE]]
          BY <3>1, <4>1 DEF Send, At
        <5>2. new.attempted
          BY <1>0, <5>1 DEF Call
        <5> QED
          BY <5>1, <5>2 DEF At
      <4>2. CASE ~MaySend(PaymentOf(r))
        BY <3>1, <4>2 DEF Send
      <4> QED
        BY <4>1, <4>2
    <3>2. CASE ~Send(r)
      BY <3>2 DEF Present, Serve, Crash, ClaimSigned, Prove, Complete, ClaimFinal, Poll,
         Reconcile, Reserve, CheckReserved, Advance, Rejected, Ambiguous, Receipt, GiveUp,
         Accepted, Publish, CleanupBudget, UnclaimFinal, Unclaim
    <3> QED
      BY <3>1, <3>2
  <2>4. new.seen \subseteq old.seen \/ new.seen = Stale
    <3>1. ASSUME NEW pc, Goto(r, pc)
          PROVE  new.seen = old.seen
      BY <1>0, <3>1 DEF Goto, Call
    <3>2. CASE Present(r)
      <4>1. PICK p \in Payments, kind \in Kinds :
              requests' = [requests EXCEPT ![r] = NewRequest(p, kind)]
        BY <3>2, ChargeAssumption DEF Present
      <4>2. new = NewRequest(p, kind)
        BY <1>0, <4>1
      <4> QED
        BY <4>2 DEF NewRequest
    <3>3. CASE Poll(r)
      <4>1. CASE Goto(r, "cleanup")
        BY <3>1, <4>1
      <4>2. CASE requests' = [requests EXCEPT ![r] = [@ EXCEPT !.pc = "reconcile",
                                                      !.started = now, !.seen = Stale]]
        BY <1>0, <4>2 DEF Call
      <4> QED
        BY <3>3, <4>1, <4>2 DEF Poll
    <3>4. CASE Reconcile(r)
      <4>1. PICK s : requests' = [requests EXCEPT ![r].seen = @ \ {s}]
        BY <3>4 DEF Reconcile
      <4> QED
        BY <1>0, <4>1 DEF Call
    <3>5. CASE ClaimFinal(r)
      <4>1. CASE requests' = [requests EXCEPT ![r] = [@ EXCEPT !.pc = "reserve",
                                                      !.claimedFinal = TRUE]]
        BY <1>0, <4>1 DEF Call
      <4> QED
        BY <3>1, <3>5, <4>1 DEF ClaimFinal, Claim
    <3>6. CASE Reserve(r)
      <4>1. CASE requests' = [requests EXCEPT ![r] = [@ EXCEPT !.pc = "reserved",
                                                      !.reserved = TRUE]]
        BY <1>0, <4>1 DEF Call
      <4> QED
        BY <3>1, <3>6, <4>1 DEF Reserve
    <3>7. CASE Send(r)
      <4>1. CASE requests' = [requests EXCEPT ![r] = [@ EXCEPT !.pc = "sending",
                                                      !.attempted = TRUE]]
        BY <1>0, <4>1 DEF Call
      <4> QED
        BY <3>1, <3>7, <4>1 DEF Send
    <3>8. CASE ClaimSigned(r)
      BY <3>1, <3>8 DEF ClaimSigned, Claim
    <3>9. CASE \/ Prove(r) \/ Complete(r) \/ CheckReserved(r) \/ Advance(r) \/ Rejected(r)
               \/ Ambiguous(r) \/ Receipt(r) \/ GiveUp(r) \/ Accepted(r) \/ Publish(r)
               \/ CleanupBudget(r) \/ UnclaimFinal(r) \/ Unclaim(r) \/ Crash(r)
      BY <3>1, <3>9 DEF Prove, Complete, CheckReserved, Advance, Rejected, Ambiguous, Receipt,
         GiveUp, Accepted, Publish, CleanupBudget, UnclaimFinal, Unclaim, Crash
    <3> QED
      BY <3>2, <3>3, <3>4, <3>5, <3>6, <3>7, <3>8, <3>9 DEF Serve
  <2>5. \A s \in new.seen :
           s \in old.seen \/ (s.lapsed => ValidBefore[s.id] <= now \/ GivenUp(requests[s.owner]))
    BY <2>4, NotedRight
  <2>6. /\ Onward(old, new)
        /\ \A q \in Requests \ {r} : requests'[q] = requests[q]
    BY <1>0, RequestOnward
  <2>7. /\ Keeps(reservations, reservations')
        /\ \A id \in DOMAIN reservations \ DOMAIN reservations' :
              ~AtRisk(id) \/ GivenUp(requests[reservations[id].owner])
        /\ new.pc = "send" =>
              \/ At(r, "complete") /\ PaymentOf(r) \notin Sponsored
              \/ /\ Owns(reservations, PaymentOf(r), r)
                 /\ PaymentOf(r) \in DOMAIN reservations'
                 /\ reservations'[PaymentOf(r)].phase = "broadcasting"
    BY <1>0, <2>1, BudgetMoves
  <2> QED
    BY <2>2, <2>3, <2>5, <2>6, <2>7, BudgetKept
<1> QED
  BY <1>1, <1>2

\* The chain and the clock put no fee at risk.
LEMMA BudgetChain ==
    ASSUME BudgetInv, TypeOK', requests' = requests, reservations' = reservations,
           now' \in {now, now + 1}, wire' \subseteq wire,
           \A p \in Payments : AtRisk(p)' /\ OnItsWay(p)' => OnItsWay(p) /\ ~HasReceipt(p),
           \A p \in Payments : HasReceipt(p) => HasReceipt(p)',
           Timely'
    PROVE  BudgetInv'
<1>0. /\ now \in Nat /\ now' \in Nat /\ \A p \in Payments : ValidBefore[p] \in Nat
  BY ChargeAssumption DEF BudgetInv, TypeOK
<1>1. Owned' /\ Tried' /\ Sent' /\ Room(reservations')
  BY DEF BudgetInv, Owned, Tried, Sent
<1>2. Noted'
  <2> SUFFICES ASSUME NEW q \in Requests, NEW s \in requests[q].seen, s.lapsed
               PROVE  ValidBefore[s.id] <= now' \/ GivenUp(requests[s.owner])
    BY DEF Noted
  <2>1. s.id \in Payments
    BY DEF BudgetInv, TypeOK, Seen
  <2>2. ValidBefore[s.id] <= now \/ GivenUp(requests[s.owner])
    BY DEF BudgetInv, Noted
  <2> QED
    BY <1>0, <2>1, <2>2
<1>3. \A p \in Payments : AtRisk(p)' => AtRisk(p)
  BY <1>0 DEF AtRisk
<1>4. Covered'
  <2>1. \A p \in Payments : AtRisk(p)' /\ OnItsWay(p)' =>
           p \in DOMAIN reservations /\ requests[reservations[p].owner].attempted
    BY <1>3 DEF BudgetInv, Covered
  <2>2. \A r \in Requests : PaymentOf(r)' = PaymentOf(r) /\ PaymentOf(r) \in Payments
    BY DEF PaymentOf, BudgetInv, TypeOK
  <2>3. \A r \in Requests : At(r, "send")' /\ AtRisk(PaymentOf(r))' =>
           Owns(reservations, PaymentOf(r), r)
    BY <1>3, <2>2 DEF BudgetInv, Covered, At, PaymentOf
  <2> QED
    BY <2>1, <2>2, <2>3 DEF Covered
<1> QED
  BY <1>1, <1>2, <1>4 DEF BudgetInv

LEMMA BudgetStep ==
    ASSUME Prompt = TRUE
    PROVE  BudgetInv /\ TypeOK' /\ [Next]_vars => BudgetInv'
<1> SUFFICES ASSUME BudgetInv, TypeOK', [Next]_vars
             PROVE  BudgetInv'
  OBVIOUS
<1>0. chain \in [Payments -> {"absent", "pooled", "mined", "reverted"}] /\ wire \subseteq Requests
      /\ \A r \in Requests : PaymentOf(r) \in Payments
  BY DEF BudgetInv, TypeOK, PaymentOf
<1>1. CASE \E r \in Requests : Present(r) \/ Serve(r) \/ Crash(r)
  BY <1>1, BudgetRequest
<1>2. ASSUME NEW r \in Requests, Arrive(r)
      PROVE  BudgetInv'
  <2> DEFINE p == PaymentOf(r)
  <2>1. /\ r \in wire /\ wire' \subseteq wire /\ now' = now /\ requests' = requests
        /\ reservations' = reservations
        /\ chain' = chain \/ (chain[p] = "absent" /\ chain' = [chain EXCEPT ![p] = "pooled"])
    BY <1>2 DEF Arrive
  <2>2. OnItsWay(p)
    BY <2>1 DEF OnItsWay
  <2>3. \A i \in Payments : HasReceipt(i)' <=> HasReceipt(i)
    BY <1>0, <2>1 DEF HasReceipt
  <2>4. \A i \in Payments : OnItsWay(i)' => OnItsWay(i)
    BY <1>0, <2>1, <2>2 DEF OnItsWay, PaymentOf
  <2>5. Timely'
    BY <2>1 DEF BudgetInv, Timely, Preparing
  <2> QED
    BY <2>1, <2>3, <2>4, <2>5, BudgetChain DEF AtRisk
<1>3. ASSUME NEW p \in Payments, Include(p) \/ Evict(p)
      PROVE  BudgetInv'
  <2>1. /\ wire' = wire /\ now' = now /\ requests' = requests /\ reservations' = reservations
        /\ chain[p] = "pooled"
        /\ \E c \in {"absent", "mined", "reverted"} : chain' = [chain EXCEPT ![p] = c]
    BY <1>3 DEF Include, Evict, Includable
  <2>2. \A i \in Payments : HasReceipt(i) => HasReceipt(i)'
    BY <1>0, <2>1 DEF HasReceipt
  <2>3. \A i \in Payments : OnItsWay(i)' => OnItsWay(i)
    BY <1>0, <2>1 DEF OnItsWay, PaymentOf
  <2>4. Timely'
    BY <2>1 DEF BudgetInv, Timely, Preparing
  <2> QED
    BY <2>1, <2>2, <2>3, <2>4, BudgetChain DEF AtRisk
<1>4. CASE Tick
  <2>1. /\ wire' = wire /\ now' = now + 1 /\ requests' = requests
        /\ reservations' = reservations /\ chain' = chain
        /\ \A r \in Requests : Preparing(r) => now + 1 < requests[r].started + PreparedLease
    BY <1>4 DEF Tick
  <2>2. \A i \in Payments : HasReceipt(i)' <=> HasReceipt(i)
    BY <2>1 DEF HasReceipt
  <2>3. \A i \in Payments : OnItsWay(i)' => OnItsWay(i)
    BY <2>1 DEF OnItsWay, PaymentOf
  <2>4. Timely'
    BY <2>1 DEF Timely, Preparing
  <2> QED
    BY <2>1, <2>2, <2>3, <2>4, BudgetChain DEF AtRisk
<1>5. CASE UNCHANGED vars
  BY <1>5 DEF vars, BudgetInv, Owned, Tried, Timely, Preparing, Noted, Sent, Covered, AtRisk,
     OnItsWay, HasReceipt, At, PaymentOf
<1> QED
  BY <1>1, <1>2, <1>3, <1>4, <1>5 DEF Next

LEMMA ExposureReserved == BudgetInv => ExposureWithinBudget
<1> SUFFICES ASSUME BudgetInv PROVE ExposureWithinBudget
  OBVIOUS
<1> DEFINE S == DOMAIN reservations
           T == Exposed
           f == [id \in S |-> reservations[id].fee]
<1>1. Typed(reservations) /\ Room(reservations)
  BY DEF BudgetInv, TypeOK, Typed
<1>2. T \subseteq S
  BY ChargeAssumption DEF BudgetInv, Covered, Exposed, Includable, AtRisk, OnItsWay, HasReceipt
<1>3. \A x \in T : f[x] = Fee[x] /\ Fee[x] \in Nat
  BY <1>2, ChargeAssumption DEF BudgetInv, Owned, Exposed
<1>4. /\ TotalFee(reservations) = SumFunctionOnSet(f, S) /\ Numbers(f, S)
      /\ IsFiniteSet(S) /\ Cardinality(S) <= MaxReservations /\ TotalFee(reservations) <= MaxTotalFee
  BY <1>1, FeeTerms DEF Room
<1> HIDE DEF S, T, f
<1>5. IsFiniteSet(T) /\ Cardinality(T) <= Cardinality(S) /\ T \in SUBSET S
  BY <1>2, <1>4, FS_Subset
<1>6. Cardinality(T) <= MaxReservations
  BY <1>4, <1>5, FS_CardinalityType, BudgetAssumption
<1>7. SumFunctionOnSet(f, T) <= SumFunctionOnSet(f, S)
  BY <1>4, <1>5, SumSubset
<1>8. Numbers(f, T) /\ Numbers(Fee, T)
  BY <1>3, <1>4, <1>5 DEF Numbers
<1>9. SumFunctionOnSet(Fee, T) = SumFunctionOnSet(f, T)
  BY <1>3, <1>5, <1>8, SumSame
<1>10. SumFunctionOnSet(f, T) \in Nat /\ SumFunctionOnSet(f, S) \in Nat
  BY <1>4, <1>5, <1>8, SumType
<1>11. SumFunctionOnSet(Fee, T) <= MaxTotalFee
  BY <1>4, <1>7, <1>9, <1>10, BudgetAssumption
<1> QED
  BY <1>6, <1>11 DEF ExposureWithinBudget, T

\* The fees a block may still cost stay within the budget, whatever became of
\* who sent the transactions (SponsorBudget.ts:123), when running servers
\* broadcast within their lease; charge_lease shows that they must.
THEOREM ExposureCovered ==
    ASSUME Prompt = TRUE
    PROVE  Spec => []ExposureWithinBudget
<1>1. Init => BudgetInv
  BY BudgetInit
<1>2. BudgetInv /\ TypeOK' /\ [Next]_vars => BudgetInv'
  BY BudgetStep
<1>3. BudgetInv => ExposureWithinBudget
  BY ExposureReserved
<1> QED
  BY <1>1, <1>2, <1>3, ChargeTyped, PTL DEF Spec
=============================================================================
