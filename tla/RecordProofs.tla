------------------------------ MODULE RecordProofs ------------------------------
(***************************************************************************)
(* What holds of the records that MCRecords runs, for any requests,        *)
(* streams, attempts, managers, top-ups and challenges: ProxyReplay,       *)
(* PrepaidRefund, ClientFunding, and the four together with                *)
(* SubscriptionStore, which has a module of its own.                       *)
(*                                                                         *)
(* ProxyReplay: who may start a delivery next is a token.  It is           *)
(* with a credential that has not paid, with the one request that          *)
(* delivers, or in the one outcome recorded of the last delivery, stored   *)
(* or still to arrive; no step makes a second one.                         *)
(*                                                                         *)
(* PrepaidRefund: the marker of a credit, or of a keyed charge, outlives   *)
(* whoever may repeat it, and the entry of what is owed is cleared only    *)
(* with the refund made, handed over, or not due.  Outside the channel     *)
(* each delivery returns what a closed channel captured of it when all     *)
(* else comes first, so together they stay within the capture.             *)
(*                                                                         *)
(* ClientFunding: who checks or waits for a deposit is the first on the    *)
(* funding lock, so nobody else has a deposit out.  One that stays unknown *)
(* is marked on the stored entry, which every write keeps.  Who checks     *)
(* after that reads the mark, unless its manager ignores the channel; and  *)
(* a channel is taken off the ignored ones only by a fetch that pays with  *)
(* it, which has seen that it was not one.                                 *)
(*                                                                         *)
(* Together: a behaviour of MCRecords is a behaviour of each of the parts, *)
(* so what holds of a part holds of it.                                    *)
(***************************************************************************)
EXTENDS MCRecords, SubscriptionStoreProofs, SumTheorems

(* Proxied deliveries *)

Request == [pc : {"idle", "claiming", "paying", "pending", "running", "retrying", "streaming",
                  "recording", "answered", "stopped"},
            attempt : 0 .. MaxDeliveries, outcome : Outcomes \cup {"none"}, now : Nat]

\* A request has an attempt when it delivers, an outcome when it has one.
Untried == \A r \in Presented :
    /\ presented[r].now <= proxyTime
    /\ presented[r].pc \in {"idle", "claiming", "paying"} => presented[r].attempt = 0
    /\ presented[r].pc \in {"idle", "claiming", "paying", "pending", "running", "streaming"} =>
          presented[r].outcome = "none"
    /\ Delivering(r) => presented[r].attempt >= 1

\* The record of a delivery that is over.
Over(v) == v.status \in Outcomes

\* The token is in one place.
OneToken ==
    /\ \A r \in Presented : Delivering(r) =>
          /\ redeemed /\ ~Over(kept)
          /\ \A v \in strays : ~Over(v)
          /\ \A s \in Presented \ {r} : ~Delivering(s)
    /\ Over(kept) => redeemed /\ \A v \in strays : ~Over(v)
    /\ \A v \in strays : Over(v) => redeemed /\ \A w \in strays : Over(w) => w = v

\* While a delivery stands no failure is recorded, and no other one stands.
Standing == \A r \in Presented : Stands(r) =>
    /\ redeemed /\ kept.status # "failed"
    /\ \A v \in strays : v.status # "failed"
    /\ \A s \in Presented \ {r} : ~Stands(s)

\* It counts the deliveries started.
Counted ==
    /\ runs <= MaxDeliveries
    /\ ~redeemed => runs = 0
    /\ \A r \in Presented : /\ On(r, "pending") => runs < presented[r].attempt
                            /\ Delivering(r) => runs <= presented[r].attempt
    /\ Over(kept) => runs <= kept.attempts
    /\ \A v \in strays : Over(v) => runs <= v.attempts

HasFailed(n) == \E s \in Presented :
    presented[s].attempt = n /\ presented[s].outcome = "failed" /\ ~Delivering(s)

\* What it says of a failure is true.
Followed ==
    /\ \A r \in Presented : presented[r].attempt > 1 => HasFailed(presented[r].attempt - 1)
    /\ kept.status = "failed" => HasFailed(kept.attempts)
    /\ \A v \in strays : v.status = "failed" => HasFailed(v.attempts)

ReplayInv == ReplayTypeOK /\ Untried /\ OneToken /\ Standing /\ Counted /\ Followed
-----------------------------------------------------------------------------
(* Replay of proxied deliveries *)

LEMMA ReplayTypes ==
    ReplayTypeOK <=> /\ proxyTime \in Nat /\ kept \in ReplayRecord /\ strays \subseteq ReplayRecord
                     /\ redeemed \in BOOLEAN /\ runs \in Nat /\ presented \in [Presented -> Request]
BY DEF ReplayTypeOK, Request

LEMMA ReplayTypesNext ==
    ReplayTypeOK' <=> /\ proxyTime' \in Nat /\ kept' \in ReplayRecord /\ strays' \subseteq ReplayRecord
                      /\ redeemed' \in BOOLEAN /\ runs' \in Nat /\ presented' \in [Presented -> Request]
BY DEF ReplayTypeOK, Request

\* A request goes on with attempt and outcome as they are.
Moves(r, pc) ==
    /\ presented' \in [Presented -> Request]
    /\ \A s \in Presented \ {r} : presented'[s] = presented[s]
    /\ presented'[r].pc = pc
    /\ presented'[r].attempt = presented[r].attempt
    /\ presented'[r].outcome = presented[r].outcome
    /\ presented'[r].now <= proxyTime

LEMMA GoMoves ==
    ASSUME ReplayInv, NEW r \in Presented,
           NEW pc \in {"running", "streaming", "answered", "stopped"}, Go(r, pc)
    PROVE  Moves(r, pc)
<1>1. presented \in [Presented -> Request] /\ presented[r].now <= proxyTime
  BY ReplayTypes DEF ReplayInv, Untried
<1> QED
  BY <1>1 DEF Go, Moves, Request

\* Steps that end a request, or that it takes before it has anything.
LEMMA QuietStep ==
    ASSUME ReplayInv, NEW r \in Presented,
           NEW pc \in {"claiming", "paying", "answered", "stopped"}, Moves(r, pc),
           pc \in {"claiming", "paying"} => presented[r].pc \in {"idle", "claiming"},
           UNCHANGED <<proxyTime, strays, redeemed, runs>>,
           kept' = kept \/ kept' = Nothing
    PROVE  ReplayInv'
<1> USE DEF ReplayInv
<1>1. ReplayTypeOK'
  <2>1. Nothing \in ReplayRecord
    BY ReplayAssumption DEF Nothing, ReplayRecord
  <2> QED
    BY <2>1, ReplayTypes, ReplayTypesNext DEF Moves
<1>2. ~Delivering(r)' /\ \A s \in Presented \ {r} : Delivering(s)' <=> Delivering(s)
  BY DEF Moves, Delivering
<1>3. kept' = Nothing => ~Over(kept')
  BY DEF Nothing, Over, Outcomes
<1>4. Untried'
  BY <1>2 DEF Untried, Moves
<1>5. OneToken'
  BY <1>2, <1>3 DEF OneToken, Over
<1>6. Counted'
  BY <1>2, <1>3 DEF Counted, Moves, On, Over
<1>7. Followed'
  <2>1. \A n : HasFailed(n) => HasFailed(n)'
    BY <1>2 DEF HasFailed, Moves
  <2> QED
    BY <2>1, <1>3 DEF Followed, Moves, Nothing
<1>8. Standing'
  <2>1. \A s \in Presented : Stands(s)' => Stands(s)
    BY <1>2 DEF Stands, Moves
  <2>2. kept'.status # "failed" \/ kept' = kept
    BY DEF Nothing
  <2> QED
    BY <2>1, <2>2 DEF Standing
<1> QED
  BY <1>1, <1>4, <1>5, <1>6, <1>7, <1>8

\* A request begins to deliver: it pays, or it claims the attempt after one
\* that failed.
LEMMA BeginStep ==
    ASSUME ReplayInv, NEW r \in Presented, NEW n \in 1 .. MaxDeliveries,
           presented[r].pc \in {"claiming", "paying"},
           presented' \in [Presented -> Request],
           \A s \in Presented \ {r} : presented'[s] = presented[s],
           presented'[r].pc = "pending", presented'[r].attempt = n,
           presented'[r].outcome = "none", presented'[r].now <= proxyTime,
           UNCHANGED <<proxyTime, strays, runs>>,
           redeemed' = TRUE, kept' \in ReplayRecord, kept'.status \in {"none", "pending"},
           \A s \in Presented : ~Delivering(s), \A v \in strays : ~Over(v),
           \A s \in Presented : ~Stands(s), runs < n, n > 1 => HasFailed(n - 1)
    PROVE  ReplayInv'
<1> USE DEF ReplayInv
<1>1. /\ proxyTime \in Nat /\ kept \in ReplayRecord /\ strays \subseteq ReplayRecord
      /\ redeemed \in BOOLEAN /\ runs \in Nat /\ MaxDeliveries \in Nat
  BY ReplayTypes, ReplayAssumption
<1>2. Delivering(r)' /\ \A s \in Presented \ {r} : ~Delivering(s)'
  BY DEF Delivering
<1>3. ~Over(kept') /\ kept'.status # "failed"
  BY DEF Over, Outcomes
<1>4. \A m : HasFailed(m) => HasFailed(m)'
  <2>1. presented[r].outcome = "none"
    BY DEF Untried
  <2> QED
    BY <1>2, <2>1 DEF HasFailed, Delivering
<1>5. ReplayTypeOK'
  BY <1>1, ReplayTypesNext
<1>6. Untried'
  BY <1>2 DEF Untried
<1>7. OneToken'
  BY <1>2, <1>3 DEF OneToken, Over
<1>8. Counted'
  BY <1>1, <1>2, <1>3 DEF Counted, On, Over
<1>9. Followed'
  BY <1>3, <1>4 DEF Followed
<1>10. Standing'
  <2>1. \A s \in Presented \ {r} : ~Stands(s)'
    BY <1>2 DEF Stands
  <2>2. \A v \in strays : v.status # "failed"
    BY DEF Over, Outcomes
  <2> QED
    BY <1>3, <2>1, <2>2 DEF Standing
<1> QED
  BY <1>5, <1>6, <1>7, <1>8, <1>9, <1>10

\* The clock as a request reads it, or forgets it.
LEMMA ReadMoves ==
    ASSUME ReplayInv, NEW r \in Presented, NEW pc \in {"claiming", "paying", "answered"},
           NEW now \in {0, proxyTime},
           presented' = [presented EXCEPT ![r] = [@ EXCEPT !.pc = pc, !.now = now]]
    PROVE  Moves(r, pc)
<1>1. presented \in [Presented -> Request] /\ presented[r] \in Request
  BY ReplayTypes DEF ReplayInv
<1>2. now \in Nat /\ now <= proxyTime
  BY ReplayTypes DEF ReplayInv
<1>3. presented'[r] = [presented[r] EXCEPT !.pc = pc, !.now = now]
  BY <1>1
<1>4. /\ presented'[r] \in Request /\ presented'[r].pc = pc /\ presented'[r].now = now
      /\ presented'[r].attempt = presented[r].attempt
      /\ presented'[r].outcome = presented[r].outcome
  BY <1>1, <1>2, <1>3 DEF Request
<1>5. \A s \in Presented \ {r} : presented'[s] = presented[s]
  BY <1>1
<1>6. presented' \in [Presented -> Request]
  BY <1>1, <1>3, <1>4
<1> QED
  BY <1>2, <1>4, <1>5, <1>6 DEF Moves

\* A request has the attempt it delivers.
LEMMA PendingMoves ==
    ASSUME ReplayInv, NEW r \in Presented, NEW n \in 1 .. MaxDeliveries,
           presented[r].outcome = "none",
           \/ presented' = [presented EXCEPT ![r] =
                              [@ EXCEPT !.pc = "pending", !.attempt = n, !.now = 0]]
           \/ presented' = [presented EXCEPT ![r] = [@ EXCEPT !.pc = "pending", !.attempt = n]]
    PROVE  /\ presented' \in [Presented -> Request]
           /\ \A s \in Presented \ {r} : presented'[s] = presented[s]
           /\ presented'[r].pc = "pending" /\ presented'[r].attempt = n
           /\ presented'[r].outcome = "none" /\ presented'[r].now <= proxyTime
<1>1. presented \in [Presented -> Request] /\ presented[r] \in Request
  BY ReplayTypes DEF ReplayInv
<1>2. presented[r].now <= proxyTime /\ 0 <= proxyTime
  BY ReplayTypes DEF ReplayInv, Untried
<1>3. \/ presented'[r] = [presented[r] EXCEPT !.pc = "pending", !.attempt = n, !.now = 0]
      \/ presented'[r] = [presented[r] EXCEPT !.pc = "pending", !.attempt = n]
  BY <1>1
<1>4. n \in 0 .. MaxDeliveries
  BY ReplayAssumption
<1>5. /\ presented'[r] \in Request /\ presented'[r].pc = "pending" /\ presented'[r].attempt = n
      /\ presented'[r].outcome = "none" /\ presented'[r].now \in {0, presented[r].now}
  <2>1. CASE presented'[r] = [presented[r] EXCEPT !.pc = "pending", !.attempt = n, !.now = 0]
    <3>1. presented'[r] = [pc |-> "pending", attempt |-> n, outcome |-> "none", now |-> 0]
      BY <1>1, <2>1 DEF Request
    <3> QED
      BY <1>4, <3>1 DEF Request
  <2>2. CASE presented'[r] = [presented[r] EXCEPT !.pc = "pending", !.attempt = n]
    BY <1>1, <1>4, <2>2 DEF Request
  <2> QED
    BY <1>3, <2>1, <2>2
<1>6. \A s \in Presented \ {r} : presented'[s] = presented[s]
  BY <1>1
<1>7. presented' \in [Presented -> Request]
  BY <1>1, <1>5
<1> QED
  BY <1>2, <1>5, <1>6, <1>7

LEMMA LookupStep ==
    ASSUME ReplayInv, NEW r \in Presented, Lookup(r)
    PROVE  ReplayInv'
<1>1. PICK pc \in {"claiming", "paying", "answered"}, now \in {0, proxyTime} :
         presented' = [presented EXCEPT ![r] = [@ EXCEPT !.pc = pc, !.now = now]]
  <2> DEFINE to  == IF kept = Nothing THEN "paying"
                    ELSE IF ~IsOver(kept, proxyTime) /\ kept.status # "failed" THEN "answered"
                    ELSE "claiming"
             now == IF to = "claiming" THEN proxyTime ELSE 0
  <2>1. presented' = [presented EXCEPT ![r] = [@ EXCEPT !.pc = to, !.now = now]]
    BY DEF Lookup
  <2>2. to \in {"claiming", "paying", "answered"} /\ now \in {0, proxyTime}
    OBVIOUS
  <2> HIDE DEF to, now
  <2> QED
    BY <2>1, <2>2
<1>2. Moves(r, pc)
  BY <1>1, ReadMoves
<1>3. presented[r].pc = "idle"
  BY DEF Lookup, On
<1> QED
  BY <1>2, <1>3, QuietStep DEF Lookup

LEMMA ClaimStep ==
    ASSUME ReplayInv, NEW r \in Presented, claim(r)
    PROVE  ReplayInv'
<1>1. /\ presented \in [Presented -> Request] /\ proxyTime \in Nat /\ kept \in ReplayRecord
      /\ MaxDeliveries \in Nat /\ presented[r].pc = "claiming" /\ presented[r].outcome = "none"
  BY ReplayTypes, ReplayAssumption DEF ReplayInv, Untried, claim, On
<1>2. ASSUME NEW pc \in {"paying", "answered"},
             presented' = [presented EXCEPT ![r] = [@ EXCEPT !.pc = pc, !.now = 0]]
      PROVE  Moves(r, pc)
  BY <1>2, ReadMoves
<1>3. CASE kept' = kept \/ kept' = Nothing
  <2>1. kept' # [kept EXCEPT !.status = "pending", !.attempts = @ + 1] \/ ~MayRun(kept)
    <3>1. [kept EXCEPT !.status = "pending", !.attempts = @ + 1].status = "pending"
      BY <1>1 DEF ReplayRecord
    <3>2. Nothing.status # "pending" /\ (MayRun(kept) => kept.status # "pending")
      BY DEF MayRun, Nothing
    <3> QED
      BY <1>3, <3>1, <3>2
  <2>2. PICK pc \in {"paying", "answered"} :
           presented' = [presented EXCEPT ![r] = [@ EXCEPT !.pc = pc, !.now = 0]]
    BY <2>1 DEF claim
  <2>3. Moves(r, pc)
    BY <1>2, <2>2
  <2> QED
    BY <1>1, <1>3, <2>3, QuietStep DEF claim
<1>4. CASE kept' # kept /\ kept' # Nothing
  <2>1. /\ kept.status = "failed" /\ kept.attempts < MaxDeliveries
        /\ kept' = [kept EXCEPT !.status = "pending", !.attempts = @ + 1]
        /\ \/ presented' = [presented EXCEPT ![r] =
                  [@ EXCEPT !.pc = "pending", !.attempt = kept.attempts + 1, !.now = 0]]
           \/ presented' = [presented EXCEPT ![r] = [@ EXCEPT !.pc = "answered", !.now = 0]]
        /\ UNCHANGED <<proxyTime, strays, redeemed, runs>>
    BY <1>4 DEF claim, MayRun
  <2>2. /\ kept' \in ReplayRecord /\ kept'.status = "pending"
        /\ kept.attempts + 1 \in 1 .. MaxDeliveries /\ kept.attempts \in Nat
    <3>1. /\ kept.attempts \in 0 .. MaxDeliveries /\ kept.expires \in Nat
          /\ kept = [status |-> kept.status, attempts |-> kept.attempts, expires |-> kept.expires]
      BY <1>1 DEF ReplayRecord
    <3>2. kept.attempts \in Nat /\ kept.attempts + 1 \in 1 .. MaxDeliveries
          /\ kept.attempts + 1 \in 0 .. MaxDeliveries
      BY <1>1, <2>1, <3>1
    <3>3. kept' = [status |-> "pending", attempts |-> kept.attempts + 1, expires |-> kept.expires]
      BY <2>1, <3>1
    <3> QED
      BY <3>1, <3>2, <3>3 DEF ReplayRecord
  <2>3. /\ redeemed' = TRUE /\ redeemed
        /\ \A s \in Presented : ~Delivering(s)
        /\ \A v \in strays : ~Over(v)
        /\ \A s \in Presented : ~Stands(s)
        /\ runs <= kept.attempts /\ HasFailed(kept.attempts)
    BY <2>1 DEF ReplayInv, OneToken, Standing, Counted, Followed, Over, Outcomes
  <2>4. runs \in Nat /\ (kept.attempts + 1) - 1 = kept.attempts
    BY <2>2, ReplayTypes DEF ReplayInv
  <2>5. CASE presented' = [presented EXCEPT ![r] =
                  [@ EXCEPT !.pc = "pending", !.attempt = kept.attempts + 1, !.now = 0]]
    <3>1. /\ presented' \in [Presented -> Request]
          /\ \A s \in Presented \ {r} : presented'[s] = presented[s]
          /\ presented'[r].pc = "pending" /\ presented'[r].attempt = kept.attempts + 1
          /\ presented'[r].outcome = "none" /\ presented'[r].now <= proxyTime
      BY <1>1, <2>2, <2>5, PendingMoves
    <3>2. runs < kept.attempts + 1 /\ HasFailed((kept.attempts + 1) - 1)
      BY <2>2, <2>3, <2>4
    <3> QED
      BY <1>1, <2>1, <2>2, <2>3, <3>1, <3>2, BeginStep
  <2>6. CASE presented' = [presented EXCEPT ![r] = [@ EXCEPT !.pc = "answered", !.now = 0]]
    <3> USE DEF ReplayInv
    <3>1. Moves(r, "answered")
      BY <1>2, <2>6
    <3>2. \A s \in Presented : ~Delivering(s)'
      BY <2>3, <3>1 DEF Moves, Delivering
    <3>3. ~Over(kept')
      BY <2>2 DEF Over, Outcomes
    <3>4. ReplayTypeOK' /\ Untried'
      BY <2>1, <2>2, <3>1, <3>2, ReplayTypes, ReplayTypesNext DEF Moves, Untried
    <3>5. OneToken'
      BY <2>1, <2>3, <3>2, <3>3 DEF OneToken, Over
    <3>6. Counted'
      BY <2>1, <3>1, <3>2, <3>3 DEF Counted, Over, Moves, On
    <3>7. Followed'
      <4>1. \A m : HasFailed(m) => HasFailed(m)'
        BY <3>1, <3>2 DEF HasFailed, Moves
      <4> QED
        BY <2>1, <2>2, <3>1, <4>1 DEF Followed, Moves
    <3>8. Standing'
      <4>1. \A s \in Presented : ~Stands(s)'
        BY <2>3, <3>1, <3>2 DEF Stands, Moves
      <4> QED
        BY <4>1 DEF Standing
    <3> QED
      BY <3>4, <3>5, <3>6, <3>7, <3>8
  <2> QED
    BY <2>1, <2>5, <2>6
<1> QED
  BY <1>3, <1>4

LEMMA PayStep ==
    ASSUME ReplayInv, NEW r \in Presented, pay(r)
    PROVE  ReplayInv'
<1>1. /\ presented \in [Presented -> Request] /\ kept \in ReplayRecord /\ redeemed \in BOOLEAN
      /\ proxyTime \in Nat
      /\ presented[r].pc = "paying" /\ presented[r].outcome = "none" /\ presented[r].now <= proxyTime
  BY ReplayTypes DEF ReplayInv, Untried, pay, On
<1>2. CASE redeemed
  <2>1. presented' = [presented EXCEPT ![r] = [@ EXCEPT !.pc = "answered"]]
    BY <1>2 DEF pay
  <2>2. Moves(r, "answered")
    BY <1>1, <2>1 DEF Moves, Request
  <2> QED
    BY <1>2, <2>2, QuietStep DEF pay
<1>3. CASE ~redeemed
  <2>1. presented' = [presented EXCEPT ![r] = [@ EXCEPT !.pc = "pending", !.attempt = 1]]
    BY <1>3 DEF pay
  <2>2. 1 \in 1 .. MaxDeliveries
    BY ReplayAssumption
  <2>3. /\ presented' \in [Presented -> Request]
        /\ \A s \in Presented \ {r} : presented'[s] = presented[s]
        /\ presented'[r].pc = "pending" /\ presented'[r].attempt = 1
        /\ presented'[r].outcome = "none" /\ presented'[r].now <= proxyTime
    BY <1>1, <2>1, <2>2, PendingMoves
  <2>4. /\ \A s \in Presented : ~Delivering(s)
        /\ \A v \in strays : ~Over(v)
        /\ \A s \in Presented : ~Stands(s)
        /\ ~Over(kept) /\ runs = 0
    BY <1>3 DEF ReplayInv, OneToken, Standing, Counted
  <2>5. kept.status \in {"none", "pending"}
    BY <1>1, <2>4 DEF Over, ReplayRecord
  <2> QED
    BY <1>1, <2>2, <2>3, <2>4, <2>5, BeginStep DEF pay
<1> QED
  BY <1>1, <1>2, <1>3

LEMMA DeliverStep ==
    ASSUME ReplayInv, NEW r \in Presented, deliver(r)
    PROVE  ReplayInv'
<1> DEFINE value == OutcomeRecord(r, "pending")
<1>1. /\ presented \in [Presented -> Request] /\ kept \in ReplayRecord /\ redeemed \in BOOLEAN
      /\ proxyTime \in Nat /\ strays \subseteq ReplayRecord /\ runs \in Nat
      /\ MaxDeliveries \in Nat /\ Ttl \in Nat
  BY ReplayTypes, ReplayAssumption DEF ReplayInv
<1>2. presented[r].attempt \in 0 .. MaxDeliveries /\ runs < presented[r].attempt
  BY <1>1 DEF ReplayInv, Counted, deliver, Request
<1>3. value \in ReplayRecord /\ ~Over(value) /\ value.status = "pending"
  BY <1>1, <1>2 DEF OutcomeRecord, ReplayRecord, Over, Outcomes
<1>4. Moves(r, "running") /\ Delivering(r)
  BY GoMoves DEF deliver, On, Delivering
<1>5. kept' \in {kept, value} /\ strays' \in {strays, strays \cup {value}}
  BY DEF deliver, record
<1>6. UNCHANGED <<proxyTime, redeemed>> /\ runs' = runs + 1
  BY DEF deliver
<1> HIDE DEF value
<1> USE DEF ReplayInv
<1>7. Delivering(r)' /\ \A s \in Presented \ {r} : ~Delivering(s)'
  BY <1>4 DEF Moves, Delivering, OneToken
<1>8. redeemed' /\ ~Over(kept') /\ \A v \in strays' : ~Over(v)
  BY <1>3, <1>4, <1>5, <1>6 DEF OneToken
<1>9. ReplayTypeOK' /\ Untried'
  <2>1. ReplayTypeOK'
    BY <1>1, <1>3, <1>4, <1>5, <1>6, ReplayTypesNext DEF Moves
  <2>2. Untried'
    BY <1>2, <1>4, <1>6, <1>7 DEF Moves, Untried, deliver, On
  <2> QED
    BY <2>1, <2>2
<1>10. OneToken'
  BY <1>7, <1>8 DEF OneToken, Over
<1>11. Counted'
  <2>1. presented'[r].pc = "running" /\ presented'[r].attempt = presented[r].attempt
    BY <1>4 DEF Moves
  <2>2. runs + 1 <= presented[r].attempt /\ runs + 1 <= MaxDeliveries
    BY <1>1, <1>2
  <2>3. \A s \in Presented \ {r} : ~On(s, "pending")'
    BY <1>7 DEF On, Delivering
  <2> QED
    BY <1>6, <1>7, <1>8, <2>1, <2>2, <2>3 DEF Counted, On, Over
<1>12. Followed'
  <2>1. \A m : HasFailed(m) => HasFailed(m)'
    BY <1>4, <1>7 DEF HasFailed, Moves
  <2> QED
    BY <1>3, <1>4, <1>5, <2>1 DEF Followed, Moves
<1>13. Standing'
  <2>1. Stands(r) /\ \A s \in Presented \ {r} : Stands(s)' => Stands(s)
    BY <1>4, <1>7 DEF Stands, Moves
  <2>2. kept'.status # "failed" /\ \A v \in strays' : v.status # "failed"
    BY <1>8 DEF Over, Outcomes
  <2> QED
    BY <1>6, <2>1, <2>2 DEF Standing
<1> QED
  BY <1>9, <1>10, <1>11, <1>12, <1>13

\* The delivery goes on to its end: the upstream request is made again, its
\* answer is a body, or an outcome is known.
LEMMA GoesOn ==
    ASSUME ReplayInv, NEW r \in Presented, presented[r].pc \in {"running", "retrying", "streaming"},
           NEW outcome \in Outcomes \cup {"none"},
           NEW pc \in {"running", "retrying", "streaming", "recording"},
           pc \in {"running", "streaming"} => outcome = "none",
           presented' = [presented EXCEPT ![r] = [@ EXCEPT !.pc = pc, !.outcome = outcome]],
           UNCHANGED <<proxyTime, kept, strays, redeemed, runs>>
    PROVE  ReplayInv'
<1> USE DEF ReplayInv
<1>1. presented \in [Presented -> Request]
  BY ReplayTypes
<1>2. /\ presented' \in [Presented -> Request]
      /\ \A s \in Presented \ {r} : presented'[s] = presented[s]
      /\ presented'[r].pc = pc /\ presented'[r].attempt = presented[r].attempt
      /\ presented'[r].outcome = outcome /\ presented'[r].now = presented[r].now
  BY <1>1 DEF Request
<1>3. Delivering(r) /\ \A s \in Presented : Delivering(s)' <=> Delivering(s)
  BY <1>2 DEF Delivering
<1>4. ReplayTypeOK'
  BY <1>2, ReplayTypes, ReplayTypesNext
<1>5. Untried'
  BY <1>2, <1>3 DEF Untried
<1>6. OneToken'
  BY <1>3 DEF OneToken, Over
<1>7. Counted'
  BY <1>2, <1>3 DEF Counted, On, Over
<1>8. Followed'
  <2>1. \A m : HasFailed(m) => HasFailed(m)'
    BY <1>2, <1>3 DEF HasFailed
  <2> QED
    BY <1>2, <2>1 DEF Followed
<1>9. Standing'
  <2>1. Stands(r) /\ \A s \in Presented \ {r} : Stands(s)' => Stands(s)
    BY <1>2, <1>3 DEF Stands
  <2> QED
    BY <2>1 DEF Standing
<1> QED
  BY <1>4, <1>5, <1>6, <1>7, <1>8, <1>9

LEMMA RecordOutcomeStep ==
    ASSUME ReplayInv, NEW r \in Presented, recordOutcome(r)
    PROVE  ReplayInv'
<1> DEFINE value == OutcomeRecord(r, presented[r].outcome)
<1>1. /\ presented \in [Presented -> Request] /\ kept \in ReplayRecord /\ redeemed \in BOOLEAN
      /\ proxyTime \in Nat /\ strays \subseteq ReplayRecord /\ runs \in Nat /\ Ttl \in Nat
  BY ReplayTypes, ReplayAssumption DEF ReplayInv
<1>2. /\ value \in ReplayRecord /\ value.status = presented[r].outcome
      /\ value.attempts = presented[r].attempt
  BY <1>1 DEF OutcomeRecord, ReplayRecord, Request
<1>3. Moves(r, "answered") /\ Delivering(r)
  BY GoMoves DEF recordOutcome, On, Delivering
<1>4. \/ kept' = value /\ strays' = strays
      \/ kept' = kept /\ strays' \in {strays, strays \cup {value}}
  BY DEF recordOutcome, record
<1>5. UNCHANGED <<proxyTime, redeemed, runs>>
  BY DEF recordOutcome
<1> HIDE DEF value
<1> USE DEF ReplayInv
<1>6. \A s \in Presented : ~Delivering(s)'
  BY <1>3 DEF Moves, Delivering, OneToken
<1>7. redeemed /\ ~Over(kept) /\ \A v \in strays : ~Over(v)
  BY <1>3 DEF OneToken
<1>8. ReplayTypeOK'
  BY <1>1, <1>2, <1>3, <1>4, <1>5, ReplayTypesNext DEF Moves
<1>9. Untried'
  BY <1>3, <1>5, <1>6 DEF Untried, Moves
<1>10. OneToken'
  BY <1>4, <1>5, <1>6, <1>7 DEF OneToken, Over
<1>11. Counted'
  <2>1. runs <= value.attempts
    BY <1>2, <1>3 DEF Counted
  <2>2. \A s \in Presented : ~On(s, "pending")'
    BY <1>6 DEF On, Delivering
  <2> QED
    BY <1>4, <1>5, <1>6, <2>1, <2>2 DEF Counted, Over
<1>12. Followed'
  <2> DEFINE After(n) == \E s \in Presented : /\ presented'[s].attempt = n
                                              /\ presented'[s].outcome = "failed"
                                              /\ ~Delivering(s)'
  <2>1. \A n : HasFailed(n) => After(n)
    BY <1>3, <1>6 DEF HasFailed, Moves
  <2>2. value.status = "failed" => After(value.attempts)
    BY <1>2, <1>3, <1>6 DEF Moves
  <2>3. kept.status # "failed" /\ \A v \in strays : v.status # "failed"
    BY <1>7 DEF Over, Outcomes
  <2> HIDE DEF After
  <2>4. \A s \in Presented : presented'[s].attempt > 1 => After(presented'[s].attempt - 1)
    BY <1>3, <2>1 DEF Followed, Moves
  <2>5. kept'.status = "failed" => After(kept'.attempts)
    BY <1>4, <2>2, <2>3
  <2>6. \A v \in strays' : v.status = "failed" => After(v.attempts)
    BY <1>4, <2>2, <2>3
  <2> QED
    BY <2>4, <2>5, <2>6 DEF Followed, HasFailed, After
<1>13. Standing'
  <2>1. Stands(r) /\ \A s \in Presented \ {r} : ~Stands(s)
    BY <1>3 DEF Stands, Standing
  <2>2. /\ \A s \in Presented \ {r} : ~Stands(s)'
        /\ Stands(r)' => value.status # "failed"
    BY <1>2, <1>3, <1>6, <2>1 DEF Stands, Moves
  <2>3. kept.status # "failed" /\ \A v \in strays : v.status # "failed"
    BY <2>1 DEF Standing
  <2> QED
    BY <1>4, <1>5, <1>7, <2>2, <2>3 DEF Standing
<1> QED
  BY <1>8, <1>9, <1>10, <1>11, <1>12, <1>13

\* A write that failed arrives after all.
LEMMA ArriveStep ==
    ASSUME ReplayInv, Arrive
    PROVE  ReplayInv'
<1> USE DEF ReplayInv
<1>1. PICK value \in strays : kept' = value /\ strays' = strays \ {value}
  BY DEF Arrive
<1>2. UNCHANGED <<proxyTime, redeemed, runs, presented>>
  BY DEF Arrive
<1>3. ReplayTypeOK'
  BY <1>1, <1>2, ReplayTypes, ReplayTypesNext
<1>4. Untried'
  BY <1>2 DEF Untried, Delivering
<1>5. OneToken'
  BY <1>1, <1>2 DEF OneToken, Over, Delivering
<1>6. Counted'
  BY <1>1, <1>2 DEF Counted, Over, Delivering, On
<1>7. Followed'
  BY <1>1, <1>2 DEF Followed, HasFailed, Delivering
<1>8. Standing'
  <2>1. \A r \in Presented : Stands(r)' <=> Stands(r)
    BY <1>2 DEF Stands, Delivering
  <2> QED
    BY <1>1, <1>2, <2>1 DEF Standing
<1> QED
  BY <1>3, <1>4, <1>5, <1>6, <1>7, <1>8

LEMMA ReplayStepInv ==
    ASSUME ReplayInv, [ReplayNext]_replayVars
    PROVE  ReplayInv'
<1>1. ASSUME NEW r \in Presented, ReplayStep(r)
      PROVE  ReplayInv'
  <2>1. CASE Lookup(r)
    BY <2>1, LookupStep
  <2>2. CASE claim(r)
    BY <2>2, ClaimStep
  <2>3. CASE pay(r)
    BY <2>3, PayStep
  <2>4. CASE deliver(r)
    BY <2>4, DeliverStep
  <2>5. CASE Respond(r)
    <3>1. presented \in [Presented -> Request]
      BY ReplayTypes DEF ReplayInv
    <3>2. presented[r].pc = "running" /\ presented[r].outcome = "none"
      BY <2>5 DEF Respond, On, ReplayInv, Untried
    <3>3. CASE Go(r, "streaming")
      <4>1. presented[r] \in Request
        BY <3>1
      <4>2. [presented[r] EXCEPT !.pc = "streaming"] =
               [presented[r] EXCEPT !.pc = "streaming", !.outcome = "none"]
        BY <3>2, <4>1 DEF Request
      <4>3. presented' = [presented EXCEPT ![r] = [@ EXCEPT !.pc = "streaming", !.outcome = "none"]]
        BY <3>3, <4>2 DEF Go
      <4> QED
        BY <2>5, <3>2, <4>3, GoesOn DEF Respond
    <3>4. CASE \E outcome \in Outcomes :
                  presented' = [presented EXCEPT ![r] =
                                  [@ EXCEPT !.pc = "recording", !.outcome = outcome]]
      BY <2>5, <3>2, <3>4, GoesOn DEF Respond
    <3> QED
      BY <2>5, <3>3, <3>4 DEF Respond
  <2>6. CASE keep(r)
    BY <2>6, GoesOn DEF keep, On
  <2>7. CASE recordOutcome(r)
    BY <2>7, RecordOutcomeStep
  <2>8. CASE StopServer(r)
    BY <2>8, GoMoves, QuietStep DEF StopServer
  <2>9. CASE onUpstreamError(r)
    BY <2>9, GoesOn DEF onUpstreamError, On, Outcomes
  <2>10. CASE waitForRetry(r)
    BY <2>10, GoesOn DEF waitForRetry, On, Outcomes
  <2> QED
    BY <1>1, <2>1, <2>2, <2>3, <2>4, <2>5, <2>6, <2>7, <2>8, <2>9, <2>10 DEF ReplayStep
<1>2. CASE Arrive
  BY <1>2, ArriveStep
<1>3. CASE ProxyTick
  <2> USE DEF ReplayInv
  <2>1. proxyTime \in Nat /\ proxyTime' = proxyTime + 1
        /\ UNCHANGED <<kept, strays, redeemed, runs, presented>>
    BY <1>3, ReplayTypes DEF ProxyTick
  <2>2. ReplayTypeOK'
    BY <2>1, ReplayTypes, ReplayTypesNext
  <2>3. \A r \in Presented : presented[r].now \in Nat /\ presented[r].now <= proxyTime
    BY ReplayTypes DEF Untried, Request
  <2>4. \A r \in Presented : presented'[r].now <= proxyTime'
    BY <2>1, <2>3
  <2>5. Untried'
    BY <2>1, <2>4 DEF Untried, Delivering
  <2>6. OneToken' /\ Standing' /\ Counted' /\ Followed'
    BY <2>1 DEF OneToken, Standing, Stands, Counted, Followed, HasFailed, Over, Delivering, On
  <2> QED
    BY <2>2, <2>5, <2>6
<1>4. CASE UNCHANGED replayVars
  BY <1>4 DEF replayVars, ReplayInv, ReplayTypeOK, Untried, OneToken, Standing, Stands, Counted,
              Followed, HasFailed, Over, Delivering, On
<1> QED
  BY <1>1, <1>2, <1>3, <1>4 DEF ReplayNext

\* What a request holds at first.
LEMMA ReplayInitInv ==
    ASSUME ReplayInit
    PROVE  ReplayInv
<1>1. /\ proxyTime = 0 /\ kept = Nothing /\ strays = {} /\ redeemed = FALSE /\ runs = 0
      /\ \A r \in Presented :
            /\ presented[r].pc = "idle" /\ presented[r].attempt = 0
            /\ presented[r].outcome = "none" /\ presented[r].now = 0
  BY DEF ReplayInit
<1>2. ReplayTypeOK
  <2>1. Nothing \in ReplayRecord
    BY ReplayAssumption DEF Nothing, ReplayRecord
  <2>2. [pc |-> "idle", attempt |-> 0, outcome |-> "none", now |-> 0] \in Request
    BY ReplayAssumption DEF Request
  <2>3. presented \in [Presented -> Request]
    BY <2>2 DEF ReplayInit
  <2> QED
    BY <1>1, <2>1, <2>3, ReplayTypes
<1>3. ~Over(kept) /\ kept.status # "failed"
  BY <1>1 DEF Nothing, Over, Outcomes
<1>4. \A r \in Presented : ~Delivering(r)
  BY <1>1 DEF Delivering
<1>5. Untried /\ OneToken /\ Standing
  BY <1>1, <1>3, <1>4 DEF Untried, OneToken, Standing, Stands
<1>6. Counted /\ Followed
  BY <1>1, <1>3, <1>4, ReplayAssumption DEF Counted, Followed, On
<1> QED
  BY <1>2, <1>5, <1>6 DEF ReplayInv

LEMMA ReplaySafe == ReplaySpec => []ReplayInv
<1>1. ReplayInit => ReplayInv
  BY ReplayInitInv
<1>2. ReplayInv /\ [ReplayNext]_replayVars => ReplayInv'
  BY ReplayStepInv
<1> QED
  BY <1>1, <1>2, PTL DEF ReplaySpec

\* RunsInOrder holds for any number of requests with one credential, however
\* often onUpstreamError repeats the upstream request within a delivery
\* (Proxy.ts:360): at most one delivery runs at a time, another one follows only
\* one that was seen to fail (Replay.ts:160, lookup; 219, deliver), and there
\* are at most maxAttempts, whichever writes are lost, late or expired.
THEOREM RequestsRunInOrder == ReplaySpec => []RunsInOrder
<1>1. ReplayInv => RunsInOrder
  BY DEF ReplayInv, Standing, Counted, Followed, HasFailed, RunsInOrder
<1> QED
  BY <1>1, ReplaySafe, PTL

\* CompleteIsKept holds for any number of requests: a recorded response is
\* neither dropped by a request that read the clock earlier nor overwritten by
\* the outcome of another attempt, as none can be under way.
THEOREM ResponseIsKept == ReplaySpec => CompleteIsKept
<1> DEFINE Keeps == kept.status = "complete" /\ kept.expires > proxyTime /\ strays' = strays =>
                      kept' = kept
<1>1. ASSUME ReplayInv, [ReplayNext]_replayVars, kept.status = "complete",
             kept.expires > proxyTime, strays' = strays
      PROVE  kept' = kept
  <2>1. Over(kept) /\ kept # Nothing /\ kept.status # "failed"
    BY <1>1 DEF Over, Outcomes, Nothing
  <2>2. \A r \in Presented : ~Delivering(r)
    BY <1>1, <2>1 DEF ReplayInv, OneToken
  <2>3. ASSUME NEW r \in Presented, ReplayStep(r)
        PROVE  kept' = kept
    <3>1. CASE claim(r)
      <4>1. /\ presented[r].now <= proxyTime /\ presented[r].now \in Nat
            /\ proxyTime \in Nat /\ kept.expires \in Nat
        BY <1>1, ReplayTypes DEF ReplayInv, Untried, Request, ReplayRecord
      <4>2. ~IsOver(kept, presented[r].now)
        BY <1>1, <4>1 DEF IsOver
      <4>3. ~MayRun(kept)
        BY <2>1 DEF MayRun
      <4> QED
        BY <2>1, <3>1, <4>2, <4>3 DEF claim
    <3>2. CASE deliver(r) \/ recordOutcome(r)
      BY <2>2, <3>2 DEF deliver, recordOutcome, On, Delivering
    <3>3. CASE Lookup(r) \/ pay(r) \/ onUpstreamError(r) \/ waitForRetry(r) \/ Respond(r)
               \/ keep(r) \/ StopServer(r)
      BY <3>3 DEF Lookup, pay, onUpstreamError, waitForRetry, Respond, keep, StopServer
    <3> QED
      BY <2>3, <3>1, <3>2, <3>3 DEF ReplayStep
  <2>4. CASE Arrive
    BY <1>1, <2>4 DEF Arrive
  <2>5. CASE ProxyTick \/ UNCHANGED replayVars
    BY <2>5 DEF ProxyTick, replayVars
  <2> QED
    BY <1>1, <2>3, <2>4, <2>5 DEF ReplayNext
<1>2. ReplayInv /\ [ReplayNext]_replayVars => [Keeps]_replayVars
  BY <1>1
<1> QED
  BY <1>2, ReplaySafe, PTL DEF ReplaySpec, CompleteIsKept
-----------------------------------------------------------------------------
(* Refunds of prepaid streams *)

Account ==
    [spent : Nat, settled : Nat, closing : BOOLEAN, finalized : BOOLEAN,
     markers : [Keys -> [outcome : CreditOutcome \cup {"none", "charged"}, expiresAt : Nat]],
     prepaidRefunds : [Deliveries -> [status : {"none", "pending", "failed"},
                                      units : Nat, createdAt : Nat]],
     credited : [Deliveries -> Nat], charges : Nat]

Serve ==
    [pc : {"idle", "charged", "streaming", "finishing", "marking", "crediting", "hook",
           "clearing", "over"},
     prepaid : Nat, undelivered : Nat, awaiting : Nat,
     failed : BOOLEAN, external : Nat, late : BOOLEAN, now : Nat]

KeyedCall == [pc : {"idle", "sent", "charged", "refused", "lost"}, now : Nat]
Handed == [job : {"none", "transfer", "reconcile"}, transferred : Nat]

\* A delivery that may not have failed has no refund anywhere.
Early == {"idle", "charged", "streaming", "finishing", "marking"}

Unmarked(d) ==
    /\ serves[d].pc \in Early \cup {"crediting"} =>
          merchant[d].job = "none" /\ ~serves[d].late /\ serves[d].external = 0
    /\ serves[d].pc \in Early =>
          account.credited[d] = 0 /\ account.prepaidRefunds[d].status # "failed"

\* A retry of a failed entry starts from a time before the delivery's own.
Dated(d) ==
    /\ serves[d].now <= refundTime
    /\ account.prepaidRefunds[d].createdAt <= refundTime
    /\ account.prepaidRefunds[d].status = "failed" =>
          account.prepaidRefunds[d].createdAt <= serves[d].now

\* What was credited is what was not delivered, and its marker is kept for as
\* long as somebody may send the credit again.
Credited(d) ==
    /\ account.credited[d] \in {0, serves[d].undelivered}
    /\ account.markers[d].outcome = "credited" => account.credited[d] = serves[d].undelivered
    /\ account.markers[d].outcome = "finalized" => account.finalized
    /\ account.credited[d] # 0 /\ InTime(d) =>
          /\ account.markers[d].outcome = "credited"
          /\ account.markers[d].expiresAt >= serves[d].now + Retention

\* Outside the channel only what a closed channel did not credit is returned.
Outside(d) ==
    /\ serves[d].external <= serves[d].undelivered
    /\ serves[d].external > 0 =>
          /\ account.finalized /\ account.credited[d] = 0
          /\ serves[d].external <= account.settled - account.spent + serves[d].undelivered
    /\ merchant[d].transferred <= serves[d].external

\* The channel closed without capturing the delivery.
NothingCaptured(d) == account.finalized /\ externalRefundAmount(serves[d].undelivered) = 0

\* An obligation is cleared for a reason.
Owed(d) ==
    /\ At(d, "streaming") => account.prepaidRefunds[d] # NoObligation
    /\ serves[d].failed => serves[d].pc \notin {"idle", "charged", "streaming", "finishing"}
    /\ serves[d].failed /\ serves[d].undelivered > 0 =>
          \/ account.credited[d] > 0 \/ merchant[d].job # "none" \/ NothingCaptured(d)
          \/ account.prepaidRefunds[d] # NoObligation /\ ~At(d, "clearing")

DeliveryInv(d) == Unmarked(d) /\ Dated(d) /\ Credited(d) /\ Outside(d) /\ Owed(d)

\* The marker of a charge is kept for as long as it may be attempted again.
ChargeKept(a) ==
    /\ keyedCalls[a].pc # "idle"
    /\ refundTime < keyedCalls[a].now + Retention =>
          /\ account.markers[ChargeKey].expiresAt = keyedCalls[a].now + Retention
          /\ account.markers[ChargeKey] # FreeKey

ChargeInv ==
    /\ account.charges <= 1
    /\ account.markers[ChargeKey] # FreeKey => account.charges = 1
    /\ \A a \in Attempts : /\ keyedCalls[a].now <= refundTime
                           /\ keyedCalls[a].pc = "charged" => account.charges = 1
    /\ account.charges = 1 => \E a \in Attempts : ChargeKept(a)

RefundInv == RefundTypeOK /\ (\A d \in Deliveries : DeliveryInv(d)) /\ ChargeInv
-----------------------------------------------------------------------------
LEMMA RefundTypes ==
    RefundTypeOK <=> /\ refundTime \in Nat /\ account \in Account
                     /\ serves \in [Deliveries -> Serve]
                     /\ keyedCalls \in [Attempts -> KeyedCall]
                     /\ merchant \in [Deliveries -> Handed]
BY DEF RefundTypeOK, Account, Serve, KeyedCall, Handed

LEMMA RefundTypesNext ==
    RefundTypeOK' <=> /\ refundTime' \in Nat /\ account' \in Account
                      /\ serves' \in [Deliveries -> Serve]
                      /\ keyedCalls' \in [Attempts -> KeyedCall]
                      /\ merchant' \in [Deliveries -> Handed]
BY DEF RefundTypeOK, Account, Serve, KeyedCall, Handed

\* What a type-correct state holds of one delivery.
LEMMA RefundParts ==
    ASSUME RefundTypeOK, NEW d \in Deliveries
    PROVE  /\ refundTime \in Nat /\ Retention \in Nat \ {0}
           /\ account.spent \in Nat /\ account.settled \in Nat /\ account.charges \in Nat
           /\ account.closing \in BOOLEAN /\ account.finalized \in BOOLEAN
           /\ account.credited[d] \in Nat
           /\ account.markers[d].expiresAt \in Nat
           /\ account.prepaidRefunds[d].createdAt \in Nat
           /\ serves[d] \in Serve
           /\ serves[d].undelivered \in Nat /\ serves[d].external \in Nat /\ serves[d].now \in Nat
           /\ serves[d].failed \in BOOLEAN /\ serves[d].late \in BOOLEAN
           /\ merchant[d].transferred \in Nat
BY RefundTypes, RefundAssumption DEF Account, Serve, Handed, Keys

LEMMA ExternalBounds ==
    ASSUME RefundTypeOK, NEW amount \in Nat
    PROVE  /\ externalRefundAmount(amount) \in Nat /\ externalRefundAmount(amount) <= amount
           /\ externalRefundAmount(amount) > 0 =>
                 externalRefundAmount(amount) <= account.settled - account.spent + amount
<1>1. account.spent \in Nat /\ account.settled \in Nat
  BY RefundTypes DEF Account
<1> QED
  BY <1>1 DEF externalRefundAmount

LEMMA LiveMarkers ==
    ASSUME RefundTypeOK, NEW now \in Nat
    PROVE  /\ liveMarkers(now) \in [Keys -> [outcome : CreditOutcome \cup {"none", "charged"},
                                             expiresAt : Nat]]
           /\ \A k \in Keys : \/ /\ liveMarkers(now)[k] = account.markers[k]
                                 /\ account.markers[k].expiresAt > now
                              \/ /\ liveMarkers(now)[k] = FreeKey
                                 /\ account.markers[k].expiresAt <= now
<1>1. account.markers \in [Keys -> [outcome : CreditOutcome \cup {"none", "charged"},
                                    expiresAt : Nat]]
  BY RefundTypes DEF Account
<1>2. FreeKey \in [outcome : CreditOutcome \cup {"none", "charged"}, expiresAt : Nat]
  BY DEF FreeKey
<1>3. \A k \in Keys : account.markers[k].expiresAt \in Nat
  BY <1>1
<1> QED
  BY <1>1, <1>2, <1>3 DEF liveMarkers

\* A marker changes in a step about another key only when its time is over.
Forgets(k) ==
    \/ account'.markers[k] = account.markers[k]
    \/ account'.markers[k] = FreeKey /\ account.markers[k].expiresAt <= refundTime

\* A closed channel stays as it is.
StaysClosed ==
    account.finalized => /\ account'.finalized /\ account'.spent = account.spent
                         /\ account'.settled = account.settled

\* What a step about something else leaves of a delivery.
Elsewhere(d) ==
    /\ serves'[d] = serves[d] /\ merchant'[d] = merchant[d]
    /\ account'.credited[d] = account.credited[d]
    /\ account'.prepaidRefunds[d] = account.prepaidRefunds[d]
    /\ Forgets(d) /\ StaysClosed

LEMMA ElsewhereInv ==
    ASSUME RefundInv, RefundTypeOK', NEW d \in Deliveries, Elsewhere(d), refundTime <= refundTime'
    PROVE  DeliveryInv(d)'
<1> USE DEF RefundInv, DeliveryInv
<1>1. /\ refundTime \in Nat /\ refundTime' \in Nat /\ Retention \in Nat
      /\ account.markers[d].expiresAt \in Nat /\ account.prepaidRefunds[d].createdAt \in Nat
      /\ serves[d].now \in Nat /\ account.credited[d] \in Nat
  BY RefundParts, RefundTypesNext
<1>2. Unmarked(d)'
  BY DEF Unmarked, Elsewhere
<1>3. Dated(d)'
  BY <1>1 DEF Dated, Elsewhere
<1>4. Credited(d)'
  <2>1. account'.markers[d].outcome # "none" => account'.markers[d] = account.markers[d]
    BY DEF Elsewhere, Forgets, FreeKey
  <2>2. account.credited[d] # 0 /\ InTime(d)' => account'.markers[d] = account.markers[d]
    BY <1>1 DEF Elsewhere, Forgets, Credited, InTime
  <2>3. InTime(d)' => InTime(d)
    BY <1>1 DEF InTime, Elsewhere
  <2> QED
    BY <2>1, <2>2, <2>3 DEF Credited, Elsewhere, StaysClosed
<1>5. Outside(d)'
  BY DEF Outside, Elsewhere, StaysClosed
<1>6. Owed(d)'
  <2>1. NothingCaptured(d) => NothingCaptured(d)'
    BY DEF NothingCaptured, externalRefundAmount, Elsewhere, StaysClosed
  <2> QED
    BY <2>1 DEF Owed, Elsewhere, At
<1> QED
  BY <1>2, <1>3, <1>4, <1>5, <1>6

LEMMA ChargeElsewhere ==
    ASSUME RefundInv, RefundTypeOK', keyedCalls' = keyedCalls, account'.charges = account.charges,
           Forgets(ChargeKey), refundTime <= refundTime'
    PROVE  ChargeInv'
<1> USE DEF RefundInv
<1>1. /\ refundTime \in Nat /\ refundTime' \in Nat /\ Retention \in Nat
      /\ account.markers[ChargeKey].expiresAt \in Nat
      /\ \A a \in Attempts : keyedCalls[a].now \in Nat
  BY RefundTypes, RefundTypesNext, RefundAssumption DEF Account, KeyedCall, Keys
<1>2. \A a \in Attempts : ChargeKept(a) => ChargeKept(a)'
  BY <1>1 DEF ChargeKept, Forgets
<1> QED
  BY <1>1, <1>2 DEF ChargeInv, Forgets

\* A step about one delivery touches nothing else.
Only(d) ==
    /\ \A e \in Deliveries \ {d} : Elsewhere(e)
    /\ account'.charges = account.charges /\ Forgets(ChargeKey)
    /\ refundTime' = refundTime /\ keyedCalls' = keyedCalls

LEMMA OneDelivery ==
    ASSUME RefundInv, RefundTypeOK', NEW d \in Deliveries, Only(d), DeliveryInv(d)'
    PROVE  RefundInv'
<1>1. refundTime <= refundTime'
  BY RefundTypes DEF Only, RefundInv
<1>2. \A e \in Deliveries \ {d} : DeliveryInv(e)'
  BY <1>1, ElsewhereInv DEF Only
<1>3. ChargeInv'
  BY <1>1, ChargeElsewhere DEF Only
<1> QED
  BY <1>2, <1>3 DEF RefundInv

\* The delivery goes on.
LEMMA ServeMoves ==
    ASSUME RefundTypeOK, NEW d \in Deliveries, NEW s \in Serve, serves' = [serves EXCEPT ![d] = s]
    PROVE  /\ serves' \in [Deliveries -> Serve] /\ serves'[d] = s
           /\ \A e \in Deliveries \ {d} : serves'[e] = serves[e]
<1>1. serves \in [Deliveries -> Serve]
  BY RefundTypes
<1> QED
  BY <1>1

LEMMA ServeGoesTo ==
    ASSUME RefundTypeOK, NEW d \in Deliveries,
           NEW pc \in {"charged", "streaming", "marking", "hook", "clearing", "over"},
           ServeGoes(d, pc)
    PROVE  \E s \in Serve :
              /\ serves' = [serves EXCEPT ![d] = s]
              /\ s.pc = pc /\ s.undelivered = serves[d].undelivered /\ s.failed = serves[d].failed
              /\ s.external = serves[d].external /\ s.late = serves[d].late /\ s.now = serves[d].now
<1>1. serves[d] \in Serve
  BY RefundTypes
<1>2. /\ [serves[d] EXCEPT !.pc = pc] \in Serve
      /\ [serves[d] EXCEPT !.pc = pc].pc = pc
      /\ [serves[d] EXCEPT !.pc = pc].undelivered = serves[d].undelivered
      /\ [serves[d] EXCEPT !.pc = pc].failed = serves[d].failed
      /\ [serves[d] EXCEPT !.pc = pc].external = serves[d].external
      /\ [serves[d] EXCEPT !.pc = pc].late = serves[d].late
      /\ [serves[d] EXCEPT !.pc = pc].now = serves[d].now
  BY <1>1 DEF Serve
<1>3. serves' = [serves EXCEPT ![d] = [serves[d] EXCEPT !.pc = pc]]
  BY DEF ServeGoes
<1> QED
  BY <1>2, <1>3

\* Steps of a delivery that leave the record as it is.
LEMMA OnlyServes ==
    ASSUME RefundInv, NEW d \in Deliveries, NEW s \in Serve, serves' = [serves EXCEPT ![d] = s],
           UNCHANGED <<refundTime, account, keyedCalls, merchant>>
    PROVE  Only(d) /\ RefundTypeOK' /\ StaysClosed /\ serves'[d] = s
<1>1. /\ serves' \in [Deliveries -> Serve] /\ serves'[d] = s
      /\ \A e \in Deliveries \ {d} : serves'[e] = serves[e]
  BY ServeMoves DEF RefundInv
<1>2. RefundTypeOK'
  BY <1>1, RefundTypes, RefundTypesNext DEF RefundInv
<1>3. StaysClosed
  BY DEF StaysClosed
<1>4. Only(d)
  BY <1>1, <1>3 DEF Only, Elsewhere, Forgets
<1> QED
  BY <1>1, <1>2, <1>3, <1>4

\* Steps of a delivery that write its entry in the record.
LEMMA OnlyEntry ==
    ASSUME RefundInv, NEW d \in Deliveries, NEW s \in Serve, serves' = [serves EXCEPT ![d] = s],
           NEW entry \in [status : {"none", "pending", "failed"}, units : Nat, createdAt : Nat],
           account' = [account EXCEPT !.prepaidRefunds[d] = entry],
           UNCHANGED <<refundTime, keyedCalls, merchant>>
    PROVE  /\ Only(d) /\ RefundTypeOK' /\ StaysClosed /\ serves'[d] = s
           /\ account'.credited = account.credited /\ account'.markers = account.markers
           /\ account'.spent = account.spent /\ account'.settled = account.settled
           /\ account'.finalized = account.finalized
           /\ account'.prepaidRefunds[d] = entry
<1>1. /\ serves' \in [Deliveries -> Serve] /\ serves'[d] = s
      /\ \A e \in Deliveries \ {d} : serves'[e] = serves[e]
  BY ServeMoves DEF RefundInv
<1>2. account \in Account
  BY RefundTypes DEF RefundInv
<1>3. /\ account' \in Account
      /\ account'.credited = account.credited /\ account'.markers = account.markers
      /\ account'.spent = account.spent /\ account'.settled = account.settled
      /\ account'.finalized = account.finalized /\ account'.charges = account.charges
      /\ account'.prepaidRefunds[d] = entry
      /\ \A e \in Deliveries \ {d} : account'.prepaidRefunds[e] = account.prepaidRefunds[e]
  BY <1>2 DEF Account
<1>4. RefundTypeOK'
  BY <1>1, <1>3, RefundTypes, RefundTypesNext DEF RefundInv
<1>5. StaysClosed
  BY <1>3 DEF StaysClosed
<1>6. Only(d)
  BY <1>1, <1>3, <1>5 DEF Only, Elsewhere, Forgets
<1> QED
  BY <1>1, <1>3, <1>4, <1>5, <1>6

\* In either, nothing is credited: the delivery's credit is as before, or it has
\* none yet.
LEMMA Uncredited ==
    ASSUME RefundInv, RefundTypeOK', NEW d \in Deliveries, Only(d), StaysClosed,
           account'.credited[d] = account.credited[d], account'.markers[d] = account.markers[d],
           account'.finalized = account.finalized, merchant'[d].transferred = merchant[d].transferred,
           \/ serves'[d].undelivered = serves[d].undelivered /\ serves'[d].now = serves[d].now
           \/ serves[d].pc \in Early /\ serves'[d].undelivered <= serves[d].undelivered,
           serves'[d].external = serves[d].external,
           Unmarked(d)', Dated(d)', Owed(d)'
    PROVE  RefundInv'
<1> USE DEF RefundInv, DeliveryInv
<1>1. refundTime' = refundTime
  BY DEF Only
<1>2. serves[d].undelivered \in Nat /\ serves'[d].undelivered \in Nat
  BY RefundParts, RefundTypesNext DEF Serve
<1>3. CASE serves'[d].undelivered = serves[d].undelivered /\ serves'[d].now = serves[d].now
  <2>1. Credited(d)' /\ Outside(d)'
    BY <1>1, <1>3 DEF Credited, Outside, InTime, StaysClosed
  <2> QED
    BY <2>1, OneDelivery
<1>4. CASE serves[d].pc \in Early /\ serves'[d].undelivered <= serves[d].undelivered
  <2>1. account.credited[d] = 0 /\ serves[d].external = 0
    BY <1>4 DEF Unmarked
  <2>2. Credited(d)'
    BY <1>2, <1>4, <2>1 DEF Credited
  <2>3. Outside(d)'
    BY <1>2, <2>1 DEF Outside
  <2> QED
    BY <2>2, <2>3, OneDelivery
<1> QED
  BY <1>3, <1>4

LEMMA ChargeDelivery ==
    ASSUME RefundInv, NEW d \in Deliveries, Charge(d)
    PROVE  RefundInv'
<1>1. account \in Account /\ ~account.finalized /\ PrepaidUnits \in Nat
  BY RefundTypes, RefundAssumption DEF RefundInv, Charge, CanCharge
<1>2. /\ account' \in Account
      /\ account'.credited = account.credited /\ account'.markers = account.markers
      /\ account'.settled = account.settled /\ account'.prepaidRefunds = account.prepaidRefunds
      /\ account'.finalized = account.finalized /\ account'.charges = account.charges
  BY <1>1 DEF Account, Charge
<1>3. UNCHANGED <<refundTime, keyedCalls, merchant>> /\ serves[d].pc = "idle"
  BY DEF Charge, At
<1>4. PICK s \in Serve :
              /\ serves' = [serves EXCEPT ![d] = s]
              /\ s.pc = "charged" /\ s.undelivered = serves[d].undelivered /\ s.failed = serves[d].failed
              /\ s.external = serves[d].external /\ s.late = serves[d].late /\ s.now = serves[d].now
  BY ServeGoesTo DEF RefundInv, Charge
<1>5. /\ serves' \in [Deliveries -> Serve] /\ serves'[d] = s
      /\ \A e \in Deliveries \ {d} : serves'[e] = serves[e]
  BY <1>4, ServeMoves DEF RefundInv
<1>6. RefundTypeOK'
  BY <1>2, <1>3, <1>5, RefundTypes, RefundTypesNext DEF RefundInv
<1>7. StaysClosed
  BY <1>1 DEF StaysClosed
<1>8. Only(d)
  BY <1>2, <1>3, <1>5, <1>7 DEF Only, Elsewhere, Forgets
<1>9. Unmarked(d)' /\ Dated(d)' /\ Owed(d)'
  <2> USE DEF RefundInv, DeliveryInv
  <2>1. Unmarked(d)'
    BY <1>2, <1>3, <1>4, <1>5 DEF Unmarked, Early
  <2>2. Dated(d)'
    BY <1>2, <1>3, <1>4, <1>5 DEF Dated
  <2>3. Owed(d)'
    BY <1>2, <1>3, <1>4, <1>5 DEF Owed, At
  <2> QED
    BY <2>1, <2>2, <2>3
<1> QED
  BY <1>2, <1>3, <1>4, <1>5, <1>6, <1>7, <1>8, <1>9, Uncredited

LEMMA PrepareDelivery ==
    ASSUME RefundInv, NEW d \in Deliveries, preparePrepaidRefund(d)
    PROVE  RefundInv'
<1> USE DEF RefundInv, DeliveryInv
<1>1. /\ serves[d].pc = "charged" /\ UNCHANGED <<refundTime, keyedCalls, merchant>>
      /\ refundTime \in Nat /\ PrepaidUnits \in Nat
  BY RefundTypes, RefundAssumption DEF preparePrepaidRefund, At
<1> DEFINE entry == [status |-> "pending", units |-> PrepaidUnits, createdAt |-> refundTime]
<1>2. PICK pc \in {"streaming", "over"} :
         /\ ServeGoes(d, pc)
         /\ \/ account' = [account EXCEPT !.prepaidRefunds[d] = entry]
            \/ account' = account /\ pc = "over"
  BY DEF preparePrepaidRefund
<1>3. PICK s \in Serve :
              /\ serves' = [serves EXCEPT ![d] = s]
              /\ s.pc = pc /\ s.undelivered = serves[d].undelivered /\ s.failed = serves[d].failed
              /\ s.external = serves[d].external /\ s.late = serves[d].late /\ s.now = serves[d].now
  BY <1>2, ServeGoesTo
<1>4. CASE account' = account /\ pc = "over"
  <2>1. Only(d) /\ RefundTypeOK' /\ StaysClosed /\ serves'[d] = s
    BY <1>1, <1>3, <1>4, OnlyServes
  <2>2. Unmarked(d)' /\ Dated(d)'
    BY <1>1, <1>3, <1>4, <2>1 DEF Unmarked, Early, Dated
  <2>3. Owed(d)'
    BY <1>1, <1>3, <1>4, <2>1 DEF Owed, At
  <2> QED
    BY <1>1, <1>3, <1>4, <2>1, <2>2, <2>3, Uncredited
<1>5. CASE account' = [account EXCEPT !.prepaidRefunds[d] = entry]
  <2>1. /\ entry \in [status : {"none", "pending", "failed"}, units : Nat, createdAt : Nat]
        /\ entry # NoObligation /\ entry.status = "pending" /\ entry.createdAt = refundTime
    BY <1>1 DEF NoObligation
  <2>2. account' = [account EXCEPT !.prepaidRefunds[d] = entry]
    BY <1>5
  <2> HIDE DEF entry
  <2>3. /\ Only(d) /\ RefundTypeOK' /\ StaysClosed /\ serves'[d] = s
        /\ account'.credited = account.credited /\ account'.markers = account.markers
        /\ account'.spent = account.spent /\ account'.settled = account.settled
        /\ account'.finalized = account.finalized
        /\ account'.prepaidRefunds[d] = entry
    BY <1>1, <1>3, <2>1, <2>2, OnlyEntry
  <2>4. Unmarked(d)' /\ Dated(d)'
    BY <1>1, <1>3, <2>1, <2>3 DEF Unmarked, Early, Dated
  <2>5. Owed(d)'
    BY <1>1, <1>3, <2>1, <2>3 DEF Owed, At
  <2> QED
    BY <1>1, <1>3, <2>3, <2>4, <2>5, Uncredited
<1> QED
  BY <1>2, <1>4, <1>5

\* A stream counts what it delivers.
LEMMA StreamDelivery ==
    ASSUME RefundInv, NEW d \in Deliveries, onPrepaidChargeCommitted(d) \/ pull(d)
    PROVE  RefundInv'
<1> USE DEF RefundInv, DeliveryInv
<1>1. /\ serves[d].pc = "streaming" /\ serves[d] \in Serve
      /\ UNCHANGED <<refundTime, account, keyedCalls, merchant>>
  BY RefundTypes DEF onPrepaidChargeCommitted, pull, At
<1>2. /\ Less(serves[d].undelivered) \in Nat
      /\ Less(serves[d].undelivered) <= serves[d].undelivered
  BY <1>1 DEF Less, Serve
<1>3. PICK s \in Serve :
         /\ serves' = [serves EXCEPT ![d] = s]
         /\ s.pc = serves[d].pc /\ s.undelivered <= serves[d].undelivered
         /\ s.failed = serves[d].failed /\ s.external = serves[d].external
         /\ s.late = serves[d].late /\ s.now = serves[d].now
  <2>1. CASE onPrepaidChargeCommitted(d)
    <3> DEFINE s == [serves[d] EXCEPT !.prepaid = serves[d].prepaid - 1,
                                      !.awaiting = serves[d].awaiting + 1,
                                      !.undelivered = Less(serves[d].undelivered)]
    <3>1. serves[d].prepaid - 1 \in Nat /\ serves[d].awaiting + 1 \in Nat
      BY <1>1, <2>1 DEF onPrepaidChargeCommitted, Serve
    <3>2. /\ s \in Serve /\ s.undelivered = Less(serves[d].undelivered)
          /\ s.pc = serves[d].pc /\ s.failed = serves[d].failed /\ s.external = serves[d].external
          /\ s.late = serves[d].late /\ s.now = serves[d].now
      BY <1>1, <1>2, <3>1 DEF Serve
    <3>3. serves' = [serves EXCEPT ![d] = s]
      BY <2>1 DEF onPrepaidChargeCommitted
    <3> QED
      BY <1>2, <3>2, <3>3
  <2>2. CASE pull(d)
    <3> DEFINE s == enqueue(serves[d])
    <3>1. CASE serves[d].awaiting > 0
      <4>1. s = [serves[d] EXCEPT !.awaiting = serves[d].awaiting - 1]
        BY <3>1 DEF enqueue
      <4>2. serves[d].awaiting - 1 \in Nat /\ serves[d].undelivered \in Nat
        BY <1>1, <3>1 DEF Serve
      <4>3. /\ s \in Serve /\ s.undelivered = serves[d].undelivered
            /\ s.pc = serves[d].pc /\ s.failed = serves[d].failed
            /\ s.external = serves[d].external /\ s.late = serves[d].late /\ s.now = serves[d].now
        BY <1>1, <4>1, <4>2 DEF Serve
      <4>4. serves' = [serves EXCEPT ![d] = s]
        BY <2>2 DEF pull
      <4>5. s.undelivered <= serves[d].undelivered
        BY <4>2, <4>3
      <4> HIDE DEF s
      <4> QED
        BY <4>3, <4>4, <4>5
    <3>2. CASE ~(serves[d].awaiting > 0)
      <4>1. s = [serves[d] EXCEPT !.undelivered = Less(serves[d].undelivered)]
        BY <3>2 DEF enqueue
      <4> QED
        BY <1>1, <1>2, <2>2, <4>1 DEF Serve, pull
    <3> QED
      BY <3>1, <3>2
  <2> QED
    BY <2>1, <2>2
<1>4. Only(d) /\ RefundTypeOK' /\ StaysClosed /\ serves'[d] = s
  BY <1>1, <1>3, OnlyServes
<1>5. Unmarked(d)' /\ Dated(d)'
  BY <1>1, <1>3, <1>4 DEF Unmarked, Dated
<1>6. Owed(d)'
  BY <1>1, <1>3, <1>4 DEF Owed, At
<1> QED
  BY <1>1, <1>3, <1>4, <1>5, <1>6, Uncredited DEF Early

\* A stream ends, for whatever reason, or its server stops.
LEMMA LeaveDelivery ==
    ASSUME RefundInv, NEW d \in Deliveries, End(d) \/ Fail(d) \/ Stop(d)
    PROVE  RefundInv'
<1> USE DEF RefundInv, DeliveryInv
<1>1. /\ serves[d] \in Serve /\ UNCHANGED <<refundTime, account, keyedCalls, merchant>>
      /\ account.credited[d] \in Nat /\ serves[d].undelivered \in Nat
  BY RefundTypes, RefundParts DEF End, Fail, Stop
<1>2. PICK pc \in {"finishing", "clearing", "marking", "over"}, failed \in BOOLEAN :
         /\ Leaves(d, pc, failed)
         /\ pc = "over" => failed = At(d, "streaming")
         /\ pc = "finishing" \/ (pc = "clearing" /\ serves[d].undelivered > 0) => ~failed
         /\ pc # "over" => At(d, "streaming")
  <2>1. CASE End(d)
    BY <2>1 DEF End
  <2>2. CASE Fail(d)
    <3>1. Credits(d) \in {"clearing", "marking"} /\ (Credits(d) = "clearing" => serves[d].undelivered = 0)
      BY DEF Credits
    <3>2. PICK pc \in {"clearing", "marking"} : pc = Credits(d)
      BY <3>1
    <3>3. Leaves(d, pc, TRUE) /\ At(d, "streaming")
      BY <2>2, <3>2 DEF Fail
    <3>4. pc = "clearing" => ~(serves[d].undelivered > 0)
      BY <1>1, <3>1, <3>2
    <3>5. pc # "over" /\ pc # "finishing" /\ pc \in {"finishing", "clearing", "marking", "over"}
      OBVIOUS
    <3> QED
      BY <3>3, <3>4, <3>5, Zenon
  <2>3. CASE Stop(d)
    BY <2>3 DEF Stop, At
  <2> QED
    BY <2>1, <2>2, <2>3
<1>3. PICK s \in Serve :
         /\ serves' = [serves EXCEPT ![d] = s]
         /\ s.pc = pc /\ s.undelivered = serves[d].undelivered
         /\ s.failed = (serves[d].failed \/ failed) /\ s.external = serves[d].external
         /\ s.late = serves[d].late /\ s.now = serves[d].now
  <2> DEFINE s == [serves[d] EXCEPT !.pc = pc, !.prepaid = 0, !.awaiting = 0,
                                    !.failed = serves[d].failed \/ failed]
  <2>1. (serves[d].failed \/ failed) \in BOOLEAN
    BY <1>1 DEF Serve
  <2>2. /\ s \in Serve /\ s.pc = pc /\ s.undelivered = serves[d].undelivered
        /\ s.failed = (serves[d].failed \/ failed) /\ s.external = serves[d].external
        /\ s.late = serves[d].late /\ s.now = serves[d].now
    BY <1>1, <2>1 DEF Serve
  <2>3. serves' = [serves EXCEPT ![d] = s]
    BY <1>2 DEF Leaves
  <2> QED
    BY <2>2, <2>3
<1>4. Only(d) /\ RefundTypeOK' /\ StaysClosed /\ serves'[d] = s
  BY <1>1, <1>3, OnlyServes
<1>5. Unmarked(d)' /\ Dated(d)'
  BY <1>1, <1>2, <1>3, <1>4 DEF Unmarked, Early, Dated, At
<1>6. Owed(d)'
  <2>1. NothingCaptured(d)' <=> NothingCaptured(d)
    BY <1>1, <1>3, <1>4 DEF NothingCaptured, externalRefundAmount
  <2>2. CASE At(d, "streaming")
    BY <1>1, <1>2, <1>3, <1>4, <2>2 DEF Owed, At
  <2>3. CASE ~At(d, "streaming")
    <3>1. pc = "over" /\ s.failed = serves[d].failed
      BY <1>1, <1>2, <1>3, <2>3 DEF Serve
    <3> QED
      BY <1>1, <1>3, <1>4, <2>1, <3>1 DEF Owed, At
  <2> QED
    BY <2>2, <2>3
<1> QED
  BY <1>1, <1>3, <1>4, <1>5, <1>6, Uncredited

\* An entry is cleared only after the stream finished, or for a reason.
LEMMA ClearDelivery ==
    ASSUME RefundInv, NEW d \in Deliveries, Finish(d) \/ clearObligation(d)
    PROVE  RefundInv'
<1> USE DEF RefundInv, DeliveryInv
<1>1. /\ serves[d].pc \in {"finishing", "clearing"}
      /\ UNCHANGED <<refundTime, keyedCalls, merchant>>
      /\ refundTime \in Nat
  BY RefundTypes DEF Finish, clearObligation, At
<1>2. PICK pc \in {"over", "marking", "clearing"} : ServeGoes(d, pc) /\
         \/ account' = [account EXCEPT !.prepaidRefunds[d] = NoObligation]
         \/ account' = account
  BY DEF Finish, clearObligation, Credits
<1>3. PICK s \in Serve :
              /\ serves' = [serves EXCEPT ![d] = s]
              /\ s.pc = pc /\ s.undelivered = serves[d].undelivered /\ s.failed = serves[d].failed
              /\ s.external = serves[d].external /\ s.late = serves[d].late /\ s.now = serves[d].now
  BY <1>2, ServeGoesTo
<1>4. pc = "over" \/ serves[d].pc = "finishing"
  <2>1. CASE clearObligation(d)
    <3>1. PICK r \in Serve : serves' = [serves EXCEPT ![d] = r] /\ r.pc = "over"
      BY <2>1, ServeGoesTo DEF clearObligation
    <3>2. serves'[d] = r
      BY <3>1, ServeMoves
    <3>3. serves'[d] = s
      BY <1>3, ServeMoves
    <3> QED
      BY <1>3, <3>1, <3>2, <3>3
  <2>2. CASE Finish(d)
    BY <2>2 DEF Finish, At
  <2> QED
    BY <2>1, <2>2
<1>5. CASE account' = account
  <2>1. Only(d) /\ RefundTypeOK' /\ StaysClosed /\ serves'[d] = s
    BY <1>1, <1>3, <1>5, OnlyServes
  <2>2. Unmarked(d)' /\ Dated(d)'
    BY <1>1, <1>3, <1>4, <1>5, <2>1 DEF Unmarked, Early, Dated
  <2>3. NothingCaptured(d)' <=> NothingCaptured(d)
    BY <1>1, <1>3, <1>5, <2>1 DEF NothingCaptured, externalRefundAmount
  <2>4. Owed(d)'
    BY <1>1, <1>3, <1>4, <1>5, <2>1, <2>3 DEF Owed, At
  <2> QED
    BY <1>1, <1>3, <1>5, <2>1, <2>2, <2>4, Uncredited
<1>6. CASE account' = [account EXCEPT !.prepaidRefunds[d] = NoObligation]
  <2>1. /\ NoObligation \in [status : {"none", "pending", "failed"}, units : Nat, createdAt : Nat]
        /\ NoObligation.status = "none" /\ NoObligation.createdAt = 0
    BY DEF NoObligation
  <2>2. /\ Only(d) /\ RefundTypeOK' /\ StaysClosed /\ serves'[d] = s
        /\ account'.credited = account.credited /\ account'.markers = account.markers
        /\ account'.spent = account.spent /\ account'.settled = account.settled
        /\ account'.finalized = account.finalized
        /\ account'.prepaidRefunds[d] = NoObligation
    BY <1>1, <1>3, <1>6, <2>1, OnlyEntry
  <2>3. Unmarked(d)' /\ Dated(d)'
    BY <1>1, <1>3, <1>4, <2>1, <2>2 DEF Unmarked, Early, Dated
  <2>4. NothingCaptured(d)' <=> NothingCaptured(d)
    BY <1>1, <1>3, <2>2 DEF NothingCaptured, externalRefundAmount
  <2>5. Owed(d)'
    BY <1>1, <1>3, <1>4, <2>2, <2>4 DEF Owed, At
  <2> QED
    BY <1>1, <1>3, <2>2, <2>3, <2>5, Uncredited
<1> QED
  BY <1>2, <1>5, <1>6

LEMMA FailureDelivery ==
    ASSUME RefundInv, NEW d \in Deliveries, recordFailure(d)
    PROVE  RefundInv'
<1> USE DEF RefundInv, DeliveryInv
<1> DEFINE entry == [account.prepaidRefunds[d] EXCEPT !.status = "failed",
                                                      !.units = serves[d].undelivered]
<1>1. /\ serves[d].pc = "marking" /\ UNCHANGED <<refundTime, keyedCalls, merchant>>
      /\ refundTime \in Nat /\ serves[d] \in Serve /\ serves[d].undelivered \in Nat
      /\ account.prepaidRefunds[d] \in [status : {"none", "pending", "failed"}, units : Nat,
                                        createdAt : Nat]
  BY RefundTypes, RefundParts DEF recordFailure, At, Account
<1>2. PICK pc \in {"crediting", "hook"} : Mark(d, pc) /\
         \/ account' = [account EXCEPT !.prepaidRefunds[d] = entry]
         \/ account' = account /\ pc = "hook"
  BY DEF recordFailure
<1>3. PICK s \in Serve :
              /\ serves' = [serves EXCEPT ![d] = s]
              /\ s.pc = pc /\ s.undelivered = serves[d].undelivered /\ s.failed = serves[d].failed
              /\ s.external = serves[d].external /\ s.late = serves[d].late /\ s.now = refundTime
  <2> DEFINE s == [serves[d] EXCEPT !.pc = pc, !.now = refundTime]
  <2>1. /\ s \in Serve
        /\ s.pc = pc /\ s.undelivered = serves[d].undelivered /\ s.failed = serves[d].failed
        /\ s.external = serves[d].external /\ s.late = serves[d].late /\ s.now = refundTime
    BY <1>1 DEF Serve
  <2>2. serves' = [serves EXCEPT ![d] = s]
    BY <1>2 DEF Mark
  <2> HIDE DEF s
  <2> QED
    BY <2>1, <2>2
<1>4. CASE account' = account /\ pc = "hook"
  <2>1. Only(d) /\ RefundTypeOK' /\ StaysClosed /\ serves'[d] = s
    BY <1>1, <1>3, <1>4, OnlyServes
  <2>2. Unmarked(d)' /\ Dated(d)'
    BY <1>1, <1>3, <1>4, <2>1 DEF Unmarked, Early, Dated
  <2>3. NothingCaptured(d)' <=> NothingCaptured(d)
    BY <1>1, <1>3, <1>4, <2>1 DEF NothingCaptured, externalRefundAmount
  <2>4. Owed(d)'
    BY <1>1, <1>3, <1>4, <2>1, <2>3 DEF Owed, At
  <2> QED
    BY <1>1, <1>3, <1>4, <2>1, <2>2, <2>4, Uncredited DEF Early
<1>5. CASE account' = [account EXCEPT !.prepaidRefunds[d] = entry]
  <2>1. /\ entry \in [status : {"none", "pending", "failed"}, units : Nat, createdAt : Nat]
        /\ entry.status = "failed" /\ entry.createdAt = account.prepaidRefunds[d].createdAt
        /\ entry # NoObligation
    BY <1>1 DEF NoObligation
  <2> HIDE DEF entry
  <2>2. /\ Only(d) /\ RefundTypeOK' /\ StaysClosed /\ serves'[d] = s
        /\ account'.credited = account.credited /\ account'.markers = account.markers
        /\ account'.spent = account.spent /\ account'.settled = account.settled
        /\ account'.finalized = account.finalized
        /\ account'.prepaidRefunds[d] = entry
    BY <1>1, <1>3, <1>5, <2>1, OnlyEntry
  <2>3. Unmarked(d)' /\ Dated(d)'
    BY <1>1, <1>3, <2>1, <2>2 DEF Unmarked, Early, Dated
  <2>4. Owed(d)'
    BY <1>1, <1>3, <2>1, <2>2 DEF Owed, At
  <2> QED
    BY <1>1, <1>3, <2>2, <2>3, <2>4, Uncredited DEF Early
<1> QED
  BY <1>2, <1>4, <1>5

\* The merchant takes a refund over, or returns it outside the channel.
LEMMA MerchantDelivery ==
    ASSUME RefundInv, NEW d \in Deliveries, onRefundRequired(d) \/ Transfer(d)
    PROVE  RefundInv'
<1> USE DEF RefundInv, DeliveryInv
<1>1. /\ merchant \in [Deliveries -> Handed] /\ UNCHANGED <<refundTime, account, keyedCalls>>
      /\ serves \in [Deliveries -> Serve] /\ merchant[d] \in Handed
      /\ refundTime \in Nat /\ serves[d].external \in Nat
  BY RefundTypes, RefundParts DEF onRefundRequired, Transfer
<1>2. StaysClosed
  BY <1>1 DEF StaysClosed
<1>3. CASE onRefundRequired(d)
  <2> DEFINE job == IF serves[d].external > 0 THEN "transfer" ELSE "reconcile"
  <2>1. serves[d].pc = "hook"
    BY <1>3 DEF onRefundRequired, At
  <2>2. PICK pc \in {"clearing", "over"} : ServeGoes(d, pc) /\
           \/ merchant' = [merchant EXCEPT ![d].job = job] /\ pc = "clearing"
           \/ merchant' = merchant /\ pc = "over"
    BY <1>3 DEF onRefundRequired
  <2>3. PICK s \in Serve :
              /\ serves' = [serves EXCEPT ![d] = s]
              /\ s.pc = pc /\ s.undelivered = serves[d].undelivered /\ s.failed = serves[d].failed
              /\ s.external = serves[d].external /\ s.late = serves[d].late /\ s.now = serves[d].now
    BY <2>2, ServeGoesTo
  <2>4. /\ serves' \in [Deliveries -> Serve] /\ serves'[d] = s
        /\ \A e \in Deliveries \ {d} : serves'[e] = serves[e]
    BY <2>3, ServeMoves
  <2>5. /\ merchant' \in [Deliveries -> Handed]
        /\ \A e \in Deliveries \ {d} : merchant'[e] = merchant[e]
        /\ merchant'[d].transferred = merchant[d].transferred
        /\ pc = "clearing" => merchant'[d].job # "none"
        /\ pc = "over" => merchant'[d] = merchant[d]
    <3>1. job \in {"none", "transfer", "reconcile"} /\ job # "none"
      OBVIOUS
    <3> HIDE DEF job
    <3>2. CASE merchant' = [merchant EXCEPT ![d].job = job] /\ pc = "clearing"
      BY <1>1, <3>1, <3>2 DEF Handed
    <3>3. CASE merchant' = merchant /\ pc = "over"
      BY <1>1, <3>3
    <3> QED
      BY <2>2, <3>2, <3>3
  <2>6. RefundTypeOK'
    BY <1>1, <2>4, <2>5, RefundTypes, RefundTypesNext
  <2>7. Only(d)
    BY <1>1, <1>2, <2>4, <2>5 DEF Only, Elsewhere, Forgets
  <2>8. Unmarked(d)' /\ Dated(d)'
    BY <1>1, <2>3, <2>4 DEF Unmarked, Early, Dated
  <2>9. NothingCaptured(d)' <=> NothingCaptured(d)
    BY <1>1, <2>3, <2>4 DEF NothingCaptured, externalRefundAmount
  <2>10. Owed(d)'
    BY <1>1, <2>1, <2>2, <2>3, <2>4, <2>5, <2>9 DEF Owed, At
  <2> QED
    BY <1>1, <1>2, <2>3, <2>4, <2>5, <2>6, <2>7, <2>8, <2>10, Uncredited
<1>4. CASE Transfer(d)
  <2>1. merchant[d].job = "transfer" /\ serves' = serves
    BY <1>4 DEF Transfer
  <2>2. /\ merchant' \in [Deliveries -> Handed]
        /\ \A e \in Deliveries \ {d} : merchant'[e] = merchant[e]
        /\ merchant'[d].transferred = serves[d].external /\ merchant'[d].job = merchant[d].job
    BY <1>1, <1>4 DEF Transfer, Handed
  <2>3. RefundTypeOK'
    BY <1>1, <2>1, <2>2, RefundTypes, RefundTypesNext
  <2>4. Only(d)
    BY <1>1, <1>2, <2>1, <2>2 DEF Only, Elsewhere, Forgets
  <2>5. Unmarked(d)' /\ Dated(d)'
    BY <1>1, <2>1, <2>2 DEF Unmarked, Dated
  <2>6. Credited(d)'
    BY <1>1, <2>1 DEF Credited, InTime
  <2>7. Outside(d)'
    BY <1>1, <2>1, <2>2 DEF Outside
  <2>8. NothingCaptured(d)' <=> NothingCaptured(d)
    BY <1>1, <2>1 DEF NothingCaptured, externalRefundAmount
  <2>9. Owed(d)'
    BY <1>1, <2>1, <2>2, <2>8 DEF Owed, At
  <2> QED
    BY <2>3, <2>4, <2>5, <2>6, <2>7, <2>9, OneDelivery
<1> QED
  BY <1>3, <1>4

\* What planning a credit does: nothing, or it records an outcome that was not
\* recorded before.
Recorded(d, now, a, result) ==
    /\ \A k \in Keys \ {d} : a.markers[k] = liveMarkers(now)[k]
    /\ liveMarkers(now)[d] = FreeKey
    /\ a.markers[d].outcome = result /\ a.markers[d].expiresAt = now + Retention
    /\ result = "finalized" <=> account.finalized
    /\ a.credited[d] = account.credited[d] + IF result = "credited" THEN serves[d].undelivered ELSE 0
    /\ account.finalized => a.spent = account.spent

Planned(d, now, a, result) ==
    /\ a \in Account
    /\ a.settled = account.settled /\ a.finalized = account.finalized
    /\ a.charges = account.charges /\ a.prepaidRefunds = account.prepaidRefunds
    /\ \A e \in Deliveries \ {d} : a.credited[e] = account.credited[e]
    /\ \/ a = account /\ liveMarkers(now)[d] # FreeKey /\ result = liveMarkers(now)[d].outcome
       \/ a = account /\ result = "capacity"
       \/ Recorded(d, now, a, result)

LEMMA PlanCredit ==
    ASSUME RefundTypeOK, NEW d \in Deliveries, NEW now \in Nat
    PROVE  LET plan == planCredit(d, serves[d].undelivered, now)
           IN Planned(d, now, plan.account, plan.result)
<1> DEFINE amount  == serves[d].undelivered
           live    == liveMarkers(now)
           outcome == creditDeclineReason(amount)
           returns == IF outcome = "credited" THEN amount ELSE 0
           mark == [outcome |-> outcome, expiresAt |-> now + Retention]
           after   == [account EXCEPT !.spent = @ - returns, !.credited[d] = @ + returns,
                                      !.markers = [live EXCEPT ![d] = mark]]
<1>1. /\ account \in Account /\ amount \in Nat /\ Retention \in Nat
      /\ d \in Keys /\ account.credited \in [Deliveries -> Nat]
      /\ account.spent \in Nat /\ account.settled \in Nat
  BY RefundTypes, RefundParts DEF Keys, Account
<1>2. live \in [Keys -> [outcome : CreditOutcome \cup {"none", "charged"}, expiresAt : Nat]]
  BY LiveMarkers
<1>3. /\ outcome \in CreditOutcome
      /\ outcome = "finalized" <=> account.finalized
      /\ outcome = "credited" => amount <= account.spent /\ ~account.finalized
  BY <1>1 DEF creditDeclineReason, CreditOutcome
<1>4. /\ returns \in Nat /\ account.spent - returns \in Nat
      /\ account.finalized => returns = 0
  BY <1>1, <1>3
<1>5. /\ mark \in [outcome : CreditOutcome \cup {"none", "charged"}, expiresAt : Nat]
      /\ mark.outcome = outcome /\ mark.expiresAt = now + Retention
  BY <1>1, <1>3
<1> HIDE DEF amount, live, outcome, mark
<1>6. ASSUME live[d] = FreeKey
      PROVE  Planned(d, now, after, outcome)
  <2>1. [live EXCEPT ![d] = mark] \in
           [Keys -> [outcome : CreditOutcome \cup {"none", "charged"}, expiresAt : Nat]]
    BY <1>2, <1>5
  <2> HIDE DEF returns
  <2>2. /\ after \in Account
        /\ after.settled = account.settled /\ after.finalized = account.finalized
        /\ after.charges = account.charges /\ after.prepaidRefunds = account.prepaidRefunds
        /\ after.spent = account.spent - returns
        /\ after.credited = [account.credited EXCEPT ![d] = @ + returns]
        /\ after.markers = [live EXCEPT ![d] = mark]
    <3>1. /\ [account.credited EXCEPT ![d] = @ + returns] \in [Deliveries -> Nat]
          /\ [account.credited EXCEPT ![d] = @ + returns] =
                [account.credited EXCEPT ![d] = account.credited[d] + returns]
      BY <1>1, <1>4
    <3>2. account.spent - returns \in Nat
      BY <1>4
    <3> QED
      BY <1>1, <2>1, <3>1, <3>2 DEF Account
  <2> HIDE DEF after
  <2>3. /\ \A e \in Deliveries \ {d} : after.credited[e] = account.credited[e]
        /\ after.credited[d] = account.credited[d] + returns
    BY <1>1, <2>2
  <2>4. /\ \A k \in Keys \ {d} : after.markers[k] = live[k]
        /\ after.markers[d] = mark
    BY <1>1, <1>2, <2>2
  <2>5. account.finalized => after.spent = account.spent
    BY <1>1, <1>4, <2>2
  <2>6. returns = IF outcome = "credited" THEN amount ELSE 0
    BY DEF returns
  <2>7. live[d] = FreeKey => Recorded(d, now, after, outcome)
    BY <1>3, <1>5, <2>3, <2>4, <2>5, <2>6 DEF Recorded, live, amount
  <2> QED
    BY <1>6, <2>2, <2>3, <2>7 DEF Planned
<1>7. CASE live[d] # FreeKey
  BY <1>1, <1>7 DEF planCredit, Planned, live
<1>8. CASE live[d] = FreeKey /\ Held(live) >= MaxPrepaidRefunds
  BY <1>1, <1>8 DEF planCredit, Planned, live
<1>9. CASE live[d] = FreeKey /\ ~(Held(live) >= MaxPrepaidRefunds)
  <2>1. planCredit(d, serves[d].undelivered, now) = [result |-> outcome, account |-> after]
    BY <1>9 DEF planCredit, live, outcome, amount, returns, mark
  <2> QED
    BY <1>6, <1>9, <2>1
<1> QED
  BY <1>7, <1>8, <1>9

\* A credit is made within the time its marker is kept, so it is not made again.
LEMMA CreditOnce ==
    ASSUME RefundInv, NEW d \in Deliveries, NEW now \in Nat, serves[d].now <= now, now <= refundTime,
           InTime(d), NEW a, NEW result, Planned(d, now, a, result),
           account'.credited = a.credited, account'.markers = a.markers, account'.spent = a.spent,
           account'.settled = a.settled, account'.finalized = a.finalized,
           refundTime' = refundTime, serves'[d].undelivered = serves[d].undelivered,
           serves'[d].now = serves[d].now
    PROVE  /\ Credited(d)' /\ StaysClosed
           /\ \A k \in Keys \ {d} : Forgets(k)
           /\ account.credited[d] > 0 => account'.credited[d] > 0
           /\ account.finalized => account'.credited[d] = account.credited[d]
           /\ result = "credited" => account'.credited[d] = serves[d].undelivered
           /\ result = "finalized" => account.finalized /\ account'.credited[d] = 0
<1> USE DEF RefundInv, DeliveryInv
<1>1. /\ refundTime \in Nat /\ Retention \in Nat \ {0} /\ d \in Keys
      /\ account.credited[d] \in Nat /\ serves[d].undelivered \in Nat /\ serves[d].now \in Nat
      /\ \A k \in Keys : account.markers[k].expiresAt \in Nat
  BY RefundParts, RefundTypes DEF Keys, Account
<1>2. \A k \in Keys : \/ /\ liveMarkers(now)[k] = account.markers[k]
                         /\ account.markers[k].expiresAt > now
                      \/ /\ liveMarkers(now)[k] = FreeKey
                         /\ account.markers[k].expiresAt <= now
  BY LiveMarkers
<1>3. Credited(d)
  OBVIOUS
<1>4. CASE a = account
  <2>1. Credited(d)' /\ StaysClosed /\ \A k \in Keys \ {d} : Forgets(k)
    BY <1>3, <1>4 DEF Credited, InTime, StaysClosed, Forgets
  <2>2. CASE liveMarkers(now)[d] # FreeKey /\ result = liveMarkers(now)[d].outcome
    <3>1. result = account.markers[d].outcome
      BY <1>1, <1>2, <2>2
    <3> QED
      BY <1>3, <1>4, <2>1, <3>1 DEF Credited
  <2>3. CASE result = "capacity"
    BY <1>4, <2>1, <2>3
  <2>4. CASE Recorded(d, now, a, result)
    <3>1. a.markers[d].expiresAt = now + Retention /\ liveMarkers(now)[d] = FreeKey
      BY <1>4, <2>4 DEF Recorded
    <3>2. FALSE
      BY <1>1, <1>2, <1>4, <3>1 DEF FreeKey
    <3> QED
      BY <3>2
  <2> QED
    BY <2>2, <2>3, <2>4 DEF Planned
<1>5. CASE a # account
  <2>1. /\ Recorded(d, now, a, result)
        /\ account'.settled = account.settled /\ account'.finalized = account.finalized
    BY <1>5 DEF Planned, Recorded
  <2>2. account.credited[d] = 0
    <3>1. account.markers[d].expiresAt <= now
      BY <1>1, <1>2, <2>1 DEF Recorded, FreeKey
    <3>2. account.credited[d] # 0 => account.markers[d].expiresAt >= serves[d].now + Retention
      BY <1>3 DEF Credited
    <3>3. refundTime < serves[d].now + Retention
      BY DEF InTime
    <3> QED
      BY <1>1, <3>1, <3>2, <3>3
  <2>3. account'.credited[d] = IF result = "credited" THEN serves[d].undelivered ELSE 0
    BY <1>1, <2>1, <2>2 DEF Recorded
  <2>4. /\ result = "finalized" <=> account.finalized
        /\ account.finalized => account'.spent = account.spent
        /\ account'.markers[d].outcome = result
        /\ account'.markers[d].expiresAt = now + Retention
        /\ now + Retention >= serves[d].now + Retention
    BY <1>1, <2>1 DEF Recorded
  <2>5. StaysClosed
    BY <2>1, <2>4 DEF StaysClosed
  <2>6. \A k \in Keys \ {d} : Forgets(k)
    BY <1>1, <1>2, <2>1 DEF Recorded, Forgets
  <2>7. Credited(d)'
    BY <1>1, <2>1, <2>3, <2>4 DEF Credited, InTime
  <2> QED
    BY <2>2, <2>3, <2>4, <2>5, <2>6, <2>7
<1> QED
  BY <1>4, <1>5

\* A credit, as part of a step of its delivery or of somebody who retries it.
LEMMA CreditStep ==
    ASSUME RefundInv, NEW d \in Deliveries, NEW now \in Nat, serves[d].now <= now, now <= refundTime,
           InTime(d), NEW a, NEW result, Planned(d, now, a, result),
           \/ account' = a
           \/ account' = [a EXCEPT !.prepaidRefunds[d] = NoObligation] /\ result = "credited",
           NEW s \in Serve, serves' = [serves EXCEPT ![d] = s],
           UNCHANGED <<refundTime, keyedCalls, merchant>>,
           s.undelivered = serves[d].undelivered, s.now = serves[d].now, s.failed = serves[d].failed,
           serves[d].pc \notin Early, s.pc \notin Early,
           s.pc = "crediting" => serves[d].pc = "crediting" /\ s.external = serves[d].external
                                 /\ s.late = serves[d].late,
           s.pc = "clearing" => \/ serves[d].pc = "clearing" \/ result = "credited"
                                \/ NothingCaptured(d),
           \/ s.external = serves[d].external
           \/ /\ serves[d].external = 0 /\ s.external <= serves[d].undelivered
              /\ s.external > 0 =>
                    /\ result = "finalized"
                    /\ s.external <= account.settled - account.spent + serves[d].undelivered
    PROVE  RefundInv'
<1> USE DEF RefundInv, DeliveryInv
<1>1. /\ a \in Account
      /\ a.settled = account.settled /\ a.finalized = account.finalized
      /\ a.charges = account.charges /\ a.prepaidRefunds = account.prepaidRefunds
      /\ \A e \in Deliveries \ {d} : a.credited[e] = account.credited[e]
  BY DEF Planned
<1>2. NoObligation \in [status : {"none", "pending", "failed"}, units : Nat, createdAt : Nat]
  BY DEF NoObligation
<1>3. /\ account' \in Account
      /\ account'.credited = a.credited /\ account'.markers = a.markers /\ account'.spent = a.spent
      /\ account'.settled = a.settled /\ account'.finalized = a.finalized
      /\ account'.charges = a.charges
      /\ \A e \in Deliveries \ {d} : account'.prepaidRefunds[e] = a.prepaidRefunds[e]
      /\ \/ account'.prepaidRefunds[d] = a.prepaidRefunds[d]
         \/ account'.prepaidRefunds[d] = NoObligation /\ result = "credited"
  <2>1. CASE account' = a
    BY <1>1, <2>1
  <2>2. CASE account' = [a EXCEPT !.prepaidRefunds[d] = NoObligation] /\ result = "credited"
    BY <1>1, <1>2, <2>2 DEF Account
  <2> QED
    BY <2>1, <2>2
<1>4. /\ serves' \in [Deliveries -> Serve] /\ serves'[d] = s
      /\ \A e \in Deliveries \ {d} : serves'[e] = serves[e]
  BY ServeMoves
<1>5. /\ Credited(d)' /\ StaysClosed
      /\ \A k \in Keys \ {d} : Forgets(k)
      /\ account.credited[d] > 0 => account'.credited[d] > 0
      /\ account.finalized => account'.credited[d] = account.credited[d]
      /\ result = "credited" => account'.credited[d] = serves[d].undelivered
      /\ result = "finalized" => account.finalized /\ account'.credited[d] = 0
  BY <1>3, <1>4, CreditOnce
<1>6. RefundTypeOK'
  BY <1>3, <1>4, RefundTypes, RefundTypesNext
<1>7. Only(d)
  BY <1>1, <1>3, <1>4, <1>5, RefundAssumption DEF Only, Elsewhere, Keys
<1>8. /\ serves[d].external \in Nat /\ s.external \in Nat /\ serves[d].undelivered \in Nat
      /\ merchant[d].transferred \in Nat /\ account.credited[d] \in Nat
      /\ refundTime \in Nat
  BY RefundParts DEF Serve
<1>9. Unmarked(d)'
  BY <1>4 DEF Unmarked
<1>10. Dated(d)'
  <2>1. NoObligation.createdAt = 0 /\ NoObligation.status = "none"
    BY DEF NoObligation
  <2> QED
    BY <1>1, <1>3, <1>4, <1>8, <2>1 DEF Dated
<1>11. Outside(d)'
  BY <1>3, <1>4, <1>5, <1>8 DEF Outside, StaysClosed
<1>12. Owed(d)'
  <2>1. NothingCaptured(d) => NothingCaptured(d)'
    BY <1>4, <1>5 DEF NothingCaptured, externalRefundAmount, StaysClosed
  <2>2. s.pc \notin {"idle", "charged", "streaming", "finishing"}
    BY DEF Early
  <2>3. result = "credited" /\ serves[d].undelivered > 0 => account'.credited[d] > 0
    BY <1>5
  <2> QED
    BY <1>1, <1>3, <1>4, <1>5, <2>1, <2>2, <2>3 DEF Owed, At
<1> QED
  BY <1>5, <1>6, <1>7, <1>9, <1>10, <1>11, <1>12, OneDelivery

LEMMA CreditDelivery ==
    ASSUME RefundInv, NEW d \in Deliveries, creditChannel(d)
    PROVE  RefundInv'
<1> USE DEF RefundInv, DeliveryInv
<1> DEFINE plan == planCredit(d, serves[d].undelivered, refundTime)
           due  == externalRefundAmount(serves[d].undelivered)
<1>1. /\ serves[d].pc = "crediting" /\ InTime(d) /\ UNCHANGED <<refundTime, keyedCalls, merchant>>
      /\ refundTime \in Nat /\ serves[d] \in Serve /\ serves[d].now <= refundTime
      /\ serves[d].external = 0
      /\ serves[d].pc \notin Early
      /\ serves[d].undelivered \in Nat
  BY RefundTypes, RefundParts DEF creditChannel, At, Dated, Unmarked, Early
<1>2. Planned(d, refundTime, plan.account, plan.result)
  BY <1>1, PlanCredit
<1>3. /\ due \in Nat /\ due <= serves[d].undelivered
      /\ due > 0 => due <= account.settled - account.spent + serves[d].undelivered
  BY <1>1, ExternalBounds
<1>4. ASSUME NEW late \in BOOLEAN, Unanswered(d, late)
      PROVE  \E s \in Serve :
                /\ serves' = [serves EXCEPT ![d] = s]
                /\ s.pc = "hook" /\ s.undelivered = serves[d].undelivered
                /\ s.failed = serves[d].failed
                /\ s.external = serves[d].external /\ s.now = serves[d].now
  <2>1. /\ [serves[d] EXCEPT !.pc = "hook", !.late = late] \in Serve
        /\ [serves[d] EXCEPT !.pc = "hook", !.late = late].pc = "hook"
        /\ [serves[d] EXCEPT !.pc = "hook", !.late = late].undelivered = serves[d].undelivered
        /\ [serves[d] EXCEPT !.pc = "hook", !.late = late].failed = serves[d].failed
        /\ [serves[d] EXCEPT !.pc = "hook", !.late = late].external = serves[d].external
        /\ [serves[d] EXCEPT !.pc = "hook", !.late = late].now = serves[d].now
    BY <1>1 DEF Serve
  <2>2. serves' = [serves EXCEPT ![d] = [serves[d] EXCEPT !.pc = "hook", !.late = late]]
    BY <1>4 DEF Unanswered
  <2> QED
    BY <2>1, <2>2
<1>5. CASE account' = plan.account /\ AfterCredit(d, plan.result)
  <2> DEFINE pc == IF NothingDue(d, plan.result) THEN "clearing" ELSE "hook"
             external == IF plan.result = "finalized" THEN due ELSE 0
             s == [serves[d] EXCEPT !.pc = pc, !.external = external]
  <2>1. pc \in {"clearing", "hook"} /\ external \in Nat /\ external <= serves[d].undelivered
        /\ (external > 0 =>
              /\ plan.result = "finalized"
              /\ external <= account.settled - account.spent + serves[d].undelivered)
        /\ (pc = "clearing" => NothingDue(d, plan.result))
    BY <1>1, <1>3
  <2>2. serves' = [serves EXCEPT ![d] = s]
    BY <1>5 DEF AfterCredit
  <2> HIDE DEF plan, due, pc, external
  <2>3. /\ s \in Serve /\ s.pc = pc /\ s.undelivered = serves[d].undelivered
        /\ s.failed = serves[d].failed /\ s.external = external /\ s.now = serves[d].now
    BY <1>1, <2>1 DEF Serve
  <2> HIDE DEF s
  <2>4. plan.result = "finalized" => account.finalized
    <3>1. plan.result = liveMarkers(refundTime)[d].outcome /\ liveMarkers(refundTime)[d] # FreeKey
             => plan.result = account.markers[d].outcome
      <4>1. d \in Keys
        BY DEF Keys
      <4> QED
        BY <1>1, <4>1, LiveMarkers
    <3> QED
      BY <1>2, <3>1 DEF Planned, Recorded, Credited
  <2>5. pc = "clearing" => plan.result = "credited" \/ NothingCaptured(d)
    BY <2>1, <2>4 DEF NothingDue, NothingCaptured
  <2>6. s.pc \notin Early /\ s.pc # "crediting"
    BY <2>1, <2>3 DEF Early
  <2>7. Planned(d, refundTime, account', plan.result) /\ refundTime <= refundTime
    BY <1>1, <1>2, <1>5
  <2> QED
    BY <1>1, <1>5, <2>1, <2>2, <2>3, <2>5, <2>6, <2>7, CreditStep
<1>6. CASE account' = plan.account /\ Unanswered(d, FALSE)
  <2>1. PICK s \in Serve :
                /\ serves' = [serves EXCEPT ![d] = s]
                /\ s.pc = "hook" /\ s.undelivered = serves[d].undelivered
                /\ s.failed = serves[d].failed
                /\ s.external = serves[d].external /\ s.now = serves[d].now
    BY <1>4, <1>6
  <2>2. s.pc \notin Early
    BY <2>1 DEF Early
  <2> HIDE DEF plan
  <2>3. Planned(d, refundTime, account', plan.result) /\ refundTime <= refundTime
    BY <1>1, <1>2, <1>6
  <2> QED
    BY <1>1, <2>1, <2>2, <2>3, CreditStep
<1>7. CASE account' = account /\ \E late \in BOOLEAN : Unanswered(d, late)
  <2>1. PICK s \in Serve :
                /\ serves' = [serves EXCEPT ![d] = s]
                /\ s.pc = "hook" /\ s.undelivered = serves[d].undelivered
                /\ s.failed = serves[d].failed
                /\ s.external = serves[d].external /\ s.now = serves[d].now
    BY <1>4, <1>7
  <2>2. Only(d) /\ RefundTypeOK' /\ StaysClosed /\ serves'[d] = s
    BY <1>1, <1>7, <2>1, OnlyServes
  <2>3. Unmarked(d)' /\ Dated(d)'
    BY <1>1, <1>7, <2>1, <2>2 DEF Unmarked, Early, Dated
  <2>4. NothingCaptured(d)' <=> NothingCaptured(d)
    BY <1>1, <1>7, <2>1, <2>2 DEF NothingCaptured, externalRefundAmount
  <2>5. Owed(d)'
    BY <1>1, <1>7, <2>1, <2>2, <2>4 DEF Owed, At
  <2> QED
    BY <1>1, <1>7, <2>1, <2>2, <2>3, <2>5, Uncredited
<1> QED
  BY <1>5, <1>6, <1>7 DEF creditChannel

LEMMA LateDelivery ==
    ASSUME RefundInv, NEW d \in Deliveries, LateCredit(d)
    PROVE  RefundInv'
<1> USE DEF RefundInv, DeliveryInv
<1> DEFINE plan == planCredit(d, serves[d].undelivered, serves[d].now)
           s    == [serves[d] EXCEPT !.late = FALSE]
<1>1. /\ serves[d].late /\ InTime(d) /\ UNCHANGED <<refundTime, keyedCalls, merchant>>
      /\ serves[d] \in Serve /\ serves[d].now \in Nat /\ serves[d].now <= refundTime
      /\ serves[d].now <= serves[d].now
  BY RefundParts DEF LateCredit, Dated
<1>2. serves[d].pc \notin Early /\ serves[d].pc # "crediting"
  BY <1>1 DEF Unmarked
<1>3. /\ s \in Serve /\ s.pc = serves[d].pc /\ s.undelivered = serves[d].undelivered
      /\ s.failed = serves[d].failed /\ s.external = serves[d].external /\ s.now = serves[d].now
  BY <1>1 DEF Serve
<1>4. serves' = [serves EXCEPT ![d] = s]
  BY <1>1 DEF LateCredit, Serve
<1>5. Planned(d, serves[d].now, account', plan.result)
  BY <1>1, PlanCredit DEF LateCredit
<1> HIDE DEF plan, s
<1> QED
  BY <1>1, <1>2, <1>3, <1>4, <1>5, CreditStep

LEMMA RetryDelivery ==
    ASSUME RefundInv, NEW d \in Deliveries, RetryCredit(d)
    PROVE  RefundInv'
<1> USE DEF RefundInv, DeliveryInv
<1> DEFINE plan == planCredit(d, serves[d].undelivered, refundTime)
<1>1. /\ UNCHANGED <<refundTime, serves, keyedCalls, merchant>> /\ refundTime \in Nat
      /\ serves[d] \in Serve /\ serves[d].now \in Nat /\ serves[d].now <= refundTime
      /\ refundTime <= refundTime
      /\ account.prepaidRefunds[d].createdAt \in Nat /\ Retention \in Nat
  BY RefundParts DEF RetryCredit, Dated
<1>2. serves[d].pc \notin Early
  BY DEF RetryCredit, Recovery, Unmarked
<1>3. InTime(d)
  BY <1>1 DEF RetryCredit, Recovery, InTime, Dated
<1>4. Planned(d, refundTime, plan.account, plan.result)
  BY <1>1, PlanCredit
<1>5. \/ account' = plan.account
      \/ account' = [plan.account EXCEPT !.prepaidRefunds[d] = NoObligation]
         /\ plan.result = "credited"
  BY DEF RetryCredit
<1>6. serves' = [serves EXCEPT ![d] = serves[d]]
  BY <1>1, RefundTypes
<1> HIDE DEF plan
<1>7. PICK a, result : /\ Planned(d, refundTime, a, result)
                       /\ \/ account' = a
                          \/ account' = [a EXCEPT !.prepaidRefunds[d] = NoObligation]
                             /\ result = "credited"
  BY <1>4, <1>5
<1> QED
  BY <1>1, <1>2, <1>3, <1>6, <1>7, CreditStep

\* A step that is about no delivery.
LEMMA NoDelivery ==
    ASSUME RefundInv, RefundTypeOK', refundTime <= refundTime', serves' = serves,
           merchant' = merchant, account'.credited = account.credited,
           account'.prepaidRefunds = account.prepaidRefunds, StaysClosed,
           \A d \in Deliveries : Forgets(d), ChargeInv'
    PROVE  RefundInv'
<1>1. \A d \in Deliveries : Elsewhere(d)
  BY DEF Elsewhere
<1> QED
  BY <1>1, ElsewhereInv DEF RefundInv

LEMMA AttemptStep ==
    ASSUME RefundInv, NEW a \in Attempts, Attempt(a)
    PROVE  RefundInv'
<1> USE DEF RefundInv
<1> DEFINE call == [pc |-> "sent", now |-> refundTime]
<1>1. /\ keyedCalls[a].pc = "idle" /\ UNCHANGED <<refundTime, account, serves, merchant>>
      /\ keyedCalls' = [keyedCalls EXCEPT ![a] = call] /\ refundTime \in Nat
      /\ keyedCalls \in [Attempts -> KeyedCall]
  BY RefundTypes DEF Attempt
<1>2. call \in KeyedCall /\ call.pc = "sent" /\ call.now = refundTime
  BY <1>1 DEF KeyedCall
<1> HIDE DEF call
<1>3. /\ keyedCalls' \in [Attempts -> KeyedCall] /\ keyedCalls'[a] = call
      /\ \A b \in Attempts \ {a} : keyedCalls'[b] = keyedCalls[b]
  BY <1>1, <1>2
<1>4. RefundTypeOK'
  BY <1>1, <1>3, RefundTypes, RefundTypesNext
<1>5. ChargeInv'
  <2>1. \A b \in Attempts : ChargeKept(b) => ChargeKept(b)'
    BY <1>1, <1>3 DEF ChargeKept
  <2> QED
    BY <1>1, <1>2, <1>3, <2>1 DEF ChargeInv
<1>6. refundTime <= refundTime' /\ StaysClosed /\ \A d \in Deliveries : Forgets(d)
  BY <1>1 DEF StaysClosed, Forgets
<1> QED
  BY <1>1, <1>4, <1>5, <1>6, NoDelivery

\* A charge is made while no attempt of it is forgotten, so its marker is
\* there when it was made before.
LEMMA DeductStep ==
    ASSUME RefundInv, NEW a \in Attempts, deductFromChannel(a)
    PROVE  RefundInv'
<1> USE DEF RefundInv
<1> DEFINE now  == keyedCalls[a].now
           plan == planKeyedDeduction(now)
           live == liveMarkers(now)
           mark == [outcome |-> "charged", expiresAt |-> now + Retention]
           after == [account EXCEPT !.spent = @ + 1, !.charges = @ + 1,
                                    !.markers = [live EXCEPT ![ChargeKey] = mark]]
<1>1. /\ keyedCalls[a].pc = "sent" /\ Retained /\ UNCHANGED <<refundTime, serves, merchant>>
      /\ refundTime \in Nat /\ keyedCalls \in [Attempts -> KeyedCall] /\ now \in Nat
      /\ now <= refundTime /\ account \in Account /\ Retention \in Nat \ {0}
      /\ ChargeKey \in Keys /\ ChargeKey \notin Deliveries
      /\ \A k \in Keys : account.markers[k].expiresAt \in Nat
      /\ \A b \in Attempts : keyedCalls[b].now \in Nat
      /\ account.charges \in Nat
  BY RefundTypes, RefundAssumption DEF deductFromChannel, ChargeInv, KeyedCall, Keys, Account
<1>2. /\ live \in [Keys -> [outcome : CreditOutcome \cup {"none", "charged"}, expiresAt : Nat]]
      /\ \A k \in Keys : \/ /\ live[k] = account.markers[k] /\ account.markers[k].expiresAt > now
                         \/ /\ live[k] = FreeKey /\ account.markers[k].expiresAt <= now
  BY <1>1, LiveMarkers
<1>3. ASSUME NEW pc \in {"charged", "refused", "lost"}, keyedCalls' = [keyedCalls EXCEPT ![a].pc = pc]
      PROVE  /\ keyedCalls' \in [Attempts -> KeyedCall]
             /\ keyedCalls'[a].pc = pc /\ keyedCalls'[a].now = now
             /\ \A b \in Attempts \ {a} : keyedCalls'[b] = keyedCalls[b]
  BY <1>1, <1>3 DEF KeyedCall
<1>4. ASSUME NEW pc \in {"charged", "refused", "lost"}, keyedCalls' = [keyedCalls EXCEPT ![a].pc = pc],
             account' = account, pc = "charged" => account.charges = 1
      PROVE  RefundInv'
  <2>1. RefundTypeOK'
    BY <1>1, <1>3, <1>4, RefundTypes, RefundTypesNext
  <2>2. ChargeInv'
    <3>1. \A b \in Attempts : ChargeKept(b) => ChargeKept(b)'
      BY <1>1, <1>3, <1>4 DEF ChargeKept
    <3> QED
      BY <1>1, <1>3, <1>4, <3>1 DEF ChargeInv
  <2>3. refundTime <= refundTime' /\ StaysClosed /\ \A d \in Deliveries : Forgets(d)
    BY <1>1, <1>4 DEF StaysClosed, Forgets
  <2> QED
    BY <1>1, <1>4, <2>1, <2>2, <2>3, NoDelivery
<1>5. CASE keyedCalls' = [keyedCalls EXCEPT ![a].pc = "lost"] /\ account' = account
  BY <1>4, <1>5
<1>6. CASE /\ account' = plan.account
           /\ \E pc \in {plan.result, "lost"} : keyedCalls' = [keyedCalls EXCEPT ![a].pc = pc]
  <2>1. CASE live[ChargeKey] # FreeKey
    <3>1. plan.result = "charged" /\ plan.account = account
      BY <2>1 DEF planKeyedDeduction
    <3>2. account.charges = 1
      BY <1>1, <1>2, <2>1 DEF ChargeInv
    <3> HIDE DEF plan
    <3> QED
      BY <1>4, <1>6, <3>1, <3>2
  <2>2. CASE live[ChargeKey] = FreeKey /\ ~CanCharge
    <3>1. plan.result = "refused" /\ plan.account = account
      BY <2>2 DEF planKeyedDeduction
    <3> HIDE DEF plan
    <3> QED
      BY <1>4, <1>6, <3>1
  <2>3. CASE live[ChargeKey] = FreeKey /\ CanCharge
    <3>1. plan.result = "charged" /\ plan.account = after
      BY <2>3 DEF planKeyedDeduction
    <3>2. PICK pc \in {"charged", "lost"} : keyedCalls' = [keyedCalls EXCEPT ![a].pc = pc]
      BY <1>6, <3>1
    <3>3. /\ keyedCalls' \in [Attempts -> KeyedCall]
          /\ keyedCalls'[a].pc = pc /\ keyedCalls'[a].now = now
          /\ \A b \in Attempts \ {a} : keyedCalls'[b] = keyedCalls[b]
      BY <1>3, <3>2
    <3>4. account.charges = 0
      <4>1. ASSUME account.charges = 1
            PROVE  FALSE
        <5>1. PICK b \in Attempts : ChargeKept(b)
          BY <4>1 DEF ChargeInv
        <5>2. /\ refundTime < keyedCalls[b].now + Retention
              /\ account.markers[ChargeKey].expiresAt = keyedCalls[b].now + Retention
              /\ account.markers[ChargeKey] # FreeKey
          BY <1>1, <5>1 DEF Retained, ChargeKept
        <5> QED
          BY <1>1, <1>2, <2>3, <5>2
      <4> QED
        BY <1>1, <4>1 DEF ChargeInv
    <3>5. /\ mark \in [outcome : CreditOutcome \cup {"none", "charged"}, expiresAt : Nat]
          /\ mark.expiresAt = now + Retention /\ mark # FreeKey
      BY <1>1 DEF FreeKey
    <3> HIDE DEF live, mark, now
    <3>6. [live EXCEPT ![ChargeKey] = mark] \in
             [Keys -> [outcome : CreditOutcome \cup {"none", "charged"}, expiresAt : Nat]]
      BY <1>2, <3>5
    <3>7. /\ after \in Account
          /\ after.credited = account.credited /\ after.prepaidRefunds = account.prepaidRefunds
          /\ after.settled = account.settled /\ after.finalized = account.finalized
          /\ after.charges = account.charges + 1
          /\ after.markers = [live EXCEPT ![ChargeKey] = mark]
      <4>1. account.spent + 1 \in Nat /\ account.charges + 1 \in Nat
        BY <1>1 DEF Account
      <4>2. after = [account EXCEPT !.spent = account.spent + 1, !.charges = account.charges + 1,
                                    !.markers = [live EXCEPT ![ChargeKey] = mark]]
        BY <1>1 DEF Account
      <4> HIDE DEF after
      <4> QED
        BY <1>1, <3>6, <4>1, <4>2 DEF Account
    <3> HIDE DEF after, plan
    <3>8. /\ account'.markers[ChargeKey] = mark
          /\ \A k \in Keys \ {ChargeKey} : account'.markers[k] = live[k]
      BY <1>1, <1>2, <1>6, <3>1, <3>7
    <3>9. RefundTypeOK'
      BY <1>1, <1>6, <3>1, <3>3, <3>7, RefundTypes, RefundTypesNext
    <3>10. StaysClosed
      BY <2>3 DEF StaysClosed, CanCharge
    <3>11. \A d \in Deliveries : Forgets(d)
      BY <1>1, <1>2, <3>8 DEF Forgets, Keys
    <3>12. account'.charges = 1
      BY <1>6, <3>1, <3>4, <3>7
    <3>13. ChargeKept(a)'
      BY <1>1, <3>3, <3>5, <3>8 DEF ChargeKept
    <3>14. ChargeInv'
      <4>1. \A b \in Attempts : keyedCalls'[b].now <= refundTime'
        BY <1>1, <3>3 DEF ChargeInv, now
      <4> QED
        BY <3>12, <3>13, <4>1 DEF ChargeInv
    <3> QED
      BY <1>1, <1>6, <3>1, <3>7, <3>9, <3>10, <3>11, <3>14, NoDelivery
  <2> QED
    BY <2>1, <2>2, <2>3
<1> QED
  BY <1>5, <1>6 DEF deductFromChannel

LEMMA CaptureStep ==
    ASSUME RefundInv, CaptureOrClose
    PROVE  RefundInv'
<1> USE DEF RefundInv
<1>1. /\ account \in Account /\ ~account.finalized
      /\ UNCHANGED <<refundTime, serves, keyedCalls, merchant>> /\ refundTime \in Nat
  BY RefundTypes DEF CaptureOrClose
<1>2. account.spent \in Nat /\ account.settled \in Nat
  BY <1>1 DEF Account
<1>3. /\ account' \in Account
      /\ account'.credited = account.credited /\ account'.prepaidRefunds = account.prepaidRefunds
      /\ account'.markers = account.markers /\ account'.charges = account.charges
  <2>1. CASE \E settled \in account.settled + 1 .. account.spent :
                account' = [account EXCEPT !.settled = settled]
    BY <1>1, <1>2, <2>1 DEF Account
  <2>2. CASE account' = [account EXCEPT !.closing = ~@]
    BY <1>1, <2>2 DEF Account
  <2>3. CASE \E settled \in account.settled .. account.spent :
                account' = [account EXCEPT !.settled = settled, !.closing = FALSE, !.finalized = TRUE]
    <3>1. PICK settled \in account.settled .. account.spent :
             account' = [account EXCEPT !.settled = settled, !.closing = FALSE, !.finalized = TRUE]
      BY <2>3
    <3>2. settled \in Nat
      BY <1>2
    <3> QED
      BY <1>1, <3>1, <3>2 DEF Account
  <2> QED
    BY <2>1, <2>2, <2>3 DEF CaptureOrClose
<1>4. RefundTypeOK'
  BY <1>1, <1>3, RefundTypes, RefundTypesNext
<1>5. refundTime <= refundTime' /\ StaysClosed /\ \A k : Forgets(k)
  BY <1>1, <1>3 DEF StaysClosed, Forgets
<1>6. ChargeInv'
  BY <1>1, <1>3, <1>4, <1>5, ChargeElsewhere
<1> QED
  BY <1>1, <1>3, <1>4, <1>5, <1>6, NoDelivery

LEMMA RefundInitInv ==
    ASSUME RefundInit
    PROVE  RefundInv
<1> DEFINE first == [pc |-> "idle", prepaid |-> PrepaidUnits, undelivered |-> PrepaidUnits,
                     awaiting |-> 0, failed |-> FALSE, external |-> 0, late |-> FALSE, now |-> 0]
<1>1. first \in Serve /\ FreeKey \in [outcome : CreditOutcome \cup {"none", "charged"}, expiresAt : Nat]
      /\ NoObligation \in [status : {"none", "pending", "failed"}, units : Nat, createdAt : Nat]
  BY RefundAssumption DEF Serve, FreeKey, NoObligation
<1>2. /\ serves = [d \in Deliveries |-> first] /\ refundTime = 0
      /\ keyedCalls = [a \in Attempts |-> [pc |-> "idle", now |-> 0]]
      /\ merchant = [d \in Deliveries |-> [job |-> "none", transferred |-> 0]]
  BY DEF RefundInit
<1>3. /\ account \in Account /\ account.charges = 0 /\ account.finalized = FALSE
      /\ \A d \in Deliveries : account.credited[d] = 0 /\ account.prepaidRefunds[d] = NoObligation
      /\ \A k \in Keys : account.markers[k] = FreeKey
  BY <1>1 DEF RefundInit, Account
<1>4. RefundTypeOK
  BY <1>1, <1>2, <1>3, RefundTypes DEF KeyedCall, Handed
<1>5. ASSUME NEW d \in Deliveries
      PROVE  DeliveryInv(d)
  <2>1. /\ serves[d].pc = "idle" /\ serves[d].undelivered = PrepaidUnits /\ ~serves[d].failed
        /\ serves[d].external = 0 /\ ~serves[d].late /\ serves[d].now = 0
        /\ merchant[d].job = "none" /\ merchant[d].transferred = 0
    BY <1>2
  <2>2. /\ account.markers[d].outcome = "none" /\ account.prepaidRefunds[d].status = "none"
        /\ account.prepaidRefunds[d].createdAt = 0
    BY <1>3 DEF Keys, FreeKey, NoObligation
  <2> QED
    BY <1>2, <1>3, <2>1, <2>2, RefundAssumption
    DEF DeliveryInv, Unmarked, Dated, Credited, Outside, Owed, At
<1>6. ChargeInv
  BY <1>2, <1>3 DEF ChargeInv, Keys
<1> QED
  BY <1>4, <1>5, <1>6 DEF RefundInv

LEMMA RefundStepInv ==
    ASSUME RefundInv, [RefundNext]_refundVars
    PROVE  RefundInv'
<1>1. ASSUME NEW d \in Deliveries, DeliveryStep(d)
      PROVE  RefundInv'
  BY <1>1, ChargeDelivery, PrepareDelivery, StreamDelivery, LeaveDelivery, ClearDelivery,
     FailureDelivery, CreditDelivery, LateDelivery, MerchantDelivery, RetryDelivery
  DEF DeliveryStep
<1>2. ASSUME NEW a \in Attempts, Attempt(a) \/ deductFromChannel(a)
      PROVE  RefundInv'
  BY <1>2, AttemptStep, DeductStep
<1>3. CASE CaptureOrClose
  BY <1>3, CaptureStep
<1>4. CASE RefundTick \/ UNCHANGED refundVars
  <2>1. /\ UNCHANGED <<account, serves, keyedCalls, merchant>>
        /\ refundTime \in Nat /\ refundTime' \in Nat /\ refundTime <= refundTime'
    BY <1>4, RefundTypes DEF RefundTick, refundVars, RefundInv
  <2>2. RefundTypeOK'
    BY <2>1, RefundTypes, RefundTypesNext DEF RefundInv
  <2>3. StaysClosed /\ \A k : Forgets(k)
    BY <2>1 DEF StaysClosed, Forgets
  <2>4. ChargeInv'
    BY <2>1, <2>2, <2>3, ChargeElsewhere
  <2> QED
    BY <2>1, <2>2, <2>3, <2>4, NoDelivery
<1> QED
  BY <1>1, <1>2, <1>3, <1>4 DEF RefundNext

LEMMA RefundSafe == RefundSpec => []RefundInv
<1>1. RefundInit => RefundInv
  BY RefundInitInv
<1>2. RefundInv /\ [RefundNext]_refundVars => RefundInv'
  BY RefundStepInv
<1> QED
  BY <1>1, <1>2, PTL DEF RefundSpec

\* RefundedOnce holds for any number of streams and units: a credit is
\* recognised by its marker for as long as anybody may send it again
\* (ChannelStore.ts:1355, planCredit), and what is handed to the merchant to
\* return outside is what a closed channel did not credit (Sse.ts:206).
THEOREM NothingRefundedTwice == RefundSpec => []RefundedOnce
<1>1. ASSUME RefundInv, NEW d \in Deliveries
      PROVE  account.credited[d] + merchant[d].transferred <= serves[d].undelivered
  BY <1>1, RefundParts DEF RefundInv, DeliveryInv, Credited, Outside
<1>2. RefundInv => RefundedOnce
  BY <1>1 DEF RefundedOnce
<1> QED
  BY <1>2, RefundSafe, PTL

\* OwedIsKept holds for any number of streams and units: an entry is cleared
\* only after its credit, after the merchant took it over, or when the channel
\* closed without the amount, wherever the server stops (Sse.ts:162,
\* clearObligation).
THEOREM OwedIsNotForgotten == RefundSpec => []OwedIsKept
<1>1. RefundInv => OwedIsKept
  BY DEF RefundInv, DeliveryInv, Owed, OwedIsKept, NothingCaptured
<1> QED
  BY <1>1, RefundSafe, PTL

\* KeyedChargeOnce holds for any number of attempts: the marker of the charge
\* outlives them (ChannelStore.ts:1276, planKeyedDeduction).
THEOREM KeyedChargeMadeOnce == RefundSpec => []KeyedChargeOnce
<1>1. RefundInv => KeyedChargeOnce
  BY DEF RefundInv, ChargeInv, KeyedChargeOnce
<1> QED
  BY <1>1, RefundSafe, PTL

\* TransfersWithinCapture holds for any number of streams and units: what one
\* returns is at most the capture less everything else that was spent, the
\* other streams' undelivered units included (Sse.ts:206,
\* externalRefundAmount), and none returns more than its own.
THEOREM TransfersCaptured == RefundSpec => []TransfersWithinCapture
<1>1. ASSUME RefundInv
      PROVE  TransfersWithinCapture
  <2> DEFINE R == {d \in Deliveries : merchant[d].transferred > 0}
             f == [d \in Deliveries |-> merchant[d].transferred]
             g == [d \in Deliveries |-> serves[d].undelivered]
             X == account.settled - account.spent
  <2>1. ASSUME NEW d \in R
        PROVE  f[d] \in Nat /\ g[d] \in Nat /\ f[d] <= g[d] /\ f[d] <= X + g[d] /\ X \in Int
    <3>1. /\ merchant[d].transferred \in Nat /\ serves[d].external \in Nat
          /\ serves[d].undelivered \in Nat /\ account.spent \in Nat /\ account.settled \in Nat
      BY <1>1, RefundParts DEF RefundInv
    <3>2. Outside(d)
      BY <1>1 DEF RefundInv, DeliveryInv
    <3> QED
      BY <3>1, <3>2 DEF Outside
  <2>2. IsFiniteSet(R)
    BY RefundAssumption, FS_Subset
  <2> SUFFICES ASSUME R # {}
               PROVE  SumFunctionOnSet(f, R) <= X + SumFunctionOnSet(g, R)
    BY DEF TransfersWithinCapture
  <2> PICK d \in R : TRUE
    OBVIOUS
  <2> DEFINE T == R \ {d}
  <2> HIDE DEF R, f, g, X
  <2>3. IsFiniteSet(T) /\ T \subseteq R
    BY <2>2, FS_Subset
  <2>4. Numbers(f, R) /\ Numbers(g, R) /\ Numbers(f, T) /\ Numbers(g, T)
    BY <2>1 DEF Numbers
  <2>5. SumFunctionOnSet(f, R) = f[d] + SumFunctionOnSet(f, T)
    BY <2>2, <2>4, SumTake
  <2>6. SumFunctionOnSet(g, R) = g[d] + SumFunctionOnSet(g, T)
    BY <2>2, <2>4, SumTake
  <2>7. SumFunctionOnSet(f, T) <= SumFunctionOnSet(g, T)
    BY <2>1, <2>3, <2>4, SumLeq
  <2>8. SumFunctionOnSet(f, T) \in Nat /\ SumFunctionOnSet(g, T) \in Nat
    BY <2>3, <2>4, SumType
  <2> HIDE DEF T
  <2> QED
    BY <2>1, <2>5, <2>6, <2>7, <2>8
<1> QED
  BY <1>1, RefundSafe, PTL
-----------------------------------------------------------------------------
(* The client's channels *)

Use == [pc : {"idle", "started", "signing", "opening", "sent", "refused", "evicting", "done"},
        restore : Entries, committed : BOOLEAN, resumed : Entries, seen : BOOLEAN,
        created : Channels \cup {"none"}, opened : BOOLEAN, canRetryResumed : BOOLEAN,
        topUp : TopUps \cup {NoTopUp}, entry : Entries]

TopUp == [pc : {"idle", "waiting"} \cup UnderLock \cup Ended,
          channelId : Channels \cup {"none"}, refused : BOOLEAN]

Kept == [channel : Entries, ignored : SUBSET Channels, uncertainFunding : BOOLEAN]

Checking == {"checking", "sent", "lost"}

\* A top-up that decides or has a deposit out is the first on the funding lock.
Locked == \A t \in TopUps : topUps[t].pc \in Checking => funding # <<>> /\ Head(funding) = t

Named == \A t \in TopUps :
    topUps[t].pc \in UnderLock \cup {"unknown"} => topUps[t].channelId # "none"

Marked == \A t \in TopUps : topUps[t].pc = "unknown" =>
    stored.channelId = topUps[t].channelId /\ stored.uncertainTopUp

\* A fetch signs with a channel its manager does not ignore.
Signing == \A m \in Managers : fetches[m].pc = "signing" =>
    fetches[m].entry # NoEntry /\ fetches[m].entry.channelId \notin managers[m].ignored

\* A channel that was not opened yet is named nowhere.
Opened(c) == c \in Managers => fetches[c].opened

Fresh ==
    /\ Opened(stored.channelId)
    /\ \A t \in TopUps : Opened(topUps[t].channelId)
    /\ \A m \in Managers : /\ Opened(managers[m].channel.channelId)
                           /\ Opened(fetches[m].restore.channelId)
                           /\ Opened(fetches[m].entry.channelId)

\* Who checks a channel with a marked deposit has seen the mark.
Warned == \A t, u \in TopUps :
    /\ topUps[t].pc = "checking" /\ topUps[u].pc = "unknown"
    /\ topUps[u].channelId = topUps[t].channelId
    => topUps[t].refused \/ topUps[t].channelId \in managers[Manager[t]].ignored

Funded == ClientTypeOK /\ Locked /\ Named /\ Marked /\ Signing /\ Fresh /\ Warned
-----------------------------------------------------------------------------
(* The helpers are well typed *)

\* The type invariant with its records named.
LEMMA Types ==
    ClientTypeOK <=> /\ stored \in Entries
                     /\ funding \in Seq(TopUps)
                     /\ managers \in [Managers -> Kept]
                     /\ topUps \in [TopUps -> TopUp]
                     /\ fetches \in [Managers -> Use]
BY DEF ClientTypeOK, Use, TopUp, Kept

LEMMA TypesNext ==
    ClientTypeOK' <=> /\ stored' \in Entries
                      /\ funding' \in Seq(TopUps)
                      /\ managers' \in [Managers -> Kept]
                      /\ topUps' \in [TopUps -> TopUp]
                      /\ fetches' \in [Managers -> Use]
BY DEF ClientTypeOK, Use, TopUp, Kept

LEMMA EntryFacts ==
    /\ "none" \notin Channels
    /\ NoEntry \in Entries /\ NoEntry.channelId = "none" /\ ~NoEntry.uncertainTopUp
    /\ \A e \in Entries : /\ e.uncertainTopUp \in BOOLEAN
                          /\ e.channelId \in Channels \cup {"none"}
                          /\ e # NoEntry => e.channelId \in Channels
                          /\ e.channelId = "none" => e = NoEntry
    /\ \A c \in Channels, b \in BOOLEAN : [channelId |-> c, uncertainTopUp |-> b] \in Entries
<1>1. "none" \notin Channels
  BY ClientAssumption DEF Channels
<1>2. NoEntry \in Entries /\ NoEntry.channelId = "none" /\ NoEntry.uncertainTopUp = FALSE
  BY DEF Entries, NoEntry
<1>3. ASSUME NEW e \in Entries
      PROVE  /\ e.uncertainTopUp \in BOOLEAN
             /\ e.channelId \in Channels \cup {"none"}
             /\ e # NoEntry => e.channelId \in Channels
             /\ e.channelId = "none" => e = NoEntry
  BY <1>1, <1>2, <1>3 DEF Entries
<1>4. \A c \in Channels, b \in BOOLEAN : [channelId |-> c, uncertainTopUp |-> b] \in Entries
  BY DEF Entries
<1> QED
  BY <1>1, <1>2, <1>3, <1>4

LEMMA PersistType ==
    ASSUME NEW entry \in Entries, entry # NoEntry, stored \in Entries
    PROVE  /\ persistChannel(entry) \in Entries
           /\ persistChannel(entry) # NoEntry
           /\ persistChannel(entry).channelId = entry.channelId
           /\ stored.uncertainTopUp => persistChannel(entry).uncertainTopUp
<1>1. entry \in [channelId : Channels, uncertainTopUp : BOOLEAN]
  BY DEF Entries
<1>2. stored.uncertainTopUp \in BOOLEAN
  BY EntryFacts
<1>3. persistChannel(entry) \in [channelId : Channels, uncertainTopUp : BOOLEAN]
  BY <1>1, <1>2 DEF persistChannel
<1> QED
  BY <1>1, <1>2, <1>3, EntryFacts DEF persistChannel, Entries

LEMMA ReusableType ==
    ASSUME ClientTypeOK, NEW m \in Managers
    PROVE  /\ getReusable(m) \in Entries
           /\ getReusable(m) \in {stored, NoEntry}
           /\ getReusable(m) # NoEntry => getReusable(m).channelId \notin managers[m].ignored
BY EntryFacts, Types DEF getReusable

LEMMA SawType ==
    ASSUME ClientTypeOK, NEW m \in Managers
    PROVE  /\ Saw(m) \in Use
           /\ Saw(m).pc = fetches[m].pc /\ Saw(m).entry = fetches[m].entry
           /\ Saw(m).opened = fetches[m].opened /\ Saw(m).restore = fetches[m].restore
<1>1. fetches[m] \in Use
  BY Types
<1> QED
  BY <1>1, ReusableType DEF Saw, Use

LEMMA TrackedType ==
    ASSUME NEW m \in Managers, NEW use \in Use, NEW entry, entry.channelId \in Channels
    PROVE  /\ Tracked(m, use, entry) \in Use
           /\ Tracked(m, use, entry).pc = use.pc /\ Tracked(m, use, entry).entry = use.entry
           /\ Tracked(m, use, entry).opened = use.opened
           /\ Tracked(m, use, entry).restore = use.restore
BY DEF Tracked, Use

LEMMA CommitType ==
    ASSUME NEW m \in Managers, NEW use \in Use, NEW entry \in Entries
    PROVE  LET after == commitDurableTopUp(m, use, entry)
           IN /\ after \in Use
              /\ after.pc = use.pc /\ after.entry = use.entry /\ after.opened = use.opened
              /\ after.restore \in {use.restore, entry}
BY EntryFacts DEF commitDurableTopUp, Use

LEMMA UsingType ==
    ASSUME ClientTypeOK, NEW m \in Managers, NEW entry \in Entries
    PROVE  /\ Using(m, entry) \in Kept
           /\ Using(m, entry).channel = entry
           /\ Using(m, entry).ignored = managers[m].ignored \ {entry.channelId}
<1>1. managers[m] \in Kept
  BY Types
<1> QED
  BY <1>1 DEF Using, Kept

\* A refused write takes at most the entry's channel off the ignored ones.
LEMMA IgnoredType ==
    ASSUME NEW m, NEW entry, NEW asksView
    PROVE  /\ IgnoredAfter(m, entry, asksView) \subseteq managers[m].ignored
           /\ managers[m].ignored \ {entry.channelId} \subseteq IgnoredAfter(m, entry, asksView)
BY DEF IgnoredAfter
-----------------------------------------------------------------------------
(* The state stays well typed, and what is marked stays marked *)

\* A write keeps the mark and its channel.
Keeps == stored.uncertainTopUp => stored'.channelId = stored.channelId /\ stored'.uncertainTopUp

LEMMA WriteKeeps ==
    ASSUME ClientTypeOK, NEW entry \in Entries, entry # NoEntry,
           MayPersist(entry), stored' = persistChannel(entry)
    PROVE  stored' \in Entries /\ stored' # NoEntry /\ stored'.channelId = entry.channelId /\ Keeps
BY PersistType, Types DEF MayPersist, Keeps

LEMMA HeadType ==
    ASSUME ClientTypeOK, Locked, NEW t \in TopUps, topUps[t].pc \in Checking
    PROVE  Tail(funding) \in Seq(TopUps)
BY Types DEF Locked

LEMMA EndsType ==
    ASSUME ClientTypeOK, Locked, NEW t \in TopUps, topUps[t].pc \in Checking,
           NEW pc \in Ended, Ends(t, pc)
    PROVE  funding' \in Seq(TopUps) /\ topUps' \in [TopUps -> TopUp]
<1>1. \A u \in TopUps : topUps[u] \in TopUp
  BY Types
<1>2. \A u \in TopUps : [topUps[u] EXCEPT !.pc = pc] \in TopUp /\ [topUps[u] EXCEPT !.pc = "failed"] \in TopUp
  BY <1>1 DEF TopUp, Ended
<1> QED
  BY <1>1, <1>2, HeadType DEF Ends

\* A top-up that has its turn names a channel; what its answer writes is an entry.
LEMMA HeldType ==
    ASSUME ClientTypeOK, Named, NEW t \in TopUps, topUps[t].pc \in UnderLock
    PROVE  /\ topUps[t].channelId \in Channels
           /\ HeldEntry(t) \in Entries /\ HeldEntry(t) # NoEntry
           /\ HeldEntry(t).channelId = topUps[t].channelId
<1>1. topUps[t].channelId \in Channels
  BY Types DEF Named, TopUp
<1>2. Manager[t] \in Managers
  BY ClientAssumption
<1>3. getReusable(Manager[t]) \in Entries /\ managers[Manager[t]].channel \in Entries
  BY <1>2, ReusableType, Types DEF Kept
<1> QED
  BY <1>1, <1>3, EntryFacts DEF HeldEntry

LEMMA MovedType ==
    ASSUME NEW q \in TopUp, NEW pc \in {"idle", "waiting"} \cup UnderLock \cup Ended,
           NEW id \in Channels \cup {"none"}
    PROVE  [q EXCEPT !.pc = pc, !.channelId = id] \in TopUp
BY DEF TopUp

LEMMA TypedTopUp ==
    ASSUME ClientTypeOK, Locked, Named, NEW t \in TopUps,
           \/ Ask(t) \/ Abort(t) \/ Acquire(t) \/ Check(t) \/ Post(t) \/ Refused(t) \/ Lost(t)
    PROVE  ClientTypeOK' /\ UNCHANGED stored
<1> DEFINE m == Manager[t]
<1>1. /\ m \in Managers /\ managers[m] \in Kept /\ topUps[t] \in TopUp /\ fetches[m] \in Use
      /\ stored \in Entries /\ funding \in Seq(TopUps) /\ managers \in [Managers -> Kept]
      /\ topUps \in [TopUps -> TopUp] /\ fetches \in [Managers -> Use]
  BY ClientAssumption, Types
<1>2. CASE Ask(t)
  <2>1. managers[m].channel.channelId \in Channels \cup {"none"}
    BY <1>1, EntryFacts DEF Kept
  <2> DEFINE pc == IF managers[m].uncertainFunding THEN "failed" ELSE "waiting"
             id == IF t \in Challenged THEN "none" ELSE managers[m].channel.channelId
  <2>2. topUps' \in [TopUps -> TopUp]
    <3>1. topUps' = [topUps EXCEPT ![t] = [topUps[t] EXCEPT !.pc = pc, !.channelId = id]]
      BY <1>2 DEF Ask
    <3>2. pc \in {"idle", "waiting"} \cup UnderLock \cup Ended
      BY DEF Ended
    <3>3. id \in Channels \cup {"none"}
      BY <1>1, <2>1 DEF TopUp
    <3> HIDE DEF pc, id
    <3> QED
      BY <1>1, <3>1, <3>2, <3>3, MovedType
  <2>3. fetches' \in [Managers -> Use]
    <3>1. fetches' \in {fetches, [fetches EXCEPT ![m] = [fetches[m] EXCEPT !.topUp = t]]}
      BY <1>1, <1>2 DEF Ask
    <3>2. [fetches[m] EXCEPT !.topUp = t] \in Use
      BY <1>1 DEF Use
    <3> QED
      BY <1>1, <3>1, <3>2
  <2> QED
    BY <1>1, <1>2, <2>2, <2>3, TypesNext DEF Ask
<1>3. CASE Abort(t)
  BY <1>1, <1>3, TypesNext DEF Abort, TopUp, Ended
<1>4. CASE Acquire(t)
  <2>1. getReusable(m).channelId \in Channels \cup {"none"}
    BY <1>1, ReusableType, EntryFacts
  <2> DEFINE id == IF t \in Challenged THEN getReusable(m).channelId ELSE topUps[t].channelId
  <2>2. topUps' \in [TopUps -> TopUp]
    <3>1. id \in Channels \cup {"none"}
      BY <1>1, <2>1 DEF TopUp
    <3>2. PICK pc \in {"done", "queued", "failed"} :
             \/ topUps' = [topUps EXCEPT ![t].pc = pc]
             \/ topUps' = [topUps EXCEPT ![t] = [topUps[t] EXCEPT !.pc = pc, !.channelId = id]]
      BY <1>4 DEF Acquire
    <3>3. pc \in {"idle", "waiting"} \cup UnderLock \cup Ended
      BY <3>2 DEF Ended, UnderLock
    <3>4. [topUps[t] EXCEPT !.pc = pc] \in TopUp
      BY <1>1, <3>3 DEF TopUp
    <3>5. [topUps[t] EXCEPT !.pc = pc, !.channelId = id] \in TopUp
      BY <1>1, <3>1, <3>3, MovedType
    <3> HIDE DEF id
    <3> QED
      BY <1>1, <3>2, <3>4, <3>5
  <2>3. fetches' \in [Managers -> Use]
    BY <1>1, <1>4, SawType DEF Acquire
  <2>4. funding' \in Seq(TopUps)
    BY <1>1, <1>4 DEF Acquire
  <2> QED
    BY <1>1, <1>4, <2>2, <2>3, <2>4, TypesNext DEF Acquire
<1>5. CASE Check(t)
  <2>1. topUps' \in [TopUps -> TopUp]
    BY <1>1, <1>5, ReusableType, EntryFacts DEF Check, TopUp, UnderLock
  <2>2. fetches' \in [Managers -> Use]
    BY <1>1, <1>5, SawType DEF Check
  <2> QED
    BY <1>1, <1>5, <2>1, <2>2, TypesNext DEF Check
<1>6. CASE Post(t)
  <2>1. CASE topUps' = [topUps EXCEPT ![t].pc = "sent"] /\ UNCHANGED funding
    BY <1>1, <1>6, <2>1, TypesNext DEF Post, TopUp, UnderLock, DepositOut
  <2>2. ASSUME NEW pc \in {"failed", "done"}, Ends(t, pc)
        PROVE  ClientTypeOK'
    BY <1>1, <1>6, <2>2, EndsType, TypesNext DEF Post, Topping, Checking, Ended
  <2> QED
    BY <1>6, <2>1, <2>2 DEF Post
<1>7. CASE Refused(t)
  BY <1>1, <1>7, EndsType, TypesNext DEF Refused, Topping, Checking, Ended
<1>8. CASE Lost(t)
  BY <1>1, <1>8, TypesNext DEF Lost, TopUp, UnderLock, DepositOut
<1> QED
  BY <1>2, <1>3, <1>4, <1>5, <1>6, <1>7, <1>8 DEF Ask, Abort, Acquire, Check, Post, Refused, Lost

\* All that a step of a top-up does to the store, the managers and the fetches.
Quiet(t) ==
    /\ Keeps
    /\ stored'.channelId \in {stored.channelId, topUps[t].channelId}
    /\ \A n \in Managers :
          /\ managers'[n].channel.channelId \in {managers[n].channel.channelId, topUps[t].channelId}
          /\ managers'[n].ignored \subseteq managers[n].ignored
          /\ fetches'[n].pc = fetches[n].pc
          /\ fetches'[n].entry = fetches[n].entry
          /\ fetches'[n].opened = fetches[n].opened
          /\ fetches'[n].restore.channelId \in
                {fetches[n].restore.channelId, managers[n].channel.channelId, topUps[t].channelId}

LEMMA QuietTopUp ==
    ASSUME ClientTypeOK, NEW t \in TopUps,
           \/ Ask(t) \/ Abort(t) \/ Acquire(t) \/ Check(t) \/ Post(t) \/ Refused(t) \/ Lost(t)
    PROVE  Quiet(t) /\ UNCHANGED managers
<1> DEFINE m == Manager[t]
<1>1. m \in Managers /\ fetches \in [Managers -> Use]
  BY ClientAssumption, Types
<1>2. UNCHANGED <<stored, managers>>
  BY DEF Ask, Abort, Acquire, Check, Post, Refused, Lost
<1>3. fetches[m] \in Use
  BY <1>1
<1>4. PICK use \in {fetches[m], Saw(m), [fetches[m] EXCEPT !.topUp = t]} :
         fetches' = [fetches EXCEPT ![m] = use]
  BY <1>1 DEF Ask, Abort, Acquire, Check, Post, Refused, Lost
<1>5. use.pc = fetches[m].pc /\ use.entry = fetches[m].entry
      /\ use.opened = fetches[m].opened /\ use.restore = fetches[m].restore
  BY <1>3, <1>4, <1>1, SawType DEF Use
<1> QED
  BY <1>1, <1>2, <1>4, <1>5 DEF Quiet, Keeps

\* The answer to a deposit.
LEMMA Answered ==
    ASSUME ClientTypeOK, Locked, Named, NEW t \in TopUps, Accepted(t)
    PROVE  ClientTypeOK' /\ Quiet(t)
<1> DEFINE m == Manager[t]
           applied == HeldEntry(t)
           read == IF t \in Challenged THEN Saw(m) ELSE fetches[m]
           use == Tracked(m, read, applied)
<1>1. /\ m \in Managers /\ managers \in [Managers -> Kept] /\ fetches \in [Managers -> Use]
      /\ topUps[t].pc = "sent" /\ stored \in Entries
  BY ClientAssumption, Types DEF Accepted, Topping
<1>2. /\ applied \in Entries /\ applied # NoEntry
      /\ applied.channelId = topUps[t].channelId /\ applied.channelId \in Channels
  BY <1>1, HeldType DEF UnderLock, DepositOut
<1>3. /\ use \in Use /\ use.pc = fetches[m].pc /\ use.entry = fetches[m].entry
      /\ use.opened = fetches[m].opened /\ use.restore = fetches[m].restore
  <2>1. /\ read \in Use /\ read.pc = fetches[m].pc /\ read.entry = fetches[m].entry
        /\ read.opened = fetches[m].opened /\ read.restore = fetches[m].restore
    BY <1>1, SawType
  <2> HIDE DEF read, applied
  <2> QED
    BY <1>1, <1>2, <2>1, TrackedType
<1>4. CASE /\ MayPersist(applied)
           /\ stored' = persistChannel(applied)
           /\ managers' = [managers EXCEPT ![m] = Using(m, stored')]
           /\ fetches' = [fetches EXCEPT ![m] = commitDurableTopUp(m, use, stored')]
           /\ Ends(t, "done")
  <2> HIDE DEF use, applied
  <2>1. stored' \in Entries /\ stored'.channelId = topUps[t].channelId /\ Keeps
    BY <1>2, <1>4, WriteKeeps
  <2> DEFINE after == commitDurableTopUp(m, use, stored')
  <2>2. /\ after \in Use /\ after.pc = use.pc /\ after.entry = use.entry
        /\ after.opened = use.opened /\ after.restore \in {use.restore, stored'}
    BY <1>1, <1>3, <2>1, CommitType
  <2>3. /\ Using(m, stored') \in Kept /\ Using(m, stored').channel = stored'
        /\ Using(m, stored').ignored \subseteq managers[m].ignored
    BY <1>1, <2>1, UsingType
  <2>4. funding' \in Seq(TopUps) /\ topUps' \in [TopUps -> TopUp]
    BY <1>1, <1>4, EndsType DEF Checking, Ended
  <2> HIDE DEF after
  <2>5. ClientTypeOK'
    BY <1>1, <1>4, <2>1, <2>2, <2>3, <2>4, TypesNext DEF after
  <2> QED
    BY <1>1, <1>3, <1>4, <2>1, <2>2, <2>3, <2>5 DEF Quiet, after
<1>5. CASE /\ UNCHANGED <<stored, managers, fetches>>
           /\ \E pc \in {"done", "failed"} : Ends(t, pc)
  <2>1. funding' \in Seq(TopUps) /\ topUps' \in [TopUps -> TopUp]
    BY <1>1, <1>5, EndsType DEF Checking, Ended
  <2> QED
    BY <1>1, <1>5, <2>1, TypesNext DEF Quiet, Keeps
<1>6. CASE /\ managers' = [managers EXCEPT ![m].ignored =
                              IgnoredAfter(m, applied, t \in Challenged)]
           /\ fetches' = [fetches EXCEPT ![m] = use]
           /\ Ends(t, "failed") /\ UNCHANGED stored
  <2> DEFINE ignored == IgnoredAfter(m, applied, t \in Challenged)
             held == [managers[m] EXCEPT !.ignored = ignored]
  <2>1. ignored \subseteq managers[m].ignored
    BY IgnoredType
  <2>2. managers' = [managers EXCEPT ![m] = held]
    BY <1>6
  <2> HIDE DEF ignored, use
  <2>3. held \in Kept /\ held.channel = managers[m].channel /\ held.ignored = ignored
    BY <1>1, <2>1 DEF Kept
  <2>4. funding' \in Seq(TopUps) /\ topUps' \in [TopUps -> TopUp]
    BY <1>1, <1>6, EndsType DEF Checking, Ended
  <2> HIDE DEF held
  <2>5. ClientTypeOK'
    BY <1>1, <1>3, <1>6, <2>2, <2>3, <2>4, TypesNext
  <2> QED
    BY <1>1, <1>3, <1>6, <2>1, <2>2, <2>3, <2>5 DEF Quiet, Keeps
<1> QED
  BY <1>4, <1>5, <1>6 DEF Accepted

LEMMA MarkedUnknown ==
    ASSUME ClientTypeOK, Locked, Named, NEW t \in TopUps, MarkUnknown(t)
    PROVE  ClientTypeOK' /\ Quiet(t)
<1> DEFINE m == Manager[t]
           unresolved == [channelId |-> topUps[t].channelId, uncertainTopUp |-> TRUE]
           inUse == t \in Challenged \/ managers[m].channel.channelId = unresolved.channelId
           use == Tracked(m, Saw(m), unresolved)
<1>1. /\ m \in Managers /\ managers \in [Managers -> Kept] /\ fetches \in [Managers -> Use]
      /\ topUps[t].pc = "lost" /\ stored \in Entries
      /\ managers[m] \in Kept /\ managers[m].channel \in Entries
  BY ClientAssumption, Types DEF MarkUnknown, Topping, Kept
<1>2. /\ unresolved \in Entries /\ unresolved.channelId = topUps[t].channelId
      /\ unresolved.channelId \in Channels /\ unresolved.uncertainTopUp
  BY <1>1, HeldType, EntryFacts DEF UnderLock, DepositOut
<1>3. /\ Saw(m) \in Use /\ Saw(m).pc = fetches[m].pc /\ Saw(m).entry = fetches[m].entry
      /\ Saw(m).opened = fetches[m].opened /\ Saw(m).restore = fetches[m].restore
  BY <1>1, SawType
<1>4. /\ use \in Use /\ use.pc = fetches[m].pc /\ use.entry = fetches[m].entry
      /\ use.opened = fetches[m].opened /\ use.restore = fetches[m].restore
  <2> HIDE DEF unresolved
  <2> QED
    BY <1>1, <1>2, <1>3, TrackedType
<1>5. CASE MayPersist(unresolved)
  <2> DEFINE channel == IF inUse THEN unresolved ELSE managers[m].channel
             held == [Using(m, channel) EXCEPT
                         !.ignored = managers[m].ignored \ {unresolved.channelId},
                         !.uncertainFunding = TRUE]
             after == commitDurableTopUp(m, use, unresolved)
             fetch == IF after = use THEN use ELSE [after EXCEPT !.restore = managers'[m].channel]
  <2>1. /\ stored' = unresolved
        /\ managers' = [managers EXCEPT ![m] = held]
        /\ fetches' = [fetches EXCEPT ![m] = fetch]
        /\ Ends(t, "unknown")
    BY <1>5 DEF MarkUnknown
  <2>2. channel \in Entries
        /\ channel.channelId \in {managers[m].channel.channelId, topUps[t].channelId}
    BY <1>1, <1>2
  <2>3. Using(m, channel) \in Kept /\ Using(m, channel).channel = channel
    <3> HIDE DEF channel
    <3> QED
      BY <1>1, <2>2, UsingType
  <2>4. held \in Kept /\ held.channel = channel /\ held.ignored \subseteq managers[m].ignored
    <3> HIDE DEF channel
    <3> QED
      BY <1>1, <2>3 DEF Kept
  <2>5. /\ after \in Use /\ after.pc = use.pc /\ after.entry = use.entry
        /\ after.opened = use.opened /\ after.restore \in {use.restore, unresolved}
    <3> HIDE DEF use, unresolved
    <3> QED
      BY <1>1, <1>2, <1>4, CommitType
  <2>6. managers' \in [Managers -> Kept] /\ managers'[m].channel = channel
    <3> HIDE DEF held, channel
    <3> QED
      BY <1>1, <2>1, <2>4
  <2>7. /\ fetch \in Use /\ fetch.pc = use.pc /\ fetch.entry = use.entry
        /\ fetch.opened = use.opened /\ fetch.restore \in {use.restore, channel}
    <3> HIDE DEF after, use, channel
    <3> QED
      BY <1>1, <1>4, <2>2, <2>5, <2>6 DEF Use
  <2>8. funding' \in Seq(TopUps) /\ topUps' \in [TopUps -> TopUp]
    BY <1>1, <2>1, EndsType DEF Checking, Ended
  <2>9. Keeps
    BY <1>2, <1>5, <2>1 DEF MayPersist, Keeps
  <2> HIDE DEF held, fetch, channel, use, unresolved
  <2>10. ClientTypeOK'
    BY <1>1, <1>2, <2>1, <2>6, <2>7, <2>8, TypesNext
  <2> QED
    BY <1>1, <1>2, <1>4, <2>1, <2>2, <2>4, <2>7, <2>9, <2>10 DEF Quiet
<1>6. CASE ~MayPersist(unresolved)
  <2> DEFINE ignored == IgnoredAfter(m, unresolved, t \in Challenged)
             channel == IF t \notin Challenged /\ inUse THEN unresolved ELSE managers[m].channel
             held == [managers[m] EXCEPT !.channel = channel, !.ignored = ignored]
  <2>1. /\ managers' = [managers EXCEPT ![m] = held]
        /\ fetches' = [fetches EXCEPT ![m] = use]
        /\ Ends(t, "unmarked") /\ UNCHANGED stored
    <3>1. /\ managers' = [managers EXCEPT ![m].channel = channel, ![m].ignored = ignored]
          /\ fetches' = [fetches EXCEPT ![m] = use]
          /\ Ends(t, "unmarked") /\ UNCHANGED stored
      BY <1>6 DEF MarkUnknown
    <3> HIDE DEF ignored, channel, use
    <3> QED
      BY <1>1, <3>1
  <2>2. funding' \in Seq(TopUps) /\ topUps' \in [TopUps -> TopUp]
    BY <1>1, <2>1, EndsType DEF Checking, Ended
  <2>3. ignored \subseteq managers[m].ignored
    BY IgnoredType
  <2>4. channel \in Entries
        /\ channel.channelId \in {managers[m].channel.channelId, topUps[t].channelId}
    BY <1>1, <1>2
  <2> HIDE DEF unresolved, ignored, channel, use
  <2>5. held \in Kept /\ held.channel = channel /\ held.ignored = ignored
    BY <1>1, <2>3, <2>4 DEF Kept
  <2> HIDE DEF held
  <2>6. ClientTypeOK'
    BY <1>1, <1>4, <2>1, <2>2, <2>5, TypesNext
  <2> QED
    BY <1>1, <1>4, <2>1, <2>3, <2>4, <2>5, <2>6 DEF Quiet, Keeps
<1> QED
  BY <1>5, <1>6
-----------------------------------------------------------------------------
(* A fetch *)

\* All that a step of a manager's fetch does.
Steady(m) ==
    /\ Keeps
    /\ UNCHANGED <<funding, topUps>>
    /\ \A n \in Managers \ {m} : managers'[n] = managers[n] /\ fetches'[n] = fetches[n]
    /\ fetches[m].opened => fetches'[m].opened
    /\ fetches'[m].pc = "signing" =>
          fetches'[m].entry # NoEntry /\ fetches'[m].entry.channelId \notin managers'[m].ignored
    /\ \A c \in managers[m].ignored :
          \/ c \in managers'[m].ignored
          \/ c = m /\ ~fetches[m].opened
          \/ stored.uncertainTopUp /\ stored.channelId # c
    /\ \A id \in {stored'.channelId, managers'[m].channel.channelId,
                  fetches'[m].restore.channelId, fetches'[m].entry.channelId} :
          \/ id \in {"none", stored.channelId, managers[m].channel.channelId,
                     fetches[m].restore.channelId, fetches[m].entry.channelId}
          \/ id = m /\ fetches'[m].opened

LEMMA FetchFacts ==
    ASSUME ClientTypeOK, NEW m \in Managers
    PROVE  /\ stored \in Entries /\ funding \in Seq(TopUps)
           /\ managers \in [Managers -> Kept] /\ topUps \in [TopUps -> TopUp]
           /\ fetches \in [Managers -> Use]
           /\ managers[m] \in Kept /\ managers[m].channel \in Entries
           /\ fetches[m] \in Use /\ fetches[m].restore \in Entries
           /\ fetches[m].entry \in Entries /\ fetches[m].opened \in BOOLEAN
BY Types DEF Kept, Use

\* A step that changes the locals of the fetch and nothing else.
LEMMA LocalStep ==
    ASSUME ClientTypeOK, NEW m \in Managers, NEW use \in Use,
           fetches' = [fetches EXCEPT ![m] = use],
           UNCHANGED <<stored, funding, managers, topUps>>,
           use.opened = fetches[m].opened,
           use.restore \in {fetches[m].restore, managers[m].channel},
           \/ use.entry = fetches[m].entry /\ use.pc # "signing"
           \/ /\ use.entry \in {stored, NoEntry}
              /\ use.pc = "signing" =>
                    use.entry # NoEntry /\ use.entry.channelId \notin managers[m].ignored
    PROVE  ClientTypeOK' /\ Steady(m)
<1>1. ClientTypeOK'
  BY FetchFacts, TypesNext
<1>2. fetches'[m] = use /\ \A n \in Managers \ {m} : fetches'[n] = fetches[n]
  BY FetchFacts
<1>3. NoEntry.channelId = "none"
  BY EntryFacts
<1> QED
  BY <1>1, <1>2, <1>3 DEF Steady, Keeps

LEMMA Started ==
    ASSUME ClientTypeOK, NEW m \in Managers, FetchStart(m)
    PROVE  ClientTypeOK' /\ Steady(m)
<1> DEFINE use == [fetches[m] EXCEPT !.pc = "started", !.restore = managers[m].channel,
                                     !.canRetryResumed = managers[m].channel = NoEntry]
<1>1. /\ use \in Use /\ use.pc = "started" /\ use.entry = fetches[m].entry
      /\ use.opened = fetches[m].opened /\ use.restore = managers[m].channel
  BY FetchFacts DEF Use
<1>2. fetches' = [fetches EXCEPT ![m] = use] /\ UNCHANGED <<stored, funding, managers, topUps>>
  BY DEF FetchStart
<1> HIDE DEF use
<1> QED
  BY <1>1, <1>2, LocalStep

LEMMA PlannedFetch ==
    ASSUME ClientTypeOK, NEW m \in Managers, Plan(m)
    PROVE  ClientTypeOK' /\ Steady(m)
<1> DEFINE entry == getReusable(m)
           use == [Saw(m) EXCEPT !.pc = IF entry = NoEntry THEN "opening" ELSE "signing",
                                 !.topUp = NoTopUp, !.entry = entry]
<1>1. /\ entry \in Entries /\ entry \in {stored, NoEntry}
      /\ entry # NoEntry => entry.channelId \notin managers[m].ignored
  BY ReusableType
<1>2. /\ use \in Use /\ use.entry = entry /\ use.opened = fetches[m].opened
      /\ use.restore = fetches[m].restore
      /\ use.pc = "signing" => entry # NoEntry
  <2>1. /\ Saw(m) \in Use /\ Saw(m).opened = fetches[m].opened
        /\ Saw(m).restore = fetches[m].restore
    BY SawType
  <2> HIDE DEF entry
  <2> QED
    BY <1>1, <2>1 DEF Use
<1>3. fetches' = [fetches EXCEPT ![m] = use] /\ UNCHANGED <<stored, funding, managers, topUps>>
  BY DEF Plan
<1> HIDE DEF use, entry
<1> QED
  BY <1>1, <1>2, <1>3, LocalStep

LEMMA Succeeded ==
    ASSUME ClientTypeOK, NEW m \in Managers, FetchOk(m)
    PROVE  ClientTypeOK' /\ Steady(m)
<1> DEFINE use == [fetches[m] EXCEPT !.pc = "done"]
<1>1. /\ use \in Use /\ use.pc = "done" /\ use.entry = fetches[m].entry
      /\ use.opened = fetches[m].opened /\ use.restore = fetches[m].restore
  BY FetchFacts DEF Use
<1>2. fetches' = [fetches EXCEPT ![m] = use] /\ UNCHANGED <<stored, funding, managers, topUps>>
  BY DEF FetchOk
<1> HIDE DEF use
<1> QED
  BY <1>1, <1>2, LocalStep

\* The entry that pays is of a channel that was not given up, or a new one.
LEMMA PaidEntry ==
    ASSUME ClientTypeOK, Signing, NEW m \in Managers, Pay(m)
    PROVE  LET opens == Fetching(m, "opening")
               entry == IF opens THEN [channelId |-> m, uncertainTopUp |-> FALSE]
                        ELSE fetches[m].entry
           IN  /\ entry \in Entries /\ entry # NoEntry /\ entry.channelId \in Channels
               /\ opens => entry.channelId = m /\ ~fetches[m].opened
               /\ ~opens => /\ entry.channelId = fetches[m].entry.channelId
                            /\ entry.channelId \notin managers[m].ignored
<1> DEFINE opens == Fetching(m, "opening")
           entry == IF opens THEN [channelId |-> m, uncertainTopUp |-> FALSE] ELSE fetches[m].entry
<1>1. m \in Channels /\ fetches[m].entry \in Entries
  BY FetchFacts DEF Channels
<1>2. CASE opens
  <2>1. entry = [channelId |-> m, uncertainTopUp |-> FALSE] /\ ~fetches[m].opened
    BY <1>2 DEF Pay
  <2> HIDE DEF entry
  <2>2. entry \in Entries /\ entry.channelId = m /\ m # "none"
    BY <1>1, <2>1, EntryFacts
  <2>3. entry # NoEntry
    BY <2>2, EntryFacts
  <2> QED
    BY <1>1, <1>2, <2>1, <2>2, <2>3
<1>3. CASE ~opens
  <2>1. entry = fetches[m].entry /\ fetches[m].pc = "signing"
    BY <1>3 DEF Pay, Fetching
  <2>2. entry # NoEntry /\ entry.channelId \notin managers[m].ignored
    BY <2>1 DEF Signing
  <2>3. entry.channelId \in Channels
    BY <1>1, <2>1, <2>2, EntryFacts
  <2> QED
    BY <1>1, <1>3, <2>1, <2>2, <2>3
<1> QED
  BY <1>2, <1>3

\* A refused write changes no entry.
LEMMA RefusedFetch ==
    ASSUME ClientTypeOK, Signing, NEW m \in Managers, Pay(m),
           ~MayPersist(IF Fetching(m, "opening") THEN [channelId |-> m, uncertainTopUp |-> FALSE]
                       ELSE fetches[m].entry)
    PROVE  ClientTypeOK' /\ Steady(m)
<1> DEFINE opens == Fetching(m, "opening")
           entry == IF opens THEN [channelId |-> m, uncertainTopUp |-> FALSE] ELSE fetches[m].entry
           use == Tracked(m, Saw(m), entry)
           fetch == [use EXCEPT !.pc = "refused", !.entry = NoEntry,
                                !.opened = fetches[m].opened \/ opens]
           ignored == IgnoredAfter(m, entry, TRUE)
           held == [managers[m] EXCEPT !.ignored = ignored]
<1>1. entry \in Entries /\ entry.channelId \in Channels
  BY PaidEntry
<1>2. /\ managers' = [managers EXCEPT ![m] = held]
      /\ fetches' = [fetches EXCEPT ![m] = fetch]
      /\ UNCHANGED <<stored, funding, topUps>>
  BY DEF Pay
<1>3. stored.uncertainTopUp /\ stored.channelId # entry.channelId
  BY FetchFacts, EntryFacts DEF MayPersist
<1> HIDE DEF entry
<1>4. use \in Use /\ use.restore = fetches[m].restore
  BY <1>1, SawType, TrackedType
<1> HIDE DEF use
<1>5. /\ fetch \in Use /\ fetch.pc = "refused" /\ fetch.entry = NoEntry
      /\ fetch.opened = (fetches[m].opened \/ opens) /\ fetch.restore = fetches[m].restore
  <2>1. (fetches[m].opened \/ opens) \in BOOLEAN
    BY FetchFacts DEF Fetching
  <2> HIDE DEF opens
  <2> QED
    BY <1>4, <2>1, EntryFacts DEF Use
<1> HIDE DEF fetch, opens
<1>6. /\ ignored \subseteq managers[m].ignored
      /\ \A c \in managers[m].ignored : c \in ignored \/ c = entry.channelId
  BY IgnoredType
<1> HIDE DEF ignored
<1>7. held \in Kept /\ held.channel = managers[m].channel /\ held.ignored = ignored
  BY <1>6, FetchFacts DEF Kept
<1> HIDE DEF held
<1>8. ClientTypeOK'
  BY <1>2, <1>5, <1>7, FetchFacts, TypesNext
<1>9. /\ fetches'[m] = fetch /\ managers'[m] = held
      /\ \A n \in Managers \ {m} : managers'[n] = managers[n] /\ fetches'[n] = fetches[n]
  BY <1>2, FetchFacts
<1>10. NoEntry.channelId = "none"
  BY EntryFacts
<1> QED
  BY <1>2, <1>3, <1>5, <1>6, <1>7, <1>8, <1>9, <1>10 DEF Steady, Keeps

LEMMA PaidFetch ==
    ASSUME ClientTypeOK, Signing, NEW m \in Managers, Pay(m)
    PROVE  ClientTypeOK' /\ Steady(m)
<1> DEFINE opens == Fetching(m, "opening")
           entry == IF opens THEN [channelId |-> m, uncertainTopUp |-> FALSE] ELSE fetches[m].entry
           use == Tracked(m, Saw(m), entry)
           paid == IF stored'.uncertainTopUp THEN commitDurableTopUp(m, use, stored') ELSE use
           fetch == [paid EXCEPT !.pc = "sent", !.entry = NoEntry,
                                 !.opened = fetches[m].opened \/ opens]
<1>1. /\ entry \in Entries /\ entry # NoEntry /\ entry.channelId \in Channels
      /\ opens => entry.channelId = m /\ ~fetches[m].opened
      /\ ~opens => /\ entry.channelId = fetches[m].entry.channelId
                   /\ entry.channelId \notin managers[m].ignored
  BY PaidEntry
<1> SUFFICES ASSUME MayPersist(entry)
             PROVE  ClientTypeOK' /\ Steady(m)
  BY RefusedFetch
<1>2. /\ stored' = persistChannel(entry)
      /\ managers' = [managers EXCEPT ![m] = Using(m, stored')]
      /\ fetches' = [fetches EXCEPT ![m] = fetch]
      /\ UNCHANGED <<funding, topUps>>
  BY DEF Pay
<1> HIDE DEF entry
<1>3. stored' \in Entries /\ stored'.channelId = entry.channelId /\ Keeps
  BY <1>1, <1>2, WriteKeeps
<1>4. use \in Use /\ use.restore = fetches[m].restore
  BY <1>1, SawType, TrackedType
<1> HIDE DEF use
<1>5. paid \in Use /\ paid.restore \in {fetches[m].restore, stored'}
  BY <1>3, <1>4, CommitType
<1> HIDE DEF paid
<1>6. /\ fetch \in Use /\ fetch.pc = "sent" /\ fetch.entry = NoEntry
      /\ fetch.opened = (fetches[m].opened \/ opens)
      /\ fetch.restore \in {fetches[m].restore, stored'}
  <2>1. (fetches[m].opened \/ opens) \in BOOLEAN
    BY FetchFacts DEF Fetching
  <2> HIDE DEF opens
  <2> QED
    BY <1>5, <2>1, EntryFacts DEF Use
<1> HIDE DEF fetch, opens
<1>7. /\ Using(m, stored') \in Kept /\ Using(m, stored').channel = stored'
      /\ Using(m, stored').ignored = managers[m].ignored \ {stored'.channelId}
  BY <1>3, UsingType
<1>8. ClientTypeOK'
  BY <1>2, <1>3, <1>6, <1>7, FetchFacts, TypesNext
<1>9. /\ fetches'[m] = fetch /\ managers'[m] = Using(m, stored')
      /\ \A n \in Managers \ {m} : managers'[n] = managers[n] /\ fetches'[n] = fetches[n]
  BY <1>2, FetchFacts
<1>10. fetches'[m].opened = (fetches[m].opened \/ opens) /\ fetches'[m].pc # "signing"
  BY <1>6, <1>9
<1>11. \A c \in managers[m].ignored : c \in managers'[m].ignored \/ (c = m /\ ~fetches[m].opened)
  BY <1>1, <1>3, <1>7, <1>9
<1>12. /\ stored'.channelId \in {m, fetches[m].entry.channelId}
       /\ opens \/ stored'.channelId = fetches[m].entry.channelId
       /\ managers'[m].channel = stored'
       /\ fetches'[m].restore \in {fetches[m].restore, stored'}
       /\ fetches'[m].entry.channelId = "none"
  BY <1>1, <1>3, <1>6, <1>7, <1>9, EntryFacts
<1>13. \A id \in {stored'.channelId, managers'[m].channel.channelId,
                  fetches'[m].restore.channelId, fetches'[m].entry.channelId} :
          \/ id \in {"none", stored.channelId, managers[m].channel.channelId,
                     fetches[m].restore.channelId, fetches[m].entry.channelId}
          \/ id = m /\ fetches'[m].opened
  BY <1>10, <1>12
<1> QED
  BY <1>2, <1>3, <1>8, <1>9, <1>10, <1>11, <1>13 DEF Steady

\* Going back to the snapshot keeps what is marked and forgets no ignored channel.
LEMMA RestoreType ==
    ASSUME ClientTypeOK, NEW m \in Managers, NEW left \in {stored, AfterDelete},
           NEW ignored \in SUBSET Channels, Restores(m, left, ignored)
    PROVE  /\ stored' \in Entries /\ Keeps
           /\ stored'.channelId \in {"none", stored.channelId, fetches[m].restore.channelId}
           /\ managers' \in [Managers -> Kept]
           /\ \A n \in Managers \ {m} : managers'[n] = managers[n]
           /\ managers'[m].channel.channelId = fetches[m].restore.channelId
           /\ managers[m].ignored \subseteq managers'[m].ignored
<1> DEFINE snapshot == fetches[m].restore
           writes == snapshot # NoEntry /\ MayPersist(snapshot)
           channel == IF writes THEN stored' ELSE snapshot
           held == [managers[m] EXCEPT !.channel = channel, !.ignored = managers[m].ignored \cup ignored]
<1>1. stored' = (IF writes THEN persistChannel(snapshot) ELSE left)
      /\ managers' = [managers EXCEPT ![m] = held]
  BY DEF Restores
<1>2. /\ stored' \in Entries /\ Keeps
      /\ stored'.channelId \in {"none", stored.channelId, snapshot.channelId}
      /\ writes => stored'.channelId = snapshot.channelId
  <2>1. CASE writes
    BY <1>1, <2>1, FetchFacts, WriteKeeps
  <2>2. CASE ~writes
    BY <1>1, <2>2, FetchFacts, EntryFacts DEF AfterDelete, Keeps
  <2> QED
    BY <2>1, <2>2
<1>3. channel \in Entries /\ channel.channelId = snapshot.channelId
  BY <1>2, FetchFacts
<1> HIDE DEF channel, writes
<1>4. /\ held \in Kept /\ held.channel = channel
      /\ managers[m].ignored \subseteq held.ignored
  BY <1>3, FetchFacts DEF Kept
<1> HIDE DEF held
<1> QED
  BY <1>1, <1>2, <1>3, <1>4, FetchFacts

LEMMA GivenUp ==
    ASSUME ClientTypeOK, NEW m \in Managers, FetchFail(m)
    PROVE  ClientTypeOK' /\ Steady(m)
<1>1. PICK use \in {fetches[m]}, pc \in {"evicting", "done"} :
         /\ fetches' = [fetches EXCEPT ![m] = [use EXCEPT !.pc = pc, !.topUp = NoTopUp,
                                                          !.entry = NoEntry]]
         /\ UNCHANGED <<funding, topUps>>
  BY DEF FetchFail
<1> DEFINE fetch == [use EXCEPT !.pc = pc, !.topUp = NoTopUp, !.entry = NoEntry]
<1>2. /\ fetch \in Use /\ fetch.pc = pc /\ fetch.entry = NoEntry
      /\ fetch.opened = fetches[m].opened /\ fetch.restore = fetches[m].restore
  BY <1>1, FetchFacts, EntryFacts DEF Use
<1>3. fetches' = [fetches EXCEPT ![m] = fetch]
  BY <1>1
<1> HIDE DEF fetch
<1>4. /\ stored' \in Entries /\ Keeps
      /\ stored'.channelId \in {"none", stored.channelId, fetches[m].restore.channelId}
      /\ managers' \in [Managers -> Kept]
      /\ \A n \in Managers \ {m} : managers'[n] = managers[n]
      /\ managers'[m].channel.channelId \in
            {managers[m].channel.channelId, fetches[m].restore.channelId}
      /\ managers[m].ignored \subseteq managers'[m].ignored
  <2>1. CASE UNCHANGED <<stored, managers>>
    BY <2>1, FetchFacts DEF Keeps
  <2>2. CASE Restores(m, AfterDelete, {fetches[m].created}) /\ fetches[m].created # "none"
    <3>1. {fetches[m].created} \in SUBSET Channels
      BY <2>2, FetchFacts DEF Use
    <3> QED
      BY <2>2, <3>1, RestoreType
  <2>3. CASE Restores(m, stored, {})
    BY <2>3, RestoreType
  <2> QED
    BY <2>1, <2>2, <2>3 DEF FetchFail
<1>5. ClientTypeOK'
  BY <1>1, <1>2, <1>3, <1>4, FetchFacts, TypesNext
<1>6. fetches'[m] = fetch /\ \A n \in Managers \ {m} : fetches'[n] = fetches[n]
  BY <1>3, FetchFacts
<1>7. \A id \in {stored'.channelId, managers'[m].channel.channelId,
                  fetches'[m].restore.channelId, fetches'[m].entry.channelId} :
          id \in {"none", stored.channelId, managers[m].channel.channelId,
                  fetches[m].restore.channelId, fetches[m].entry.channelId}
  BY <1>2, <1>4, <1>6, EntryFacts
<1> QED
  BY <1>1, <1>2, <1>4, <1>5, <1>6, <1>7 DEF Steady

LEMMA Evicted ==
    ASSUME ClientTypeOK, NEW m \in Managers, Evict(m)
    PROVE  ClientTypeOK' /\ Steady(m)
<1> DEFINE resumed == fetches[m].resumed
           keeps == resumed = NoEntry \/ resumed.uncertainTopUp \/ stored.uncertainTopUp
<1>1. CASE keeps
  <2> DEFINE use == [fetches[m] EXCEPT !.pc = "done"]
  <2>1. /\ use \in Use /\ use.pc = "done" /\ use.entry = fetches[m].entry
        /\ use.opened = fetches[m].opened /\ use.restore = fetches[m].restore
    BY FetchFacts DEF Use
  <2>2. fetches' = [fetches EXCEPT ![m] = use] /\ UNCHANGED <<stored, funding, managers, topUps>>
    BY <1>1 DEF Evict
  <2> HIDE DEF use
  <2> QED
    BY <2>1, <2>2, LocalStep
<1>2. CASE ~keeps
  <2> DEFINE use == [fetches[m] EXCEPT !.pc = "started", !.canRetryResumed = FALSE,
                                       !.resumed = NoEntry, !.seen = FALSE]
             held == [managers[m] EXCEPT !.ignored = @ \cup {resumed.channelId}]
  <2>1. /\ use \in Use /\ use.pc = "started" /\ use.entry = fetches[m].entry
        /\ use.opened = fetches[m].opened /\ use.restore = fetches[m].restore
    BY FetchFacts, EntryFacts DEF Use
  <2>2. resumed.channelId \in Channels
    BY <1>2, FetchFacts, EntryFacts DEF Use
  <2>3. /\ held \in Kept /\ held.channel = managers[m].channel
        /\ managers[m].ignored \subseteq held.ignored
    BY <2>2, FetchFacts DEF Kept
  <2>4. /\ stored' = NoEntry /\ ~stored.uncertainTopUp
        /\ managers' = [managers EXCEPT ![m] = held]
        /\ fetches' = [fetches EXCEPT ![m] = use]
        /\ UNCHANGED <<funding, topUps>>
    BY <1>2 DEF Evict
  <2> HIDE DEF use, held, resumed
  <2>5. ClientTypeOK'
    BY <2>1, <2>3, <2>4, FetchFacts, EntryFacts, TypesNext
  <2>6. /\ fetches'[m] = use /\ managers'[m] = held
        /\ \A n \in Managers \ {m} : managers'[n] = managers[n] /\ fetches'[n] = fetches[n]
    BY <2>4, FetchFacts
  <2> QED
    BY <2>1, <2>3, <2>4, <2>5, <2>6, EntryFacts DEF Steady, Keeps
<1> QED
  BY <1>1, <1>2

LEMMA FetchStep ==
    ASSUME ClientTypeOK, Signing, NEW m \in Managers,
           FetchStart(m) \/ Plan(m) \/ Pay(m) \/ FetchOk(m) \/ FetchFail(m) \/ Evict(m)
    PROVE  ClientTypeOK' /\ Steady(m)
BY Started, PlannedFetch, PaidFetch, Succeeded, GivenUp, Evicted

\* It keeps the inductive invariant.
LEMMA FetchFunded ==
    ASSUME Funded, NEW m \in Managers,
           FetchStart(m) \/ Plan(m) \/ Pay(m) \/ FetchOk(m) \/ FetchFail(m) \/ Evict(m)
    PROVE  Funded'
<1>1. ClientTypeOK' /\ Steady(m)
  BY FetchStep DEF Funded
<1>2. \A n \in Managers : fetches[n].opened => fetches'[n].opened
  BY <1>1 DEF Steady
<1>3. Locked' /\ Named'
  BY <1>1 DEF Steady, Funded, Locked, Named
<1>4. Marked'
  BY <1>1 DEF Steady, Keeps, Funded, Marked
<1>5. Signing'
  BY <1>1 DEF Steady, Funded, Signing
<1>6. Fresh'
  <2> DEFINE Known(id) == id \in Managers => fetches'[id].opened
  <2>1. \A id : Opened(id) => Known(id)
    BY <1>2 DEF Opened
  <2>2. Known("none") /\ (fetches'[m].opened => Known(m))
    BY ClientAssumption
  <2>3. \A id \in {stored'.channelId, managers'[m].channel.channelId,
                   fetches'[m].restore.channelId, fetches'[m].entry.channelId} : Known(id)
    <3> HIDE DEF Known
    <3> QED
      BY <1>1, <2>1, <2>2 DEF Steady, Funded, Fresh
  <2>4. \A t \in TopUps : Known(topUps'[t].channelId)
    <3> HIDE DEF Known
    <3> QED
      BY <1>1, <2>1 DEF Steady, Funded, Fresh
  <2>5. \A n \in Managers \ {m} : /\ Known(managers'[n].channel.channelId)
                                  /\ Known(fetches'[n].restore.channelId)
                                  /\ Known(fetches'[n].entry.channelId)
    <3> HIDE DEF Known
    <3> QED
      BY <1>1, <2>1 DEF Steady, Funded, Fresh
  <2> QED
    BY <2>3, <2>4, <2>5 DEF Fresh, Opened
<1>7. Warned'
  <2> SUFFICES ASSUME NEW t \in TopUps, NEW u \in TopUps,
                      topUps'[t].pc = "checking", topUps'[u].pc = "unknown",
                      topUps'[u].channelId = topUps'[t].channelId
               PROVE  topUps'[t].refused \/ topUps'[t].channelId \in managers'[Manager[t]].ignored
    BY DEF Warned
  <2>1. topUps[t].refused \/ topUps[t].channelId \in managers[Manager[t]].ignored
    BY <1>1 DEF Steady, Funded, Warned
  <2>2. topUps[t].channelId \in Managers => fetches[topUps[t].channelId].opened
    BY DEF Funded, Fresh, Opened
  <2>3. Manager[t] \in Managers
    BY ClientAssumption
  <2>4. stored.channelId = topUps[t].channelId
    BY <1>1 DEF Steady, Funded, Marked
  <2> QED
    BY <1>1, <2>1, <2>2, <2>3, <2>4 DEF Steady
<1> QED
  BY <1>1, <1>3, <1>4, <1>5, <1>6, <1>7 DEF Funded
-----------------------------------------------------------------------------
(* A top-up *)

TopUpStep(t) ==
    \/ Ask(t) \/ Abort(t) \/ Acquire(t) \/ Check(t) \/ Post(t)
    \/ Refused(t) \/ Accepted(t) \/ Lost(t) \/ MarkUnknown(t)

\* What it does to the others: those that wait may fail with it.
LEMMA OthersStay ==
    ASSUME ClientTypeOK, NEW t \in TopUps, TopUpStep(t), NEW u \in TopUps, u # t
    PROVE  /\ topUps'[u].channelId = topUps[u].channelId
           /\ topUps'[u].refused = topUps[u].refused
           /\ \/ topUps'[u].pc = topUps[u].pc
              \/ topUps[u].pc = "waiting" /\ topUps'[u].pc = "failed"
<1>1. topUps \in [TopUps -> TopUp] /\ topUps[u] \in TopUp
  BY Types
<1>2. ASSUME NEW pc, Ends(t, pc)
      PROVE  topUps'[u] \in {topUps[u], [topUps[u] EXCEPT !.pc = "failed"]}
             /\ (topUps'[u] # topUps[u] => topUps[u].pc = "waiting")
  BY <1>1, <1>2 DEF Ends, Topping
<1>3. [topUps[u] EXCEPT !.pc = "failed"].channelId = topUps[u].channelId
      /\ [topUps[u] EXCEPT !.pc = "failed"].refused = topUps[u].refused
      /\ [topUps[u] EXCEPT !.pc = "failed"].pc = "failed"
  BY <1>1 DEF TopUp
<1>4. CASE \E pc : Ends(t, pc)
  BY <1>2, <1>3, <1>4
<1>5. CASE \E q : topUps' = [topUps EXCEPT ![t] = q]
  BY <1>1, <1>5
<1>6. CASE Ask(t) \/ Abort(t) \/ Acquire(t) \/ Check(t) \/ Lost(t)
  BY <1>5, <1>6 DEF Ask, Abort, Acquire, Check, Lost
<1>7. CASE Post(t) \/ Refused(t) \/ Accepted(t) \/ MarkUnknown(t)
  BY <1>4, <1>5, <1>7 DEF Post, Refused, Accepted, MarkUnknown
<1> QED
  BY <1>6, <1>7 DEF TopUpStep

\* What it does to itself and to the funding lock.
LEMMA OwnStep ==
    ASSUME ClientTypeOK, Named, NEW t \in TopUps, TopUpStep(t)
    PROVE  /\ topUps'[t].channelId \in {topUps[t].channelId, "none", stored.channelId,
                                        managers[Manager[t]].channel.channelId}
           /\ topUps'[t].pc \in UnderLock \cup {"unknown"} => topUps'[t].channelId # "none"
           /\ topUps'[t].pc = "checking" <=> Check(t)
           /\ topUps'[t].pc = "sent" => Post(t) /\ MayPost(t)
           /\ topUps'[t].pc = "unknown" =>
                 /\ MarkUnknown(t) /\ topUps'[t].channelId = topUps[t].channelId
                 /\ stored' = [channelId |-> topUps'[t].channelId, uncertainTopUp |-> TRUE]
           /\ \/ topUps[t].pc \notin Checking /\ topUps'[t].pc \notin Checking
                 /\ funding' \in {funding, Append(funding, t)}
              \/ Check(t) /\ funding' = funding
              \/ topUps[t].pc \in Checking /\ topUps'[t].pc \in Checking /\ funding' = funding
              \/ topUps[t].pc \in Checking /\ topUps'[t].pc \in Ended /\ funding' = Tail(funding)
<1>1. topUps \in [TopUps -> TopUp] /\ topUps[t] \in TopUp /\ Manager[t] \in Managers
  BY Types, ClientAssumption
<1>2. CASE Ask(t)
  BY <1>1, <1>2 DEF Ask, Topping, TopUp, Checking, UnderLock, DepositOut, Check
<1>3. CASE Abort(t)
  BY <1>1, <1>3 DEF Abort, Topping, TopUp, Checking, UnderLock, DepositOut, Check
<1>4. CASE Acquire(t)
  <2>1. getReusable(Manager[t]).channelId \in {stored.channelId, "none"}
    BY <1>1, ReusableType, EntryFacts
  <2> DEFINE id == IF t \in Challenged THEN getReusable(Manager[t]).channelId
                                       ELSE topUps[t].channelId
  <2>2. topUps[t].pc = "waiting"
    BY <1>4 DEF Acquire, Topping
  <2>3. \/ topUps' = [topUps EXCEPT ![t].pc = "failed"] /\ funding' = funding
        \/ /\ topUps' = [topUps EXCEPT ![t] = [topUps[t] EXCEPT !.pc = "done", !.channelId = id]]
           /\ funding' = funding
        \/ /\ topUps' = [topUps EXCEPT ![t] = [topUps[t] EXCEPT !.pc = "queued", !.channelId = id]]
           /\ funding' = Append(funding, t) /\ id # "none"
    BY <1>4 DEF Acquire
  <2>4. id \in {topUps[t].channelId, stored.channelId, "none"}
    BY <2>1
  <2> HIDE DEF id
  <2>5. \/ /\ topUps'[t].pc \in {"failed", "done"} /\ funding' = funding
           /\ topUps'[t].channelId \in {topUps[t].channelId, id}
        \/ /\ topUps'[t].pc = "queued" /\ funding' = Append(funding, t)
           /\ topUps'[t].channelId = id /\ id # "none"
    <3>1. [topUps[t] EXCEPT !.pc = "failed"].pc = "failed"
          /\ [topUps[t] EXCEPT !.pc = "failed"].channelId = topUps[t].channelId
      BY <1>1 DEF TopUp
    <3>2. id \in Channels \cup {"none"}
      BY <1>1, <2>4, Types, EntryFacts DEF TopUp
    <3>3. \A pc \in {"done", "queued"} :
             /\ [topUps[t] EXCEPT !.pc = pc, !.channelId = id].pc = pc
             /\ [topUps[t] EXCEPT !.pc = pc, !.channelId = id].channelId = id
      BY <1>1, <3>2 DEF TopUp
    <3> QED
      BY <1>1, <2>3, <3>1, <3>3
  <2>6. ~Check(t)
    BY <2>2 DEF Check, Topping
  <2> QED
    BY <2>2, <2>4, <2>5, <2>6 DEF Checking, UnderLock, DepositOut
<1>5. CASE Check(t)
  BY <1>1, <1>5 DEF Check, Topping, TopUp, Named, UnderLock
<1>6. ASSUME NEW pc \in {"done", "failed", "unmarked"}, Ends(t, pc), topUps[t].pc \in Checking
      PROVE  topUps'[t].channelId = topUps[t].channelId /\ topUps'[t].pc = pc
             /\ funding' = Tail(funding)
  BY <1>1, <1>6 DEF Ends, TopUp
<1>7. CASE topUps[t].pc \in Checking /\ \E pc \in {"done", "failed", "unmarked"} : Ends(t, pc)
  BY <1>6, <1>7 DEF Checking, UnderLock, DepositOut, Ended, Check, Topping
<1>8. CASE /\ topUps[t].pc \in {"checking", "sent"}
           /\ \E pc \in {"sent", "lost"} : /\ topUps' = [topUps EXCEPT ![t].pc = pc]
                                           /\ pc = "sent" => Post(t) /\ MayPost(t)
           /\ UNCHANGED funding
  <2>1. /\ topUps'[t].channelId = topUps[t].channelId
        /\ topUps'[t].pc \in {"sent", "lost"}
        /\ topUps'[t].pc = "sent" => Post(t) /\ MayPost(t)
    <3>1. PICK pc \in {"sent", "lost"} : /\ topUps' = [topUps EXCEPT ![t].pc = pc]
                                         /\ pc = "sent" => Post(t) /\ MayPost(t)
      BY <1>8
    <3>2. topUps'[t].pc = pc /\ topUps'[t].channelId = topUps[t].channelId
      BY <1>1, <3>1 DEF TopUp
    <3> QED
      BY <3>1, <3>2
  <2>2. ~Check(t)
    BY <1>8 DEF Check, Topping
  <2> QED
    BY <1>8, <2>1, <2>2 DEF Named, Checking, UnderLock, DepositOut
<1>9. CASE MarkUnknown(t) /\ Ends(t, "unknown")
           /\ stored' = [channelId |-> topUps[t].channelId, uncertainTopUp |-> TRUE]
  <2>1. topUps'[t].channelId = topUps[t].channelId /\ topUps'[t].pc = "unknown"
        /\ funding' = Tail(funding) /\ topUps[t].pc = "lost"
    BY <1>1, <1>9 DEF Ends, TopUp, MarkUnknown, Topping
  <2> QED
    BY <1>9, <2>1 DEF Named, Checking, UnderLock, DepositOut, Ended, Check, Topping
<1>10. CASE Post(t)
  BY <1>7, <1>8, <1>10 DEF Post, Topping, Checking
<1>11. CASE Refused(t) \/ Accepted(t)
  BY <1>7, <1>11 DEF Refused, Accepted, Topping, Checking
<1>12. CASE Lost(t)
  BY <1>8, <1>12 DEF Lost, Topping
<1>13. CASE MarkUnknown(t)
  BY <1>7, <1>9, <1>13 DEF MarkUnknown, Topping, Checking
<1> QED
  BY <1>2, <1>3, <1>4, <1>5, <1>10, <1>11, <1>12, <1>13 DEF TopUpStep

\* It does not touch a manager unless its deposit was sent.
LEMMA TopUpQuiet ==
    ASSUME ClientTypeOK, Locked, Named, NEW t \in TopUps, TopUpStep(t)
    PROVE  /\ ClientTypeOK' /\ Quiet(t)
           /\ UNCHANGED managers \/ topUps[t].pc \in Checking
<1>1. CASE Accepted(t) \/ MarkUnknown(t)
  BY <1>1, Answered, MarkedUnknown DEF Accepted, MarkUnknown, Topping, Checking
<1>2. CASE ~(Accepted(t) \/ MarkUnknown(t))
  BY <1>2, TypedTopUp, QuietTopUp DEF TopUpStep
<1> QED
  BY <1>1, <1>2

LEMMA TopUpFunded ==
    ASSUME Funded, NEW t \in TopUps, TopUpStep(t)
    PROVE  Funded'
<1>1. /\ ClientTypeOK' /\ Quiet(t)
      /\ UNCHANGED managers \/ topUps[t].pc \in Checking
  BY TopUpQuiet DEF Funded
<1>2. /\ Manager \in [TopUps -> Managers] /\ funding \in Seq(TopUps) /\ stored \in Entries
      /\ "none" \notin Managers
  BY ClientAssumption, Types DEF Funded
<1>3. \A u \in TopUps \ {t} :
         /\ topUps'[u].channelId = topUps[u].channelId
         /\ topUps'[u].refused = topUps[u].refused
         /\ \/ topUps'[u].pc = topUps[u].pc
            \/ topUps[u].pc = "waiting" /\ topUps'[u].pc = "failed"
  BY OthersStay DEF Funded
<1>4. \A u \in TopUps \ {t} : topUps[t].pc \in Checking => topUps'[u].pc \notin Checking
  <2>1. \A u \in TopUps \ {t} : topUps[t].pc \in Checking => topUps[u].pc \notin Checking
    BY DEF Funded, Locked
  <2> QED
    BY <1>3, <2>1 DEF Checking
<1>5. Locked'
  <2> SUFFICES ASSUME NEW u \in TopUps, topUps'[u].pc \in Checking
               PROVE  funding' # <<>> /\ Head(funding') = u
    BY DEF Locked
  <2>1. CASE u = t
    <3>1. funding' = funding /\ (Check(t) \/ topUps[t].pc \in Checking)
      BY <2>1, OwnStep DEF Funded, Checking, Ended
    <3> QED
      BY <2>1, <3>1 DEF Check, Funded, Locked
  <2>2. CASE u # t
    <3>1. topUps[u].pc \in Checking
      BY <1>3, <2>2 DEF Checking
    <3>2. funding # <<>> /\ Head(funding) = u
      BY <3>1 DEF Funded, Locked
    <3>3. funding' \in {funding, Append(funding, t)}
      BY <1>4, <2>2, <3>2, OwnStep DEF Funded
    <3> QED
      BY <1>2, <3>2, <3>3
  <2> QED
    BY <2>1, <2>2
<1>6. Named'
  <2>1. \A u \in TopUps \ {t} : topUps'[u].pc \in UnderLock \cup {"unknown"} =>
           topUps'[u].channelId # "none"
    BY <1>3 DEF Funded, Named, UnderLock, DepositOut
  <2>2. topUps'[t].pc \in UnderLock \cup {"unknown"} => topUps'[t].channelId # "none"
    BY OwnStep DEF Funded
  <2> QED
    BY <2>1, <2>2 DEF Named
<1>7. Marked'
  <2>1. \A u \in TopUps \ {t} : topUps'[u].pc = "unknown" =>
           stored'.channelId = topUps'[u].channelId /\ stored'.uncertainTopUp
    BY <1>1, <1>3 DEF Funded, Marked, Quiet, Keeps
  <2>2. topUps'[t].pc = "unknown" =>
           stored'.channelId = topUps'[t].channelId /\ stored'.uncertainTopUp
    BY OwnStep DEF Funded
  <2> QED
    BY <2>1, <2>2 DEF Marked
<1>8. Signing'
  BY <1>1 DEF Funded, Signing, Quiet
<1>9. Fresh'
  <2> DEFINE Known(id) == id \in Managers => fetches'[id].opened
  <2>1. \A id : Opened(id) => Known(id)
    BY <1>1 DEF Opened, Quiet
  <2>2. Known("none")
    BY <1>2
  <2>3. Known(stored'.channelId)
    <3> HIDE DEF Known
    <3> QED
      BY <1>1, <2>1 DEF Quiet, Funded, Fresh
  <2>4. \A u \in TopUps : Known(topUps'[u].channelId)
    <3> HIDE DEF Known
    <3> QED
      BY <1>2, <1>3, <2>1, <2>2, OwnStep DEF Funded, Fresh
  <2>5. \A n \in Managers : /\ Known(managers'[n].channel.channelId)
                            /\ Known(fetches'[n].restore.channelId)
                            /\ Known(fetches'[n].entry.channelId)
    <3> HIDE DEF Known
    <3> QED
      BY <1>1, <2>1 DEF Quiet, Funded, Fresh
  <2> QED
    BY <2>3, <2>4, <2>5 DEF Fresh, Opened
<1>10. Warned'
  <2> SUFFICES ASSUME NEW a \in TopUps, NEW b \in TopUps,
                      topUps'[a].pc = "checking", topUps'[b].pc = "unknown",
                      topUps'[b].channelId = topUps'[a].channelId
               PROVE  topUps'[a].refused \/ topUps'[a].channelId \in managers'[Manager[a]].ignored
    BY DEF Warned
  <2>1. CASE a = t
    <3>1. Check(t) /\ b # t
      BY <2>1, OwnStep DEF Funded
    <3>2. topUps[b].pc = "unknown" /\ topUps[b].channelId = topUps'[t].channelId
      BY <1>3, <2>1, <3>1
    <3>3. stored.channelId = topUps'[t].channelId /\ stored.uncertainTopUp
      BY <3>2 DEF Funded, Marked
    <3>4. topUps \in [TopUps -> TopUp] /\ topUps[t] \in TopUp
      BY Types DEF Funded
    <3>5. /\ topUps'[t].channelId = topUps[t].channelId
          /\ topUps'[t].refused = (/\ getReusable(Manager[t]).channelId = topUps[t].channelId
                                   /\ getReusable(Manager[t]).uncertainTopUp)
          /\ UNCHANGED managers
      BY <3>1, <3>4 DEF Check, TopUp
    <3> QED
      BY <2>1, <3>3, <3>5 DEF getReusable
  <2>2. CASE a # t
    <3>1. topUps[a].pc = "checking" /\ topUps[t].pc \notin Checking /\ UNCHANGED managers
      BY <1>1, <1>3, <1>4, <2>2 DEF Checking
    <3>2. b # t
      BY <3>1, OwnStep DEF Funded, MarkUnknown, Topping, Checking
    <3> QED
      BY <1>3, <2>2, <3>1, <3>2 DEF Funded, Warned
  <2> QED
    BY <2>1, <2>2
<1> QED
  BY <1>1, <1>5, <1>6, <1>7, <1>8, <1>9, <1>10 DEF Funded-----------------------------------------------------------------------------
(* The theorems *)

LEMMA InitFunded == ClientInit => Funded
<1> SUFFICES ASSUME ClientInit
             PROVE  Funded
  OBVIOUS
<1>1. stored = [channelId |-> "first", uncertainTopUp |-> FALSE] /\ stored \in Entries
  BY EntryFacts DEF ClientInit, Channels
<1>2. \A t \in TopUps : topUps[t].pc = "idle" /\ topUps[t].channelId = "none"
  BY DEF ClientInit
<1>3. \A m \in Managers : /\ fetches[m].pc = "idle" /\ fetches[m].restore = NoEntry
                          /\ fetches[m].entry = NoEntry
  BY DEF ClientInit
<1>4. ClientTypeOK
  <2>1. managers \in [Managers -> Kept]
    BY <1>1, EntryFacts DEF ClientInit, Kept
  <2>2. topUps \in [TopUps -> TopUp]
    BY DEF ClientInit, TopUp
  <2>3. fetches \in [Managers -> Use]
    BY EntryFacts DEF ClientInit, Use
  <2>4. funding \in Seq(TopUps)
    BY DEF ClientInit
  <2> QED
    BY <1>1, <2>1, <2>2, <2>3, <2>4, Types
<1>5. Locked /\ Named /\ Marked /\ Warned
  BY <1>2 DEF Locked, Named, Marked, Warned, Checking, UnderLock, DepositOut
<1>6. Signing
  BY <1>3 DEF Signing
<1>7. Fresh
  <2>1. "first" \notin Managers /\ "none" \notin Managers
    BY ClientAssumption
  <2>2. \A m \in Managers : managers[m].channel \in {NoEntry, stored}
    BY DEF ClientInit
  <2> QED
    BY <1>1, <1>2, <1>3, <2>1, <2>2, EntryFacts DEF Fresh, Opened
<1> QED
  BY <1>4, <1>5, <1>6, <1>7 DEF Funded

LEMMA NextFunded == Funded /\ [ClientNext]_clientVars => Funded'
<1> SUFFICES ASSUME Funded, [ClientNext]_clientVars
             PROVE  Funded'
  OBVIOUS
<1>1. CASE UNCHANGED clientVars
  BY <1>1 DEF clientVars, Funded, ClientTypeOK, Locked, Named, Marked, Signing, Fresh, Opened, Warned
<1>2. ASSUME NEW t \in TopUps, TopUpStep(t)
      PROVE  Funded'
  BY <1>2, TopUpFunded
<1>3. ASSUME NEW m \in Managers,
             FetchStart(m) \/ Plan(m) \/ Pay(m) \/ FetchOk(m) \/ FetchFail(m) \/ Evict(m)
      PROVE  Funded'
  BY <1>3, FetchFunded
<1> QED
  BY <1>1, <1>2, <1>3 DEF ClientNext, TopUpStep

\* What the next state says of a top-up that sends or marks a deposit.
LEMMA StepOnce ==
    Funded /\ Funded' /\ [ClientNext]_clientVars =>
      \A t \in TopUps :
          /\ topUps'[t].pc = "sent" /\ ~Topping(t, "sent") =>
                \/ topUps[t].channelId \in managers[Manager[t]].ignored
                \/ \A u \in TopUps : Undecided(u) => topUps[u].channelId # topUps[t].channelId
          /\ topUps'[t].pc = "unknown" =>
                stored' = [channelId |-> topUps[t].channelId, uncertainTopUp |-> TRUE]
<1> SUFFICES ASSUME Funded, Funded', [ClientNext]_clientVars, NEW t \in TopUps
             PROVE  /\ topUps'[t].pc = "sent" /\ ~Topping(t, "sent") =>
                          \/ topUps[t].channelId \in managers[Manager[t]].ignored
                          \/ \A u \in TopUps : Undecided(u) => topUps[u].channelId # topUps[t].channelId
                    /\ topUps'[t].pc = "unknown" =>
                          stored' = [channelId |-> topUps[t].channelId, uncertainTopUp |-> TRUE]
  OBVIOUS
<1>1. topUps \in [TopUps -> TopUp] /\ topUps[t] \in TopUp
  BY Types DEF Funded
<1>2. ASSUME topUps'[t].pc \in {"sent", "unknown"}, topUps'[t].pc # topUps[t].pc
      PROVE  TopUpStep(t)
  <2>1. PICK u \in TopUps : TopUpStep(u)
    BY <1>2 DEF ClientNext, TopUpStep, clientVars, FetchStart, Plan, Pay, FetchOk, FetchFail, Evict
  <2>2. u = t
    BY <1>2, <2>1, OthersStay DEF Funded
  <2> QED
    BY <2>1, <2>2
<1>3. ASSUME topUps'[t].pc = "sent", ~Topping(t, "sent"),
             topUps[t].channelId \notin managers[Manager[t]].ignored,
             NEW u \in TopUps, Undecided(u), topUps[u].channelId = topUps[t].channelId
      PROVE  FALSE
  <2>1. TopUpStep(t)
    BY <1>2, <1>3 DEF Topping
  <2>2. MayPost(t) /\ topUps[t].pc = "checking"
    BY <1>3, <2>1, OwnStep DEF Funded, Post, Topping
  <2>3. topUps[u].pc = "unknown"
    BY <1>3, <2>2 DEF Undecided, DepositOut, Funded, Locked, Checking
  <2> QED
    BY <1>3, <2>2, <2>3 DEF MayPost, Funded, Warned
<1>4. ASSUME topUps'[t].pc = "unknown"
      PROVE  stored' = [channelId |-> topUps[t].channelId, uncertainTopUp |-> TRUE]
  <2>1. stored' \in Entries /\ stored'.channelId = topUps'[t].channelId /\ stored'.uncertainTopUp
    BY <1>4, TypesNext DEF Funded, Marked
  <2>2. topUps'[t].channelId # "none"
    BY <1>4 DEF Funded, Named
  <2>3. topUps'[t].channelId = topUps[t].channelId
    <3>1. CASE topUps[t].pc = "unknown"
      <4>1. topUps'[t] = topUps[t] \/ \E u \in TopUps : TopUpStep(u)
        BY DEF ClientNext, TopUpStep, clientVars, FetchStart, Plan, Pay, FetchOk, FetchFail, Evict
      <4>2. ~TopUpStep(t)
        BY <3>1 DEF TopUpStep, Ask, Abort, Acquire, Check, Post, Refused, Accepted, Lost,
                    MarkUnknown, Topping
      <4> QED
        BY <4>1, <4>2, OthersStay DEF Funded
    <3>2. CASE topUps[t].pc # "unknown"
      BY <1>2, <1>4, <3>2, OwnStep DEF Funded
    <3> QED
      BY <3>1, <3>2
  <2> QED
    BY <2>1, <2>2, <2>3, EntryFacts DEF Entries
<1> QED
  BY <1>3, <1>4

\* The state of the session managers is well typed: a top-up, a fetch and the
\* scope's entry keep to the values of the code's types (SessionManager.ts).
THEOREM ClientTyped == ClientSpec => []ClientTypeOK
<1>1. Funded => ClientTypeOK
  BY DEF Funded
<1> QED
  BY <1>1, InitFunded, NextFunded, PTL DEF ClientSpec

\* No manager sends a second deposit to a channel that has an undecided one,
\* and what is marked stays recorded, for any managers, top-ups and challenges
\* (withFundingLock, postTopUp, persistChannel, deleteChannel, ignoreChannel).
THEOREM DepositsOnce == ClientSpec => NoSecondDeposit
<1>1. Funded /\ Funded' /\ [ClientNext]_clientVars =>
        [\A t \in TopUps :
          /\ topUps'[t].pc = "sent" /\ ~Topping(t, "sent") =>
                \/ topUps[t].channelId \in managers[Manager[t]].ignored
                \/ \A u \in TopUps : Undecided(u) => topUps[u].channelId # topUps[t].channelId
          /\ topUps'[t].pc = "unknown" =>
                stored' = [channelId |-> topUps[t].channelId, uncertainTopUp |-> TRUE]
        ]_clientVars
  BY StepOnce
<1> QED
  BY <1>1, InitFunded, NextFunded, PTL DEF ClientSpec, NoSecondDeposit
-----------------------------------------------------------------------------
(* The records together *)

\* The records share no state: a behaviour of MCRecords is one of each of its
\* parts, a stuttering one where another part runs, and the order it starts
\* interchangeable calls in only leaves behaviours out.  What is proved of a
\* subscription, of a refund, of a proxied request and of the client's channels
\* so holds of it.
THEOREM RecordsRunParts == RecordSpec => Spec /\ RefundSpec /\ ReplaySpec /\ ClientSpec
<1>1. RecordInit => Init /\ RefundInit /\ ReplayInit /\ ClientInit
  BY DEF RecordInit
<1>2. ASSUME [RecordNext]_recordVars
      PROVE  /\ [Next]_vars /\ [RefundNext]_refundVars
             /\ [ReplayNext]_replayVars /\ [ClientNext]_clientVars
  <2>1. CASE RecordNext
    <3>1. Next \/ UNCHANGED vars
      BY <2>1 DEF RecordNext
    <3>2. RefundNext \/ UNCHANGED refundVars
      BY <2>1 DEF RecordNext
    <3>3. ReplayNext \/ UNCHANGED replayVars
      BY <2>1 DEF RecordNext
    <3>4. ClientNext \/ UNCHANGED clientVars
      BY <2>1 DEF RecordNext
    <3> QED
      BY <3>1, <3>2, <3>3, <3>4
  <2>2. CASE UNCHANGED recordVars
    BY <2>2 DEF recordVars
  <2> QED
    BY <1>2, <2>1, <2>2
<1>3. [RecordNext]_recordVars =>
        /\ [Next]_vars /\ [RefundNext]_refundVars
        /\ [ReplayNext]_replayVars /\ [ClientNext]_clientVars
  BY <1>2
<1> QED
  BY <1>1, <1>3, PTL DEF RecordSpec, Spec, RefundSpec, ReplaySpec, ClientSpec

\* The records stay well typed, whichever part runs, for any calls, deliveries,
\* requests and managers (subscription/Store.ts, Credit.ts and
\* PrepaidRefunds.ts, proxy/internal/Replay.ts, client/SessionManager.ts).
THEOREM RecordTyped == RecordSpec => []RecordTypeOK
<1>1. ReplayInv => ReplayTypeOK
  BY DEF ReplayInv
<1>2. RefundInv => RefundTypeOK
  BY DEF RefundInv
<1>3. TypeOK /\ RefundTypeOK /\ ReplayTypeOK /\ ClientTypeOK => RecordTypeOK
  BY DEF RecordTypeOK
<1> QED
  BY <1>1, <1>2, <1>3, RecordsRunParts, StoreTyped, RefundSafe, ReplaySafe, ClientTyped, PTL
=============================================================================
