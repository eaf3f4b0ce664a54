------------------------------ MODULE ProxyReplay ------------------------------
(***************************************************************************)
(* Replay of paid proxy deliveries (proxy/internal/Replay.ts, used by      *)
(* Proxy.ts): requests that carry the same credential and the same         *)
(* content.  One of them pays and runs the upstream request detached from  *)
(* its client; the others collect the recorded outcome, wait, or run a     *)
(* failed delivery again.  A delivery may ask the upstream again itself,   *)
(* when onUpstreamError says so after a request that failed.  Writes of    *)
(* the record are best effort: one that fails is swallowed and may still   *)
(* arrive later.  Servers may stop.                                        *)
(***************************************************************************)
EXTENDS Integers

CONSTANTS
    Presented,       \* requests with the credential
    MaxDeliveries,   \* maxAttempts
    Ttl,             \* ttl
    MaxProxyTime     \* bound: the clock

ASSUME ReplayAssumption ==
    {MaxDeliveries, Ttl} \subseteq Nat \ {0} /\ MaxProxyTime \in Nat

VARIABLES
    proxyTime,
    kept,        \* the record under the replay key
    strays,      \* records of failed writes that may still arrive
    redeemed,    \* the credential has paid
    runs,        \* deliveries started
    presented    \* the requests' progress

replayVars == <<proxyTime, kept, strays, redeemed, runs, presented>>

Outcomes == {"failed", "delivered", "complete"}
Nothing == [status |-> "none", attempts |-> 0, expires |-> 0]
ReplayRecord == [status : Outcomes \cup {"none", "pending"}, attempts : 0 .. MaxDeliveries, expires : Nat]

ReplayTypeOK ==
    /\ proxyTime \in Nat
    /\ kept \in ReplayRecord
    /\ strays \subseteq ReplayRecord
    /\ redeemed \in BOOLEAN
    /\ runs \in Nat
    /\ presented \in [Presented ->
         [pc : {"idle", "claiming", "paying", "pending", "running", "retrying", "streaming",
                "recording", "answered", "stopped"},
          attempt : 0 .. MaxDeliveries, outcome : Outcomes \cup {"none"}, now : Nat]]

ReplayInit ==
    /\ proxyTime = 0
    /\ kept = Nothing
    /\ strays = {}
    /\ redeemed = FALSE
    /\ runs = 0
    /\ presented = [r \in Presented |-> [pc |-> "idle", attempt |-> 0, outcome |-> "none", now |-> 0]]

On(r, pc) == presented[r].pc = pc
Go(r, pc) == presented' = [presented EXCEPT ![r].pc = pc]
-----------------------------------------------------------------------------
(* lookup *)

\* Bug: drop a record at the last moment of its time.
ExpiresSoon(record, now) == record.expires <= now + 1

IsOver(record, now) == record.expires <= now

\* Bug: take a delivery that is still running for a failed one.
MayRunPending(record) == record.status \in {"failed", "pending"} /\ record.attempts < MaxDeliveries

\* Another upstream attempt follows a failed one only.
MayRun(record) == record.status = "failed" /\ record.attempts < MaxDeliveries

\* The clock and the record are read first: an unknown credential never causes
\* a write.
Lookup(r) ==
    LET pc == IF kept = Nothing THEN "paying"
              ELSE IF ~IsOver(kept, proxyTime) /\ kept.status # "failed" THEN "answered"
              ELSE "claiming"
    IN /\ On(r, "idle")
       /\ presented' = [presented EXCEPT ![r] =
             [@ EXCEPT !.pc = pc, !.now = IF pc = "claiming" THEN proxyTime ELSE 0]]
       /\ UNCHANGED <<proxyTime, kept, strays, redeemed, runs>>

\* The update that removes an expired record or claims the next attempt; when
\* its answer is lost the request ends although the attempt may be claimed.
claim(r) ==
    LET over     == IsOver(kept, presented[r].now)
        Goes(pc) == presented' = [presented EXCEPT ![r] = [@ EXCEPT !.pc = pc, !.now = 0]]
    IN /\ On(r, "claiming")
       /\ \/ kept = Nothing /\ Goes("paying") /\ UNCHANGED kept
          \/ kept # Nothing /\ over /\ kept' = Nothing /\ \E pc \in {"paying", "answered"} : Goes(pc)
          \/ /\ kept # Nothing /\ ~over /\ MayRun(kept)
             /\ kept' = [kept EXCEPT !.status = "pending", !.attempts = @ + 1]
             /\ \/ presented' = [presented EXCEPT ![r] =
                       [@ EXCEPT !.pc = "pending", !.attempt = kept.attempts + 1, !.now = 0]]
                \/ Goes("answered")
          \/ /\ kept # Nothing /\ ~over /\ ~MayRun(kept)
             /\ Goes("answered") /\ UNCHANGED kept
          \/ Goes("answered") /\ UNCHANGED kept
       /\ UNCHANGED <<proxyTime, strays, redeemed, runs>>

\* The payment handler accepts a credential once.
pay(r) ==
    /\ On(r, "paying")
    /\ redeemed' = TRUE
    /\ presented' = [presented EXCEPT ![r] =
          IF redeemed THEN [@ EXCEPT !.pc = "answered"]
          ELSE [@ EXCEPT !.pc = "pending", !.attempt = 1]]
    /\ UNCHANGED <<proxyTime, kept, strays, runs>>
-----------------------------------------------------------------------------
(* deliver *)

OutcomeRecord(r, status) ==
    [status |-> status, attempts |-> presented[r].attempt, expires |-> proxyTime + Ttl]

\* record: the write is made, fails, or fails and arrives later.
record(value) ==
    \/ kept' = value /\ UNCHANGED strays
    \/ UNCHANGED <<kept, strays>>
    \/ strays' = strays \cup {value} /\ UNCHANGED kept

\* The delivery starts, with its first upstream request.
deliver(r) ==
    /\ On(r, "pending")
    /\ record(OutcomeRecord(r, "pending"))
    /\ runs' = runs + 1
    /\ Go(r, "running")
    /\ UNCHANGED <<proxyTime, redeemed>>

\* An upstream request ended in an error or was not answered ok, and the
\* handler wants another one.
onUpstreamError(r) ==
    /\ On(r, "running")
    /\ presented' = [presented EXCEPT ![r] = [@ EXCEPT !.pc = "retrying", !.outcome = "failed"]]
    /\ UNCHANGED <<proxyTime, kept, strays, redeemed, runs>>

\* It is made, as often as the handler asks; or the delivery's time is over.
waitForRetry(r) ==
    /\ On(r, "retrying")
    /\ \/ presented' = [presented EXCEPT ![r] = [@ EXCEPT !.pc = "running", !.outcome = "none"]]
       \/ presented' = [presented EXCEPT ![r] = [@ EXCEPT !.pc = "recording", !.outcome = "failed"]]
    /\ UNCHANGED <<proxyTime, kept, strays, redeemed, runs>>

\* The upstream fails, is too slow or answers 5xx; answers without a body or
\* with an event stream; or starts a body, which a copy of is kept.
Respond(r) ==
    /\ On(r, "running")
    /\ \/ \E outcome \in Outcomes :
            presented' = [presented EXCEPT ![r] = [@ EXCEPT !.pc = "recording", !.outcome = outcome]]
       \/ Go(r, "streaming")
    /\ UNCHANGED <<proxyTime, kept, strays, redeemed, runs>>

\* The body breaks off, is too large to keep, or is complete.
keep(r) ==
    /\ On(r, "streaming")
    /\ \E outcome \in Outcomes :
          presented' = [presented EXCEPT ![r] = [@ EXCEPT !.pc = "recording", !.outcome = outcome]]
    /\ UNCHANGED <<proxyTime, kept, strays, redeemed, runs>>

recordOutcome(r) ==
    /\ On(r, "recording")
    /\ record(OutcomeRecord(r, presented[r].outcome))
    /\ Go(r, "answered")
    /\ UNCHANGED <<proxyTime, redeemed, runs>>

StopServer(r) ==
    /\ presented[r].pc \in {"claiming", "paying", "pending", "running", "retrying", "streaming",
                            "recording"}
    /\ Go(r, "stopped")
    /\ UNCHANGED <<proxyTime, kept, strays, redeemed, runs>>

Arrive ==
    /\ \E value \in strays : kept' = value /\ strays' = strays \ {value}
    /\ UNCHANGED <<proxyTime, redeemed, runs, presented>>

ProxyTick ==
    /\ proxyTime < MaxProxyTime
    /\ proxyTime' = proxyTime + 1
    /\ UNCHANGED <<kept, strays, redeemed, runs, presented>>

ReplayStep(r) ==
    \/ Lookup(r) \/ claim(r) \/ pay(r) \/ deliver(r)
    \/ onUpstreamError(r) \/ waitForRetry(r) \/ Respond(r) \/ keep(r)
    \/ recordOutcome(r) \/ StopServer(r)

ReplayNext == (\E r \in Presented : ReplayStep(r)) \/ Arrive \/ ProxyTick

ReplaySpec == ReplayInit /\ [][ReplayNext]_replayVars
-----------------------------------------------------------------------------
Delivering(r) == presented[r].pc \in {"pending", "running", "retrying", "streaming", "recording"}

\* It delivers, or its last upstream request may have been answered: it was not
\* seen to fail.
Stands(r) == Delivering(r) \/ (presented[r].attempt > 0 /\ presented[r].outcome # "failed")

\* No two deliveries of a payment run at a time, and the upstream is asked again
\* by another one only after the one before was seen to fail, never after an
\* answer, nor when a delivery stopped without a known end; at most maxAttempts
\* are started (Replay.ts:9), whatever writes fail, arrive late or expire.  A
\* request that was seen to fail may have run: an upstream that is not
\* idempotent may run it again (Replay.ts:11), by another delivery or by
\* onUpstreamError within one, which maxAttempts does not bound.
RunsInOrder ==
    /\ runs <= MaxDeliveries
    /\ \A r, s \in Presented : Stands(r) /\ Stands(s) => r = s
    /\ \A r \in Presented : presented[r].attempt > 1 =>
          \E s \in Presented : /\ presented[s].attempt = presented[r].attempt - 1
                               /\ presented[s].outcome = "failed"
                               /\ ~Delivering(s)

\* A response that was recorded stays until its time is over, unless a write
\* that failed before arrives (Replay.ts:160, lookup; 219, deliver).
CompleteIsKept ==
    [][kept.status = "complete" /\ kept.expires > proxyTime /\ strays' = strays =>
         kept' = kept]_replayVars
=============================================================================
