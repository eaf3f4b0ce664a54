------------------------------- MODULE MCRecords -------------------------------
(***************************************************************************)
(* Four records for TLC, one at a time: each behaviour runs the part it    *)
(* starts with and leaves the others as they are.                          *)
(*   subscription  SubscriptionStore: three calls of one lookup key        *)
(*   refund        PrepaidRefund: two deliveries within the retention      *)
(*   keyed         PrepaidRefund: one, and two attempts of a keyed charge, *)
(*                 while time passes                                       *)
(*   proxy         ProxyReplay: requests that present one credential       *)
(*   client        ClientFunding: two managers, the second with a channel; *)
(*                 either both run a fetch, with a top-up each, or only    *)
(*                 the first, with two more top-ups, one for a challenge   *)
(* Interchangeable calls start in the order of their names: a1 before a2,  *)
(* d1 before d2, q1 before q2 before q3; the first challenge is c1.        *)
(***************************************************************************)
EXTENDS MCSubscriptionStore, PrepaidRefund, ProxyReplay, ClientFunding

CONSTANTS a1, a2, c2, r1, r2, d1, d2, k1, k2, q1, q2, q3, m1, m2, t1, t2, t3, t4

VARIABLE part

recordVars == <<part, vars, refundVars, replayVars, clientVars>>

OwnManager == [t \in {t1, t2, t3, t4} |-> IF t = t2 THEN m2 ELSE m1]

RecordInit ==
    /\ part \in {"subscription", "refund", "keyed", "proxy", "client"}
    /\ Init /\ RefundInit /\ ReplayInit /\ ClientInit
    /\ part # "client" => managers[m1].channel = NoEntry
    /\ managers[m2].channel # NoEntry

RecordNext ==
    /\ UNCHANGED part
    /\ IF part = "subscription"
       THEN /\ Next
            /\ activations'[a1].pc = "idle" => activations'[a2].pc = "idle"
            /\ activations'[a1].challenge # c2
            /\ renewals'[r1].pc = "idle" => renewals'[r2].pc = "idle"
       ELSE UNCHANGED vars
    /\ CASE part = "refund" -> /\ RefundNext /\ UNCHANGED <<keyedCalls, refundTime>>
                               /\ serves'[d1].pc = "idle" => serves'[d2].pc = "idle"
         [] part = "keyed"  -> /\ RefundNext /\ serves'[d2] = serves[d2]
                               /\ keyedCalls'[k1].pc = "idle" => keyedCalls'[k2].pc = "idle"
         [] OTHER           -> UNCHANGED refundVars
    /\ IF part = "proxy"
       THEN /\ ReplayNext
            /\ presented'[q1].pc = "idle" => presented'[q2].pc = "idle"
            /\ presented'[q2].pc = "idle" => presented'[q3].pc = "idle"
       ELSE UNCHANGED replayVars
    /\ IF part = "client"
       THEN ClientNext /\ (fetches'[m2].pc = "idle" \/ \A t \in {t3, t4} : topUps'[t].pc = "idle")
       ELSE UNCHANGED clientVars

RecordSpec == RecordInit /\ [][RecordNext]_recordVars

\* The record of the part stays well typed (subscription/Store.ts, Credit.ts and
\* PrepaidRefunds.ts, proxy/internal/Replay.ts, client/SessionManager.ts).
RecordTypeOK ==
    CASE part = "subscription" -> TypeOK
      [] part = "proxy"        -> ReplayTypeOK
      [] part = "client"       -> ClientTypeOK
      [] OTHER                 -> RefundTypeOK
=============================================================================
