------------------------- MODULE MCTransactionCharge -------------------------
(***************************************************************************)
(* TransactionCharge for TLC: two requests for one sponsored payment while *)
(* a third, for another sponsored payment, competes for the budget; or two *)
(* requests that present an unsponsored payment or a proof.                *)
(***************************************************************************)
EXTENDS TransactionCharge, TLC

CONSTANTS r1, r2, r3, p1, p2, u1, q1

MCPresents == r1 :> {p1, u1, q1} @@ r2 :> {p1, u1, q1} @@ r3 :> {p2}
MCExpiry == [p \in Payments |-> IF p = u1 THEN 1 ELSE 2]
MCValidBefore == [p \in Payments |-> 2]
MCFee == [p \in Payments |-> 1]

\* Only the sponsored payments share the budget.
MCNext ==
    /\ Next
    /\ (\E r \in Requests : requests'[r].pc # "idle" /\ requests'[r].payment \notin Sponsored)
          => requests'[r3].pc = "idle"

\* Only the start of a request is restricted, which fairness does not ask for.
MCSpec == Init /\ [][MCNext]_vars /\ Fairness

=============================================================================
