----------------------------- MODULE SharedVoucher -----------------------------
(***************************************************************************)
(* What the streams of a channel promise each other, and every other       *)
(* request, about the one voucher they are all paid from: what one of them *)
(* holds nobody else spends, and what a stream earns is what it held.      *)
(***************************************************************************)
EXTENDS Integers, Functions

CONSTANT Holders    \* the streams

VARIABLES
    limit,     \* what the voucher is good for
    spent,     \* what it has paid for
    held,      \* holder -> what is set aside for it
    earned     \* holder -> what it has been paid

voucher == <<limit, spent, held, earned>>

VoucherInit ==
    /\ limit \in Nat
    /\ spent = 0
    /\ held = [h \in Holders |-> 0]
    /\ earned = [h \in Holders |-> 0]

\* What is neither spent nor set aside.
Left == limit - spent - SumFunction(held)
-----------------------------------------------------------------------------
\* The payer signs for more.
Raise ==
    /\ limit' > limit
    /\ UNCHANGED <<spent, held, earned>>

\* A holder sets more aside, on top of what it holds.
Hold(h) ==
    /\ \E amount \in 1 .. Left : held' = [held EXCEPT ![h] = @ + amount]
    /\ UNCHANGED <<limit, spent, earned>>

\* It takes all that it holds.
Take(h) ==
    /\ spent' = spent + held[h]
    /\ earned' = [earned EXCEPT ![h] = @ + held[h]]
    /\ held' = [held EXCEPT ![h] = 0]
    /\ UNCHANGED limit

\* Holders give up what they hold, or have it no longer.
Lapse ==
    /\ \E gone \in SUBSET Holders :
          held' = [h \in Holders |-> IF h \in gone THEN 0 ELSE held[h]]
    /\ UNCHANGED <<limit, spent, earned>>

\* Another request is paid from what is left.
Spend ==
    /\ \E amount \in 1 .. Left : spent' = spent + amount
    /\ UNCHANGED <<limit, held, earned>>

VoucherNext ==
    \/ Raise \/ Lapse \/ Spend
    \/ \E h \in Holders : Hold(h) \/ Take(h)

VoucherSpec == VoucherInit /\ [][VoucherNext]_voucher
=============================================================================
