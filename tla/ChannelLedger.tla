----------------------------- MODULE ChannelLedger -----------------------------
(***************************************************************************)
(* What a session server promises about the money of one channel, whatever *)
(* its calls, supervisors and escrow interleave: an account of what the    *)
(* payer authorized, what was charged to it and what was paid out.         *)
(* The escrow and the server's record change in steps of their own.        *)
(***************************************************************************)
EXTENDS Integers

VARIABLES
    phase,        \* of the channel in the escrow
    deposit,      \* what the payer ever deposited
    paid,         \* what the escrow paid to the payee
    authorized,   \* the highest accepted voucher
    charged,      \* what was charged for, less credits
    recorded,     \* what the record knows to be paid
    closing,      \* the record shows a close under way
    over          \* the record is finalized

escrowAccount == <<phase, deposit, paid>>
record == <<authorized, charged, recorded, closing, over>>
ledger == <<escrowAccount, record>>

LedgerInit ==
    /\ phase = "absent"
    /\ deposit = 0 /\ paid = 0
    /\ authorized = 0 /\ charged = 0 /\ recorded = 0
    /\ closing = FALSE /\ over = FALSE
-----------------------------------------------------------------------------
(* The escrow *)

\* The payer opens the channel or adds to it.
Fund ==
    /\ phase # "closed"
    /\ phase' = "open"
    /\ deposit < deposit'
    /\ UNCHANGED paid

\* The payee captures what a voucher authorized and the deposit covers; a close
\* is the last capture, and may be none at all.
Capture ==
    /\ phase = "open"
    /\ phase' \in {"open", "closed"}
    /\ paid <= paid' /\ paid' <= authorized /\ paid' <= deposit
    /\ UNCHANGED deposit
-----------------------------------------------------------------------------
(* The record.  Any update may learn of payments that were made. *)

Learn == recorded <= recorded' /\ recorded' <= paid

\* A voucher is accepted within the deposit.
Authorizes == authorized < authorized' /\ authorized' <= deposit

\* A voucher replaces a lower one, whatever became of the record since.
Accept ==
    /\ Learn
    /\ Authorizes
    /\ UNCHANGED <<charged, closing, over>>

\* Service is charged within what is authorized, by a voucher that comes with
\* the request or by an earlier one.
Charge ==
    /\ ~closing /\ ~over
    /\ Learn
    /\ Authorizes \/ UNCHANGED authorized
    /\ charged < charged' /\ charged' <= authorized'
    /\ UNCHANGED <<closing, over>>

\* A credit takes back what was charged and is not known to be paid.
Credit ==
    /\ ~closing /\ ~over
    /\ recorded <= charged' /\ charged' < charged
    /\ UNCHANGED <<authorized, recorded, closing, over>>

\* A close is announced, abandoned or called off; a payment is recorded.
Note ==
    /\ Learn
    /\ closing' \in BOOLEAN
    /\ UNCHANGED <<authorized, charged, over>>

\* The record of a closed channel knows all that was paid; the voucher of the
\* close is kept.
Finalize ==
    /\ phase = "closed"
    /\ over'
    /\ recorded' = paid
    /\ authorized <= authorized'
    /\ closing' \in BOOLEAN
    /\ UNCHANGED charged
-----------------------------------------------------------------------------
LedgerNext ==
    \/ (Fund \/ Capture) /\ UNCHANGED record
    \/ (Accept \/ Charge \/ Credit \/ Note \/ Finalize) /\ UNCHANGED escrowAccount

LedgerSpec == LedgerInit /\ [][LedgerNext]_ledger

\* Nothing is charged that was not authorized, nothing paid that was not
\* authorized and deposited, and the record claims no payment that was not made;
\* once final it claims all of them.
Solvent ==
    /\ charged <= authorized
    /\ paid <= authorized /\ paid <= deposit
    /\ recorded <= paid
    /\ over => phase = "closed" /\ recorded = paid
=============================================================================
