--------------------------- MODULE MCSessionChannel ---------------------------
(***************************************************************************)
(* SessionChannel for TLC.  Calls of one handler are interchangeable, and  *)
(* so are credit keys; every run checks safety only, so the symmetry is    *)
(* sound.                                                                  *)
(*                                                                         *)
(* A run offers more calls than it lets take part in one behaviour: its    *)
(* constraint names the casts, so that one run covers the interleavings of *)
(* each cast without those of all casts at once.                           *)
(***************************************************************************)
EXTENDS SessionChannel, FiniteSets, TLC

Interchangeable ==
    Permutations(Opens) \cup Permutations(Vouchers) \cup Permutations(Settlements)
      \cup Permutations(Closes) \cup Permutations(Supervisors)
      \cup Permutations(CreditKeys)

\* How many calls of a handler take part.
Playing(handler) == Cardinality({c \in DOMAIN handler : handler[c].pc # "idle"})

\* Two voucher requests, or one with a second open and a top-up.
VoucherCasts ==
    \/ Playing(vouchers) <= 1
    \/ Playing(opens) + Playing(topUps) <= 1

\* Next to a settlement: a second open, a close or a supervisor; or two
\* supervisors.
SettlingCasts ==
    \/ Playing(closes) + Playing(supervisors) = 0
    \/ /\ Playing(opens) <= 1 /\ Playing(closes) = 0
       /\ Playing(settlements) + Playing(supervisors) <= 2
    \/ Playing(opens) <= 1 /\ Playing(supervisors) = 0

\* Two closes, or one with a voucher request.
ClosingCasts == Playing(closes) <= 1 \/ Playing(vouchers) = 0

=============================================================================
