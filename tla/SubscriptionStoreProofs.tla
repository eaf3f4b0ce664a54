------------------------ MODULE SubscriptionStoreProofs ------------------------
(***************************************************************************)
(* What holds of SubscriptionStore for any challenges, calls, stored       *)
(* subscriptions, periods, timeouts and clocks.                            *)
(***************************************************************************)
EXTENDS SubscriptionStore, TLAPS

\* A call in these places has claimed its challenge and keeps the claim.
Claiming(a) == activations[a].pc \notin {"idle", "replayed", "released"}

\* The claim of a challenge excludes every other call.
ClaimsExclusive ==
    /\ \A a \in Activations :
          Claiming(a) => activations[a].challenge \in claimed
    /\ \A a, b \in Activations :
          a # b /\ Claiming(a) /\ Claiming(b) =>
              activations[a].challenge # activations[b].challenge

Committed ==
    {"committed", "committedId", "ownCancel", "putCancel", "ownRecord", "putRecord",
     "ownLookup", "putLookup", "clearDone"}

PastCreation == Committed \cup {"clearFailed", "created", "mismatched", "refused", "done"}

\* Only a call past its creation has paid, and it never releases its claim.
PaidPastCreation ==
    \A a \in Activations : charged[a][0] # 0 => activations[a].pc \in PastCreation

\* A committed activation has its own lock, which no timeout takes away.
CommittedLocked ==
    \A a \in Activations :
        activations[a].pc \in Committed =>
            marker.committing /\ marker.challenge = activations[a].challenge

\* A renewal knows its subscription and charges a later period than the first.
RenewalsLater ==
    \A r \in Renewals :
        /\ renewals[r].pc # "idle" => renewals[r].sub \in Subscriptions
        /\ renewals[r].pc \in {"due", "started", "charging"} => renewals[r].period # 0

IInv ==
    /\ TypeOK
    /\ ClaimsExclusive
    /\ PaidPastCreation
    /\ CommittedLocked
    /\ RenewalsLater

-----------------------------------------------------------------------------
LEMMA InitIInv == Init => IInv
<1> SUFFICES ASSUME Init PROVE IInv
  OBVIOUS
<1> USE SubscriptionConstants DEF Init
<1>1. lookup \in Subscriptions \cup {"none"}
  BY DEF Subscriptions
<1>2. records \in [Subscriptions -> Record]
  BY DEF Record, NoRecord, InFlight
<1>3. TypeOK
  BY <1>1, <1>2 DEF TypeOK, Marker, Unlocked, ActivationCall, ActivationPcs,
     RenewalCall, RenewalPcs, Record, NoRecord, InFlight
<1>4. PaidPastCreation
  BY DEF PaidPastCreation, Subscriptions, Periods
<1>5. ClaimsExclusive /\ CommittedLocked /\ RenewalsLater
  BY DEF ClaimsExclusive, Claiming, CommittedLocked, Committed, RenewalsLater
<1> QED
  BY <1>3, <1>4, <1>5 DEF IInv

-----------------------------------------------------------------------------
(* Types *)

\* The type of a subscription's payments after one more, in any period.
LEMMA PaidTyped ==
  ASSUME TypeOK, NEW s, NEW p, Paid(s, p)
  PROVE  charged' \in [Subscriptions -> [Periods -> Nat]]
<1>1. charged \in [Subscriptions -> [Periods -> Nat]]
  BY DEF TypeOK
<1>2. CASE s \in Subscriptions
  <2>1. [charged[s] EXCEPT ![p] = @ + 1] \in [Periods -> Nat]
    <3>1. charged[s] \in [Periods -> Nat]
      BY <1>1, <1>2
    <3>2. CASE p \in Periods
      BY <3>1, <3>2
    <3>3. CASE p \notin Periods
      BY <3>1, <3>3
    <3> QED
      BY <3>2, <3>3
  <2> QED
    BY <1>1, <2>1 DEF Paid
<1>3. CASE s \notin Subscriptions
  BY <1>1, <1>3 DEF Paid
<1> QED
  BY <1>2, <1>3

LEMMA PaidUnnoticedTyped ==
  ASSUME TypeOK, NEW s, NEW p, PaidUnnoticed(s, p)
  PROVE  charged' \in [Subscriptions -> [Periods -> Nat]]
BY PaidTyped DEF PaidUnnoticed, TypeOK

LEMMA RecordOfTyped ==
  ASSUME TypeOK, NEW s \in Subscriptions \cup {"none"}
  PROVE  RecordOf(s) \in Record
BY DEF TypeOK, RecordOf, NoRecord, Record, InFlight

LEMMA NewRecordTyped ==
  ASSUME TypeOK, NEW a \in Activations
  PROVE  /\ NewRecord(a) \in Record
         /\ [NewRecord(a) EXCEPT !.canceled = TRUE] \in Record
BY DEF TypeOK, NewRecord, NoRecord, Record, InFlight, ActivationCall

LEMMA ActivationToTyped ==
  ASSUME TypeOK, NEW a \in Activations, NEW pc \in ActivationPcs, ActivationTo(a, pc)
  PROVE  activations' \in [Activations -> ActivationCall]
BY DEF TypeOK, ActivationTo, ActivationCall

\* An activation keeps the state well typed.
LEMMA ActivationTyped ==
  ASSUME IInv, NEW a \in Activations, ActivationStep(a)
  PROVE  TypeOK'
<1> TypeOK
  BY DEF IInv
<1> a \in Subscriptions
  BY DEF Subscriptions
<1> activations[a].challenge \in Challenges \cup {"none"}
  BY DEF TypeOK, ActivationCall
<1>1. CASE Claim(a)
  <2> PICK c \in Challenges :
        /\ claimed' = claimed \cup {c}
        /\ activations' = [activations EXCEPT
              ![a].challenge = c,
              ![a].pc = IF c \in claimed THEN "replayed" ELSE "claimed"]
    BY <1>1 DEF Claim
  <2>1. [activations[a] EXCEPT !.challenge = c,
                               !.pc = IF c \in claimed THEN "replayed" ELSE "claimed"]
            \in ActivationCall
    <3> activations[a] \in ActivationCall /\ c \in Challenges \cup {"none"}
      BY DEF TypeOK
    <3>1. CASE c \in claimed
      BY <3>1 DEF ActivationCall, ActivationPcs
    <3>2. CASE c \notin claimed
      BY <3>2 DEF ActivationCall, ActivationPcs
    <3> QED
      BY <3>1, <3>2
  <2>2. activations' = [activations EXCEPT ![a] =
            [activations[a] EXCEPT !.challenge = c,
                                   !.pc = IF c \in claimed THEN "replayed" ELSE "claimed"]]
    BY DEF TypeOK
  <2>3. activations' \in [Activations -> ActivationCall]
    BY <2>1, <2>2 DEF TypeOK
  <2> QED
    BY <1>1, <2>3 DEF Claim, TypeOK
<1>2. CASE ReadLookup(a)
  <2>1. activations[a].pc \in DOMAIN AfterLookup
    BY <1>2 DEF ReadLookup
  <2>2. AfterLookup[activations[a].pc] \in ActivationPcs
    BY <2>1 DEF AfterLookup, ActivationPcs
  <2> DEFINE call == [activations[a] EXCEPT !.pc = AfterLookup[activations[a].pc],
                                            !.seen = lookup]
  <2>3. call \in ActivationCall
    <3> activations[a] \in ActivationCall /\ lookup \in Subscriptions \cup {"none"}
      BY DEF TypeOK
    <3> QED
      BY <2>2 DEF ActivationCall
  <2>4. activations' = [activations EXCEPT ![a] = call]
    BY <1>2 DEF ReadLookup, TypeOK
  <2>5. activations' \in [Activations -> ActivationCall]
    BY <2>3, <2>4 DEF TypeOK
  <2> QED
    BY <1>2, <2>5 DEF ReadLookup, TypeOK, store
<1>3. CASE FindExisting(a)
  <2>1. activations' \in [Activations -> ActivationCall]
    BY <1>3, ActivationToTyped DEF FindExisting, ActivationPcs
  <2> QED
    BY <1>3, <2>1 DEF FindExisting, TypeOK, store
<1>4. CASE Lock(a)
  <2>1. activations[a].challenge \in Challenges
    BY <1>4 DEF Lock, IInv, ClaimsExclusive, Claiming, TypeOK
  <2>2. activations' \in [Activations -> ActivationCall]
    BY <1>4, ActivationToTyped DEF Lock, ActivationPcs
  <2>3. [challenge |-> activations[a].challenge, startedAt |-> clock, committing |-> FALSE]
            \in Marker
    BY <2>1 DEF TypeOK, Marker
  <2>4. marker' \in Marker
    BY <1>4, <2>3 DEF Lock, TypeOK
  <2> QED
    BY <1>4, <2>2, <2>4 DEF Lock, TypeOK
<1>5. CASE FindExistingAgain(a)
  <2>1. activations' \in [Activations -> ActivationCall]
    BY <1>5, ActivationToTyped DEF FindExistingAgain, ActivationPcs
  <2> QED
    BY <1>5, <2>1 DEF FindExistingAgain, TypeOK, store
<1>6. CASE Create(a)
  <2> DEFINE call == [activations[a] EXCEPT !.pc = "created", !.anchor = clock]
  <2>1. activations' \in [Activations -> ActivationCall]
    <3>1. call \in ActivationCall
      <4> activations[a] \in ActivationCall /\ clock \in Nat
        BY DEF TypeOK
      <4> QED
        BY DEF ActivationCall, ActivationPcs
    <3>2. activations' = [activations EXCEPT ![a] = call]
      BY <1>6 DEF Create, TypeOK
    <3> QED
      BY <3>1, <3>2 DEF TypeOK
  <2>2. charged' \in [Subscriptions -> [Periods -> Nat]]
    BY <1>6, PaidTyped DEF Create
  <2> QED
    BY <1>6, <2>1, <2>2 DEF Create, TypeOK, store
<1>7. CASE CreateFails(a)
  <2>1. activations' \in [Activations -> ActivationCall]
    BY <1>7, ActivationToTyped DEF CreateFails, ActivationPcs
  <2>2. charged' \in [Subscriptions -> [Periods -> Nat]]
    BY <1>7, PaidUnnoticedTyped DEF CreateFails
  <2> QED
    BY <1>7, <2>1, <2>2 DEF CreateFails, TypeOK, store
<1>8. CASE Commit(a)
  <2>1. activations[a].challenge \in Challenges
    BY <1>8 DEF Commit, IInv, ClaimsExclusive, Claiming, TypeOK
  <2>2. activations' \in [Activations -> ActivationCall]
    BY <1>8, ActivationToTyped DEF Commit, ActivationPcs
  <2>3. ownsActivation(a) =>
            marker \in [challenge : Challenges, startedAt : Nat, committing : BOOLEAN]
    BY <2>1, SubscriptionConstants DEF ownsActivation, TypeOK, Marker, Unlocked
  <2>4. marker' \in Marker
    BY <1>8, <2>3 DEF Commit, TypeOK, Marker
  <2> QED
    BY <1>8, <2>2, <2>4 DEF Commit, TypeOK
<1>9. CASE PutMismatched(a)
  <2>1. activations' \in [Activations -> ActivationCall]
    BY <1>9, ActivationToTyped DEF PutMismatched, ActivationPcs
  <2>2. records' \in [Subscriptions -> Record]
    BY <1>9, NewRecordTyped DEF PutMismatched, TypeOK
  <2> QED
    BY <1>9, <2>1, <2>2 DEF PutMismatched, TypeOK
<1>10. CASE ReadPrevious(a)
  <2>1. RecordOf(activations[a].seen) \in Record
    BY RecordOfTyped DEF TypeOK, ActivationCall
  <2>2. activations' \in [Activations -> ActivationCall]
    BY <1>10, <2>1 DEF ReadPrevious, TypeOK, ActivationCall, ActivationPcs
  <2> QED
    BY <1>10, <2>2 DEF ReadPrevious, TypeOK, store
<1>11. CASE CheckOwner(a)
  <2>1. activations[a].pc \in DOMAIN AfterOwn
    BY <1>11 DEF CheckOwner
  <2>2. AfterOwn[activations[a].pc] \in ActivationPcs /\ "refused" \in ActivationPcs
    BY <2>1 DEF AfterOwn, ActivationPcs
  <2>3. activations' \in [Activations -> ActivationCall]
    BY <1>11, <2>2, ActivationToTyped DEF CheckOwner
  <2> QED
    BY <1>11, <2>3 DEF CheckOwner, TypeOK, store
<1>12. CASE PutCanceled(a)
  <2>1. [activations[a].previous EXCEPT !.canceled = TRUE] \in Record
    BY DEF TypeOK, ActivationCall, Record
  <2>2. activations' \in [Activations -> ActivationCall]
    BY <1>12, ActivationToTyped DEF PutCanceled, ActivationPcs
  <2>3. records' \in [Subscriptions -> Record]
    BY <1>12, <2>1 DEF PutCanceled, TypeOK
  <2> QED
    BY <1>12, <2>2, <2>3 DEF PutCanceled, TypeOK
<1>13. CASE PutRecord(a)
  <2>1. activations' \in [Activations -> ActivationCall]
    BY <1>13, ActivationToTyped DEF PutRecord, ActivationPcs
  <2>2. records' \in [Subscriptions -> Record]
    BY <1>13, NewRecordTyped DEF PutRecord, TypeOK
  <2> QED
    BY <1>13, <2>1, <2>2 DEF PutRecord, TypeOK
<1>14. CASE PutLookup(a)
  <2>1. activations' \in [Activations -> ActivationCall]
    BY <1>14, ActivationToTyped DEF PutLookup, ActivationPcs
  <2> QED
    BY <1>14, <2>1 DEF PutLookup, TypeOK
<1>15. CASE Clear(a)
  <2>1. activations[a].pc \in DOMAIN AfterClear
    BY <1>15 DEF Clear
  <2>2. AfterClear[activations[a].pc] \in ActivationPcs
    BY <2>1 DEF AfterClear, ActivationPcs
  <2>3. activations' \in [Activations -> ActivationCall]
    BY <1>15, <2>2, ActivationToTyped DEF Clear
  <2>4. marker' \in Marker
    BY <1>15 DEF Clear, clearActivationState, TypeOK, Marker
  <2> QED
    BY <1>15, <2>3, <2>4 DEF Clear, TypeOK
<1>16. CASE Reuse(a)
  <2>1. activations' \in [Activations -> ActivationCall]
    BY <1>16, ActivationToTyped DEF Reuse, ActivationPcs
  <2> QED
    BY <1>16, <2>1 DEF Reuse, TypeOK, store
<1>17. CASE ReleaseCredential(a)
  <2>1. activations' \in [Activations -> ActivationCall]
    BY <1>17, ActivationToTyped DEF ReleaseCredential, ActivationPcs
  <2> QED
    BY <1>17, <2>1 DEF ReleaseCredential, TypeOK
<1> QED
  BY <1>1, <1>2, <1>3, <1>4, <1>5, <1>6, <1>7, <1>8, <1>9, <1>10, <1>11, <1>12,
     <1>13, <1>14, <1>15, <1>16, <1>17 DEF ActivationStep

-----------------------------------------------------------------------------
(* Locks and payments *)

Safe == ClaimsExclusive /\ PaidPastCreation /\ CommittedLocked

\* The call moves on without touching a lock, a claim or a payment.
MovesOn(a) ==
    /\ UNCHANGED <<claimed, marker, charged>>
    /\ \A b \in Activations \ {a} : activations'[b] = activations[b]
    /\ activations'[a].challenge = activations[a].challenge
    /\ Claiming(a)
    /\ activations[a].pc \in PastCreation => activations'[a].pc \in PastCreation
    /\ activations'[a].pc \in Committed => activations[a].pc \in Committed

LEMMA MovesOnSafe ==
  ASSUME Safe, NEW a \in Activations, MovesOn(a)
  PROVE  Safe'
BY DEF Safe, MovesOn, ClaimsExclusive, Claiming, PaidPastCreation, CommittedLocked

\* A step that only changes a call's place moves on if it stays past creation
\* and commits nothing.
LEMMA ActivationToMovesOn ==
  ASSUME TypeOK, NEW a \in Activations, NEW pc \in ActivationPcs, ActivationTo(a, pc),
         UNCHANGED <<claimed, marker, charged>>, Claiming(a),
         activations[a].pc \in PastCreation => pc \in PastCreation,
         pc \in Committed => activations[a].pc \in Committed
  PROVE  MovesOn(a)
<1>1. activations[a] \in ActivationCall
  BY DEF TypeOK
<1>2. activations'[a] = [activations[a] EXCEPT !.pc = pc]
  BY DEF TypeOK, ActivationTo
<1>3. activations'[a].pc = pc /\ activations'[a].challenge = activations[a].challenge
  BY <1>1, <1>2 DEF ActivationCall
<1>4. \A b \in Activations \ {a} : activations'[b] = activations[b]
  BY DEF TypeOK, ActivationTo
<1> QED
  BY <1>3, <1>4 DEF MovesOn

\* An activation's steps on locks, claims and payments keep them consistent.
LEMMA ActivationSafe ==
  ASSUME IInv, NEW a \in Activations, ActivationStep(a)
  PROVE  Safe'
<1> TypeOK /\ Safe
  BY DEF IInv, Safe
<1> USE DEF PastCreation, Committed, ActivationPcs, Claiming
<1>1. CASE Claim(a)
  <2> PICK c \in Challenges :
        /\ claimed' = claimed \cup {c}
        /\ activations' = [activations EXCEPT
              ![a].challenge = c,
              ![a].pc = IF c \in claimed THEN "replayed" ELSE "claimed"]
    BY <1>1 DEF Claim
  <2>1. \A b \in Activations \ {a} : activations'[b] = activations[b]
    BY DEF TypeOK
  <2>2. /\ activations'[a].challenge = c
        /\ activations'[a].pc = IF c \in claimed THEN "replayed" ELSE "claimed"
    <3> activations[a] \in ActivationCall
      BY DEF TypeOK
    <3> QED
      BY DEF TypeOK, ActivationCall
  <2>3. UNCHANGED <<marker, charged>> /\ activations[a].pc = "idle"
    BY <1>1 DEF Claim
  <2>4. activations'[a].pc \in {"replayed", "claimed"}
    BY <2>2
  <2>5. Claiming(a)' => c \notin claimed
    BY <2>2
  <2>6. \A b \in Activations \ {a} :
            Claiming(b)' => Claiming(b) /\ activations'[b].challenge \in claimed
    BY <2>1 DEF Safe, ClaimsExclusive
  <2>7. ClaimsExclusive'
    <3>1. \A b \in Activations : Claiming(b)' => activations'[b].challenge \in claimed'
      <4>1. claimed' = claimed \cup {c}
        OBVIOUS
      <4> HIDE DEF Claiming
      <4> QED
        BY <4>1, <2>2, <2>6
    <3>2. \A b, d \in Activations :
              b # d /\ Claiming(b)' /\ Claiming(d)' =>
                  activations'[b].challenge # activations'[d].challenge
      <4> SUFFICES ASSUME NEW b \in Activations, NEW d \in Activations,
                          b # d, Claiming(b)', Claiming(d)'
                   PROVE  activations'[b].challenge # activations'[d].challenge
        BY Zenon
      <4>1. CASE b = a
        BY <4>1, <2>2, <2>5, <2>6
      <4>2. CASE d = a
        BY <4>2, <2>2, <2>5, <2>6
      <4>3. CASE b # a /\ d # a
        BY <4>3, <2>1 DEF Safe, ClaimsExclusive
      <4> QED
        BY <4>1, <4>2, <4>3
    <3> HIDE DEF Claiming
    <3> QED
      BY <3>1, <3>2 DEF ClaimsExclusive
  <2>8. PaidPastCreation' /\ CommittedLocked'
    BY <2>1, <2>3, <2>4 DEF Safe, PaidPastCreation, CommittedLocked
  <2> QED
    BY <2>7, <2>8 DEF Safe
<1>2. CASE ReadLookup(a)
  <2>1. activations[a].pc \in {"claimed", "locked", "committed"}
    BY <1>2 DEF ReadLookup, AfterLookup
  <2>2. /\ activations'[a].pc = AfterLookup[activations[a].pc]
        /\ activations'[a].challenge = activations[a].challenge
        /\ \A b \in Activations \ {a} : activations'[b] = activations[b]
    <3> activations[a] \in ActivationCall
      BY DEF TypeOK
    <3> QED
      BY <1>2 DEF ReadLookup, TypeOK, ActivationCall
  <2>3. /\ activations'[a].pc \in {"claimedId", "lockedId", "committedId"}
        /\ activations'[a].pc = "committedId" => activations[a].pc = "committed"
        /\ activations[a].pc = "committed" => activations'[a].pc = "committedId"
    BY <2>1, <2>2 DEF AfterLookup
  <2>4. MovesOn(a)
    BY <1>2, <2>1, <2>2, <2>3 DEF ReadLookup, MovesOn, store
  <2> QED
    BY <2>4, MovesOnSafe
<1>3. CASE FindExisting(a)
  BY <1>3, ActivationToMovesOn, MovesOnSafe DEF FindExisting, store
<1>4. CASE Lock(a)
  <2>1. CASE marker # Unlocked /\ ~isStaleActivation
    BY <1>4, <2>1, ActivationToMovesOn, MovesOnSafe DEF Lock
  <2>2. CASE ~(marker # Unlocked /\ ~isStaleActivation)
    <3>1. /\ ActivationTo(a, "locked")
          /\ activations[a].pc = "locking"
          /\ UNCHANGED <<claimed, charged>>
      BY <1>4, <2>2 DEF Lock
    <3>2. ~marker.committing
      BY <2>2 DEF Unlocked, isStaleActivation
    <3>3. \A b \in Activations : activations[b].pc \notin Committed
      BY <3>2 DEF Safe, CommittedLocked
    <3>4. /\ activations'[a].pc = "locked"
          /\ activations'[a].challenge = activations[a].challenge
          /\ \A b \in Activations \ {a} : activations'[b] = activations[b]
      BY <3>1 DEF ActivationTo, TypeOK, ActivationCall
    <3> QED
      BY <3>1, <3>3, <3>4 DEF Safe, ClaimsExclusive, PaidPastCreation, CommittedLocked
  <2> QED
    BY <2>1, <2>2
<1>5. CASE FindExistingAgain(a)
  BY <1>5, ActivationToMovesOn, MovesOnSafe DEF FindExistingAgain, store
<1>6. CASE Create(a) \/ CreateFails(a)
  <2>1. /\ activations[a].pc = "creating"
        /\ activations'[a].pc \in {"created", "clearFailed"}
        /\ activations'[a].challenge = activations[a].challenge
        /\ \A b \in Activations \ {a} : activations'[b] = activations[b]
        /\ UNCHANGED <<claimed, marker>>
    <3> activations[a] \in ActivationCall
      BY DEF TypeOK
    <3> QED
      BY <1>6 DEF Create, CreateFails, ActivationTo, TypeOK, ActivationCall, store
  <2>2. \A b \in Activations \ {a} : charged'[b][0] = charged[b][0]
    BY <1>6 DEF Create, CreateFails, Paid, PaidUnnoticed, TypeOK, Subscriptions
  <2> QED
    BY <2>1, <2>2 DEF Safe, ClaimsExclusive, PaidPastCreation, CommittedLocked
<1>7. CASE Commit(a)
  <2>1. CASE ownsActivation(a)
    <3>1. /\ activations[a].pc = "created"
          /\ activations'[a].pc = "committed"
          /\ activations'[a].challenge = activations[a].challenge
          /\ \A b \in Activations \ {a} : activations'[b] = activations[b]
          /\ UNCHANGED <<claimed, charged>>
      BY <1>7, <2>1 DEF Commit, ActivationTo, TypeOK, ActivationCall
    <3>2. marker'.committing /\ marker'.challenge = marker.challenge
      <4>1. marker' = [marker EXCEPT !.committing = TRUE, !.startedAt = clock]
        BY <1>7, <2>1 DEF Commit
      <4>2. marker \in [challenge : Challenges \cup {"none"}, startedAt : Nat,
                        committing : BOOLEAN]
        <5>1. CASE marker = Unlocked
          BY <5>1 DEF Unlocked
        <5>2. CASE marker \in [challenge : Challenges, startedAt : Nat, committing : BOOLEAN]
          BY <5>2
        <5> QED
          BY <5>1, <5>2 DEF TypeOK, Marker
      <4> QED
        BY <4>1, <4>2
    <3> QED
      BY <2>1, <3>1, <3>2
      DEF Safe, ClaimsExclusive, PaidPastCreation, CommittedLocked, ownsActivation
  <2>2. CASE ~ownsActivation(a)
    BY <1>7, <2>2, ActivationToMovesOn, MovesOnSafe DEF Commit
  <2> QED
    BY <2>1, <2>2
<1>8. CASE PutMismatched(a)
  BY <1>8, ActivationToMovesOn, MovesOnSafe DEF PutMismatched
<1>9. CASE ReadPrevious(a)
  <2>1. /\ activations[a].pc = "committedId"
        /\ activations'[a].pc \in {"ownCancel", "ownRecord"}
        /\ activations'[a].challenge = activations[a].challenge
        /\ \A b \in Activations \ {a} : activations'[b] = activations[b]
    <3> activations[a] \in ActivationCall
      BY DEF TypeOK
    <3> QED
      BY <1>9 DEF ReadPrevious, TypeOK, ActivationCall
  <2>2. MovesOn(a)
    BY <1>9, <2>1 DEF ReadPrevious, MovesOn, store
  <2> QED
    BY <2>2, MovesOnSafe
<1>10. CASE CheckOwner(a)
  <2>1. activations[a].pc \in DOMAIN AfterOwn
    BY <1>10 DEF CheckOwner
  <2>2. /\ activations[a].pc \in {"ownCancel", "ownRecord", "ownLookup"}
        /\ AfterOwn[activations[a].pc] \in {"putCancel", "putRecord", "putLookup"}
    BY <2>1 DEF AfterOwn
  <2> QED
    BY <1>10, <2>2, ActivationToMovesOn, MovesOnSafe DEF CheckOwner, store
<1>11. CASE PutCanceled(a)
  BY <1>11, ActivationToMovesOn, MovesOnSafe DEF PutCanceled
<1>12. CASE PutRecord(a)
  BY <1>12, ActivationToMovesOn, MovesOnSafe DEF PutRecord
<1>13. CASE PutLookup(a)
  BY <1>13, ActivationToMovesOn, MovesOnSafe DEF PutLookup
<1>14. CASE Clear(a)
  <2>1. /\ activations[a].pc \in {"clearExisting", "clearFailed", "clearDone"}
        /\ activations'[a].pc \in {"existing", "refused", "done"}
        /\ activations[a].pc # "clearExisting" => activations'[a].pc \in {"refused", "done"}
        /\ activations'[a].challenge = activations[a].challenge
        /\ \A b \in Activations \ {a} : activations'[b] = activations[b]
        /\ UNCHANGED <<claimed, charged>>
    BY <1>14 DEF Clear, AfterClear, ActivationTo, TypeOK, ActivationCall
  <2>2. \A b \in Activations \ {a} : activations[b].pc \in Committed => marker' = marker
    <3> SUFFICES ASSUME NEW b \in Activations \ {a}, activations[b].pc \in Committed
                 PROVE  marker' = marker
      OBVIOUS
    <3>1. activations[b].challenge # activations[a].challenge
      BY <2>1 DEF Safe, ClaimsExclusive
    <3>2. marker.challenge = activations[b].challenge
      BY DEF Safe, CommittedLocked
    <3> QED
      BY <1>14, <3>1, <3>2 DEF Clear, clearActivationState, ownsActivation
  <2> QED
    BY <2>1, <2>2 DEF Safe, ClaimsExclusive, PaidPastCreation, CommittedLocked
<1>15. CASE Reuse(a)
  <2> activations[a].pc = "existing"
    BY <1>15 DEF Reuse
  <2> QED
    BY <1>15, ActivationToMovesOn, MovesOnSafe DEF Reuse, store
<1>16. CASE ReleaseCredential(a)
  <2>1. /\ activations[a].pc \in {"inFlight", "existing"}
        /\ activations'[a].pc = "released"
        /\ activations'[a].challenge = activations[a].challenge
        /\ \A b \in Activations \ {a} : activations'[b] = activations[b]
        /\ UNCHANGED <<marker, charged>>
        /\ claimed' = claimed \ {activations[a].challenge}
    BY <1>16 DEF ReleaseCredential, MayRetry, ActivationTo, TypeOK, ActivationCall
  <2> QED
    BY <2>1 DEF Safe, ClaimsExclusive, PaidPastCreation, CommittedLocked
<1> QED
  BY <1>1, <1>2, <1>3, <1>4, <1>5, <1>6, <1>7, <1>8, <1>9, <1>10, <1>11, <1>12,
     <1>13, <1>14, <1>15, <1>16 DEF ActivationStep

-----------------------------------------------------------------------------
(* Renewals *)

LEMMA RenewalToTyped ==
  ASSUME TypeOK, RenewalsLater, NEW r \in Renewals, NEW pc \in RenewalPcs, RenewalTo(r, pc),
         renewals[r].pc # "idle",
         pc = "charging" => renewals[r].period # 0,
         pc \notin {"due", "started"}
  PROVE  renewals' \in [Renewals -> RenewalCall] /\ RenewalsLater'
<1>1. renewals' \in [Renewals -> RenewalCall]
  BY DEF TypeOK, RenewalTo, RenewalCall
<1>2. /\ renewals'[r].pc = pc
      /\ renewals'[r].sub = renewals[r].sub
      /\ renewals'[r].period = renewals[r].period
      /\ \A q \in Renewals \ {r} : renewals'[q] = renewals[q]
  BY DEF TypeOK, RenewalTo, RenewalCall
<1> QED
  BY <1>1, <1>2 DEF RenewalsLater

\* A period that is due is later than the last one charged, so not the first.
LEMMA DueLater ==
  ASSUME TypeOK, RenewalsLater, NEW r \in Renewals, NEW active, NEW last \in Nat,
         RenewIfDue(r, active, last), renewals[r].sub \in Subscriptions
  PROVE  renewals' \in [Renewals -> RenewalCall] /\ RenewalsLater'
<1> DEFINE period == getPeriodIndex(records[renewals[r].sub])
           due    == active /\ period > last
<1>1. period \in Int
  <2> records[renewals[r].sub].anchor \in Nat /\ clock \in Nat
    BY DEF TypeOK, Record
  <2> QED
    BY SubscriptionConstants DEF getPeriodIndex
<1>2. CASE due
  <2>1. period \in Nat /\ period # 0
    BY <1>1, <1>2
  <2> HIDE DEF period
  <2>2. renewals' = [renewals EXCEPT ![r].pc = "due", ![r].period = period]
    BY <1>2 DEF RenewIfDue, period
  <2>3. /\ renewals[r] \in RenewalCall
        /\ renewals' = [renewals EXCEPT ![r] = [renewals[r] EXCEPT !.pc = "due", !.period = period]]
    BY <2>2 DEF TypeOK
  <2>4. /\ [renewals[r] EXCEPT !.pc = "due", !.period = period] \in RenewalCall
        /\ [renewals[r] EXCEPT !.pc = "due", !.period = period].period # 0
        /\ [renewals[r] EXCEPT !.pc = "due", !.period = period].sub = renewals[r].sub
    BY <2>1, <2>3 DEF RenewalCall, RenewalPcs
  <2> QED
    BY <2>3, <2>4 DEF TypeOK, RenewalsLater
<1>3. CASE ~due
  <2>1. renewals' = [renewals EXCEPT ![r].pc = "done", ![r].period = 0]
    BY <1>3 DEF RenewIfDue
  <2>2. /\ renewals[r] \in RenewalCall
        /\ renewals' = [renewals EXCEPT ![r] = [renewals[r] EXCEPT !.pc = "done", !.period = 0]]
    BY <2>1 DEF TypeOK
  <2>3. /\ [renewals[r] EXCEPT !.pc = "done", !.period = 0] \in RenewalCall
        /\ [renewals[r] EXCEPT !.pc = "done", !.period = 0].pc = "done"
        /\ [renewals[r] EXCEPT !.pc = "done", !.period = 0].sub = renewals[r].sub
    BY <2>2 DEF RenewalCall, RenewalPcs
  <2> QED
    BY <2>2, <2>3 DEF TypeOK, RenewalsLater
<1> QED
  BY <1>2, <1>3

\* What a renewal's step leaves alone, and the types of what it changes.
RenewalKeeps ==
    /\ UNCHANGED <<clock, claimed, marker, lookup, activations>>
    /\ records' \in [Subscriptions -> Record]
    /\ renewals' \in [Renewals -> RenewalCall]
    /\ RenewalsLater'
    /\ charged' \in [Subscriptions -> [Periods -> Nat]]
    /\ \A s \in Subscriptions : charged'[s][0] = charged[s][0]

\* A renewal keeps the state well typed, never charges the first period and
\* leaves activations alone.
LEMMA RenewalInv ==
  ASSUME IInv, NEW r \in Renewals, RenewalStep(r)
  PROVE  IInv'
<1> TypeOK /\ RenewalsLater /\ Safe
  BY DEF IInv, Safe
<1> USE DEF RenewalPcs
<1>0. /\ records \in [Subscriptions -> Record]
      /\ renewals \in [Renewals -> RenewalCall]
      /\ charged \in [Subscriptions -> [Periods -> Nat]]
  BY DEF TypeOK
<1>1. ASSUME RequestLookup(r) PROVE RenewalKeeps
  <2> DEFINE call == [renewals[r] EXCEPT !.pc = "requestId", !.sub = lookup]
  <2>1. renewals' = [renewals EXCEPT ![r] = call]
    BY <1>1 DEF RequestLookup, TypeOK
  <2>2. call \in RenewalCall /\ call.sub \in Subscriptions /\ call.pc = "requestId"
    <3> renewals[r] \in RenewalCall /\ lookup \in Subscriptions
      BY <1>1 DEF RequestLookup, TypeOK
    <3> QED
      BY DEF RenewalCall
  <2>3. RenewalKeeps
    BY <1>0, <1>1, <2>1, <2>2 DEF RequestLookup, RenewalKeeps, RenewalsLater, store
  <2> QED
    BY <2>3
<1>2. ASSUME RequestRecord(r) PROVE RenewalKeeps
  <2>1. renewals[r].sub \in Subscriptions
    BY <1>2 DEF RequestRecord, RenewalsLater
  <2>2. records[renewals[r].sub].lastCharged \in Nat
    BY <2>1 DEF TypeOK, Record
  <2>3. renewals' \in [Renewals -> RenewalCall] /\ RenewalsLater'
    BY <1>2, <2>1, <2>2, DueLater DEF RequestRecord
  <2>4. RenewalKeeps
    BY <1>0, <1>2, <2>3 DEF RequestRecord, RenewalKeeps, store
  <2> QED
    BY <2>4
<1>3. ASSUME BackgroundRecord(r) PROVE RenewalKeeps
  <2> PICK s \in Subscriptions :
        renewals' = [renewals EXCEPT ![r].pc = "read", ![r].sub = s,
                                     ![r].period = records[s].lastCharged]
    BY <1>3 DEF BackgroundRecord
  <2> DEFINE call == [renewals[r] EXCEPT !.pc = "read", !.sub = s,
                                         !.period = records[s].lastCharged]
  <2>1. renewals' = [renewals EXCEPT ![r] = call]
    BY DEF TypeOK
  <2>2. call \in RenewalCall /\ call.sub = s /\ call.pc = "read"
    <3> renewals[r] \in RenewalCall /\ records[s].lastCharged \in Nat
      BY DEF TypeOK, Record
    <3> QED
      BY DEF RenewalCall
  <2>3. RenewalKeeps
    BY <1>0, <1>3, <2>1, <2>2 DEF BackgroundRecord, RenewalKeeps, RenewalsLater, store
  <2> QED
    BY <2>3
<1>4. ASSUME BackgroundLookup(r) PROVE RenewalKeeps
  <2>1. renewals[r].sub \in Subscriptions
    BY <1>4 DEF BackgroundLookup, RenewalsLater
  <2>2. renewals[r].period \in Nat
    BY DEF TypeOK, RenewalCall
  <2>3. renewals' \in [Renewals -> RenewalCall] /\ RenewalsLater'
    BY <1>4, <2>1, <2>2, DueLater DEF BackgroundLookup
  <2>4. RenewalKeeps
    BY <1>0, <1>4, <2>3 DEF BackgroundLookup, RenewalKeeps, store
  <2> QED
    BY <2>4
<1>5. ASSUME StartRenewal(r) PROVE RenewalKeeps
  <2>1. /\ renewals[r] \in RenewalCall
        /\ renewals[r].pc = "due" /\ renewals[r].period \in Nat \ {0}
        /\ renewals[r].sub \in Subscriptions
    BY <1>5 DEF StartRenewal, TypeOK, RenewalCall, RenewalsLater
  <2>2. ASSUME RenewalTo(r, "done") /\ UNCHANGED records PROVE RenewalKeeps
    <3>1. renewals' \in [Renewals -> RenewalCall] /\ RenewalsLater'
      BY <2>1, <2>2, RenewalToTyped
    <3>2. RenewalKeeps
      BY <1>0, <1>5, <2>2, <3>1 DEF StartRenewal, RenewalKeeps
    <3> QED
      BY <3>2
  <2>3. ASSUME
          /\ records' = [records EXCEPT ![renewals[r].sub].inFlight =
                [period |-> renewals[r].period, attempt |-> r, startedAt |-> clock]]
          /\ renewals' = [renewals EXCEPT ![r].pc = "started", ![r].startedAt = clock]
        PROVE RenewalKeeps
    <3> DEFINE lock == [period |-> renewals[r].period, attempt |-> r, startedAt |-> clock]
               call == [renewals[r] EXCEPT !.pc = "started", !.startedAt = clock]
    <3>1. lock \in InFlight
      BY <2>1 DEF InFlight, TypeOK
    <3>2. [records[renewals[r].sub] EXCEPT !.inFlight = lock] \in Record
      <4> HIDE DEF lock
      <4> records[renewals[r].sub] \in Record
        BY <2>1 DEF TypeOK
      <4> QED
        BY <3>1 DEF Record
    <3>3. records' \in [Subscriptions -> Record]
      <4> HIDE DEF lock
      <4>1. records' = [records EXCEPT ![renewals[r].sub] =
                            [records[renewals[r].sub] EXCEPT !.inFlight = lock]]
        BY <2>1, <2>3 DEF TypeOK, lock
      <4> QED
        BY <3>2, <4>1 DEF TypeOK
    <3>4. /\ call \in RenewalCall
          /\ call.period = renewals[r].period /\ call.sub = renewals[r].sub
      BY <2>1 DEF TypeOK, RenewalCall
    <3>5. renewals' = [renewals EXCEPT ![r] = call]
      BY <2>3 DEF TypeOK
    <3>6. RenewalsLater' /\ renewals' \in [Renewals -> RenewalCall]
      BY <1>0, <2>1, <3>4, <3>5 DEF RenewalsLater
    <3>7. RenewalKeeps
      <4> HIDE DEF lock, call
      <4> QED
        BY <1>0, <1>5, <3>3, <3>6 DEF StartRenewal, RenewalKeeps
    <3> QED
      BY <3>7
  <2>4. RenewalKeeps
    BY <1>5, <2>2, <2>3 DEF StartRenewal
  <2> QED
    BY <2>4
<1>6. ASSUME LookupBefore(r) PROVE RenewalKeeps
  <2>1. renewals[r].period # 0
    BY <1>6 DEF LookupBefore, RenewalsLater
  <2>2. renewals' \in [Renewals -> RenewalCall] /\ RenewalsLater'
    BY <1>6, <2>1, RenewalToTyped DEF LookupBefore
  <2>3. RenewalKeeps
    BY <1>0, <1>6, <2>2 DEF LookupBefore, RenewalKeeps, store
  <2> QED
    BY <2>3
<1>7. ASSUME ChargePeriod(r) \/ ChargeFails(r) PROVE RenewalKeeps
  <2>1. renewals[r].period # 0 /\ renewals[r].pc = "charging"
    BY <1>7 DEF ChargePeriod, ChargeFails, RenewalsLater
  <2>2. renewals' \in [Renewals -> RenewalCall] /\ RenewalsLater'
    BY <1>7, <2>1, RenewalToTyped DEF ChargePeriod, ChargeFails
  <2>3. charged' \in [Subscriptions -> [Periods -> Nat]]
    BY <1>7, PaidTyped, PaidUnnoticedTyped DEF ChargePeriod, ChargeFails
  <2>4. \A s \in Subscriptions : charged'[s][0] = charged[s][0]
    <3>1. 0 \in Periods
      BY SubscriptionConstants DEF Periods
    <3>2. \A s \in Subscriptions : charged[s] \in [Periods -> Nat]
      BY <1>0
    <3> QED
      BY <1>0, <1>7, <2>1, <3>1, <3>2 DEF ChargePeriod, ChargeFails, Paid, PaidUnnoticed
  <2>5. RenewalKeeps
    BY <1>0, <1>7, <2>2, <2>3, <2>4 DEF ChargePeriod, ChargeFails, RenewalKeeps, store
  <2> QED
    BY <2>5
<1>8. ASSUME LookupAfter(r) PROVE RenewalKeeps
  <2>1. renewals' \in [Renewals -> RenewalCall] /\ RenewalsLater'
    BY <1>8, RenewalToTyped DEF LookupAfter
  <2>2. RenewalKeeps
    BY <1>0, <1>8, <2>1 DEF LookupAfter, RenewalKeeps, store
  <2> QED
    BY <2>2
<1>9. ASSUME ClearRenewal(r) PROVE RenewalKeeps
  <2>1. \A record \in Record : [record EXCEPT !.inFlight = NoInFlight] \in Record
    BY DEF Record, InFlight
  <2>2. records' \in [Subscriptions -> Record]
    BY <1>0, <1>9, <2>1 DEF ClearRenewal
  <2>3. renewals' \in [Renewals -> RenewalCall] /\ RenewalsLater'
    BY <1>9, RenewalToTyped DEF ClearRenewal
  <2>4. RenewalKeeps
    BY <1>0, <1>9, <2>2, <2>3 DEF ClearRenewal, RenewalKeeps
  <2> QED
    BY <2>4
<1>10. ASSUME CommitRenewal(r) PROVE RenewalKeeps
  <2>1. renewals[r].sub \in Subscriptions /\ renewals[r].period \in Nat
    BY <1>10 DEF CommitRenewal, RenewalsLater, TypeOK, RenewalCall
  <2>2. renewedRecord(records[renewals[r].sub], renewals[r].period) \in Record
    <3> records[renewals[r].sub] \in Record
      BY <2>1 DEF TypeOK
    <3> QED
      BY <2>1 DEF renewedRecord, Record, InFlight
  <2>3. records' \in [Subscriptions -> Record]
    BY <1>10, <2>2 DEF CommitRenewal, TypeOK
  <2>4. renewals' \in [Renewals -> RenewalCall] /\ RenewalsLater'
    BY <1>10, RenewalToTyped DEF CommitRenewal
  <2>5. RenewalKeeps
    BY <1>0, <1>10, <2>3, <2>4 DEF CommitRenewal, RenewalKeeps
  <2> QED
    BY <2>5
<1>11. RenewalKeeps
  BY <1>1, <1>2, <1>3, <1>4, <1>5, <1>6, <1>7, <1>8, <1>9, <1>10 DEF RenewalStep
<1>12. TypeOK'
  BY <1>11 DEF TypeOK, RenewalKeeps
<1>13. ClaimsExclusive' /\ CommittedLocked'
  BY <1>11 DEF Safe, RenewalKeeps, ClaimsExclusive, Claiming, CommittedLocked
<1>14. PaidPastCreation'
  BY <1>11 DEF Safe, RenewalKeeps, PaidPastCreation, Subscriptions
<1> QED
  BY <1>11, <1>12, <1>13, <1>14 DEF IInv, RenewalKeeps

-----------------------------------------------------------------------------
(* Theorems *)

LEMMA ActivationInv ==
  ASSUME IInv, NEW a \in Activations, ActivationStep(a)
  PROVE  IInv'
<1>1. TypeOK' /\ Safe'
  BY ActivationTyped, ActivationSafe
<1>2. renewals' = renewals
  BY DEF ActivationStep, Claim, ReadLookup, FindExisting, Lock, FindExistingAgain, Create,
         CreateFails, Commit, PutMismatched, ReadPrevious, CheckOwner, PutCanceled,
         PutRecord, PutLookup, Clear, Reuse, ReleaseCredential
<1>3. RenewalsLater'
  BY <1>2 DEF IInv, RenewalsLater
<1> QED
  BY <1>1, <1>3 DEF IInv, Safe

LEMMA StepInv == IInv /\ [Next]_vars => IInv'
<1> SUFFICES ASSUME IInv, [Next]_vars
             PROVE  IInv'
  OBVIOUS
<1>1. ASSUME NEW a \in Activations, ActivationStep(a) PROVE IInv'
  BY <1>1, ActivationInv
<1>2. ASSUME NEW r \in Renewals, RenewalStep(r) PROVE IInv'
  BY <1>2, RenewalInv
<1>3. CASE CancelSubscription
  <2>1. \A record \in Record : [record EXCEPT !.canceled = TRUE] \in Record
    BY DEF Record
  <2>2. records' \in [Subscriptions -> Record]
    BY <1>3, <2>1 DEF CancelSubscription, IInv, TypeOK
  <2> QED
    BY <1>3, <2>2 DEF CancelSubscription, IInv, TypeOK, ClaimsExclusive, Claiming,
                      PaidPastCreation, CommittedLocked, RenewalsLater
<1>4. CASE Tick
  BY <1>4 DEF Tick, store, IInv, TypeOK, ClaimsExclusive, Claiming, PaidPastCreation,
              CommittedLocked, RenewalsLater
<1>5. CASE UNCHANGED vars
  BY <1>5 DEF vars, IInv, TypeOK, ClaimsExclusive, Claiming, PaidPastCreation,
              CommittedLocked, RenewalsLater
<1> QED
  BY <1>1, <1>2, <1>3, <1>4, <1>5 DEF Next

LEMMA InvImplies == IInv => TypeOK /\ ActivatedOncePerChallenge /\ CommittedOwns
<1> SUFFICES ASSUME IInv
             PROVE  TypeOK /\ ActivatedOncePerChallenge /\ CommittedOwns
  OBVIOUS
<1>1. ASSUME NEW a \in Activations, charged[a][0] # 0
      PROVE  Claiming(a)
  BY <1>1 DEF IInv, PaidPastCreation, PastCreation, Committed, Claiming
<1>2. ActivatedOncePerChallenge
  BY <1>1 DEF IInv, ClaimsExclusive, ActivatedOncePerChallenge
<1>3. CommittedOwns
  BY DEF IInv, CommittedLocked, Committed, CommittedOwns, ownsActivation
<1> QED
  BY <1>2, <1>3 DEF IInv

LEMMA Invariant == Spec => []IInv
BY InitIInv, StepInv, PTL DEF Spec

\* Every reachable state of the store and of all calls in flight is well typed.
THEOREM StoreTyped == Spec => []TypeOK
BY Invariant, InvImplies, PTL

\* activate: however often a challenge is presented, locked out, released and
\* presented again, and whatever times out, one activation pays for it.
THEOREM OneActivation == Spec => []ActivatedOncePerChallenge
BY Invariant, InvImplies, PTL

\* activate: the reads of ownsActivation between a committed activation's puts
\* never find the lock gone, so it never stops half way.
THEOREM CommittedKeepsLock == Spec => []CommittedOwns
BY Invariant, InvImplies, PTL
-----------------------------------------------------------------------------
(* The current subscription, and the renewals of a period *)

\* An activation has written a record.
Stored == {"ownLookup", "putLookup", "clearDone", "done", "refused"}

\* It has read the lookup key and will write it.
Switching ==
    {"committedId", "ownCancel", "putCancel", "ownRecord", "putRecord", "ownLookup", "putLookup"}

\* The subscription it replaces is canceled, or there is none.
Replacing == {"ownRecord", "putRecord", "ownLookup", "putLookup"}

Current ==
    /\ lookup \in Activations => activations[lookup].pc \in {"clearDone", "done"}
    /\ \A a \in Activations :
          /\ activations[a].pc \in Switching => activations[a].seen = lookup
          /\ activations[a].pc \in Replacing => lookup = "none" \/ ~isActive(records[lookup])
    /\ LiveIsCurrent

\* What is renewed has been stored, so no activation writes its first record
\* over it.
RenewedStored ==
    /\ \A a \in Activations : records[a].exists => activations[a].pc \in Stored
    /\ \A r \in Renewals : renewals[r].pc # "idle" =>
          \/ renewals[r].sub \in Existing
          \/ renewals[r].sub \in Activations /\ activations[renewals[r].sub].pc \in Stored

\* The lock a renewal holds is as old as the renewal knows.
Charging == {"started", "charging", "charged"}

Holds(r) ==
    LET record == records[renewals[r].sub]
    IN  \/ record.canceled
        \/ /\ HoldsRenewal(r) /\ record.lastCharged < renewals[r].period
           /\ record.inFlight.startedAt = renewals[r].startedAt

Alone == \A r \in Renewals : renewals[r].pc \in Charging /\ IsFresh(r) => Holds(r)

LiveInv == Current /\ RenewedStored /\ Alone

LEMMA InitLive == Init => LiveInv
<1> SUFFICES ASSUME Init PROVE LiveInv
  OBVIOUS
<1> USE SubscriptionConstants DEF Init
<1>1. \A s \in Subscriptions : records[s].exists <=> s = lookup
  BY DEF NoRecord
<1>2. lookup \notin Activations
  OBVIOUS
<1>3. Current
  BY <1>1, <1>2 DEF Current, Switching, Replacing, LiveIsCurrent, isActive
<1>4. RenewedStored
  BY <1>1, <1>2 DEF RenewedStored, Subscriptions
<1>5. Alone
  BY DEF Alone, Charging
<1> QED
  BY <1>3, <1>4, <1>5 DEF LiveInv

\* A renewal that a step leaves alone, with its record or all but its
\* cancellation.
LEMMA StaysAlone ==
  ASSUME IInv, IInv', NEW r \in Renewals, renewals'[r] = renewals[r], clock <= clock',
         renewals[r].pc \in Charging /\ IsFresh(r) => Holds(r),
         LET s == renewals[r].sub
         IN  renewals[r].pc # "idle" =>
               \/ records'[s].canceled
               \/ records'[s] = records[s]
  PROVE  renewals'[r].pc \in Charging /\ IsFresh(r)' => Holds(r)'
<1>1. clock \in Nat /\ clock' \in Nat /\ renewals[r].startedAt \in Nat /\ RenewalTimeout \in Nat
  BY SubscriptionConstants DEF IInv, TypeOK, RenewalCall
<1>2. IsFresh(r)' => IsFresh(r)
  BY <1>1 DEF IsFresh
<1>3. renewals[r].pc \in Charging => renewals[r].pc # "idle"
  BY DEF Charging
<1> QED
  BY <1>2, <1>3 DEF Holds, HoldsRenewal

\* Records that are not revived, and activations left alone.
LEMMA CurrentStays ==
  ASSUME IInv, LiveInv, UNCHANGED <<lookup, activations>>,
         \A s \in Subscriptions : /\ isActive(records'[s]) => isActive(records[s])
                                  /\ records'[s].exists = records[s].exists
  PROVE  Current' /\ \A a \in Activations : records'[a].exists => activations'[a].pc \in Stored
<1>1. lookup = "none" \/ lookup \in Subscriptions
  BY DEF IInv, TypeOK
<1>2. Current'
  <2>1. LiveIsCurrent'
    BY DEF LiveInv, Current, LiveIsCurrent
  <2> QED
    BY <1>1, <2>1 DEF LiveInv, Current
<1> QED
  BY <1>2 DEF LiveInv, RenewedStored, Subscriptions

\* An activation that goes on without writing a record or the lookup key.
LEMMA ActivationKeepsLive ==
  ASSUME IInv, IInv', LiveInv, NEW a \in Activations, UNCHANGED <<clock, lookup, records, renewals>>,
         \A b \in Activations \ {a} : activations'[b] = activations[b],
         activations[a].pc \in Stored => activations'[a].pc \in Stored,
         activations[a].pc \in {"clearDone", "done"} => activations'[a].pc \in {"clearDone", "done"},
         activations[a].pc \in {"ownLookup", "putLookup"} =>
            activations'[a].pc \in {"ownLookup", "putLookup"},
         activations'[a].pc \in Switching => activations'[a].seen = lookup,
         activations'[a].pc \in Replacing => lookup = "none" \/ ~isActive(records[lookup])
  PROVE  LiveInv'
<1> USE DEF LiveInv
<1>1. LiveIsCurrent'
  BY DEF Current, LiveIsCurrent
<1>2. Current'
  BY <1>1 DEF Current
<1>3. RenewedStored'
  BY DEF RenewedStored
<1>4. clock <= clock'
  BY DEF IInv, TypeOK
<1>5. Alone'
  BY <1>4, StaysAlone DEF Alone
<1> QED
  BY <1>2, <1>3, <1>5

\* Two activations do not switch at once.
LEMMA OneSwitches ==
  ASSUME IInv, NEW a \in Activations, NEW b \in Activations, a # b, activations[a].pc \in Committed
  PROVE  activations[b].pc \notin Committed
<1>1. SUFFICES ASSUME activations[b].pc \in Committed
               PROVE  FALSE
  OBVIOUS
<1>2. Claiming(a) /\ Claiming(b)
  BY <1>1 DEF Committed, Claiming
<1> QED
  BY <1>1, <1>2 DEF IInv, CommittedLocked, ClaimsExclusive

\* Where an activation's step leads it.
LEMMA ActivationAt ==
  ASSUME TypeOK, NEW a \in Activations, NEW pc, ActivationTo(a, pc)
  PROVE  /\ activations'[a].pc = pc /\ activations'[a].seen = activations[a].seen
         /\ \A b \in Activations \ {a} : activations'[b] = activations[b]
BY DEF TypeOK, ActivationTo, ActivationCall

\* Steps before an activation commits, after it is done, and between.
LEMMA ActivationWaits ==
  ASSUME IInv, IInv', LiveInv, NEW a \in Activations,
         \/ Claim(a) \/ ReadLookup(a) \/ FindExisting(a) \/ Lock(a) \/ FindExistingAgain(a)
         \/ Create(a) \/ CreateFails(a) \/ Commit(a) \/ ReadPrevious(a) \/ CheckOwner(a)
         \/ Clear(a) \/ Reuse(a) \/ ReleaseCredential(a)
  PROVE  LiveInv'
<1> TypeOK /\ activations \in [Activations -> ActivationCall] /\ activations[a] \in ActivationCall
  BY DEF IInv, TypeOK
<1> USE DEF Stored, Switching, Replacing, store
<1>1. CASE Claim(a)
  <2>1. PICK c \in Challenges : activations' = [activations EXCEPT
                ![a].challenge = c,
                ![a].pc = IF c \in claimed THEN "replayed" ELSE "claimed"]
    BY <1>1 DEF Claim
  <2>2. /\ activations[a].pc = "idle" /\ activations'[a].pc \in {"replayed", "claimed"}
        /\ \A b \in Activations \ {a} : activations'[b] = activations[b]
    BY <1>1, <2>1 DEF Claim, ActivationCall
  <2> QED
    BY <1>1, <2>2, ActivationKeepsLive DEF Claim
<1>2. CASE ReadLookup(a)
  <2>1. activations' = [activations EXCEPT ![a] =
           [activations[a] EXCEPT !.pc = AfterLookup[activations[a].pc], !.seen = lookup]]
    BY <1>2 DEF ReadLookup
  <2>2. /\ activations[a].pc \in {"claimed", "locked", "committed"}
        /\ activations'[a].pc \in {"claimedId", "lockedId", "committedId"}
        /\ activations'[a].seen = lookup
        /\ \A b \in Activations \ {a} : activations'[b] = activations[b]
    BY <1>2, <2>1 DEF ReadLookup, AfterLookup, ActivationCall
  <2> QED
    BY <1>2, <2>2, ActivationKeepsLive DEF ReadLookup
<1>3. CASE \/ FindExisting(a) \/ Lock(a) \/ FindExistingAgain(a) \/ CreateFails(a) \/ Commit(a)
           \/ ReleaseCredential(a) \/ Reuse(a)
  <2>1. PICK pc \in {"existing", "locking", "inFlight", "locked", "clearExisting", "creating",
                     "clearFailed", "committed", "mismatched", "released", "done"} :
           ActivationTo(a, pc) /\ (pc = "done" => activations[a].pc = "existing")
    BY <1>3 DEF FindExisting, Lock, FindExistingAgain, CreateFails, Commit, ReleaseCredential, Reuse
  <2>2. activations[a].pc \in {"claimedId", "locking", "lockedId", "creating", "created",
                               "inFlight", "existing"}
    BY <1>3 DEF FindExisting, Lock, FindExistingAgain, CreateFails, Commit, ReleaseCredential,
                Reuse, MayRetry
  <2>3. UNCHANGED <<clock, lookup, records, renewals>>
    BY <1>3 DEF FindExisting, Lock, FindExistingAgain, CreateFails, Commit, ReleaseCredential, Reuse
  <2>4. /\ activations'[a].pc = pc /\ activations'[a].seen = activations[a].seen
        /\ \A b \in Activations \ {a} : activations'[b] = activations[b]
    BY <2>1, ActivationAt
  <2> QED
    BY <2>1, <2>2, <2>3, <2>4, ActivationKeepsLive
<1>4. CASE Create(a)
  <2>1. activations' = [activations EXCEPT ![a] =
           [activations[a] EXCEPT !.pc = "created", !.anchor = clock]]
    BY <1>4 DEF Create
  <2>2. /\ activations[a].pc = "creating" /\ activations'[a].pc = "created"
        /\ \A b \in Activations \ {a} : activations'[b] = activations[b]
    BY <1>4, <2>1 DEF Create, ActivationCall
  <2> QED
    BY <1>4, <2>2, ActivationKeepsLive DEF Create
<1>5. CASE ReadPrevious(a)
  <2> DEFINE previous == RecordOf(activations[a].seen)
             pc == IF previous.exists /\ activations[a].seen # a THEN "ownCancel" ELSE "ownRecord"
  <2>1. activations' = [activations EXCEPT ![a] =
           [activations[a] EXCEPT !.previous = previous, !.pc = pc]]
    BY <1>5 DEF ReadPrevious
  <2>2. /\ activations[a].pc = "committedId" /\ activations'[a].pc = pc
        /\ activations'[a].seen = activations[a].seen /\ activations[a].seen = lookup
        /\ \A b \in Activations \ {a} : activations'[b] = activations[b]
    BY <1>5, <2>1 DEF ReadPrevious, ActivationCall, LiveInv, Current
  <2>3. lookup # a
    BY <2>2 DEF LiveInv, Current
  <2>4. pc = "ownRecord" => lookup = "none" \/ ~isActive(records[lookup])
    BY <2>2, <2>3 DEF RecordOf, isActive
  <2>5. pc \in {"ownCancel", "ownRecord"}
    OBVIOUS
  <2> HIDE DEF previous, pc
  <2> QED
    BY <1>5, <2>2, <2>4, <2>5, ActivationKeepsLive DEF ReadPrevious
<1>6. CASE CheckOwner(a)
  <2>1. /\ activations[a].pc \in {"ownCancel", "ownRecord", "ownLookup"}
        /\ UNCHANGED <<clock, lookup, records, renewals>>
    BY <1>6 DEF CheckOwner, AfterOwn
  <2>2. ownsActivation(a)
    BY <2>1 DEF IInv, CommittedLocked, Committed, ownsActivation
  <2>3. ActivationTo(a, AfterOwn[activations[a].pc])
    BY <1>6, <2>2 DEF CheckOwner
  <2>4. /\ activations'[a].pc = AfterOwn[activations[a].pc]
        /\ activations'[a].seen = activations[a].seen
        /\ \A b \in Activations \ {a} : activations'[b] = activations[b]
    BY <2>3, ActivationAt
  <2>5. /\ activations[a].pc = "ownCancel" => activations'[a].pc = "putCancel"
        /\ activations[a].pc = "ownRecord" => activations'[a].pc = "putRecord"
        /\ activations[a].pc = "ownLookup" => activations'[a].pc = "putLookup"
    BY <2>4 DEF AfterOwn
  <2>6. /\ activations[a].seen = lookup
        /\ activations[a].pc # "ownCancel" => lookup = "none" \/ ~isActive(records[lookup])
    BY <2>1 DEF LiveInv, Current
  <2> QED
    BY <2>1, <2>4, <2>5, <2>6, ActivationKeepsLive
<1>7. CASE Clear(a)
  <2>1. /\ activations[a].pc \in {"clearExisting", "clearFailed", "clearDone"}
        /\ UNCHANGED <<clock, lookup, records, renewals>>
        /\ ActivationTo(a, AfterClear[activations[a].pc])
    BY <1>7 DEF Clear, AfterClear
  <2>2. /\ activations'[a].pc = AfterClear[activations[a].pc]
        /\ \A b \in Activations \ {a} : activations'[b] = activations[b]
    BY <2>1, ActivationAt
  <2>3. /\ activations[a].pc = "clearExisting" => activations'[a].pc = "existing"
        /\ activations[a].pc = "clearFailed" => activations'[a].pc = "refused"
        /\ activations[a].pc = "clearDone" => activations'[a].pc = "done"
    BY <2>2 DEF AfterClear
  <2> QED
    BY <2>1, <2>2, <2>3, ActivationKeepsLive
<1> QED
  BY <1>1, <1>2, <1>3, <1>4, <1>5, <1>6, <1>7

\* The first record of an activation is written over none.
LEMMA ActivationWrites ==
  ASSUME IInv, IInv', LiveInv, NEW a \in Activations, PutMismatched(a) \/ PutRecord(a)
  PROVE  LiveInv'
<1> USE DEF LiveInv
<1>1. /\ records \in [Subscriptions -> Record] /\ a \in Subscriptions /\ clock \in Nat
      /\ UNCHANGED <<clock, lookup, renewals>>
      /\ activations[a].pc \in {"mismatched", "putRecord"}
  BY DEF IInv, TypeOK, Subscriptions, PutMismatched, PutRecord
<1>2. PICK new : records' = [records EXCEPT ![a] = new] /\
         \/ PutMismatched(a) /\ new = [NewRecord(a) EXCEPT !.canceled = TRUE]
         \/ PutRecord(a) /\ new = NewRecord(a)
  BY DEF PutMismatched, PutRecord
<1>3. /\ records'[a] = new
      /\ \A s \in Subscriptions \ {a} : records'[s] = records[s]
  BY <1>1, <1>2
<1>4. PutMismatched(a) => new.canceled
  <2>1. NewRecord(a) \in Record /\ activations[a].pc \in ActivationPcs
    BY NewRecordTyped DEF IInv, TypeOK, ActivationCall
  <2>2. CASE new = [NewRecord(a) EXCEPT !.canceled = TRUE]
    BY <2>1, <2>2 DEF Record
  <2>3. PutMismatched(a) => ~PutRecord(a)
    BY DEF PutMismatched, PutRecord
  <2> QED
    BY <1>2, <2>2, <2>3
<1>5. /\ activations'[a].pc = IF PutMismatched(a) THEN "refused" ELSE "ownLookup"
      /\ activations'[a].seen = activations[a].seen
      /\ \A b \in Activations \ {a} : activations'[b] = activations[b]
  BY ActivationAt DEF PutMismatched, PutRecord, IInv
<1>6. lookup # a
  BY <1>1 DEF Current
<1>7. lookup \in Subscriptions \cup {"none"}
  BY DEF IInv, TypeOK
<1>8. LiveIsCurrent'
  BY <1>1, <1>3, <1>4, <1>5, <1>6 DEF Current, LiveIsCurrent, isActive
<1>9. Current'
  <2>1. activations'[a].pc \in Switching => PutRecord(a) /\ activations[a].pc = "putRecord"
    BY <1>1, <1>5 DEF Switching, PutMismatched, PutRecord
  <2>2. activations[a].pc = "putRecord" =>
           activations[a].seen = lookup /\ (lookup = "none" \/ ~isActive(records[lookup]))
    BY DEF Current, Switching, Replacing
  <2>3. lookup = "none" \/ records'[lookup] = records[lookup]
    BY <1>3, <1>6, <1>7
  <2>4. \A b \in Activations :
           /\ activations'[b].pc \in Switching => activations'[b].seen = lookup
           /\ activations'[b].pc \in Replacing => lookup = "none" \/ ~isActive(records'[lookup])
    BY <1>5, <2>1, <2>2, <2>3 DEF Current, isActive, Replacing, Switching
  <2> QED
    BY <1>1, <1>5, <1>6, <1>8, <2>4 DEF Current
<1>10. RenewedStored'
  BY <1>1, <1>3, <1>5 DEF RenewedStored, Stored, Subscriptions
<1>11. Alone'
  <2>1. ASSUME NEW r \in Renewals, renewals[r].pc # "idle"
        PROVE  records'[renewals[r].sub] = records[renewals[r].sub]
    <3>1. renewals[r].sub # a
      BY <1>1, <2>1, SubscriptionConstants DEF RenewedStored, Stored
    <3> QED
      BY <1>2, <3>1, <1>1, <2>1 DEF IInv, RenewalsLater
  <2> QED
    BY <1>1, <2>1, StaysAlone DEF Alone
<1> QED
  BY <1>9, <1>10, <1>11

LEMMA ActivationCancels ==
  ASSUME IInv, IInv', LiveInv, NEW a \in Activations, PutCanceled(a)
  PROVE  LiveInv'
<1> USE DEF LiveInv
<1>1. /\ records \in [Subscriptions -> Record] /\ clock \in Nat /\ activations[a].pc = "putCancel"
      /\ UNCHANGED <<clock, lookup, renewals>> /\ activations[a].previous \in Record
      /\ lookup \in Subscriptions \cup {"none"} /\ "none" \notin Subscriptions
  BY SubscriptionConstants DEF IInv, TypeOK, ActivationCall, Subscriptions, PutCanceled
<1>2. activations[a].seen = lookup
  BY <1>1 DEF Current, Switching
<1> DEFINE new == [activations[a].previous EXCEPT !.canceled = TRUE]
<1>3. records' = [records EXCEPT ![lookup] = new] /\ new.canceled
  BY <1>1, <1>2 DEF PutCanceled, Record
<1> HIDE DEF new
<1>4. /\ lookup \in Subscriptions => records'[lookup] = new
      /\ \A s \in Subscriptions \ {lookup} : records'[s] = records[s]
  BY <1>1, <1>3
<1>5. /\ activations'[a].pc = "ownRecord" /\ activations'[a].seen = lookup
      /\ \A b \in Activations \ {a} : activations'[b] = activations[b]
  BY <1>2, ActivationAt DEF PutCanceled, IInv
<1>6. lookup = "none" \/ ~isActive(records'[lookup])
  BY <1>1, <1>3, <1>4 DEF isActive
<1>7. LiveIsCurrent'
  BY <1>1, <1>4, <1>5 DEF Current, LiveIsCurrent, isActive
<1>8. Current'
  <2>1. \A b \in Activations :
           /\ activations'[b].pc \in Switching => activations'[b].seen = lookup
           /\ activations'[b].pc \in Replacing => lookup = "none" \/ ~isActive(records'[lookup])
    BY <1>5, <1>6 DEF Current
  <2>2. lookup # a
    BY <1>1 DEF Current
  <2> QED
    BY <1>1, <1>5, <1>7, <2>1, <2>2 DEF Current
<1>9. RenewedStored'
  <2>1. \A b \in Activations : records'[b].exists => activations'[b].pc \in Stored
    <3>1. activations[a].pc \notin Stored
      BY <1>1 DEF Stored
    <3>2. \A b \in Activations : b = lookup => activations[b].pc \in Stored
      BY DEF Current, Stored
    <3>3. \A b \in Activations : b # lookup => records'[b] = records[b]
      BY <1>4 DEF Subscriptions
    <3>4. \A b \in Activations : records'[b].exists => activations[b].pc \in Stored
      BY <3>2, <3>3 DEF RenewedStored
    <3> QED
      BY <1>5, <3>1, <3>4
  <2>2. activations[a].pc \notin Stored
    BY <1>1 DEF Stored
  <2> QED
    BY <1>1, <1>5, <2>1, <2>2 DEF RenewedStored
<1>10. Alone'
  <2>1. ASSUME NEW r \in Renewals, renewals[r].pc # "idle"
        PROVE  \/ records'[renewals[r].sub].canceled
               \/ records'[renewals[r].sub] = records[renewals[r].sub]
    BY <1>3, <1>4, <2>1 DEF IInv, RenewalsLater
  <2> QED
    BY <1>1, <2>1, StaysAlone DEF Alone
<1> QED
  BY <1>8, <1>9, <1>10

LEMMA ActivationSwitches ==
  ASSUME IInv, IInv', LiveInv, NEW a \in Activations, PutLookup(a)
  PROVE  LiveInv'
<1> USE DEF LiveInv
<1>1. /\ activations[a].pc = "putLookup" /\ lookup' = a /\ clock \in Nat
      /\ UNCHANGED <<clock, records, renewals>>
  BY DEF PutLookup, IInv, TypeOK
<1>2. /\ activations'[a].pc = "clearDone"
      /\ \A b \in Activations \ {a} : activations'[b] = activations[b]
  BY ActivationAt DEF PutLookup, IInv
<1>3. \A b \in Activations \ {a} : activations[b].pc \notin Switching
  BY <1>1, OneSwitches DEF Committed, Switching
<1>4. lookup = "none" \/ ~isActive(records[lookup])
  BY <1>1 DEF Current, Replacing
<1>5. LiveIsCurrent'
  <2>1. "none" \notin Subscriptions
    BY SubscriptionConstants DEF Subscriptions
  <2> QED
    BY <1>1, <1>2, <1>4, <2>1 DEF Current, LiveIsCurrent, isActive
<1>6. Current'
  BY <1>1, <1>2, <1>3, <1>5 DEF Current, Switching, Replacing
<1>7. RenewedStored'
  BY <1>1, <1>2 DEF RenewedStored, Stored
<1>8. Alone'
  BY <1>1, StaysAlone DEF Alone
<1> QED
  BY <1>6, <1>7, <1>8

\* A renewal's step that writes no record.
LEMMA RenewalKeepsLive ==
  ASSUME IInv, IInv', LiveInv, NEW r \in Renewals,
         UNCHANGED <<clock, lookup, activations, records>>,
         \A q \in Renewals \ {r} : renewals'[q] = renewals[q],
         \/ renewals'[r].sub \in Existing
         \/ renewals'[r].sub \in Activations /\ activations[renewals'[r].sub].pc \in Stored,
         renewals'[r].pc \in Charging =>
            /\ renewals[r].pc \in Charging /\ renewals'[r].sub = renewals[r].sub
            /\ renewals'[r].period = renewals[r].period
            /\ renewals'[r].startedAt = renewals[r].startedAt
  PROVE  LiveInv'
<1> USE DEF LiveInv
<1>1. clock <= clock'
  BY DEF IInv, TypeOK
<1>2. Current' /\ \A a \in Activations : records'[a].exists => activations'[a].pc \in Stored
  BY CurrentStays
<1>3. RenewedStored'
  BY <1>2 DEF RenewedStored
<1>4. \A q \in Renewals \ {r} : renewals'[q].pc \in Charging /\ IsFresh(q)' => Holds(q)'
  BY <1>1, StaysAlone DEF Alone
<1>5. renewals'[r].pc \in Charging /\ IsFresh(r)' => Holds(r)'
  BY DEF Alone, Holds, HoldsRenewal, IsFresh
<1> QED
  BY <1>2, <1>3, <1>4, <1>5 DEF Alone

\* Where a renewal's step leads it.
LEMMA RenewalAt ==
  ASSUME TypeOK, NEW r \in Renewals, NEW pc, RenewalTo(r, pc)
  PROVE  /\ renewals'[r].pc = pc /\ renewals'[r].sub = renewals[r].sub
         /\ renewals'[r].period = renewals[r].period
         /\ renewals'[r].startedAt = renewals[r].startedAt
         /\ \A q \in Renewals \ {r} : renewals'[q] = renewals[q]
BY DEF TypeOK, RenewalTo, RenewalCall

LEMMA RenewalReads ==
  ASSUME IInv, IInv', LiveInv, NEW r \in Renewals,
         \/ RequestLookup(r) \/ RequestRecord(r) \/ BackgroundRecord(r) \/ BackgroundLookup(r)
         \/ LookupBefore(r) \/ ChargePeriod(r) \/ ChargeFails(r) \/ LookupAfter(r)
  PROVE  LiveInv'
<1> USE DEF LiveInv, store
<1>1. TypeOK /\ renewals \in [Renewals -> RenewalCall] /\ renewals[r] \in RenewalCall
  BY DEF IInv, TypeOK
<1>2. renewals[r].pc # "idle" =>
         \/ renewals[r].sub \in Existing
         \/ renewals[r].sub \in Activations /\ activations[renewals[r].sub].pc \in Stored
  BY DEF RenewedStored
<1>3. CASE RequestLookup(r)
  <2>1. renewals' = [renewals EXCEPT ![r] = [renewals[r] EXCEPT !.pc = "requestId", !.sub = lookup]]
    BY <1>1, <1>3 DEF RequestLookup
  <2>2. /\ renewals'[r].pc = "requestId" /\ renewals'[r].sub = lookup
        /\ \A q \in Renewals \ {r} : renewals'[q] = renewals[q]
    BY <1>1, <2>1 DEF RenewalCall
  <2>3. lookup \in Existing \/ (lookup \in Activations /\ activations[lookup].pc \in Stored)
    BY <1>1, <1>3 DEF RequestLookup, TypeOK, Subscriptions, Current, Stored
  <2>4. renewals'[r].pc \notin Charging
    BY <2>2 DEF Charging
  <2> QED
    BY <1>3, <2>2, <2>3, <2>4, RenewalKeepsLive DEF RequestLookup
<1>4. CASE RequestRecord(r) \/ BackgroundLookup(r)
  <2>1. renewals[r].pc \in {"requestId", "read"} /\ UNCHANGED <<clock, lookup, activations, records>>
    BY <1>4 DEF RequestRecord, BackgroundLookup
  <2>2. PICK pc, period : /\ pc \in {"due", "done"}
                          /\ renewals' = [renewals EXCEPT ![r].pc = pc, ![r].period = period]
    BY <1>4 DEF RequestRecord, BackgroundLookup, RenewIfDue
  <2>3. renewals' = [renewals EXCEPT ![r] = [renewals[r] EXCEPT !.pc = pc, !.period = period]]
    BY <1>1, <2>2
  <2>4. /\ renewals'[r].pc = pc /\ renewals'[r].sub = renewals[r].sub
        /\ \A q \in Renewals \ {r} : renewals'[q] = renewals[q]
    BY <1>1, <2>3 DEF RenewalCall
  <2>5. renewals'[r].pc \notin Charging
    BY <2>2, <2>4 DEF Charging
  <2> QED
    BY <1>2, <2>1, <2>4, <2>5, RenewalKeepsLive
<1>5. CASE BackgroundRecord(r)
  <2>1. PICK s \in Subscriptions :
          /\ isActive(records[s])
          /\ renewals' = [renewals EXCEPT ![r].pc = "read", ![r].sub = s,
                                          ![r].period = records[s].lastCharged]
    BY <1>5 DEF BackgroundRecord
  <2>2. renewals' = [renewals EXCEPT ![r] =
           [renewals[r] EXCEPT !.pc = "read", !.sub = s, !.period = records[s].lastCharged]]
    BY <1>1, <2>1
  <2>3. /\ renewals'[r].pc = "read" /\ renewals'[r].sub = s
        /\ \A q \in Renewals \ {r} : renewals'[q] = renewals[q]
    BY <1>1, <2>2 DEF RenewalCall
  <2>4. s \in Existing \/ (s \in Activations /\ activations[s].pc \in Stored)
    BY <2>1 DEF isActive, RenewedStored, Subscriptions
  <2>5. renewals'[r].pc \notin Charging
    BY <2>3 DEF Charging
  <2> QED
    BY <1>5, <2>3, <2>4, <2>5, RenewalKeepsLive DEF BackgroundRecord
<1>6. CASE LookupBefore(r) \/ ChargePeriod(r) \/ ChargeFails(r) \/ LookupAfter(r)
  <2>1. PICK pc \in {"charging", "clearing", "charged", "committing"} : RenewalTo(r, pc)
    BY <1>6 DEF LookupBefore, ChargePeriod, ChargeFails, LookupAfter
  <2>2. /\ renewals[r].pc \in Charging /\ renewals[r].pc # "idle"
        /\ UNCHANGED <<clock, lookup, activations, records>>
    BY <1>6 DEF LookupBefore, ChargePeriod, ChargeFails, LookupAfter, Charging
  <2>3. /\ renewals'[r].sub = renewals[r].sub
        /\ renewals'[r].period = renewals[r].period
        /\ renewals'[r].startedAt = renewals[r].startedAt
        /\ \A q \in Renewals \ {r} : renewals'[q] = renewals[q]
    BY <1>1, <2>1, RenewalAt
  <2> QED
    BY <1>2, <2>2, <2>3, RenewalKeepsLive
<1> QED
  BY <1>3, <1>4, <1>5, <1>6

\* A renewal's step that writes the record of its subscription: it has the lock,
\* or takes it when nobody has one that is not stale.
LEMMA RenewalWrites ==
  ASSUME IInv, IInv', LiveInv, NEW r \in Renewals,
         StartRenewal(r) \/ ClearRenewal(r) \/ CommitRenewal(r)
  PROVE  LiveInv'
<1> USE DEF LiveInv
<1> DEFINE s == renewals[r].sub
<1>1. /\ TypeOK /\ records \in [Subscriptions -> Record] /\ renewals \in [Renewals -> RenewalCall]
      /\ renewals[r] \in RenewalCall /\ s \in Subscriptions /\ records[s] \in Record
      /\ clock \in Nat /\ clock <= clock
      /\ "none" \notin Renewals /\ RenewalTimeout \in Nat
      /\ renewals[r].pc \in {"due", "clearing", "committing"}
      /\ UNCHANGED <<clock, lookup, activations>>
  BY SubscriptionConstants
  DEF IInv, TypeOK, RenewalsLater, StartRenewal, ClearRenewal, CommitRenewal
<1> HIDE DEF s
<1>2. /\ renewals'[r].sub = s /\ renewals'[r].period = renewals[r].period
      /\ renewals'[r].pc \in {"started", "done"}
      /\ \A q \in Renewals \ {r} : renewals'[q] = renewals[q]
  <2>1. CASE RenewalTo(r, "done")
    BY <1>1, <2>1, RenewalAt DEF s
  <2>2. CASE renewals' = [renewals EXCEPT ![r].pc = "started", ![r].startedAt = clock]
    <3>1. renewals' = [renewals EXCEPT ![r] =
             [renewals[r] EXCEPT !.pc = "started", !.startedAt = clock]]
      BY <1>1, <2>2
    <3> QED
      BY <1>1, <3>1 DEF RenewalCall, s
  <2> QED
    BY <2>1, <2>2 DEF StartRenewal, ClearRenewal, CommitRenewal
<1>3. /\ \A t \in Subscriptions \ {s} : records'[t] = records[t]
      /\ records'[s].exists = records[s].exists /\ records'[s].canceled = records[s].canceled
      /\ records'[s] # records[s] /\ renewals'[r].pc = "done" => HoldsRenewal(r)
      /\ renewals'[r].pc = "started" =>
            /\ StartRenewal(r)
            /\ records[s].inFlight = NoInFlight \/ isStaleRenewal(records[s])
            /\ ~IsCharged(records[s], renewals[r].period)
            /\ records'[s].inFlight = [period |-> renewals[r].period, attempt |-> r,
                                       startedAt |-> clock]
            /\ records'[s].lastCharged = records[s].lastCharged
            /\ renewals'[r].startedAt = clock
  <2>1. CASE RenewalTo(r, "done")
    <3>1. renewals'[r].pc = "done"
      BY <1>1, <2>1, RenewalAt
    <3>2. \/ records' = records
          \/ records' = [records EXCEPT ![s].inFlight = NoInFlight] /\ HoldsRenewal(r)
          \/ /\ records' = [records EXCEPT ![s] = renewedRecord(records[s], renewals[r].period)]
             /\ HoldsRenewal(r)
      <4>1. CASE StartRenewal(r)
        <5>1. renewals' # [renewals EXCEPT ![r].pc = "started", ![r].startedAt = clock]
          BY <1>1, <3>1 DEF RenewalCall
        <5> QED
          BY <4>1, <5>1 DEF StartRenewal
      <4>2. CASE ClearRenewal(r)
        BY <4>2 DEF ClearRenewal, s
      <4>3. CASE CommitRenewal(r)
        BY <4>3 DEF CommitRenewal, s
      <4> QED
        BY <4>1, <4>2, <4>3
    <3> QED
      BY <1>1, <3>1, <3>2 DEF Record, renewedRecord
  <2>2. CASE ~RenewalTo(r, "done")
    <3> DEFINE lock == [period |-> renewals[r].period, attempt |-> r, startedAt |-> clock]
    <3>1. /\ StartRenewal(r)
          /\ records[s].inFlight = NoInFlight \/ isStaleRenewal(records[s])
          /\ ~IsCharged(records[s], renewals[r].period)
          /\ records' = [records EXCEPT ![s].inFlight = lock]
          /\ renewals' = [renewals EXCEPT ![r].pc = "started", ![r].startedAt = clock]
      BY <2>2 DEF StartRenewal, ClearRenewal, CommitRenewal, s
    <3>2. renewals'[r].pc = "started" /\ renewals'[r].startedAt = clock
      BY <1>1, <3>1 DEF RenewalCall
    <3> HIDE DEF lock
    <3>3. /\ records'[s].exists = records[s].exists /\ records'[s].canceled = records[s].canceled
          /\ records'[s].inFlight = lock /\ records'[s].lastCharged = records[s].lastCharged
          /\ \A t \in Subscriptions \ {s} : records'[t] = records[t]
      BY <1>1, <3>1 DEF Record
    <3> QED
      BY <3>1, <3>2, <3>3 DEF lock
  <2> QED
    BY <2>1, <2>2
<1>4. Current' /\ \A a \in Activations : records'[a].exists => activations'[a].pc \in Stored
  <2>1. \A t \in Subscriptions : /\ isActive(records'[t]) => isActive(records[t])
                                 /\ records'[t].exists = records[t].exists
    BY <1>3 DEF isActive
  <2> QED
    BY <1>1, <2>1, CurrentStays
<1>5. RenewedStored'
  <2>1. renewals[r].pc # "idle"
    BY <1>1
  <2> QED
    BY <1>1, <1>2, <1>4, <2>1 DEF RenewedStored, s
<1>6. ASSUME NEW q \in Renewals \ {r}, renewals'[q].pc \in Charging, IsFresh(q)'
      PROVE  Holds(q)'
  <2>1. renewals'[q] = renewals[q] /\ IsFresh(q) /\ Holds(q)
        /\ renewals[q].startedAt \in Nat /\ renewals[q].pc # "idle"
    BY <1>1, <1>2, <1>6 DEF IsFresh, Alone, Charging, RenewalCall
  <2>2. CASE renewals[q].sub # s
    <3>1. renewals[q].sub \in Subscriptions
      BY <2>1 DEF IInv, RenewalsLater
    <3> QED
      BY <1>3, <2>1, <2>2, <3>1 DEF Holds, HoldsRenewal
  <2>3. CASE renewals[q].sub = s /\ records[s].canceled
    BY <1>3, <2>1, <2>3 DEF Holds
  <2>4. CASE renewals[q].sub = s /\ ~records[s].canceled
    <3>1. /\ records[s].inFlight.attempt = q
          /\ records[s].inFlight.startedAt = renewals[q].startedAt
      BY <2>1, <2>4 DEF Holds, HoldsRenewal
    <3>2. ~HoldsRenewal(r)
      BY <3>1 DEF HoldsRenewal, s
    <3>3. records[s].inFlight # NoInFlight
      BY <1>1, <3>1 DEF NoInFlight
    <3>4. ~isStaleRenewal(records[s])
      BY <1>1, <2>1, <3>1 DEF isStaleRenewal, IsFresh
    <3>5. records'[s] = records[s]
      BY <1>2, <1>3, <3>2, <3>3, <3>4
    <3> QED
      BY <2>1, <2>4, <3>5 DEF Holds, HoldsRenewal
  <2> QED
    BY <2>2, <2>3, <2>4
<1>7. ASSUME renewals'[r].pc \in Charging
      PROVE  Holds(r)'
  <2>1. renewals'[r].pc = "started"
    BY <1>2, <1>7 DEF Charging
  <2>2. records[s].lastCharged \in Nat /\ renewals[r].period \in Nat
    BY <1>1 DEF Record, RenewalCall
  <2> QED
    BY <1>2, <1>3, <2>1, <2>2 DEF Holds, HoldsRenewal, IsCharged
<1>8. Alone'
  BY <1>6, <1>7 DEF Alone
<1> QED
  BY <1>4, <1>5, <1>8

LEMMA StepLive == IInv /\ IInv' /\ LiveInv /\ [Next]_vars => LiveInv'
<1> SUFFICES ASSUME IInv, IInv', LiveInv, [Next]_vars
             PROVE  LiveInv'
  OBVIOUS
<1>1. ASSUME NEW a \in Activations, ActivationStep(a) PROVE LiveInv'
  BY <1>1, ActivationWaits, ActivationWrites, ActivationCancels, ActivationSwitches
  DEF ActivationStep
<1>2. ASSUME NEW r \in Renewals, RenewalStep(r) PROVE LiveInv'
  BY <1>2, RenewalReads, RenewalWrites DEF RenewalStep
<1>3. CASE CancelSubscription \/ Tick \/ UNCHANGED vars
  <2>1. UNCHANGED <<lookup, activations, renewals>> /\ clock \in Nat /\ clock <= clock'
    BY <1>3 DEF CancelSubscription, Tick, store, vars, IInv, TypeOK
  <2>2. \A s \in Subscriptions :
           /\ isActive(records'[s]) => isActive(records[s])
           /\ records'[s].exists = records[s].exists
           /\ records'[s].canceled \/ records'[s] = records[s]
    <3>1. records \in [Subscriptions -> Record]
      BY DEF IInv, TypeOK
    <3>2. CASE CancelSubscription
      BY <3>1, <3>2 DEF CancelSubscription, isActive, Record
    <3>3. CASE Tick \/ UNCHANGED vars
      BY <3>3 DEF Tick, store, vars
    <3> QED
      BY <1>3, <3>2, <3>3
  <2>3. Current' /\ \A a \in Activations : records'[a].exists => activations'[a].pc \in Stored
    BY <2>1, <2>2, CurrentStays
  <2>4. RenewedStored'
    BY <2>1, <2>3 DEF LiveInv, RenewedStored
  <2>5. Alone'
    <3>1. ASSUME NEW r \in Renewals
          PROVE  renewals'[r].pc \in Charging /\ IsFresh(r)' => Holds(r)'
      <4>1. renewals[r].pc # "idle" => renewals[r].sub \in Subscriptions
        BY DEF IInv, RenewalsLater
      <4> QED
        BY <2>1, <2>2, <4>1, StaysAlone DEF LiveInv, Alone
    <3> QED
      BY <3>1 DEF Alone
  <2> QED
    BY <2>3, <2>4, <2>5 DEF LiveInv
<1> QED
  BY <1>1, <1>2, <1>3 DEF Next

LEMMA LiveInvariant == Spec => []LiveInv
BY InitLive, StepLive, Invariant, PTL DEF Spec

\* activate: from the moment an activation points the lookup key to its
\* subscription, the one it replaced has been canceled for good; no renewal,
\* late put or other activation revives it.
THEOREM OthersAreCanceled == Spec => []LiveIsCurrent
<1>1. LiveInv => LiveIsCurrent
  BY DEF LiveInv, Current
<1> QED
  BY <1>1, LiveInvariant, PTL

\* renew: while its lock is not stale a renewal is alone with its period, however
\* many read the same record before it was taken.
THEOREM RenewalHoldsPeriod == Spec => []RenewalExclusive
<1>1. LiveInv => RenewalExclusive
  BY DEF LiveInv, Alone, Holds, Charging, RenewalExclusive
<1> QED
  BY <1>1, LiveInvariant, PTL

=============================================================================
