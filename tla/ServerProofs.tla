------------------------------ MODULE ServerProofs ------------------------------
(***************************************************************************)
(* What holds of the three parts of the server that MCServer runs, for any *)
(* streams, amounts, stores, callers, requests, workers, schedules, clocks *)
(* and latencies: StreamMetering, AtomicStore and ScheduledSettlement.     *)
(*                                                                         *)
(* Streams: the records of the channel keep their sums.  What a stream has *)
(* committed or reserved was asked for by its calls, and, where generators *)
(* await their charges, at most one call of a stream is in flight, whose   *)
(* amount the reservation holds until the stream commits as much.          *)
(*                                                                         *)
(* AtomicStore: every step of a caller or of the object is a step of the   *)
(* atomic register or invisible to it; the invariant says which messages   *)
(* may be on their way: one of a waiting or a disconnected caller, and     *)
(* never the swap of a change that leaves nothing to swap.                 *)
(*                                                                         *)
(* ScheduledSettlement: the lease of a worker that counts on it is its     *)
(* own, and over for no clock an update may have read.                     *)
(*                                                                         *)
(* Together: a behaviour of MCServer is a behaviour of each of the parts,  *)
(* so what holds of a part holds of it.                                    *)
(***************************************************************************)
EXTENDS MCServer, SumTheorems
-----------------------------------------------------------------------------
(* Streams *)

\* What the servers of the channel may read is never negative.
ClockAhead == clock >= ClockDrift

Typed == TypeOK /\ ClockAhead

\* A server's clock is a time, and the clock itself when there is no drift.
LEMMA ClocksAre ==
  ASSUME Typed, NEW now \in Clocks
  PROVE  now \in Nat /\ (drift = 0 => now = clock)
<1>1. clock \in Nat /\ drift \in Nat /\ drift <= ClockDrift /\ ClockDrift \in Nat
  BY MeteringConstants DEF Typed, TypeOK
<1> QED
  BY <1>1 DEF Typed, ClockAhead, Clocks

Reservations == [Streams -> [amount : Nat, expiresAt : Nat]]

\* What the reservation of a stream counts at a time, and their sum.
Term(rs, now) == [s \in Streams |-> IF rs[s].expiresAt > now THEN rs[s].amount ELSE 0]

Total(rs, now) == SumFunctionOnSet(Term(rs, now), Streams)

\* reservedStreamAmount sums what the reservations of all streams count.
LEMMA ReservedIsTotal ==
  ASSUME NEW now
  PROVE  reservedStreamAmount(now) = Total(ch.reservations, now)
BY DEF reservedStreamAmount, SumFunction, Total, Term, IsLive

\* Its terms are amounts, of finitely many streams.
LEMMA TermType ==
  ASSUME NEW rs \in Reservations, NEW now \in Nat
  PROVE  Numbers(Term(rs, now), Streams) /\ IsFiniteSet(Streams)
BY MeteringConstants DEF Numbers, Term, Reservations

\* So it is an amount.
LEMMA TotalType ==
  ASSUME NEW rs \in Reservations, NEW now \in Nat
  PROVE  Total(rs, now) \in Nat
BY TermType, SumType DEF Total

LEMMA ReservedType ==
  ASSUME TypeOK, NEW now \in Nat
  PROVE  reservedStreamAmount(now) \in Nat
BY ReservedIsTotal, TotalType DEF TypeOK, Channel, Reservations

LEMMA AmountTypes == Amounts \subseteq Nat /\ \A c \in Charges : c[1] \in Streams
BY MeteringConstants DEF Charges

\* What the updates of the record make of it.
LEMMA CommitRecord ==
  ASSUME ch \in Channel, NEW s \in Streams
  PROVE  LET new == commitReservedCharges(s)
         IN /\ new \in Channel
            /\ new.spent = ch.spent + ch.reservations[s].amount
            /\ new.highest = ch.highest
            /\ new.reservations = [ch.reservations EXCEPT ![s] = NoReservation]
<1> DEFINE charged == [ch EXCEPT !.spent = @ + ch.reservations[s].amount]
           new == commitReservedCharges(s)
<1>1. /\ charged \in Channel /\ charged.reservations = ch.reservations
      /\ charged.spent = ch.spent + ch.reservations[s].amount
      /\ charged.highest = ch.highest
  BY DEF Channel
<1>2. new = [charged EXCEPT !.reservations = [ch.reservations EXCEPT ![s] = NoReservation]]
  BY <1>1 DEF commitReservedCharges
<1>3. [ch.reservations EXCEPT ![s] = NoReservation] \in
        [Streams -> [amount : Nat, expiresAt : Nat]]
  BY DEF Channel, NoReservation
<1> HIDE DEF charged, new
<1>4. /\ new \in Channel /\ new.spent = charged.spent /\ new.highest = charged.highest
      /\ new.reservations = [ch.reservations EXCEPT ![s] = NoReservation]
  BY <1>1, <1>2, <1>3 DEF Channel
<1> QED
  BY <1>1, <1>4 DEF new

LEMMA ReleaseRecord ==
  ASSUME ch \in Channel, NEW s \in Streams
  PROVE  LET new == releaseReservedCharges(s)
         IN /\ new \in Channel
            /\ new.spent = ch.spent
            /\ new.highest = ch.highest
            /\ new.reservations = [ch.reservations EXCEPT ![s] = NoReservation]
BY DEF releaseReservedCharges, Channel, NoReservation

LEMMA ReserveRecord ==
  ASSUME ch \in Channel, NEW s \in Streams, NEW amount \in Nat, NEW now \in Nat
  PROVE  LET new == reserve(s, amount, now)
         IN /\ new \in Channel
            /\ new.spent = ch.spent
            /\ new.highest = ch.highest
            /\ new.reservations[s] = [amount |-> ch.reservations[s].amount + amount,
                                      expiresAt |-> now + Lease]
            /\ \A t \in Streams \ {s} : new.reservations[t] =
                  IF IsLive(t, now) THEN ch.reservations[t] ELSE NoReservation
<1>1. Lease \in Nat
  BY MeteringConstants
<1> DEFINE rs == [t \in Streams |->
        IF t = s THEN [amount |-> ch.reservations[s].amount + amount,
                       expiresAt |-> now + Lease]
        ELSE IF IsLive(t, now) THEN ch.reservations[t]
        ELSE NoReservation]
<1>2. rs \in [Streams -> [amount : Nat, expiresAt : Nat]]
  BY <1>1 DEF Channel, NoReservation
<1>3. reserve(s, amount, now) = [ch EXCEPT !.reservations = rs]
  BY DEF reserve
<1>4. /\ rs[s] = [amount |-> ch.reservations[s].amount + amount, expiresAt |-> now + Lease]
      /\ \A t \in Streams \ {s} : rs[t] =
            IF IsLive(t, now) THEN ch.reservations[t] ELSE NoReservation
  OBVIOUS
<1> HIDE DEF rs
<1> QED
  BY <1>2, <1>3, <1>4 DEF Channel

LEMMA TypedInit == Init => Typed
<1> SUFFICES ASSUME Init PROVE Typed
  OBVIOUS
<1>0. /\ Amounts \subseteq Nat /\ ClockDrift \in Nat /\ Prepaid \in Nat
  BY MeteringConstants
<1>1. ch \in Channel
  <2>1. PICK highest \in Amounts :
           ch = [spent |-> 0, highest |-> highest, closed |-> FALSE,
                 reservations |-> [s \in Streams |-> NoReservation]]
    BY DEF Init
  <2> QED
    BY <1>0, <2>1 DEF Channel, NoReservation
<1>2. streams \in [Streams -> Stream]
  BY <1>0 DEF Init, Stream
<1>3. charges \in [Charges -> ChargeCall]
  BY DEF Init, ChargeCall
<1>4. clock = ClockDrift /\ drift \in {0, ClockDrift} /\ asked = {}
  BY DEF Init
<1> QED
  BY <1>0, <1>1, <1>2, <1>3, <1>4 DEF Typed, TypeOK, ClockAhead

\* A charge that moves on, or waits, stays well typed.
LEMMA ToPcType ==
  ASSUME TypeOK, NEW c \in Charges, NEW pc, ToPc(c, pc),
         pc \in {"idle", "started", "waiting", "reserving", "reserved", "checking",
                 "committing", "committed", "done", "failed"}
  PROVE  charges' \in [Charges -> ChargeCall]
BY DEF TypeOK, ToPc, ChargeCall

LEMMA WaitForType ==
  ASSUME TypeOK, NEW c \in Charges, NEW now \in Nat, WaitFor(c, RequiredFor(c, now))
  PROVE  charges' \in [Charges -> ChargeCall] /\ asked' \subseteq Nat
<1> DEFINE required == RequiredFor(c, now)
<1>1. required \in Nat
  BY ReservedType DEF RequiredFor, TypeOK, Channel, ChargeCall
<1> HIDE DEF required
<1>2. /\ asked' = IF MustAsk(charges[c].lastRequired, required)
                  THEN asked \cup {required} ELSE asked
      /\ charges' = [charges EXCEPT ![c].pc = "waiting", ![c].lastRequired = required]
  BY DEF WaitFor, required
<1> QED
  BY <1>1, <1>2 DEF TypeOK, ChargeCall

LEMMA ChargeStepType ==
  ASSUME Typed, NEW c \in Charges, ChargeStep(c)
  PROVE  Typed'
<1> USE DEF Typed, TypeOK, ClockAhead
<1>0. /\ c[1] \in Streams /\ charges[c] \in ChargeCall
      /\ streams \in [Streams -> Stream] /\ ch \in Channel
  BY AmountTypes
<1>1. CASE ChargePrepaid(c)
  <2>1. streams[c[1]].prepaid - 1 \in Nat
    BY <1>0, <1>1 DEF ChargePrepaid, HasPrepaid, Stream
  <2>2. streams' \in [Streams -> Stream]
    BY <1>0, <1>1, <2>1 DEF ChargePrepaid, Stream
  <2>3. charges' \in [Charges -> ChargeCall]
    BY <1>1, ToPcType DEF ChargePrepaid
  <2> QED
    BY <1>1, <2>2, <2>3 DEF ChargePrepaid
<1>2. CASE ChargeStart(c)
  <2>1. charges' \in [Charges -> ChargeCall]
    <3>1. PICK amount \in Amounts :
             charges' = [charges EXCEPT ![c] =
               [pc |-> "started", amount |-> amount,
                requireExisting |-> streams[c[1]].pending, lastRequired |-> 0]]
      BY <1>2 DEF ChargeStart
    <3>2. [pc |-> "started", amount |-> amount,
           requireExisting |-> streams[c[1]].pending, lastRequired |-> 0] \in ChargeCall
      BY <1>0, AmountTypes DEF ChargeCall, Stream
    <3> QED
      BY <3>1, <3>2
  <2> QED
    BY <1>2, <2>1 DEF ChargeStart
<1>3. CASE BeforeChargeRejects(c)
  BY <1>3, ToPcType DEF BeforeChargeRejects
<1>4. CASE ReserveRead(c)
  <2> PICK now \in Clocks :
         \/ ToPc(c, "failed") /\ UNCHANGED asked
         \/ ToPc(c, "reserving") /\ UNCHANGED asked
         \/ WaitFor(c, RequiredFor(c, now))
    BY <1>4 DEF ReserveRead
  <2>1. charges' \in [Charges -> ChargeCall] /\ asked' \subseteq Nat
    BY ToPcType, WaitForType, ClocksAre
  <2> QED
    BY <1>4, <2>1 DEF ReserveRead
<1>5. CASE ReserveUpdate(c)
  <2> PICK now \in Clocks :
         \/ ToPc(c, "failed") /\ UNCHANGED <<ch, asked>>
         \/ ch' = reserve(c[1], charges[c].amount, now) /\ ToPc(c, "reserved") /\ UNCHANGED asked
         \/ WaitFor(c, RequiredFor(c, now)) /\ UNCHANGED ch
    BY <1>5 DEF ReserveUpdate
  <2>1. charges' \in [Charges -> ChargeCall] /\ asked' \subseteq Nat
    BY ToPcType, WaitForType, ClocksAre
  <2>2. ch' \in Channel
    <3>1. charges[c].amount \in Nat /\ now \in Nat
      BY <1>0, ClocksAre DEF ChargeCall
    <3>2. reserve(c[1], charges[c].amount, now) \in Channel
      BY <1>0, <3>1, ReserveRecord
    <3> QED
      BY <1>0, <3>2
  <2> QED
    BY <1>5, <2>1, <2>2 DEF ReserveUpdate
<1>6. CASE Reserved(c)
  <2>1. streams' \in [Streams -> Stream]
    BY <1>0, <1>6 DEF Reserved, notePending, Stream
  <2>2. charges' \in [Charges -> ChargeCall]
    BY <1>6, ToPcType DEF Reserved
  <2> QED
    BY <1>6, <2>1, <2>2 DEF Reserved
<1>7. CASE CommitStart(c)
  <2>1. charges' \in [Charges -> ChargeCall]
    BY <1>7, ToPcType DEF CommitStart
  <2> QED
    BY <1>7, <2>1 DEF CommitStart
<1>8. CASE CommitUpdate(c)
  <2> PICK now \in Clocks :
         \/ /\ ch' = commitReservedCharges(c[1])
            /\ streams' = [streams EXCEPT ![c[1]].committed = @ + ch.reservations[c[1]].amount]
            /\ ToPc(c, "committed")
         \/ ToPc(c, "failed") /\ UNCHANGED <<ch, streams>>
    BY <1>8 DEF CommitUpdate
  <2>1. charges' \in [Charges -> ChargeCall]
    BY ToPcType
  <2>2. ch' \in Channel
    BY <1>0, CommitRecord
  <2>3. streams' \in [Streams -> Stream]
    <3>1. ch.reservations[c[1]].amount \in Nat
      BY <1>0 DEF Channel
    <3> QED
      BY <1>0, <3>1 DEF Stream
  <2> QED
    BY <1>8, <2>1, <2>2, <2>3 DEF CommitUpdate
<1>9. CASE Committed(c)
  <2>1. streams' \in [Streams -> Stream]
    BY <1>0, <1>9 DEF Committed, Stream
  <2>2. charges' \in [Charges -> ChargeCall]
    BY <1>9, ToPcType DEF Committed
  <2> QED
    BY <1>9, <2>1, <2>2 DEF Committed
<1> QED
  BY <1>1, <1>2, <1>3, <1>4, <1>5, <1>6, <1>7, <1>8, <1>9 DEF ChargeStep

LEMMA StreamStepType ==
  ASSUME Typed, NEW s \in Streams, StreamStep(s)
  PROVE  Typed'
<1> USE DEF Typed, TypeOK, ClockAhead
<1>0. streams \in [Streams -> Stream] /\ ch \in Channel /\ ch.reservations[s].amount \in Nat
  BY DEF Channel
<1>1. CASE StreamEnd(s)
  BY <1>0, <1>1 DEF StreamEnd, Stream
<1>2. CASE PendingCommitStart(s)
  BY <1>0, <1>2 DEF PendingCommitStart, Stream
<1>3. CASE PendingCommitUpdate(s)
  <2>1. \/ /\ ch' = commitReservedCharges(s)
           /\ streams' = [streams EXCEPT ![s].phase = "committed",
                             ![s].committed = @ + ch.reservations[s].amount]
        \/ /\ streams' = [streams EXCEPT ![s].phase = "releasing"]
           /\ UNCHANGED ch
    BY <1>3 DEF PendingCommitUpdate
  <2>2. ch' \in Channel
    BY <1>0, <2>1, CommitRecord
  <2>3. streams' \in [Streams -> Stream]
    BY <1>0, <2>1 DEF Stream
  <2> QED
    BY <1>3, <2>2, <2>3 DEF PendingCommitUpdate
<1>4. CASE PendingCommitted(s)
  <2>1. PICK phase \in {"running", "releasing"} :
           streams' = [streams EXCEPT ![s].phase = phase, ![s].pending = FALSE]
    BY <1>4 DEF PendingCommitted
  <2>2. streams' \in [Streams -> Stream]
    BY <1>0, <2>1 DEF Stream
  <2> QED
    BY <1>4, <2>2 DEF PendingCommitted
<1>5. CASE StreamRelease(s)
  <2>1. ch' \in Channel
    BY <1>0, <1>5, ReleaseRecord DEF StreamRelease
  <2> QED
    BY <1>0, <1>5, <2>1 DEF StreamRelease, Stream
<1>6. CASE AbortRelease(s)
  <2>1. ch' \in Channel
    BY <1>0, <1>6, ReleaseRecord DEF AbortRelease
  <2> QED
    BY <1>0, <1>6, <2>1 DEF AbortRelease, Stream
<1>7. CASE Abort(s)
  BY <1>0, <1>7 DEF Abort, Stream
<1> QED
  BY <1>1, <1>2, <1>3, <1>4, <1>5, <1>6, <1>7 DEF StreamStep

LEMMA EnvironmentType ==
  ASSUME Typed, ClientAnswers \/ OtherCharge \/ CloseChannel \/ Tick
  PROVE  Typed'
<1> USE DEF Typed, TypeOK, ClockAhead
<1>1. CASE ClientAnswers
  <2>1. ch' \in Channel /\ asked' \subseteq Nat
    BY <1>1 DEF ClientAnswers, Channel
  <2> QED
    BY <1>1, <2>1 DEF ClientAnswers
<1>2. CASE OtherCharge
  <2>1. ch' \in Channel
    BY <1>2, AmountTypes DEF OtherCharge, Channel
  <2> QED
    BY <1>2, <2>1 DEF OtherCharge
<1>3. CASE CloseChannel
  BY <1>3 DEF CloseChannel, Channel
<1>4. CASE Tick
  BY <1>4, MeteringConstants DEF Tick
<1> QED
  BY <1>1, <1>2, <1>3, <1>4

LEMMA TypedStep == Typed /\ [Next]_vars => Typed'
<1> SUFFICES ASSUME Typed, [Next]_vars PROVE Typed'
  OBVIOUS
<1>1. CASE \E c \in Charges : ChargeStep(c)
  BY <1>1, ChargeStepType
<1>2. CASE \E s \in Streams : StreamStep(s)
  BY <1>2, StreamStepType
<1>3. CASE ClientAnswers \/ OtherCharge \/ CloseChannel \/ Tick
  BY <1>3, EnvironmentType
<1>4. CASE UNCHANGED vars
  BY <1>4 DEF vars, Typed, TypeOK, ClockAhead
<1> QED
  BY <1>1, <1>2, <1>3, <1>4 DEF Next

\* Every record, stream and charge keeps its type.
THEOREM MeteringTyped == Spec => []TypeOK
<1>1. Typed => TypeOK
  BY DEF Typed
<1> QED
  BY <1>1, TypedInit, TypedStep, PTL DEF Spec
-----------------------------------------------------------------------------
\* What an update does to the sum of the live reservations.

\* A reservation that is committed or released frees what it counted.
LEMMA TotalDrop ==
  ASSUME NEW rs \in Reservations, NEW now \in Nat, NEW s \in Streams
  PROVE  /\ Total([rs EXCEPT ![s] = NoReservation], now) <= Total(rs, now)
         /\ rs[s].expiresAt > now =>
              Total([rs EXCEPT ![s] = NoReservation], now) + rs[s].amount = Total(rs, now)
<1> DEFINE f == Term(rs, now)
           new == [rs EXCEPT ![s] = NoReservation]
           g == Term(new, now)
<1>1. new \in Reservations /\ ~(new[s].expiresAt > now) /\ \A t \in Streams \ {s} : new[t] = rs[t]
  BY DEF Reservations, NoReservation
<1> HIDE DEF new
<1>2. /\ Numbers(f, Streams) /\ Numbers(g, Streams) /\ IsFiniteSet(Streams)
      /\ f[s] = IF rs[s].expiresAt > now THEN rs[s].amount ELSE 0
      /\ f[s] \in Nat /\ g[s] = 0 /\ g[s] \in Nat
      /\ \A t \in Streams \ {s} : g[t] = f[t]
  BY <1>1, TermType DEF Term, Reservations
<1> HIDE DEF f, g
<1>3. SumFunctionOnSet(g, Streams) + f[s] = SumFunctionOnSet(f, Streams) + g[s]
  BY <1>2, SumChange
<1>4. SumFunctionOnSet(g, Streams) \in Nat /\ SumFunctionOnSet(f, Streams) \in Nat
  BY <1>2, SumType
<1>5. Total(new, now) = SumFunctionOnSet(g, Streams) /\ Total(rs, now) = SumFunctionOnSet(f, Streams)
  BY DEF Total, f, g
<1> QED
  BY <1>2, <1>3, <1>4, <1>5 DEF new

\* A renewed reservation counts what is added to it; those that lapsed counted
\* nothing.
LEMMA TotalReserve ==
  ASSUME NEW rs \in Reservations, NEW new \in Reservations, NEW now \in Nat,
         NEW s \in Streams, NEW amount \in Nat,
         rs[s] # NoReservation => rs[s].expiresAt > now,
         new[s] = [amount |-> rs[s].amount + amount, expiresAt |-> now + Lease],
         \A t \in Streams \ {s} :
            new[t] = IF rs[t].expiresAt > now THEN rs[t] ELSE NoReservation
  PROVE  Total(new, now) = Total(rs, now) + amount
<1> DEFINE f == Term(rs, now)
           g == Term(new, now)
<1>1. Lease \in Nat /\ Lease > 0
  BY MeteringConstants
<1>2. f[s] = rs[s].amount /\ rs[s].amount \in Nat /\ g[s] = rs[s].amount + amount
  <2>1. g[s] = rs[s].amount + amount
    BY <1>1 DEF Term
  <2>2. f[s] = rs[s].amount
    BY DEF Term, NoReservation
  <2> QED
    BY <2>1, <2>2 DEF Reservations
<1>3. \A t \in Streams \ {s} : g[t] = f[t]
  BY DEF Term, NoReservation
<1>4. Numbers(f, Streams) /\ IsFiniteSet(Streams)
  BY TermType
<1> HIDE DEF f, g
<1>5. SumFunctionOnSet(g, Streams) + f[s] = SumFunctionOnSet(f, Streams) + g[s]
  BY <1>2, <1>3, <1>4, SumChange
<1>6. Total(new, now) = SumFunctionOnSet(g, Streams) /\ Total(rs, now) = SumFunctionOnSet(f, Streams)
  BY DEF Total, f, g
<1>7. Total(new, now) \in Nat /\ Total(rs, now) \in Nat
  BY TotalType
<1> QED
  BY <1>2, <1>5, <1>6, <1>7

\* Time only lets reservations lapse.
LEMMA TotalTick ==
  ASSUME NEW rs \in Reservations, NEW now \in Nat
  PROVE  Total(rs, now + 1) <= Total(rs, now)
<1>1. /\ Numbers(Term(rs, now), Streams) /\ Numbers(Term(rs, now + 1), Streams)
      /\ IsFiniteSet(Streams)
  BY TermType
<1>2. \A s \in Streams : Term(rs, now + 1)[s] <= Term(rs, now)[s]
  BY DEF Term, Reservations
<1> QED
  BY <1>1, <1>2, SumLeq DEF Total

\* What streams have been paid.
Earned == [s \in Streams |-> streams[s].committed]

\* A step of a stream that is no commit leaves that alone.
LEMMA EarnedKept ==
  ASSUME TypeOK, NEW s \in Streams, NEW r,
         streams' = [streams EXCEPT ![s] = r], r.committed = streams[s].committed
  PROVE  Earned' = Earned
BY DEF TypeOK, Earned

\* Every step changes the record by one update of the code, or leaves alone
\* what is spent, accepted, reserved and earned.
LEMMA RecordStep ==
  ASSUME Typed, [Next]_vars
  PROVE  \/ /\ clock' = clock /\ Earned' = Earned
            /\ ch'.spent = ch.spent /\ ch'.highest = ch.highest
            /\ ch'.reservations = ch.reservations
         \/ clock' = clock + 1 /\ ch' = ch /\ Earned' = Earned
         \/ /\ clock' = clock
            /\ \E s \in Streams, now \in Clocks :
                  /\ CanCommit(s, now) /\ ch' = commitReservedCharges(s)
                  /\ Earned' = [Earned EXCEPT ![s] = @ + ch.reservations[s].amount]
         \/ /\ clock' = clock /\ Earned' = Earned
            /\ \E s \in Streams : ch' = releaseReservedCharges(s)
         \/ /\ clock' = clock /\ Earned' = Earned
            /\ \E c \in Charges, now \in Clocks :
                  /\ Covered(c, now)
                  /\ ch.reservations[c[1]] # NoReservation => IsLive(c[1], now)
                  /\ ch' = reserve(c[1], charges[c].amount, now)
         \/ OtherCharge /\ Earned' = Earned
         \/ ClientAnswers /\ Earned' = Earned
<1>0. TypeOK /\ streams \in [Streams -> Stream]
  BY DEF Typed, TypeOK
<1>1. CASE \E c \in Charges : ChargeStep(c)
  <2> PICK c \in Charges : ChargeStep(c)
    BY <1>1
  <2> DEFINE s == c[1]
  <2>1. clock' = clock /\ s \in Streams
    BY AmountTypes DEF ChargeStep, ChargePrepaid, ChargeStart, BeforeChargeRejects, ReserveRead,
       ReserveUpdate, Reserved, CommitStart, CommitUpdate, Committed
  <2>2. CASE ReserveUpdate(c)
    <3>1. PICK now \in Clocks :
             \/ UNCHANGED ch
             \/ /\ Covered(c, now)
                /\ ch.reservations[s] # NoReservation => IsLive(s, now)
                /\ ch' = reserve(s, charges[c].amount, now)
      BY <2>2 DEF ReserveUpdate
    <3>2. Earned' = Earned
      BY <2>2 DEF ReserveUpdate, Earned
    <3> QED
      BY <2>1, <3>1, <3>2
  <2>3. CASE CommitUpdate(c)
    <3>1. PICK now \in Clocks :
             \/ UNCHANGED <<ch, streams>>
             \/ /\ CanCommit(s, now) /\ ch' = commitReservedCharges(s)
                /\ streams' = [streams EXCEPT ![s].committed = @ + ch.reservations[s].amount]
      BY <2>3 DEF CommitUpdate
    <3>2. CASE UNCHANGED <<ch, streams>>
      BY <2>1, <3>2 DEF Earned
    <3>3. CASE streams' = [streams EXCEPT ![s].committed = @ + ch.reservations[s].amount]
      <4>1. Earned' = [Earned EXCEPT ![s] = @ + ch.reservations[s].amount]
        BY <1>0, <2>1, <3>3 DEF Earned, Stream
      <4> QED
        BY <2>1, <3>1, <4>1, <3>2
    <3> QED
      BY <3>1, <3>2, <3>3
  <2>4. CASE ChargePrepaid(c) \/ Reserved(c) \/ Committed(c)
    <3>1. ch' = ch
      BY <2>4 DEF ChargePrepaid, Reserved, Committed
    <3>2. \E r : streams' = [streams EXCEPT ![s] = r] /\ r.committed = streams[s].committed
      <4>1. CASE ChargePrepaid(c)
        <5> DEFINE r == [streams[s] EXCEPT !.prepaid = @ - 1]
        <5>1. streams' = [streams EXCEPT ![s] = r]
          BY <1>0, <2>1, <4>1 DEF ChargePrepaid
        <5>2. r.committed = streams[s].committed
          BY <1>0, <2>1 DEF Stream
        <5> QED
          BY <5>1, <5>2
      <4>2. CASE Reserved(c)
        <5> DEFINE r == [streams[s] EXCEPT !.pending = TRUE]
        <5>1. streams' = [streams EXCEPT ![s] = r]
          BY <1>0, <2>1, <4>2 DEF Reserved, notePending
        <5>2. r.committed = streams[s].committed
          BY <1>0, <2>1 DEF Stream
        <5> QED
          BY <5>1, <5>2
      <4>3. CASE Committed(c)
        <5> DEFINE r == [streams[s] EXCEPT !.pending = FALSE]
        <5>1. streams' = [streams EXCEPT ![s] = r]
          BY <1>0, <2>1, <4>3 DEF Committed
        <5>2. r.committed = streams[s].committed
          BY <1>0, <2>1 DEF Stream
        <5> QED
          BY <5>1, <5>2
      <4> QED
        BY <2>4, <4>1, <4>2, <4>3
    <3>3. Earned' = Earned
      BY <1>0, <2>1, <3>2, EarnedKept
    <3> QED
      BY <2>1, <3>1, <3>3
  <2>5. CASE ChargeStart(c) \/ BeforeChargeRejects(c) \/ ReserveRead(c) \/ CommitStart(c)
    <3>1. ch' = ch /\ streams' = streams
      BY <2>5 DEF ChargeStart, BeforeChargeRejects, ReserveRead, CommitStart
    <3> QED
      BY <2>1, <3>1 DEF Earned
  <2> QED
    BY <2>2, <2>3, <2>4, <2>5 DEF ChargeStep
<1>2. CASE \E s \in Streams : StreamStep(s)
  <2> PICK s \in Streams : StreamStep(s)
    BY <1>2
  <2>1. clock' = clock
    BY DEF StreamStep, StreamEnd, PendingCommitStart, PendingCommitUpdate, PendingCommitted,
       StreamRelease, AbortRelease, Abort
  <2>2. CASE PendingCommitUpdate(s) /\ ch' # ch
    <3>1. PICK now \in Clocks :
             /\ CanCommit(s, now) /\ ch' = commitReservedCharges(s)
             /\ streams' = [streams EXCEPT ![s].phase = "committed",
                               ![s].committed = @ + ch.reservations[s].amount]
      BY <2>2 DEF PendingCommitUpdate
    <3>2. Earned' = [Earned EXCEPT ![s] = @ + ch.reservations[s].amount]
      <4> DEFINE n == streams[s].committed + ch.reservations[s].amount
                 r == [streams[s] EXCEPT !.phase = "committed", !.committed = n]
      <4>1. streams' = [streams EXCEPT ![s] = r]
        BY <1>0, <3>1 DEF Stream
      <4>2. r.committed = n
        BY <1>0 DEF Stream
      <4> HIDE DEF n, r
      <4>3. Earned' = [Earned EXCEPT ![s] = n]
        BY <1>0, <4>1, <4>2 DEF Earned
      <4> QED
        BY <4>3 DEF Earned, n
    <3> QED
      BY <2>1, <3>1, <3>2
  <2>3. CASE ~PendingCommitUpdate(s) \/ ch' = ch
    <3>1. ch' = ch \/ ch' = releaseReservedCharges(s)
      BY <2>3 DEF StreamStep, StreamEnd, PendingCommitStart, PendingCommitted,
         StreamRelease, AbortRelease, Abort
    <3>2. \E r : streams' = [streams EXCEPT ![s] = r] /\ r.committed = streams[s].committed
      <4>1. CASE StreamEnd(s)
        <5> DEFINE r == [streams[s] EXCEPT !.phase = "releasing"]
        <5>1. streams' = [streams EXCEPT ![s] = r]
          BY <1>0, <4>1 DEF StreamEnd
        <5>2. r.committed = streams[s].committed
          BY <1>0 DEF Stream
        <5> QED
          BY <5>1, <5>2
      <4>2. CASE PendingCommitStart(s)
        <5> DEFINE r == [streams[s] EXCEPT !.phase = "committing"]
        <5>1. streams' = [streams EXCEPT ![s] = r]
          BY <1>0, <4>2 DEF PendingCommitStart
        <5>2. r.committed = streams[s].committed
          BY <1>0 DEF Stream
        <5> QED
          BY <5>1, <5>2
      <4>3. CASE StreamRelease(s)
        <5> DEFINE r == [streams[s] EXCEPT !.phase = "over"]
        <5>1. streams' = [streams EXCEPT ![s] = r]
          BY <1>0, <4>3 DEF StreamRelease
        <5>2. r.committed = streams[s].committed
          BY <1>0 DEF Stream
        <5> QED
          BY <5>1, <5>2
      <4>4. CASE AbortRelease(s)
        <5> DEFINE r == [streams[s] EXCEPT !.abortRelease = FALSE]
        <5>1. streams' = [streams EXCEPT ![s] = r]
          BY <1>0, <4>4 DEF AbortRelease
        <5>2. r.committed = streams[s].committed
          BY <1>0 DEF Stream
        <5> QED
          BY <5>1, <5>2
      <4>5. CASE Abort(s)
        <5> DEFINE r == [streams[s] EXCEPT !.aborted = TRUE, !.abortRelease = TRUE]
        <5>1. streams' = [streams EXCEPT ![s] = r]
          BY <1>0, <4>5 DEF Abort
        <5>2. r.committed = streams[s].committed
          BY <1>0 DEF Stream
        <5> QED
          BY <5>1, <5>2
      <4>6. CASE PendingCommitted(s)
        <5> PICK phase \in {"running", "releasing"} :
               streams' = [streams EXCEPT ![s].phase = phase, ![s].pending = FALSE]
          BY <4>6 DEF PendingCommitted
        <5> DEFINE r == [streams[s] EXCEPT !.phase = phase, !.pending = FALSE]
        <5>1. streams' = [streams EXCEPT ![s] = r]
          BY <1>0
        <5>2. r.committed = streams[s].committed
          BY <1>0 DEF Stream
        <5> QED
          BY <5>1, <5>2
      <4>7. CASE PendingCommitUpdate(s)
        <5>1. ch' = ch
          BY <2>3, <4>7
        <5>2. \A now \in Clocks : CanCommit(s, now) => commitReservedCharges(s) # ch
          <6>1. ch \in Channel
            BY <1>0 DEF TypeOK
          <6>2. commitReservedCharges(s).reservations[s] = NoReservation
            BY <6>1, CommitRecord DEF Channel
          <6> QED
            BY <6>2 DEF CanCommit
        <5>3. streams' = [streams EXCEPT ![s].phase = "releasing"]
          BY <4>7, <5>1, <5>2 DEF PendingCommitUpdate
        <5> DEFINE r == [streams[s] EXCEPT !.phase = "releasing"]
        <5>4. streams' = [streams EXCEPT ![s] = r]
          BY <1>0, <5>3
        <5>5. r.committed = streams[s].committed
          BY <1>0 DEF Stream
        <5> QED
          BY <5>4, <5>5
      <4> QED
        BY <4>1, <4>2, <4>3, <4>4, <4>5, <4>6, <4>7 DEF StreamStep
    <3>3. Earned' = Earned
      BY <1>0, <3>2, EarnedKept
    <3> QED
      BY <2>1, <3>1, <3>3
  <2> QED
    BY <2>2, <2>3
<1>3. CASE CloseChannel
  BY <1>3 DEF CloseChannel, Typed, TypeOK, Channel, Earned
<1>4. CASE Tick \/ UNCHANGED vars
  BY <1>4 DEF Tick, vars, Earned
<1>5. CASE OtherCharge \/ ClientAnswers
  BY <1>5 DEF OtherCharge, ClientAnswers, Earned
<1> QED
  BY <1>1, <1>2, <1>3, <1>4, <1>5 DEF Next

\* A step that charges has checked the coverage in its update.
LEMMA SpentStep == Typed /\ SpentWithinAccepted /\ [Next]_vars => SpentWithinAccepted'
<1> SUFFICES ASSUME Typed, SpentWithinAccepted, [Next]_vars PROVE ch'.spent <= ch'.highest
  BY DEF SpentWithinAccepted
<1>0. ch \in Channel /\ ch.spent \in Nat /\ ch.highest \in Nat /\ ch.spent <= ch.highest
  BY DEF Typed, TypeOK, Channel, SpentWithinAccepted
<1>1. CASE \E s \in Streams, now \in Clocks :
              CanCommit(s, now) /\ ch' = commitReservedCharges(s)
  <2> PICK s \in Streams, now \in Clocks :
         CanCommit(s, now) /\ ch' = commitReservedCharges(s)
    BY <1>1
  <2>1. ch'.spent = ch.spent + ch.reservations[s].amount /\ ch'.highest = ch.highest
    BY <1>0, CommitRecord
  <2>2. ch.highest - ch.spent >= ch.reservations[s].amount
    BY DEF CanCommit
  <2>3. ch.reservations[s].amount \in Nat
    BY <1>0 DEF Channel
  <2> QED
    BY <1>0, <2>1, <2>2, <2>3
<1>2. CASE \E s \in Streams : ch' = releaseReservedCharges(s)
  BY <1>0, <1>2, ReleaseRecord
<1>3. CASE \E c \in Charges, now \in Clocks : ch' = reserve(c[1], charges[c].amount, now)
  <2> PICK c \in Charges, now \in Clocks : ch' = reserve(c[1], charges[c].amount, now)
    BY <1>3
  <2>1. c[1] \in Streams /\ charges[c].amount \in Nat /\ now \in Nat
    BY AmountTypes, ClocksAre DEF Typed, TypeOK, ChargeCall
  <2>2. ch'.spent = ch.spent /\ ch'.highest = ch.highest
    BY <1>0, <2>1, ReserveRecord
  <2> QED
    BY <1>0, <2>2
<1>4. CASE OtherCharge
  <2> PICK amount \in Amounts, now \in Clocks :
         Headroom(now) >= amount /\ ch' = [ch EXCEPT !.spent = @ + amount]
    BY <1>4 DEF OtherCharge
  <2>1. amount \in Nat /\ now \in Nat /\ reservedStreamAmount(now) \in Nat
    BY AmountTypes, ClocksAre, ReservedType DEF Typed
  <2>2. ch'.spent = ch.spent + amount /\ ch'.highest = ch.highest
    BY <1>0 DEF Channel
  <2> QED
    BY <1>0, <2>1, <2>2 DEF Headroom
<1>5. CASE ClientAnswers
  <2> PICK required \in asked : ch' = [ch EXCEPT !.highest = IF required > @ THEN required ELSE @]
    BY <1>5 DEF ClientAnswers
  <2>1. required \in Nat
    BY DEF Typed, TypeOK
  <2>2. ch'.spent = ch.spent /\ ch'.highest = IF required > ch.highest THEN required ELSE ch.highest
    BY <1>0 DEF Channel
  <2> QED
    BY <1>0, <2>1, <2>2
<1> QED
  BY <1>0, <1>1, <1>2, <1>3, <1>4, <1>5, RecordStep

\* Streams and other charges together never spend more than the payer signed
\* for, whatever the servers' clocks say (deductFromChannel and
\* commitReservedCharges check the coverage in the update).
THEOREM SpentStaysAccepted == Spec => []SpentWithinAccepted
<1>1. Init => SpentWithinAccepted
  <2> SUFFICES ASSUME Init PROVE SpentWithinAccepted
    OBVIOUS
  <2>1. ch.spent = 0 /\ ch.highest \in Nat
    BY AmountTypes DEF Init
  <2> QED
    BY <2>1 DEF SpentWithinAccepted
<1> QED
  BY <1>1, TypedInit, TypedStep, SpentStep, PTL DEF Spec

\* A reservation takes what no other live one and no charge has taken.
LEMMA CoveredStep == Typed /\ ReservationsCovered /\ [Next]_vars => ReservationsCovered'
<1> SUFFICES ASSUME Typed, ReservationsCovered, [Next]_vars, drift' = 0
             PROVE  ch'.spent + Total(ch'.reservations, clock') <= ch'.highest
  BY ReservedIsTotal DEF ReservationsCovered, reservedStreamAmount, SumFunction, Total, Term, IsLive
<1> DEFINE total == Total(ch.reservations, clock)
<1>0. /\ ch \in Channel /\ ch.spent \in Nat /\ ch.highest \in Nat /\ clock \in Nat
      /\ ch.reservations \in Reservations /\ total \in Nat
  BY TotalType DEF Typed, TypeOK, Channel, Reservations
<1>01. drift = 0
  BY DEF Next, vars, ChargeStep, ChargePrepaid, ChargeStart, BeforeChargeRejects, ReserveRead,
     ReserveUpdate, Reserved, CommitStart, CommitUpdate, Committed,
     StreamStep, StreamEnd, PendingCommitStart, PendingCommitUpdate, PendingCommitted,
     StreamRelease, AbortRelease, Abort, ClientAnswers, OtherCharge, CloseChannel, Tick
<1>02. ch.spent + total <= ch.highest
  BY <1>01, ReservedIsTotal DEF ReservationsCovered
<1>03. \A now \in Clocks : now = clock
  BY <1>01, ClocksAre
<1>1. CASE clock' = clock /\ \E s \in Streams, now \in Clocks :
              CanCommit(s, now) /\ ch' = commitReservedCharges(s)
  <2> PICK s \in Streams, now \in Clocks :
         CanCommit(s, now) /\ ch' = commitReservedCharges(s)
    BY <1>1
  <2> DEFINE rest == [ch.reservations EXCEPT ![s] = NoReservation]
  <2>1. /\ ch'.spent = ch.spent + ch.reservations[s].amount /\ ch'.highest = ch.highest
        /\ ch'.reservations = rest
    BY <1>0, CommitRecord
  <2>2. Total(rest, clock) + ch.reservations[s].amount = total
    BY <1>0, <1>03, TotalDrop DEF CanCommit, IsLive
  <2>3. ch.reservations[s].amount \in Nat /\ rest \in Reservations
    BY <1>0 DEF Reservations, NoReservation
  <2>4. Total(rest, clock) \in Nat
    BY <1>0, <2>3, TotalType
  <2> HIDE DEF rest, total
  <2> QED
    BY <1>0, <1>02, <1>1, <2>1, <2>2, <2>3, <2>4
<1>2. CASE clock' = clock /\ \E s \in Streams : ch' = releaseReservedCharges(s)
  <2> PICK s \in Streams : ch' = releaseReservedCharges(s)
    BY <1>2
  <2> DEFINE rest == [ch.reservations EXCEPT ![s] = NoReservation]
  <2>1. /\ ch'.spent = ch.spent /\ ch'.highest = ch.highest
        /\ ch'.reservations = rest
    BY <1>0, ReleaseRecord
  <2>2. Total(rest, clock) <= total
    BY <1>0, TotalDrop
  <2>3. rest \in Reservations
    BY <1>0 DEF Reservations, NoReservation
  <2>4. Total(rest, clock) \in Nat
    BY <1>0, <2>3, TotalType
  <2> HIDE DEF rest, total
  <2> QED
    BY <1>0, <1>02, <1>2, <2>1, <2>2, <2>4
<1>3. CASE clock' = clock /\ \E c \in Charges, now \in Clocks :
              /\ Covered(c, now)
              /\ ch.reservations[c[1]] # NoReservation => IsLive(c[1], now)
              /\ ch' = reserve(c[1], charges[c].amount, now)
  <2> PICK c \in Charges, now \in Clocks :
              /\ Covered(c, now)
              /\ ch.reservations[c[1]] # NoReservation => IsLive(c[1], now)
              /\ ch' = reserve(c[1], charges[c].amount, now)
    BY <1>3
  <2> DEFINE amount == charges[c].amount
  <2>1. c[1] \in Streams /\ amount \in Nat /\ now = clock
    BY AmountTypes, <1>03 DEF Typed, TypeOK, ChargeCall
  <2>2. /\ ch' \in Channel /\ ch'.spent = ch.spent /\ ch'.highest = ch.highest
        /\ ch'.reservations[c[1]] = [amount |-> ch.reservations[c[1]].amount + amount,
                                     expiresAt |-> clock + Lease]
        /\ \A t \in Streams \ {c[1]} : ch'.reservations[t] =
              IF IsLive(t, clock) THEN ch.reservations[t] ELSE NoReservation
    BY <1>0, <2>1, ReserveRecord
  <2>3. ch'.reservations \in Reservations
    BY <2>2 DEF Channel, Reservations
  <2>4. Total(ch'.reservations, clock) = total + amount
    BY <1>0, <2>1, <2>2, <2>3, TotalReserve DEF IsLive
  <2>5. ch.highest - ch.spent - total >= amount
    BY <2>1, ReservedIsTotal DEF Covered, Headroom
  <2> HIDE DEF total, amount
  <2> QED
    BY <1>0, <1>3, <2>1, <2>2, <2>4, <2>5
<1>4. CASE OtherCharge
  <2> PICK amount \in Amounts, now \in Clocks :
         Headroom(now) >= amount /\ ch' = [ch EXCEPT !.spent = @ + amount]
    BY <1>4 DEF OtherCharge
  <2>1. amount \in Nat /\ now = clock
    BY AmountTypes, <1>03
  <2>2. ch'.spent = ch.spent + amount /\ ch'.highest = ch.highest
        /\ ch'.reservations = ch.reservations
    BY <1>0 DEF Channel
  <2>3. ch.highest - ch.spent - total >= amount
    BY <2>1, ReservedIsTotal DEF Headroom
  <2>4. clock' = clock
    BY <1>4 DEF OtherCharge
  <2> HIDE DEF total
  <2>5. Total(ch'.reservations, clock') = total
    BY <2>2, <2>4 DEF total
  <2> QED
    BY <1>0, <2>1, <2>2, <2>3, <2>5
<1>5. CASE ClientAnswers
  <2> PICK required \in asked : ch' = [ch EXCEPT !.highest = IF required > @ THEN required ELSE @]
    BY <1>5 DEF ClientAnswers
  <2>1. required \in Nat
    BY DEF Typed, TypeOK
  <2>2. ch'.spent = ch.spent /\ ch'.highest = (IF required > ch.highest THEN required ELSE ch.highest)
        /\ ch'.reservations = ch.reservations
    BY <1>0 DEF Channel
  <2>3. clock' = clock
    BY <1>5 DEF ClientAnswers
  <2>4. Total(ch'.reservations, clock') = total
    BY <2>2, <2>3
  <2> HIDE DEF total
  <2> QED
    BY <1>0, <1>02, <2>1, <2>2, <2>4
<1>6. CASE clock' = clock + 1 /\ ch' = ch
  <2>1. Total(ch.reservations, clock + 1) <= total /\ Total(ch.reservations, clock + 1) \in Nat
    BY <1>0, TotalTick, TotalType
  <2> HIDE DEF total
  <2> QED
    BY <1>0, <1>02, <1>6, <2>1
<1>7. CASE /\ clock' = clock
           /\ ch'.spent = ch.spent /\ ch'.highest = ch.highest
           /\ ch'.reservations = ch.reservations
  BY <1>7, <1>02
<1> QED
  BY <1>1, <1>2, <1>3, <1>4, <1>5, <1>6, <1>7, RecordStep

\* While the servers' clocks agree, what is spent and what streams have
\* reserved is covered: every live reservation can be committed
\* (reserveChargeOrWait counts the live reservations of all streams).
THEOREM ReservationsStayCovered == Spec => []ReservationsCovered
<1>1. Init => ReservationsCovered
  <2> SUFFICES ASSUME Init PROVE ReservationsCovered
    OBVIOUS
  <2>1. /\ ch.spent = 0 /\ ch.highest \in Nat /\ clock \in Nat
        /\ \A s \in Streams : ch.reservations[s] = NoReservation
    BY AmountTypes, MeteringConstants DEF Init
  <2>2. \A s \in Streams : Term(ch.reservations, clock)[s] = 0
    BY <2>1 DEF Term, NoReservation
  <2>3. reservedStreamAmount(clock) = 0
    BY <2>2, ReservedIsTotal, SumZero, MeteringConstants DEF Total
  <2> QED
    BY <2>1, <2>3 DEF ReservationsCovered
<1> QED
  BY <1>1, TypedInit, TypedStep, CoveredStep, PTL DEF Spec

\* What the streams hold of the voucher: the amounts of their live reservations.
Held == [s \in Streams |-> IF IsLive(s, clock) THEN ch.reservations[s].amount ELSE 0]

LEMMA HeldIsTerm ==
  /\ Held = Term(ch.reservations, clock)
  /\ Held' = Term(ch'.reservations, clock')
  /\ Voucher!Left = Headroom(clock)
<1>1. Held = Term(ch.reservations, clock)
  BY DEF Held, Term, IsLive
<1>2. Held' = Term(ch'.reservations, clock')
  BY DEF Held, Term, IsLive
<1>3. Voucher!SumFunction(Held) = SumFunction(Held)
  BY DEF SumFunction, SumFunctionOnSet, FoldFunctionOnSet, MapThenFoldSet,
     Voucher!SumFunction, Voucher!SumFunctionOnSet, Voucher!FoldFunctionOnSet, Voucher!MapThenFoldSet
<1>4. Voucher!Left = ch.highest - ch.spent - Voucher!SumFunction(Held)
  BY DEF Voucher!Left, Held
<1>5. Headroom(clock) = ch.highest - ch.spent - SumFunction(Held)
  BY DEF Headroom, reservedStreamAmount, Held
<1> QED
  BY <1>1, <1>2, <1>3, <1>4, <1>5

\* The steps of the shared voucher, in terms of the streams.
LEMMA SeesTake ==
  ASSUME NEW s \in Streams, ch'.highest = ch.highest, ch'.spent = ch.spent + Held[s],
         Held' = [Held EXCEPT ![s] = 0], Earned' = [Earned EXCEPT ![s] = @ + Held[s]]
  PROVE  Voucher!VoucherNext
<1>1. Voucher!Take(s)
  BY DEF Voucher!Take, Held, Earned, IsLive
<1> QED
  BY <1>1 DEF Voucher!VoucherNext

LEMMA SeesLapse ==
  ASSUME NEW gone \in SUBSET Streams, ch'.highest = ch.highest, ch'.spent = ch.spent,
         Held' = [s \in Streams |-> IF s \in gone THEN 0 ELSE Held[s]], Earned' = Earned
  PROVE  Voucher!VoucherNext
<1>1. Voucher!Lapse
  BY DEF Voucher!Lapse, Held, Earned, IsLive
<1> QED
  BY <1>1 DEF Voucher!VoucherNext

LEMMA SeesHold ==
  ASSUME NEW s \in Streams, NEW amount \in 1 .. Headroom(clock),
         ch'.highest = ch.highest, ch'.spent = ch.spent,
         Held' = [Held EXCEPT ![s] = @ + amount], Earned' = Earned
  PROVE  Voucher!VoucherNext
<1>1. amount \in 1 .. Voucher!Left
  BY HeldIsTerm
<1> HIDE DEF Voucher!Left
<1>2. Voucher!Hold(s)
  BY <1>1 DEF Voucher!Hold, Held, Earned, IsLive
<1> QED
  BY <1>2 DEF Voucher!VoucherNext

LEMMA SeesSpend ==
  ASSUME NEW amount \in 1 .. Headroom(clock), ch'.highest = ch.highest,
         ch'.spent = ch.spent + amount, Held' = Held, Earned' = Earned
  PROVE  Voucher!VoucherNext
<1>1. amount \in 1 .. Voucher!Left
  BY HeldIsTerm
<1>2. Voucher!Spend
  BY <1>1 DEF Voucher!Spend, Held, Earned, IsLive
<1> QED
  BY <1>2 DEF Voucher!VoucherNext

LEMMA SeesRaise ==
  ASSUME ch'.highest > ch.highest, ch'.spent = ch.spent, Held' = Held, Earned' = Earned
  PROVE  Voucher!VoucherNext
<1>1. Voucher!Raise
  BY DEF Voucher!Raise, Held, Earned, IsLive
<1> QED
  BY <1>1 DEF Voucher!VoucherNext

LEMMA VoucherSame ==
  ASSUME ch'.highest = ch.highest, ch'.spent = ch.spent, Held' = Held, Earned' = Earned
  PROVE  UNCHANGED Voucher!voucher
BY DEF Voucher!voucher, Held, Earned, IsLive

\* A reservation that is cleared gives up what it held.
LEMMA HeldCleared ==
  ASSUME Typed, NEW s \in Streams, clock' = clock,
         ch'.reservations = [ch.reservations EXCEPT ![s] = NoReservation]
  PROVE  Held' = [Held EXCEPT ![s] = 0]
<1>1. clock \in Nat /\ ch.reservations \in Reservations
  BY DEF Typed, TypeOK, Channel, Reservations
<1>2. ch'.reservations[s] = NoReservation /\ \A t \in Streams \ {s} : ch'.reservations[t] = ch.reservations[t]
  BY <1>1 DEF Reservations
<1>3. Held'[s] = 0
  BY <1>1, <1>2 DEF Held, IsLive, NoReservation
<1>4. \A t \in Streams \ {s} : Held'[t] = Held[t]
  BY <1>2 DEF Held, IsLive
<1> QED
  BY <1>3, <1>4 DEF Held

LEMMA VoucherStep ==
  ASSUME Typed, drift = 0, [Next]_vars
  PROVE  [Voucher!VoucherNext]_(Voucher!voucher)
<1>0. /\ ch \in Channel /\ ch.spent \in Nat /\ ch.highest \in Nat /\ clock \in Nat
      /\ ch.reservations \in Reservations
  BY DEF Typed, TypeOK, Channel, Reservations
<1>01. \A now \in Clocks : now = clock
  BY ClocksAre
<1>1. CASE /\ clock' = clock /\ Earned' = Earned
           /\ ch'.spent = ch.spent /\ ch'.highest = ch.highest
           /\ ch'.reservations = ch.reservations
  <2>1. Held' = Held
    BY <1>1 DEF Held, IsLive
  <2> QED
    BY <1>1, <2>1, VoucherSame
<1>2. CASE clock' = clock + 1 /\ ch' = ch /\ Earned' = Earned
  <2> DEFINE gone == {s \in Streams : ~ch.reservations[s].expiresAt > clock + 1}
  <2>1. \A s \in Streams : IF s \in gone THEN Held'[s] = 0 ELSE Held'[s] = Held[s]
    BY <1>0, <1>2 DEF Held, IsLive, Reservations
  <2>2. Held' = [s \in Streams |-> IF s \in gone THEN 0 ELSE Held[s]]
    BY <2>1 DEF Held
  <2>3. gone \in SUBSET Streams
    OBVIOUS
  <2> QED
    BY <1>2, <2>2, <2>3, SeesLapse
<1>3. CASE /\ clock' = clock
           /\ \E s \in Streams, now \in Clocks :
                 /\ CanCommit(s, now) /\ ch' = commitReservedCharges(s)
                 /\ Earned' = [Earned EXCEPT ![s] = @ + ch.reservations[s].amount]
  <2> PICK s \in Streams, now \in Clocks :
         /\ CanCommit(s, now) /\ ch' = commitReservedCharges(s)
         /\ Earned' = [Earned EXCEPT ![s] = @ + ch.reservations[s].amount]
    BY <1>3
  <2>1. Held[s] = ch.reservations[s].amount
    BY <1>01 DEF CanCommit, Held
  <2>2. /\ ch'.spent = ch.spent + ch.reservations[s].amount /\ ch'.highest = ch.highest
        /\ ch'.reservations = [ch.reservations EXCEPT ![s] = NoReservation]
    BY <1>0, CommitRecord
  <2>3. Held' = [Held EXCEPT ![s] = 0]
    BY <1>3, <2>2, HeldCleared
  <2> QED
    BY <2>1, <2>2, <2>3, SeesTake
<1>4. CASE clock' = clock /\ Earned' = Earned /\ \E s \in Streams : ch' = releaseReservedCharges(s)
  <2> PICK s \in Streams : ch' = releaseReservedCharges(s)
    BY <1>4
  <2>1. /\ ch'.spent = ch.spent /\ ch'.highest = ch.highest
        /\ ch'.reservations = [ch.reservations EXCEPT ![s] = NoReservation]
    BY <1>0, ReleaseRecord
  <2>2. Held' = [Held EXCEPT ![s] = 0]
    BY <1>4, <2>1, HeldCleared
  <2> DEFINE gone == {s}
  <2>3. Held' = [t \in Streams |-> IF t \in gone THEN 0 ELSE Held[t]] /\ gone \in SUBSET Streams
    BY <2>2 DEF Held
  <2> HIDE DEF gone
  <2> QED
    BY <1>4, <2>1, <2>3, SeesLapse
<1>5. CASE /\ clock' = clock /\ Earned' = Earned
           /\ \E c \in Charges, now \in Clocks :
                 /\ Covered(c, now)
                 /\ ch.reservations[c[1]] # NoReservation => IsLive(c[1], now)
                 /\ ch' = reserve(c[1], charges[c].amount, now)
  <2> PICK c \in Charges, now \in Clocks :
                 /\ Covered(c, now)
                 /\ ch.reservations[c[1]] # NoReservation => IsLive(c[1], now)
                 /\ ch' = reserve(c[1], charges[c].amount, now)
    BY <1>5
  <2> DEFINE s == c[1]
             amount == charges[c].amount
  <2>1. s \in Streams /\ amount \in Nat /\ now = clock
    BY AmountTypes, <1>01 DEF Typed, TypeOK, ChargeCall
  <2>2. /\ ch'.spent = ch.spent /\ ch'.highest = ch.highest
        /\ ch'.reservations[s] = [amount |-> ch.reservations[s].amount + amount,
                                  expiresAt |-> clock + Lease]
        /\ \A t \in Streams \ {s} : ch'.reservations[t] =
              IF IsLive(t, clock) THEN ch.reservations[t] ELSE NoReservation
    BY <1>0, <2>1, ReserveRecord
  <2>3. ch.reservations[s] # NoReservation => IsLive(s, clock)
    BY <2>1
  <2>4. amount <= Headroom(clock) /\ Headroom(clock) \in Int
    BY <1>0, <2>1, ReservedType DEF Covered, Headroom, Typed
  <2> HIDE DEF s, amount
  <2>5. Held'[s] = Held[s] + amount
    <3>1. Held'[s] = ch.reservations[s].amount + amount
      BY <1>0, <1>5, <2>1, <2>2, MeteringConstants DEF Held, IsLive
    <3>2. Held[s] = ch.reservations[s].amount
      BY <2>1, <2>3 DEF Held, NoReservation
    <3> QED
      BY <3>1, <3>2
  <2>6. \A t \in Streams \ {s} : Held'[t] = Held[t]
    BY <1>0, <1>5, <2>2 DEF Held, IsLive, NoReservation
  <2>7. Held' = [Held EXCEPT ![s] = @ + amount]
    BY <2>1, <2>5, <2>6 DEF Held
  <2>8. CASE amount = 0
    <3>1. Held[s] \in Nat
      BY <1>0, <2>1 DEF Held, Reservations
    <3>2. Held' = Held
      BY <2>1, <2>5, <2>6, <2>8, <3>1 DEF Held
    <3> QED
      BY <1>5, <2>2, <3>2, VoucherSame
  <2>9. CASE amount # 0
    <3>1. amount \in 1 .. Headroom(clock)
      BY <2>1, <2>4, <2>9
    <3> QED
      BY <1>5, <2>1, <2>2, <2>7, <3>1, SeesHold
  <2> QED
    BY <2>8, <2>9
<1>6. CASE OtherCharge /\ Earned' = Earned
  <2> PICK amount \in Amounts, now \in Clocks :
         Headroom(now) >= amount /\ ch' = [ch EXCEPT !.spent = @ + amount]
    BY <1>6 DEF OtherCharge
  <2>1. /\ ch'.spent = ch.spent + amount /\ ch'.highest = ch.highest
        /\ ch'.reservations = ch.reservations /\ clock' = clock
    BY <1>0, <1>6 DEF Channel, OtherCharge
  <2>2. amount \in 1 .. Headroom(clock)
    <3>1. amount \in Nat \ {0} /\ now = clock
      BY <1>01, MeteringConstants
    <3>2. Headroom(clock) \in Int
      BY <1>0, ReservedType DEF Headroom, Typed
    <3> QED
      BY <3>1, <3>2
  <2>3. Held' = Held
    BY <2>1 DEF Held, IsLive
  <2> QED
    BY <1>6, <2>1, <2>2, <2>3, SeesSpend
<1>7. CASE ClientAnswers /\ Earned' = Earned
  <2> PICK required \in asked : ch' = [ch EXCEPT !.highest = IF required > @ THEN required ELSE @]
    BY <1>7 DEF ClientAnswers
  <2>1. /\ ch'.spent = ch.spent /\ ch'.reservations = ch.reservations /\ clock' = clock
        /\ ch'.highest = IF required > ch.highest THEN required ELSE ch.highest
    BY <1>0, <1>7 DEF Channel, ClientAnswers
  <2>2. Held' = Held
    BY <2>1 DEF Held, IsLive
  <2>3. CASE required > ch.highest
    BY <1>7, <2>1, <2>2, <2>3, SeesRaise
  <2>4. CASE ~(required > ch.highest)
    BY <1>7, <2>1, <2>2, <2>4, VoucherSame
  <2> QED
    BY <2>3, <2>4
<1> QED
  BY <1>1, <1>2, <1>3, <1>4, <1>5, <1>6, <1>7, RecordStep

LEMMA VoucherStart == Init => Voucher!VoucherInit
<1> SUFFICES ASSUME Init PROVE Voucher!VoucherInit
  OBVIOUS
<1>1. /\ ch.spent = 0 /\ ch.highest \in Nat
      /\ ch.reservations = [s \in Streams |-> NoReservation]
      /\ \A s \in Streams : streams[s].committed = 0
  BY AmountTypes DEF Init
<1>2. \A s \in Streams : Held[s] = 0
  BY <1>1 DEF Held, NoReservation
<1>3. Held = [s \in Streams |-> 0] /\ Earned = [s \in Streams |-> 0]
  BY <1>1, <1>2 DEF Held, Earned
<1> QED
  BY <1>1, <1>3 DEF Voucher!VoucherInit, Held, Earned

\* Any number of streams share a voucher as SharedVoucher says while the
\* servers' clocks agree: a stream is paid exactly what it had set aside, and
\* neither it nor another request uses what one of them holds (reserve,
\* commitReservedCharges, releaseReservedCharges, planDeduction).
THEOREM StreamsShareVoucher == Spec => SharesVoucher
<1>1. Init => (drift = 0 => Voucher!VoucherInit)
  BY VoucherStart
<1>2. Typed /\ [Next]_vars => [drift = 0 => [Voucher!VoucherNext]_(Voucher!voucher)]_vars
  BY VoucherStep
<1> QED
  BY <1>1, <1>2, TypedInit, TypedStep, PTL DEF Spec, SharesVoucher
-----------------------------------------------------------------------------
(* The charges of streams *)

\* What a call counts in a sum over the calls at some control points.
Counts(call, pcs) == IF call.pc \in pcs THEN call.amount ELSE 0

Tally(calls, pcs, s) == [j \in 1 .. MaxCharges |-> Counts(calls[<<s, j>>], pcs)]

Sum(calls, pcs, s) == SumFunctionOnSet(Tally(calls, pcs, s), 1 .. MaxCharges)

LEMMA TallyType ==
  ASSUME NEW calls \in [Charges -> ChargeCall], NEW pcs, NEW s \in Streams
  PROVE  /\ IsFiniteSet(1 .. MaxCharges) /\ Numbers(Tally(calls, pcs, s), 1 .. MaxCharges)
         /\ Sum(calls, pcs, s) \in Nat
<1>1. IsFiniteSet(1 .. MaxCharges)
  BY FS_Interval, MeteringConstants
<1>2. \A j \in 1 .. MaxCharges : <<s, j>> \in Charges
  BY DEF Charges
<1>3. Numbers(Tally(calls, pcs, s), 1 .. MaxCharges)
  BY <1>2 DEF Numbers, Tally, Counts, ChargeCall
<1> QED
  BY <1>1, <1>3, SumType DEF Sum

\* A step of one call moves the sums of its stream by what it counts.
LEMMA TallyChange ==
  ASSUME NEW calls \in [Charges -> ChargeCall], NEW c \in Charges, NEW call \in ChargeCall,
         NEW pcs, NEW new, new[c] = call, \A d \in Charges \ {c} : new[d] = calls[d]
  PROVE  /\ Sum(new, pcs, c[1]) + Counts(calls[c], pcs) =
              Sum(calls, pcs, c[1]) + Counts(call, pcs)
         /\ \A t \in Streams \ {c[1]} : Sum(new, pcs, t) = Sum(calls, pcs, t)
<1> DEFINE f == Tally(calls, pcs, c[1])
           g == Tally(new, pcs, c[1])
<1>1. c = <<c[1], c[2]>> /\ c[1] \in Streams /\ c[2] \in 1 .. MaxCharges
  BY DEF Charges
<1>2. \A t \in Streams, j \in 1 .. MaxCharges : <<t, j>> \in Charges
  BY DEF Charges
<1>3. new[c] = call /\ \A d \in Charges \ {c} : new[d] = calls[d]
  OBVIOUS
<1>4. f[c[2]] = Counts(calls[c], pcs) /\ g[c[2]] = Counts(call, pcs)
  BY <1>1, <1>3 DEF Tally
<1>5. \A j \in (1 .. MaxCharges) \ {c[2]} : g[j] = f[j]
  <2> SUFFICES ASSUME NEW j \in (1 .. MaxCharges) \ {c[2]} PROVE g[j] = f[j]
    OBVIOUS
  <2>1. <<c[1], j>> \in Charges \ {c}
    BY <1>1, <1>2
  <2> QED
    BY <1>3, <2>1 DEF Tally
<1>6. g[c[2]] \in Nat
  BY <1>4 DEF Counts, ChargeCall
<1>7. IsFiniteSet(1 .. MaxCharges) /\ Numbers(f, 1 .. MaxCharges)
  BY <1>1, TallyType
<1>8. Sum(new, pcs, c[1]) = SumFunctionOnSet(g, 1 .. MaxCharges)
      /\ Sum(calls, pcs, c[1]) = SumFunctionOnSet(f, 1 .. MaxCharges)
  BY DEF Sum
<1>9. ASSUME NEW t \in Streams \ {c[1]} PROVE Sum(new, pcs, t) = Sum(calls, pcs, t)
  <2>1. \A j \in 1 .. MaxCharges : new[<<t, j>>] = calls[<<t, j>>]
    <3> SUFFICES ASSUME NEW j \in 1 .. MaxCharges PROVE new[<<t, j>>] = calls[<<t, j>>]
      OBVIOUS
    <3>1. <<t, j>> \in Charges \ {c}
      BY <1>1, <1>2
    <3> QED
      BY <1>3, <3>1
  <2>2. Tally(new, pcs, t) = Tally(calls, pcs, t)
    BY <2>1 DEF Tally
  <2> QED
    BY <2>2 DEF Sum
<1> HIDE DEF f, g
<1>10. SumFunctionOnSet(g, 1 .. MaxCharges) + f[c[2]] =
         SumFunctionOnSet(f, 1 .. MaxCharges) + g[c[2]]
  <2> DEFINE k == c[2]
             S == 1 .. MaxCharges
  <2>1. k \in S /\ IsFiniteSet(S) /\ Numbers(f, S) /\ g[k] \in Nat
        /\ \A j \in S \ {k} : g[j] = f[j]
    BY <1>1, <1>5, <1>6, <1>7
  <2> HIDE DEF k, S
  <2>2. SumFunctionOnSet(g, S) + f[k] = SumFunctionOnSet(f, S) + g[k]
    BY <2>1, SumChange
  <2> QED
    BY <2>2 DEF k, S
<1> QED
  BY <1>4, <1>8, <1>9, <1>10

\* More control points count more.
LEMMA TallyMore ==
  ASSUME NEW calls \in [Charges -> ChargeCall], NEW pcs, NEW more, pcs \subseteq more,
         NEW s \in Streams
  PROVE  Sum(calls, pcs, s) <= Sum(calls, more, s)
<1>1. /\ IsFiniteSet(1 .. MaxCharges) /\ Numbers(Tally(calls, pcs, s), 1 .. MaxCharges)
      /\ Numbers(Tally(calls, more, s), 1 .. MaxCharges)
  BY TallyType
<1>2. \A j \in 1 .. MaxCharges : Tally(calls, pcs, s)[j] <= Tally(calls, more, s)[j]
  <2> SUFFICES ASSUME NEW j \in 1 .. MaxCharges
               PROVE  Counts(calls[<<s, j>>], pcs) <= Counts(calls[<<s, j>>], more)
    BY DEF Tally
  <2>1. calls[<<s, j>>].amount \in Nat
    BY DEF Charges, ChargeCall
  <2> QED
    BY <2>1 DEF Counts
<1> QED
  BY <1>1, <1>2, SumLeq DEF Sum

-----------------------------------------------------------------------------
\* A call that has not started has no amount.
Fresh == \A c \in Charges : charges[c].pc = "idle" => charges[c].amount = 0

\* The calls whose amount a reservation or a commit of the stream may hold.
Asked == {"idle", "reserved", "checking", "committing", "committed", "done", "failed"}

\* What a stream has committed or reserved, its calls have asked for.
AskedFor ==
    \A s \in Streams :
        streams[s].committed + ch.reservations[s].amount <= Sum(charges, Asked, s)

AskedInv == Typed /\ Fresh /\ AskedFor

\* A step of a call that leaves its amount, and gives its stream no more than
\* what the call comes to count.
LEMMA AskedByCall ==
  ASSUME AskedInv, Typed', NEW c \in Charges, NEW call \in ChargeCall,
         charges' = [charges EXCEPT ![c] = call],
         call.pc # "idle",
         streams'[c[1]].committed + ch'.reservations[c[1]].amount + Counts(charges[c], Asked)
           <= streams[c[1]].committed + ch.reservations[c[1]].amount + Counts(call, Asked),
         \A t \in Streams \ {c[1]} :
            streams'[t].committed + ch'.reservations[t].amount
              <= streams[t].committed + ch.reservations[t].amount
  PROVE  AskedInv'
<1>0. /\ charges \in [Charges -> ChargeCall] /\ c[1] \in Streams
      /\ charges' \in [Charges -> ChargeCall]
      /\ \A t \in Streams : /\ streams[t].committed \in Nat /\ ch.reservations[t].amount \in Nat
                            /\ streams'[t].committed \in Nat /\ ch'.reservations[t].amount \in Nat
  BY AmountTypes DEF AskedInv, Typed, TypeOK, Stream, Channel
<1>1. Fresh'
  BY <1>0 DEF AskedInv, Fresh
<1>2. /\ Sum(charges', Asked, c[1]) + Counts(charges[c], Asked) =
           Sum(charges, Asked, c[1]) + Counts(call, Asked)
      /\ \A t \in Streams \ {c[1]} : Sum(charges', Asked, t) = Sum(charges, Asked, t)
  <2>1. charges'[c] = call /\ \A d \in Charges \ {c} : charges'[d] = charges[d]
    BY <1>0
  <2> DEFINE calls == charges
             new == charges'
  <2>2. /\ calls \in [Charges -> ChargeCall] /\ new[c] = call
        /\ \A d \in Charges \ {c} : new[d] = calls[d]
    BY <1>0, <2>1
  <2> HIDE DEF calls, new
  <2>3. Sum(new, Asked, c[1]) + Counts(calls[c], Asked) =
           Sum(calls, Asked, c[1]) + Counts(call, Asked)
    BY <2>2, TallyChange
  <2>4. \A t \in Streams \ {c[1]} : Sum(new, Asked, t) = Sum(calls, Asked, t)
    BY <2>2, TallyChange
  <2> QED
    BY <2>3, <2>4 DEF calls, new
<1>3. \A t \in Streams : Sum(charges', Asked, t) \in Nat /\ Sum(charges, Asked, t) \in Nat
  BY <1>0, TallyType
<1>4. Counts(charges[c], Asked) \in Nat /\ Counts(call, Asked) \in Nat
  BY <1>0 DEF Counts, ChargeCall
<1>5. \A t \in Streams :
         streams[t].committed + ch.reservations[t].amount <= Sum(charges, Asked, t)
  BY DEF AskedInv, AskedFor
<1>6. ASSUME NEW t \in Streams
      PROVE  streams'[t].committed + ch'.reservations[t].amount <= Sum(charges', Asked, t)
  <2>1. CASE t = c[1]
    <3> DEFINE had == streams[t].committed + ch.reservations[t].amount
               has == streams'[t].committed + ch'.reservations[t].amount
    <3>1. had \in Nat /\ has \in Nat
      BY <1>0
    <3>2. has + Counts(charges[c], Asked) <= had + Counts(call, Asked)
      BY <2>1, <1>0, <1>4
    <3>3. had <= Sum(charges, Asked, t)
      BY <1>5
    <3>4. Sum(charges', Asked, t) + Counts(charges[c], Asked) =
            Sum(charges, Asked, t) + Counts(call, Asked)
      BY <2>1, <1>2
    <3>5. Sum(charges', Asked, t) \in Nat /\ Sum(charges, Asked, t) \in Nat
      BY <1>3
    <3> HIDE DEF had, has
    <3>6. has <= Sum(charges', Asked, t)
      BY <1>4, <3>1, <3>2, <3>3, <3>4, <3>5
    <3> QED
      BY <3>6 DEF has
  <2>2. CASE t # c[1]
    <3>1. Sum(charges', Asked, t) = Sum(charges, Asked, t)
      BY <2>2, <1>2
    <3>2. streams'[t].committed + ch'.reservations[t].amount
            <= streams[t].committed + ch.reservations[t].amount
      BY <2>2
    <3> QED
      BY <3>1, <3>2, <1>0, <1>3, <1>5
  <2> QED
    BY <2>1, <2>2
<1> QED
  BY <1>1, <1>6 DEF AskedInv, AskedFor

\* A step of a stream, or of the rest, gives no stream more than it has.
LEMMA AskedByStream ==
  ASSUME AskedInv, Typed', UNCHANGED charges,
         \A t \in Streams :
            streams'[t].committed + ch'.reservations[t].amount
              <= streams[t].committed + ch.reservations[t].amount
  PROVE  AskedInv'
<1>1. \A t \in Streams :
        /\ streams[t].committed \in Nat /\ ch.reservations[t].amount \in Nat
        /\ streams'[t].committed \in Nat /\ ch'.reservations[t].amount \in Nat
        /\ Sum(charges, Asked, t) \in Nat
        /\ streams[t].committed + ch.reservations[t].amount <= Sum(charges, Asked, t)
  BY TallyType DEF AskedInv, AskedFor, Typed, TypeOK, Stream, Channel
<1>2. AskedFor'
  <2> SUFFICES ASSUME NEW t \in Streams
               PROVE  streams'[t].committed + ch'.reservations[t].amount <= Sum(charges', Asked, t)
    BY DEF AskedFor
  <2>1. streams'[t].committed + ch'.reservations[t].amount
              <= streams[t].committed + ch.reservations[t].amount
    OBVIOUS
  <2> QED
    BY <1>1, <2>1
<1> QED
  BY <1>2 DEF AskedInv, Fresh

\* A call that moves on alone.
LEMMA AskedMoves ==
  ASSUME AskedInv, Typed', NEW c \in Charges, NEW pc,
         charges' = [charges EXCEPT ![c].pc = pc] \/
            (\E r \in Nat : charges' = [charges EXCEPT ![c].pc = pc, ![c].lastRequired = r]),
         pc \in {"waiting", "reserving", "checking", "committing", "committed", "done", "failed"},
         pc \in Asked \/ charges[c].pc \in {"started", "waiting", "reserving"},
         ch' = ch, \A t \in Streams : streams'[t].committed = streams[t].committed
  PROVE  AskedInv'
<1>0. /\ charges \in [Charges -> ChargeCall] /\ charges' \in [Charges -> ChargeCall]
      /\ c[1] \in Streams
      /\ \A t \in Streams : streams[t].committed \in Nat /\ ch.reservations[t].amount \in Nat
  BY AmountTypes DEF AskedInv, Typed, TypeOK, Stream, Channel
<1> DEFINE call == charges'[c]
<1>1. /\ call.pc = pc /\ call.amount = charges[c].amount /\ call \in ChargeCall
      /\ charges' = [charges EXCEPT ![c] = call]
  BY <1>0 DEF ChargeCall
<1> HIDE DEF call
<1>2. charges[c].amount \in Nat
  BY <1>0 DEF ChargeCall
<1>3. Counts(charges[c], Asked) <= Counts(call, Asked)
  BY <1>1, <1>2 DEF Counts, Asked
<1>4. Counts(charges[c], Asked) \in Nat /\ Counts(call, Asked) \in Nat
  BY <1>1, <1>2 DEF Counts
<1>5. streams'[c[1]].committed + ch'.reservations[c[1]].amount + Counts(charges[c], Asked)
           <= streams[c[1]].committed + ch.reservations[c[1]].amount + Counts(call, Asked)
  BY <1>0, <1>3, <1>4
<1>6. \A t \in Streams \ {c[1]} :
            streams'[t].committed + ch'.reservations[t].amount
              <= streams[t].committed + ch.reservations[t].amount
  BY <1>0
<1> QED
  BY <1>1, <1>5, <1>6, AskedByCall

LEMMA AskedCharge ==
  ASSUME AskedInv, Typed', NEW c \in Charges, ChargeStep(c)
  PROVE  AskedInv'
<1> DEFINE s == c[1]
<1>0. /\ s \in Streams /\ charges[c] \in ChargeCall /\ charges \in [Charges -> ChargeCall]
      /\ streams \in [Streams -> Stream] /\ ch \in Channel
      /\ \A t \in Streams : streams[t].committed \in Nat /\ ch.reservations[t].amount \in Nat
      /\ ch.reservations \in [Streams -> [amount : Nat, expiresAt : Nat]]
  BY AmountTypes DEF AskedInv, Typed, TypeOK, Stream, Channel
<1>1. CASE ChargePrepaid(c)
  <2>1. /\ charges' = [charges EXCEPT ![c].pc = "done"] /\ ch' = ch
        /\ \A t \in Streams : streams'[t].committed = streams[t].committed
    BY <1>0, <1>1 DEF ChargePrepaid, ToPc, Stream
  <2> QED
    BY <2>1, AskedMoves DEF Asked
<1>2. CASE ChargeStart(c)
  <2>1. PICK amount \in Amounts :
           charges' = [charges EXCEPT ![c] =
             [pc |-> "started", amount |-> amount,
              requireExisting |-> streams[s].pending, lastRequired |-> 0]]
    BY <1>2 DEF ChargeStart
  <2> DEFINE call == [pc |-> "started", amount |-> amount,
                      requireExisting |-> streams[s].pending, lastRequired |-> 0]
  <2>2. call \in ChargeCall /\ call.pc = "started"
    BY <1>0, AmountTypes DEF ChargeCall, Stream
  <2>3. charges' = [charges EXCEPT ![c] = call]
    BY <2>1
  <2> HIDE DEF call
  <2>4. Counts(charges[c], Asked) = 0 /\ Counts(call, Asked) = 0
    BY <1>2, <2>2 DEF Counts, Asked, AskedInv, Fresh, ChargeStart, MayStart
  <2>5. ch' = ch /\ streams' = streams
    BY <1>2 DEF ChargeStart
  <2>6. \A t \in Streams :
            streams'[t].committed + ch'.reservations[t].amount
              <= streams[t].committed + ch.reservations[t].amount
    BY <1>0, <2>5
  <2>7. streams'[s].committed + ch'.reservations[s].amount + Counts(charges[c], Asked)
            <= streams[s].committed + ch.reservations[s].amount + Counts(call, Asked)
    BY <1>0, <2>4, <2>5
  <2>8. call.pc # "idle"
    BY <2>2
  <2> QED
    BY <2>2, <2>3, <2>6, <2>7, <2>8, AskedByCall
<1>3. CASE BeforeChargeRejects(c)
  <2>1. charges' = [charges EXCEPT ![c].pc = "failed"] /\ ch' = ch /\ streams' = streams
    BY <1>3 DEF BeforeChargeRejects, ToPc
  <2> QED
    BY <2>1, AskedMoves DEF Asked
\* A call that waits for a voucher keeps its amount.
<1>4. ASSUME NEW now \in Clocks, WaitFor(c, RequiredFor(c, now)), ch' = ch, streams' = streams,
             charges[c].pc \in {"started", "waiting", "reserving"}
      PROVE  AskedInv'
  <2>1. RequiredFor(c, now) \in Nat
    BY <1>0, ClocksAre, ReservedType DEF RequiredFor, AskedInv, Typed, Channel, ChargeCall
  <2>2. charges' = [charges EXCEPT ![c].pc = "waiting", ![c].lastRequired = RequiredFor(c, now)]
    BY <1>4 DEF WaitFor
  <2> HIDE DEF RequiredFor
  <2> QED
    BY <1>4, <2>1, <2>2, AskedMoves DEF Asked
<1>5. CASE ReserveRead(c)
  <2>1. ch' = ch /\ streams' = streams /\ charges[c].pc \in {"started", "waiting"}
    BY <1>5 DEF ReserveRead
  <2>2. PICK now \in Clocks :
         \/ ToPc(c, "failed")
         \/ ToPc(c, "reserving")
         \/ WaitFor(c, RequiredFor(c, now))
    BY <1>5 DEF ReserveRead
  <2>3. CASE ToPc(c, "failed") \/ ToPc(c, "reserving")
    BY <2>1, <2>3, AskedMoves DEF ToPc, Asked
  <2> QED
    BY <1>4, <2>1, <2>2, <2>3
<1>6. CASE ReserveUpdate(c)
  <2>1. streams' = streams /\ charges[c].pc = "reserving"
    BY <1>6 DEF ReserveUpdate
  <2>2. PICK now \in Clocks :
         \/ ToPc(c, "failed") /\ UNCHANGED <<ch, asked>>
         \/ ch' = reserve(s, charges[c].amount, now) /\ ToPc(c, "reserved")
         \/ WaitFor(c, RequiredFor(c, now)) /\ UNCHANGED ch
    BY <1>6 DEF ReserveUpdate
  <2>3. CASE ToPc(c, "failed") /\ UNCHANGED <<ch, asked>>
    BY <2>1, <2>3, AskedMoves DEF ToPc, Asked
  <2>4. CASE ch' = reserve(s, charges[c].amount, now) /\ ToPc(c, "reserved")
    <3> DEFINE call == [charges[c] EXCEPT !.pc = "reserved"]
               amount == charges[c].amount
    <3>1. /\ call.pc = "reserved" /\ call.amount = amount /\ call \in ChargeCall
          /\ charges' = [charges EXCEPT ![c] = call] /\ amount \in Nat
      BY <1>0, <2>4 DEF ChargeCall, ToPc
    <3>2. now \in Nat
      BY ClocksAre DEF AskedInv
    <3>3. /\ ch'.reservations[s].amount = ch.reservations[s].amount + amount
          /\ \A t \in Streams \ {s} : ch'.reservations[t] \in {ch.reservations[t], NoReservation}
      <4>1. /\ ch'.reservations[s] = [amount |-> ch.reservations[s].amount + amount,
                                      expiresAt |-> now + Lease]
            /\ \A t \in Streams \ {s} : ch'.reservations[t] =
                  IF IsLive(t, now) THEN ch.reservations[t] ELSE NoReservation
        <5> HIDE DEF s, amount
        <5> QED
          BY <1>0, <2>4, <3>1, <3>2, ReserveRecord DEF amount
      <4> QED
        BY <4>1
    <3>4. \A t \in Streams \ {s} : ch'.reservations[t].amount <= ch.reservations[t].amount
      BY <1>0, <3>3 DEF NoReservation
    <3> HIDE DEF call, amount
    <3>5. Counts(charges[c], Asked) = 0 /\ Counts(call, Asked) = amount
      BY <2>1, <3>1 DEF Counts, Asked
    <3>6. streams'[s].committed + ch'.reservations[s].amount + Counts(charges[c], Asked)
            <= streams[s].committed + ch.reservations[s].amount + Counts(call, Asked)
      BY <1>0, <2>1, <3>1, <3>3, <3>5
    <3>7. \A t \in Streams \ {s} :
            streams'[t].committed + ch'.reservations[t].amount
              <= streams[t].committed + ch.reservations[t].amount
      <4>1. \A t \in Streams \ {s} : ch'.reservations[t].amount \in Nat
        BY <1>0, <3>3 DEF NoReservation
      <4> QED
        BY <1>0, <2>1, <3>4, <4>1
    <3>8. call.pc # "idle"
      BY <3>1
    <3> QED
      BY <3>1, <3>6, <3>7, <3>8, AskedByCall
  <2>5. CASE WaitFor(c, RequiredFor(c, now)) /\ UNCHANGED ch
    BY <1>4, <2>1, <2>5
  <2> QED
    BY <2>2, <2>3, <2>4, <2>5
<1>7. CASE Reserved(c) \/ CommitStart(c) \/ Committed(c)
  <2>1. PICK pc \in {"checking", "committing", "done", "failed"} :
           charges' = [charges EXCEPT ![c].pc = pc]
    BY <1>7 DEF Reserved, CommitStart, Committed, ToPc
  <2>2. ch' = ch /\ \A t \in Streams : streams'[t].committed = streams[t].committed
    BY <1>0, <1>7 DEF Reserved, CommitStart, Committed, notePending, Stream
  <2> QED
    BY <2>1, <2>2, AskedMoves DEF Asked
<1>8. CASE CommitUpdate(c)
  <2>1. charges[c].pc = "committing"
    BY <1>8 DEF CommitUpdate
  <2>2. CASE ToPc(c, "failed") /\ UNCHANGED <<ch, streams>>
    BY <2>2, AskedMoves DEF ToPc, Asked
  <2>3. CASE /\ ch' = commitReservedCharges(s)
             /\ streams' = [streams EXCEPT ![s].committed = @ + ch.reservations[s].amount]
             /\ ToPc(c, "committed")
    <3> DEFINE call == [charges[c] EXCEPT !.pc = "committed"]
    <3>1. /\ call.pc = "committed" /\ call.amount = charges[c].amount /\ call \in ChargeCall
          /\ charges' = [charges EXCEPT ![c] = call] /\ charges[c].amount \in Nat
      BY <1>0, <2>3 DEF ChargeCall, ToPc
    <3>2. ch'.reservations = [ch.reservations EXCEPT ![s] = NoReservation]
      BY <1>0, <2>3, CommitRecord
    <3>3. /\ ch'.reservations[s].amount = 0
          /\ \A t \in Streams \ {s} : ch'.reservations[t] = ch.reservations[t]
      BY <1>0, <3>2 DEF NoReservation
    <3>4. /\ streams'[s].committed = streams[s].committed + ch.reservations[s].amount
          /\ \A t \in Streams \ {s} : streams'[t].committed = streams[t].committed
      BY <1>0, <2>3 DEF Stream
    <3> HIDE DEF call
    <3>5. Counts(charges[c], Asked) = Counts(call, Asked) /\ Counts(call, Asked) \in Nat
      BY <2>1, <3>1 DEF Counts, Asked
    <3>6. streams'[s].committed + ch'.reservations[s].amount + Counts(charges[c], Asked)
            <= streams[s].committed + ch.reservations[s].amount + Counts(call, Asked)
      BY <1>0, <3>3, <3>4, <3>5
    <3>7. \A t \in Streams \ {s} :
            streams'[t].committed + ch'.reservations[t].amount
              <= streams[t].committed + ch.reservations[t].amount
      BY <1>0, <3>3, <3>4
    <3> QED
      BY <3>1, <3>6, <3>7, AskedByCall
  <2> QED
    BY <1>8, <2>2, <2>3 DEF CommitUpdate
<1> QED
  BY <1>1, <1>2, <1>3, <1>5, <1>6, <1>7, <1>8 DEF ChargeStep

LEMMA AskedStream ==
  ASSUME AskedInv, Typed', NEW s \in Streams, StreamStep(s)
  PROVE  AskedInv'
<1>0. /\ streams \in [Streams -> Stream] /\ ch \in Channel
      /\ \A t \in Streams : streams[t].committed \in Nat /\ ch.reservations[t].amount \in Nat
      /\ ch.reservations \in [Streams -> [amount : Nat, expiresAt : Nat]]
  BY DEF AskedInv, Typed, TypeOK, Stream, Channel
<1>1. charges' = charges
  BY DEF StreamStep, StreamEnd, PendingCommitStart, PendingCommitUpdate, PendingCommitted,
     StreamRelease, AbortRelease, Abort
<1>2. ASSUME ch' = ch \/ ch' = releaseReservedCharges(s),
             \A t \in Streams : streams'[t].committed = streams[t].committed
      PROVE  AskedInv'
  <2>1. \A t \in Streams : ch'.reservations[t] \in {ch.reservations[t], NoReservation}
    <3>1. CASE ch' = releaseReservedCharges(s)
      <4>1. ch'.reservations = [ch.reservations EXCEPT ![s] = NoReservation]
        BY <1>0, <3>1, ReleaseRecord
      <4> QED
        BY <1>0, <4>1
    <3> QED
      BY <1>2, <3>1
  <2>2. \A t \in Streams : /\ ch'.reservations[t].amount <= ch.reservations[t].amount
                           /\ ch'.reservations[t].amount \in Nat
    BY <1>0, <2>1 DEF NoReservation
  <2>3. \A t \in Streams :
            streams'[t].committed + ch'.reservations[t].amount
              <= streams[t].committed + ch.reservations[t].amount
    BY <1>0, <1>2, <2>2
  <2> QED
    BY <1>1, <2>3, AskedByStream
<1>3. CASE PendingCommitUpdate(s)
  <2>1. CASE /\ ch' = commitReservedCharges(s)
             /\ streams' = [streams EXCEPT ![s].phase = "committed",
                               ![s].committed = @ + ch.reservations[s].amount]
    <3>1. ch'.reservations = [ch.reservations EXCEPT ![s] = NoReservation]
      BY <1>0, <2>1, CommitRecord
    <3>2. /\ ch'.reservations[s].amount = 0
          /\ \A t \in Streams \ {s} : ch'.reservations[t] = ch.reservations[t]
      BY <1>0, <3>1 DEF NoReservation
    <3>3. /\ streams'[s].committed = streams[s].committed + ch.reservations[s].amount
          /\ \A t \in Streams \ {s} : streams'[t].committed = streams[t].committed
      BY <1>0, <2>1 DEF Stream
    <3>4. \A t \in Streams :
            streams'[t].committed + ch'.reservations[t].amount
              <= streams[t].committed + ch.reservations[t].amount
      BY <1>0, <3>2, <3>3
    <3> QED
      BY <1>1, <3>4, AskedByStream
  <2>2. CASE streams' = [streams EXCEPT ![s].phase = "releasing"] /\ UNCHANGED ch
    <3>1. \A t \in Streams : streams'[t].committed = streams[t].committed
      BY <1>0, <2>2 DEF Stream
    <3> QED
      BY <1>2, <2>2, <3>1
  <2> QED
    BY <1>3, <2>1, <2>2 DEF PendingCommitUpdate
<1>4. CASE ~PendingCommitUpdate(s)
  <2>1. ch' = ch \/ ch' = releaseReservedCharges(s)
    BY <1>4 DEF StreamStep, StreamEnd, PendingCommitStart, PendingCommitted,
       StreamRelease, AbortRelease, Abort
  <2>2. \A t \in Streams : streams'[t].committed = streams[t].committed
    <3>1. CASE StreamEnd(s) \/ PendingCommitStart(s) \/ StreamRelease(s)
      BY <1>0, <3>1 DEF StreamEnd, PendingCommitStart, StreamRelease, Stream
    <3>2. CASE PendingCommitted(s)
      <4>1. PICK phase \in {"running", "releasing"} :
               streams' = [streams EXCEPT ![s].phase = phase, ![s].pending = FALSE]
        BY <3>2 DEF PendingCommitted
      <4> QED
        BY <1>0, <4>1 DEF Stream
    <3>3. CASE AbortRelease(s)
      BY <1>0, <3>3 DEF AbortRelease, Stream
    <3>4. CASE Abort(s)
      <4>1. streams' = [streams EXCEPT ![s].aborted = TRUE, ![s].abortRelease = TRUE]
        BY <3>4 DEF Abort
      <4> QED
        BY <1>0, <4>1 DEF Stream
    <3> QED
      BY <1>4, <3>1, <3>2, <3>3, <3>4 DEF StreamStep
  <2> QED
    BY <1>2, <2>1, <2>2
<1> QED
  BY <1>3, <1>4

LEMMA AskedRest ==
  ASSUME AskedInv, Typed',
         ClientAnswers \/ OtherCharge \/ CloseChannel \/ Tick \/ UNCHANGED vars
  PROVE  AskedInv'
<1>1. streams' = streams /\ charges' = charges
  BY DEF ClientAnswers, OtherCharge, CloseChannel, Tick, vars
<1>2. ch'.reservations = ch.reservations
  BY DEF ClientAnswers, OtherCharge, CloseChannel, Tick, vars, AskedInv, Typed, TypeOK, Channel
<1>3. \A t \in Streams : streams[t].committed \in Nat /\ ch.reservations[t].amount \in Nat
  BY DEF AskedInv, Typed, TypeOK, Stream, Channel
<1> QED
  BY <1>1, <1>2, <1>3, AskedByStream

LEMMA AskedInit == Init => AskedInv
<1> SUFFICES ASSUME Init PROVE AskedInv
  OBVIOUS
<1>1. Typed
  BY TypedInit
<1>2. Fresh
  BY DEF Init, Fresh
<1>3. ASSUME NEW s \in Streams
      PROVE  streams[s].committed + ch.reservations[s].amount <= Sum(charges, Asked, s)
  <2>1. streams[s].committed = 0 /\ ch.reservations[s].amount = 0
    BY DEF Init, NoReservation
  <2>2. Sum(charges, Asked, s) \in Nat
    BY <1>1, TallyType DEF Typed, TypeOK
  <2> QED
    BY <2>1, <2>2
<1> QED
  BY <1>1, <1>2, <1>3 DEF AskedInv, AskedFor

\* A stream never commits more than its charges asked for, although charges
\* overlap, are repeated after a failure, merged into a pending reservation or
\* committed at the end of the stream.
THEOREM ChargesCommitOnce == Spec => []ChargedAtMostOnce
<1>1. AskedInv => ChargedAtMostOnce
  <2> SUFFICES ASSUME AskedInv, NEW s \in Streams
               PROVE  streams[s].committed <=
                        SumFunction([j \in 1 .. MaxCharges |-> charges[<<s, j>>].amount])
    BY DEF ChargedAtMostOnce
  <2> DEFINE f == [j \in 1 .. MaxCharges |-> charges[<<s, j>>].amount]
             g == Tally(charges, Asked, s)
  <2>1. /\ charges \in [Charges -> ChargeCall]
        /\ streams[s].committed \in Nat /\ ch.reservations[s].amount \in Nat
    BY DEF AskedInv, Typed, TypeOK, Stream, Channel
  <2>2. \A j \in 1 .. MaxCharges : charges[<<s, j>>].amount \in Nat
    BY <2>1 DEF Charges, ChargeCall
  <2>3. Numbers(f, 1 .. MaxCharges) /\ \A j \in 1 .. MaxCharges : g[j] <= f[j]
    BY <2>2 DEF Numbers, Tally, Counts
  <2>4. /\ IsFiniteSet(1 .. MaxCharges) /\ Numbers(g, 1 .. MaxCharges)
        /\ Sum(charges, Asked, s) \in Nat
    BY <2>1, TallyType
  <2>5. SumFunction(f) = SumFunctionOnSet(f, 1 .. MaxCharges)
    BY DEF SumFunction
  <2>6. streams[s].committed + ch.reservations[s].amount <= Sum(charges, Asked, s)
    BY DEF AskedInv, AskedFor
  <2> HIDE DEF f, g
  <2>7. SumFunctionOnSet(g, 1 .. MaxCharges) <= SumFunctionOnSet(f, 1 .. MaxCharges)
    BY <2>3, <2>4, SumLeq
  <2>8. SumFunctionOnSet(f, 1 .. MaxCharges) \in Nat
    BY <2>3, <2>4, SumType
  <2>9. Sum(charges, Asked, s) = SumFunctionOnSet(g, 1 .. MaxCharges)
    BY DEF Sum, g
  <2>10. streams[s].committed <= SumFunctionOnSet(f, 1 .. MaxCharges)
    BY <2>1, <2>4, <2>6, <2>7, <2>8, <2>9
  <2> QED
    BY <2>5, <2>10 DEF f
<1>2. AskedInv /\ [Next]_vars => AskedInv'
  <2> SUFFICES ASSUME AskedInv, [Next]_vars PROVE AskedInv'
    OBVIOUS
  <2>1. Typed'
    BY TypedStep DEF AskedInv
  <2> QED
    BY <2>1, AskedCharge, AskedStream, AskedRest DEF Next
<1> QED
  BY <1>1, <1>2, AskedInit, PTL DEF Spec

\* Streams whose generators await their charges.

\* A stream that has left its loop has no charge call in flight: every call it
\* awaited has resolved and no call starts any more.
CallsResolved ==
    \A c \in Charges :
        streams[c[1]].phase # "running" => charges[c].pc \in {"idle", "done", "failed"}

\* A call starts when the ones before it have resolved.
InTurn ==
    \A c, d \in Charges :
        c[1] = d[1] /\ c[2] < d[2] /\ charges[d].pc # "idle" =>
            charges[c].pc \in {"done", "failed"}

\* What a call reserved is pending, and still reserved or gone, until its
\* commit is answered.
PendingKnown ==
    \A c \in Charges : charges[c].pc = "checking" => streams[c[1]].pending

HeldByCall ==
    \A c \in Charges :
        charges[c].pc \in {"reserved", "checking", "committing"} =>
            \/ ch.reservations[c[1]] = NoReservation
            \/ charges[c].amount <= ch.reservations[c[1]].amount

Paid == {"committed", "done"}

PaidFor == \A s \in Streams : Sum(charges, Paid, s) <= streams[s].committed

AwaitInv ==
    /\ Typed /\ Fresh /\ CallsResolved /\ InTurn /\ NothingReservedWhenOver
    /\ PendingKnown /\ HeldByCall /\ PaidFor

LEMMA AwaitInit == Init => AwaitInv
<1> SUFFICES ASSUME Init PROVE AwaitInv
  OBVIOUS
<1>1. Typed /\ Fresh
  BY AskedInit DEF AskedInv
<1>2. \A c \in Charges : charges[c].pc = "idle"
  BY DEF Init
<1>3. \A s \in Streams : streams[s].phase = "running" /\ streams[s].committed = 0
  BY DEF Init
<1>4. CallsResolved /\ InTurn /\ PendingKnown /\ HeldByCall
  BY <1>2 DEF CallsResolved, InTurn, PendingKnown, HeldByCall
<1>5. NothingReservedWhenOver
  BY <1>3 DEF NothingReservedWhenOver
<1>6. ASSUME NEW s \in Streams PROVE Sum(charges, Paid, s) <= streams[s].committed
  <2>1. \A j \in 1 .. MaxCharges : Tally(charges, Paid, s)[j] = 0
    <3> SUFFICES ASSUME NEW j \in 1 .. MaxCharges PROVE Counts(charges[<<s, j>>], Paid) = 0
      BY DEF Tally
    <3>1. <<s, j>> \in Charges
      BY DEF Charges
    <3> QED
      BY <3>1, <1>2 DEF Counts, Paid
  <2>2. IsFiniteSet(1 .. MaxCharges)
    BY FS_Interval, MeteringConstants
  <2>3. Sum(charges, Paid, s) = 0
    BY <2>1, <2>2, SumZero DEF Sum
  <2> QED
    BY <2>3, <1>3
<1> QED
  BY <1>1, <1>4, <1>5, <1>6 DEF AwaitInv, PaidFor

\* What every step of a call leaves alone.
LEMMA CallFrame ==
  ASSUME Typed, NEW c \in Charges, ChargeStep(c)
  PROVE  /\ \A d \in Charges \ {c} : charges'[d] = charges[d]
         /\ charges'[c].pc # "idle"
         /\ charges[c].pc \notin {"done", "failed"}
         /\ charges[c].pc = "idle" => MayStart(c)
         /\ \A t \in Streams : streams'[t].phase = streams[t].phase
         /\ \A t \in Streams \ {c[1]} : streams'[t] = streams[t]
         /\ \A t \in Streams \ {c[1]} : ch'.reservations[t] \in {ch.reservations[t], NoReservation}
<1> DEFINE s == c[1]
<1>0. /\ s \in Streams /\ charges \in [Charges -> ChargeCall] /\ charges[c].amount \in Nat
      /\ streams \in [Streams -> Stream] /\ ch \in Channel
      /\ ch.reservations \in [Streams -> [amount : Nat, expiresAt : Nat]]
  BY AmountTypes DEF Typed, TypeOK, Channel, ChargeCall
<1>1. CASE ChargePrepaid(c)
  BY <1>0, <1>1 DEF ChargePrepaid, MayStart, ToPc, Stream, ChargeCall
<1>2. CASE ChargeStart(c)
  BY <1>0, <1>2 DEF ChargeStart, MayStart, ChargeCall
<1>3. CASE BeforeChargeRejects(c)
  <2>1. MayStart(c) \/ charges[c].pc = "checking"
    BY <1>3 DEF BeforeChargeRejects
  <2>2. charges[c].pc \in {"idle", "checking"}
    BY <2>1 DEF MayStart
  <2> QED
    BY <1>0, <1>3, <2>1, <2>2 DEF BeforeChargeRejects, ToPc, ChargeCall
<1>4. CASE ReserveRead(c)
  BY <1>0, <1>4 DEF ReserveRead, WaitFor, ToPc, ChargeCall
<1>5. CASE ReserveUpdate(c)
  <2>1. /\ charges[c].pc = "reserving" /\ streams' = streams
        /\ \E now \in Clocks :
              \/ ToPc(c, "failed") /\ ch' = ch
              \/ ch' = reserve(s, charges[c].amount, now) /\ ToPc(c, "reserved")
              \/ WaitFor(c, RequiredFor(c, now)) /\ ch' = ch
    BY <1>5 DEF ReserveUpdate
  <2> PICK now \in Clocks :
              \/ ToPc(c, "failed") /\ ch' = ch
              \/ ch' = reserve(s, charges[c].amount, now) /\ ToPc(c, "reserved")
              \/ WaitFor(c, RequiredFor(c, now)) /\ ch' = ch
    BY <2>1
  <2>2. \A d \in Charges \ {c} : charges'[d] = charges[d]
    BY <1>0 DEF ToPc, WaitFor
  <2>3. charges'[c].pc # "idle"
    BY <1>0 DEF ToPc, WaitFor, ChargeCall
  <2>4. now \in Nat
    BY ClocksAre
  <2>5. \A t \in Streams \ {s} : ch'.reservations[t] \in {ch.reservations[t], NoReservation}
    <3>1. CASE ch' = reserve(s, charges[c].amount, now)
      <4>1. /\ ch'.reservations[s] = [amount |-> ch.reservations[s].amount + charges[c].amount,
                                      expiresAt |-> now + Lease]
            /\ \A t \in Streams \ {s} : ch'.reservations[t] =
                  IF IsLive(t, now) THEN ch.reservations[t] ELSE NoReservation
        <5> DEFINE amount == charges[c].amount
        <5>1. amount \in Nat /\ ch' = reserve(s, amount, now)
          BY <1>0, <3>1
        <5> HIDE DEF s, amount
        <5> QED
          BY <1>0, <2>4, <5>1, ReserveRecord DEF amount
      <4> QED
        BY <4>1
    <3>2. CASE ch' = ch
      BY <3>2
    <3> QED
      BY <3>1, <3>2
  <2> QED
    BY <2>1, <2>2, <2>3, <2>5
<1>6. CASE Reserved(c)
  BY <1>0, <1>6 DEF Reserved, ToPc, notePending, Stream, ChargeCall
<1>7. CASE CommitStart(c)
  BY <1>0, <1>7 DEF CommitStart, ToPc, ChargeCall
<1>8. CASE CommitUpdate(c)
  <2>1. /\ charges[c].pc = "committing"
        /\ \/ /\ ch' = commitReservedCharges(s)
              /\ streams' = [streams EXCEPT ![s].committed = @ + ch.reservations[s].amount]
              /\ ToPc(c, "committed")
           \/ ToPc(c, "failed") /\ UNCHANGED <<ch, streams>>
    BY <1>8 DEF CommitUpdate
  <2>2. \A d \in Charges \ {c} : charges'[d] = charges[d]
    BY <1>0, <2>1 DEF ToPc
  <2>3. charges'[c].pc # "idle"
    BY <1>0, <2>1 DEF ToPc, ChargeCall
  <2>4. \A t \in Streams : streams'[t].phase = streams[t].phase /\ (t # s => streams'[t] = streams[t])
    BY <1>0, <2>1 DEF Stream
  <2>5. \A t \in Streams \ {s} : ch'.reservations[t] = ch.reservations[t]
    <3>1. CASE ch' = commitReservedCharges(s)
      <4>1. ch'.reservations = [ch.reservations EXCEPT ![s] = NoReservation]
        BY <1>0, <3>1, CommitRecord
      <4> QED
        BY <1>0, <4>1
    <3> QED
      BY <2>1, <3>1
  <2> QED
    BY <2>1, <2>2, <2>3, <2>4, <2>5
<1>9. CASE Committed(c)
  BY <1>0, <1>9 DEF Committed, ToPc, Stream, ChargeCall
<1> QED
  BY <1>1, <1>2, <1>3, <1>4, <1>5, <1>6, <1>7, <1>8, <1>9 DEF ChargeStep

\* A call steps only while its stream runs and no other call of it is in flight.
LEMMA CallAlone ==
  ASSUME Overlapping = {}, AwaitInv, NEW c \in Charges, ChargeStep(c)
  PROVE  /\ streams[c[1]].phase = "running"
         /\ \A d \in Charges \ {c} :
               d[1] = c[1] => charges[d].pc \in {"idle", "done", "failed"}
         /\ Fresh' /\ CallsResolved' /\ InTurn' /\ NothingReservedWhenOver'
<1>0. /\ Typed
      /\ \A d \in Charges \ {c} : charges'[d] = charges[d]
      /\ charges'[c].pc # "idle"
      /\ charges[c].pc \notin {"done", "failed"}
      /\ charges[c].pc = "idle" => MayStart(c)
      /\ \A t \in Streams : streams'[t].phase = streams[t].phase
      /\ \A t \in Streams \ {c[1]} : ch'.reservations[t] \in {ch.reservations[t], NoReservation}
  BY CallFrame DEF AwaitInv
<1>1. streams[c[1]].phase = "running"
  BY <1>0 DEF AwaitInv, CallsResolved, MayStart
<1>2. \A d \in Charges : /\ d = <<d[1], d[2]>> /\ d[1] \in Streams /\ d[2] \in Nat
                         /\ d[2] \in 1 .. MaxCharges
  BY MeteringConstants DEF Charges
<1>3. ASSUME NEW d \in Charges, d[1] = c[1], d[2] < c[2]
      PROVE  charges[d].pc \in {"done", "failed"}
  <2>1. CASE charges[c].pc # "idle"
    BY <1>3, <2>1 DEF AwaitInv, InTurn
  <2>2. CASE charges[c].pc = "idle"
    <3>1. \A e \in {<<c[1], j>> : j \in 1 .. c[2] - 1} : charges[e].pc \in {"done", "failed"}
      BY <1>0, <2>2 DEF MayStart
    <3>2. d[2] \in 1 .. c[2] - 1
      BY <1>2, <1>3, MeteringConstants
    <3>3. d \in {<<c[1], j>> : j \in 1 .. c[2] - 1}
      BY <1>2, <1>3, <3>2
    <3> QED
      BY <3>1, <3>3
  <2> QED
    BY <2>1, <2>2
<1>4. ASSUME NEW d \in Charges, d[1] = c[1], c[2] < d[2]
      PROVE  charges[d].pc = "idle"
  BY <1>0, <1>4 DEF AwaitInv, InTurn
<1>5. ASSUME NEW d \in Charges \ {c}, d[1] = c[1]
      PROVE  charges[d].pc \in {"idle", "done", "failed"}
  <2>1. d[2] # c[2]
    BY <1>2, <1>5
  <2>2. d[2] < c[2] \/ c[2] < d[2]
    BY <1>2, <2>1
  <2> QED
    BY <1>3, <1>4, <1>5, <2>2
<1>6. Fresh'
  BY <1>0 DEF AwaitInv, Fresh
<1>7. CallsResolved'
  <2> SUFFICES ASSUME NEW d \in Charges, streams'[d[1]].phase # "running"
               PROVE  charges'[d].pc \in {"idle", "done", "failed"}
    BY DEF CallsResolved
  <2>1. streams[d[1]].phase # "running"
    BY <1>0, <1>2
  <2>2. d # c
    BY <1>1, <2>1
  <2> QED
    BY <1>0, <2>1, <2>2 DEF AwaitInv, CallsResolved
<1>8. InTurn'
  <2> SUFFICES ASSUME NEW d \in Charges, NEW e \in Charges, d[1] = e[1], d[2] < e[2],
                      charges'[e].pc # "idle"
               PROVE  charges'[d].pc \in {"done", "failed"}
    BY DEF InTurn
  <2>1. CASE d = c
    <3>1. charges[e].pc = "idle" /\ e # c
      BY <2>1, <1>2, <1>4
    <3> QED
      BY <3>1, <1>0
  <2>2. CASE d # c
    <3>1. charges[d].pc \in {"done", "failed"}
      <4>1. CASE e = c
        BY <4>1, <1>3
      <4>2. CASE e # c
        BY <4>2, <1>0 DEF AwaitInv, InTurn
      <4> QED
        BY <4>1, <4>2
    <3> QED
      BY <2>2, <3>1, <1>0
  <2> QED
    BY <2>1, <2>2
<1>9. NothingReservedWhenOver'
  <2> SUFFICES ASSUME NEW t \in Streams, streams'[t].phase = "over"
               PROVE  ch'.reservations[t] = NoReservation
    BY DEF NothingReservedWhenOver
  <2>1. streams[t].phase = "over" /\ t # c[1]
    BY <1>0, <1>1
  <2> QED
    BY <1>0, <2>1 DEF AwaitInv, NothingReservedWhenOver
<1> QED
  BY <1>1, <1>5, <1>6, <1>7, <1>8, <1>9

\* A step of a call that comes to count no more than what it commits.
LEMMA PaidByCall ==
  ASSUME AwaitInv, Typed', NEW c \in Charges,
         \A d \in Charges \ {c} : charges'[d] = charges[d],
         Counts(charges'[c], Paid) + streams[c[1]].committed <=
            Counts(charges[c], Paid) + streams'[c[1]].committed,
         \A t \in Streams \ {c[1]} : streams'[t] = streams[t]
  PROVE  PaidFor'
<1>0. /\ charges \in [Charges -> ChargeCall] /\ c[1] \in Streams
      /\ charges' \in [Charges -> ChargeCall]
      /\ \A t \in Streams : streams[t].committed \in Nat /\ streams'[t].committed \in Nat
  BY AmountTypes DEF AwaitInv, Typed, TypeOK, Stream
<1> DEFINE calls == charges
           new == charges'
           call == charges'[c]
<1>1. /\ calls \in [Charges -> ChargeCall] /\ new[c] = call /\ call \in ChargeCall
      /\ \A d \in Charges \ {c} : new[d] = calls[d]
  BY <1>0
<1>2. Counts(calls[c], Paid) \in Nat /\ Counts(call, Paid) \in Nat
  BY <1>0 DEF Counts, ChargeCall
<1>3. \A t \in Streams : Sum(calls, Paid, t) \in Nat /\ Sum(new, Paid, t) \in Nat
  BY <1>0, TallyType
<1>4. \A t \in Streams : Sum(calls, Paid, t) <= streams[t].committed
  BY DEF AwaitInv, PaidFor
<1>5. Counts(call, Paid) + streams[c[1]].committed <=
            Counts(calls[c], Paid) + streams'[c[1]].committed
  OBVIOUS
<1> HIDE DEF calls, new, call
<1>6. /\ Sum(new, Paid, c[1]) + Counts(calls[c], Paid) =
           Sum(calls, Paid, c[1]) + Counts(call, Paid)
      /\ \A t \in Streams \ {c[1]} : Sum(new, Paid, t) = Sum(calls, Paid, t)
  BY <1>1, TallyChange
<1> SUFFICES ASSUME NEW t \in Streams PROVE Sum(new, Paid, t) <= streams'[t].committed
  BY DEF PaidFor, new
<1>8. CASE t = c[1]
  <2>1. Sum(calls, Paid, c[1]) <= streams[c[1]].committed
    BY <1>0, <1>4
  <2>2. /\ Sum(calls, Paid, c[1]) \in Nat /\ Sum(new, Paid, c[1]) \in Nat
        /\ streams[c[1]].committed \in Nat /\ streams'[c[1]].committed \in Nat
    BY <1>0, <1>3
  <2>3. Sum(new, Paid, c[1]) <= streams'[c[1]].committed
    BY <1>2, <1>5, <1>6, <2>1, <2>2
  <2> QED
    BY <1>8, <2>3
<1>9. CASE t # c[1]
  BY <1>9, <1>4, <1>6
<1> QED
  BY <1>8, <1>9

\* A step of a call keeps what was reserved and paid.
LEMMA AwaitCharge ==
  ASSUME Overlapping = {}, AwaitInv, Typed', NEW c \in Charges, ChargeStep(c)
  PROVE  AwaitInv'
<1> DEFINE s == c[1]
<1>0. /\ s \in Streams /\ charges \in [Charges -> ChargeCall] /\ charges[c].amount \in Nat
      /\ streams \in [Streams -> Stream] /\ ch \in Channel
      /\ \A t \in Streams : ch.reservations[t].amount \in Nat /\ streams[t].committed \in Nat
      /\ ch.reservations \in [Streams -> [amount : Nat, expiresAt : Nat]]
  BY AmountTypes DEF AwaitInv, Typed, TypeOK, Channel, ChargeCall, Stream
<1>1. /\ \A d \in Charges \ {c} : charges'[d] = charges[d]
      /\ \A t \in Streams \ {s} : streams'[t] = streams[t]
      /\ \A t \in Streams \ {s} : ch'.reservations[t] \in {ch.reservations[t], NoReservation}
  BY CallFrame DEF AwaitInv
<1>2. /\ \A d \in Charges \ {c} : d[1] = s => charges[d].pc \in {"idle", "done", "failed"}
      /\ Fresh' /\ CallsResolved' /\ InTurn' /\ NothingReservedWhenOver'
  BY CallAlone
<1>3. \A d \in Charges : d[1] \in Streams
  BY DEF Charges
\* The other calls of the stream hold and await nothing; those of other
\* streams keep what they have.
<1>4. ASSUME NEW d \in Charges \ {c}
      PROVE  /\ charges'[d].pc = "checking" => streams'[d[1]].pending
             /\ charges'[d].pc \in {"reserved", "checking", "committing"} =>
                   \/ ch'.reservations[d[1]] = NoReservation
                   \/ charges'[d].amount <= ch'.reservations[d[1]].amount
  <2>1. CASE d[1] = s
    BY <1>1, <1>2, <2>1
  <2>2. CASE d[1] # s
    <3>1. /\ charges'[d] = charges[d] /\ streams'[d[1]] = streams[d[1]]
          /\ ch'.reservations[d[1]] \in {ch.reservations[d[1]], NoReservation}
      BY <1>1, <1>3, <2>2
    <3> QED
      BY <3>1 DEF AwaitInv, PendingKnown, HeldByCall
  <2> QED
    BY <2>1, <2>2
<1>5. ASSUME charges'[c].pc = "checking" => streams'[s].pending,
             charges'[c].pc \in {"reserved", "checking", "committing"} =>
                \/ ch'.reservations[s] = NoReservation
                \/ charges'[c].amount <= ch'.reservations[s].amount,
             Counts(charges'[c], Paid) + streams[s].committed <=
                Counts(charges[c], Paid) + streams'[s].committed
      PROVE  AwaitInv'
  <2>1. PendingKnown' /\ HeldByCall'
    BY <1>4, <1>5 DEF PendingKnown, HeldByCall
  <2>2. PaidFor'
    BY <1>1, <1>5, PaidByCall
  <2> QED
    BY <1>2, <2>1, <2>2 DEF AwaitInv
\* A call that moves on without a commit, and has not resolved as paid.
<1>6. ASSUME NEW pc, charges'[c].pc = pc, pc \in {"started", "waiting", "reserving", "failed"},
             streams' = streams
      PROVE  AwaitInv'
  <2>1. Counts(charges'[c], Paid) = 0
    BY <1>6 DEF Counts, Paid
  <2>2. Counts(charges[c], Paid) \in Nat
    BY <1>0 DEF Counts
  <2>3. Counts(charges'[c], Paid) + streams[s].committed <=
          Counts(charges[c], Paid) + streams'[s].committed
    BY <1>0, <1>6, <2>1, <2>2
  <2> QED
    BY <1>5, <1>6, <2>3
\* The same, for a call whose amount and whose reservation stay.
<1>7. ASSUME charges'[c].amount = charges[c].amount,
             charges'[c].pc \in Paid => charges[c].pc \in Paid \/ charges[c].amount = 0,
             streams'[s].committed = streams[s].committed
      PROVE  Counts(charges'[c], Paid) + streams[s].committed <=
                Counts(charges[c], Paid) + streams'[s].committed
  <2>1. /\ Counts(charges'[c], Paid) \in Nat /\ Counts(charges[c], Paid) \in Nat
        /\ Counts(charges'[c], Paid) <= Counts(charges[c], Paid)
    BY <1>0, <1>7 DEF Counts
  <2> QED
    BY <1>0, <1>7, <2>1
<1>8. CASE ChargePrepaid(c)
  <2>1. charges'[c].pc = "done" /\ charges'[c].amount = charges[c].amount
    BY <1>0, <1>8 DEF ChargePrepaid, ToPc, ChargeCall
  <2>2. streams'[s].committed = streams[s].committed
    BY <1>0, <1>8 DEF ChargePrepaid, Stream
  <2>3. charges[c].amount = 0
    BY <1>8 DEF ChargePrepaid, MayStart, AwaitInv, Fresh
  <2> QED
    BY <1>5, <1>7, <2>1, <2>2, <2>3
<1>9. CASE ChargeStart(c)
  BY <1>0, <1>6, <1>9 DEF ChargeStart
<1>10. CASE BeforeChargeRejects(c)
  BY <1>0, <1>6, <1>10 DEF BeforeChargeRejects, ToPc, ChargeCall
<1>11. CASE ReserveRead(c)
  <2>1. charges'[c].pc \in {"failed", "reserving", "waiting"} /\ streams' = streams
    BY <1>0, <1>11 DEF ReserveRead, WaitFor, ToPc, ChargeCall
  <2> QED
    BY <1>6, <2>1
<1>12. CASE ReserveUpdate(c)
  <2>1. PICK now \in Clocks :
              \/ ToPc(c, "failed")
              \/ ch' = reserve(s, charges[c].amount, now) /\ ToPc(c, "reserved")
              \/ WaitFor(c, RequiredFor(c, now))
    BY <1>12 DEF ReserveUpdate
  <2>2. streams' = streams
    BY <1>12 DEF ReserveUpdate
  <2>3. CASE ToPc(c, "failed") \/ WaitFor(c, RequiredFor(c, now))
    <3>1. charges'[c].pc \in {"failed", "waiting"}
      BY <1>0, <2>3 DEF ToPc, WaitFor, ChargeCall
    <3> QED
      BY <1>6, <2>2, <3>1
  <2>4. CASE ch' = reserve(s, charges[c].amount, now) /\ ToPc(c, "reserved")
    <3>1. charges'[c].pc = "reserved" /\ charges'[c].amount = charges[c].amount
      BY <1>0, <2>4 DEF ToPc, ChargeCall
    <3>2. now \in Nat
      BY ClocksAre DEF AwaitInv
    <3>3. /\ ch'.reservations[s] = [amount |-> ch.reservations[s].amount + charges[c].amount,
                                    expiresAt |-> now + Lease]
          /\ \A t \in Streams \ {s} : ch'.reservations[t] =
                IF IsLive(t, now) THEN ch.reservations[t] ELSE NoReservation
      <4> DEFINE amount == charges[c].amount
      <4>1. amount \in Nat /\ ch' = reserve(s, amount, now)
        BY <1>0, <2>4
      <4> HIDE DEF s, amount
      <4> QED
        BY <1>0, <3>2, <4>1, ReserveRecord DEF amount
    <3>4. charges'[c].amount <= ch'.reservations[s].amount
      BY <1>0, <3>1, <3>3
    <3>5. charges'[c].pc \notin Paid
      BY <3>1 DEF Paid
    <3>6. Counts(charges'[c], Paid) + streams[s].committed <=
            Counts(charges[c], Paid) + streams'[s].committed
      BY <1>7, <2>2, <3>1, <3>5
    <3> QED
      BY <1>5, <3>1, <3>4, <3>6
  <2> QED
    BY <2>1, <2>3, <2>4
<1>13. CASE Reserved(c)
  <2>1. /\ charges[c].pc = "reserved" /\ ch' = ch
        /\ charges'[c].pc = "checking" /\ charges'[c].amount = charges[c].amount
    BY <1>0, <1>13 DEF Reserved, ToPc, ChargeCall
  <2>2. streams'[s].pending /\ streams'[s].committed = streams[s].committed
    BY <1>0, <1>13 DEF Reserved, notePending, Stream
  <2>3. \/ ch'.reservations[s] = NoReservation
        \/ charges'[c].amount <= ch'.reservations[s].amount
    BY <2>1 DEF AwaitInv, HeldByCall
  <2>4. charges'[c].pc \notin Paid
    BY <2>1 DEF Paid
  <2>5. Counts(charges'[c], Paid) + streams[s].committed <=
            Counts(charges[c], Paid) + streams'[s].committed
    BY <1>7, <2>1, <2>2, <2>4
  <2> QED
    BY <1>5, <2>2, <2>3, <2>5
\* The reservation is pending, so the call does not resolve without a commit.
<1>14. CASE CommitStart(c)
  <2>1. charges[c].pc = "checking" /\ streams[s].pending
    BY <1>14 DEF CommitStart, AwaitInv, PendingKnown
  <2>2. /\ charges'[c].pc \in {"failed", "committing"} /\ charges'[c].amount = charges[c].amount
        /\ ch' = ch /\ streams' = streams
    BY <1>0, <1>14, <2>1 DEF CommitStart, ToPc, ChargeCall
  <2>3. \/ ch'.reservations[s] = NoReservation
        \/ charges'[c].amount <= ch'.reservations[s].amount
    BY <2>1, <2>2 DEF AwaitInv, HeldByCall
  <2>4. charges'[c].pc \notin Paid
    BY <2>2 DEF Paid
  <2>5. Counts(charges'[c], Paid) + streams[s].committed <=
            Counts(charges[c], Paid) + streams'[s].committed
    BY <1>7, <2>2, <2>4
  <2> QED
    BY <1>5, <2>2, <2>3, <2>5
<1>15. CASE CommitUpdate(c)
  <2>1. charges[c].pc = "committing"
    BY <1>15 DEF CommitUpdate
  <2>2. CASE ToPc(c, "failed") /\ UNCHANGED <<ch, streams>>
    <3>1. charges'[c].pc = "failed"
      BY <1>0, <2>2 DEF ToPc, ChargeCall
    <3> QED
      BY <1>6, <2>2, <3>1
  <2>3. CASE /\ ch.reservations[s] # NoReservation
             /\ ch' = commitReservedCharges(s)
             /\ streams' = [streams EXCEPT ![s].committed = @ + ch.reservations[s].amount]
             /\ ToPc(c, "committed")
    <3>1. charges'[c].pc = "committed" /\ charges'[c].amount = charges[c].amount
      BY <1>0, <2>3 DEF ToPc, ChargeCall
    <3>2. streams'[s].committed = streams[s].committed + ch.reservations[s].amount
      BY <1>0, <2>3 DEF Stream
    <3>3. charges[c].amount <= ch.reservations[s].amount
      BY <2>1, <2>3 DEF AwaitInv, HeldByCall
    <3>4. Counts(charges'[c], Paid) = charges[c].amount /\ Counts(charges[c], Paid) = 0
      BY <2>1, <3>1 DEF Counts, Paid
    <3>5. Counts(charges'[c], Paid) + streams[s].committed <=
            Counts(charges[c], Paid) + streams'[s].committed
      BY <1>0, <3>2, <3>3, <3>4
    <3> QED
      BY <1>5, <3>1, <3>5
  <2> QED
    BY <1>15, <2>2, <2>3 DEF CommitUpdate, CanCommit
<1>16. CASE Committed(c)
  <2>1. /\ charges[c].pc = "committed"
        /\ charges'[c].pc \in {"failed", "done"} /\ charges'[c].amount = charges[c].amount
    BY <1>0, <1>16 DEF Committed, ToPc, ChargeCall
  <2>2. streams'[s].committed = streams[s].committed
    BY <1>0, <1>16 DEF Committed, Stream
  <2>3. charges[c].pc \in Paid
    BY <2>1 DEF Paid
  <2>4. Counts(charges'[c], Paid) + streams[s].committed <=
            Counts(charges[c], Paid) + streams'[s].committed
    BY <1>7, <2>1, <2>2, <2>3
  <2> QED
    BY <1>5, <2>1, <2>4
<1> QED
  BY <1>8, <1>9, <1>10, <1>11, <1>12, <1>13, <1>14, <1>15, <1>16 DEF ChargeStep

\* What every step of a stream leaves alone.
LEMMA StreamFrame ==
  ASSUME Typed, NEW s \in Streams, StreamStep(s)
  PROVE  /\ charges' = charges
         /\ \A t \in Streams \ {s} : streams'[t] = streams[t]
         /\ \A t \in Streams : ch'.reservations[t] \in {ch.reservations[t], NoReservation}
         /\ streams'[s].committed >= streams[s].committed
         /\ streams'[s].phase # "running" => streams[s].phase # "running" \/ Resolved(s)
         /\ streams'[s].pending = streams[s].pending \/ streams[s].phase # "running"
         /\ streams'[s].phase = "over" =>
               streams[s].phase = "over" \/ ch'.reservations[s] = NoReservation
<1>0. /\ streams \in [Streams -> Stream] /\ ch \in Channel
      /\ streams[s].committed \in Nat /\ ch.reservations[s].amount \in Nat
      /\ ch.reservations \in [Streams -> [amount : Nat, expiresAt : Nat]]
  BY DEF Typed, TypeOK, Channel, Stream
<1>1. charges' = charges
  BY DEF StreamStep, StreamEnd, PendingCommitStart, PendingCommitUpdate, PendingCommitted,
     StreamRelease, AbortRelease, Abort
<1>2. ASSUME ch' = releaseReservedCharges(s)
      PROVE  /\ ch'.reservations[s] = NoReservation
             /\ \A t \in Streams \ {s} : ch'.reservations[t] = ch.reservations[t]
  <2>1. ch'.reservations = [ch.reservations EXCEPT ![s] = NoReservation]
    BY <1>0, <1>2, ReleaseRecord
  <2> QED
    BY <1>0, <2>1
<1>3. CASE StreamEnd(s)
  BY <1>0, <1>1, <1>3 DEF StreamEnd, Stream
<1>4. CASE PendingCommitStart(s)
  <2>1. /\ streams[s].phase = "running" /\ Resolved(s) /\ ch' = ch
        /\ streams' = [streams EXCEPT ![s].phase = "committing"]
    BY <1>4 DEF PendingCommitStart
  <2>2. /\ \A t \in Streams \ {s} : streams'[t] = streams[t]
        /\ streams'[s].committed = streams[s].committed
        /\ streams'[s].pending = streams[s].pending
        /\ streams'[s].phase = "committing"
    BY <1>0, <2>1 DEF Stream
  <2> QED
    BY <1>0, <1>1, <2>1, <2>2
<1>5. CASE PendingCommitUpdate(s)
  <2>1. streams[s].phase = "committing"
    BY <1>5 DEF PendingCommitUpdate
  <2>2. CASE /\ ch' = commitReservedCharges(s)
             /\ streams' = [streams EXCEPT ![s].phase = "committed",
                               ![s].committed = @ + ch.reservations[s].amount]
    <3>1. ch'.reservations = [ch.reservations EXCEPT ![s] = NoReservation]
      BY <1>0, <2>2, CommitRecord
    <3>2. \A t \in Streams : ch'.reservations[t] \in {ch.reservations[t], NoReservation}
      BY <1>0, <3>1
    <3>3. /\ \A t \in Streams \ {s} : streams'[t] = streams[t]
          /\ streams'[s].committed = streams[s].committed + ch.reservations[s].amount
          /\ streams'[s].phase = "committed"
      BY <1>0, <2>2 DEF Stream
    <3>4. streams'[s].committed >= streams[s].committed
      BY <1>0, <3>3
    <3> QED
      BY <1>1, <2>1, <3>2, <3>3, <3>4
  <2>3. CASE streams' = [streams EXCEPT ![s].phase = "releasing"] /\ UNCHANGED ch
    BY <1>0, <1>1, <2>1, <2>3 DEF Stream
  <2> QED
    BY <1>5, <2>2, <2>3 DEF PendingCommitUpdate
<1>6. CASE PendingCommitted(s)
  <2>1. PICK phase \in {"running", "releasing"} :
           streams' = [streams EXCEPT ![s].phase = phase, ![s].pending = FALSE]
    BY <1>6 DEF PendingCommitted
  <2>2. streams[s].phase = "committed" /\ ch' = ch
    BY <1>6 DEF PendingCommitted
  <2>3. /\ \A t \in Streams \ {s} : streams'[t] = streams[t]
        /\ streams'[s].committed = streams[s].committed
        /\ streams'[s].phase = phase
    BY <1>0, <2>1 DEF Stream
  <2> QED
    BY <1>0, <1>1, <2>2, <2>3
<1>7. CASE StreamRelease(s)
  <2>1. /\ streams[s].phase = "releasing"
        /\ \A t \in Streams \ {s} : streams'[t] = streams[t]
        /\ streams'[s].committed = streams[s].committed
    BY <1>0, <1>7 DEF StreamRelease, Stream
  <2>2. ch' = releaseReservedCharges(s)
    BY <1>7 DEF StreamRelease
  <2> QED
    BY <1>0, <1>1, <1>2, <2>1, <2>2
<1>8. CASE AbortRelease(s)
  <2>1. /\ \A t \in Streams \ {s} : streams'[t] = streams[t]
        /\ streams'[s].committed = streams[s].committed
        /\ streams'[s].phase = streams[s].phase
        /\ streams'[s].pending = streams[s].pending
    BY <1>0, <1>8 DEF AbortRelease, Stream
  <2>2. ch' = releaseReservedCharges(s)
    BY <1>8 DEF AbortRelease
  <2> QED
    BY <1>0, <1>1, <1>2, <2>1, <2>2
<1>9. CASE Abort(s)
  <2>1. streams' = [streams EXCEPT ![s].aborted = TRUE, ![s].abortRelease = TRUE] /\ ch' = ch
    BY <1>9 DEF Abort
  <2>2. /\ \A t \in Streams \ {s} : streams'[t] = streams[t]
        /\ streams'[s].committed = streams[s].committed
        /\ streams'[s].phase = streams[s].phase
        /\ streams'[s].pending = streams[s].pending
    BY <1>0, <2>1 DEF Stream
  <2> QED
    BY <1>0, <1>1, <2>1, <2>2
<1> QED
  BY <1>3, <1>4, <1>5, <1>6, <1>7, <1>8, <1>9 DEF StreamStep

LEMMA AwaitStream ==
  ASSUME Overlapping = {}, AwaitInv, Typed', NEW s \in Streams, StreamStep(s)
  PROVE  AwaitInv'
<1>1. /\ charges' = charges
      /\ \A t \in Streams \ {s} : streams'[t] = streams[t]
      /\ \A t \in Streams : ch'.reservations[t] \in {ch.reservations[t], NoReservation}
      /\ streams'[s].committed >= streams[s].committed
      /\ streams'[s].phase # "running" => streams[s].phase # "running" \/ Resolved(s)
      /\ streams'[s].pending = streams[s].pending \/ streams[s].phase # "running"
      /\ streams'[s].phase = "over" =>
            streams[s].phase = "over" \/ ch'.reservations[s] = NoReservation
  BY StreamFrame DEF AwaitInv
<1>2. \A d \in Charges : d = <<d[1], d[2]>> /\ d[1] \in Streams /\ d[2] \in 1 .. MaxCharges
  BY DEF Charges
<1>3. \A t \in Streams : /\ Sum(charges, Paid, t) \in Nat /\ streams[t].committed \in Nat
                          /\ streams'[t].committed \in Nat
  BY TallyType DEF AwaitInv, Typed, TypeOK, Stream
<1>4. Fresh' /\ InTurn'
  BY <1>1 DEF AwaitInv, Fresh, InTurn
<1>5. CallsResolved'
  <2> SUFFICES ASSUME NEW d \in Charges, streams'[d[1]].phase # "running"
               PROVE  charges[d].pc \in {"idle", "done", "failed"}
    BY <1>1 DEF CallsResolved
  <2>1. CASE streams[d[1]].phase # "running"
    BY <2>1 DEF AwaitInv, CallsResolved
  <2>2. CASE d[1] = s /\ Resolved(s)
    BY <1>2, <2>2 DEF Resolved
  <2> QED
    BY <1>1, <1>2, <2>1, <2>2
<1>6. NothingReservedWhenOver'
  <2> SUFFICES ASSUME NEW t \in Streams, streams'[t].phase = "over"
               PROVE  ch'.reservations[t] = NoReservation
    BY DEF NothingReservedWhenOver
  <2> QED
    BY <1>1 DEF AwaitInv, NothingReservedWhenOver
<1>7. PendingKnown'
  <2> SUFFICES ASSUME NEW d \in Charges, charges[d].pc = "checking"
               PROVE  streams'[d[1]].pending
    BY <1>1 DEF PendingKnown
  <2>1. streams[d[1]].pending /\ streams[d[1]].phase = "running"
    BY DEF AwaitInv, PendingKnown, CallsResolved
  <2> QED
    BY <1>1, <1>2, <2>1
<1>8. HeldByCall'
  <2> SUFFICES ASSUME NEW d \in Charges,
                      charges[d].pc \in {"reserved", "checking", "committing"}
               PROVE  \/ ch'.reservations[d[1]] = NoReservation
                      \/ charges[d].amount <= ch'.reservations[d[1]].amount
    BY <1>1 DEF HeldByCall
  <2> QED
    BY <1>1, <1>2 DEF AwaitInv, HeldByCall
<1>9. PaidFor'
  <2> SUFFICES ASSUME NEW t \in Streams PROVE Sum(charges, Paid, t) <= streams'[t].committed
    BY <1>1 DEF PaidFor
  <2>1. Sum(charges, Paid, t) <= streams[t].committed
    BY DEF AwaitInv, PaidFor
  <2>2. streams'[t].committed >= streams[t].committed
    BY <1>1, <1>3
  <2> QED
    BY <1>3, <2>1, <2>2
<1> QED
  BY <1>4, <1>5, <1>6, <1>7, <1>8, <1>9 DEF AwaitInv

LEMMA AwaitRest ==
  ASSUME AwaitInv, Typed',
         ClientAnswers \/ OtherCharge \/ CloseChannel \/ Tick \/ UNCHANGED vars
  PROVE  AwaitInv'
<1>1. streams' = streams /\ charges' = charges
  BY DEF ClientAnswers, OtherCharge, CloseChannel, Tick, vars
<1>2. ch'.reservations = ch.reservations
  BY DEF ClientAnswers, OtherCharge, CloseChannel, Tick, vars, AwaitInv, Typed, TypeOK, Channel
<1>3. Fresh' /\ InTurn' /\ CallsResolved' /\ PendingKnown'
  BY <1>1 DEF AwaitInv, Fresh, InTurn, CallsResolved, PendingKnown
<1>4. NothingReservedWhenOver' /\ HeldByCall'
  BY <1>1, <1>2 DEF AwaitInv, NothingReservedWhenOver, HeldByCall
<1>5. PaidFor'
  BY <1>1 DEF AwaitInv, PaidFor
<1> QED
  BY <1>3, <1>4, <1>5 DEF AwaitInv

LEMMA AwaitStep == Overlapping = {} /\ AwaitInv /\ [Next]_vars => AwaitInv'
<1> SUFFICES ASSUME Overlapping = {}, AwaitInv, [Next]_vars PROVE AwaitInv'
  OBVIOUS
<1>1. Typed'
  BY TypedStep DEF AwaitInv
<1> QED
  BY <1>1, AwaitCharge, AwaitStream, AwaitRest DEF Next

\* Where generators await their charges, what the resolved charges of a stream
\* cost has been committed: a reservation released or expired under a charge, by
\* an abort, another server's clock or the end of the stream, makes it fail.
THEOREM ResolvedCharges ==
  ASSUME Overlapping = {}
  PROVE  Spec => []ResolvedIsCharged
<1>1. AwaitInv => ResolvedIsCharged
  <2> SUFFICES ASSUME AwaitInv, NEW s \in Streams
               PROVE  SumFunction([j \in 1 .. MaxCharges |->
                         IF charges[<<s, j>>].pc = "done" THEN charges[<<s, j>>].amount ELSE 0])
                        <= streams[s].committed
    BY DEF ResolvedIsCharged
  <2> DEFINE f == [j \in 1 .. MaxCharges |->
                      IF charges[<<s, j>>].pc = "done" THEN charges[<<s, j>>].amount ELSE 0]
             g == Tally(charges, {"done"}, s)
  <2>1. charges \in [Charges -> ChargeCall] /\ streams[s].committed \in Nat
    BY DEF AwaitInv, Typed, TypeOK, Stream
  <2>2. f = g
    <3>1. \A j \in 1 .. MaxCharges : Counts(charges[<<s, j>>], {"done"}) =
             IF charges[<<s, j>>].pc = "done" THEN charges[<<s, j>>].amount ELSE 0
      BY DEF Counts
    <3> QED
      BY <3>1 DEF Tally
  <2>3. SumFunction(f) = SumFunctionOnSet(f, 1 .. MaxCharges)
    BY DEF SumFunction
  <2>4. Sum(charges, {"done"}, s) = SumFunctionOnSet(g, 1 .. MaxCharges)
    BY DEF Sum
  <2> HIDE DEF f, g
  <2>5. {"done"} \subseteq Paid
    BY DEF Paid
  <2>6. Sum(charges, {"done"}, s) <= Sum(charges, Paid, s)
    BY <2>1, <2>5, TallyMore
  <2>7. Sum(charges, {"done"}, s) \in Nat /\ Sum(charges, Paid, s) \in Nat
    BY <2>1, TallyType
  <2>8. Sum(charges, Paid, s) <= streams[s].committed
    BY DEF AwaitInv, PaidFor
  <2>9. SumFunction(f) <= streams[s].committed
    BY <2>1, <2>2, <2>3, <2>4, <2>6, <2>7, <2>8
  <2> QED
    BY <2>9 DEF f
<1> QED
  BY <1>1, AwaitInit, AwaitStep, PTL DEF Spec

\* A stream that is over keeps no part of the voucher, where generators await
\* their charges.
THEOREM NothingLeftReserved ==
  ASSUME Overlapping = {}
  PROVE  Spec => []NothingReservedWhenOver
<1>1. AwaitInv => NothingReservedWhenOver
  BY DEF AwaitInv
<1> QED
  BY <1>1, AwaitInit, AwaitStep, PTL DEF Spec
-----------------------------------------------------------------------------
(* Stores *)

CallRecord == [pc: StorePcs, at: Nat, raw: Stored, attempt: Nat, started: Nat,
               sent: BOOLEAN, result: Answers]

CallShape(c) ==
    /\ storeCalls[c].at <= time
    /\ Pc(c, "sending") => storeCalls[c].sent
    /\ storeCalls[c].sent => storeCalls[c].pc \in {"sending", "failed"}
    /\ storeCalls[c].sent /\ Request[c].op = "update" => ~Settled(c)
    /\ storeCalls[c].pc \in {"reading", "read", "conflict"} => Request[c].op = "update"
    /\ storeCalls[c].attempt < MaxAttempts \/ Pc(c, "failed")

\* What the refinement needs of the types.
StoreShape ==
    /\ database \in BOOLEAN
    /\ time \in Nat
    /\ cell \in Stored
    /\ writes \in Nat
    /\ DOMAIN storeCalls = StoreCalls
    /\ storeCalls = [c \in StoreCalls |-> storeCalls[c]]
    /\ \A c \in StoreCalls :
        /\ DOMAIN storeCalls[c] = {"pc", "at", "raw", "attempt", "started", "sent", "result"}
        /\ storeCalls[c].pc \in StorePcs
        /\ storeCalls[c].at \in Nat
        /\ storeCalls[c].raw \in Stored
        /\ storeCalls[c].attempt \in Nat
        /\ storeCalls[c].started \in Nat
        /\ storeCalls[c].sent \in BOOLEAN

StoreInv == StoreShape /\ \A c \in StoreCalls : CallShape(c)

LEMMA StoreInvInit == StoreInit => StoreInv
<1> SUFFICES ASSUME StoreInit PROVE StoreInv
  OBVIOUS
<1>1. MaxAttempts \in Nat /\ 0 < MaxAttempts
  BY StoreAssumption
<1>2. StoreShape
  BY DEF StoreInit, StoreShape, Stored, StorePcs
<1>3. ASSUME NEW c \in StoreCalls PROVE CallShape(c)
  <2>1. /\ storeCalls[c].pc = "idle" /\ ~storeCalls[c].sent
        /\ storeCalls[c].attempt = 0 /\ storeCalls[c].at = 0 /\ time = 0
    BY DEF StoreInit
  <2> QED
    BY <2>1, <1>1 DEF CallShape, Pc
<1> QED
  BY <1>2, <1>3 DEF StoreInv

LEMMA EffectStored ==
    ASSUME NEW c \in StoreCalls, NEW v \in Stored, NEW t
    PROVE  Effect(c, v, t).value \in Stored
BY RequestAssumption DEF Effect, KeptMarker, Stored, IsUpdate, Markers

\* A step of one caller leaves the others as they are.
LEMMA OneCall ==
    ASSUME StoreShape, NEW c \in StoreCalls, NEW call, Update(c, call)
    PROVE  /\ DOMAIN storeCalls' = StoreCalls
           /\ storeCalls' = [d \in StoreCalls |-> storeCalls'[d]]
           /\ storeCalls'[c] = call
           /\ \A d \in StoreCalls \ {c} : storeCalls'[d] = storeCalls[d]
BY DEF StoreShape, Update

LEMMA StoreInvStep == StoreInv /\ [StoreNext]_storeVars => StoreInv'
<1> SUFFICES ASSUME StoreInv, [StoreNext]_storeVars PROVE StoreInv'
  OBVIOUS
<1> USE DEF StoreInv
<1>1. ASSUME NEW c \in StoreCalls, StoreStep(c) PROVE StoreInv'
  <2>0. /\ StoreShape /\ CallShape(c) /\ MaxAttempts \in Nat
        /\ time' = time /\ database' = database
    BY <1>1, StoreAssumption
    DEF StoreStep, Call, Read, Decide, Receive, Retry, Answer, Disconnect
  <2>1. cell' \in Stored /\ writes' \in Nat
    BY <1>1, EffectStored
    DEF StoreShape, StoreStep, Call, Read, Decide, Receive, Retry, Answer, Disconnect, Taken
  <2>2. PICK call : Update(c, call)
    BY <1>1 DEF StoreStep, Call, Read, Decide, Receive, Retry, Answer, Disconnect
  <2>3. /\ DOMAIN storeCalls' = StoreCalls
        /\ storeCalls' = [d \in StoreCalls |-> storeCalls'[d]]
        /\ \A d \in StoreCalls \ {c} : storeCalls'[d] = storeCalls[d]
    BY <2>0, <2>2, OneCall
  <2>4. \A d \in StoreCalls \ {c} : CallShape(d)'
    BY <2>0, <2>3 DEF CallShape, Pc, Settled, Change
  <2>5. /\ storeCalls'[c].pc \in StorePcs
        /\ DOMAIN storeCalls'[c] = {"pc", "at", "raw", "attempt", "started", "sent", "result"}
        /\ storeCalls'[c].at \in Nat
        /\ storeCalls'[c].raw \in Stored
        /\ storeCalls'[c].attempt \in Nat
        /\ storeCalls'[c].started \in Nat
        /\ storeCalls'[c].sent \in BOOLEAN
        /\ CallShape(c)'
    <3> USE <2>0 DEF StoreShape, StorePcs, Update, CallShape, Pc, Settled, Change
    <3>1. CASE Call(c)
      <4> PICK pc \in {"reading", "done", "sending"} : \E result :
              /\ Update(c, [storeCalls[c] EXCEPT !.pc = pc, !.at = time, !.started = writes,
                              !.sent = (pc = "sending"), !.result = result])
              /\ pc = "reading" <=> Request[c].op = "update"
        BY <3>1 DEF Call, ClaimExpired, IsClaim
      <4>1. PICK result :
              /\ Update(c, [storeCalls[c] EXCEPT !.pc = pc, !.at = time, !.started = writes,
                              !.sent = (pc = "sending"), !.result = result])
              /\ pc = "reading" <=> Request[c].op = "update"
        OBVIOUS
      <4>2. /\ DOMAIN storeCalls'[c] = DOMAIN storeCalls[c]
            /\ storeCalls'[c].pc = pc /\ storeCalls'[c].at = time
            /\ storeCalls'[c].started = writes /\ storeCalls'[c].sent = (pc = "sending")
            /\ storeCalls'[c].raw = storeCalls[c].raw
            /\ storeCalls'[c].attempt = storeCalls[c].attempt
        BY <4>1
      <4>3. storeCalls[c].attempt < MaxAttempts
        BY <3>1 DEF Call
      <4>4. /\ storeCalls'[c].sent \in BOOLEAN
            /\ storeCalls'[c].sent <=> pc = "sending"
        BY <4>2
      <4>5. storeCalls'[c].pc \in {"reading", "done", "sending"}
        BY <4>2
      <4>6. storeCalls'[c].sent => Request[c].op # "update"
        BY <4>1, <4>4
      <4> QED
        BY <4>1, <4>2, <4>3, <4>4, <4>5, <4>6
    <3>2. CASE Read(c)
      BY <3>2 DEF Read
    <3>3. CASE Decide(c)
      <4>1. storeCalls[c].pc = "read"
        BY <3>3 DEF Decide
      <4>2. CASE Settled(c)
        BY <3>3, <4>1, <4>2 DEF Decide
      <4>3. CASE ~Settled(c)
        <5>1. Update(c, [storeCalls[c] EXCEPT !.pc = "sending", !.sent = TRUE])
          BY <3>3, <4>3 DEF Decide
        <5>2. /\ DOMAIN storeCalls'[c] = DOMAIN storeCalls[c]
              /\ storeCalls'[c].pc = "sending" /\ storeCalls'[c].sent = TRUE
              /\ storeCalls'[c].at = storeCalls[c].at
              /\ storeCalls'[c].raw = storeCalls[c].raw
              /\ storeCalls'[c].started = storeCalls[c].started
              /\ storeCalls'[c].attempt = storeCalls[c].attempt
          BY <5>1
        <5>3. storeCalls[c].attempt < MaxAttempts /\ Settled(c)' = Settled(c)
          BY <4>1, <5>2
        <5> QED
          BY <4>3, <5>2, <5>3
      <4> QED
        BY <4>2, <4>3
    <3>4. CASE Receive(c)
      <4>1. PICK pc, raw, result :
              /\ Update(c, [storeCalls[c] EXCEPT !.sent = FALSE, !.pc = pc, !.raw = raw,
                                                 !.result = result])
              /\ \/ pc = storeCalls[c].pc /\ pc = "failed"
                 \/ storeCalls[c].pc = "sending" /\ pc = "answered"
                 \/ storeCalls[c].pc = "sending" /\ pc = "conflict" /\ Request[c].op = "update"
              /\ raw \in {storeCalls[c].raw, cell}
        <5>1. storeCalls[c].pc \in {"sending", "failed"}
          BY <3>4 DEF Receive
        <5>2. CASE Matches(c)
          <6> DEFINE r == storeCalls[c]
                     pc == IF Pc(c, "sending") THEN "answered" ELSE r.pc
                     result == IF Pc(c, "sending") THEN Taken(c).result ELSE r.result
          <6>1. Update(c, [r EXCEPT !.sent = FALSE, !.pc = pc, !.result = result])
            BY <3>4, <5>2 DEF Receive
          <6> HIDE DEF result
          <6>2. Update(c, [r EXCEPT !.sent = FALSE, !.pc = pc, !.raw = r.raw, !.result = result])
            BY <6>1
          <6> QED
            BY <5>1, <6>2
        <5>3. CASE ~Matches(c)
          <6> DEFINE r == storeCalls[c]
                     pc == IF Pc(c, "sending") THEN "conflict" ELSE r.pc
                     raw == IF Pc(c, "sending") THEN cell ELSE r.raw
          <6>1. Update(c, [r EXCEPT !.sent = FALSE, !.pc = pc, !.raw = raw])
            BY <3>4, <5>3 DEF Receive, Latest
          <6>2. Update(c, [r EXCEPT !.sent = FALSE, !.pc = pc, !.raw = raw, !.result = r.result])
            BY <6>1
          <6> QED
            BY <5>1, <5>3, <6>2 DEF Matches
        <5> QED
          BY <5>2, <5>3
      <4>2. /\ DOMAIN storeCalls'[c] = DOMAIN storeCalls[c]
            /\ storeCalls'[c].pc = pc /\ storeCalls'[c].sent = FALSE
            /\ storeCalls'[c].raw = raw /\ storeCalls'[c].at = storeCalls[c].at
            /\ storeCalls'[c].started = storeCalls[c].started
            /\ storeCalls'[c].attempt = storeCalls[c].attempt
        BY <4>1
      <4> QED
        BY <4>1, <4>2
    <3>5. CASE Retry(c)
      <4>1. PICK pc \in {"failed", "reading", "read"} :
              /\ Update(c, [storeCalls[c] EXCEPT !.attempt = storeCalls[c].attempt + 1, !.pc = pc])
              /\ pc # "failed" => storeCalls[c].attempt + 1 # MaxAttempts
        BY <3>5 DEF Retry
      <4>2. /\ DOMAIN storeCalls'[c] = DOMAIN storeCalls[c]
            /\ storeCalls'[c].pc = pc /\ storeCalls'[c].sent = storeCalls[c].sent
            /\ storeCalls'[c].raw = storeCalls[c].raw /\ storeCalls'[c].at = storeCalls[c].at
            /\ storeCalls'[c].started = storeCalls[c].started
            /\ storeCalls'[c].attempt = storeCalls[c].attempt + 1
        BY <4>1
      <4>3. storeCalls[c].pc = "conflict" /\ storeCalls[c].attempt < MaxAttempts
            /\ ~storeCalls[c].sent /\ Request[c].op = "update"
        BY <3>5 DEF Retry
      <4> QED
        BY <4>1, <4>2, <4>3
    <3>6. CASE Answer(c)
      BY <3>6 DEF Answer
    <3>7. CASE Disconnect(c)
      BY <3>7 DEF Disconnect
    <3> QED
      BY <1>1, <3>1, <3>2, <3>3, <3>4, <3>5, <3>6, <3>7 DEF StoreStep
  <2>6. StoreShape'
    BY <2>0, <2>1, <2>3, <2>5 DEF StoreShape
  <2> QED
    BY <2>4, <2>5, <2>6
<1>2. CASE StoreTick
  BY <1>2 DEF StoreTick, StoreShape, CallShape, Pc, Settled, Change
<1>3. CASE UNCHANGED storeVars
  BY <1>3 DEF storeVars, StoreShape, CallShape, Pc, Settled, Change
<1> QED
  BY <1>1, <1>2, <1>3 DEF StoreNext
-----------------------------------------------------------------------------
LEMMA SameEffect == \A c, v, t : Register!Effect(c, v, t) = Effect(c, v, t)
BY DEF Register!Effect, Effect, Register!KeptMarker, KeptMarker, Register!MayClaim, MayClaim, Register!Markers, Markers,
       Register!Marker, Marker

\* What the register sees of a step of one caller.
SeenOf(c) ==
    /\ [d \in StoreCalls |-> Status(d)]' =
         [[d \in StoreCalls |-> Status(d)] EXCEPT ![c] = Status(c)']
    /\ [d \in StoreCalls |-> Outcome(d)]' =
         [[d \in StoreCalls |-> Outcome(d)] EXCEPT ![c] = Outcome(c)']
    /\ [d \in StoreCalls |-> storeCalls[d].at]' =
         [[d \in StoreCalls |-> storeCalls[d].at] EXCEPT ![c] = storeCalls'[c].at]

LEMMA OthersUnseen ==
    ASSUME StoreShape, NEW c \in StoreCalls, NEW call, Update(c, call), database' = database
    PROVE  SeenOf(c)
<1>1. \A d \in StoreCalls \ {c} : storeCalls'[d] = storeCalls[d]
  BY OneCall
<1>2. \A d \in StoreCalls \ {c} : HasEffect(d)' = HasEffect(d)
  BY <1>1 DEF HasEffect, Pc, Settled, Change
<1>3. \A d \in StoreCalls \ {c} : Status(d)' = Status(d) /\ Outcome(d)' = Outcome(d)
  BY <1>1, <1>2 DEF Status, Outcome, Pc, Change
<1> QED
  BY <1>1, <1>3 DEF SeenOf

LEMMA Invisible ==
    ASSUME NEW c \in StoreCalls, SeenOf(c), time' = time, cell' = cell,
           Status(c)' = Status(c), Outcome(c)' = Outcome(c),
           storeCalls'[c].at = storeCalls[c].at
    PROVE  UNCHANGED Register!registerVars
BY DEF SeenOf, Register!registerVars

LEMMA SeesInvoke ==
    ASSUME NEW c \in StoreCalls, SeenOf(c), time' = time, cell' = cell,
           Status(c) = "idle", Status(c)' = "open", Outcome(c)' = Outcome(c),
           storeCalls'[c].at = time
    PROVE  Register!Invoke(c)
BY DEF SeenOf, Register!Invoke

LEMMA SeesRefuse ==
    ASSUME NEW c \in StoreCalls, SeenOf(c), time' = time, cell' = cell,
           Status(c) = "idle", Status(c)' = "done", Outcome(c)' = "refused",
           ClaimExpired(c), storeCalls'[c].at = time
    PROVE  Register!Refuse(c)
BY DEF SeenOf, Register!Refuse, Register!Expired, ClaimExpired, IsClaim

LEMMA SeesApply ==
    ASSUME NEW c \in StoreCalls, SeenOf(c), time' = time,
           storeCalls'[c].at = storeCalls[c].at,
           NEW t \in storeCalls[c].at .. time,
           cell' = Effect(c, cell, t).value,
           \/ /\ Status(c) = "open" /\ Status(c)' = "applied"
              /\ Outcome(c)' = Effect(c, cell, t).result
           \/ /\ Status(c) = "lost" /\ Status(c)' = "failed"
              /\ Outcome(c)' = Outcome(c)
    PROVE  Register!Apply(c)
BY SameEffect DEF SeenOf, Register!Apply

LEMMA SeesRespond ==
    ASSUME NEW c \in StoreCalls, SeenOf(c), time' = time, cell' = cell,
           storeCalls'[c].at = storeCalls[c].at,
           Status(c) = "applied", Status(c)' = "done",
           Outcome(c)' = IF ClaimExpired(c) THEN "refused" ELSE Outcome(c)
    PROVE  Register!Respond(c)
BY DEF SeenOf, Register!Respond, Register!Expired, ClaimExpired, IsClaim

LEMMA SeesFail ==
    ASSUME NEW c \in StoreCalls, SeenOf(c), time' = time, cell' = cell,
           storeCalls'[c].at = storeCalls[c].at,
           \/ Status(c) \in {"open", "applied", "lost"} /\ Status(c)' = "failed"
           \/ Status(c) = "open" /\ Status(c)' = "lost",
           Outcome(c)' = "none"
    PROVE  Register!Fail(c)
BY DEF SeenOf, Register!Fail, Register!NoOutcome

LEMMA StepSeen ==
    ASSUME StoreInv, NEW c \in StoreCalls, StoreStep(c)
    PROVE  /\ SeenOf(c) /\ time' = time /\ database' = database
           /\ DOMAIN storeCalls' = StoreCalls
           /\ StoreShape /\ CallShape(c) /\ MaxAttempts \in Nat
<1>1. StoreShape /\ CallShape(c)
  BY DEF StoreInv
<1>2. PICK call : Update(c, call)
  BY DEF StoreStep, Call, Read, Decide, Receive, Retry, Answer, Disconnect
<1>3. time' = time /\ database' = database
  BY DEF StoreStep, Call, Read, Decide, Receive, Retry, Answer, Disconnect
<1> QED
  BY <1>1, <1>2, <1>3, OneCall, OthersUnseen, StoreAssumption

\* A call, a claim that expired included, is a call of the register.
LEMMA CallSeen ==
    ASSUME StoreInv, NEW c \in StoreCalls, Call(c)
    PROVE  Register!Invoke(c) \/ Register!Refuse(c)
<1> DEFINE r == storeCalls[c]
<1>1. /\ SeenOf(c) /\ time' = time /\ cell' = cell /\ StoreShape
  BY StepSeen DEF StoreStep, Call
<1>2. Status(c) = "idle" /\ Outcome(c) = "none"
  BY DEF Call, Status, Outcome, HasEffect, Pc
<1>3. PICK pc, result :
        /\ Update(c, [r EXCEPT !.pc = pc, !.at = time, !.started = writes,
                               !.sent = (pc = "sending"), !.result = result])
        /\ \/ pc \in {"reading", "sending"}
           \/ pc = "done" /\ ClaimExpired(c) /\ result = "refused"
  BY DEF Call
<1>4. storeCalls'[c].pc = pc /\ storeCalls'[c].at = time /\ storeCalls'[c].result = result
  BY <1>1, <1>3 DEF StoreShape, Update
<1>5. CASE pc \in {"reading", "sending"}
  <2>1. Status(c)' = "open" /\ Outcome(c)' = "none"
    BY <1>4, <1>5 DEF Status, Outcome, HasEffect, Pc
  <2> QED
    BY <1>1, <1>2, <1>4, <2>1, SeesInvoke
<1>6. CASE pc = "done" /\ ClaimExpired(c) /\ result = "refused"
  <2>1. Status(c)' = "done" /\ Outcome(c)' = "refused"
    BY <1>4, <1>6 DEF Status, Outcome, HasEffect, Pc
  <2> QED
    BY <1>1, <1>2, <1>4, <1>6, <2>1, SeesRefuse
<1> QED
  BY <1>3, <1>5, <1>6

\* A change that leaves nothing to swap takes effect when the value is read.
LEMMA ReadSeen ==
    ASSUME StoreInv, NEW c \in StoreCalls, Read(c)
    PROVE  Register!Apply(c) \/ UNCHANGED Register!registerVars
<1>1. /\ SeenOf(c) /\ time' = time /\ cell' = cell /\ database' = database
      /\ StoreShape /\ CallShape(c)
  BY StepSeen DEF StoreStep, Read
<1>2. /\ storeCalls[c].pc = "reading" /\ Request[c].op = "update"
      /\ storeCalls[c].at \in Nat /\ time \in Nat /\ storeCalls[c].at <= time
  BY <1>1 DEF Read, Pc, CallShape, StoreShape
<1>3. /\ storeCalls'[c].pc = "read" /\ storeCalls'[c].raw = cell
      /\ storeCalls'[c].at = storeCalls[c].at
  BY <1>1 DEF Read, StoreShape, Update
<1>4. Status(c) = "open" /\ Outcome(c) = "none"
  BY <1>2 DEF Status, Outcome, HasEffect, Pc
<1>5. Change(c)' = Request[c].fn[cell]
  BY <1>3 DEF Change
<1>6. CASE Settled(c)'
  <2>1. Status(c)' = "applied" /\ Outcome(c)' = Request[c].fn[cell].result
    BY <1>3, <1>5, <1>6 DEF Status, Outcome, HasEffect, Pc
  <2>2. /\ Effect(c, cell, time).value = cell
        /\ Effect(c, cell, time).result = Request[c].fn[cell].result
    BY <1>2, <1>3, <1>5, <1>6 DEF Effect, Settled
  <2>3. time \in storeCalls[c].at .. time
    BY <1>2
  <2> QED
    BY <1>1, <1>3, <1>4, <2>1, <2>2, <2>3, SeesApply
<1>7. CASE ~Settled(c)'
  <2>1. Status(c)' = "open" /\ Outcome(c)' = "none"
    BY <1>3, <1>7 DEF Status, Outcome, HasEffect, Pc
  <2> QED
    BY <1>1, <1>3, <1>4, <2>1, Invisible
<1> QED
  BY <1>6, <1>7

LEMMA DecideSeen ==
    ASSUME StoreInv, NEW c \in StoreCalls, Decide(c)
    PROVE  Register!Respond(c) \/ UNCHANGED Register!registerVars
<1>1. /\ SeenOf(c) /\ time' = time /\ cell' = cell /\ database' = database
      /\ StoreShape /\ CallShape(c)
  BY StepSeen DEF StoreStep, Decide
<1>2. storeCalls[c].pc = "read" /\ Request[c].op = "update"
  BY <1>1 DEF Decide, Pc, CallShape
<1>3. CASE Settled(c)
  <2>1. Status(c) = "applied" /\ Outcome(c) = Change(c).result
    BY <1>2, <1>3 DEF Status, Outcome, HasEffect, Pc
  <2>2. /\ storeCalls'[c].pc = "done" /\ storeCalls'[c].result = Change(c).result
        /\ storeCalls'[c].at = storeCalls[c].at
    BY <1>1, <1>3 DEF Decide, StoreShape, Update
  <2>3. Status(c)' = "done" /\ Outcome(c)' = Change(c).result
    BY <2>2 DEF Status, Outcome, HasEffect, Pc
  <2>4. ~ClaimExpired(c)
    BY <1>2 DEF ClaimExpired, IsClaim
  <2> QED
    BY <1>1, <2>1, <2>2, <2>3, <2>4, SeesRespond
<1>4. CASE ~Settled(c)
  <2>1. Status(c) = "open" /\ Outcome(c) = "none"
    BY <1>2, <1>4 DEF Status, Outcome, HasEffect, Pc
  <2>2. storeCalls'[c].pc = "sending" /\ storeCalls'[c].at = storeCalls[c].at
    BY <1>1, <1>4 DEF Decide, StoreShape, Update
  <2>3. Status(c)' = "open" /\ Outcome(c)' = "none"
    BY <2>2 DEF Status, Outcome, HasEffect, Pc
  <2> QED
    BY <1>1, <2>1, <2>2, <2>3, Invisible
<1> QED
  BY <1>3, <1>4

\* The message is where a request takes effect, also when its caller has got an
\* error; a lost race is seen only if the value it lost to settles the update.
LEMMA ReceiveSeen ==
    ASSUME StoreInv, NEW c \in StoreCalls, Receive(c)
    PROVE  Register!Apply(c) \/ Register!Fail(c) \/ UNCHANGED Register!registerVars
<1> DEFINE r == storeCalls[c]
<1>1. /\ SeenOf(c) /\ time' = time /\ database' = database
      /\ StoreShape /\ CallShape(c) /\ MaxAttempts \in Nat
  BY StepSeen DEF StoreStep, Receive
<1>2. /\ r.pc \in {"sending", "failed"} /\ r.sent
      /\ r.at \in Nat /\ time \in Nat /\ r.at <= time
  BY <1>1 DEF Receive, CallShape, StoreShape
<1>3. /\ r.pc = "sending" => Status(c) = "open"
      /\ r.pc = "failed" => Status(c) = "lost"
      /\ Outcome(c) = "none"
  BY <1>2 DEF Status, Outcome, HasEffect, Pc
<1>4. CASE Matches(c)
  <2> DEFINE t == IF database THEN r.at ELSE time
             pc == IF Pc(c, "sending") THEN "answered" ELSE r.pc
             result == IF Pc(c, "sending") THEN Taken(c).result ELSE r.result
  <2>1. /\ Update(c, [r EXCEPT !.sent = FALSE, !.pc = pc, !.result = result])
        /\ cell' = Taken(c).value
    BY <1>4 DEF Receive
  <2>2. Taken(c) = Effect(c, cell, t) /\ t \in r.at .. time
    BY <1>2, <1>4 DEF Taken, Matches
  <2> HIDE DEF pc, result, t
  <2>3. /\ storeCalls'[c].pc = pc /\ storeCalls'[c].sent = FALSE
        /\ storeCalls'[c].result = result /\ storeCalls'[c].at = r.at
    BY <1>1, <2>1 DEF StoreShape, Update
  <2>4. CASE r.pc = "sending"
    <3>1. Status(c)' = "applied" /\ Outcome(c)' = Effect(c, cell, t).result
      BY <2>2, <2>3, <2>4 DEF pc, result, Status, Outcome, HasEffect, Pc
    <3> QED
      BY <1>1, <1>3, <2>1, <2>2, <2>3, <2>4, <3>1, SeesApply
  <2>5. CASE r.pc = "failed"
    <3>1. Status(c)' = "failed" /\ Outcome(c)' = "none"
      BY <2>3, <2>5 DEF pc, Status, Outcome, HasEffect, Pc
    <3> QED
      BY <1>1, <1>3, <2>1, <2>2, <2>3, <2>5, <3>1, SeesApply
  <2> QED
    BY <1>2, <2>4, <2>5
<1>5. CASE ~Matches(c)
  <2> DEFINE pc == IF Pc(c, "sending") THEN "conflict" ELSE r.pc
             raw == IF Pc(c, "sending") THEN cell ELSE r.raw
  <2>1. /\ Update(c, [r EXCEPT !.sent = FALSE, !.pc = pc, !.raw = raw])
        /\ cell' = cell /\ Request[c].op = "update"
    BY <1>5 DEF Receive, Latest, Matches
  <2> HIDE DEF pc, raw
  <2>2. /\ storeCalls'[c].pc = pc /\ storeCalls'[c].sent = FALSE
        /\ storeCalls'[c].raw = raw /\ storeCalls'[c].at = r.at
    BY <1>1, <2>1 DEF StoreShape, Update
  <2>3. CASE r.pc = "failed"
    <3>1. Status(c)' = "failed" /\ Outcome(c)' = "none"
      BY <2>2, <2>3 DEF pc, Status, Outcome, HasEffect, Pc
    <3> QED
      BY <1>1, <1>3, <2>1, <2>2, <2>3, <3>1, SeesFail
  <2>4. CASE r.pc = "sending" /\ HasEffect(c)'
    <3>1. storeCalls'[c].pc = "conflict" /\ storeCalls'[c].raw = cell
      BY <2>2, <2>4 DEF pc, raw, Pc
    <3>2. Settled(c)' /\ ~database /\ Change(c)' = Request[c].fn[cell]
      BY <1>1, <2>4, <3>1 DEF HasEffect, Pc, Change
    <3>3. Status(c)' = "applied" /\ Outcome(c)' = Request[c].fn[cell].result
      BY <2>4, <3>1, <3>2 DEF Status, Outcome
    <3>4. /\ Effect(c, cell, time).value = cell
          /\ Effect(c, cell, time).result = Request[c].fn[cell].result
      BY <1>1, <2>1, <3>2 DEF Effect, Settled
    <3>5. time \in r.at .. time
      BY <1>2
    <3> QED
      BY <1>1, <1>3, <2>1, <2>2, <2>4, <3>3, <3>4, <3>5, SeesApply
  <2>5. CASE r.pc = "sending" /\ ~HasEffect(c)'
    <3>1. Status(c)' = "open" /\ Outcome(c)' = "none"
      BY <2>2, <2>5 DEF pc, Status, Outcome, Pc
    <3> QED
      BY <1>1, <1>3, <2>1, <2>2, <2>5, <3>1, Invisible
  <2> QED
    BY <1>2, <2>3, <2>4, <2>5
<1> QED
  BY <1>4, <1>5

LEMMA RetrySeen ==
    ASSUME StoreInv, NEW c \in StoreCalls, Retry(c)
    PROVE  Register!Fail(c) \/ UNCHANGED Register!registerVars
<1> DEFINE r == storeCalls[c]
<1>1. /\ SeenOf(c) /\ time' = time /\ cell' = cell /\ database' = database
      /\ StoreShape /\ CallShape(c) /\ MaxAttempts \in Nat
  BY StepSeen DEF StoreStep, Retry
<1>2. /\ r.pc = "conflict" /\ r.sent = FALSE /\ database \in BOOLEAN
      /\ r.attempt \in Nat /\ r.attempt < MaxAttempts
  BY <1>1 DEF Retry, Pc, CallShape, StoreShape
<1> DEFINE pc == IF r.attempt + 1 = MaxAttempts THEN "failed"
                 ELSE IF database THEN "reading" ELSE "read"
<1>3. Update(c, [r EXCEPT !.attempt = r.attempt + 1, !.pc = pc])
  BY DEF Retry
<1>4. /\ storeCalls'[c].pc = pc /\ storeCalls'[c].sent = FALSE
      /\ storeCalls'[c].raw = r.raw /\ storeCalls'[c].at = r.at
  BY <1>1, <1>2, <1>3 DEF StoreShape, Update
<1>5. CASE pc = "failed"
  <2>1. Status(c) = "open"
    BY <1>2, <1>5 DEF Status, HasEffect, Pc
  <2>2. Status(c)' = "failed" /\ Outcome(c)' = "none"
    BY <1>4, <1>5 DEF Status, Outcome, HasEffect, Pc
  <2> QED
    BY <1>1, <1>4, <2>1, <2>2, SeesFail
<1>6. CASE pc = "reading"
  <2>1. Status(c) = "open" /\ Outcome(c) = "none"
    BY <1>2, <1>6 DEF Status, Outcome, HasEffect, Pc
  <2>2. Status(c)' = "open" /\ Outcome(c)' = "none"
    BY <1>4, <1>6 DEF Status, Outcome, HasEffect, Pc
  <2> QED
    BY <1>1, <1>4, <2>1, <2>2, Invisible
<1>7. CASE pc = "read"
  <2>1. Change(c)' = Change(c) /\ (Settled(c)' <=> Settled(c))
    BY <1>1, <1>4 DEF Settled, Change
  <2>0. ~database /\ r.attempt + 1 < MaxAttempts
    <3>1. r.attempt + 1 # MaxAttempts /\ ~database
      BY <1>7
    <3> QED
      BY <1>1, <1>2, <3>1
  <2>2. HasEffect(c) <=> Settled(c)
    BY <1>2, <2>0 DEF HasEffect, Pc
  <2>3. HasEffect(c)' <=> Settled(c)
    BY <1>4, <1>7, <2>1 DEF HasEffect, Pc
  <2>4. Status(c)' = Status(c) /\ Outcome(c)' = Outcome(c)
    BY <1>2, <1>4, <1>7, <2>1, <2>2, <2>3 DEF Status, Outcome, Pc
  <2> QED
    BY <1>1, <1>4, <2>4, Invisible
<1> QED
  BY <1>5, <1>6, <1>7

LEMMA AnswerSeen ==
    ASSUME StoreInv, NEW c \in StoreCalls, Answer(c)
    PROVE  Register!Respond(c)
<1>1. SeenOf(c) /\ time' = time /\ cell' = cell /\ StoreShape
  BY StepSeen DEF StoreStep, Answer
<1>2. /\ storeCalls'[c].pc = "done" /\ storeCalls'[c].at = storeCalls[c].at
      /\ storeCalls'[c].result = IF ClaimExpired(c) THEN "refused" ELSE storeCalls[c].result
  BY <1>1 DEF Answer, StoreShape, Update
<1>3. Status(c) = "applied" /\ Outcome(c) = storeCalls[c].result
  BY DEF Answer, Status, Outcome, HasEffect, Pc
<1>4. Status(c)' = "done" /\ Outcome(c)' = IF ClaimExpired(c) THEN "refused" ELSE Outcome(c)
  BY <1>2, <1>3 DEF Status, Outcome, HasEffect, Pc
<1> QED
  BY <1>1, <1>2, <1>3, <1>4, SeesRespond

LEMMA DisconnectSeen ==
    ASSUME StoreInv, NEW c \in StoreCalls, Disconnect(c)
    PROVE  Register!Fail(c)
<1> DEFINE r == storeCalls[c]
<1>1. SeenOf(c) /\ time' = time /\ cell' = cell /\ StoreShape /\ CallShape(c)
  BY StepSeen DEF StoreStep, Disconnect
<1>2. /\ r.pc \in {"reading", "sending", "answered", "conflict"}
      /\ r.sent \in BOOLEAN /\ (r.sent <=> r.pc = "sending")
  BY <1>1 DEF Disconnect, CallShape, StoreShape, Pc
<1>3. /\ storeCalls'[c].pc = "failed" /\ storeCalls'[c].at = r.at
      /\ storeCalls'[c].sent = r.sent
  BY <1>1 DEF Disconnect, StoreShape, Update
<1>4. /\ Status(c) \in {"open", "applied"}
      /\ r.pc = "sending" => Status(c) = "open"
  BY <1>2 DEF Status, HasEffect, Pc
<1>5. /\ Status(c)' = IF r.pc = "sending" THEN "lost" ELSE "failed"
      /\ Outcome(c)' = "none"
  BY <1>2, <1>3 DEF Status, Outcome, HasEffect, Pc
<1> QED
  BY <1>1, <1>3, <1>4, <1>5, SeesFail

LEMMA TickSeen == StoreTick => Register!Pass
BY DEF StoreTick, Register!Pass, Status, Outcome, HasEffect, Settled, Change, Pc

\* The store and its callers implement the register: whatever the interleaving,
\* the lost answers and the retries, every update, put, delete and claim takes
\* effect once, at one instant between its call and its answer, or not at all
\* (Store.ts:74, AtomicActions; compareAndSwap).
THEOREM StoreRefinesRegister == StoreSpec => StoreIsAtomic
<1>1. StoreInit => Register!RegisterInit
  BY DEF StoreInit, Register!RegisterInit, Register!NoOutcome, Status, Outcome, HasEffect, Pc
<1>2. StoreInv /\ [StoreNext]_storeVars =>
        [Register!RegisterNext]_(Register!registerVars)
  <2> SUFFICES ASSUME StoreInv, [StoreNext]_storeVars
               PROVE  [Register!RegisterNext]_(Register!registerVars)
    OBVIOUS
  <2>1. ASSUME NEW c \in StoreCalls, StoreStep(c)
        PROVE  [Register!RegisterNext]_(Register!registerVars)
    BY <2>1, CallSeen, ReadSeen, DecideSeen, ReceiveSeen, RetrySeen, AnswerSeen, DisconnectSeen
    DEF StoreStep, Register!RegisterNext
  <2>2. CASE StoreTick
    BY <2>2, TickSeen DEF Register!RegisterNext
  <2>3. CASE UNCHANGED storeVars
    BY <2>3 DEF storeVars, Register!registerVars, Status, Outcome, HasEffect, Settled, Change, Pc
  <2> QED
    BY <2>1, <2>2, <2>3 DEF StoreNext
<1>3. StoreSpec => []StoreInv
  BY StoreInvInit, StoreInvStep, PTL DEF StoreSpec
<1> QED
  BY <1>1, <1>2, <1>3, PTL DEF StoreSpec, StoreIsAtomic, Register!RegisterSpec
-----------------------------------------------------------------------------
\* What a call knows of the cell is current, or one more change was taken than
\* the call has lost to.
CallProgress(c) ==
    LET call == storeCalls[c]
    IN /\ call.pc = "idle" => call.attempt = 0
       /\ call.started + call.attempt <= writes
       /\ call.pc \in {"read", "sending"} /\ Request[c].op = "update" =>
            call.raw = cell \/ call.started + call.attempt < writes
       /\ call.pc = "conflict" =>
            /\ call.started + call.attempt < writes
            /\ call.raw = cell \/ call.started + call.attempt + 1 < writes

Progress == \A c \in StoreCalls : CallProgress(c)

\* Another caller's step takes a change or leaves the cell alone.
LEMMA ProgressOfOthers ==
    ASSUME StoreShape, NEW d \in StoreCalls, CallProgress(d),
           storeCalls'[d] = storeCalls[d],
           \/ cell' = cell /\ writes' = writes
           \/ writes' = writes + 1
    PROVE  CallProgress(d)'
BY DEF CallProgress, StoreShape

LEMMA ProgressStep ==
    ASSUME StoreInv, Progress, NEW c \in StoreCalls, StoreStep(c)
    PROVE  CallProgress(c)'
<1> DEFINE r == storeCalls[c]
           s == storeCalls'[c]
<1>1. /\ StoreShape /\ CallShape(c) /\ CallProgress(c)
  BY StepSeen DEF Progress
<1>2. /\ writes \in Nat /\ r.started \in Nat /\ r.attempt \in Nat
  BY <1>1 DEF StoreShape
<1>3. CASE Call(c)
  <2> PICK pc \in {"reading", "done", "sending"} : \E result :
          /\ Update(c, [r EXCEPT !.pc = pc, !.at = time, !.started = writes,
                                 !.sent = (pc = "sending"), !.result = result])
          /\ pc = "reading" <=> Request[c].op = "update"
    BY <1>3 DEF Call, ClaimExpired, IsClaim
  <2>1. PICK result :
          /\ Update(c, [r EXCEPT !.pc = pc, !.at = time, !.started = writes,
                                 !.sent = (pc = "sending"), !.result = result])
          /\ pc = "reading" <=> Request[c].op = "update"
    OBVIOUS
  <2>2. s.pc = pc /\ s.started = writes /\ s.attempt = r.attempt
    BY <1>1, <2>1 DEF StoreShape, Update
  <2>3. r.attempt = 0 /\ writes' = writes
    BY <1>1, <1>3 DEF Call, CallProgress, Pc
  <2> QED
    BY <1>2, <2>1, <2>2, <2>3 DEF CallProgress
<1>4. CASE Read(c)
  <2>1. /\ s.pc = "read" /\ s.raw = cell /\ s.started = r.started /\ s.attempt = r.attempt
        /\ writes' = writes /\ cell' = cell
    BY <1>1, <1>4 DEF Read, StoreShape, Update
  <2> QED
    BY <1>1, <2>1 DEF CallProgress
<1>5. CASE Decide(c)
  <2>1. /\ s.pc \in {"done", "sending"} /\ s.raw = r.raw
        /\ s.started = r.started /\ s.attempt = r.attempt
    <3>1. CASE Settled(c)
      BY <1>1, <1>5, <3>1 DEF Decide, StoreShape, Update
    <3>2. CASE ~Settled(c)
      BY <1>1, <1>5, <3>2 DEF Decide, StoreShape, Update
    <3> QED
      BY <3>1, <3>2
  <2>2. r.pc = "read" /\ writes' = writes /\ cell' = cell
    BY <1>5 DEF Decide, Pc
  <2> QED
    BY <1>1, <2>1, <2>2 DEF CallProgress
<1>6. CASE Receive(c)
  <2>1. r.pc \in {"sending", "failed"}
    BY <1>1, <1>6 DEF Receive, CallShape
  <2>2. CASE Matches(c)
    <3> DEFINE pc == IF Pc(c, "sending") THEN "answered" ELSE r.pc
               result == IF Pc(c, "sending") THEN Taken(c).result ELSE r.result
    <3>1. /\ Update(c, [r EXCEPT !.sent = FALSE, !.pc = pc, !.result = result])
          /\ writes' = writes + 1
      BY <1>6, <2>2 DEF Receive
    <3>2. pc \in {"answered", "failed"}
      BY <2>1 DEF Pc
    <3> HIDE DEF pc, result
    <3>3. s.pc = pc /\ s.started = r.started /\ s.attempt = r.attempt
      BY <1>1, <3>1 DEF StoreShape, Update
    <3> QED
      BY <1>1, <1>2, <3>1, <3>2, <3>3 DEF CallProgress
  <2>3. CASE ~Matches(c)
    <3> DEFINE pc == IF Pc(c, "sending") THEN "conflict" ELSE r.pc
               raw == IF Pc(c, "sending") THEN cell ELSE r.raw
    <3>1. /\ Update(c, [r EXCEPT !.sent = FALSE, !.pc = pc, !.raw = raw])
          /\ writes' = writes /\ cell' = cell
          /\ cell # r.raw /\ Request[c].op = "update"
      BY <1>6, <2>3 DEF Receive, Latest, Matches
    <3>2. \/ r.pc = "sending" /\ pc = "conflict" /\ raw = cell
          \/ pc = "failed"
      BY <2>1 DEF Pc
    <3> HIDE DEF pc, raw
    <3>3. s.pc = pc /\ s.raw = raw /\ s.started = r.started /\ s.attempt = r.attempt
      BY <1>1, <3>1 DEF StoreShape, Update
    <3> QED
      BY <1>1, <1>2, <3>1, <3>2, <3>3 DEF CallProgress
  <2> QED
    BY <2>2, <2>3
<1>7. CASE Retry(c)
  <2> DEFINE pc == IF r.attempt + 1 = MaxAttempts THEN "failed"
                   ELSE IF database THEN "reading" ELSE "read"
  <2>1. /\ Update(c, [r EXCEPT !.attempt = r.attempt + 1, !.pc = pc])
        /\ r.pc = "conflict" /\ writes' = writes /\ cell' = cell
    BY <1>7 DEF Retry, Pc
  <2>2. pc \in {"failed", "reading", "read"}
    OBVIOUS
  <2> HIDE DEF pc
  <2>3. s.pc = pc /\ s.raw = r.raw /\ s.started = r.started /\ s.attempt = r.attempt + 1
    BY <1>1, <2>1 DEF StoreShape, Update
  <2> QED
    BY <1>1, <1>2, <2>1, <2>2, <2>3 DEF CallProgress
<1>8. CASE Answer(c)
  <2>1. /\ s.pc = "done" /\ s.started = r.started /\ s.attempt = r.attempt
        /\ writes' = writes
    BY <1>1, <1>8 DEF Answer, StoreShape, Update
  <2> QED
    BY <1>1, <2>1 DEF CallProgress
<1>9. CASE Disconnect(c)
  <2>1. /\ s.pc = "failed" /\ s.started = r.started /\ s.attempt = r.attempt
        /\ writes' = writes
    BY <1>1, <1>9 DEF Disconnect, StoreShape, Update
  <2> QED
    BY <1>1, <2>1 DEF CallProgress
<1> QED
  BY <1>3, <1>4, <1>5, <1>6, <1>7, <1>8, <1>9 DEF StoreStep

\* An update loses only to changes that were taken, one for each attempt it has
\* lost, so calls never keep each other from ending (Store.ts:170, compareAndSwap).
THEOREM LosingIsProgress == StoreSpec => []ConflictIsProgress
<1>1. StoreInit => Progress
  <2> SUFFICES ASSUME StoreInit, NEW c \in StoreCalls PROVE CallProgress(c)
    BY DEF Progress
  <2>1. /\ storeCalls[c].pc = "idle" /\ storeCalls[c].attempt = 0
        /\ storeCalls[c].started = 0 /\ writes = 0
    BY DEF StoreInit
  <2> QED
    BY <2>1 DEF CallProgress
<1>2. StoreInv /\ Progress /\ [StoreNext]_storeVars => Progress'
  <2> SUFFICES ASSUME StoreInv, Progress, [StoreNext]_storeVars PROVE Progress'
    OBVIOUS
  <2>1. ASSUME NEW c \in StoreCalls, StoreStep(c) PROVE Progress'
    <3>1. CallProgress(c)'
      BY <2>1, ProgressStep
    <3>2. \A d \in StoreCalls \ {c} : storeCalls'[d] = storeCalls[d]
      <4>1. PICK call : Update(c, call)
        BY <2>1 DEF StoreStep, Call, Read, Decide, Receive, Retry, Answer, Disconnect
      <4> QED
        BY <4>1, OneCall DEF StoreInv
    <3>3. \/ cell' = cell /\ writes' = writes
          \/ writes' = writes + 1
      BY <2>1 DEF StoreStep, Call, Read, Decide, Receive, Retry, Answer, Disconnect
    <3>4. \A d \in StoreCalls \ {c} : CallProgress(d)'
      BY <3>2, <3>3, ProgressOfOthers DEF StoreInv, Progress
    <3> QED
      BY <3>1, <3>4 DEF Progress
  <2>2. CASE StoreTick
    BY <2>2 DEF StoreTick, Progress, CallProgress
  <2>3. CASE UNCHANGED storeVars
    BY <2>3 DEF storeVars, Progress, CallProgress
  <2> QED
    BY <2>1, <2>2, <2>3 DEF StoreNext
<1>3. StoreInv /\ Progress => ConflictIsProgress
  <2> SUFFICES ASSUME StoreInv, Progress, NEW c \in StoreCalls
               PROVE  storeCalls[c].started + storeCalls[c].attempt
                        + (IF storeCalls[c].pc = "conflict" THEN 1 ELSE 0) <= writes
    BY DEF ConflictIsProgress
  <2> QED
    BY DEF StoreInv, StoreShape, Progress, CallProgress
<1> QED
  BY <1>1, <1>2, <1>3, StoreInvInit, StoreInvStep, PTL DEF StoreSpec
-----------------------------------------------------------------------------
(* Scheduled settlements *)

\* A worker whose lease has not run out owns it, and it is not over for any
\* clock an update may have read.
LeaseLive ==
    \A w \in Workers : AtWork(w) /\ ~workers[w].lapsed => OwnsLease(w) /\ lease.left > 0

ScheduleInv == ScheduleTypeOK /\ LeaseLive

LEMMA InitSchedule == ScheduleInit => ScheduleInv
<1> SUFFICES ASSUME ScheduleInit PROVE ScheduleInv
  OBVIOUS
<1>0. MaxLatency \in Nat /\ LeaseTime \in Nat /\ MaxFaults \in Nat
  BY ScheduleAssumption
<1>1. lease \in LeaseState
  <2>1. lease = [owner |-> Nobody, left |-> 0]
    BY DEF ScheduleInit, NoLease
  <2>2. 0 \in Left
    BY <1>0 DEF Left
  <2> QED
    BY <2>1, <2>2 DEF LeaseState
<1>2. workers \in [Workers -> WorkerState]
  BY <1>0 DEF ScheduleInit, AtRest, WorkerState, WorkerPcs
<1>3. channel \in ChannelState
  BY DEF ScheduleInit, ChannelState
<1>4. captured \in Nat /\ loose \subseteq Nat /\ faults \in 0 .. MaxFaults
  BY <1>0 DEF ScheduleInit
<1>5. LeaseLive
  BY DEF ScheduleInit, LeaseLive, AtWork, AtRest
<1> QED
  BY <1>1, <1>2, <1>3, <1>4, <1>5 DEF ScheduleInv, ScheduleTypeOK

LEMMA FaultCounts ==
  ASSUME ScheduleInv, UNCHANGED faults \/ Fault
  PROVE  faults' \in 0 .. MaxFaults
BY ScheduleAssumption DEF ScheduleInv, ScheduleTypeOK, Fault

\* Only the worker at hand changes, and what it changes keeps the invariant.
LEMMA OneWorker ==
  ASSUME ScheduleInv, NEW w \in Workers, NEW state \in WorkerState,
         workers' = [workers EXCEPT ![w] = state],
         lease' \in LeaseState,
         state.pc \notin {"idle", "claiming"} /\ ~state.lapsed =>
            lease'.owner = w /\ lease'.left > 0,
         \A v \in Workers \ {w} :
            AtWork(v) /\ ~workers[v].lapsed => lease'.owner = v /\ lease'.left > 0
  PROVE  workers' \in [Workers -> WorkerState] /\ LeaseLive'
<1>1. workers \in [Workers -> WorkerState]
  BY DEF ScheduleInv, ScheduleTypeOK
<1>2. /\ workers' \in [Workers -> WorkerState]
      /\ workers'[w] = state
      /\ \A v \in Workers \ {w} : workers'[v] = workers[v]
  BY <1>1
<1>3. ASSUME NEW v \in Workers, AtWork(v)', ~workers'[v].lapsed
      PROVE  OwnsLease(v)' /\ lease'.left > 0
  BY <1>2, <1>3 DEF AtWork, OwnsLease
<1> QED
  BY <1>2, <1>3 DEF LeaseLive

\* A worker that goes on, or ends, with the lease as it is.
LEMMA SameLease ==
  ASSUME ScheduleInv, NEW w \in Workers, UNCHANGED lease,
         Ends(w) \/ (\E pc \in WorkerPcs : Does(w, pc) /\ (AtWork(w) \/ pc = "claiming"))
  PROVE  workers' \in [Workers -> WorkerState] /\ LeaseLive'
<1>1. workers \in [Workers -> WorkerState]
  BY DEF ScheduleInv, ScheduleTypeOK
<1>2. PICK state \in WorkerState :
         /\ workers' = [workers EXCEPT ![w] = state]
         /\ state.pc \in {"idle", "claiming"} \/ (AtWork(w) /\ state.lapsed = workers[w].lapsed)
  <2>1. CASE Ends(w)
    <3>1. AtRest(workers[w].renewing) \in WorkerState
      BY <1>1, ScheduleAssumption DEF AtRest, WorkerState, WorkerPcs
    <3> QED
      BY <2>1, <3>1 DEF Ends, AtRest
  <2>2. CASE \E pc \in WorkerPcs : Does(w, pc) /\ (AtWork(w) \/ pc = "claiming")
    <3>1. PICK pc \in WorkerPcs : Does(w, pc) /\ (AtWork(w) \/ pc = "claiming")
      BY <2>2
    <3> DEFINE state == [workers[w] EXCEPT !.pc = pc]
    <3>2. state \in WorkerState /\ state.pc = pc /\ state.lapsed = workers[w].lapsed
      BY <1>1 DEF WorkerState
    <3>3. workers' = [workers EXCEPT ![w] = state]
      BY <3>1 DEF Does
    <3> HIDE DEF state
    <3> QED
      BY <3>1, <3>2, <3>3
  <2> QED
    BY <2>1, <2>2
<1>3. lease' \in LeaseState
  BY DEF ScheduleInv, ScheduleTypeOK
<1>4. \A v \in Workers : AtWork(v) /\ ~workers[v].lapsed => lease'.owner = v /\ lease'.left > 0
  BY DEF ScheduleInv, LeaseLive, OwnsLease
<1> QED
  BY <1>2, <1>3, <1>4, OneWorker

\* The lease is taken by the worker that claims it when nobody at work holds it.
LEMMA ClaimSchedule ==
  ASSUME ScheduleInv, NEW w \in Workers, claimScheduledSettlement(w)
  PROVE  ScheduleInv'
<1>0. MaxLatency \in Nat /\ LeaseTime \in Nat \ {0}
  BY ScheduleAssumption
<1> DEFINE age == workers[w].age
<1>1. workers[w] \in WorkerState /\ age \in 0 .. MaxLatency
  BY DEF ScheduleInv, ScheduleTypeOK, WorkerState
<1> HIDE DEF age
<1>2. faults' \in 0 .. MaxFaults
  BY FaultCounts DEF claimScheduledSettlement
<1>3. workers' \in [Workers -> WorkerState] /\ LeaseLive'
       /\ lease' \in LeaseState
  <2>1. CASE /\ isSettlementDue /\ ~LeaseHeld(age)
             /\ lease' = [owner |-> w, left |-> LeaseTime - age]
             /\ \/ \E lapsed \in BOOLEAN :
                      /\ lapsed <=> LeaseTime <= age
                      /\ workers' = [workers EXCEPT ![w] =
                            [@ EXCEPT !.pc = "starting", !.age = 0, !.lapsed = lapsed]]
                \/ Ends(w)
    <3>1. lease' \in LeaseState
      <4>1. LeaseTime - age \in Left
        BY <1>0, <1>1 DEF Left
      <4> QED
        BY <2>1, <4>1 DEF LeaseState
    <3>2. \A v \in Workers : ~(AtWork(v) /\ ~workers[v].lapsed)
      <4>1. lease = NoLease \/ ~(lease.left > 0)
        <5>1. lease.left \in Int
          BY <1>0 DEF ScheduleInv, ScheduleTypeOK, LeaseState, Left
        <5> QED
          <6>1. lease = NoLease \/ ~(lease.left + age > 0)
            BY <2>1 DEF LeaseHeld
          <6> QED
            BY <5>1, <6>1, <1>0, <1>1
      <4> QED
        BY <4>1 DEF ScheduleInv, LeaseLive, NoLease
    <3>3. PICK state \in WorkerState :
             /\ workers' = [workers EXCEPT ![w] = state]
             /\ state.pc = "idle" \/ (state.pc = "starting" /\ (state.lapsed <=> LeaseTime <= age))
      <4>1. workers[w] \in WorkerState
        BY DEF ScheduleInv, ScheduleTypeOK
      <4>2. CASE Ends(w)
        <5>1. AtRest(workers[w].renewing) \in WorkerState
          BY <4>1, <1>0 DEF AtRest, WorkerState, WorkerPcs
        <5> QED
          BY <4>2, <5>1 DEF Ends, AtRest
      <4>3. CASE \E lapsed \in BOOLEAN :
                    /\ lapsed <=> LeaseTime <= age
                    /\ workers' = [workers EXCEPT ![w] =
                          [@ EXCEPT !.pc = "starting", !.age = 0, !.lapsed = lapsed]]
        <5>1. PICK lapsed \in BOOLEAN :
                 /\ lapsed <=> LeaseTime <= age
                 /\ workers' = [workers EXCEPT ![w] =
                       [@ EXCEPT !.pc = "starting", !.age = 0, !.lapsed = lapsed]]
          BY <4>3
        <5> DEFINE state == [workers[w] EXCEPT !.pc = "starting", !.age = 0, !.lapsed = lapsed]
        <5>2. state \in WorkerState /\ state.pc = "starting" /\ state.lapsed = lapsed
          <6>1. "starting" \in WorkerPcs /\ 0 \in 0 .. MaxLatency
            BY <1>0 DEF WorkerPcs
          <6> QED
            BY <4>1, <6>1 DEF WorkerState
        <5>3. workers' = [workers EXCEPT ![w] = state]
          BY <5>1
        <5> HIDE DEF state
        <5> QED
          BY <5>1, <5>2, <5>3
      <4> QED
        BY <2>1, <4>2, <4>3
    <3>4. state.pc \notin {"idle", "claiming"} /\ ~state.lapsed => lease'.owner = w /\ lease'.left > 0
      <4>1. lease'.owner = w /\ lease'.left = LeaseTime - age
        BY <2>1
      <4>2. ASSUME state.pc = "starting", ~state.lapsed
            PROVE  ~(LeaseTime <= age)
        BY <3>3, <4>2
      <4>3. ~(LeaseTime <= age) => LeaseTime - age > 0
        BY <1>0, <1>1
      <4> QED
        BY <3>3, <4>1, <4>2, <4>3
    <3> QED
      BY <3>1, <3>2, <3>3, <3>4, OneWorker
  <2>2. CASE Ends(w) /\ UNCHANGED lease
    BY <2>2, SameLease DEF ScheduleInv, ScheduleTypeOK
  <2> QED
    BY <2>1, <2>2 DEF claimScheduledSettlement, age
<1> QED
  BY <1>2, <1>3 DEF claimScheduledSettlement, ScheduleInv, ScheduleTypeOK

\* An owner's renewal makes its lease as good as new; another's changes nothing.
LEMMA RenewSchedule ==
  ASSUME ScheduleInv, NEW w \in Workers, SendRenewal(w) \/ renewScheduledSettlement(w)
  PROVE  ScheduleInv'
<1>0. LeaseTime \in Nat \ {0} /\ MaxLatency \in Nat
  BY ScheduleAssumption
<1>1. workers[w] \in WorkerState
  BY DEF ScheduleInv, ScheduleTypeOK
<1>2. faults' \in 0 .. MaxFaults
  BY FaultCounts DEF SendRenewal, renewScheduledSettlement
<1>3. lease' \in LeaseState
  BY <1>0 DEF SendRenewal, renewScheduledSettlement, Renewed, ScheduleInv, ScheduleTypeOK, LeaseState, Left
<1>4. lease' = lease \/ (OwnsLease(w) /\ lease'.owner = w /\ lease'.left > 0)
  BY <1>0 DEF SendRenewal, renewScheduledSettlement, Renewed, OwnsLease, ScheduleInv, ScheduleTypeOK, LeaseState
<1>5. PICK state \in WorkerState :
         /\ workers' = [workers EXCEPT ![w] = state]
         /\ state.pc = workers[w].pc
         /\ \/ state.lapsed = workers[w].lapsed
            \/ lease'.owner = w /\ lease'.left > 0
  <2>1. CASE \E b \in BOOLEAN : workers' = [workers EXCEPT ![w].renewing = b]
    <3>1. PICK b \in BOOLEAN : workers' = [workers EXCEPT ![w].renewing = b]
      BY <2>1
    <3> DEFINE state == [workers[w] EXCEPT !.renewing = b]
    <3>2. state \in WorkerState /\ state.pc = workers[w].pc /\ state.lapsed = workers[w].lapsed
      BY <1>1 DEF WorkerState
    <3>3. workers' = [workers EXCEPT ![w] = state]
      BY <3>1
    <3> HIDE DEF state
    <3> QED
      BY <3>2, <3>3
  <2>2. CASE /\ OwnsLease(w)
             /\ lease' = Renewed
             /\ workers' = [workers EXCEPT ![w] = [@ EXCEPT !.renewing = FALSE, !.lapsed = FALSE]]
    <3> DEFINE state == [workers[w] EXCEPT !.renewing = FALSE, !.lapsed = FALSE]
    <3>1. state \in WorkerState /\ state.pc = workers[w].pc
      BY <1>1 DEF WorkerState
    <3>2. workers' = [workers EXCEPT ![w] = state]
      BY <2>2
    <3>3. lease'.owner = w /\ lease'.left > 0
      BY <2>2, <1>0 DEF Renewed, OwnsLease, ScheduleInv, ScheduleTypeOK, LeaseState
    <3> HIDE DEF state
    <3> QED
      BY <3>1, <3>2, <3>3
  <2> QED
    BY <2>1, <2>2 DEF SendRenewal, renewScheduledSettlement
<1>6. state.pc \notin {"idle", "claiming"} /\ ~state.lapsed => lease'.owner = w /\ lease'.left > 0
  BY <1>4, <1>5 DEF ScheduleInv, LeaseLive, AtWork, OwnsLease
<1>7. \A v \in Workers \ {w} :
         AtWork(v) /\ ~workers[v].lapsed => lease'.owner = v /\ lease'.left > 0
  BY <1>4 DEF ScheduleInv, LeaseLive, OwnsLease
<1>8. workers' \in [Workers -> WorkerState] /\ LeaseLive'
  BY <1>3, <1>5, <1>6, <1>7, OneWorker
<1> QED
  BY <1>2, <1>3, <1>8
  DEF SendRenewal, renewScheduledSettlement, ScheduleInv, ScheduleTypeOK

\* A worker that goes on, gives up its own lease or stops takes nobody's lease.
LEMMA EndSchedule ==
  ASSUME ScheduleInv, NEW w \in Workers, AtWork(w), Ends(w),
         lease' = (IF OwnsLease(w) THEN NoLease ELSE lease)
  PROVE  workers' \in [Workers -> WorkerState] /\ LeaseLive' /\ lease' \in LeaseState
<1>0. MaxLatency \in Nat /\ LeaseTime \in Nat
  BY ScheduleAssumption
<1>1. lease' \in LeaseState
  <2>1. 0 \in Left
    BY <1>0 DEF Left
  <2> QED
    BY <2>1 DEF NoLease, LeaseState, ScheduleInv, ScheduleTypeOK
<1>2. \A v \in Workers \ {w} :
         AtWork(v) /\ ~workers[v].lapsed => lease'.owner = v /\ lease'.left > 0
  BY DEF ScheduleInv, LeaseLive, OwnsLease
<1>3. AtRest(workers[w].renewing) \in WorkerState
  BY <1>0 DEF AtRest, WorkerState, WorkerPcs, ScheduleInv, ScheduleTypeOK
<1>4. workers' = [workers EXCEPT ![w] = AtRest(workers[w].renewing)]
  BY DEF Ends
<1>5. AtRest(workers[w].renewing).pc = "idle"
  BY DEF AtRest
<1> HIDE DEF AtRest
<1> QED
  BY <1>1, <1>2, <1>3, <1>4, <1>5, OneWorker

LEMMA StepSchedule ==
  ASSUME ScheduleInv, NEW w \in Workers,
         FindDue(w) \/ settle(w) \/ Capture(w) \/ Checkpoint(w)
           \/ markSettlementComplete(w) \/ releaseScheduledSettlement(w)
  PROVE  ScheduleInv'
<1>1. faults' \in 0 .. MaxFaults
  BY FaultCounts DEF FindDue, settle, Capture, Checkpoint, markSettlementComplete,
     releaseScheduledSettlement
<1>2. workers[w] \in WorkerState /\ workers[w].amount \in Nat
  BY DEF ScheduleInv, ScheduleTypeOK, WorkerState
<1>3. channel' \in ChannelState
  <2>1. CASE Checkpoint(w)
    BY <2>1, <1>2 DEF Checkpoint, ScheduleInv, ScheduleTypeOK, ChannelState
  <2>2. CASE ~Checkpoint(w)
    BY <2>2 DEF FindDue, settle, Capture, markSettlementComplete, releaseScheduledSettlement,
       ScheduleInv, ScheduleTypeOK
  <2> QED
    BY <2>1, <2>2
<1>4. captured' \in Nat /\ loose' \subseteq Nat
  BY <1>2 DEF FindDue, settle, Capture, Checkpoint, markSettlementComplete,
     releaseScheduledSettlement, ScheduleInv, ScheduleTypeOK
<1>5. workers' \in [Workers -> WorkerState] /\ LeaseLive' /\ lease' \in LeaseState
  <2>1. CASE /\ UNCHANGED lease
             /\ Ends(w) \/ (\E pc \in WorkerPcs : Does(w, pc) /\ (AtWork(w) \/ pc = "claiming"))
    BY <2>1, SameLease DEF ScheduleInv, ScheduleTypeOK
  <2>2. CASE AtWork(w) /\ Ends(w) /\ lease' = (IF OwnsLease(w) THEN NoLease ELSE lease)
    BY <2>2, EndSchedule
  <2>3. CASE /\ UNCHANGED lease /\ AtWork(w)
             /\ \E amount \in Settleable :
                   workers' = [workers EXCEPT ![w] = [@ EXCEPT !.pc = "sending", !.amount = amount]]
    <3>1. PICK amount \in Settleable :
             workers' = [workers EXCEPT ![w] = [@ EXCEPT !.pc = "sending", !.amount = amount]]
      BY <2>3
    <3>2. amount \in Nat
      BY <3>1 DEF Settleable, ScheduleInv, ScheduleTypeOK, ChannelState
    <3> DEFINE state == [workers[w] EXCEPT !.pc = "sending", !.amount = amount]
    <3>3. state \in WorkerState /\ state.lapsed = workers[w].lapsed
      BY <1>2, <3>2 DEF WorkerState, WorkerPcs
    <3>4. workers' = [workers EXCEPT ![w] = state]
      BY <3>1
    <3>5. \A v \in Workers : AtWork(v) /\ ~workers[v].lapsed => lease'.owner = v /\ lease'.left > 0
      BY <2>3 DEF ScheduleInv, LeaseLive, OwnsLease
    <3>6. lease' \in LeaseState
      BY <2>3 DEF ScheduleInv, ScheduleTypeOK
    <3> HIDE DEF state
    <3> QED
      BY <2>3, <3>3, <3>4, <3>5, <3>6, OneWorker
  <2>4. CASE FindDue(w)
    BY <2>4, <2>1 DEF FindDue, WorkerPcs
  <2>5. CASE settle(w)
    <3>1. AtWork(w) /\ UNCHANGED lease
      BY <2>5 DEF settle, Doing, AtWork
    <3>2. CASE \E amount \in Settleable :
                  workers' = [workers EXCEPT ![w] = [@ EXCEPT !.pc = "sending", !.amount = amount]]
      BY <3>1, <3>2, <2>3
    <3>3. CASE Does(w, "failing")
      BY <3>1, <3>3, <2>1 DEF WorkerPcs
    <3> QED
      BY <2>5, <3>2, <3>3 DEF settle
  <2>6. CASE Capture(w)
    <3>1. AtWork(w) /\ UNCHANGED lease /\ (Does(w, "recording") \/ Does(w, "failing"))
      BY <2>6 DEF Capture, Doing, AtWork
    <3> QED
      BY <3>1, <2>1 DEF WorkerPcs
  <2>7. CASE Checkpoint(w)
    <3>1. AtWork(w) /\ UNCHANGED lease /\ (Does(w, "completing") \/ Does(w, "unrecorded"))
      BY <2>7 DEF Checkpoint, Doing, AtWork
    <3> QED
      BY <3>1, <2>1 DEF WorkerPcs
  <2>8. CASE markSettlementComplete(w) \/ releaseScheduledSettlement(w)
    <3>1. AtWork(w)
      BY <2>8 DEF markSettlementComplete, releaseScheduledSettlement, Doing, AtWork
    <3>2. \/ Ends(w) /\ lease' = (IF OwnsLease(w) THEN NoLease ELSE lease)
          \/ /\ UNCHANGED lease
             /\ Ends(w) \/ Does(w, "releasing") \/ Does(w, "completing")
      BY <2>8 DEF markSettlementComplete, releaseScheduledSettlement
    <3> QED
      BY <3>1, <3>2, <2>1, <2>2 DEF WorkerPcs
  <2> QED
    BY <2>4, <2>5, <2>6, <2>7, <2>8
<1> QED
  BY <1>1, <1>3, <1>4, <1>5 DEF ScheduleInv, ScheduleTypeOK

\* A lease that runs out is marked with its owner in the same instant.
LEMMA TimeSchedule ==
  ASSUME ScheduleInv, PassTime
  PROVE  ScheduleInv'
<1>0. MaxLatency \in Nat /\ LeaseTime \in Nat
  BY ScheduleAssumption
<1> DEFINE left == lease.left - 1
<1>1. lease.left \in Int /\ lease.left <= LeaseTime
  BY <1>0 DEF ScheduleInv, ScheduleTypeOK, LeaseState, Left
<1>2. \/ lease' = lease
      \/ left >= -MaxLatency /\ lease' = [lease EXCEPT !.left = left]
  BY DEF PassTime
<1>3. lease' \in LeaseState
  <2>1. left >= -MaxLatency => left \in Left
    BY <1>0, <1>1 DEF Left
  <2> QED
    BY <1>2, <2>1 DEF ScheduleInv, ScheduleTypeOK, LeaseState
<1>4. lease'.owner = lease.owner /\ (left > 0 => lease'.left > 0)
  <2> HIDE DEF left
  <2>1. lease'.left \in {lease.left, left}
    BY <1>2 DEF ScheduleInv, ScheduleTypeOK, LeaseState
  <2>2. left > 0 => lease.left > 0
    BY <1>1 DEF left
  <2> QED
    BY <1>2, <2>1, <2>2 DEF ScheduleInv, ScheduleTypeOK, LeaseState
<1>5. \A w \in Workers :
         /\ workers'[w] \in WorkerState
         /\ workers'[w].pc = workers[w].pc
         /\ ~workers'[w].lapsed =>
               ~workers[w].lapsed /\ ~(AtWork(w) /\ OwnsLease(w) /\ left <= 0)
  <2> TAKE w \in Workers
  <2> DEFINE age == IF Doing(w, "claiming") THEN workers[w].age + 1 ELSE workers[w].age
             lapsed == IF AtWork(w) /\ OwnsLease(w) /\ left <= 0 THEN TRUE ELSE workers[w].lapsed
  <2>1. workers'[w] = [workers[w] EXCEPT !.age = age, !.lapsed = lapsed]
    BY DEF PassTime
  <2>2. workers[w] \in WorkerState
    BY DEF ScheduleInv, ScheduleTypeOK
  <2>3. age \in 0 .. MaxLatency
    <3>1. workers[w].age \in 0 .. MaxLatency
      BY <2>2 DEF WorkerState
    <3>2. Doing(w, "claiming") => workers[w].age < MaxLatency
      BY DEF PassTime
    <3> QED
      BY <1>0, <3>1, <3>2
  <2>4. lapsed \in BOOLEAN
    BY <2>2 DEF WorkerState
  <2>5. ~lapsed => ~workers[w].lapsed /\ ~(AtWork(w) /\ OwnsLease(w) /\ left <= 0)
    BY <2>4
  <2> HIDE DEF age, lapsed
  <2> QED
    BY <2>1, <2>2, <2>3, <2>4, <2>5 DEF WorkerState
<1>6. workers' \in [Workers -> WorkerState]
  <2>1. workers' = [w \in Workers |-> workers'[w]]
    BY DEF PassTime
  <2> QED
    BY <1>5, <2>1
<1>7. LeaseLive'
  <2> SUFFICES ASSUME NEW w \in Workers, AtWork(w)', ~workers'[w].lapsed
               PROVE  OwnsLease(w)' /\ lease'.left > 0
    BY DEF LeaseLive
  <2>1. AtWork(w) /\ ~workers[w].lapsed /\ ~(AtWork(w) /\ OwnsLease(w) /\ left <= 0)
    BY <1>5 DEF AtWork
  <2>2. OwnsLease(w) /\ left > 0
    BY <2>1, <1>1 DEF ScheduleInv, LeaseLive
  <2> QED
    BY <2>2, <1>4 DEF OwnsLease
<1>8. UNCHANGED <<channel, captured, loose, faults>>
  BY DEF PassTime
<1> QED
  BY <1>3, <1>6, <1>7, <1>8 DEF ScheduleInv, ScheduleTypeOK

\* Charges, close requests, other handlers, late transactions and stops.
LEMMA OtherSchedule ==
  ASSUME ScheduleInv,
         Charged \/ CloseRequested \/ Refreshed \/ Land \/ (\E w \in Workers : StopWorker(w))
  PROVE  ScheduleInv'
<1>1. CASE Charged \/ CloseRequested \/ Refreshed
  <2>1. channel' \in ChannelState
    <3>1. channel \in ChannelState /\ captured \in Nat
      BY DEF ScheduleInv, ScheduleTypeOK
    <3>2. CASE Charged
      BY <3>1, <3>2 DEF Charged, ChannelState
    <3>3. CASE CloseRequested
      <4>1. channel.closing \in BOOLEAN /\ channel' = [channel EXCEPT !.closing = TRUE]
        BY <3>1, <3>3 DEF CloseRequested, ChannelState
      <4> QED
        BY <3>1, <4>1 DEF ChannelState
    <3>4. CASE Refreshed
      BY <3>1, <3>4 DEF Refreshed, ChannelState
    <3> QED
      BY <1>1, <3>2, <3>3, <3>4
  <2>2. UNCHANGED <<lease, captured, loose, workers, faults>>
    BY <1>1 DEF Charged, CloseRequested, Refreshed
  <2> QED
    BY <2>1, <2>2 DEF ScheduleInv, ScheduleTypeOK, LeaseLive, AtWork, OwnsLease
<1>2. CASE Land
  <2>1. PICK amount \in loose :
           /\ loose' = loose \ {amount}
           /\ captured' = IF amount > captured THEN amount ELSE captured
    BY <1>2 DEF Land
  <2>2. captured' \in Nat /\ loose' \subseteq Nat
    BY <2>1 DEF ScheduleInv, ScheduleTypeOK
  <2>3. UNCHANGED <<channel, lease, workers, faults>>
    BY <1>2 DEF Land
  <2> QED
    BY <2>2, <2>3 DEF ScheduleInv, ScheduleTypeOK, LeaseLive, AtWork, OwnsLease
<1>3. CASE \E w \in Workers : StopWorker(w)
  <2>1. PICK w \in Workers : StopWorker(w)
    BY <1>3
  <2>2. AtRest(FALSE) \in WorkerState /\ AtRest(FALSE).pc = "idle"
    BY ScheduleAssumption DEF AtRest, WorkerState, WorkerPcs
  <2>3. /\ workers' = [workers EXCEPT ![w] = AtRest(FALSE)]
        /\ UNCHANGED <<channel, lease, captured, loose>>
    BY <2>1 DEF StopWorker
  <2>4. lease' \in LeaseState
    BY <2>3 DEF ScheduleInv, ScheduleTypeOK
  <2>5. \A v \in Workers : AtWork(v) /\ ~workers[v].lapsed => lease'.owner = v /\ lease'.left > 0
    BY <2>3 DEF ScheduleInv, LeaseLive, OwnsLease
  <2>6. workers' \in [Workers -> WorkerState] /\ LeaseLive'
    BY <2>2, <2>3, <2>4, <2>5, OneWorker
  <2>7. faults' \in 0 .. MaxFaults
    BY <2>1, FaultCounts DEF StopWorker
  <2> QED
    BY <2>3, <2>4, <2>6, <2>7 DEF ScheduleInv, ScheduleTypeOK
<1> QED
  BY <1>1, <1>2, <1>3

LEMMA ScheduleInductive == ScheduleSpec => []ScheduleInv
<1>1. ScheduleInv /\ [ScheduleNext]_scheduleVars => ScheduleInv'
  <2> SUFFICES ASSUME ScheduleInv, [ScheduleNext]_scheduleVars PROVE ScheduleInv'
    OBVIOUS
  <2>1. CASE PassTime
    BY <2>1, TimeSchedule
  <2>2. CASE Charged \/ CloseRequested \/ Refreshed \/ Land
             \/ (\E w \in Workers : StopWorker(w))
    BY <2>2, OtherSchedule
  <2>3. CASE \E w \in Workers : claimScheduledSettlement(w)
    BY <2>3, ClaimSchedule
  <2>4. CASE \E w \in Workers : SendRenewal(w) \/ renewScheduledSettlement(w)
    BY <2>4, RenewSchedule
  <2>5. CASE \E w \in Workers :
                FindDue(w) \/ settle(w) \/ Capture(w) \/ Checkpoint(w)
                  \/ markSettlementComplete(w) \/ releaseScheduledSettlement(w)
    BY <2>5, StepSchedule
  <2>6. CASE UNCHANGED scheduleVars
    BY <2>6 DEF scheduleVars, ScheduleInv, ScheduleTypeOK, LeaseLive, AtWork, OwnsLease
  <2> QED
    BY <2>1, <2>2, <2>3, <2>4, <2>5, <2>6 DEF ScheduleNext, WorkerStep
<1> QED
  BY InitSchedule, <1>1, PTL DEF ScheduleSpec

\* Every record and worker keeps its type.
THEOREM ScheduleTyped == ScheduleSpec => []ScheduleTypeOK
<1>1. ScheduleInv => ScheduleTypeOK
  BY DEF ScheduleInv
<1> QED
  BY <1>1, ScheduleInductive, PTL

\* A worker of any number whose lease has not run out is the only one that
\* settles (claimScheduledSettlement, renewScheduledSettlement,
\* releaseScheduledSettlement and markSettlementComplete).
THEOREM OneSettlesAtATime == ScheduleSpec => []LeaseHeldWhileSettling
<1>1. ScheduleInv => LeaseHeldWhileSettling
  BY DEF ScheduleInv, LeaseLive, LeaseHeldWhileSettling
<1> QED
  BY <1>1, ScheduleInductive, PTL
-----------------------------------------------------------------------------
(* The parts together *)

\* What a request is answered with is one of the answers.
LEMMA EffectAnswers ==
    ASSUME NEW c \in StoreCalls, NEW v \in Stored, NEW t
    PROVE  Effect(c, v, t).result \in Answers
<1>1. CASE Request[c].op = "update"
  BY <1>1 DEF Effect, Answers
<1>2. CASE Request[c].op = "put" \/ Request[c].op = "delete"
  BY <1>2 DEF Effect, Answers
<1>3. CASE Request[c].op = "claim"
  <2>1. CASE MayClaim(v, Request[c].expires, t)
    BY <1>3, <2>1 DEF Effect, Answers
  <2>2. CASE ~MayClaim(v, Request[c].expires, t)
    BY <1>3, <2>2 DEF Effect, Answers
  <2> QED
    BY <2>1, <2>2
<1> QED
  BY <1>1, <1>2, <1>3, RequestAssumption DEF IsUpdate

LEMMA StoreTypedStep == StoreInv /\ StoreTypeOK /\ [StoreNext]_storeVars => StoreTypeOK'
<1> SUFFICES ASSUME StoreInv, StoreTypeOK, [StoreNext]_storeVars PROVE StoreTypeOK'
  OBVIOUS
<1>1. ASSUME NEW c \in StoreCalls, StoreStep(c) PROVE StoreTypeOK'
  <2> DEFINE r == storeCalls[c]
  <2>1. /\ r \in CallRecord /\ StoreShape /\ CallShape(c)
        /\ cell \in Stored /\ writes \in Nat /\ time \in Nat
    BY DEF StoreTypeOK, CallRecord, StoreInv
  <2>2. /\ r.pc \in StorePcs /\ r.at \in Nat /\ r.raw \in Stored /\ r.attempt \in Nat
        /\ r.started \in Nat /\ r.sent \in BOOLEAN /\ r.result \in Answers
    BY <2>1 DEF CallRecord
  <2>3. /\ {"refused", "none"} \subseteq Answers
        /\ {"reading", "read", "sending", "answered", "conflict", "done", "failed"} \subseteq StorePcs
    BY DEF Answers, StorePcs
  <2>4. PICK call : Update(c, call)
    BY <1>1 DEF StoreStep, Call, Read, Decide, Receive, Retry, Answer, Disconnect
  <2>5. call \in CallRecord
    <3>0. storeCalls'[c] = call
      BY <2>1, <2>4, OneCall
    <3>1. CASE Call(c)
      <4> DEFINE pc == IF Request[c].op = "update" THEN "reading"
                       ELSE IF ClaimExpired(c) THEN "done" ELSE "sending"
                 sent == pc = "sending"
                 result == IF pc = "done" THEN "refused" ELSE "none"
      <4>1. Update(c, [r EXCEPT !.pc = pc, !.at = time, !.started = writes,
                                !.sent = sent, !.result = result])
        BY <3>1 DEF Call
      <4>2. pc \in StorePcs /\ sent \in BOOLEAN /\ result \in Answers
        BY <2>3
      <4> HIDE DEF pc, sent, result
      <4>3. storeCalls'[c] = [r EXCEPT !.pc = pc, !.at = time, !.started = writes,
                                       !.sent = sent, !.result = result]
        BY <2>1, <4>1, OneCall
      <4> HIDE DEF r
      <4> QED
        BY <2>1, <3>0, <4>2, <4>3 DEF CallRecord
    <3>2. CASE Read(c)
      <4>1. storeCalls'[c] = [r EXCEPT !.pc = "read", !.raw = cell]
        BY <2>1, <3>2, OneCall DEF Read
      <4> HIDE DEF r
      <4> QED
        BY <2>1, <2>3, <3>0, <4>1 DEF CallRecord
    <3>3. CASE Decide(c)
      <4>1. Change(c).result \in Answers
        <5>1. Request[c].op = "update"
          BY <2>1, <3>3 DEF Decide, Pc, CallShape
        <5> QED
          BY <2>2, <5>1 DEF Change, Answers
      <4>2. storeCalls'[c] \in {[r EXCEPT !.pc = "done", !.result = Change(c).result],
                                [r EXCEPT !.pc = "sending", !.sent = TRUE]}
        <5>1. CASE Settled(c)
          BY <2>1, <3>3, <5>1, OneCall DEF Decide
        <5>2. CASE ~Settled(c)
          BY <2>1, <3>3, <5>2, OneCall DEF Decide
        <5> QED
          BY <5>1, <5>2
      <4> HIDE DEF r
      <4> QED
        BY <2>1, <2>3, <3>0, <4>1, <4>2 DEF CallRecord
    <3>4. CASE Receive(c) /\ Matches(c)
      <4> DEFINE pc == IF Pc(c, "sending") THEN "answered" ELSE r.pc
                 result == IF Pc(c, "sending") THEN Taken(c).result ELSE r.result
      <4>1. Taken(c).result \in Answers
        BY <2>1, <2>2, EffectAnswers DEF Taken
      <4>2. pc \in StorePcs /\ result \in Answers
        BY <2>2, <2>3, <4>1
      <4>3. Update(c, [r EXCEPT !.sent = FALSE, !.pc = pc, !.result = result])
        BY <3>4 DEF Receive
      <4> HIDE DEF pc, result
      <4>4. storeCalls'[c] = [r EXCEPT !.sent = FALSE, !.pc = pc, !.result = result]
        BY <2>1, <4>3, OneCall
      <4> HIDE DEF r
      <4> QED
        BY <2>1, <3>0, <4>2, <4>4 DEF CallRecord
    <3>5. CASE Receive(c) /\ ~Matches(c)
      <4> DEFINE pc == IF Pc(c, "sending") THEN "conflict" ELSE r.pc
                 raw == IF Pc(c, "sending") THEN cell ELSE r.raw
      <4>1. pc \in StorePcs /\ raw \in Stored
        BY <2>1, <2>2, <2>3
      <4>2. Update(c, [r EXCEPT !.sent = FALSE, !.pc = pc, !.raw = raw])
        BY <3>5 DEF Receive, Latest
      <4> HIDE DEF pc, raw
      <4>3. storeCalls'[c] = [r EXCEPT !.sent = FALSE, !.pc = pc, !.raw = raw]
        BY <2>1, <4>2, OneCall
      <4> HIDE DEF r
      <4> QED
        BY <2>1, <3>0, <4>1, <4>3 DEF CallRecord
    <3>6. CASE Retry(c)
      <4> DEFINE pc == IF r.attempt + 1 = MaxAttempts THEN "failed"
                       ELSE IF database THEN "reading" ELSE "read"
                 n == r.attempt + 1
      <4>1. pc \in StorePcs /\ n \in Nat
        BY <2>2, <2>3
      <4>2. Update(c, [r EXCEPT !.attempt = n, !.pc = pc])
        BY <3>6 DEF Retry
      <4> HIDE DEF pc, n
      <4>3. storeCalls'[c] = [r EXCEPT !.attempt = n, !.pc = pc]
        BY <2>1, <4>2, OneCall
      <4> HIDE DEF r
      <4> QED
        BY <2>1, <3>0, <4>1, <4>3 DEF CallRecord
    <3>7. CASE Answer(c)
      <4> DEFINE result == IF ClaimExpired(c) THEN "refused" ELSE r.result
      <4>1. result \in Answers
        BY <2>2, <2>3
      <4>2. Update(c, [r EXCEPT !.pc = "done", !.result = result])
        BY <3>7 DEF Answer
      <4> HIDE DEF result
      <4>3. storeCalls'[c] = [r EXCEPT !.pc = "done", !.result = result]
        BY <2>1, <4>2, OneCall
      <4> HIDE DEF r
      <4> QED
        BY <2>1, <2>3, <3>0, <4>1, <4>3 DEF CallRecord
    <3>8. CASE Disconnect(c)
      <4>1. storeCalls'[c] = [r EXCEPT !.pc = "failed"]
        BY <2>1, <3>8, OneCall DEF Disconnect
      <4> HIDE DEF r
      <4> QED
        BY <2>1, <2>3, <3>0, <4>1 DEF CallRecord
    <3> QED
      BY <1>1, <3>1, <3>2, <3>3, <3>4, <3>5, <3>6, <3>7, <3>8 DEF StoreStep
  <2>6. storeCalls' \in [StoreCalls -> CallRecord]
    BY <2>4, <2>5 DEF Update, StoreTypeOK, CallRecord
  <2>7. StoreShape'
    BY StoreInvStep DEF StoreInv
  <2> QED
    BY <2>6, <2>7 DEF StoreTypeOK, StoreShape, CallRecord
<1>2. CASE StoreTick \/ UNCHANGED storeVars
  BY <1>2 DEF StoreTick, storeVars, StoreTypeOK
<1> QED
  BY <1>1, <1>2 DEF StoreNext

\* The cell keeps to the values and markers put under the key, and every call
\* to the results its request may get, for any callers, requests and attempts
\* (Store.ts, the durable object's and the database's updates and claims).
THEOREM StoreTyped == StoreSpec => []StoreTypeOK
<1>1. StoreInit => StoreTypeOK
  BY DEF StoreInit, StoreTypeOK, StorePcs, Stored, Answers
<1>2. StoreInit => StoreInv
  BY StoreInvInit
<1>3. StoreInv /\ StoreTypeOK /\ [StoreNext]_storeVars => StoreInv' /\ StoreTypeOK'
  BY StoreInvStep, StoreTypedStep
<1> QED
  BY <1>1, <1>2, <1>3, PTL DEF StoreSpec

\* The three parts share no state: a behaviour of the server is one of each of
\* them, a stuttering one where another part runs.  What is proved of a stream,
\* of the store and of the schedule so holds of the server.
THEOREM ServerRunsParts == ServerSpec => Spec /\ StoreSpec /\ ScheduleSpec
<1>1. ServerInit => Init /\ StoreInit /\ ScheduleInit
  BY DEF ServerInit
<1>2. [ServerNext]_serverVars => [Next]_vars /\ [StoreNext]_storeVars /\ [ScheduleNext]_scheduleVars
  BY DEF ServerNext, serverVars
<1> QED
  BY <1>1, <1>2, PTL DEF ServerSpec, Spec, StoreSpec, ScheduleSpec

\* The server stays well typed, whichever part runs: the channel record under
\* any streams and clocks, the stored cell under any callers and failures, the
\* lease under any workers and faults (MeteredStream.ts, Store.ts,
\* Settlement.ts).
THEOREM ServerTyped == ServerSpec => []ServerTypeOK
<1>1. TypeOK /\ StoreTypeOK /\ ScheduleTypeOK => ServerTypeOK
  BY DEF ServerTypeOK
<1> QED
  BY <1>1, ServerRunsParts, MeteringTyped, StoreTyped, ScheduleTyped, PTL
=============================================================================
