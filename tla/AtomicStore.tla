------------------------------ MODULE AtomicStore ------------------------------
(***************************************************************************)
(* One key of the stores built on compare-and-swap (Store.ts: durableObject *)
(* and its object, sql): callers read the value, compute a change and swap *)
(* it in if the value is still the same, again and again until it is.      *)
(* Every request is one message to the object or the database, which takes *)
(* one at a time; an answer may be lost, and a message whose caller got an *)
(* error may still be taken later.  An object tells a caller that lost the *)
(* race what it holds; with a database the caller reads again.             *)
(***************************************************************************)
EXTENDS StoreRequests

CONSTANTS
    MaxAttempts,    \* options.maxAttempts
    MaxStoreTime

ASSUME StoreAssumption ==
    MaxAttempts \in Nat \ {0} /\ MaxStoreTime \in Nat

VARIABLES
    database,    \* the store is sql, not durableObject
    time,        \* Date.now()
    cell,        \* what the object or the row holds
    storeCalls,  \* the callers' progress
    writes       \* how many changes the cell has taken

storeVars == <<database, time, cell, storeCalls, writes>>

Change(c) == Request[c].fn[storeCalls[c].raw]

StorePcs == {"idle", "reading", "read", "sending", "answered", "conflict", "done", "failed"}

\* What a call may be answered: an update, whatever its callback returns.
Answers ==
    {"none", "ok", "claimed", "refused"}
      \cup {Request[c].fn[v].result : c \in {d \in StoreCalls : Request[d].op = "update"},
                                     v \in Stored}

StoreTypeOK ==
    /\ database \in BOOLEAN
    /\ time \in Nat
    /\ cell \in Stored
    /\ storeCalls \in [StoreCalls -> [pc: StorePcs, at: Nat, raw: Stored, attempt: Nat,
                                      started: Nat, sent: BOOLEAN, result: Answers]]
    /\ writes \in Nat

StoreInit ==
    /\ database \in BOOLEAN
    /\ time = 0
    /\ cell = None
    /\ storeCalls = [c \in StoreCalls |->
                       [pc |-> "idle", at |-> 0, raw |-> None, attempt |-> 0,
                        started |-> 0, sent |-> FALSE, result |-> "none"]]
    /\ writes = 0

Update(c, call) == storeCalls' = [storeCalls EXCEPT ![c] = call]
Pc(c, pc) == storeCalls[c].pc = pc
IsClaim(c) == Request[c].op = "claim"
ClaimExpired(c) == IsClaim(c) /\ Request[c].expires <= time
-----------------------------------------------------------------------------
\* An update reads first; a claim that has expired is refused at once.
Call(c) ==
    LET pc == IF Request[c].op = "update" THEN "reading"
              ELSE IF ClaimExpired(c) THEN "done" ELSE "sending"
    IN /\ Pc(c, "idle")
       /\ Update(c, [storeCalls[c] EXCEPT !.pc = pc, !.at = time, !.started = writes,
                        !.sent = (pc = "sending"),
                        !.result = IF pc = "done" THEN "refused" ELSE "none"])
       /\ UNCHANGED <<database, time, cell, writes>>

Read(c) ==
    /\ Pc(c, "reading")
    /\ Update(c, [storeCalls[c] EXCEPT !.pc = "read", !.raw = cell])
    /\ UNCHANGED <<database, time, cell, writes>>

\* The callback's change leaves nothing to swap: a noop, or with a database
\* the deletion of an absent key.
Settled(c) ==
    \/ Change(c).op = "noop"
    \/ Change(c).op = "delete" /\ database /\ storeCalls[c].raw = None

Decide(c) ==
    /\ Pc(c, "read")
    /\ Update(c, IF Settled(c)
                 THEN [storeCalls[c] EXCEPT !.pc = "done", !.result = Change(c).result]
                 ELSE [storeCalls[c] EXCEPT !.pc = "sending", !.sent = TRUE])
    /\ UNCHANGED <<database, time, cell, writes>>

\* What the message makes of the cell: a swap was computed from the value its
\* caller had, the others are computed now.  A database judges a claim by the
\* clock its caller read, an object by its own.
Taken(c) ==
    Effect(c, IF Request[c].op = "update" THEN storeCalls[c].raw ELSE cell,
              IF database THEN storeCalls[c].at ELSE time)

\* Bug: an insert replaces what another caller inserted.
MatchesUpsert(c) ==
    Request[c].op = "update" => storeCalls[c].raw \in {None, cell}

\* A swap needs the value its change was computed from.
Matches(c) == Request[c].op = "update" => cell = storeCalls[c].raw

\* Bug: a caller that lost keeps the value it had read.
LatestRead(c) == storeCalls[c].raw

\* The value the answer tells a caller that lost.
Latest(c) == cell

\* The object or the database takes the message; a caller that still waits is
\* answered with the result, or with the value it lost to.
Receive(c) ==
    LET waits == Pc(c, "sending")
    IN /\ storeCalls[c].sent
       /\ \/ /\ Matches(c)
             /\ cell' = Taken(c).value
             /\ writes' = writes + 1
             /\ Update(c, [storeCalls[c] EXCEPT !.sent = FALSE,
                              !.pc = IF waits THEN "answered" ELSE @,
                              !.result = IF waits THEN Taken(c).result ELSE @])
          \/ /\ ~Matches(c)
             /\ Update(c, [storeCalls[c] EXCEPT !.sent = FALSE,
                              !.pc = IF waits THEN "conflict" ELSE @,
                              !.raw = IF waits THEN Latest(c) ELSE @])
             /\ UNCHANGED <<cell, writes>>
       /\ UNCHANGED <<database, time>>

\* Another writer won: try again with the value the object sent or a fresh one.
Retry(c) ==
    /\ Pc(c, "conflict")
    /\ Update(c, [storeCalls[c] EXCEPT !.attempt = @ + 1,
                     !.pc = IF storeCalls[c].attempt + 1 = MaxAttempts THEN "failed"
                            ELSE IF database THEN "reading" ELSE "read"])
    /\ UNCHANGED <<database, time, cell, writes>>

\* The expiry of a claim may have passed while the message was on its way.
Answer(c) ==
    /\ Pc(c, "answered")
    /\ Update(c, [storeCalls[c] EXCEPT !.pc = "done",
                                       !.result = IF ClaimExpired(c) THEN "refused" ELSE @])
    /\ UNCHANGED <<database, time, cell, writes>>

\* The connection breaks; what was sent may still arrive.
Disconnect(c) ==
    /\ storeCalls[c].pc \in {"reading", "sending", "answered", "conflict"}
    /\ Update(c, [storeCalls[c] EXCEPT !.pc = "failed"])
    /\ UNCHANGED <<database, time, cell, writes>>

StoreTick ==
    /\ time < MaxStoreTime
    /\ time' = time + 1
    /\ UNCHANGED <<database, cell, storeCalls, writes>>

StoreStep(c) ==
    \/ Call(c) \/ Read(c) \/ Decide(c) \/ Receive(c) \/ Retry(c) \/ Answer(c) \/ Disconnect(c)

StoreNext == (\E c \in StoreCalls : StoreStep(c)) \/ StoreTick

StoreSpec == StoreInit /\ [][StoreNext]_storeVars
-----------------------------------------------------------------------------
\* A conflict is the work of another writer: an update gives up only after
\* that many other changes were taken, and fewer calls than attempts never
\* make each other fail.
ConflictIsProgress ==
    \A c \in StoreCalls :
        LET call == storeCalls[c]
        IN call.started + call.attempt + (IF call.pc = "conflict" THEN 1 ELSE 0) <= writes

\* The instant at which a call has taken effect: the swap, the read of a value
\* it leaves alone, the execution of a put, a delete or a claim.
HasEffect(c) ==
    \/ Pc(c, "answered")
    \/ Pc(c, "read") /\ Settled(c)
    \/ /\ Pc(c, "conflict") /\ ~database
       /\ storeCalls[c].attempt + 1 < MaxAttempts
       /\ Settled(c)

Status(c) ==
    IF HasEffect(c) THEN "applied"
    ELSE IF storeCalls[c].pc \in {"idle", "done"} THEN storeCalls[c].pc
    ELSE IF Pc(c, "failed") THEN (IF storeCalls[c].sent THEN "lost" ELSE "failed")
    ELSE "open"

Outcome(c) ==
    IF storeCalls[c].pc \in {"answered", "done"} THEN storeCalls[c].result
    ELSE IF HasEffect(c) THEN Change(c).result
    ELSE "none"

Register == INSTANCE AtomicRegister WITH
    status  <- [c \in StoreCalls |-> Status(c)],
    since   <- [c \in StoreCalls |-> storeCalls[c].at],
    outcome <- [c \in StoreCalls |-> Outcome(c)]

\* The store keeps what an atomic store promises: no update is lost, none is
\* made of a value that was not there, none is made twice, although callers
\* race, retry and lose their answers (Store.ts:74, AtomicActions).
StoreIsAtomic == Register!RegisterSpec
=============================================================================
