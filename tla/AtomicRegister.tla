---------------------------- MODULE AtomicRegister ----------------------------
(***************************************************************************)
(* What an atomic store promises about one key (Store.ts, AtomicStore):    *)
(* every update, put, delete and claim takes effect at one instant between *)
(* its call and its answer, or not at all.  A call whose answer is lost    *)
(* may have taken effect, or do so once later.                             *)
(***************************************************************************)
EXTENDS StoreRequests

VARIABLES
    time,       \* Date.now()
    cell,       \* what the key holds
    status,     \* how far each call has come
    since,      \* when it was made
    outcome     \* what it is, or will be, answered

registerVars == <<time, cell, status, since, outcome>>

NoOutcome == "none"

Expired(c) == Request[c].op = "claim" /\ Request[c].expires <= time

RegisterInit ==
    /\ time = 0
    /\ cell = None
    /\ status = [c \in StoreCalls |-> "idle"]
    /\ since = [c \in StoreCalls |-> 0]
    /\ outcome = [c \in StoreCalls |-> NoOutcome]

Invoke(c) ==
    /\ status[c] = "idle"
    /\ status' = [status EXCEPT ![c] = "open"]
    /\ since' = [since EXCEPT ![c] = time]
    /\ UNCHANGED <<time, cell, outcome>>

\* A claim that has expired already is refused without a look at the key.
Refuse(c) ==
    /\ status[c] = "idle"
    /\ Expired(c)
    /\ status' = [status EXCEPT ![c] = "done"]
    /\ since' = [since EXCEPT ![c] = time]
    /\ outcome' = [outcome EXCEPT ![c] = "refused"]
    /\ UNCHANGED <<time, cell>>

\* The instant a call takes effect; its clock was read after it was made.
Apply(c) ==
    /\ status[c] \in {"open", "lost"}
    /\ \E t \in since[c] .. time :
        /\ cell' = Effect(c, cell, t).value
        /\ outcome' = IF status[c] = "open"
                      THEN [outcome EXCEPT ![c] = Effect(c, cell, t).result] ELSE outcome
    /\ status' = [status EXCEPT ![c] = IF status[c] = "open" THEN "applied" ELSE "failed"]
    /\ UNCHANGED <<time, since>>

\* A claim that expired on the way is answered as refused.
Respond(c) ==
    /\ status[c] = "applied"
    /\ status' = [status EXCEPT ![c] = "done"]
    /\ outcome' = [outcome EXCEPT ![c] = IF Expired(c) THEN "refused" ELSE outcome[c]]
    /\ UNCHANGED <<time, cell, since>>

\* The caller gets an error; a call that is lost may still take effect.
Fail(c) ==
    /\ \/ /\ status[c] \in {"open", "applied", "lost"}
          /\ status' = [status EXCEPT ![c] = "failed"]
       \/ /\ status[c] = "open"
          /\ status' = [status EXCEPT ![c] = "lost"]
    /\ outcome' = [outcome EXCEPT ![c] = NoOutcome]
    /\ UNCHANGED <<time, cell, since>>

Pass ==
    /\ time' = time + 1
    /\ UNCHANGED <<cell, status, since, outcome>>

RegisterNext ==
    \/ \E c \in StoreCalls : Invoke(c) \/ Refuse(c) \/ Apply(c) \/ Respond(c) \/ Fail(c)
    \/ Pass

RegisterSpec == RegisterInit /\ [][RegisterNext]_registerVars

=============================================================================
