-------------------------------- MODULE MCServer --------------------------------
(***************************************************************************)
(* Three parts of the server for TLC, one at a time: each behaviour runs   *)
(* the part it starts with and leaves the others as they are.              *)
(*   stream    StreamMetering: a stream whose generator charges            *)
(*   store     AtomicStore: two updates and a claim of one key             *)
(*   schedule  ScheduledSettlement: two workers                            *)
(***************************************************************************)
EXTENDS StreamMetering, AtomicStore, ScheduledSettlement, TLC

CONSTANTS m1, c1, c2, c3, v1, v2, w1, w2

\* A counter that stops at v2, put down again by a delete.
Count == [v \in Stored |->
    CASE v = None -> [op |-> "set", value |-> v1, result |-> "first"]
      [] v = v1   -> [op |-> "set", value |-> v2, result |-> "second"]
      [] OTHER    -> [op |-> "noop", result |-> "full"]]
Drop == [v \in Stored |->
    IF v = v2 THEN [op |-> "noop", result |-> "kept"] ELSE [op |-> "delete", result |-> "dropped"]]

MCRequest ==
    c1 :> [op |-> "update", fn |-> Count] @@ c2 :> [op |-> "update", fn |-> Drop]
      @@ c3 :> [op |-> "claim", expires |-> 1]
-----------------------------------------------------------------------------
VARIABLE part

serverVars == <<part, vars, storeVars, scheduleVars>>

\* What a part starts with stays what it is in the behaviours of the others.
ServerInit ==
    /\ part \in {"stream", "store", "schedule"}
    /\ Init /\ StoreInit /\ ScheduleInit
    /\ part # "stream" => ch.highest = 1
    /\ part # "store" => database
    /\ channel.vouchers = IF part = "schedule" THEN 1 .. MaxCharged ELSE {}

ServerNext ==
    /\ UNCHANGED part
    /\ IF part = "stream" THEN Next ELSE UNCHANGED vars
    /\ IF part = "store" THEN StoreNext ELSE UNCHANGED storeVars
    /\ IF part = "schedule" THEN ScheduleNext ELSE UNCHANGED scheduleVars

\* The fairness of a part asks nothing of the behaviours of the others: none
\* of its actions is enabled where it starts.
ServerSpec == ServerInit /\ [][ServerNext]_serverVars /\ Fairness /\ ScheduleFairness

\* The part that runs stays well typed (MeteredStream.ts, Store.ts, Settlement.ts).
ServerTypeOK ==
    CASE part = "stream" -> TypeOK
      [] part = "store"  -> StoreTypeOK
      [] OTHER           -> ScheduleTypeOK
=============================================================================
