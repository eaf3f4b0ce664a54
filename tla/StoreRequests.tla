----------------------------- MODULE StoreRequests -----------------------------
(***************************************************************************)
(* The requests callers make on one key of an atomic store, and what each  *)
(* makes of the stored value (Store.ts, Change, Update and TryClaim).      *)
(***************************************************************************)
EXTENDS Integers

CONSTANTS
    StoreCalls,    \* the calls made on the key
    Request,       \* call -> what it asks for
    Values,        \* what callers keep under the key
    None,          \* the key is absent
    Expiries       \* the expiries claims are made with

\* A replay marker is kept under the key until the claim expires.
Marker(expires) == [expires |-> expires]
Markers == {Marker(t) : t \in Expiries}
Stored == Values \cup Markers \cup {None}

\* A request is an update, whose callback makes a change of every stored
\* value, a put, a delete, or a claim of the key until it expires.
IsUpdate(request) ==
    /\ request.op = "update"
    /\ \A v \in Stored :
        /\ request.fn[v].op \in {"noop", "set", "delete"}
        /\ request.fn[v].op = "set" => request.fn[v].value \in Values

ASSUME RequestAssumption ==
    /\ Expiries \subseteq Nat
    /\ None \notin Values \cup Markers
    /\ \A c \in StoreCalls :
        \/ IsUpdate(Request[c])
        \/ Request[c].op = "put" /\ Request[c].value \in Values
        \/ Request[c].op = "delete"
        \/ Request[c].op = "claim" /\ Request[c].expires \in Expiries

\* A marker that is still there keeps the key until it expires.
MayClaim(value, expires, t) ==
    /\ expires > t
    /\ value = None \/ (value \in Markers /\ value.expires <= t)

\* What a claim leaves under the key.
KeptMarker(expires, t) == Marker(expires)

\* The value a request leaves and its result, when the clock reads t.
Effect(c, value, t) ==
    LET request == Request[c]
        change  == request.fn[value]
    IN CASE request.op = "update" ->
              [value |-> CASE change.op = "noop" -> value
                           [] change.op = "set" -> change.value
                           [] change.op = "delete" -> None,
               result |-> change.result]
         [] request.op = "put" -> [value |-> request.value, result |-> "ok"]
         [] request.op = "delete" -> [value |-> None, result |-> "ok"]
         [] request.op = "claim" ->
              IF MayClaim(value, request.expires, t)
              THEN [value |-> KeptMarker(request.expires, t), result |-> "claimed"]
              ELSE [value |-> value, result |-> "refused"]

=============================================================================
