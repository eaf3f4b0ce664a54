----------------------------- MODULE ClientFunding -----------------------------
(***************************************************************************)
(* How the payer's session managers fund a channel: SessionManager.ts      *)
(* (withTopUpLock, postTopUpAndApply and the fetch that tries a stored     *)
(* channel), the top-up of a challenge in Session.ts, and the funding and  *)
(* write locks of ChannelStore.ts.  The managers of a process share the    *)
(* stored entry of one payment scope.  A manager runs one fetch at a time  *)
(* and, next to it, top-ups: of streams, of the user, or of the challenge  *)
(* that the fetch is answered with.  A deposit that was sent may have been *)
(* executed although its answer is lost; whether it is stays unknown.      *)
(*                                                                         *)
(* Amounts are left out: a top-up finds out that it needs a deposit or     *)
(* that it needs none.  The store returns copies of its entry and does not *)
(* fail; a write under the write lock and what its caller then does to the *)
(* manager are one step.                                                   *)
(***************************************************************************)
EXTENDS Sequences

CONSTANTS
    Managers,    \* session managers that share a backing store
    TopUps,      \* top-ups
    Manager,     \* the manager of each
    Challenged,  \* top-ups made for a challenge
    NoTopUp

ASSUME ClientAssumption ==
    /\ Manager \in [TopUps -> Managers]
    /\ Challenged \subseteq TopUps
    /\ NoTopUp \notin TopUps
    /\ {"first", "none"} \cap Managers = {}

VARIABLES
    stored,      \* the scope's entry in the backing store
    funding,     \* the operations on its funding lock, the first one running
    managers,    \* what a manager keeps
    topUps,      \* the locals of top-ups
    fetches      \* ChannelUse and the locals of each manager's fetch

clientVars == <<stored, funding, managers, topUps, fetches>>

\* The channel of the start, and the one that each manager would open.
Channels == {"first"} \cup Managers
NoEntry  == [channelId |-> "none", uncertainTopUp |-> FALSE]
Entries  == [channelId : Channels, uncertainTopUp : BOOLEAN] \cup {NoEntry}

DepositOut == {"sent", "lost"}
UnderLock  == {"queued", "checking"} \cup DepositOut
Ended      == {"done", "failed", "unknown", "unmarked"}

ClientTypeOK ==
    /\ stored \in Entries
    /\ funding \in Seq(TopUps)
    /\ managers \in [Managers ->
         [channel : Entries, ignored : SUBSET Channels, uncertainFunding : BOOLEAN]]
    /\ topUps \in [TopUps ->
         [pc : {"idle", "waiting"} \cup UnderLock \cup Ended,
          channelId : Channels \cup {"none"}, refused : BOOLEAN]]
    /\ fetches \in [Managers ->
         [pc : {"idle", "started", "signing", "opening", "sent", "refused", "evicting", "done"},
          restore : Entries, committed : BOOLEAN, resumed : Entries, seen : BOOLEAN,
          created : Channels \cup {"none"}, opened : BOOLEAN, canRetryResumed : BOOLEAN,
          topUp : TopUps \cup {NoTopUp}, entry : Entries]]

\* A manager was handed the stored channel (rehydrate) or has none yet.
ClientInit ==
    /\ stored = [channelId |-> "first", uncertainTopUp |-> FALSE]
    /\ funding = <<>>
    /\ managers \in [Managers ->
         [channel : {NoEntry, stored}, ignored : {{}}, uncertainFunding : {FALSE}]]
    /\ topUps = [t \in TopUps |-> [pc |-> "idle", channelId |-> "none", refused |-> FALSE]]
    /\ fetches = [m \in Managers |->
         [pc |-> "idle", restore |-> NoEntry, committed |-> FALSE, resumed |-> NoEntry,
          seen |-> FALSE, created |-> "none", opened |-> FALSE, canRetryResumed |-> FALSE,
          topUp |-> NoTopUp, entry |-> NoEntry]]
-----------------------------------------------------------------------------
(* The store and a manager's view of it *)

\* An entry is refused while the funding of another channel is unresolved.
MayPersist(entry) == stored.uncertainTopUp => stored.channelId = entry.channelId

\* Bug: write the entry as the caller holds it.
persistAsHeld(entry) == entry

\* What persistChannel leaves in the store and in the caller's entry.
persistChannel(entry) ==
    [entry EXCEPT !.uncertainTopUp = @ \/ stored.uncertainTopUp]

\* deleteChannel keeps an unresolved entry.
AfterDelete == IF stored.uncertainTopUp THEN stored ELSE NoEntry

getReusable(m) == IF stored.channelId \in managers[m].ignored THEN NoEntry ELSE stored

\* A fetch in flight notes what the manager's view of the store reads ...
Active(m) == fetches[m].pc \notin {"idle", "done"}

Saw(m) ==
    LET use == fetches[m]
        entry == getReusable(m)
    IN IF ~Active(m) \/ entry = NoEntry THEN use
       ELSE [use EXCEPT !.seen = TRUE,
               !.resumed = IF use.committed \/ use.created # "none" \/ @ # NoEntry
                           THEN @ ELSE entry]

\* ... and takes what is written before anything was read for its own channel.
Tracked(m, use, entry) ==
    IF Active(m) /\ ~use.seen THEN [use EXCEPT !.created = entry.channelId] ELSE use

\* A fetch that fails later goes back to the funded channel.
commitDurableTopUp(m, use, entry) ==
    LET baseline == IF use.committed THEN use.restore ELSE use.resumed
    IN IF Active(m) /\ baseline.channelId = entry.channelId
       THEN [use EXCEPT !.committed = TRUE, !.restore = entry, !.resumed = NoEntry]
       ELSE use

\* The manager's channel after the write of an entry of its own.
Using(m, entry) == [managers[m] EXCEPT !.channel = entry, !.ignored = @ \ {entry.channelId}]

\* The channels it has given up after a write that is refused: the view takes
\* the entry's out first, unless it has the stored channel and refuses itself,
\* as it is asked to for a fetch and a challenge.
IgnoredAfter(m, entry, asksView) ==
    IF asksView /\ stored.channelId \notin managers[m].ignored
    THEN managers[m].ignored ELSE managers[m].ignored \ {entry.channelId}
-----------------------------------------------------------------------------
(* Top-ups *)

Topping(t, pc) == topUps[t].pc = pc

\* The user's and a stream's top-up name the channel in use.
Ask(t) ==
    LET m == Manager[t]
    IN /\ Topping(t, "idle")
       /\ IF t \in Challenged
          THEN /\ fetches[m].pc = "started" /\ fetches[m].topUp = NoTopUp
               /\ fetches' = [fetches EXCEPT ![m].topUp = t]
          ELSE managers[m].channel # NoEntry /\ UNCHANGED fetches
       /\ topUps' = [topUps EXCEPT ![t] =
             [@ EXCEPT !.pc = IF managers[m].uncertainFunding THEN "failed" ELSE "waiting",
                       !.channelId = IF t \in Challenged THEN "none" ELSE managers[m].channel.channelId]]
       /\ UNCHANGED <<stored, funding, managers>>

Abort(t) ==
    /\ Topping(t, "waiting")
    /\ topUps' = [topUps EXCEPT ![t].pc = "failed"]
    /\ UNCHANGED <<stored, funding, managers, fetches>>

\* withTopUpLock: the manager's turn, unless an earlier deposit is unknown.  A
\* challenge reads the stored channel first.  It may end here: no deposit is
\* needed, or the session has changed.
Acquire(t) ==
    LET m  == Manager[t]
        id == IF t \in Challenged THEN getReusable(m).channelId ELSE topUps[t].channelId
        Becomes(pc) == topUps' = [topUps EXCEPT ![t] = [@ EXCEPT !.pc = pc, !.channelId = id]]
    IN /\ Topping(t, "waiting")
       /\ ~\E u \in TopUps : Manager[u] = m /\ topUps[u].pc \in UnderLock
       /\ \/ /\ managers[m].uncertainFunding
             /\ topUps' = [topUps EXCEPT ![t].pc = "failed"]
             /\ UNCHANGED <<funding, fetches>>
          \/ /\ ~managers[m].uncertainFunding
             /\ fetches' = IF t \in Challenged THEN [fetches EXCEPT ![m] = Saw(m)] ELSE fetches
             /\ \/ Becomes("done") /\ UNCHANGED funding
                \/ /\ id # "none"
                   /\ Becomes("queued")
                   /\ funding' = Append(funding, t)
       /\ UNCHANGED <<stored, managers>>

\* Under the funding lock the stored entry is read again.
Check(t) ==
    LET m == Manager[t]
        entry == getReusable(m)
    IN /\ Topping(t, "queued") /\ funding # <<>> /\ Head(funding) = t
       /\ topUps' = [topUps EXCEPT ![t] =
             [@ EXCEPT !.pc = "checking",
                       !.refused = entry.channelId = topUps[t].channelId /\ entry.uncertainTopUp]]
       /\ fetches' = [fetches EXCEPT ![m] = Saw(m)]
       /\ UNCHANGED <<stored, funding, managers>>

\* The top-up ends and both locks are passed on; who waits for a manager's
\* top-up shares its failure.
Ends(t, pc) ==
    /\ funding' = Tail(funding)
    /\ topUps' = [u \in TopUps |->
          IF u = t THEN [topUps[t] EXCEPT !.pc = pc]
          ELSE IF pc # "done" /\ Manager[u] = Manager[t] /\ Topping(u, "waiting")
               THEN [topUps[u] EXCEPT !.pc = "failed"]
          ELSE topUps[u]]

\* Neither the stored entry nor the one in use names an unresolved deposit.
MayPost(t) ==
    /\ ~topUps[t].refused
    /\ \/ t \in Challenged
       \/ managers[Manager[t]].channel =
             [channelId |-> topUps[t].channelId, uncertainTopUp |-> FALSE]

\* postTopUp.  A challenge decides under the lock whether a deposit is needed.
Post(t) ==
    /\ Topping(t, "checking")
    /\ \/ /\ MayPost(t)
          /\ topUps' = [topUps EXCEPT ![t].pc = "sent"]
          /\ UNCHANGED funding
       \/ ~MayPost(t) /\ Ends(t, "failed")
       \/ MayPost(t) /\ t \in Challenged /\ Ends(t, "done")
    /\ UNCHANGED <<stored, managers, fetches>>

\* The answer is no, or the credential was never sent.  An answer that is not
\* ok decides the deposit (Transports.ts:700), one of a failing server too.
Refused(t) ==
    /\ Topping(t, "sent")
    /\ Ends(t, "failed")
    /\ UNCHANGED <<stored, managers, fetches>>

\* The manager's entry of the channel, or the stored one for a challenge.
HeldEntry(t) ==
    LET m == Manager[t]
        read == IF t \in Challenged THEN getReusable(m) ELSE managers[m].channel
    IN IF read.channelId = topUps[t].channelId THEN read
       ELSE [channelId |-> topUps[t].channelId, uncertainTopUp |-> FALSE]

\* The deposit is recorded, unless the manager has gone on to another channel.
Accepted(t) ==
    LET m == Manager[t]
        applied == HeldEntry(t)
        use == Tracked(m, IF t \in Challenged THEN Saw(m) ELSE fetches[m], applied)
    IN /\ Topping(t, "sent")
       /\ IF t \in Challenged \/ managers[m].channel.channelId = topUps[t].channelId
          THEN IF MayPersist(applied)
               THEN /\ stored' = persistChannel(applied)
                    /\ managers' = [managers EXCEPT ![m] = Using(m, stored')]
                    /\ fetches' = [fetches EXCEPT ![m] = commitDurableTopUp(m, use, stored')]
                    /\ Ends(t, "done")
               ELSE /\ managers' = [managers EXCEPT ![m].ignored =
                                       IgnoredAfter(m, applied, t \in Challenged)]
                    /\ fetches' = [fetches EXCEPT ![m] = use]
                    /\ Ends(t, "failed")
                    /\ UNCHANGED stored
          ELSE Ends(t, "done") /\ UNCHANGED <<stored, managers, fetches>>

\* The request failed, timed out or was aborted after it was sent.
Lost(t) ==
    /\ Topping(t, "sent")
    /\ topUps' = [topUps EXCEPT ![t].pc = "lost"]
    /\ UNCHANGED <<stored, funding, managers, fetches>>

\* onUncertainFunding; a mark that is refused leaves the manager unblocked.
MarkUnknown(t) ==
    LET m == Manager[t]
        unresolved == [channelId |-> topUps[t].channelId, uncertainTopUp |-> TRUE]
        inUse == t \in Challenged \/ managers[m].channel.channelId = unresolved.channelId
        use == Tracked(m, Saw(m), unresolved)
    IN /\ Topping(t, "lost")
       /\ IF MayPersist(unresolved)
          THEN /\ stored' = unresolved
               /\ managers' = [managers EXCEPT ![m] =
                     [Using(m, IF inUse THEN unresolved ELSE managers[m].channel) EXCEPT
                         !.ignored = managers[m].ignored \ {unresolved.channelId},
                         !.uncertainFunding = TRUE]]
               /\ fetches' = [fetches EXCEPT ![m] =
                     LET after == commitDurableTopUp(m, use, unresolved)
                     IN IF after = use THEN use
                        ELSE [after EXCEPT !.restore = managers'[m].channel]]
               /\ Ends(t, "unknown")
          ELSE /\ managers' = [managers EXCEPT
                     ![m].channel = IF t \notin Challenged /\ inUse THEN unresolved ELSE @,
                     ![m].ignored = IgnoredAfter(m, unresolved, t \in Challenged)]
               /\ fetches' = [fetches EXCEPT ![m] = use]
               /\ Ends(t, "unmarked")
               /\ UNCHANGED stored
-----------------------------------------------------------------------------
(* A fetch *)

Fetching(m, pc) == fetches[m].pc = pc

FetchStart(m) ==
    /\ Fetching(m, "idle")
    /\ fetches' = [fetches EXCEPT ![m] =
          [@ EXCEPT !.pc = "started", !.restore = managers[m].channel,
                    !.canRetryResumed = managers[m].channel = NoEntry]]
    /\ UNCHANGED <<stored, funding, managers, topUps>>

\* The stored channel pays, or a new one is opened.
Plan(m) ==
    LET awaited == fetches[m].topUp
        entry == getReusable(m)
    IN /\ Fetching(m, "started")
       /\ awaited # NoTopUp => Topping(awaited, "done")
       /\ fetches' = [fetches EXCEPT ![m] =
             [Saw(m) EXCEPT !.pc = IF entry = NoEntry THEN "opening" ELSE "signing",
                            !.topUp = NoTopUp, !.entry = entry]]
       /\ UNCHANGED <<stored, funding, managers, topUps>>

\* voucher writes the entry it planned with, open that of a new channel; the
\* model has one to open for each manager.  The fetch fails when the write is
\* refused.
Pay(m) ==
    LET opens == Fetching(m, "opening")
        entry == IF opens THEN [channelId |-> m, uncertainTopUp |-> FALSE] ELSE fetches[m].entry
        use == Tracked(m, Saw(m), entry)
        Becomes(pc, paid) == fetches' = [fetches EXCEPT ![m] =
            [paid EXCEPT !.pc = pc, !.entry = NoEntry, !.opened = fetches[m].opened \/ opens]]
    IN /\ opens \/ Fetching(m, "signing")
       /\ opens => ~fetches[m].opened
       /\ IF MayPersist(entry)
          THEN /\ stored' = persistChannel(entry)
               /\ managers' = [managers EXCEPT ![m] = Using(m, stored')]
               /\ Becomes("sent", IF stored'.uncertainTopUp
                                  THEN commitDurableTopUp(m, use, stored') ELSE use)
          ELSE /\ managers' = [managers EXCEPT ![m].ignored = IgnoredAfter(m, entry, TRUE)]
               /\ Becomes("refused", use)
               /\ UNCHANGED stored
       /\ UNCHANGED <<funding, topUps>>

FetchOk(m) ==
    /\ Fetching(m, "sent")
    /\ fetches' = [fetches EXCEPT ![m].pc = "done"]
    /\ UNCHANGED <<stored, funding, managers, topUps>>

\* restoreRuntime: the snapshot's entry is written back to what the store has.
Restores(m, left, ignored) ==
    LET snapshot == fetches[m].restore
        writes == snapshot # NoEntry /\ MayPersist(snapshot)
    IN /\ stored' = IF writes THEN persistChannel(snapshot) ELSE left
       /\ managers' = [managers EXCEPT ![m] =
             [@ EXCEPT !.channel = IF writes THEN stored' ELSE snapshot,
                       !.ignored = managers[m].ignored \cup ignored]]

\* The fetch fails and its manager goes back to where it started.  A channel
\* that the fetch opened is dropped, unless its funding is unresolved.
FetchFail(m) ==
    LET use == fetches[m]
        opened == use.created # "none"
        again == use.canRetryResumed /\ use.resumed # NoEntry /\ MayPersist(use.restore)
    IN /\ use.pc \in {"started", "signing", "opening", "sent", "refused"}
       /\ use.topUp # NoTopUp => topUps[use.topUp].pc \in Ended
       /\ IF stored.uncertainTopUp /\ stored.channelId = use.created
          THEN UNCHANGED <<stored, managers>>
          ELSE IF opened THEN Restores(m, AfterDelete, {use.created})
          ELSE Restores(m, stored, {})
       /\ fetches' = [fetches EXCEPT ![m] =
             [@ EXCEPT !.pc = IF again /\ ~opened THEN "evicting" ELSE "done",
                       !.topUp = NoTopUp, !.entry = NoEntry]]
       /\ UNCHANGED <<funding, topUps>>

\* ignoreChannel: the stored channel it resumed is given up, and tried without.
Evict(m) ==
    LET use == fetches[m]
        keeps == use.resumed = NoEntry \/ use.resumed.uncertainTopUp \/ stored.uncertainTopUp
    IN /\ Fetching(m, "evicting")
       /\ IF keeps
          THEN /\ fetches' = [fetches EXCEPT ![m].pc = "done"]
               /\ UNCHANGED <<stored, managers>>
          ELSE /\ stored' = NoEntry
               /\ managers' = [managers EXCEPT ![m].ignored = @ \cup {use.resumed.channelId}]
               /\ fetches' = [fetches EXCEPT ![m] =
                     [@ EXCEPT !.pc = "started", !.canRetryResumed = FALSE,
                               !.resumed = NoEntry, !.seen = FALSE]]
       /\ UNCHANGED <<funding, topUps>>
-----------------------------------------------------------------------------
ClientNext ==
    \/ \E t \in TopUps :
          \/ Ask(t) \/ Abort(t) \/ Acquire(t) \/ Check(t) \/ Post(t)
          \/ Refused(t) \/ Accepted(t) \/ Lost(t) \/ MarkUnknown(t)
    \/ \E m \in Managers :
          \/ FetchStart(m) \/ Plan(m) \/ Pay(m)
          \/ FetchOk(m) \/ FetchFail(m) \/ Evict(m)

ClientSpec == ClientInit /\ [][ClientNext]_clientVars
-----------------------------------------------------------------------------
(* Properties *)

\* A deposit was sent and it is not known whether it was executed.
Undecided(t) == topUps[t].pc \in DepositOut \cup {"unknown"}

\* A manager sends no deposit to a channel that has one whose outcome is not
\* known, in flight or marked, unless it has given that channel up; and what is
\* marked stays recorded with the stored channel, whatever the managers write,
\* drop or open meanwhile (withFundingLock, postTopUp, persistChannel,
\* deleteChannel and ignoreChannel): "Blocks new deposits until an uncertain
\* top-up has been reconciled" (ChannelOps.ts:48).
NoSecondDeposit ==
    [][\A t \in TopUps :
          /\ topUps'[t].pc = "sent" /\ ~Topping(t, "sent") =>
                \/ topUps[t].channelId \in managers[Manager[t]].ignored
                \/ \A u \in TopUps : Undecided(u) => topUps[u].channelId # topUps[t].channelId
          /\ topUps'[t].pc = "unknown" =>
                stored' = [channelId |-> topUps[t].channelId, uncertainTopUp |-> TRUE]
      ]_clientVars
=============================================================================
