--------------------------- MODULE SnapshotStream ---------------------------
(***************************************************************************)
(* How a new snapshot reaches the clients of the dashboard stream: every   *)
(* change publishes under a.mu and, with a.mu released, hands its snapshot *)
(* to each subscriber's channel of one under subsMu                        *)
(* (internal/dashboard/aggregator.go, Subscribe and notify), from which    *)
(* the stream handler of internal/api/dashboard.go writes to its client.   *)
(* A snapshot is its place in the order of publication.                    *)
(***************************************************************************)
EXTENDS Naturals

CONSTANTS
  Publishers,   \* goroutines that change the snapshot or republish it
  Channels,     \* subscriptions; each is opened and closed once
  MaxVersion,   \* bound: snapshots published in one behaviour
  Nobody        \* subsMu is free; a publisher between two channels

ASSUME StreamAssumption ==
  /\ MaxVersion \in Nat
  /\ Nobody \notin Publishers
  /\ Nobody \notin Channels

VARIABLES
  version,   \* a.snap
  mine,      \* the snapshot each publisher hands to notify, 0 without one
  subsMu,    \* the publisher inside notify, or Nobody
  todo,      \* channels the loop of each notify has left
  drained,   \* the channel each notify has between its two selects, or Nobody
  subs,      \* a.subs
  closed,    \* channels that were closed
  buf,       \* the one slot of each channel, 0 when empty
  seen,      \* the newest snapshot each stream wrote to its client
  ordered    \* history: publishers have reached subsMu in the order they published

vars == <<version, mine, subsMu, todo, drained, subs, closed, buf, seen, ordered>>

Versions == 0..MaxVersion

TypeOK ==
  /\ version \in Versions
  /\ mine \in [Publishers -> Versions]
  /\ subsMu \in Publishers \union {Nobody}
  /\ todo \in [Publishers -> SUBSET Channels]
  /\ drained \in [Publishers -> Channels \union {Nobody}]
  /\ subs \in SUBSET Channels
  /\ closed \in SUBSET Channels
  /\ buf \in [Channels -> Versions]
  /\ seen \in [Channels -> Versions]
  /\ ordered \in BOOLEAN

Init ==
  /\ version = 0
  /\ mine = [p \in Publishers |-> 0]
  /\ subsMu = Nobody
  /\ todo = [p \in Publishers |-> {}]
  /\ drained = [p \in Publishers |-> Nobody]
  /\ subs = {}
  /\ closed = {}
  /\ buf = [c \in Channels |-> 0]
  /\ seen = [c \in Channels |-> 0]
  /\ ordered = TRUE

-----------------------------------------------------------------------------

\* A refresh, a merge or a settled pull request: a.snap changes under a.mu.
Publish(p) ==
  /\ mine[p] = 0
  /\ version < MaxVersion
  /\ version' = version + 1
  /\ mine' = [mine EXCEPT ![p] = version + 1]
  /\ UNCHANGED <<subsMu, todo, drained, subs, closed, buf, seen, ordered>>

\* Republish and QueuedActionsChanged: read a.snap and tell it again.
Republish(p) ==
  /\ mine[p] = 0
  /\ version > 0
  /\ mine' = [mine EXCEPT ![p] = version]
  /\ UNCHANGED <<version, subsMu, todo, drained, subs, closed, buf, seen, ordered>>

\* Slip: start the loop without waiting for the publisher inside.
NotifyLock_Unguarded(p) ==
  /\ mine[p] # 0
  /\ subsMu # p
  /\ subsMu' = p
  /\ todo' = [todo EXCEPT ![p] = subs]
  /\ UNCHANGED <<version, mine, drained, subs, closed, buf, seen, ordered>>

\* notify takes subsMu and starts its loop.
NotifyLock(p) ==
  /\ mine[p] # 0
  /\ subsMu = Nobody
  /\ subsMu' = p
  /\ todo' = [todo EXCEPT ![p] = subs]
  /\ ordered' = (ordered /\ \A q \in Publishers : mine[q] = 0 \/ mine[p] <= mine[q])
  /\ UNCHANGED <<version, mine, drained, subs, closed, buf, seen>>

\* Slip: leave a snapshot the subscriber has not read in the channel.
Drain_Keeps(p, c) ==
  /\ drained[p] = Nobody
  /\ c \in todo[p]
  /\ todo' = [todo EXCEPT ![p] = @ \ {c}]
  /\ drained' = [drained EXCEPT ![p] = c]
  /\ UNCHANGED <<version, mine, subsMu, subs, closed, buf, seen, ordered>>

\* The first select: take back what the subscriber has not read.
Drain(p, c) ==
  /\ drained[p] = Nobody
  /\ c \in todo[p]
  /\ todo' = [todo EXCEPT ![p] = @ \ {c}]
  /\ drained' = [drained EXCEPT ![p] = c]
  /\ buf' = [buf EXCEPT ![c] = 0]
  /\ UNCHANGED <<version, mine, subsMu, subs, closed, seen, ordered>>

\* The second select: send, or give up on a full channel.
Send(p) ==
  /\ drained[p] # Nobody
  /\ buf' = [buf EXCEPT ![drained[p]] = IF @ = 0 THEN mine[p] ELSE @]
  /\ drained' = [drained EXCEPT ![p] = Nobody]
  /\ UNCHANGED <<version, mine, subsMu, todo, subs, closed, seen, ordered>>

NotifyUnlock(p) ==
  /\ subsMu = p
  /\ todo[p] = {} /\ drained[p] = Nobody
  /\ subsMu' = Nobody
  /\ mine' = [mine EXCEPT ![p] = 0]
  /\ UNCHANGED <<version, todo, drained, subs, closed, buf, seen, ordered>>

\* A client opens the stream.
Subscribe(c) ==
  /\ subsMu = Nobody
  /\ c \notin subs \union closed
  /\ subs' = subs \union {c}
  /\ UNCHANGED <<version, mine, subsMu, todo, drained, closed, buf, seen, ordered>>

\* Slip: close the channel without subsMu.
Unsubscribe_Unlocked(c) ==
  /\ c \in subs
  /\ subs' = subs \ {c}
  /\ closed' = closed \union {c}
  /\ UNCHANGED <<version, mine, subsMu, todo, drained, buf, seen, ordered>>

\* The client goes away, the server drains, or a write fails.
Unsubscribe(c) ==
  /\ subsMu = Nobody
  /\ c \in subs
  /\ subs' = subs \ {c}
  /\ closed' = closed \union {c}
  /\ UNCHANGED <<version, mine, subsMu, todo, drained, buf, seen, ordered>>

\* The stream handler reads its channel and writes the event.
Receive(c) ==
  /\ c \in subs
  /\ buf[c] # 0
  /\ seen' = [seen EXCEPT ![c] = buf[c]]
  /\ buf' = [buf EXCEPT ![c] = 0]
  /\ UNCHANGED <<version, mine, subsMu, todo, drained, subs, closed, ordered>>

Notify(p) ==
  \/ NotifyLock(p) \/ Send(p) \/ NotifyUnlock(p)
  \/ \E c \in Channels : Drain(p, c)

Next ==
  \/ \E p \in Publishers : Publish(p) \/ Republish(p) \/ Notify(p)
  \/ \E c \in Channels : Subscribe(c) \/ Unsubscribe(c) \/ Receive(c)

Spec == Init /\ [][Next]_vars

\* Goroutines are scheduled.  A stream's handler is parked on its channel and a
\* send is handed to it, so drains cannot keep it from reading for ever.
FairSpec ==
  /\ Spec
  /\ \A p \in Publishers : SF_vars(NotifyLock(p)) /\ WF_vars(Notify(p))
  /\ \A c \in Channels : SF_vars(Receive(c))

-----------------------------------------------------------------------------
(* Properties *)

\* "subsMu serialises senders, so the send after the drain finds room": no
\* snapshot is lost to the default case of the second select.
SendFindsRoom == \A p \in Publishers : drained[p] # Nobody => buf[drained[p]] = 0

\* A snapshot is never sent on a channel its stream has closed, which would
\* end the process with a panic.
NoSendOnClosed == \A p \in Publishers : drained[p] # Nobody => drained[p] \notin closed

\* notify's send goes to an open channel with room in it.
SendsAreSafe == SendFindsRoom /\ NoSendOnClosed

\* While nobody is between publishing and notifying, a stream that was told
\* anything holds or has shown the snapshot on the board ("what it needs is the
\* newest state"), unless an older snapshot overtook a newer one on the way to
\* subsMu: nothing else leaves a stream behind.
OnlyOvertakingLeavesAStreamBehind ==
  ordered /\ (\A p \in Publishers : mine[p] = 0) =>
    \A c \in subs : LET last == IF buf[c] # 0 THEN buf[c] ELSE seen[c]
                    IN  last # 0 => last = version

\* A client's board moves on: a stream that stays open after a change shows a
\* snapshot at least as new as the one on the board at that time.
EveryStreamCatchesUp ==
  \A c \in Channels, v \in Versions :
    (c \in subs /\ version = v /\ \E p \in Publishers : mine[p] = v /\ c \in todo[p])
      ~> (c \notin subs \/ seen[c] >= v \/ ~ordered)
=============================================================================
