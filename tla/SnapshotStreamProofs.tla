------------------------- MODULE SnapshotStreamProofs -------------------------
(***************************************************************************)
(* For any number of publishers and streams: the send after the drain      *)
(* finds room, and no snapshot is sent on a closed channel.  Both rest on  *)
(* what subsMu protects: one loop of notify runs at a time, it only visits *)
(* channels that are still subscribed, and they stay so between its two    *)
(* selects.                                                                *)
(*                                                                         *)
(* A second invariant, over that one, shows that overtaking on the way to  *)
(* subsMu is the only thing that leaves a stream behind the board.         *)
(***************************************************************************)
EXTENDS SnapshotStream, TLAPS

LoopUnderLock ==
  \A p \in Publishers :
    /\ todo[p] \subseteq subs
    /\ drained[p] # Nobody => drained[p] \in subs
    /\ todo[p] # {} \/ drained[p] # Nobody => subsMu = p

ClosedIsNotSubscribed == subs \intersect closed = {}

StreamInv == TypeOK /\ LoopUnderLock /\ ClosedIsNotSubscribed /\ SendFindsRoom

\* The invariant holds at start.
LEMMA InitInv == Init => StreamInv
BY StreamAssumption
   DEF Init, StreamInv, TypeOK, LoopUnderLock, ClosedIsNotSubscribed, SendFindsRoom, Versions

\* A publisher that has not begun to notify touches no channel.
LEMMA PublishInv ==
  ASSUME NEW p \in Publishers, StreamInv, Publish(p) \/ Republish(p) \/ NotifyLock(p)
  PROVE  StreamInv'
<1> USE StreamAssumption DEF StreamInv
<1>1. CASE Publish(p)
      BY <1>1 DEF Publish, TypeOK, LoopUnderLock, ClosedIsNotSubscribed, SendFindsRoom, Versions
<1>2. CASE Republish(p)
      BY <1>2 DEF Republish, TypeOK, LoopUnderLock, ClosedIsNotSubscribed, SendFindsRoom, Versions
<1>3. CASE NotifyLock(p)
  <2>1. /\ subsMu = Nobody /\ subsMu' = p /\ todo' = [todo EXCEPT ![p] = subs]
        /\ UNCHANGED <<version, mine, drained, subs, closed, buf, seen>>
        BY <1>3 DEF NotifyLock
  <2>2. ordered' \in BOOLEAN
        BY <1>3 DEF NotifyLock
  <2>3. TypeOK'
        BY <2>1, <2>2 DEF TypeOK
  <2>4. \A q \in Publishers : todo[q] = {} /\ drained[q] = Nobody
        BY <2>1 DEF LoopUnderLock
  <2>5. LoopUnderLock'
        BY <2>1, <2>4 DEF LoopUnderLock, TypeOK
  <2> QED BY <2>1, <2>3, <2>5 DEF ClosedIsNotSubscribed, SendFindsRoom
<1> QED BY <1>1, <1>2, <1>3

\* The loop of notify keeps the invariant: it is the only one under subsMu, so
\* no other publisher is between the two selects of any channel.
LEMMA NotifyInv ==
  ASSUME NEW p \in Publishers, StreamInv,
         Send(p) \/ NotifyUnlock(p) \/ \E c \in Channels : Drain(p, c)
  PROVE  StreamInv'
<1> USE StreamAssumption DEF StreamInv
<1>1. CASE Send(p)
  <2>1. drained[p] \in Channels /\ drained[p] # Nobody
        BY <1>1 DEF Send, TypeOK
  <2>2. buf' \in [Channels -> Versions]
        BY <1>1, <2>1 DEF Send, TypeOK
  <2>3. /\ drained' = [drained EXCEPT ![p] = Nobody]
        /\ UNCHANGED <<version, mine, subsMu, todo, subs, closed, seen, ordered>>
        BY <1>1 DEF Send
  <2>4. TypeOK'
        BY <2>2, <2>3 DEF TypeOK
  <2>5. \A q \in Publishers : drained'[q] = Nobody
        BY <2>1, <2>3 DEF LoopUnderLock, TypeOK
  <2>6. LoopUnderLock' /\ ClosedIsNotSubscribed'
        BY <2>3, <2>5 DEF LoopUnderLock, ClosedIsNotSubscribed
  <2>7. SendFindsRoom'
        BY <2>5 DEF SendFindsRoom
  <2> QED BY <2>4, <2>6, <2>7
<1>2. CASE NotifyUnlock(p)
  <2>1. mine' \in [Publishers -> Versions]
        BY <1>2 DEF NotifyUnlock, TypeOK, Versions
  <2> QED BY <1>2, <2>1 DEF NotifyUnlock, TypeOK, LoopUnderLock, ClosedIsNotSubscribed, SendFindsRoom
<1>3. CASE \E c \in Channels : Drain(p, c)
  <2>1. PICK c \in Channels : Drain(p, c)
        BY <1>3
  <2>2. buf' \in [Channels -> Versions] /\ buf'[c] = 0
        BY <2>1 DEF Drain, TypeOK, Versions
  <2>3. /\ todo' = [todo EXCEPT ![p] = @ \ {c}] /\ drained' = [drained EXCEPT ![p] = c]
        /\ c \in todo[p]
        /\ UNCHANGED <<version, mine, subsMu, subs, closed, seen, ordered>>
        BY <2>1 DEF Drain
  <2>4. TypeOK'
        BY <2>2, <2>3 DEF TypeOK
  <2>5. subsMu = p /\ \A q \in Publishers : q # p => drained[q] = Nobody
        BY <2>3 DEF LoopUnderLock
  <2>6. LoopUnderLock' /\ ClosedIsNotSubscribed'
        BY <2>3, <2>5 DEF LoopUnderLock, ClosedIsNotSubscribed, TypeOK
  <2>7. SendFindsRoom'
        BY <2>2, <2>3, <2>5 DEF SendFindsRoom, TypeOK
  <2> QED BY <2>4, <2>6, <2>7
<1> QED BY <1>1, <1>2, <1>3

\* A stream that opens, closes or reads keeps the invariant: it can open and
\* close only while nobody is in the loop.
LEMMA ChannelInv ==
  ASSUME NEW c \in Channels, StreamInv, Subscribe(c) \/ Unsubscribe(c) \/ Receive(c)
  PROVE  StreamInv'
<1> USE StreamAssumption DEF StreamInv
<1>1. CASE Subscribe(c)
      BY <1>1 DEF Subscribe, TypeOK, LoopUnderLock, ClosedIsNotSubscribed, SendFindsRoom
<1>2. CASE Unsubscribe(c)
      BY <1>2 DEF Unsubscribe, TypeOK, LoopUnderLock, ClosedIsNotSubscribed, SendFindsRoom
<1>3. CASE Receive(c)
  <2>1. buf' \in [Channels -> Versions] /\ seen' \in [Channels -> Versions]
        BY <1>3 DEF Receive, TypeOK, Versions
  <2>2. SendFindsRoom'
        BY <1>3 DEF Receive, SendFindsRoom, TypeOK
  <2> QED BY <1>3, <2>1, <2>2 DEF Receive, TypeOK, LoopUnderLock, ClosedIsNotSubscribed
<1> QED BY <1>1, <1>2, <1>3

\* Every step keeps the invariant.
LEMMA NextInv == StreamInv /\ [Next]_vars => StreamInv'
<1> SUFFICES ASSUME StreamInv, [Next]_vars PROVE StreamInv'
    OBVIOUS
<1>1. CASE UNCHANGED vars
      BY <1>1 DEF vars, StreamInv, TypeOK, LoopUnderLock, ClosedIsNotSubscribed, SendFindsRoom
<1>2. CASE \E p \in Publishers : Publish(p) \/ Republish(p) \/ Notify(p)
      BY <1>2, PublishInv, NotifyInv DEF Notify
<1>3. CASE \E c \in Channels : Subscribe(c) \/ Unsubscribe(c) \/ Receive(c)
      BY <1>3, ChannelInv
<1> QED BY <1>1, <1>2, <1>3 DEF Next

\* The inductive invariant of the stream.
THEOREM StreamInvariant == Spec => []StreamInv
BY InitInv, NextInv, PTL DEF Spec

\* No snapshot is lost to the default case of the send.
THEOREM SendFindsRoomHolds == Spec => []SendFindsRoom
<1>1. StreamInv => SendFindsRoom
      BY DEF StreamInv
<1> QED BY <1>1, StreamInvariant, PTL

\* No snapshot is sent on a closed channel.
THEOREM NoSendOnClosedHolds == Spec => []NoSendOnClosed
<1>1. StreamInv => NoSendOnClosed
      BY DEF StreamInv, LoopUnderLock, ClosedIsNotSubscribed, NoSendOnClosed
<1> QED BY <1>1, StreamInvariant, PTL

\* notify's send neither panics nor loses its snapshot.
THEOREM SendsAreSafeHolds == Spec => []SendsAreSafe
<1>1. StreamInv => SendsAreSafe
      BY DEF StreamInv, LoopUnderLock, ClosedIsNotSubscribed, NoSendOnClosed, SendsAreSafe
<1> QED BY <1>1, StreamInvariant, PTL

-----------------------------------------------------------------------------
(* No stream is left behind unless an older snapshot overtakes a newer one *)

\* The newest snapshot a stream was sent.
Last(c) == IF buf[c] # 0 THEN buf[c] ELSE seen[c]

\* A publisher has still to tell this channel what it holds.
Owes(p, c) == mine[p] # 0 /\ (subsMu # p \/ c \in todo[p] \/ drained[p] = c)

\* Nobody holds or was sent a snapshot newer than the board, a channel that was
\* never opened was sent nothing, and a loop of notify has a snapshot to send.
NothingFromNowhere ==
  /\ \A p \in Publishers : mine[p] <= version
  /\ \A c \in Channels : buf[c] <= version /\ seen[c] <= version
  /\ \A c \in Channels \ (subs \union closed) : buf[c] = 0 /\ seen[c] = 0
  /\ subsMu # Nobody => mine[subsMu] # 0

\* Without overtaking, the loop under subsMu sends the oldest pending snapshot,
\* and no channel has anything newer than what is pending.
OldestFirst ==
  /\ \A p, q \in Publishers : subsMu = p /\ mine[q] # 0 => mine[p] <= mine[q]
  /\ \A p \in Publishers, c \in Channels :
       mine[p] # 0 => buf[c] <= mine[p] /\ seen[c] <= mine[p]

\* Without overtaking, the newest snapshot is pending while an older one is ...
NewestStillComes ==
  \A p \in Publishers :
    mine[p] # 0 /\ mine[p] # version => \E q \in Publishers : mine[q] = version

\* ... and a stream that was told something has the newest or is owed it.
NewestIsOwed ==
  \A c \in subs :
    Last(c) # 0 => Last(c) = version \/ \E q \in Publishers : mine[q] = version /\ Owes(q, c)

OrderInv == NothingFromNowhere /\ (ordered => OldestFirst /\ NewestStillComes /\ NewestIsOwed)

\* Nothing has been published.
LEMMA InitOrder == Init => OrderInv
BY StreamAssumption
   DEF Init, OrderInv, NothingFromNowhere, OldestFirst, NewestStillComes, NewestIsOwed, Last, Owes

\* A change of the snapshot is owed to every stream by the one that made it; to
\* tell the snapshot again adds a publisher that holds the newest.
LEMMA PublishOrder ==
  ASSUME NEW p \in Publishers, StreamInv, OrderInv, Publish(p) \/ Republish(p)
  PROVE  OrderInv'
<1> USE StreamAssumption
<1>1. /\ version \in Nat /\ version' \in Nat /\ version <= version' /\ version' # 0
      /\ mine[p] = 0 /\ mine'[p] = version'
      /\ \A q \in Publishers : q # p => mine'[q] = mine[q]
      /\ version' = version \/ version' = version + 1
      /\ UNCHANGED <<subsMu, todo, drained, subs, closed, buf, seen, ordered>>
      BY DEF Publish, Republish, StreamInv, TypeOK, Versions
<1>2. /\ \A q \in Publishers : mine[q] \in Nat
      /\ \A c \in Channels : buf[c] \in Nat /\ seen[c] \in Nat
      /\ subs \subseteq Channels
      BY DEF StreamInv, TypeOK, Versions
<1>3. subsMu # p
      BY <1>1 DEF OrderInv, NothingFromNowhere
<1>4. NothingFromNowhere'
  <2>1. \A q \in Publishers : mine'[q] <= version'
        BY <1>1, <1>2 DEF OrderInv, NothingFromNowhere
  <2>2. \A c \in Channels : buf'[c] <= version' /\ seen'[c] <= version'
        BY <1>1, <1>2 DEF OrderInv, NothingFromNowhere
  <2>3. subsMu' # Nobody => mine'[subsMu'] # 0
        BY <1>1, <1>3 DEF OrderInv, NothingFromNowhere, StreamInv, TypeOK
  <2> QED BY <1>1, <2>1, <2>2, <2>3 DEF OrderInv, NothingFromNowhere
<1>5. ASSUME ordered
      PROVE  OldestFirst' /\ NewestStillComes' /\ NewestIsOwed'
  <2>1. OldestFirst
        BY <1>5 DEF OrderInv
  <2>2. OldestFirst'
        BY <1>1, <1>2, <1>3, <2>1 DEF OldestFirst, OrderInv, NothingFromNowhere
  <2>3. NewestStillComes'
        BY <1>1 DEF NewestStillComes
  <2>4. NewestIsOwed'
        BY <1>1, <1>3 DEF NewestIsOwed, Owes
  <2> QED BY <2>2, <2>3, <2>4
<1> QED BY <1>1, <1>4, <1>5 DEF OrderInv

\* The loop starts with every open stream before it.
LEMMA LockOrder ==
  ASSUME NEW p \in Publishers, StreamInv, OrderInv, NotifyLock(p)
  PROVE  OrderInv'
<1> USE StreamAssumption
<1>1. /\ mine[p] # 0 /\ subsMu = Nobody /\ subsMu' = p
      /\ todo' = [todo EXCEPT ![p] = subs]
      /\ ordered' => ordered /\ \A q \in Publishers : mine[q] = 0 \/ mine[p] <= mine[q]
      /\ UNCHANGED <<version, mine, drained, subs, closed, buf, seen>>
      BY DEF NotifyLock
<1>2. todo'[p] = subs /\ \A q \in Publishers : q # p => todo'[q] = todo[q]
      BY <1>1 DEF StreamInv, TypeOK
<1>3. NothingFromNowhere'
      BY <1>1 DEF OrderInv, NothingFromNowhere
<1>4. ASSUME ordered'
      PROVE  OldestFirst' /\ NewestStillComes' /\ NewestIsOwed'
  <2>1. OldestFirst /\ NewestStillComes /\ NewestIsOwed
        BY <1>1, <1>4 DEF OrderInv
  <2>2. OldestFirst'
        BY <1>1, <1>4, <2>1 DEF OldestFirst
  <2>3. NewestStillComes'
        BY <1>1, <2>1 DEF NewestStillComes
  <2>4. \A c \in subs, q \in Publishers : Owes(q, c) => Owes(q, c)'
        BY <1>1, <1>2 DEF Owes
  <2>5. NewestIsOwed'
        BY <1>1, <2>1, <2>4 DEF NewestIsOwed, Last
  <2> QED BY <2>2, <2>3, <2>5
<1> QED BY <1>3, <1>4 DEF OrderInv

\* What the drain takes back was older than the newest, or the loop is about to
\* send the newest in its place.
LEMMA DrainOrder ==
  ASSUME NEW p \in Publishers, NEW c \in Channels, StreamInv, OrderInv, Drain(p, c)
  PROVE  OrderInv'
<1> USE StreamAssumption
<1>1. /\ c \in todo[p] /\ todo' = [todo EXCEPT ![p] = @ \ {c}]
      /\ drained' = [drained EXCEPT ![p] = c]
      /\ buf' = [buf EXCEPT ![c] = 0]
      /\ drained[p] = Nobody
      /\ UNCHANGED <<version, mine, subsMu, subs, closed, seen, ordered>>
      BY DEF Drain
<1>2. /\ buf'[c] = 0 /\ \A d \in Channels : d # c => buf'[d] = buf[d]
      /\ drained'[p] = c /\ \A q \in Publishers : q # p => drained'[q] = drained[q]
      /\ todo'[p] = todo[p] \ {c} /\ \A q \in Publishers : q # p => todo'[q] = todo[q]
      BY <1>1 DEF StreamInv, TypeOK
<1>3. /\ \A q \in Publishers : mine[q] \in Nat
      /\ \A d \in Channels : buf[d] \in Nat /\ seen[d] \in Nat
      /\ subs \subseteq Channels /\ version \in Nat
      BY DEF StreamInv, TypeOK, Versions
<1>4. subsMu = p /\ mine[p] # 0 /\ mine[p] <= version
      BY <1>1 DEF StreamInv, LoopUnderLock, OrderInv, NothingFromNowhere
<1>5. NothingFromNowhere'
      BY <1>1, <1>2, <1>3 DEF OrderInv, NothingFromNowhere
<1>6. ASSUME ordered
      PROVE  OldestFirst' /\ NewestStillComes' /\ NewestIsOwed'
  <2>1. OldestFirst /\ NewestStillComes /\ NewestIsOwed
        BY <1>6 DEF OrderInv
  <2>2. OldestFirst'
        BY <1>1, <1>2, <1>3, <2>1 DEF OldestFirst
  <2>3. NewestStillComes'
        BY <1>1, <2>1 DEF NewestStillComes
  <2>4. \A d \in subs, q \in Publishers : Owes(q, d) => Owes(q, d)'
        BY <1>1, <1>2, <1>3 DEF Owes
  <2>5. Owes(p, c)'
        BY <1>1, <1>2, <1>4 DEF Owes
  <2>6. ASSUME NEW d \in subs, Last(d)' # 0
        PROVE  Last(d)' = version \/ \E q \in Publishers : mine[q] = version /\ Owes(q, d)'
    <3>1. CASE d # c
      <4>1. Last(d)' = Last(d)
            BY <1>1, <1>2, <1>3, <3>1 DEF Last
      <4> QED BY <2>1, <2>4, <2>6, <4>1 DEF NewestIsOwed
    <3>2. CASE d = c /\ mine[p] = version
          BY <2>5, <3>2
    <3>3. CASE d = c /\ mine[p] # version
      <4>1. PICK q \in Publishers : mine[q] = version
            BY <1>4, <2>1, <3>3 DEF NewestStillComes
      <4>2. Owes(q, c)'
            BY <1>1, <1>3, <1>4, <3>3, <4>1 DEF Owes
      <4> QED BY <3>3, <4>1, <4>2
    <3> QED BY <3>1, <3>2, <3>3
  <2>7. NewestIsOwed'
        BY <1>1, <2>6 DEF NewestIsOwed
  <2> QED BY <2>2, <2>3, <2>7
<1> QED BY <1>1, <1>5, <1>6 DEF OrderInv

\* The send finds room, so the stream now has what the loop holds: the newest,
\* or the one that holds the newest has not had its turn yet.
LEMMA SendOrder ==
  ASSUME NEW p \in Publishers, StreamInv, OrderInv, Send(p)
  PROVE  OrderInv'
<1> USE StreamAssumption
<1>1. PICK c \in Channels :
        c = drained[p] /\ c \in subs /\ c # Nobody /\ buf[c] = 0 /\ subsMu = p
      BY DEF Send, StreamInv, TypeOK, LoopUnderLock, SendFindsRoom
<1>2. /\ buf' = [buf EXCEPT ![c] = IF @ = 0 THEN mine[p] ELSE @]
      /\ drained' = [drained EXCEPT ![p] = Nobody]
      /\ UNCHANGED <<version, mine, subsMu, todo, subs, closed, seen, ordered>>
      BY <1>1 DEF Send
<1>3. /\ buf'[c] = mine[p] /\ \A d \in Channels : d # c => buf'[d] = buf[d]
      /\ drained'[p] = Nobody /\ \A q \in Publishers : q # p => drained'[q] = drained[q]
      BY <1>1, <1>2 DEF StreamInv, TypeOK
<1>4. /\ \A q \in Publishers : mine[q] \in Nat
      /\ \A d \in Channels : buf[d] \in Nat /\ seen[d] \in Nat
      /\ subs \subseteq Channels /\ version \in Nat
      BY DEF StreamInv, TypeOK, Versions
<1>5. mine[p] # 0 /\ mine[p] <= version
      BY <1>1 DEF StreamInv, LoopUnderLock, OrderInv, NothingFromNowhere
<1>6. NothingFromNowhere'
      BY <1>1, <1>2, <1>3, <1>4, <1>5 DEF OrderInv, NothingFromNowhere
<1>7. ASSUME ordered
      PROVE  OldestFirst' /\ NewestStillComes' /\ NewestIsOwed'
  <2>1. OldestFirst /\ NewestStillComes /\ NewestIsOwed
        BY <1>7 DEF OrderInv
  <2>2. OldestFirst'
        BY <1>1, <1>2, <1>3, <1>4, <2>1 DEF OldestFirst
  <2>3. NewestStillComes'
        BY <1>2, <2>1 DEF NewestStillComes
  <2>4. ASSUME NEW d \in subs, Last(d)' # 0
        PROVE  Last(d)' = version \/ \E q \in Publishers : mine[q] = version /\ Owes(q, d)'
    <3>1. CASE d # c
      <4>1. Last(d)' = Last(d)
            BY <1>2, <1>3, <1>4, <3>1 DEF Last
      <4>2. \A q \in Publishers : Owes(q, d) => Owes(q, d)'
            BY <1>1, <1>2, <1>3, <3>1 DEF Owes
      <4> QED BY <2>1, <2>4, <4>1, <4>2 DEF NewestIsOwed
    <3>2. CASE d = c /\ mine[p] = version
          BY <1>3, <1>5, <3>2 DEF Last
    <3>3. CASE d = c /\ mine[p] # version
      <4>1. PICK q \in Publishers : mine[q] = version
            BY <1>5, <2>1, <3>3 DEF NewestStillComes
      <4>2. Owes(q, c)'
            BY <1>1, <1>2, <1>4, <1>5, <3>3, <4>1 DEF Owes
      <4> QED BY <3>3, <4>1, <4>2
    <3> QED BY <3>1, <3>2, <3>3
  <2>5. NewestIsOwed'
        BY <1>2, <2>4 DEF NewestIsOwed
  <2> QED BY <2>2, <2>3, <2>5
<1> QED BY <1>2, <1>6, <1>7 DEF OrderInv

\* A loop that ends owes nothing, and what it held was the oldest pending.
LEMMA UnlockOrder ==
  ASSUME NEW p \in Publishers, StreamInv, OrderInv, NotifyUnlock(p)
  PROVE  OrderInv'
<1> USE StreamAssumption
<1>1. /\ subsMu = p /\ todo[p] = {} /\ drained[p] = Nobody /\ subsMu' = Nobody
      /\ mine' = [mine EXCEPT ![p] = 0]
      /\ UNCHANGED <<version, todo, drained, subs, closed, buf, seen, ordered>>
      BY DEF NotifyUnlock
<1>2. mine'[p] = 0 /\ \A q \in Publishers : q # p => mine'[q] = mine[q]
      BY <1>1 DEF StreamInv, TypeOK
<1>3. /\ \A q \in Publishers : mine[q] \in Nat
      /\ subs \subseteq Channels /\ version \in Nat
      BY DEF StreamInv, TypeOK, Versions
<1>4. mine[p] # 0 /\ mine[p] <= version
      BY <1>1 DEF OrderInv, NothingFromNowhere
<1>5. NothingFromNowhere'
      BY <1>1, <1>2, <1>3 DEF OrderInv, NothingFromNowhere
<1>6. ASSUME ordered
      PROVE  OldestFirst' /\ NewestStillComes' /\ NewestIsOwed'
  <2>1. OldestFirst /\ NewestStillComes /\ NewestIsOwed
        BY <1>6 DEF OrderInv
  <2>2. OldestFirst'
        BY <1>1, <1>2, <2>1 DEF OldestFirst
  <2>3. ASSUME NEW q \in Publishers, mine'[q] # 0, mine'[q] # version
        PROVE  \E r \in Publishers : mine'[r] = version
    <3>1. q # p /\ mine[q] # 0 /\ mine[q] # version
          BY <1>2, <2>3
    <3>2. PICK r \in Publishers : mine[r] = version
          BY <2>1, <3>1 DEF NewestStillComes
    <3>3. mine[p] <= mine[q] /\ mine[q] <= version
          BY <1>1, <2>1, <3>1 DEF OldestFirst, OrderInv, NothingFromNowhere
    <3>4. r # p
          BY <1>3, <3>1, <3>2, <3>3
    <3> QED BY <1>2, <3>2, <3>4
  <2>4. NewestStillComes'
        BY <1>1, <2>3 DEF NewestStillComes
  <2>5. \A d \in subs, q \in Publishers : Owes(q, d) => q # p /\ Owes(q, d)'
        BY <1>1, <1>2, <1>3 DEF Owes
  <2>6. NewestIsOwed'
        BY <1>1, <1>2, <2>1, <2>5 DEF NewestIsOwed, Last
  <2> QED BY <2>2, <2>4, <2>6
<1> QED BY <1>1, <1>5, <1>6 DEF OrderInv

\* A stream that opens was told nothing, one that closes no longer counts, and
\* one that reads its channel still has what it was sent.
LEMMA ChannelOrder ==
  ASSUME NEW c \in Channels, StreamInv, OrderInv, Subscribe(c) \/ Unsubscribe(c) \/ Receive(c)
  PROVE  OrderInv'
<1> USE StreamAssumption
<1>1. CASE Subscribe(c)
  <2>1. buf[c] = 0 /\ seen[c] = 0
        BY <1>1 DEF Subscribe, OrderInv, NothingFromNowhere
  <2> QED BY <1>1, <2>1
          DEF Subscribe, OrderInv, NothingFromNowhere, OldestFirst, NewestStillComes,
              NewestIsOwed, Last, Owes
<1>2. CASE Unsubscribe(c)
      BY <1>2 DEF Unsubscribe, OrderInv, NothingFromNowhere, OldestFirst, NewestStillComes,
                  NewestIsOwed, Last, Owes
<1>3. CASE Receive(c)
  <2>1. /\ c \in subs /\ buf[c] # 0 /\ buf'[c] = 0 /\ seen'[c] = buf[c]
        /\ \A d \in Channels : d # c => buf'[d] = buf[d] /\ seen'[d] = seen[d]
        /\ UNCHANGED <<version, mine, subsMu, todo, drained, subs, closed, ordered>>
        BY <1>3 DEF Receive, StreamInv, TypeOK
  <2>2. subs \subseteq Channels /\ version \in Nat /\ \A q \in Publishers : mine[q] \in Nat
        BY DEF StreamInv, TypeOK, Versions
  <2>3. NothingFromNowhere'
        BY <2>1, <2>2 DEF OrderInv, NothingFromNowhere
  <2>4. \A d \in Channels : Last(d)' = Last(d)
        BY <2>1 DEF Last
  <2>5. \A q \in Publishers, d \in Channels : Owes(q, d)' = Owes(q, d)
        BY <2>1 DEF Owes
  <2>6. ASSUME ordered
        PROVE  OldestFirst' /\ NewestStillComes' /\ NewestIsOwed'
    <3>1. OldestFirst /\ NewestStillComes /\ NewestIsOwed
          BY <2>6 DEF OrderInv
    <3>2. OldestFirst'
          BY <2>1, <2>2, <3>1 DEF OldestFirst
    <3>3. NewestStillComes'
          BY <2>1, <3>1 DEF NewestStillComes
    <3>4. NewestIsOwed'
          BY <2>1, <2>2, <2>4, <2>5, <3>1 DEF NewestIsOwed
    <3> QED BY <3>2, <3>3, <3>4
  <2> QED BY <2>1, <2>3, <2>6 DEF OrderInv
<1> QED BY <1>1, <1>2, <1>3

\* Every step keeps the order.
LEMMA NextOrder == StreamInv /\ OrderInv /\ [Next]_vars => OrderInv'
<1> SUFFICES ASSUME StreamInv, OrderInv, [Next]_vars PROVE OrderInv'
    OBVIOUS
<1>1. CASE UNCHANGED vars
      BY <1>1 DEF vars, OrderInv, NothingFromNowhere, OldestFirst, NewestStillComes,
                  NewestIsOwed, Last, Owes
<1>2. CASE \E p \in Publishers : Publish(p) \/ Republish(p) \/ Notify(p)
      BY <1>2, PublishOrder, LockOrder, DrainOrder, SendOrder, UnlockOrder DEF Notify
<1>3. CASE \E c \in Channels : Subscribe(c) \/ Unsubscribe(c) \/ Receive(c)
      BY <1>3, ChannelOrder
<1> QED BY <1>1, <1>2, <1>3 DEF Next

\* The newest snapshot is on its way to every stream that has not got it, as
\* long as publishers reach subsMu in the order they published.
THEOREM OrderInvariant == Spec => []OrderInv
BY InitOrder, NextOrder, StreamInvariant, PTL DEF Spec

\* Once every notify is done, each stream that was told anything has the
\* snapshot on the board, unless an older one overtook a newer one.
THEOREM OnlyOvertakingLeavesAStreamBehindHolds == Spec => []OnlyOvertakingLeavesAStreamBehind
<1>1. StreamInv /\ OrderInv => OnlyOvertakingLeavesAStreamBehind
      BY DEF OrderInv, NewestIsOwed, Owes, Last, OnlyOvertakingLeavesAStreamBehind
<1> QED BY <1>1, StreamInvariant, OrderInvariant, PTL
=============================================================================
