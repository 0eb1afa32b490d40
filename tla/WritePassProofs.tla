--------------------------- MODULE WritePassProofs ---------------------------
(***************************************************************************)
(* One write pass at a time, for any number of refreshers and snapshots.   *)
(* The invariant ties the slot to the passes: writing is set exactly while *)
(* a pass lives, that pass is the newest one started, and a snapshot waits *)
(* only behind a running pass and is always newer than it.                 *)
(*                                                                         *)
(* And what a pass does with an armed pull request, for any number of      *)
(* versions and restarts: MergeInv orders what was tried, what the pass    *)
(* works on and what the board shows, so that a version once refused       *)
(* cannot come back under a snapshot that is older than the refusal.       *)
(***************************************************************************)
EXTENDS MCWritePass, TLAPS

\* The inductive invariant: a snapshot waits only behind a running pass.
WritePassInv ==
  /\ TypeOK
  /\ OnePassAtATime
  /\ PassesFollowCalls
  /\ queued # 0 => live # {}

LEMMA WritePassInit == Init => WritePassInv
<1> SUFFICES ASSUME Init PROVE WritePassInv
  OBVIOUS
<1> USE MaxSnapsAssumption DEF Init
<1>1. TypeOK
  <2>1. writing \in BOOLEAN BY Zenon
  <2> QED BY <2>1 DEF TypeOK, Calls
<1>2. OnePassAtATime BY DEF OnePassAtATime
<1>3. PassesFollowCalls BY DEF PassesFollowCalls
<1> QED BY <1>1, <1>2, <1>3 DEF WritePassInv

LEMMA WritePassStep == WritePassInv /\ [Next]_vars => WritePassInv'
<1> SUFFICES ASSUME WritePassInv, [Next]_vars PROVE WritePassInv'
  OBVIOUS
<1> USE MaxSnapsAssumption DEF WritePassInv, TypeOK, Calls
<1>1. ASSUME NEW c \in Refreshers, Publish(c) PROVE WritePassInv'
  BY <1>1 DEF Publish, OnePassAtATime, PassesFollowCalls
<1>2. ASSUME NEW c \in Refreshers, Queue(c) PROVE WritePassInv'
  <2>1. TypeOK'
    <3>1. writing' \in BOOLEAN BY <1>2, Zenon DEF Queue
    <3>2. held' \subseteq Refreshers BY <1>2 DEF Queue, Bring
    <3>4. calls' = calls + 1 /\ queued' = calls + 1 BY <1>2 DEF Queue, Bring
    <3>5. UNCHANGED <<published, live, cancelled, waits, done, expired, started>>
      BY <1>2 DEF Queue
    <3> QED BY <3>1, <3>2, <3>4, <3>5
  <2>2. OnePassAtATime' BY <1>2 DEF Queue, OnePassAtATime
  <2>3. PassesFollowCalls' BY <1>2 DEF Queue, Bring, PassesFollowCalls
  <2>4. live' # {} BY <1>2 DEF Queue, OnePassAtATime
  <2> QED BY <2>1, <2>2, <2>3, <2>4
<1>3. ASSUME NEW c \in Refreshers, Start(c) PROVE WritePassInv'
  <2>1. live = {} BY <1>3 DEF Start, OnePassAtATime
  <2>2. TypeOK'
    <3>1. writing' \in BOOLEAN BY <1>3, Zenon DEF Start
    <3>2. held' \subseteq Refreshers BY <1>3 DEF Start, Bring
    <3>4. calls' = calls + 1 /\ started' = calls + 1 /\ live' = live \cup {calls + 1}
      BY <1>3 DEF Start, Bring, StartWrites
    <3>5. waits' \in [Refreshers -> 0..calls'] BY <1>3, <3>4 DEF Start
    <3>6. UNCHANGED <<published, queued, cancelled, done, expired>>
      BY <1>3 DEF Start
    <3>7. live' \subseteq 1..calls' /\ started' \in 0..calls' BY <3>4
    <3>8. /\ queued' \in 0..calls'
          /\ cancelled' \subseteq 1..calls'
          /\ done' \subseteq 1..calls'
          /\ expired' \subseteq 1..calls'
      BY <3>4, <3>6
    <3>9. published' \in 0..MaxSnaps /\ calls' \in Nat BY <3>4, <3>6
    <3> QED BY <3>1, <3>2, <3>5, <3>7, <3>8, <3>9
  <2>3. OnePassAtATime' BY <1>3, <2>1 DEF Start, StartWrites, OnePassAtATime
  <2>4. PassesFollowCalls'
    BY <1>3, <2>1 DEF Start, Bring, StartWrites, PassesFollowCalls
  <2>5. live' # {} BY <1>3 DEF Start, StartWrites
  <2> QED BY <2>2, <2>3, <2>4, <2>5
<1>4. ASSUME NEW c \in Refreshers, Return(c) PROVE WritePassInv'
  BY <1>4 DEF Return, OnePassAtATime, PassesFollowCalls
<1>5. ASSUME NEW c \in Refreshers, ReturnCancelled(c) PROVE WritePassInv'
  <2>1. cancelled' \subseteq 1..calls
    <3>1. waits[c] \in 1..calls BY <1>5 DEF ReturnCancelled
    <3>2. cancelled' = cancelled \cup {waits[c]} BY <1>5 DEF ReturnCancelled
    <3> QED BY <3>1, <3>2
  <2>2. waits' \in [Refreshers -> 0..calls] BY <1>5 DEF ReturnCancelled
  <2>3. UNCHANGED <<published, held, calls, writing, queued, live, done,
                    expired, started>>
    BY <1>5 DEF ReturnCancelled
  <2>4. TypeOK' BY <2>1, <2>2, <2>3
  <2>5. PassesFollowCalls' BY <1>5, <2>3 DEF ReturnCancelled, PassesFollowCalls
  <2> QED BY <2>3, <2>4, <2>5 DEF OnePassAtATime
<1>6. ASSUME NEW k \in live, BudgetExpires(k) PROVE WritePassInv'
  <2>1. cancelled' \subseteq 1..calls /\ expired' \subseteq 1..calls
    <3>1. cancelled' = cancelled \cup {k} /\ expired' = expired \cup {k}
      BY <1>6 DEF BudgetExpires
    <3> QED BY <3>1
  <2>2. UNCHANGED <<published, held, calls, writing, queued, live, waits,
                    done, started>>
    BY <1>6 DEF BudgetExpires
  <2>3. TypeOK' BY <2>1, <2>2
  <2> QED BY <2>2, <2>3 DEF OnePassAtATime, PassesFollowCalls
<1>7. ASSUME NEW k \in live, PassEnds(k) PROVE WritePassInv'
  <2>1. live \ {k} = {} BY DEF OnePassAtATime
  <2>a. /\ done' \subseteq 1..calls
        /\ cancelled' \subseteq 1..calls
        /\ UNCHANGED <<published, held, calls, waits, expired>>
    BY <1>7 DEF PassEnds
  <2>b. writing BY <1>7 DEF OnePassAtATime
  <2>2. CASE queued = 0
    <3>0. writing' = FALSE /\ live' = live \ {k} /\ UNCHANGED <<queued, started>>
      BY <1>7, <2>2 DEF PassEnds
    <3>a. writing' \in BOOLEAN BY <3>0, Zenon
    <3>1. TypeOK' BY <2>a, <3>0, <3>a
    <3>2. OnePassAtATime' BY <2>1, <3>0 DEF OnePassAtATime
    <3>3. PassesFollowCalls' BY <2>1, <2>a, <3>0 DEF PassesFollowCalls
    <3> QED BY <2>2, <3>0, <3>1, <3>2, <3>3
  <2>3. CASE queued # 0
    <3>0. /\ live' = (live \ {k}) \cup {queued}
          /\ started' = queued
          /\ queued' = 0
          /\ UNCHANGED writing
      BY <1>7, <2>3 DEF PassEnds, StartWrites
    <3>1. TypeOK' BY <2>3, <2>a, <3>0
    <3>2. OnePassAtATime' BY <2>1, <2>b, <3>0 DEF OnePassAtATime
    <3>3. PassesFollowCalls' BY <2>1, <2>3, <2>a, <3>0 DEF PassesFollowCalls
    <3> QED BY <3>0, <3>1, <3>2, <3>3
  <2> QED BY <2>2, <2>3
<1>8. CASE UNCHANGED vars
  BY <1>8 DEF vars, OnePassAtATime, PassesFollowCalls
<1> QED BY <1>1, <1>2, <1>3, <1>4, <1>5, <1>6, <1>7, <1>8 DEF Next

THEOREM WritePassInvariant == Spec => []WritePassInv
BY WritePassInit, WritePassStep, PTL DEF Spec

\* No two write passes run side by side (runWrites, the writing flag).
THEOREM OnePassAtATimeHolds == Spec => []OnePassAtATime
<1>1. WritePassInv => OnePassAtATime BY DEF WritePassInv
<1> QED BY <1>1, WritePassInvariant, PTL

\* Passes start in call order, and the queued one is newer (finishWrites).
THEOREM PassesFollowCallsHolds == Spec => []PassesFollowCalls
<1>1. WritePassInv => PassesFollowCalls BY DEF WritePassInv
<1> QED BY <1>1, WritePassInvariant, PTL

\* The slot and the queue of runWrites together.
THEOREM PassesAreInOrderHolds == Spec => []PassesAreInOrder
<1>1. WritePassInv => PassesAreInOrder BY DEF WritePassInv, PassesAreInOrder
<1> QED BY <1>1, WritePassInvariant, PTL

-----------------------------------------------------------------------------
(* Auto-merge. *)

AttemptRecord == [stands : {"no", "forever", "wait", "up"}, ver : AM!Versions]
PullRecord == [state : {"open", "merged", "closed"}, ver : AM!Versions, look : AM!Looks]
FailureRecord == [code : {"none", "final", "limited", "unreachable"}, ver : AM!Versions]
BarRecord == [ver : AM!Versions, stands : {"forever", "wait"}]

MergeTypes ==
  /\ pull \in PullRecord
  /\ board \in AM!Row /\ snap \in AM!Row
  /\ attempt \in AttemptRecord
  /\ failure \in FailureRecord
  /\ barred \subseteq BarRecord

\* What is seen of the pull request moves forward only: what was tried is no
\* newer than the row the pass has, and that no newer than the board's.
SightsAdvance ==
  /\ board.ver <= pull.ver /\ snap.ver <= pull.ver /\ attempt.ver <= pull.ver
  /\ board.listed => snap.ver <= board.ver /\ attempt.ver <= board.ver
  /\ snap.listed => attempt.ver <= snap.ver

\* A call under way is for the snapshot's version, which is booked as tried.
CallsAreBooked ==
  /\ pc \in {"merging", "clear"} => snap.listed /\ attempt = AM!Attempt(snap.ver, "forever")
  /\ pc \in {"empties", "disable"} => snap.look = "empty"

\* A refusal is never newer than the last try, and the refusal of the last try
\* stands as that try does.
RefusalsAreBooked ==
  /\ \A b \in barred : /\ b.ver <= attempt.ver
                       /\ b.ver = attempt.ver => b.stands = attempt.stands
  /\ pc = "merging" => \A b \in barred : b.ver # snap.ver
  /\ failure.code = "final" => /\ failure.ver <= attempt.ver
                               /\ failure.ver = attempt.ver => attempt.stands = "forever"
                               /\ pc = "merging" => failure.ver # snap.ver

\* From the load of the intents to the end of the pass the intent stands or
\* was cancelled, and a pass about to delete it saw the pull request end.
IntentsAreHeld ==
  /\ pc \in {"decide", "merging", "drop"} => armed \/ lateCancel
  /\ pull.state # "open" => ended
  /\ pc = "clear" => pull.state = "merged"
  /\ pc = "drop" => ended \/ lateCancel

MergeInv == MergeTypes /\ SightsAdvance /\ CallsAreBooked /\ RefusalsAreBooked /\ IntentsAreHeld

MergeFacts == /\ pull.ver \in Nat /\ board.ver \in Nat /\ snap.ver \in Nat /\ attempt.ver \in Nat
              /\ failure.ver \in Nat /\ \A b \in barred : b.ver \in Nat

LEMMA VersionsAreNumbers == ASSUME MergeTypes PROVE MergeFacts
<1>1. \A v \in AM!Versions : v \in Nat
      BY MergesAssumption DEF AM!Versions
<1>2. pull.ver \in AM!Versions /\ attempt.ver \in AM!Versions /\ failure.ver \in AM!Versions
      BY DEF MergeTypes, PullRecord, AttemptRecord, FailureRecord
<1>3. board.ver \in AM!Versions /\ snap.ver \in AM!Versions
      BY DEF MergeTypes, AM!Row
<1>4. \A b \in barred : b.ver \in AM!Versions
      BY DEF MergeTypes, BarRecord
<1> QED BY <1>1, <1>2, <1>3, <1>4 DEF MergeFacts

LEMMA EmptyRow ==
  /\ AM!NoRow \in AM!Row /\ AM!NoRow.ver = 0 /\ AM!NoRow.listed = FALSE
  /\ AM!NoAttempt \in AttemptRecord /\ AM!NoAttempt.ver = 0
  /\ AM!NoFailure \in FailureRecord /\ AM!NoFailure.code = "none"
  /\ [AM!NoRow EXCEPT !.reachable = TRUE] \in AM!Row
  /\ [AM!NoRow EXCEPT !.reachable = TRUE].ver = 0
  /\ [AM!NoRow EXCEPT !.reachable = TRUE].listed = FALSE
<1>1. 0 \in AM!Versions
      BY MergesAssumption DEF AM!Versions
<1>2. /\ AM!NoRow \in AM!Row /\ AM!NoRow.ver = 0 /\ AM!NoRow.listed = FALSE
      BY <1>1 DEF AM!NoRow, AM!Row, AM!Looks
<1> QED BY <1>1, <1>2 DEF AM!NoRow, AM!Row, AM!Looks, AM!NoAttempt, AttemptRecord, AM!NoFailure, FailureRecord

LEMMA MergeInit == AM!Init => MergeInv
<1> SUFFICES ASSUME AM!Init PROVE MergeInv
    OBVIOUS
<1>1. /\ pull = [state |-> "open", ver |-> 0, look |-> "busy"]
      /\ pc = "idle" /\ board = AM!NoRow /\ snap = AM!NoRow
      /\ attempt = AM!NoAttempt /\ failure = AM!NoFailure /\ barred = {}
      BY DEF AM!Init
<1>2. 0 \in AM!Versions
      BY MergesAssumption DEF AM!Versions
<1>3. pull \in PullRecord
      BY <1>1, <1>2 DEF PullRecord, AM!Looks
<1>4. MergeTypes
      BY <1>1, <1>3, EmptyRow DEF MergeTypes
<1>5. SightsAdvance
      BY <1>1, EmptyRow DEF SightsAdvance
<1>6. CallsAreBooked /\ RefusalsAreBooked
      BY <1>1, EmptyRow DEF CallsAreBooked, RefusalsAreBooked
<1>7. IntentsAreHeld
      BY <1>1 DEF IntentsAreHeld
<1> QED BY <1>4, <1>5, <1>6, <1>7 DEF MergeInv

\* What a step may do to the intent (the step half of AutoMerge's IntentIsKept).
IntentStays ==
  (armed /\ ~armed' /\ pc' # pc) => (ended \/ lateCancel \/ snap.look = "empty")

\* The forge, the refreshes and the person.
LEMMA OutsideKeepsMerges ==
  ASSUME MergeInv,
         AM!PullChanges \/ AM!Publish \/ AM!ArmAutoMerge \/ AM!CancelAutoMerge \/ AM!WaitPasses \/ AM!Restart
  PROVE  MergeInv' /\ IntentStays
<1>0. MergeTypes /\ MergeFacts
      BY VersionsAreNumbers DEF MergeInv
<1>1. CASE AM!PullChanges
  <2>1. PICK s \in {"open", "closed", "merged"}, l \in AM!Looks :
             /\ pull' = [state |-> s, ver |-> pull.ver + 1, look |-> l]
             /\ ended' = (ended \/ s # "open")
        BY <1>1 DEF AM!PullChanges
  <2>2. /\ pull.state # "merged" /\ pull.ver < MaxVer
        /\ UNCHANGED <<armed, board, pc, snap, attempt, failure, lateCancel, barred>>
        BY <1>1 DEF AM!PullChanges, AM!memory
  <2>3. pull.ver + 1 \in AM!Versions
        BY <1>0, <2>2, MergesAssumption DEF MergeFacts, AM!Versions
  <2>4. pull' \in PullRecord /\ pull'.ver = pull.ver + 1 /\ pull'.state = s
        BY <2>1, <2>3 DEF PullRecord
  <2>5. MergeTypes'
        BY <1>0, <2>2, <2>4 DEF MergeTypes
  <2>6. SightsAdvance'
        BY <1>0, <2>2, <2>4 DEF MergeInv, MergeFacts, SightsAdvance
  <2>7. CallsAreBooked' /\ RefusalsAreBooked'
        BY <2>2 DEF MergeInv, CallsAreBooked, RefusalsAreBooked
  <2>8. pull'.state # "open" => ended'
        BY <2>1, <2>4, Zenon
  <2>9. ended => ended'
        BY <2>1, Zenon
  <2>10. IntentsAreHeld'
        BY <2>2, <2>8, <2>9 DEF MergeInv, IntentsAreHeld
  <2> QED BY <2>2, <2>5, <2>6, <2>7, <2>10 DEF MergeInv, IntentStays
<1>2. CASE AM!Publish
  <2>1. /\ UNCHANGED <<pull, armed, pc, snap, attempt, failure, lateCancel, barred, ended>>
        BY <1>2 DEF AM!Publish, AM!memory, AM!history
  <2>2. \/ board' = [listed |-> pull.state = "open", reachable |-> TRUE, ver |-> pull.ver,
                     look |-> pull.look, armed |-> where = "github" /\ armed]
        \/ board' = [AM!NoRow EXCEPT !.reachable = TRUE]
        \/ board' = [board EXCEPT !.reachable = FALSE]
        BY <1>2 DEF AM!Publish
  <2>3. board' \in AM!Row /\ board'.ver <= pull.ver
        /\ (board'.listed => (board'.ver = pull.ver \/ (board.listed /\ board'.ver = board.ver)))
    <3>1. CASE board' = [listed |-> pull.state = "open", reachable |-> TRUE, ver |-> pull.ver,
                         look |-> pull.look, armed |-> where = "github" /\ armed]
      <4>1. pull.ver \in AM!Versions /\ pull.look \in AM!Looks
            BY <1>0 DEF MergeTypes, PullRecord
      <4>2. (pull.state = "open") \in BOOLEAN /\ (where = "github" /\ armed) \in BOOLEAN
            BY Zenon
      <4>3. board' \in AM!Row
            BY <3>1, <4>1, <4>2, Zenon DEF AM!Row
      <4>4. board'.ver = pull.ver
            BY <3>1
      <4> QED BY <1>0, <4>3, <4>4 DEF MergeFacts
    <3>2. CASE board' = [AM!NoRow EXCEPT !.reachable = TRUE]
          BY <1>0, <3>2, EmptyRow DEF MergeFacts
    <3>3. CASE board' = [board EXCEPT !.reachable = FALSE]
      <4>1. board' \in AM!Row /\ board'.ver = board.ver /\ board'.listed = board.listed
            BY <1>0, <3>3 DEF MergeTypes, AM!Row
      <4> QED BY <4>1 DEF MergeInv, SightsAdvance
    <3> QED BY <2>2, <3>1, <3>2, <3>3
  <2>4. MergeTypes'
        BY <1>0, <2>1, <2>3 DEF MergeTypes
  <2>5. SightsAdvance'
        BY <1>0, <2>1, <2>3 DEF MergeInv, MergeFacts, SightsAdvance
  <2>6. CallsAreBooked' /\ RefusalsAreBooked' /\ IntentsAreHeld'
        BY <2>1 DEF MergeInv, CallsAreBooked, RefusalsAreBooked, IntentsAreHeld
  <2> QED BY <2>1, <2>4, <2>5, <2>6 DEF MergeInv, IntentStays
<1>3. CASE AM!ArmAutoMerge
  <2>1. /\ ~armed /\ armed' = TRUE /\ ended' = (pull.state # "open")
        /\ UNCHANGED <<pull, board, pc, snap, attempt, failure, lateCancel, barred>>
        BY <1>3 DEF AM!ArmAutoMerge, AM!memory
  <2>2. MergeTypes' /\ SightsAdvance' /\ CallsAreBooked' /\ RefusalsAreBooked'
        BY <1>0, <2>1 DEF MergeInv, MergeTypes, SightsAdvance, CallsAreBooked, RefusalsAreBooked
  <2>3. pull.state # "open" => ended'
        BY <2>1, Zenon
  <2>4. IntentsAreHeld'
        BY <2>1, <2>3 DEF MergeInv, IntentsAreHeld
  <2> QED BY <2>1, <2>2, <2>4 DEF MergeInv, IntentStays
<1>4. CASE AM!CancelAutoMerge
  <2>1. /\ armed' = FALSE /\ lateCancel' = TRUE /\ barred' = {}
        /\ UNCHANGED <<pull, board, pc, snap, attempt, failure, ended>>
        BY <1>4 DEF AM!CancelAutoMerge, AM!memory
  <2>2. MergeTypes' /\ SightsAdvance' /\ CallsAreBooked'
        BY <1>0, <2>1 DEF MergeInv, MergeTypes, SightsAdvance, CallsAreBooked
  <2>3. RefusalsAreBooked' /\ IntentsAreHeld'
        BY <2>1 DEF MergeInv, RefusalsAreBooked, IntentsAreHeld
  <2> QED BY <2>1, <2>2, <2>3 DEF MergeInv, IntentStays
<1>5. CASE AM!WaitPasses
  <2>1. /\ UNCHANGED <<pull, armed, board, pc, snap, failure, lateCancel, ended>>
        /\ \/ /\ attempt.stands = "wait"
              /\ attempt' = [attempt EXCEPT !.stands = "up"]
              /\ barred' = {b \in barred : b.stands # "wait"}
           \/ UNCHANGED <<attempt, barred>>
        BY <1>5 DEF AM!WaitPasses
  <2>2. CASE UNCHANGED <<attempt, barred>>
        BY <1>0, <2>1, <2>2
        DEF MergeInv, MergeTypes, SightsAdvance, CallsAreBooked, RefusalsAreBooked, IntentsAreHeld, IntentStays
  <2>3. CASE /\ attempt.stands = "wait"
             /\ attempt' = [attempt EXCEPT !.stands = "up"]
             /\ barred' = {b \in barred : b.stands # "wait"}
    <3>1. attempt' \in AttemptRecord /\ attempt'.ver = attempt.ver
          BY <1>0, <2>3 DEF MergeTypes, AttemptRecord
    <3>2. MergeTypes'
          BY <1>0, <2>1, <2>3, <3>1 DEF MergeTypes
    <3>3. SightsAdvance'
          BY <2>1, <3>1 DEF MergeInv, SightsAdvance
    <3>4. pc \notin {"merging", "clear"}
          BY <2>3 DEF MergeInv, CallsAreBooked, AM!Attempt
    <3>5. CallsAreBooked' /\ IntentsAreHeld'
          BY <2>1, <3>4 DEF MergeInv, CallsAreBooked, IntentsAreHeld
    <3>6. \A b \in barred' : b \in barred /\ b.stands # "wait"
          BY <2>3
    <3>7. \A b \in barred' : b.ver <= attempt.ver /\ b.ver # attempt.ver
          BY <2>3, <3>6 DEF MergeInv, RefusalsAreBooked
    <3>8. RefusalsAreBooked'
          BY <2>1, <2>3, <3>1, <3>4, <3>7 DEF MergeInv, RefusalsAreBooked
    <3> QED BY <2>1, <3>2, <3>3, <3>5, <3>8 DEF MergeInv, IntentStays
  <2> QED BY <2>1, <2>2, <2>3
<1>6. CASE AM!Restart
  <2>1. /\ pc' = "idle" /\ snap' = AM!NoRow /\ board' = AM!NoRow /\ attempt' = AM!NoAttempt
        /\ failure' = AM!NoFailure /\ barred' = {} /\ UNCHANGED <<pull, armed, lateCancel, ended>>
        BY <1>6 DEF AM!Restart
  <2>2. MergeTypes'
        BY <1>0, <2>1, EmptyRow DEF MergeTypes
  <2>3. SightsAdvance'
        BY <1>0, <2>1, EmptyRow DEF SightsAdvance, MergeFacts
  <2>4. CallsAreBooked' /\ RefusalsAreBooked' /\ IntentsAreHeld'
        BY <2>1, EmptyRow DEF MergeInv, CallsAreBooked, RefusalsAreBooked, IntentsAreHeld
  <2> QED BY <2>1, <2>2, <2>3, <2>4 DEF MergeInv, IntentStays
<1> QED BY <1>1, <1>2, <1>3, <1>4, <1>5, <1>6

\* A pass that ends leaves nothing under way and no snapshot in hand.
LEMMA EndedPass ==
  ASSUME MergeInv, AM!EndPass, UNCHANGED <<pull, board, attempt, failure, barred>>,
         pull.state # "open" => ended'
  PROVE  MergeInv'
<1>1. pc' = "idle" /\ snap' = AM!NoRow
      BY DEF AM!EndPass
<1>2. MergeFacts
      BY VersionsAreNumbers DEF MergeInv
<1>3. MergeTypes' /\ SightsAdvance'
      BY <1>1, <1>2, EmptyRow DEF MergeInv, MergeTypes, SightsAdvance, MergeFacts
<1>4. CallsAreBooked' /\ RefusalsAreBooked'
      BY <1>1 DEF MergeInv, CallsAreBooked, RefusalsAreBooked
<1>5. IntentsAreHeld'
      BY <1>1 DEF IntentsAreHeld
<1> QED BY <1>3, <1>4, <1>5 DEF MergeInv

\* The pass up to the decision, and its ends.
LEMMA PassKeepsMerges ==
  ASSUME MergeInv,
         \/ AM!PassBegins \/ AM!PassStops \/ AM!CancelEmptyAutoMerges \/ AM!DisableSucceeds
         \/ AM!DisableFails \/ AM!LoadIntents \/ AM!AutoMergeNow \/ AM!DropIfFinished
  PROVE  MergeInv' /\ IntentStays
<1>0. MergeTypes /\ MergeFacts
      BY VersionsAreNumbers DEF MergeInv
<1>1. CASE AM!PassBegins
  <2>1. /\ pc = "idle" /\ snap' = board /\ pc' \in {"empties", "intents"}
        /\ pc' = "empties" => board.look = "empty"
        /\ UNCHANGED <<pull, armed, board, attempt, failure, lateCancel, barred, ended>>
        BY <1>1 DEF AM!PassBegins, AM!history
  <2>2. MergeTypes' /\ SightsAdvance'
        BY <1>0, <2>1 DEF MergeInv, MergeTypes, SightsAdvance, MergeFacts
  <2>3. CallsAreBooked' /\ RefusalsAreBooked' /\ IntentsAreHeld'
        BY <2>1 DEF MergeInv, CallsAreBooked, RefusalsAreBooked, IntentsAreHeld
  <2> QED BY <2>1, <2>2, <2>3 DEF MergeInv, IntentStays
<1>2. CASE AM!PassStops
  <2>1. /\ AM!EndPass
        /\ UNCHANGED <<pull, armed, board, attempt, failure, lateCancel, barred, ended>>
        BY <1>2 DEF AM!PassStops, AM!pass, AM!memory, AM!history
  <2>2. MergeInv'
        BY <2>1, EndedPass DEF MergeInv, IntentsAreHeld
  <2> QED BY <2>1, <2>2 DEF IntentStays
<1>3. CASE AM!CancelEmptyAutoMerges
  <2>1. /\ pc = "empties"
        /\ pc' \in {"disable", "intents"}
        /\ UNCHANGED <<pull, armed, board, snap, attempt, failure, lateCancel, barred, ended>>
        BY <1>3 DEF AM!CancelEmptyAutoMerges, AM!pass, AM!history
  <2>2. MergeTypes' /\ SightsAdvance'
        BY <1>0, <2>1 DEF MergeInv, MergeTypes, SightsAdvance
  <2>3. CallsAreBooked' /\ RefusalsAreBooked' /\ IntentsAreHeld'
        BY <2>1 DEF MergeInv, CallsAreBooked, RefusalsAreBooked, IntentsAreHeld
  <2> QED BY <2>1, <2>2, <2>3 DEF MergeInv, IntentStays
<1>4. CASE AM!DisableSucceeds
  <2>1. /\ pc = "disable" /\ pc' = "intents" /\ failure' = AM!NoFailure /\ barred' = {}
        /\ UNCHANGED <<pull, board, snap, attempt, lateCancel, ended>>
        BY <1>4 DEF AM!DisableSucceeds, AM!pass
  <2>2. MergeTypes' /\ SightsAdvance'
        BY <1>0, <2>1, EmptyRow DEF MergeInv, MergeTypes, SightsAdvance
  <2>3. CallsAreBooked' /\ RefusalsAreBooked' /\ IntentsAreHeld'
        BY <2>1, EmptyRow DEF MergeInv, CallsAreBooked, RefusalsAreBooked, IntentsAreHeld
  <2>4. IntentStays
        BY <2>1 DEF MergeInv, CallsAreBooked, IntentStays
  <2> QED BY <2>2, <2>3, <2>4 DEF MergeInv
<1>5. CASE AM!DisableFails
  <2>1. /\ pc = "disable" /\ pc' = "intents"
        /\ UNCHANGED <<pull, armed, board, snap, attempt, failure, lateCancel, barred, ended>>
        BY <1>5 DEF AM!DisableFails, AM!pass, AM!history
  <2>2. MergeTypes' /\ SightsAdvance'
        BY <1>0, <2>1 DEF MergeInv, MergeTypes, SightsAdvance
  <2>3. CallsAreBooked' /\ RefusalsAreBooked' /\ IntentsAreHeld'
        BY <2>1 DEF MergeInv, CallsAreBooked, RefusalsAreBooked, IntentsAreHeld
  <2> QED BY <2>1, <2>2, <2>3 DEF MergeInv, IntentStays
<1>6. CASE AM!LoadIntents
  <2>1. pc = "intents" /\ UNCHANGED <<pull, armed, board, ended>>
        BY <1>6 DEF AM!LoadIntents, AM!pass
  <2>2. CASE AM!Intent
    <3>1. /\ armed /\ pc' = "decide" /\ UNCHANGED <<snap, attempt, failure, barred>>
          BY <1>6, <2>2 DEF AM!LoadIntents, AM!Intent
    <3>2. MergeTypes' /\ SightsAdvance'
          BY <1>0, <2>1, <3>1 DEF MergeInv, MergeTypes, SightsAdvance
    <3>3. CallsAreBooked' /\ RefusalsAreBooked' /\ IntentsAreHeld'
          BY <2>1, <3>1 DEF MergeInv, CallsAreBooked, RefusalsAreBooked, IntentsAreHeld
    <3> QED BY <2>1, <3>2, <3>3 DEF MergeInv, IntentStays
  <2>3. CASE ~AM!Intent
    <3>1. /\ pc' = "idle" /\ snap' = AM!NoRow /\ attempt' = AM!NoAttempt
          /\ failure' = AM!NoFailure /\ barred' = {}
          BY <1>6, <2>3 DEF AM!LoadIntents, AM!EndPass
    <3>2. MergeTypes' /\ SightsAdvance'
          BY <1>0, <2>1, <3>1, EmptyRow DEF MergeInv, MergeTypes, SightsAdvance, MergeFacts
    <3>3. CallsAreBooked' /\ RefusalsAreBooked' /\ IntentsAreHeld'
          BY <2>1, <3>1, EmptyRow DEF MergeInv, CallsAreBooked, RefusalsAreBooked, IntentsAreHeld
    <3> QED BY <2>1, <3>2, <3>3 DEF MergeInv, IntentStays
  <2> QED BY <2>2, <2>3
<1>7. CASE AM!AutoMergeNow
  <2>1. /\ pc = "decide" /\ snap.listed
        /\ UNCHANGED <<pull, armed, board, failure, lateCancel, barred, ended>>
        BY <1>7 DEF AM!AutoMergeNow, AM!pass, AM!history
  <2>2. CASE snap.look = "ready" /\ ~AM!Stands(attempt, snap.ver)
    <3>1. /\ attempt' = AM!Attempt(snap.ver, "forever") /\ pc' = "merging" /\ UNCHANGED snap
          BY <1>7, <2>2 DEF AM!AutoMergeNow
    <3>2. snap.ver \in AM!Versions
          BY <1>0 DEF MergeTypes, AM!Row
    <3>3. attempt' \in AttemptRecord /\ attempt'.ver = snap.ver /\ attempt'.stands = "forever"
          BY <3>1, <3>2 DEF AM!Attempt, AttemptRecord
    <3>4. MergeTypes' /\ SightsAdvance'
          BY <1>0, <2>1, <3>1, <3>3 DEF MergeInv, MergeTypes, SightsAdvance, MergeFacts
    <3>5. CallsAreBooked' /\ IntentsAreHeld'
          BY <2>1, <3>1 DEF MergeInv, CallsAreBooked, IntentsAreHeld
    <3>6. attempt.ver # snap.ver \/ attempt.stands \notin {"forever", "wait"}
          BY <2>2 DEF AM!Stands
    <3>7. attempt.ver <= snap.ver
          BY <2>1 DEF MergeInv, SightsAdvance
    <3>8. \A b \in barred : b.ver <= snap.ver /\ b.ver # snap.ver
      <4>1. TAKE b \in barred
      <4>2. b.ver <= attempt.ver /\ (b.ver = attempt.ver => b.stands = attempt.stands)
            BY DEF MergeInv, RefusalsAreBooked
      <4>3. b.stands \in {"forever", "wait"}
            BY <1>0 DEF MergeTypes, BarRecord
      <4>4. b.ver \in Nat /\ attempt.ver \in Nat /\ snap.ver \in Nat
            BY <1>0 DEF MergeFacts
      <4> QED BY <3>6, <3>7, <4>2, <4>3, <4>4
    <3>9. failure.code = "final" => failure.ver <= snap.ver /\ failure.ver # snap.ver
          BY <1>0, <3>6, <3>7 DEF MergeInv, RefusalsAreBooked, MergeFacts
    <3>10. RefusalsAreBooked'
          BY <2>1, <3>1, <3>3, <3>8, <3>9 DEF RefusalsAreBooked
    <3> QED BY <2>1, <3>4, <3>5, <3>10 DEF MergeInv, IntentStays
  <2>3. CASE ~(snap.look = "ready" /\ ~AM!Stands(attempt, snap.ver))
    <3>1. AM!EndPass /\ UNCHANGED attempt
          BY <1>7, <2>3 DEF AM!AutoMergeNow
    <3>2. MergeInv'
          BY <2>1, <3>1, EndedPass DEF MergeInv, IntentsAreHeld
    <3> QED BY <2>1, <3>2 DEF IntentStays
  <2> QED BY <2>2, <2>3
<1>8. CASE AM!DropIfFinished
  <2>1. /\ UNCHANGED <<pull, armed, board, attempt, failure, lateCancel, barred, ended>>
        /\ pc = "decide"
        /\ (pull.state # "open" /\ pc' = "drop" /\ UNCHANGED snap) \/ AM!EndPass
        BY <1>8 DEF AM!DropIfFinished, AM!pass, AM!memory, AM!history
  <2>2. CASE pull.state # "open" /\ pc' = "drop" /\ UNCHANGED snap
    <3>1. MergeTypes' /\ SightsAdvance'
          BY <1>0, <2>1, <2>2 DEF MergeInv, MergeTypes, SightsAdvance
    <3>2. CallsAreBooked' /\ RefusalsAreBooked' /\ IntentsAreHeld'
          BY <2>1, <2>2 DEF MergeInv, CallsAreBooked, RefusalsAreBooked, IntentsAreHeld
    <3> QED BY <2>1, <3>1, <3>2 DEF MergeInv, IntentStays
  <2>3. CASE AM!EndPass
    <3>1. MergeInv'
          BY <2>1, <2>3, EndedPass DEF MergeInv, IntentsAreHeld
    <3> QED BY <2>1, <3>1 DEF IntentStays
  <2> QED BY <2>1, <2>2, <2>3
<1> QED BY <1>1, <1>2, <1>3, <1>4, <1>5, <1>6, <1>7, <1>8

\* A merge that was not made: the try of this version waits or stands, and no
\* older refusal speaks of it.
LEMMA RefusedMerge ==
  ASSUME MergeInv, pc = "merging", AM!EndPass, UNCHANGED <<board, armed>>,
         NEW stands \in {"forever", "wait"},
         attempt' = AM!Attempt(snap.ver, stands),
         barred' = barred \cup {AM!Bar(snap.ver, stands)},
         \/ UNCHANGED failure
         \/ stands = "wait" /\ failure' \in FailureRecord /\ failure'.code # "final"
         \/ stands = "forever" /\ failure' \in FailureRecord /\ failure'.ver = snap.ver,
         pull' \in PullRecord, pull'.ver = pull.ver, pull'.state # "open" => ended'
  PROVE  MergeInv'
<1>0. MergeTypes /\ MergeFacts
      BY VersionsAreNumbers DEF MergeInv
<1>1. pc' = "idle" /\ snap' = AM!NoRow
      BY DEF AM!EndPass
<1>2. snap.ver \in AM!Versions
      BY <1>0 DEF MergeTypes, AM!Row
<1>3. attempt' \in AttemptRecord /\ attempt'.ver = snap.ver /\ attempt'.stands = stands
      BY <1>2 DEF AM!Attempt, AttemptRecord
<1>4. AM!Bar(snap.ver, stands) \in BarRecord
      /\ AM!Bar(snap.ver, stands).ver = snap.ver /\ AM!Bar(snap.ver, stands).stands = stands
      BY <1>2 DEF AM!Bar, BarRecord
<1>5. MergeTypes'
      BY <1>0, <1>1, <1>3, <1>4, EmptyRow DEF MergeTypes
<1>6. attempt.ver = snap.ver /\ attempt.stands = "forever"
      BY DEF MergeInv, CallsAreBooked, AM!Attempt
<1>7. SightsAdvance'
      BY <1>0, <1>1, <1>3, EmptyRow DEF MergeInv, SightsAdvance, MergeFacts
<1>8. CallsAreBooked' /\ IntentsAreHeld'
      BY <1>1 DEF CallsAreBooked, IntentsAreHeld
<1>9. \A b \in barred' : /\ b.ver <= attempt'.ver
                         /\ b.ver = attempt'.ver => b.stands = attempt'.stands
  <2>1. TAKE b \in barred'
  <2>2. CASE b \in barred
        BY <1>3, <1>6, <2>2 DEF MergeInv, RefusalsAreBooked
  <2>3. CASE b = AM!Bar(snap.ver, stands)
        BY <1>0, <1>3, <1>4, <2>3 DEF MergeFacts
  <2> QED BY <2>1, <2>2, <2>3
<1>10. failure'.code = "final" => /\ failure'.ver <= attempt'.ver
                                  /\ failure'.ver = attempt'.ver => attempt'.stands = "forever"
  <2>1. CASE UNCHANGED failure
        BY <1>3, <1>6, <2>1 DEF MergeInv, RefusalsAreBooked
  <2>2. CASE stands = "forever" /\ failure' \in FailureRecord /\ failure'.ver = snap.ver
        BY <1>0, <1>3, <2>2 DEF MergeFacts
  <2> QED BY <2>1, <2>2
<1>11. RefusalsAreBooked'
      BY <1>1, <1>9, <1>10 DEF RefusalsAreBooked
<1> QED BY <1>5, <1>7, <1>8, <1>11 DEF MergeInv

\* The calls and what follows them.
LEMMA CallsKeepMerges ==
  ASSUME MergeInv, AM!Call \/ AM!RecordMerged \/ AM!DropIntent
  PROVE  MergeInv' /\ IntentStays
<1>0. MergeTypes /\ MergeFacts
      BY VersionsAreNumbers DEF MergeInv
<1>m. ASSUME pull' = [pull EXCEPT !.state = "merged"]
      PROVE  pull' \in PullRecord /\ pull'.ver = pull.ver /\ pull'.state = "merged"
      BY <1>0, <1>m DEF MergeTypes, PullRecord
<1>p. pull \in PullRecord /\ (pull.state # "open" => ended)
      BY <1>0 DEF MergeTypes, MergeInv, IntentsAreHeld
<1>1. CASE AM!MergeSucceeds
  <2>1. /\ pc = "merging" /\ pull' = [pull EXCEPT !.state = "merged"] /\ ended' = TRUE /\ pc' = "clear"
        /\ UNCHANGED <<armed, board, snap, attempt, failure, lateCancel, barred>>
        BY <1>1 DEF AM!MergeSucceeds, AM!memory
  <2>2. MergeTypes' /\ SightsAdvance'
        BY <1>0, <1>m, <2>1 DEF MergeInv, MergeTypes, SightsAdvance
  <2>3. CallsAreBooked' /\ RefusalsAreBooked' /\ IntentsAreHeld'
        BY <1>m, <2>1 DEF MergeInv, CallsAreBooked, RefusalsAreBooked, IntentsAreHeld
  <2> QED BY <2>1, <2>2, <2>3 DEF MergeInv, IntentStays
<1>2. CASE AM!MergeRefused
  <2>1. PICK code \in {"final", "limited", "unreachable"} :
             /\ failure' = [code |-> code, ver |-> snap.ver]
             /\ attempt' = IF code = "final" THEN attempt ELSE AM!Attempt(snap.ver, "wait")
             /\ barred' = barred \cup {AM!Bar(snap.ver, attempt'.stands)}
        BY <1>2 DEF AM!MergeRefused
  <2>2. /\ pc = "merging" /\ AM!EndPass /\ UNCHANGED <<board, armed>>
        /\ UNCHANGED <<pull, ended>> \/ (pull' = [pull EXCEPT !.state = "merged"] /\ ended' = TRUE)
        BY <1>2 DEF AM!MergeRefused
  <2>3. pull' \in PullRecord /\ pull'.ver = pull.ver /\ (pull'.state # "open" => ended')
        BY <1>m, <1>p, <2>2
  <2>4. snap.ver \in AM!Versions
        BY <1>0 DEF MergeTypes, AM!Row
  <2>5. failure' \in FailureRecord /\ failure'.ver = snap.ver /\ failure'.code = code
        BY <2>1, <2>4 DEF FailureRecord
  <2>6. attempt = AM!Attempt(snap.ver, "forever")
        BY <2>2 DEF MergeInv, CallsAreBooked
  <2>7. CASE code = "final"
    <3>1. attempt' = AM!Attempt(snap.ver, "forever") /\ attempt'.stands = "forever"
          BY <2>1, <2>6, <2>7 DEF AM!Attempt
    <3> QED BY <2>1, <2>2, <2>3, <2>5, <3>1, RefusedMerge DEF IntentStays
  <2>8. CASE code # "final"
    <3>1. attempt' = AM!Attempt(snap.ver, "wait") /\ attempt'.stands = "wait"
          BY <2>1, <2>8 DEF AM!Attempt
    <3> QED BY <2>1, <2>2, <2>3, <2>5, <2>8, <3>1, RefusedMerge DEF IntentStays
  <2> QED BY <2>7, <2>8
<1>3. CASE AM!MergeCutOff
  <2>1. /\ pc = "merging" /\ AM!EndPass /\ UNCHANGED <<board, armed, failure>>
        /\ attempt' = AM!Attempt(snap.ver, "wait")
        /\ barred' = barred \cup {AM!Bar(snap.ver, "wait")}
        /\ UNCHANGED <<pull, ended>> \/ (pull' = [pull EXCEPT !.state = "merged"] /\ ended' = TRUE)
        BY <1>3 DEF AM!MergeCutOff
  <2>2. pull' \in PullRecord /\ pull'.ver = pull.ver /\ (pull'.state # "open" => ended')
        BY <1>m, <1>p, <2>1
  <2>3. MergeInv'
        BY <2>1, <2>2, RefusedMerge
  <2> QED BY <2>1, <2>3 DEF IntentStays
<1>4. CASE AM!RecordMerged
  <2>1. /\ pc = "clear" /\ barred' \in {barred, {}} /\ failure' = AM!NoFailure
        /\ board' = [board EXCEPT !.listed = FALSE]
        /\ pc' = "idle" /\ snap' = AM!NoRow
        /\ UNCHANGED <<pull, attempt, lateCancel, ended>>
        BY <1>4 DEF AM!RecordMerged, AM!EndPass
  <2>2. board' \in AM!Row /\ board'.ver = board.ver /\ board'.listed = FALSE
        BY <1>0, <2>1 DEF MergeTypes, AM!Row
  <2>3. MergeTypes'
        BY <1>0, <2>1, <2>2, EmptyRow DEF MergeTypes
  <2>4. SightsAdvance'
        BY <1>0, <2>1, <2>2, EmptyRow DEF MergeInv, SightsAdvance, MergeFacts
  <2>5. CallsAreBooked' /\ RefusalsAreBooked' /\ IntentsAreHeld'
        BY <2>1, EmptyRow DEF MergeInv, CallsAreBooked, RefusalsAreBooked, IntentsAreHeld
  <2>6. IntentStays
        BY <2>1 DEF MergeInv, IntentsAreHeld, IntentStays
  <2> QED BY <2>3, <2>4, <2>5, <2>6 DEF MergeInv
<1>5. CASE AM!DropIntent
  <2>1. /\ pc = "drop" /\ barred' \in {barred, {}} /\ pc' = "idle" /\ snap' = AM!NoRow
        /\ UNCHANGED <<pull, board, attempt, failure, lateCancel, ended>>
        BY <1>5 DEF AM!DropIntent, AM!EndPass, AM!pass, AM!memory
  <2>2. MergeTypes' /\ SightsAdvance'
        BY <1>0, <2>1, EmptyRow DEF MergeInv, MergeTypes, SightsAdvance, MergeFacts
  <2>3. CallsAreBooked' /\ RefusalsAreBooked' /\ IntentsAreHeld'
        BY <2>1 DEF MergeInv, CallsAreBooked, RefusalsAreBooked, IntentsAreHeld
  <2>4. IntentStays
        BY <2>1 DEF MergeInv, IntentsAreHeld, IntentStays
  <2> QED BY <2>2, <2>3, <2>4 DEF MergeInv
<1> QED BY <1>1, <1>2, <1>3, <1>4, <1>5 DEF AM!Call

LEMMA MergesStutter ==
  ASSUME MergeInv, UNCHANGED mergeVars
  PROVE  MergeInv' /\ UNCHANGED AM!vars
<1>1. UNCHANGED <<where, pull, armed, board, waiting, pc, snap, attempt, cancelAttempt, failure,
                  cancelledHere, restarts, lateCancel, barred, ended>>
      BY DEF mergeVars
<1>2. MergeTypes' /\ SightsAdvance' /\ CallsAreBooked' /\ RefusalsAreBooked' /\ IntentsAreHeld'
      BY <1>1 DEF MergeInv, MergeTypes, SightsAdvance, CallsAreBooked, RefusalsAreBooked, IntentsAreHeld
<1>3. UNCHANGED AM!vars
      BY <1>1 DEF AM!vars, AM!memory, AM!history
<1> QED BY <1>2, <1>3 DEF MergeInv

LEMMA MergeRunStep ==
  MergeInv /\ [MCNext]_<<part, vars, mergeVars>>
    => MergeInv' /\ [(armed /\ ~armed' /\ pc' # pc) => (ended \/ lateCancel \/ snap.look = "empty")]_(AM!vars)
<1> SUFFICES ASSUME MergeInv, [MCNext]_<<part, vars, mergeVars>>
             PROVE  MergeInv' /\ [(armed /\ ~armed' /\ pc' # pc)
                                    => (ended \/ lateCancel \/ snap.look = "empty")]_(AM!vars)
    OBVIOUS
<1>1. AM!Next \/ UNCHANGED mergeVars
      BY DEF MCNext
<1>2. CASE AM!Next
  <2>1. MergeInv' /\ IntentStays
        BY <1>2, OutsideKeepsMerges, PassKeepsMerges, CallsKeepMerges DEF AM!Next, AM!PassStep
  <2> QED BY <2>1 DEF IntentStays
<1>3. CASE UNCHANGED mergeVars
      BY <1>3, MergesStutter
<1> QED BY <1>1, <1>2, <1>3

\* The invariant of auto-merge while pushes, refreshes, cancels and restarts
\* meet its passes (auto_merge.go).
THEOREM MergeInvariant == MCSpec => []MergeInv
<1>1. MCInit => MergeInv
      BY MergeInit DEF MCInit
<1>2. MergeInv /\ [MCNext]_<<part, vars, mergeVars>> => MergeInv'
      BY MergeRunStep
<1> QED BY <1>1, <1>2, PTL DEF MCSpec

\* For any number of versions and restarts: auto-merge merges what is armed and
\* nothing else, leaves a refused version alone for as long as the refusal
\* stands, retries by itself only after an outage, and keeps the intent while
\* the pull request is open (auto_merge.go).
THEOREM MergesAreWantedHolds == MCSpec => MergesAreWanted
<1>1. MergeInv => AM!OnlyTheArmedAreMerged /\ AM!RefusalStands /\ AM!OnlyAnOutageResumes
  <2> SUFFICES ASSUME MergeInv
               PROVE  AM!OnlyTheArmedAreMerged /\ AM!RefusalStands /\ AM!OnlyAnOutageResumes
      OBVIOUS
  <2>1. AM!OnlyTheArmedAreMerged
        BY DEF MergeInv, IntentsAreHeld, AM!OnlyTheArmedAreMerged
  <2>2. AM!RefusalStands
        BY DEF MergeInv, RefusalsAreBooked, AM!RefusalStands
  <2>3. AM!OnlyAnOutageResumes
        BY DEF MergeInv, RefusalsAreBooked, AM!OnlyAnOutageResumes, AM!Stopped
  <2> QED BY <2>1, <2>2, <2>3
<1>2. MergeInv /\ [MCNext]_<<part, vars, mergeVars>>
        => [(armed /\ ~armed' /\ pc' # pc) => (ended \/ lateCancel \/ snap.look = "empty")]_(AM!vars)
      BY MergeRunStep
<1> QED BY <1>1, <1>2, MergeInvariant, PTL DEF MCSpec, MergesAreWanted, AM!IntentIsKept
=============================================================================
