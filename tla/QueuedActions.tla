---------------------------- MODULE QueuedActions ----------------------------
(***************************************************************************)
(* The actions a user queued for a forge's rate-limit reset                *)
(* (internal/dashboard/queued_runner.go, its table in internal/settings    *)
(* and its handlers in internal/api/queued_actions.go).  HTTP handlers     *)
(* write the table; one scheduler goroutine sleeps until the earliest row  *)
(* is due, reads the board fresh, decides every due row and records what   *)
(* came of it.  The process may restart at any point: rows survive it, the *)
(* scheduler's place, the wake token and the recorded requests do not.     *)
(*                                                                         *)
(* Every time is relative to now, in ticks, and Tick counts it down, so    *)
(* the clock itself is unbounded.  One forge is modelled: the scheduler    *)
(* decides each row against its own forge's health only.                   *)
(***************************************************************************)
EXTENDS Integers, FiniteSets, FiniteSetsExt

CONSTANTS
  Clients,      \* HTTP handlers that enqueue
  Targets,      \* an action on one pull request: what a row asks for
  MaxItems,     \* bound: rows inserted in one behaviour
  MaxRestarts,  \* bound: restarts in one behaviour
  MaxReset,     \* bound: how far ahead a forge's reset may be
  Buffer,       \* queuedBuffer: pad past the reset
  Minute,       \* the wait after the queue could not be loaded
  Retry,        \* queuedUnreachableRetry
  GiveUp,       \* queuedUnreachableGiveUp
  Keep,         \* queuedFinishedKeep
  Day           \* the wait with nothing queued

ASSUME TargetsAssumption == Targets # {}

ASSUME TimesAssumption ==
  /\ MaxItems \in Nat /\ MaxRestarts \in Nat /\ MaxReset \in Nat
  /\ Buffer \in Nat /\ Minute \in Nat /\ Retry \in Nat
  /\ GiveUp \in Nat /\ Buffer <= GiveUp /\ Keep \in Nat /\ Day \in Nat

Ids == 1..MaxItems

VARIABLES
  items,      \* the queued_actions table, by row id
  wake,       \* cfg.wake holds its one token
  pc,         \* where the scheduler stands
  alarm,      \* the scheduler's timer
  due,        \* ids of the rows it still has to decide in this pass
  snap,       \* run.snap: the board this pass decides with
  noted,      \* the requests run.snap shows on its pull requests
  answer,     \* what the forge said to the call in flight
  client,     \* each handler's progress between SELECT, INSERT and the wake-up
  board,      \* what the aggregator shows
  requests,   \* targets with a request recorded on the board (in memory)
  forge,      \* external: the forge itself
  restarts,   \* history: restarts so far
  resetAt,    \* history: when each row's forge said its budget comes back
  cancelled,  \* history: waiting rows cancelled before the pass read them again
  asked       \* history: rows asked for, unless their request left the board

vars == <<items, wake, pc, alarm, due, snap, noted, answer, client, board, requests,
          forge, restarts, resetAt, cancelled, asked>>

runnerVars == <<wake, pc, alarm, due, snap, noted, answer>>
history == <<restarts, resetAt, cancelled, asked>>

Oldest == -Max({GiveUp, Keep + 1, Buffer + 1})
Furthest == Max({MaxReset, Retry})
Times == Oldest..Furthest

\* A row's status.  "unused" is an id not handed out yet, "gone" a row that a
\* cancel or the prune deleted; "queued" waits, the others are final.
Statuses == {"unused", "queued", "done", "skipped", "failed", "gone"}
Finished == {"done", "skipped", "failed"}

\* at is run_at while the row waits and finished_at once it is final.
Row == [status : Statuses, target : Targets, at : Times]
NoRow == [status |-> "unused", target |-> CHOOSE t \in Targets : TRUE, at |-> 0]

\* What the board knows of the forge: "absent" without a source for it; until
\* is the reset of a spent budget, 0 without one; behind the targets whose pull
\* request is listed and behind its base.
Board == [health : {"absent", "up", "down"}, until : 0..MaxReset, behind : SUBSET Targets]
NoBoard == [health |-> "absent", until |-> 0, behind |-> {}]

Forge == [up : BOOLEAN, resetIn : 0..MaxReset, behind : SUBSET Targets]

Places == {"plan", "sleep", "load", "refresh", "reload", "run", "call", "called"}
Answers == {"none", "ok", "already", "refused", "limited"}
NoClient == [at |-> "idle", target |-> NoRow.target, runAt |-> 0]

TypeOK ==
  /\ items \in [Ids -> Row]
  /\ wake \in BOOLEAN
  /\ pc \in Places
  /\ alarm \in 0..Max({Day, Minute, Furthest + Buffer})
  /\ due \in SUBSET Ids
  /\ snap \in Board
  /\ noted \in SUBSET Targets
  /\ answer \in Answers
  /\ client \in [Clients -> [at : {"idle", "looked", "inserted"},
                             target : Targets, runAt : 0..MaxReset]]
  /\ board \in Board
  /\ requests \in SUBSET Targets
  /\ forge \in Forge
  /\ restarts \in 0..MaxRestarts
  /\ resetAt \in [Ids -> Times]
  /\ cancelled \in SUBSET Ids
  /\ asked \in SUBSET Ids

Init ==
  /\ items = [i \in Ids |-> NoRow]
  /\ wake = FALSE
  /\ pc = "plan"
  /\ alarm = 0
  /\ due = {}
  /\ snap = NoBoard
  /\ noted = {}
  /\ answer = "none"
  /\ client = [c \in Clients |-> NoClient]
  /\ board = [NoBoard EXCEPT !.health = "down"]
  /\ requests = {}
  /\ forge = [up |-> TRUE, resetIn |-> MaxReset, behind |-> Targets]
  /\ restarts = 0
  /\ resetAt = [i \in Ids |-> 0]
  /\ cancelled = {}
  /\ asked = {}

Waiting == {i \in Ids : items[i].status = "queued"}

-----------------------------------------------------------------------------
(* Time, the forge and the board around the queue *)

CountDown(n, least) == Max({n - 1, least})

Tick ==
  /\ items' = [i \in Ids |-> [items[i] EXCEPT !.at =
                 IF items[i].status \in {"unused", "gone"} THEN @ ELSE CountDown(@, Oldest)]]
  /\ resetAt' = [i \in Ids |-> IF i \in Waiting THEN CountDown(resetAt[i], Oldest) ELSE 0]
  /\ alarm' = CountDown(alarm, 0)
  /\ snap' = [snap EXCEPT !.until = CountDown(@, 0)]
  /\ board' = [board EXCEPT !.until = CountDown(@, 0)]
  /\ forge' = [forge EXCEPT !.resetIn = CountDown(@, 0)]
  /\ client' = [c \in Clients |-> [client[c] EXCEPT !.runAt = CountDown(@, 0)]]
  /\ UNCHANGED <<wake, pc, due, noted, answer, requests, restarts, cancelled, asked>>

\* External: the forge goes down or comes back, spends its budget, or a push,
\* a merge or a close changes whether a pull request is open and behind.
ForgeChanges ==
  /\ \/ forge' = [forge EXCEPT !.up = ~@]
     \/ forge' = [forge EXCEPT !.resetIn = MaxReset]
     \/ \E t \in Targets \ forge.behind : forge' = [forge EXCEPT !.behind = @ \union {t}]
     \/ \E t \in forge.behind : forge' = [forge EXCEPT !.behind = @ \ {t}]
  /\ forge' # forge
  /\ UNCHANGED <<items, runnerVars, client, board, requests, history>>

\* What one full refresh makes of the board: a forge with a spent budget is not
\* called until its reset, one that fails keeps its last rows, and the failed
\* call of a limited forge reports the reset.
Refreshed ==
  CASE board.health = "absent" -> board
    [] board.health # "absent" /\ board.until > 0 -> board
    [] board.health # "absent" /\ board.until = 0 /\ ~forge.up ->
         [board EXCEPT !.health = "down"]
    [] board.health # "absent" /\ board.until = 0 /\ forge.up /\ forge.resetIn > 0 ->
         [board EXCEPT !.health = "down", !.until = forge.resetIn]
    [] OTHER -> [health |-> "up", until |-> 0,
                 behind |-> forge.behind]

\* A request leaves the registry once a refresh shows the branch caught up or
\* the pull request gone, or long after it expired.
Landed(b) == {t \in requests : b.health = "up" /\ b.until = 0 /\ t \notin b.behind}

Forget(gone) ==
  /\ requests' = requests \ gone
  /\ asked' = {i \in asked : items[i].target \notin gone}

\* The periodic refresh, a webhook's, or another client's.
BackgroundRefresh ==
  /\ board' = Refreshed
  /\ Forget(Landed(board'))
  /\ <<board', requests'>> # <<board, requests>>
  /\ UNCHANGED <<items, runnerVars, client, forge, restarts, resetAt, cancelled>>

RequestExpires ==
  /\ \E t \in requests : Forget({t})
  /\ UNCHANGED <<items, runnerVars, client, board, forge, restarts, resetAt, cancelled>>

-----------------------------------------------------------------------------
(* The HTTP handlers *)

\* handleQueuedActionsCreate up to the SELECT of EnqueueQueuedAction: the forge
\* must be limited, the pull request on the board and behind.  A row already
\* waiting for the target ends the request.
Lookup(c, t) ==
  /\ client[c].at = "idle"
  /\ board.until > 0
  /\ t \in board.behind
  /\ ~ \E i \in Waiting : items[i].target = t
  /\ client' = [client EXCEPT ![c] = [at |-> "looked", target |-> t, runAt |-> board.until]]
  /\ UNCHANGED <<items, runnerVars, board, requests, forge, history>>

\* The INSERT.
Insert(c) ==
  /\ client[c].at = "looked"
  /\ \E i \in Ids :
       /\ items[i].status = "unused"
       /\ \A j \in 1..(i - 1) : items[j].status # "unused"
       /\ items' = [items EXCEPT ![i] = [status |-> "queued", target |-> client[c].target,
                                         at |-> client[c].runAt]]
       /\ resetAt' = [resetAt EXCEPT ![i] = client[c].runAt]
  /\ client' = [client EXCEPT ![c].at = "inserted"]
  /\ UNCHANGED <<runnerVars, board, requests, forge, restarts, cancelled, asked>>

\* Slip: answer the client without telling the scheduler.
QueuedActionsChanged_Dropped(c) ==
  /\ client[c].at = "inserted"
  /\ client' = [client EXCEPT ![c] = NoClient]
  /\ UNCHANGED <<items, runnerVars, board, requests, forge, history>>

\* QueuedActionsChanged: a send that never blocks on a channel of one.
QueuedActionsChanged(c) ==
  /\ client[c].at = "inserted"
  /\ wake' = TRUE
  /\ client' = [client EXCEPT ![c] = NoClient]
  /\ UNCHANGED <<items, pc, alarm, due, snap, noted, answer, board, requests, forge, history>>

\* handleQueuedActionsCancel: DELETE by id, waiting or finished, then wake.
Cancel(i) ==
  /\ items[i].status \in {"queued"} \union Finished
  /\ items' = [items EXCEPT ![i].status = "gone", ![i].at = 0]
  /\ wake' = TRUE
  /\ cancelled' = IF items[i].status = "queued" /\ pc \notin {"run", "call", "called"}
                  THEN cancelled \union {i} ELSE cancelled
  /\ UNCHANGED <<pc, alarm, due, snap, noted, answer, client, board, requests, forge,
                 restarts, resetAt, asked>>

-----------------------------------------------------------------------------
(* The scheduler *)

DueIn(i) == items[i].at + Buffer

\* Slip: due at its time exactly, so a late pass misses the row.
Due_Exactly == {i \in Waiting : DueIn(i) = 0}

\* dueQueued.
Due == {i \in Waiting : DueIn(i) <= 0}

\* Slip: no least wait, so a row already overdue gives a negative one.
NextWait_NoFloor == Min({Day} \union {DueIn(i) : i \in Waiting})

\* untilNextQueued.  queuedMinWait, one second, is less than a tick.
NextWait == Max({0, Min({Day} \union {DueIn(i) : i \in Waiting})})

\* Arm the timer; a load that fails waits a minute.
Plan ==
  /\ pc = "plan"
  /\ alarm' \in {NextWait, Minute}
  /\ pc' = "sleep"
  /\ UNCHANGED <<items, wake, due, snap, noted, answer, client, board, requests, forge, history>>

\* The select: either case may be taken when both are ready.
WakeUp ==
  /\ pc = "sleep"
  /\ \/ wake /\ wake' = FALSE
     \/ alarm = 0 /\ UNCHANGED wake
  /\ pc' = "load"
  /\ alarm' = 0
  /\ UNCHANGED <<items, due, snap, noted, answer, client, board, requests, forge, history>>

\* The first read: prune old outcomes, go on only when something is due.
Load ==
  /\ pc = "load"
  /\ items' = [i \in Ids |->
                 IF items[i].status \in Finished /\ items[i].at < -Keep
                 THEN [items[i] EXCEPT !.status = "gone", !.at = 0] ELSE items[i]]
  /\ due' = Due
  /\ pc' = IF Due = {} THEN "plan" ELSE "refresh"
  /\ UNCHANGED <<wake, alarm, snap, noted, answer, client, board, requests, forge, history>>

\* A load that fails, the first or the second, ends the pass.
LoadFails ==
  /\ pc \in {"load", "reload"}
  /\ pc' = "plan"
  /\ due' = {}
  /\ UNCHANGED <<items, wake, alarm, snap, noted, answer, client, board, requests, forge, history>>

RunnerRefresh ==
  /\ pc = "refresh"
  /\ board' = Refreshed
  /\ Forget(Landed(board'))
  /\ pc' = "reload"
  /\ UNCHANGED <<items, wake, alarm, due, snap, noted, answer, client, forge,
                 restarts, resetAt, cancelled>>

\* Slip: decide with the rows read before the refresh.
Reload_Stale ==
  /\ pc = "reload"
  /\ snap' = board
  /\ noted' = requests
  /\ pc' = "run"
  /\ UNCHANGED <<items, wake, alarm, due, answer, client, board, requests, forge, history>>

\* The second read and the board this pass decides with.
Reload ==
  /\ pc = "reload"
  /\ due' = Due
  /\ snap' = board
  /\ noted' = requests
  /\ pc' = "run"
  /\ UNCHANGED <<items, wake, alarm, answer, client, board, requests, forge, history>>

\* The next row of the pass, in the table's order.
Current == Min(due)

\* UpdateQueuedAction: only a waiting row changes, and the write may fail.
Update(status, at) ==
  \/ items' = [items EXCEPT ![Current] =
                 IF @.status = "queued" THEN [@ EXCEPT !.status = status, !.at = at] ELSE @]
  \/ items' = items

Advance ==
  /\ due' = due \ {Current}
  /\ pc' = "run"

\* rescheduleQueued to the forge's own reset, which becomes the row's reset.
Reschedule(at) ==
  /\ Update("queued", at)
  /\ resetAt' = [resetAt EXCEPT ![Current] = IF items' # items THEN at ELSE @]

Finish(status) == Update(status, 0) /\ UNCHANGED resetAt

\* runQueued on a row whose forge is limited again, according to the board.
RunLimited ==
  /\ pc = "run" /\ due # {}
  /\ snap.until > 0
  /\ Reschedule(snap.until)
  /\ Advance
  /\ UNCHANGED <<wake, alarm, snap, noted, answer, client, board, requests, forge,
                 restarts, cancelled, asked>>

\* runQueued and retryUnreachableQueued on a forge that did not answer.
RunUnreachable ==
  /\ pc = "run" /\ due # {}
  /\ snap.until = 0
  /\ snap.health = "down"
  /\ IF items[Current].at <= -GiveUp THEN Update("failed", 0) ELSE Update("queued", Retry)
  /\ Advance
  /\ UNCHANGED <<wake, alarm, snap, noted, answer, client, board, requests, forge, history>>

\* runQueued's skips: no source for the forge, or, on a forge that answered, the
\* pull request gone, caught up, in conflict, asked for already or not offering
\* the action any more.
RunSkipped ==
  /\ pc = "run" /\ due # {}
  /\ snap.until = 0
  /\ snap.health \in {"absent", "up"}
  /\ Finish("skipped")
  /\ Advance
  /\ UNCHANGED <<wake, alarm, snap, noted, answer, client, board, requests, forge,
                 restarts, cancelled, asked>>

\* A row that may still apply, behind and not asked for, gets its one call.
Perform ==
  /\ pc = "run" /\ due # {}
  /\ snap.until = 0
  /\ snap.health = "up"
  /\ items[Current].target \in snap.behind \ noted
  /\ pc' = "call"
  /\ UNCHANGED <<items, wake, alarm, due, snap, noted, answer, client, board, requests,
                 forge, history>>

\* External: the forge answers.  An accepted request stands on the forge even
\* if nobody lives to record it.
Call ==
  /\ pc = "call"
  /\ answer' \in IF ~forge.up THEN {"refused"}
                 ELSE IF forge.resetIn > 0 THEN {"limited"}
                 ELSE {"ok", "already", "refused"}
  /\ asked' = IF answer' = "ok" THEN asked \union {Current} ELSE asked
  /\ pc' = "called"
  /\ UNCHANGED <<items, wake, alarm, due, snap, noted, client, board, requests, forge,
                 restarts, resetAt, cancelled>>

\* refusedQueued: a rate limit is waited out, until its reset or for Retry,
\* any other refusal fails the row.
RecordRefusal ==
  /\ pc = "called"
  /\ \/ answer = "limited" /\ Reschedule(IF forge.resetIn > 0 THEN forge.resetIn ELSE Retry)
     \/ answer = "refused" /\ Finish("failed")
  /\ answer' = "none"
  /\ Advance
  /\ UNCHANGED <<wake, alarm, snap, noted, client, board, requests, forge,
                 restarts, cancelled, asked>>

\* Slip: record the outcome of the row and not the request on the board.
RecordRequest_OutcomeOnly ==
  /\ pc = "called"
  /\ answer \in {"ok", "already"}
  /\ Finish(IF answer = "ok" THEN "done" ELSE "skipped")
  /\ answer' = "none"
  /\ Advance
  /\ UNCHANGED <<wake, alarm, snap, noted, client, board, requests, forge,
                 restarts, cancelled, asked>>

\* recordQueuedRequest, then finishQueued.  A pull request that a refresh took
\* off the board in the meantime takes no request; one it showed caught up may
\* still be listed.
RecordRequest ==
  /\ pc = "called"
  /\ answer \in {"ok", "already"}
  /\ \/ /\ requests' = requests \union {items[Current].target}
        /\ UNCHANGED asked
     \/ /\ items[Current].target \notin board.behind
        /\ asked' = asked \ {Current}
        /\ UNCHANGED requests
  /\ Finish(IF answer = "ok" THEN "done" ELSE "skipped")
  /\ answer' = "none"
  /\ Advance
  /\ UNCHANGED <<wake, alarm, snap, noted, client, board, forge,
                 restarts, cancelled>>

EndPass ==
  /\ pc = "run" /\ due = {}
  /\ pc' = "plan"
  /\ snap' = NoBoard
  /\ noted' = {}
  /\ UNCHANGED <<items, wake, alarm, due, answer, client, board, requests, forge, history>>

\* The process dies, or Service.Ensure replaces the aggregator: its calls and
\* writes fail with their context, and what it kept in memory is gone.  The
\* cached board comes back without health or budgets, and the forge may have
\* lost its credentials or got them back.
Restart ==
  /\ restarts < MaxRestarts
  /\ restarts' = restarts + 1
  /\ pc' = "plan" /\ wake' = FALSE /\ alarm' = 0 /\ due' = {}
  /\ snap' = NoBoard /\ noted' = {} /\ answer' = "none"
  /\ client' = [c \in Clients |-> NoClient]
  /\ board' \in {NoBoard, [board EXCEPT !.health = "down", !.until = 0]}
  /\ requests' = {}
  /\ asked' = {}
  /\ UNCHANGED <<items, forge, resetAt, cancelled>>

Run == RunLimited \/ RunUnreachable \/ RunSkipped \/ Perform \/ EndPass

Record == RecordRefusal \/ RecordRequest

Scheduler == Plan \/ WakeUp \/ Load \/ LoadFails \/ RunnerRefresh \/ Reload \/ Run \/ Call \/ Record

Handler(c) == Insert(c) \/ QueuedActionsChanged(c)

Environment ==
  \/ Tick \/ ForgeChanges \/ BackgroundRefresh \/ RequestExpires \/ Restart
  \/ \E c \in Clients, t \in Targets : Lookup(c, t)
  \/ \E i \in Ids : Cancel(i)

Next == Environment \/ Scheduler \/ \E c \in Clients : Handler(c)

Spec == Init /\ [][Next]_vars

\* The scheduler goroutine and the handlers are scheduled and time passes.  The
\* store may fail, but not every time: a load or a write that is tried again
\* and again succeeds in the end.
FairSpec ==
  /\ Spec
  /\ WF_vars(Tick)
  /\ WF_vars(Scheduler)
  /\ \A c \in Clients : WF_vars(Handler(c))
  /\ SF_vars(Load) /\ SF_vars(Reload)
  /\ SF_vars(Run /\ items' # items) /\ SF_vars(Record /\ items' # items)

-----------------------------------------------------------------------------
(* Properties *)

\* The scheduler never sleeps past a row: while it sleeps with no wake-up on
\* the way, its timer rings by the time the earliest waiting row is due, or
\* within the minute a failed load waits.
NeverOversleeps ==
  pc = "sleep" /\ ~wake /\ (\A c \in Clients : client[c].at # "inserted") =>
    \A i \in Waiting : alarm <= Max({Minute, DueIn(i)})

\* A cancel that reaches the table before the second read wins: the row is not
\* run ("a cancel during the refresh must win").
EarlyCancelWins ==
  pc \in {"call", "called"} => Current \notin cancelled

\* A row is not asked for twice while the first request still stands on the
\* board, even when the outcome of the first could not be saved.
NotAskedTwice ==
  [][pc = "call" /\ answer' = "ok" => Current \notin asked]_vars

\* Of two concurrent requests for one target only one row waits.
\* (EnqueueQueuedAction: "rather than stacking a duplicate".)
OneWaitingPerTarget ==
  \A i, j \in Waiting : items[i].target = items[j].target => i = j

\* A row whose forge stays unreachable is not put off again once GiveUp has
\* passed since its reset.  (retryUnreachableQueued: "gives up an hour after it".)
GivesUpAfterReset ==
  [][\A i \in Ids :
       /\ items[i].status = "queued" /\ items'[i].status = "queued"
       /\ pc = "run" /\ snap.health = "down" /\ snap.until = 0
       /\ items'[i].at > items[i].at
       => resetAt[i] > -GiveUp]_vars

\* Once the forge answers and stays within its budget, every waiting row
\* settles: it is run, skipped, failed or cancelled, across restarts, failed
\* loads and failed writes.
EveryRowSettles ==
  <>[](forge.up /\ forge.resetIn = 0) =>
    \A i \in Ids : (items[i].status = "queued") ~> (items[i].status # "queued")
=============================================================================
