------------------------------ MODULE WritePass ------------------------------
(***************************************************************************)
(* The writes that follow a refresh (internal/dashboard/aggregator.go,     *)
(* runWrites, startWrites, finishWrites).  Every full and scoped refresh   *)
(* publishes a snapshot and then asks for a pass over it: auto             *)
(* update-branch, then auto-merge.  One pass runs at a time; a snapshot    *)
(* that arrives meanwhile waits in queuedWrites, and a forge that hangs    *)
(* holds the refresh for writeBudget at most.                              *)
(*                                                                         *)
(* A call of runWrites, and the snapshot it brings, is known by its place  *)
(* in the order of calls; the pass that runs for it carries the same       *)
(* number.  mu is released between publishing a snapshot and bringing it,  *)
(* so the order of calls need not be that of publication.                  *)
(***************************************************************************)
EXTENDS Naturals, FiniteSets

CONSTANTS
  Refreshers,   \* goroutines that refresh and then call runWrites
  MaxSnaps      \* bound: snapshots published in one behaviour

ASSUME MaxSnapsAssumption == MaxSnaps \in Nat

VARIABLES
  published,  \* snapshots published so far
  held,       \* refreshers with a snapshot published and not yet brought
  calls,      \* calls of runWrites so far
  writing,    \* a.writing
  queued,     \* a.queuedWrites: the call whose snapshot waits, or 0
  live,       \* passes whose goroutine is running
  cancelled,  \* passes whose context was cancelled
  waits,      \* the pass a refresher waits on inside runWrites, or 0
  done,       \* passes that closed their done channel
  expired,    \* passes whose budget timer fired
  started     \* history: the newest call some pass was started for

vars == <<published, held, calls, writing, queued, live, cancelled,
          waits, done, expired, started>>

Calls == 1..MaxSnaps

TypeOK ==
  /\ published \in 0..MaxSnaps
  /\ held \subseteq Refreshers
  /\ calls \in Nat
  /\ writing \in BOOLEAN
  /\ queued \in 0..calls
  /\ live \subseteq 1..calls
  /\ cancelled \subseteq 1..calls
  /\ waits \in [Refreshers -> 0..calls]
  /\ done \subseteq 1..calls
  /\ expired \subseteq 1..calls
  /\ started \in 0..calls

Init ==
  /\ published = 0
  /\ held = {}
  /\ calls = 0
  /\ writing = FALSE
  /\ queued = 0
  /\ live = {}
  /\ cancelled = {}
  /\ waits = [c \in Refreshers |-> 0]
  /\ done = {}
  /\ expired = {}
  /\ started = 0

-----------------------------------------------------------------------------

\* A refresh replaces a.snap under mu and lets go of the lock.
Publish(c) ==
  /\ c \notin held
  /\ waits[c] = 0
  /\ published < MaxSnaps
  /\ published' = published + 1
  /\ held' = held \cup {c}
  /\ UNCHANGED <<calls, writing, queued, live, cancelled, waits, done,
                 expired, started>>

\* runWrites, called with the snapshot c holds.
Bring(c) ==
  /\ c \in held
  /\ calls' = calls + 1
  /\ held' = held \ {c}

\* A pass is running: the snapshot takes the place of the one waiting.
Queue(c) ==
  /\ Bring(c)
  /\ writing
  /\ queued' = calls + 1
  /\ UNCHANGED <<published, writing, live, cancelled, waits, done, expired, started>>

\* startWrites: one more pass, with a context of its own.
StartWrites(passes, k) ==
  /\ live' = passes \cup {k}
  /\ started' = k

\* Slip: start a pass whatever is running.
Start_Overlap(c) ==
  /\ Bring(c)
  /\ writing' = TRUE
  /\ StartWrites(live, calls + 1)
  /\ waits' = [waits EXCEPT ![c] = calls + 1]
  /\ UNCHANGED <<published, queued, cancelled, done, expired>>

\* No pass is running: runWrites starts one and waits for it.
Start(c) ==
  /\ Bring(c)
  /\ ~writing
  /\ writing' = TRUE
  /\ StartWrites(live, calls + 1)
  /\ waits' = [waits EXCEPT ![c] = calls + 1]
  /\ UNCHANGED <<published, queued, cancelled, done, expired>>

\* Slip: close expired and leave the pass's context alone.
BudgetExpires_OnlyCloses(k) ==
  /\ k \in live \ expired
  /\ expired' = expired \cup {k}
  /\ UNCHANGED <<published, held, calls, writing, queued, live, cancelled,
                 waits, done, started>>

\* Slip: cancel the pass and leave expired open.
BudgetExpires_OnlyCancels(k) ==
  /\ k \in live \ expired
  /\ cancelled' = cancelled \cup {k}
  /\ UNCHANGED <<published, held, calls, writing, queued, live, waits,
                 done, expired, started>>

\* writeBudget passes: the pass's context is cancelled and expired closes.
BudgetExpires(k) ==
  /\ k \in live \ expired
  /\ cancelled' = cancelled \cup {k}
  /\ expired' = expired \cup {k}
  /\ UNCHANGED <<published, held, calls, writing, queued, live, waits,
                 done, started>>

\* Slip: free the slot and leave the queued snapshot where it is.
PassEnds_Frees(k) ==
  /\ k \in live
  /\ done' = done \cup {k}
  /\ writing' = FALSE
  /\ live' = live \ {k}
  /\ UNCHANGED <<published, held, calls, queued, cancelled, waits, expired,
                 started>>

\* The two sweeps returned.  The goroutine stops its timer, and finishWrites
\* either frees the slot or starts the queued pass; then done closes.  writing
\* stays set from one pass to the next, so nobody can start one in between.
PassEnds(k) ==
  /\ k \in live
  /\ done' = done \cup {k}
  /\ cancelled' = cancelled \cup {k}
  /\ \/ /\ queued = 0
        /\ writing' = FALSE
        /\ live' = live \ {k}
        /\ UNCHANGED <<queued, started>>
     \/ /\ queued # 0
        /\ StartWrites(live \ {k}, queued)
        /\ queued' = 0
        /\ UNCHANGED writing
  /\ UNCHANGED <<published, held, calls, waits, expired>>

\* The refresher stops waiting: its pass ended or ran past its budget.
Return(c) ==
  /\ waits[c] \in done \cup expired
  /\ waits' = [waits EXCEPT ![c] = 0]
  /\ UNCHANGED <<published, held, calls, writing, queued, live, cancelled,
                 done, expired, started>>

\* The refresh's own context is cancelled (a reset, a shutdown): the refresher
\* cancels its pass and leaves.
ReturnCancelled(c) ==
  /\ waits[c] # 0
  /\ cancelled' = cancelled \cup {waits[c]}
  /\ waits' = [waits EXCEPT ![c] = 0]
  /\ UNCHANGED <<published, held, calls, writing, queued, live, done,
                 expired, started>>

Next ==
  \/ \E c \in Refreshers :
       Publish(c) \/ Queue(c) \/ Start(c) \/ Return(c) \/ ReturnCancelled(c)
  \/ \E k \in live : BudgetExpires(k) \/ PassEnds(k)

Spec == Init /\ [][Next]_vars

\* A refresher that published goes on to runWrites and leaves it when it can,
\* and the budget timer fires unless the pass ends first.  Nothing says that a
\* pass ends: a call to the forge may hang even after its context is cancelled.
FairSpec ==
  /\ Spec
  /\ \A c \in Refreshers : WF_vars(Queue(c) \/ Start(c)) /\ WF_vars(Return(c))
  /\ \A k \in Calls : WF_vars(BudgetExpires(k))

\* The calls are HTTP requests, which return once their context is cancelled.
CancelledPassesEnd == \A k \in Calls : WF_vars(k \in cancelled /\ PassEnds(k))

-----------------------------------------------------------------------------
(* Properties *)

\* Two passes never run side by side, so no pull request is merged or updated
\* twice from one snapshot, and the slot is taken exactly while one runs.
OnePassAtATime ==
  /\ \A j, k \in live : j = k
  /\ writing <=> live # {}

\* Passes start in the order of the calls they serve, and a waiting snapshot is
\* always later than the one running.
PassesFollowCalls ==
  /\ \A k \in live : k = started
  /\ queued # 0 => queued > started
  /\ \A c \in Refreshers : waits[c] <= started

\* The slot and the queue of one together.
PassesAreInOrder == OnePassAtATime /\ PassesFollowCalls

\* Every snapshot brought to runWrites gets a pass, its own or that of a call
\* made after it, as long as a cancelled pass ends.
EverySnapshotGetsAPass ==
  CancelledPassesEnd => \A k \in Calls : (calls >= k) ~> (started >= k)

\* A refresh is never held for good by a forge that hangs on a write (#3034).
EveryRefreshMovesOn ==
  \A c \in Refreshers : (waits[c] # 0) ~> (waits[c] = 0)
=============================================================================
