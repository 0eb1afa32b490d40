------------------------------ MODULE AutoMerge ------------------------------
(***************************************************************************)
(* The auto-merge half of a write pass (internal/dashboard/auto_merge.go,  *)
(* auto_merge_cancel.go, auto_merge_status.go), the table of intents       *)
(* (settings/auto_merge_intent.go) and the handlers that arm and cancel    *)
(* (api/pull_request_auto_merge.go), for one pull request.                 *)
(*                                                                         *)
(* On Forgejo the app holds the intent and merges; on GitHub the forge     *)
(* does, and the pass only takes auto-merge off a pull request that went   *)
(* empty.  A pass works on the snapshot it was given while the forge moves *)
(* on.  Times are kept as what they decide: an attempt stands for good,    *)
(* waits out transientAutoMergeWait, or its wait is up.                    *)
(***************************************************************************)
EXTENDS Naturals

CONSTANTS
  MaxVer,       \* bound: how often the pull request changes (UpdatedAt moves)
  MaxRestarts   \* bound: restarts of the process

VARIABLES
  where,         \* the pull request's forge
  pull,          \* the pull request on the forge
  armed,         \* the row of auto_merge_intents, or GitHub's own flag
  board,         \* the pull request's row on the board
  waiting,       \* a snapshot of the board waits for its pass
  pc, snap,      \* where the pass is, and the row it works on
  attempt,       \* autoMergeConfig.attempts
  cancelAttempt, \* autoMergeConfig.cancelAttempts
  failure,       \* autoMergeConfig.failures
  cancelled,     \* autoMergeConfig.cancelled holds the pull request
  restarts,
  lateCancel,    \* history: cancelled since the pass loaded the intents
  barred,        \* history: versions refused, and until when
  ended          \* history: merged or closed at some time since it was armed

memory == <<attempt, cancelAttempt, failure, cancelled>>
history == <<lateCancel, barred, ended>>
vars == <<where, pull, armed, board, waiting, pc, snap, memory, restarts, history>>

Versions == 0..MaxVer
\* What decides about merging: readyForAutoMerge, pr.Empty, or neither.
Looks == {"busy", "ready", "empty"}
Row == [listed : BOOLEAN, reachable : BOOLEAN, ver : Versions, look : Looks, armed : BOOLEAN]
NoRow == [listed |-> FALSE, reachable |-> FALSE, ver |-> 0, look |-> "busy", armed |-> FALSE]
NoAttempt == [stands |-> "no", ver |-> 0]
Attempt(v, s) == [stands |-> s, ver |-> v]
NoFailure == [code |-> "none", ver |-> 0]
Bar(v, s) == [ver |-> v, stands |-> s]

TypeOK ==
  /\ where \in {"github", "forgejo"}
  /\ pull \in [state : {"open", "merged", "closed"}, ver : Versions, look : Looks]
  /\ armed \in BOOLEAN /\ waiting \in BOOLEAN /\ cancelled \in BOOLEAN
  /\ board \in Row /\ snap \in Row
  /\ pc \in {"idle", "empties", "disable", "intents", "decide", "merging", "clear", "drop"}
  /\ attempt \in [stands : {"no", "forever", "wait", "up"}, ver : Versions]
  /\ cancelAttempt \in [stands : {"no", "forever", "wait", "up"}, ver : Versions]
  /\ failure \in [code : {"none", "final", "limited", "unreachable"}, ver : Versions]
  /\ restarts \in 0..MaxRestarts
  /\ lateCancel \in BOOLEAN /\ ended \in BOOLEAN
  /\ barred \subseteq [ver : Versions, stands : {"forever", "wait"}]
  /\ (pc = "merging") => (where = "forgejo" /\ snap.look = "ready")

Init ==
  /\ where \in {"github", "forgejo"}
  /\ pull = [state |-> "open", ver |-> 0, look |-> "busy"]
  /\ armed = FALSE /\ waiting = FALSE /\ pc = "idle"
  /\ board = NoRow /\ snap = NoRow
  /\ attempt = NoAttempt /\ cancelAttempt = NoAttempt
  /\ failure = NoFailure /\ cancelled = FALSE
  /\ restarts = 0 /\ lateCancel = FALSE /\ barred = {} /\ ended = FALSE

-----------------------------------------------------------------------------
(* The forge (external), the refreshes that read it, and the person.       *)

\* A push, a check result, a draft mark, a close or a reopen: UpdatedAt moves.
PullChanges ==
  /\ pull.state # "merged" /\ pull.ver < MaxVer
  /\ \E s \in {"open", "closed", "merged"}, l \in Looks :
       /\ pull' = [state |-> s, ver |-> pull.ver + 1, look |-> l]
       /\ ended' = (ended \/ s # "open")
  /\ UNCHANGED <<where, armed, board, waiting, pc, snap, memory, restarts, lateCancel, barred>>

\* A refresh publishes a snapshot: the forge's row, no row because this
\* repository could not be read, or the rows it last had.
Publish ==
  /\ board' \in { [listed |-> pull.state = "open", reachable |-> TRUE, ver |-> pull.ver,
                   look |-> pull.look, armed |-> where = "github" /\ armed],
                  [NoRow EXCEPT !.reachable = TRUE],
                  [board EXCEPT !.reachable = FALSE] }
  /\ waiting' = TRUE
  /\ UNCHANGED <<where, pull, armed, pc, snap, memory, restarts, history>>

\* autoMergeOffered on the board's row, then the insert (or GitHub's own call).
ArmAutoMerge ==
  /\ ~armed
  /\ board.listed /\ board.look = "busy"
  /\ where = "forgejo" \/ pull.state = "open"
  /\ armed' = TRUE
  /\ ended' = (pull.state # "open")
  /\ UNCHANGED <<where, pull, board, waiting, pc, snap, memory, restarts, lateCancel, barred>>

\* handlePullRequestAutoMergeCancel.  A call or a delete that fails changes nothing.
CancelAutoMerge ==
  /\ armed
  /\ armed' = FALSE
  /\ lateCancel' = TRUE
  /\ barred' = {}
  /\ UNCHANGED <<where, pull, board, waiting, pc, snap, memory, restarts, ended>>

\* transientAutoMergeWait has passed since the attempt, or since the cancel.
WaitPasses ==
  /\ \/ /\ attempt.stands = "wait"
        /\ attempt' = [attempt EXCEPT !.stands = "up"]
        /\ barred' = {b \in barred : b.stands # "wait"}
        /\ UNCHANGED cancelAttempt
     \/ /\ cancelAttempt.stands = "wait"
        /\ cancelAttempt' = [cancelAttempt EXCEPT !.stands = "up"]
        /\ UNCHANGED <<attempt, barred>>
  /\ UNCHANGED <<where, pull, armed, board, waiting, pc, snap, failure, cancelled,
                 restarts, lateCancel, ended>>

\* A crash, or a rebuilt aggregator: the intents stay, the memory goes.
Restart ==
  /\ restarts < MaxRestarts
  /\ restarts' = restarts + 1
  /\ pc' = "idle" /\ snap' = NoRow /\ waiting' = FALSE /\ board' = NoRow
  /\ attempt' = NoAttempt /\ cancelAttempt' = NoAttempt
  /\ failure' = NoFailure /\ cancelled' = FALSE /\ barred' = {}
  /\ UNCHANGED <<where, pull, armed, lateCancel, ended>>

-----------------------------------------------------------------------------
(* The pass.                                                               *)

pass == <<where, pull, board, waiting, restarts>>

\* Slip: a standing attempt is not looked at.
Stands_Never(a, v) == FALSE

\* Slip: an attempt stands whatever has become of its wait.
Stands_ForGood(a, v) == a.ver = v /\ a.stands # "no"

\* begin and beginCancel: may this version be tried now?
Stands(a, v) == a.ver = v /\ a.stands \in {"forever", "wait"}

EndPass == pc' = "idle" /\ snap' = NoRow

\* runAutoMerge begins, with forgetGone.
PassBegins ==
  /\ pc = "idle" /\ waiting
  /\ waiting' = FALSE
  /\ snap' = board
  /\ cancelAttempt' = IF board.listed THEN cancelAttempt ELSE NoAttempt
  /\ cancelled' \in IF board.listed THEN {cancelled} ELSE {cancelled, FALSE}
  /\ pc' = IF board.listed /\ board.look = "empty" THEN "empties" ELSE "intents"
  /\ UNCHANGED <<where, pull, armed, board, attempt, failure, restarts, history>>

\* armedOn: GitHub's flag as the snapshot has it, or the app's intent now.
ArmedOn == IF where = "github" THEN snap.armed ELSE armed

\* cancelEmptyAutoMerges: GitHub's flag is on the row, Forgejo's intents are
\* loaded, and a load that fails skips the pull request.
CancelEmptyAutoMerges ==
  /\ pc = "empties"
  /\ \/ /\ ArmedOn /\ ~Stands(cancelAttempt, snap.ver)
        /\ cancelAttempt' = Attempt(snap.ver, "forever")
        /\ pc' = "disable"
     \/ /\ where = "forgejo" \/ ~ArmedOn \/ Stands(cancelAttempt, snap.ver)
        /\ pc' = "intents"
        /\ UNCHANGED cancelAttempt
  /\ UNCHANGED <<pass, armed, snap, attempt, failure, cancelled, history>>

\* cancelAutoMerge: DisableAutoMerge on GitHub, the intent's delete on Forgejo.
DisableSucceeds ==
  /\ pc = "disable"
  /\ armed' = FALSE /\ cancelled' = TRUE /\ failure' = NoFailure /\ barred' = {}
  /\ pc' = "intents"
  /\ UNCHANGED <<pass, snap, attempt, cancelAttempt, lateCancel, ended>>

DisableFails ==
  /\ pc = "disable"
  /\ cancelAttempt' = Attempt(snap.ver, "wait")
  /\ pc' = "intents"
  /\ UNCHANGED <<pass, armed, snap, attempt, failure, cancelled, history>>

Intent == where = "forgejo" /\ armed

\* AutoMergeIntents and prune.
LoadIntents ==
  /\ pc = "intents"
  /\ IF Intent THEN pc' = "decide" /\ UNCHANGED snap ELSE EndPass
  /\ attempt' = IF Intent THEN attempt ELSE NoAttempt
  /\ failure' = IF Intent THEN failure ELSE NoFailure
  /\ lateCancel' = FALSE
  /\ barred' = IF Intent THEN barred ELSE {}
  /\ UNCHANGED <<pass, armed, cancelAttempt, cancelled, ended>>

\* The intents could not be read, or the pass was cancelled.
PassStops ==
  /\ pc \in {"intents", "decide"}
  /\ EndPass
  /\ UNCHANGED <<pass, armed, memory, history>>

\* autoMergeNow up to the call, or nothing to do for the listed row.
AutoMergeNow ==
  /\ pc = "decide" /\ snap.listed
  /\ IF snap.look = "ready" /\ ~Stands(attempt, snap.ver)
       THEN /\ attempt' = Attempt(snap.ver, "forever")
            /\ pc' = "merging"
            /\ UNCHANGED snap
       ELSE EndPass /\ UNCHANGED attempt
  /\ UNCHANGED <<pass, armed, cancelAttempt, failure, cancelled, history>>

\* Slip: a row that is missing from the board is taken for finished.
DropIfFinished_Unasked ==
  /\ pc = "decide" /\ ~snap.listed
  /\ \/ snap.reachable /\ pc' = "drop" /\ UNCHANGED snap
     \/ EndPass
  /\ UNCHANGED <<pass, armed, memory, history>>

\* dropIfFinished: the forge is asked before an intent is dropped (and may not
\* answer).
DropIfFinished ==
  /\ pc = "decide" /\ ~snap.listed
  /\ \/ snap.reachable /\ pull.state # "open" /\ pc' = "drop" /\ UNCHANGED snap
     \/ EndPass
  /\ UNCHANGED <<pass, armed, memory, history>>

MergeSucceeds ==
  /\ pc = "merging" /\ pull.state = "open"
  /\ pull' = [pull EXCEPT !.state = "merged"]
  /\ ended' = TRUE
  /\ pc' = "clear"
  /\ UNCHANGED <<where, armed, board, waiting, snap, memory, restarts, lateCancel, barred>>

\* Slip: every refusal is tried again after the wait.
MergeRefused_AllWait ==
  /\ pc = "merging"
  /\ \E code \in {"final", "limited", "unreachable"} :
       /\ failure' = [code |-> code, ver |-> snap.ver]
       /\ attempt' = Attempt(snap.ver, "wait")
       /\ barred' = barred \cup {Bar(snap.ver, IF code = "final" THEN "forever" ELSE "wait")}
  /\ EndPass
  /\ UNCHANGED <<pass, armed, cancelAttempt, cancelled, lateCancel, ended>>

\* failed: a rate limit or an unreachable forge waits, any other refusal stands.
\* A forge whose answer never came may have merged.
MergeRefused ==
  /\ pc = "merging"
  /\ \E code \in {"final", "limited", "unreachable"} :
       /\ failure' = [code |-> code, ver |-> snap.ver]
       /\ attempt' = IF code = "final" THEN attempt ELSE Attempt(snap.ver, "wait")
       /\ barred' = barred \cup {Bar(snap.ver, attempt'.stands)}
  /\ \/ UNCHANGED <<pull, ended>>
     \/ /\ failure'.code = "unreachable" /\ pull.state = "open"
        /\ pull' = [pull EXCEPT !.state = "merged"] /\ ended' = TRUE
  /\ EndPass
  /\ UNCHANGED <<where, board, waiting, restarts, armed, cancelAttempt, cancelled, lateCancel>>

\* interrupted: the call was cut off, and the forge may have merged.
MergeCutOff ==
  /\ pc = "merging"
  /\ \/ pull.state = "open" /\ pull' = [pull EXCEPT !.state = "merged"] /\ ended' = TRUE
     \/ UNCHANGED <<pull, ended>>
  /\ attempt' = Attempt(snap.ver, "wait")
  /\ barred' = barred \cup {Bar(snap.ver, "wait")}
  /\ EndPass
  /\ UNCHANGED <<where, armed, board, waiting, cancelAttempt, failure, cancelled,
                 restarts, lateCancel>>

\* After the merge: the intent's delete (which may fail), recordMerged, MarkSettled.
RecordMerged ==
  /\ pc = "clear"
  /\ armed' \in {FALSE, armed}
  /\ barred' = IF armed' THEN barred ELSE {}
  /\ failure' = NoFailure
  /\ board' = [board EXCEPT !.listed = FALSE]
  /\ EndPass
  /\ UNCHANGED <<where, pull, waiting, attempt, cancelAttempt, cancelled, restarts,
                 lateCancel, ended>>

\* The delete after dropIfFinished's answer; it may fail.
DropIntent ==
  /\ pc = "drop"
  /\ armed' \in {FALSE, armed}
  /\ barred' = IF armed' THEN barred ELSE {}
  /\ EndPass
  /\ UNCHANGED <<pass, memory, lateCancel, ended>>

Call == MergeSucceeds \/ MergeRefused \/ MergeCutOff
PassStep ==
  \/ CancelEmptyAutoMerges \/ DisableSucceeds \/ DisableFails \/ LoadIntents
  \/ AutoMergeNow \/ DropIfFinished \/ Call \/ RecordMerged \/ DropIntent

Next ==
  \/ PullChanges \/ Publish \/ ArmAutoMerge \/ CancelAutoMerge \/ WaitPasses \/ Restart
  \/ PassBegins \/ PassStops \/ PassStep

Spec == Init /\ [][Next]_vars

\* Refreshes go on, a waiting snapshot gets its pass, a pass goes on and waits
\* end; the store answers in the end, and not every pass is cancelled.
FairSpec ==
  /\ Spec
  /\ WF_vars(Publish) /\ WF_vars(PassBegins) /\ WF_vars(PassStep) /\ WF_vars(WaitPasses)
  /\ SF_vars(LoadIntents) /\ SF_vars(AutoMergeNow)

-----------------------------------------------------------------------------

\* A merge is under way only for a pull request that is armed, or was armed
\* when the pass read the intents and cancelled since.
OnlyTheArmedAreMerged == (pc = "merging") => (armed \/ lateCancel)

\* A version that was refused is not asked for again: for good, or until the
\* wait is up, as long as the intent stands (a refresh runs several times a minute).
RefusalStands == (pc = "merging") => \A b \in barred : b.ver # snap.ver

\* The pass takes an intent away only from a pull request that did end, or
\* whose snapshot was empty; a row that is merely missing is not enough.  (A
\* pull request cancelled and armed again since the pass loaded the intents
\* loses the new intent to the delete meant for the old one.)
IntentIsKept ==
  [][(armed /\ ~armed' /\ pc' # pc) => (ended \/ lateCancel \/ snap.look = "empty")]_vars

\* What the row says (AutoMergeStatusOf): a refusal of this version that is not
\* a rate limit reads "stopped".  It does stop, except after an outage.
Stopped == failure.ver = board.ver /\ failure.code \in {"final", "unreachable"}
OnlyAnOutageResumes ==
  (Intent /\ pc = "merging" /\ Stopped /\ snap.ver = board.ver) => failure.code = "unreachable"

\* An intent on a pull request that is ready, and that the board shows so, is
\* tried again and again until the forge has refused this version for good.
EveryArmedPullIsTried ==
  <>[](Intent /\ pull.look = "ready" /\ board.listed /\ board.ver = pull.ver)
    => (<>[](failure = [code |-> "final", ver |-> pull.ver]) \/ []<>(pc = "merging"))
=============================================================================
