---------------------------- MODULE ForgejoChecks ----------------------------
(***************************************************************************)
(* What a Forgejo pull request's CI reads as (forgejo/client.go,           *)
(* ciStatus): the combined status gives a state and counts, and up to      *)
(* three later reads correct them, for a status says "failure" of a        *)
(* cancelled job and "pending" of a running, a queued and a blocked one.   *)
(* The jobs go on between the reads.                                       *)
(*                                                                         *)
(* One Actions run with three jobs, of which the third needs the second,   *)
(* beside the status of an external CI.                                    *)
(***************************************************************************)
EXTENDS Integers, FiniteSetsExt

CONSTANTS MaxJobSteps   \* steps of the jobs explored

VARIABLES job,       \* the jobs as they are
          external,  \* the status an external CI set, or "none"
          ci,        \* the ciStatus call in progress
          shown,     \* what the last call returned
          jobSteps,
          clean,     \* history: during the call there was an instant with nothing failed or left
          late       \* history: a job failed, or was run again, after the call had read the statuses

ciVars == <<job, external, ci, shown, jobSteps, clean, late>>

Jobs    == {1, 2, 3}
Needs(j) == IF j = 3 THEN {2} ELSE {}
Ext     == 4
Counts  == [passed : 0..4, failed : -3..4, waiting : -3..4, running : 0..4]
States  == {"none", "success", "failure", "pending"}
Resting == [at |-> "idle"]
NotYet  == [state |-> "none", counts |-> [passed |-> 0, failed |-> 0, waiting |-> 0, running |-> 0],
            whole |-> TRUE]

ForgejoTypeOK ==
    /\ job \in [Jobs -> {"waiting", "running", "success", "failure", "cancelled", "blocked", "skipped"}]
    /\ external \in {"none", "success", "pending", "warning", "failure"}
    /\ ci.at \in {"idle", "runs", "cancelled", "split"}
    /\ shown.state \in States /\ shown.counts \in Counts
    /\ jobSteps \in 0..MaxJobSteps /\ {clean, late} \subseteq BOOLEAN

ForgejoInit ==
    /\ job = [j \in Jobs |-> IF Needs(j) = {} THEN "waiting" ELSE "blocked"]
    /\ external \in {"none", "success", "pending", "warning"}
    /\ ci = Resting /\ shown = NotYet /\ jobSteps = 0 /\ clean = FALSE /\ late = FALSE

-----------------------------------------------------------------------------
(* The forge (external).  A cancelled job's status is a failure; a job     *)
(* whose needs failed stays blocked in the finished run, as pending.       *)

StatusOf(j) == IF j = Ext THEN external
               ELSE IF job[j] \in {"success", "skipped"} THEN job[j]
               ELSE IF job[j] \in {"failure", "cancelled"} THEN "failure"
               ELSE "pending"
Statuses == [j \in Jobs \cup (IF external = "none" THEN {} ELSE {Ext}) |-> StatusOf(j)]

CombinedState(s) == LET all == {s[j] : j \in DOMAIN s}
                    IN IF "failure" \in all THEN "failure"
                       ELSE IF "pending" \in all THEN "pending"
                       ELSE IF "warning" \in all THEN "warning"
                       ELSE "success"

RunStatus == LET all == {job[j] : j \in Jobs}
             IN IF all \cap {"running", "waiting"} # {} THEN "running"
                ELSE IF "cancelled" \in all THEN "cancelled"
                ELSE IF "failure" \in all THEN "failure"
                ELSE "success"

Good(js) == \A j \in Jobs : js[j] \in {"success", "skipped", "cancelled"}

JobMoves ==
    /\ jobSteps < MaxJobSteps /\ jobSteps' = jobSteps + 1
    /\ \E j \in Jobs :
          \/ job[j] = "waiting" /\ job' = [job EXCEPT ![j] = "running"]
          \/ /\ job[j] = "running"
             /\ \E end \in {"success", "failure"} :
                   job' = [k \in Jobs |-> IF k = j THEN end
                                          ELSE IF j \in Needs(k) /\ end = "success" THEN "waiting"
                                          ELSE job[k]]
          \/ /\ job[j] = "waiting" /\ \A k \in Jobs : j \notin Needs(k)
             /\ job' = [job EXCEPT ![j] = "skipped"]
          \/ job[j] \in {"waiting", "running"} /\ job' = [job EXCEPT ![j] = "cancelled"]
          \/ RunStatus # "running" /\ job[j] = "failure" /\ job' = [k \in Jobs |-> IF job[k] = "failure" THEN "waiting" ELSE job[k]]
    /\ clean' = (clean \/ Good(job'))
    /\ late' = (late \/ \E j \in Jobs : (job'[j] = "failure") # (job[j] = "failure"))
    /\ UNCHANGED <<external, ci, shown>>

-----------------------------------------------------------------------------
(* The call.                                                               *)

StatusFromCombinedState(state) ==
    CASE state = "success" -> "success"
      [] state = "failure" -> "failure"
      [] state \in {"pending", "warning"} -> "pending"

CheckCountsOf(s) ==
    LET of(words) == Cardinality({j \in DOMAIN s : s[j] \in words})
    IN [passed |-> of({"success", "warning", "skipped"}), failed |-> of({"failure"}),
        waiting |-> of({"pending"}), running |-> 0]

\* Slip: what has passed decides, whatever still waits.
StateWithoutFailures_PassedFirst(counts, s) ==
    IF counts.passed > 0 THEN "success" ELSE IF counts.waiting > 0 THEN "pending" ELSE "none"

\* stateWithoutFailures: a warning still needs a look.
StateWithoutFailures(counts, s) ==
    IF counts.waiting > 0 \/ \E j \in DOMAIN s : s[j] = "warning" THEN "pending"
    ELSE IF counts.passed > 0 THEN "success"
    ELSE "none"

Returns(state, counts, whole) ==
    ci' = Resting /\ shown' = [state |-> state, counts |-> counts, whole |-> whole]

\* statusListIsCapped: one page of the statuses was read, so nothing is counted.
NoCounts == [passed |-> 0, failed |-> 0, waiting |-> 0, running |-> 0]

MaybeCancelled(s) == \E j \in Jobs \cap DOMAIN s : s[j] = "failure"

CiStatus ==
    /\ ci = Resting
    /\ \E capped \in BOOLEAN :
          LET counts == IF capped THEN NoCounts ELSE CheckCountsOf(Statuses)
              state  == StatusFromCombinedState(CombinedState(Statuses))
          IN IF counts.waiting = 0 /\ ~(counts.failed > 0 /\ MaybeCancelled(Statuses))
             THEN Returns(state, counts, ~capped)
             ELSE /\ ci' = [at |-> "runs", s |-> Statuses, state |-> state, counts |-> counts]
                  /\ UNCHANGED shown
    /\ clean' = Good(job) /\ late' = FALSE
    /\ UNCHANGED <<job, external, jobSteps>>

(* commitRuns: without the runs the statuses stand.                        *)
CommitRuns ==
    /\ ci.at = "runs"
    /\ \/ Returns(ci.state, ci.counts, FALSE)
       \/ /\ ci' = [at |-> IF ci.counts.failed > 0 /\ MaybeCancelled(ci.s) THEN "cancelled" ELSE "split",
                    s |-> ci.s, state |-> ci.state, counts |-> ci.counts, run |-> RunStatus]
          /\ UNCHANGED shown
    /\ UNCHANGED <<job, external, jobSteps, clean, late>>

\* Slip: every failed status of a run with a cancelled job is excused.
Cancelled_AnyOfTheRun(s) ==
    {j \in Jobs \cap DOMAIN s : s[j] = "failure" /\ \E k \in Jobs : job[k] = "cancelled"}

\* cancelledIn, cancelledOnPage, cancelledByName: the job a failed status names was cancelled.
Cancelled(s) == {j \in Jobs \cap DOMAIN s : s[j] = "failure" /\ job[j] = "cancelled"}

(* cancelledFailures: a run whose jobs can't be read excuses nothing.      *)
CancelledFailures ==
    /\ ci.at = "cancelled"
    /\ \E n \in {0, Cardinality(Cancelled(ci.s))} :
          LET counts == [ci.counts EXCEPT !.failed = @ - n]
          IN ci' = [ci EXCEPT !.at = "split", !.counts = counts,
                              !.state = IF n > 0 /\ counts.failed = 0
                                        THEN StateWithoutFailures(counts, ci.s) ELSE @]
    /\ UNCHANGED <<job, external, shown, jobSteps, clean, late>>

\* blockedInFailedRuns: the run's own word that it failed, read after the statuses.
BlockedInFailedRuns(s, run) ==
    IF run = "failure" THEN Cardinality({j \in Jobs \cap DOMAIN s : s[j] = "pending"}) ELSE 0

\* countRunningJobs reads the jobs of a run that was running.
CountRunningJobs(run) == IF run = "running" THEN Cardinality({j \in Jobs : job[j] = "running"}) ELSE 0

(* settledState: with nothing left to run the counts decide.               *)
SettledState(state, counts, s) ==
    IF state = "pending" /\ counts.failed = 0 /\ counts.waiting = 0 /\ counts.running = 0
    THEN StateWithoutFailures(counts, s) ELSE state

(* splitWaiting and splitRunning: what is blocked for good, then what      *)
(* runs; jobs that can't be read count none.                               *)
SplitWaiting ==
    /\ ci.at = "split"
    /\ \E running \in {0, CountRunningJobs(ci.run)} :
          LET waiting == ci.counts.waiting - Min({BlockedInFailedRuns(ci.s, ci.run), ci.counts.waiting})
              moved   == Min({running, waiting})
              counts  == IF waiting > 0
                         THEN [ci.counts EXCEPT !.waiting = waiting - moved, !.running = @ + moved]
                         ELSE [ci.counts EXCEPT !.waiting = waiting]
          IN Returns(SettledState(ci.state, counts, ci.s), counts, TRUE)
    /\ UNCHANGED <<job, external, jobSteps, clean, late>>

ForgejoNext == JobMoves \/ CiStatus \/ CommitRuns \/ CancelledFailures \/ SplitWaiting

ForgejoSpec == ForgejoInit /\ [][ForgejoNext]_ciVars

-----------------------------------------------------------------------------
(* The counts and the word agree, whatever happened between the reads: a   *)
(* green row counts nothing that failed, waits or runs, a pending one      *)
(* nothing that failed, a failed one a failure; and no count goes below    *)
(* zero.  A capped list counts nothing.                                    *)
ForgejoCountsAgree ==
    LET c == shown.counts
    IN /\ c.failed >= 0 /\ c.waiting >= 0
       /\ shown.state = "success" => c.failed = 0 /\ c.waiting = 0 /\ c.running = 0
       /\ shown.state = "pending" => c.failed = 0
       /\ shown.state = "failure" => c.failed > 0 \/ c = NoCounts

(* A pull request reads green only if at some instant of the read no job   *)
(* had failed and none was left: a pending state that had only blocked     *)
(* jobs of failed runs behind it "has nothing left to run"                 *)
(* (client.go:1301-1303).                                                  *)
GreenWasTrueOnce == (ci = Resting /\ shown.state = "success") => clean

(* The one way to read green without that: the run failed, or was run      *)
(* again, after its statuses were read (client.go:1284-1295).              *)
OnlyAMovingRunReadsGreen == (ci = Resting /\ shown.state = "success") => clean \/ late
=============================================================================
