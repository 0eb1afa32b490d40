---------------------------- MODULE RequiredChecks ----------------------------
(***************************************************************************)
(* What a GitHub pull request's CI reads as: the rollup of the head        *)
(* commit's checks (github/client.go), and the correction for a blocked    *)
(* pull request whose required checks have not reported                    *)
(* (github/required_checks.go), with the three things that correction      *)
(* remembers: commits that are complete, the contexts a branch requires,   *)
(* and whether runs are held for approval.                                 *)
(*                                                                         *)
(* A check is a context with one run.  A tick is partialContextsTTL, which *)
(* is heldRunsTTL too.                                                     *)
(***************************************************************************)
EXTENDS Naturals, FiniteSets

CONSTANTS FullTTL,       \* ticks an answered set of contexts is reused
          MaxHeads,      \* pushes explored
          MaxCheckTurns  \* changes on the forge explored

VARIABLES headSha,     \* the head commit
          runOf,       \* context -> its check run on the head commit
          lagging,     \* the rollup GitHub still gives is of the earlier commit
          heldRuns,    \* workflow runs held for approval that made no check run
          protects,    \* contexts branch protection requires
          ruled,       \* contexts a ruleset requires
          mayRead,     \* the token may read branch protection
          review,      \* a review is outstanding
          complete,    \* requiredChecks.complete
          contexts,    \* requiredChecks.contexts of the one branch, or NoAnswer
          heldBy,      \* requiredChecks.held of the head commit, or NoAnswer
          look,        \* the mapping in progress
          shownRow,    \* the row it last returned
          checkTurns,
          missing,     \* history: at every instant of this mapping a required context had not reported
          excuse,      \* history: why this mapping could not know
          changed      \* history: rules or runs changed since what found the head complete was read

checkVars == <<headSha, runOf, lagging, heldRuns, protects, ruled, mayRead, review, complete,
               contexts, heldBy, look, shownRow, checkTurns, missing, excuse, changed>>
onGitHub  == <<headSha, runOf, lagging, heldRuns, protects, ruled, mayRead, review>>
learnt    == <<complete, contexts, heldBy>>

Contexts == {"a", "b"}
RunStates == {"absent", "queued", "success", "failure", "cancelled", "held"}
NoAnswer == [age |-> 99]
Rest     == [at |-> "idle"]
Row(ci, counts, awaiting) == [ci |-> ci, counts |-> counts, awaiting |-> awaiting]
Zero     == [passed |-> 0, waiting |-> 0, failed |-> 0]

RequiredTypeOK ==
    /\ headSha \in 0..MaxHeads /\ runOf \in [Contexts -> RunStates]
    /\ protects \subseteq Contexts /\ ruled \subseteq Contexts
    /\ complete \subseteq 0..MaxHeads /\ look.at \in {"idle", "names", "reported", "held"}
    /\ shownRow.ci \in {"none", "success", "failure", "pending"}
    /\ excuse \subseteq {"failed read", "stale rules", "review", "complete"}

RequiredInit ==
    /\ headSha = 0 /\ runOf = [c \in Contexts |-> "absent"] /\ lagging = FALSE /\ heldRuns = FALSE
    /\ protects \in {{}, {"a"}} /\ ruled \in {{}, {"b"}}
    /\ mayRead \in BOOLEAN /\ review \in BOOLEAN
    /\ complete = {} /\ contexts = NoAnswer /\ heldBy = NoAnswer
    /\ look = Rest /\ shownRow = Row("none", Zero, FALSE) /\ checkTurns = 0
    /\ missing = FALSE /\ excuse = {} /\ changed = FALSE

-----------------------------------------------------------------------------
(* GitHub (external).                                                      *)

Required   == protects \cup ruled
Unreported == {c \in Required : runOf[c] \in {"absent", "queued"}}
Blocked    == review \/ \E c \in Required : runOf[c] # "success"
Rollup     == LET all == {runOf[c] : c \in Contexts} \ {"absent"}
              IN IF all = {} THEN "NONE"
                 ELSE IF all \cap {"failure", "cancelled", "held"} # {} THEN "FAILURE"
                 ELSE IF "queued" \in all THEN "PENDING"
                 ELSE "SUCCESS"

GitHubMoves ==
    /\ checkTurns < MaxCheckTurns /\ checkTurns' = checkTurns + 1
    /\ \/ \E c \in Contexts :     \* a run is queued, ends, or runs again
             /\ \/ runOf[c] = "absent" /\ runOf' = [runOf EXCEPT ![c] = "queued"] /\ UNCHANGED changed
                \/ /\ runOf[c] = "queued" /\ UNCHANGED changed
                   /\ \E end \in {"success", "failure", "cancelled", "held"} :
                         runOf' = [runOf EXCEPT ![c] = end]
                \/ /\ runOf[c] \in {"success", "failure", "cancelled", "held"}
                   /\ runOf' = [runOf EXCEPT ![c] = "queued"] /\ changed' = TRUE
             /\ UNCHANGED <<headSha, lagging, heldRuns, protects, ruled>>
       \/ /\ headSha < MaxHeads /\ headSha' = headSha + 1 /\ lagging' = TRUE
          /\ runOf' = [c \in Contexts |-> "absent"] /\ heldRuns' \in BOOLEAN /\ changed' = FALSE
          /\ UNCHANGED <<protects, ruled>>
       \/ lagging /\ lagging' = FALSE /\ UNCHANGED <<headSha, runOf, heldRuns, protects, ruled, changed>>
       \/ heldRuns /\ heldRuns' = FALSE /\ UNCHANGED <<headSha, runOf, lagging, protects, ruled, changed>>
       \/ /\ protects' \in {{}, {"a"}} /\ ruled' \in {{}, {"b"}} /\ changed' = TRUE
          /\ UNCHANGED <<headSha, runOf, lagging, heldRuns>>
    /\ heldBy' = IF headSha' # headSha THEN NoAnswer ELSE heldBy
    /\ missing' = (missing /\ Unreported' # {})
    /\ UNCHANGED <<mayRead, review, complete, contexts, look, shownRow, excuse>>

Older(a) == IF a = NoAnswer \/ a.age > FullTTL THEN NoAnswer ELSE [a EXCEPT !.age = @ + 1]
TickPasses ==
    /\ look = Rest
    /\ contexts' = Older(contexts) /\ heldBy' = Older(heldBy)
    /\ UNCHANGED <<onGitHub, complete, look, shownRow, checkTurns, missing, excuse, changed>>

-----------------------------------------------------------------------------
(* The rollup: statusCheckRollup.                                          *)

InState(words) == Cardinality({c \in Contexts : runOf[c] \in words})

\* hasFailedContext(failureKinds{heldRun: true}) in settleFailedRollup.
SettleFailedRollup == IF InState({"queued"}) > 0 /\ InState({"failure", "held"}) = 0
                      THEN "pending" ELSE "failure"

Ci == CASE Rollup = "SUCCESS" -> "success"
        [] Rollup = "FAILURE" -> SettleFailedRollup
        [] Rollup = "PENDING" -> "pending"
        [] OTHER -> "none"

\* Slip: a cancelled run counts as failed while others still run.
CheckCounts_Cancelled ==
    [passed |-> InState({"success"}), waiting |-> InState({"queued"}),
     failed |-> InState({"failure", "cancelled"})]

\* checkCounts: held runs are in none; cancelled ones only if nothing else explains the failure.
CheckCounts ==
    LET failed == InState({"failure"})
    IN [passed |-> InState({"success"}), waiting |-> InState({"queued"}),
        failed |-> IF failed = 0 /\ Ci = "failure" THEN InState({"cancelled"}) ELSE failed]

AwaitingApproval == InState({"held"}) > 0

(* mapPullRequest: a rollup of an earlier commit says nothing of the head. *)
Mapped == IF lagging THEN Row("pending", Zero, FALSE) ELSE Row(Ci, CheckCounts, AwaitingApproval)

(* appendUnreported: green and BLOCKED is looked into, unless the commit   *)
(* was found complete.                                                     *)
MapPullRequest ==
    /\ look = Rest
    /\ missing' = (Unreported # {})
    /\ IF Mapped.ci = "success" /\ Blocked /\ headSha \notin complete
       THEN look' = [at |-> "names", row |-> Mapped, sha |-> headSha, only |-> ~review] /\ UNCHANGED shownRow
       ELSE look' = Rest /\ shownRow' = Mapped
    /\ excuse' = IF headSha \in complete /\ changed THEN {"complete"} ELSE {}
    /\ UNCHANGED <<onGitHub, learnt, checkTurns, changed>>

-----------------------------------------------------------------------------
(* settleUnreportedRequiredChecks.                                         *)

\* cachedContexts: a set left partial is reused for less long.
Cached == contexts # NoAnswer /\ contexts.age <= (IF contexts.answered THEN FullTTL ELSE 0)

(* requiredContextNames: protectionContexts and rulesetContexts, of which  *)
(* either may fail.                                                        *)
RequiredContextNames ==
    /\ look.at = "names"
    /\ \/ /\ Cached /\ look' = [look EXCEPT !.at = "reported"] /\ UNCHANGED contexts
       \/ /\ ~Cached
          /\ \E prot \in {mayRead, FALSE}, rules \in BOOLEAN :
                /\ contexts' = [names |-> (IF prot THEN protects ELSE {}) \cup (IF rules THEN ruled ELSE {}),
                                answered |-> prot /\ rules, age |-> 0]
                /\ look' = [look EXCEPT !.at = "reported"]
    /\ UNCHANGED <<onGitHub, complete, heldBy, shownRow, checkTurns, missing, excuse, changed>>

\* Slip: a run that is queued counts as a report.
Reported_Queued == {c \in Contexts : runOf[c] # "absent"}

\* reportedContexts: a queued run, or a status still pending, has not reported.
Reported == {c \in Contexts : runOf[c] \notin {"absent", "queued"}}

\* Slip: nothing missing of what was read is complete.
Verdict_Trusting(names, answered) ==
    CASE names = {} -> "keep rollup" [] names \ Reported # {} -> "missing" [] OTHER -> "complete"

(* hasUnreportedRequired.                                                  *)
Verdict(names, answered) ==
    CASE names = {} -> IF answered THEN "keep rollup" ELSE "unreadable"
      [] names \ Reported # {} -> "missing"
      [] OTHER -> IF answered THEN "complete" ELSE "unreadable"

Shows(row) == look' = Rest /\ shownRow' = row

(* The verdict, on a list of the head's runs: a list that can't be read    *)
(* leaves the rollup standing.                                             *)
HasUnreportedRequired ==
    /\ look.at = "reported"
    /\ LET verdict == Verdict(contexts.names, contexts.answered) IN
       \/ /\ contexts.names # {} /\ Shows(look.row) /\ excuse' = excuse \cup {"failed read"}
          /\ UNCHANGED <<complete, changed>>
       \/ /\ look.sha = headSha     \* the list is of the commit that was mapped
          /\ complete' = IF verdict = "complete" THEN complete \cup {look.sha} ELSE complete
          /\ changed' = IF verdict = "complete" THEN contexts.names # Required ELSE changed
          /\ IF verdict = "missing" \/ (verdict = "unreadable" /\ look.only)
             THEN look' = [look EXCEPT !.at = "held"] /\ UNCHANGED shownRow
             ELSE Shows(look.row)
          /\ excuse' = excuse \cup (IF verdict = "unreadable" /\ ~look.only THEN {"review"} ELSE {})
                            \cup (IF contexts.answered /\ contexts.names # Required THEN {"stale rules"} ELSE {})
       \/ /\ look.sha # headSha /\ Shows(look.row) /\ excuse' = excuse \cup {"failed read"}
          /\ UNCHANGED <<complete, changed>>
    /\ UNCHANGED <<onGitHub, contexts, heldBy, checkTurns, missing>>

(* settleUnreported and hasRunsAwaitingApproval: pending, unless held runs *)
(* are why.  A lookup that fails reads as not held and is kept as unknown. *)
SettleUnreported ==
    /\ look.at = "held"
    /\ \E held \in (IF heldBy # NoAnswer /\ heldBy.age = 0 THEN {heldBy.held} ELSE {heldRuns, FALSE}) :
          /\ heldBy' = IF heldBy # NoAnswer /\ heldBy.age = 0 THEN heldBy ELSE [held |-> held, age |-> 0]
          /\ Shows(Row(IF held THEN "failure" ELSE "pending", look.row.counts, held))
    /\ UNCHANGED <<onGitHub, complete, contexts, checkTurns, missing, excuse, changed>>

RequiredNext == GitHubMoves \/ TickPasses \/ MapPullRequest \/ RequiredContextNames
                \/ HasUnreportedRequired \/ SettleUnreported

RequiredSpec == RequiredInit /\ [][RequiredNext]_checkVars

-----------------------------------------------------------------------------
(* The counts and the word agree: "a pending pull request never carries a  *)
(* failed count", and a failing one counts a failure or says that runs     *)
(* await approval (client.go:1621-1623, 1639-1642).                        *)
RollupCountsAgree ==
    /\ shownRow.ci = "pending" => shownRow.counts.failed = 0
    /\ shownRow.ci = "success" => shownRow.counts.failed = 0 /\ shownRow.counts.waiting = 0
    /\ shownRow.ci = "failure" => shownRow.counts.failed > 0 \/ shownRow.awaiting

(* A blocked pull request is not shown green while a required check has    *)
(* yet to report, unless the rules could not be read, changed within the   *)
(* time their answer is kept, or the commit was found complete by rules or *)
(* runs that have changed since (required_checks.go:31-35, 178-184).  That *)
(* last is for good, even when the rules were minutes old by then.         *)
GreenHasReported ==
    (look = Rest /\ shownRow.ci = "success" /\ missing) => excuse # {}
=============================================================================
