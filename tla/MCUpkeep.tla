------------------------------ MODULE MCUpkeep ------------------------------
(* What the server does by itself, on a clock or after a refresh.  Four      *)
(* parts of one run, each behaviour of one of them: queued actions on small  *)
(* tables; branch updates and the Dependabot watch; the CI poll schedule,    *)
(* in half intervals; the reserve of the forge's budget.                     *)
EXTENDS QueuedActions, Sequences

CONSTANTS c1, t1, UMaxVer, UMaxRestarts, UMaxEdits,
          Base, Cap, Overdue, MaxLate, Limit, Floor, MaxCost,
          StretchRoof, BackoffBuffer, MaxBackoff

VARIABLES part,
          kind, upull, repoOn, botsOn, choice, saving, urow, uwaiting, upc, usnap, loaded, watch,
          attempted, upd, urestarts, uedits, rebaseAsked, earned, refused, changed, uended,
          pollKind, live, armedItem, covered, heard, blocked, entry, held, tick, unread, followUp,
          left, figure, windowOver, costs, behind, surprise, spender

updateVars == <<kind, upull, repoOn, botsOn, choice, saving, urow, uwaiting, upc, usnap, loaded, watch,
                attempted, upd, urestarts, uedits, rebaseAsked, earned, refused, changed, uended>>
pollVars == <<pollKind, live, armedItem, covered, heard, blocked, entry, held, tick, unread, followUp>>
budgetVars == <<left, figure, windowOver, costs, behind, surprise, spender>>

AU == INSTANCE AutoUpdate WITH asked <- rebaseAsked
PS == INSTANCE PollSchedule WITH kind <- pollKind
BU == INSTANCE BudgetReserve

ASSUME UpkeepAssumption ==
  /\ UMaxVer \in Nat /\ UMaxRestarts \in Nat /\ UMaxEdits \in Nat
  /\ Base \in Nat /\ Cap \in Nat /\ Overdue \in Nat /\ MaxLate \in Nat
  /\ Limit \in Nat /\ Floor \in Nat /\ MaxCost \in Nat
  /\ StretchRoof \in Nat /\ BackoffBuffer \in Nat /\ MaxBackoff \in Nat

\* A part that is not chosen rests in one of its initial states.
MCInit ==
  /\ part \in {"queue", "updates", "polls", "budget"}
  /\ Init /\ AU!Init /\ PS!PollInit /\ BU!BudgetInit
  /\ part = "updates" \/ (kind = "plain" /\ ~upull.behind /\ ~repoOn /\ ~botsOn)
  /\ part = "polls" \/ (pollKind = "pull" /\ covered)

MCNext ==
  /\ UNCHANGED part
  /\ \/ part = "queue" /\ Next /\ UNCHANGED <<updateVars, pollVars, budgetVars>>
     \/ part = "updates" /\ AU!Next /\ UNCHANGED <<vars, pollVars, budgetVars>>
     \/ part = "polls" /\ PS!PollNext /\ UNCHANGED <<vars, updateVars, budgetVars>>
     \/ part = "budget" /\ BU!BudgetNext /\ UNCHANGED <<vars, updateVars, pollVars>>

MCSpec == MCInit /\ [][MCNext]_<<part, vars, updateVars, pollVars, budgetVars>>

\* The scheduler never sleeps past a waiting row, and a cancel that reaches the
\* table before its second read wins (queued_runner.go).
QueueIsHonest == part = "queue" => TypeOK /\ NeverOversleeps /\ EarlyCancelWins

\* Branch updates are asked for as long as they are wanted and not once more:
\* one rebase comment while the board shows the branch behind, a recreate only after a
\* rebase that came to nothing, no second try of a version that conflicts before
\* its wait is up, only on branches the pass found behind; and a choice made
\* for one pull request outlives every pass until it ends (auto_update_branch.go).
UpdatesAreWanted ==
  /\ [](part = "updates" => AU!TypeOK /\ AU!OneRebaseWhileBehind /\ AU!RecreateIsEarned /\ AU!ConflictStands
          /\ AU!PassActsOnThePending)
  /\ AU!ChoiceIsKept

\* A pending item is read within the time its schedule and its webhook allow
\* (pending_schedule.go), and a refresh by the clock leaves the reserve in the
\* forge's budget unless it cost more than the last ones (reserve.go);
\* what pushes that refresh out is a budget it would be held back for anyway.
PollsAreRationed ==
  /\ part = "polls" => PS!PollTypeOK /\ PS!NothingGoesUnread
  /\ part = "budget" => BU!BudgetTypeOK /\ BU!ScheduledRefreshLeavesTheReserve /\ BU!DelaysAreJustified
=============================================================================
