---------------------------- MODULE BudgetReserve ----------------------------
(***************************************************************************)
(* Who may spend a forge's API budget (dashboard/reserve.go, the checks in *)
(* fetchSources, RefreshRepo and PollCI that ask it, exhaustedHealth) and  *)
(* how long the scheduled refresh waits (NextRefreshDelay, and the         *)
(* stretching in refresh_interval.go).                                     *)
(*                                                                         *)
(* One budget of one forge.  Only a full refresh brings the board's figure *)
(* up to date: polls, webhook refreshes and people spend behind its back.  *)
(***************************************************************************)
EXTENDS Integers, Sequences, FiniteSetsExt

CONSTANTS
  Limit,       \* the budget of one window
  Floor,       \* reserveFloor, cut down
  MaxCost      \* bound: points one full refresh costs

VARIABLES
  left,        \* what the forge has left for us
  figure,      \* RateLimit.Remaining on the board, Limit + 1 when not reported yet
  windowOver,  \* the board's ResetsAt has passed
  costs,       \* reserveLedger.cost: the last full refreshes
  behind,      \* history: something was spent since the board's figure was read
  surprise,    \* history: the last full refresh cost more than the ledger expected
  spender      \* history: what spent last

bvars == <<left, figure, windowOver, costs, behind, surprise, spender>>

CostWindow == 3
Unknown == Limit + 1
Kinds == {"none", "full", "poll", "webhook", "person"}

BudgetTypeOK ==
  /\ left \in 0..Limit /\ figure \in 0..Unknown /\ windowOver \in BOOLEAN
  /\ costs \in Seq(0..MaxCost) /\ Len(costs) <= CostWindow
  /\ behind \in BOOLEAN /\ surprise \in BOOLEAN /\ spender \in Kinds

BudgetInit ==
  /\ left = Limit /\ figure = Unknown /\ windowOver = FALSE /\ costs = <<>>
  /\ behind = FALSE /\ surprise = FALSE /\ spender = "none"

-----------------------------------------------------------------------------
\* reserveOf: a tenth, at least the floor, never more than half.
ReserveOf(limit) == Min({Max({Floor, limit \div 10}), limit \div 2})
Reserve == ReserveOf(Limit)
LastCost == Max({0} \cup {costs[i] : i \in 1..Len(costs)})

\* exhaustedHealth, which every reader asks first.
Exhausted == figure = 0 /\ ~windowOver

\* Slip: the cost of the coming refresh is left out.
BudgetHold_ForgetsCost(kind) ==
  /\ figure # Unknown /\ ~windowOver
  /\ IF kind = "webhook" THEN figure = 0 ELSE figure <= Reserve

\* budgetHold for one budget.
BudgetHold(kind) ==
  /\ figure # Unknown /\ ~windowOver
  /\ IF kind = "webhook" THEN figure = 0
     ELSE LET after == IF kind = "full" THEN LastCost ELSE 0
          IN figure <= Reserve + after

\* A full refresh, the background's or a person's; it records what it cost
\* and brings the figure up to date.  Past its budget the forge refuses.
FullRefresh(kind, cost) ==
  /\ ~Exhausted
  /\ kind = "full" => ~BudgetHold("full")
  /\ IF cost <= left
     THEN /\ left' = left - cost
          /\ costs' = LET c == Append(costs, cost)
                      IN IF Len(c) > CostWindow THEN Tail(c) ELSE c
     ELSE left' = 0 /\ UNCHANGED costs
  /\ figure' = left' /\ windowOver' = FALSE
  /\ surprise' = (behind \/ windowOver \/ figure = Unknown \/ cost > LastCost)
  /\ behind' = FALSE /\ spender' = kind

\* A poll or a webhook's scoped refresh: one point, the figure left as it was.
SmallRead(kind) ==
  /\ kind = "poll" => ~Exhausted
  /\ ~BudgetHold(kind)
  /\ left > 0 /\ left' = left - 1
  /\ behind' = TRUE /\ spender' = kind
  /\ UNCHANGED <<figure, windowOver, costs, surprise>>

\* The forge's window turns over: the reset time the board knows passes with it.
WindowTurns ==
  /\ left' = Limit /\ windowOver' = TRUE /\ behind' = TRUE
  /\ UNCHANGED <<figure, costs, surprise, spender>>

BudgetNext ==
  \/ WindowTurns
  \/ \E kind \in {"full", "person"}, cost \in 0..MaxCost : FullRefresh(kind, cost)
  \/ \E kind \in {"poll", "webhook"} : SmallRead(kind)

BudgetSpec == BudgetInit /\ [][BudgetNext]_bvars

-----------------------------------------------------------------------------
CONSTANTS
  StretchRoof,   \* maxStretchedInterval, cut down like the times below
  BackoffBuffer, \* backoffBuffer
  MaxBackoff     \* maxBackoff

CriticallyLow(b) == b.limit > 0 /\ b.remaining * 20 < b.limit

\* Slip: a reset that has passed makes the wait shorter than the interval.
NextRefreshDelay_TrustsTheReset(budgets, interval) ==
  LET waits == {Min({b.untilReset + BackoffBuffer, MaxBackoff}) : b \in {c \in budgets : CriticallyLow(c) /\ c.remaining # 0}}
  IN IF waits = {} THEN interval ELSE Max(waits)

\* Past the latest reset of the budgets that are nearly, not wholly, spent, and
\* never sooner than the interval.
NextRefreshDelay(budgets, interval) ==
  Max({interval} \cup
      {Min({b.untilReset + BackoffBuffer, MaxBackoff}) : b \in {c \in budgets : CriticallyLow(c) /\ c.remaining # 0}})

\* Four times as long, up to a roof, never shorter.
StretchedInterval(interval) == IF interval >= StretchRoof THEN interval ELSE Min({4 * interval, StretchRoof})

\* Stretched when webhooks cover every repository, then pushed out.
NextDelay(budgets, interval, covered) ==
  NextRefreshDelay(budgets, IF covered THEN StretchedInterval(interval) ELSE interval)

-----------------------------------------------------------------------------
\* A scheduled refresh leaves the reserve for people and webhooks, unless it
\* cost more than each of the last three, or the figure it went by was not
\* one read in this window with nothing spent since.
ScheduledRefreshLeavesTheReserve ==
  (spender = "full" /\ ~surprise) => left > Reserve

\* The wait before a scheduled refresh is never shorter than the interval, has
\* a bound whatever reset a forge reports, and is pushed out only by a budget
\* its forge's refresh would have been held back for (reserve.go), and not past
\* that budget's reset.  The state plays no part: it is asked before a first call.
Budgets == [remaining : {0, 1, 2, 5}, limit : {0, 1, 20, 40, 100}, untilReset : {-4, 0, 3, 20}]
DelaysAreJustified ==
  spender = "none" => \A b, c \in Budgets, interval \in {1, 3, 9}, covered \in BOOLEAN :
    LET delay == NextDelay({b, c}, interval, covered)
    IN /\ delay \in interval..Max({interval, StretchRoof, MaxBackoff})
       /\ delay > (IF covered THEN StretchedInterval(interval) ELSE interval) =>
            \E d \in {b, c} : d.remaining \in 1..ReserveOf(d.limit) /\ delay <= d.untilReset + BackoffBuffer
=============================================================================
