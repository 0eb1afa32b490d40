---------------------------- MODULE PollSchedule ----------------------------
(***************************************************************************)
(* When the CI poll reads one item again (dashboard/pending_schedule.go,   *)
(* PollCI and its helpers in ci_poll.go, RunCIPoll in aggregator.go): a    *)
(* pull request whose checks are pending, one armed for merge on GitHub,   *)
(* or a Forgejo main branch that runs or has just finished.                *)
(*                                                                         *)
(* Time is counted in half poll intervals (Base = 2), relative to now: a   *)
(* tick may land half an interval early, which is what the due rule allows *)
(* for, or be late because the poll before it took its time.               *)
(***************************************************************************)
EXTENDS Naturals, FiniteSetsExt

CONSTANTS
  Base,      \* the poll interval, in units of half of it
  Cap,       \* pendingPollCap in the same units
  Overdue,   \* overdueMultiple * Base: how long a delivery is believed in
  MaxLate    \* bound: how many units a tick may be late

VARIABLES
  kind,      \* "pull" or "branch"
  live,      \* the board lists the item as one to poll
  armedItem, \* armed for merge on GitHub: read on every tick
  covered,   \* the webhook is confirmed to send check events
  heard,     \* units since the last check delivery of this head; Overdue + 1 for none
  blocked,   \* the budget is spent or held back, or the forge does not answer
  entry,     \* pendingSchedule.entries: units until next, and the interval
  held,      \* pendingSchedule.heldSince: units since, Absent for none
  tick,      \* units since the last tick
  unread,    \* history: units since the item was read, or could not be
  followUp   \* history: the last read found a change

pvars == <<kind, live, armedItem, covered, heard, blocked, entry, held, tick, unread, followUp>>

Absent == 3 * Cap + 1
Longest == 3 * Cap
NoEntry == [next |-> 0, interval |-> 0]
Roof == Max({Cap, Base})
Minus(a, b) == IF a > b THEN a - b ELSE 0

PollTypeOK ==
  /\ kind \in {"pull", "branch"}
  /\ live \in BOOLEAN /\ armedItem \in BOOLEAN /\ covered \in BOOLEAN /\ blocked \in BOOLEAN
  /\ followUp \in BOOLEAN
  /\ heard \in 0..Overdue + 1
  /\ entry \in [next : 0..Roof, interval : 0..Roof]
  /\ held \in 0..Absent
  /\ tick \in 0..Base + MaxLate
  /\ unread \in 0..Longest

PollInit ==
  /\ kind \in {"pull", "branch"}
  /\ live = FALSE /\ armedItem = FALSE /\ covered \in BOOLEAN /\ blocked = FALSE /\ followUp = FALSE
  /\ heard = Overdue + 1 /\ entry = NoEntry /\ held = Absent /\ tick = 0 /\ unread = 0

-----------------------------------------------------------------------------
(* The board, the forge and the clock (external).                          *)

\* Half an interval goes by.
Pass ==
  /\ tick < Base + MaxLate
  /\ tick' = tick + 1
  /\ heard' = Min({heard + 1, Overdue + 1})
  /\ entry' = [entry EXCEPT !.next = Minus(@, 1)]
  /\ held' = IF held = Absent THEN Absent ELSE Min({held + 1, Longest})
  /\ unread' = IF live /\ ~blocked THEN Min({unread + 1, Longest}) ELSE 0
  /\ UNCHANGED <<kind, live, armedItem, covered, blocked, followUp>>

\* The board starts or stops listing the item, or it is armed or disarmed.
BoardChanges ==
  /\ live' \in BOOLEAN /\ armedItem' \in BOOLEAN
  /\ armedItem' => (kind = "pull" /\ live')
  /\ <<live', armedItem'>> # <<live, armedItem>>
  /\ unread' = IF live THEN unread ELSE 0
  /\ UNCHANGED <<kind, covered, heard, blocked, entry, held, tick, followUp>>

\* A check_run delivery for the head, a replayed one included.
Delivery ==
  /\ kind = "pull" /\ covered
  /\ heard' = 0
  /\ UNCHANGED <<kind, live, armedItem, covered, blocked, entry, held, tick, unread, followUp>>

\* The budget runs out or comes back; the forge stops or starts answering.
ForgeTurns ==
  /\ blocked' = ~blocked
  /\ unread' = 0
  /\ UNCHANGED <<kind, live, armedItem, covered, heard, entry, held, tick, followUp>>

-----------------------------------------------------------------------------
(* PollCI.                                                                 *)

\* due: a key the schedule has not seen, or one whose time has come within half an interval.
Due == entry = NoEntry \/ entry.next <= Base \div 2

\* checksArriveByWebhook up to holdOff.
LeftToWebhook == kind = "pull" /\ covered /\ heard <= Overdue

\* Slip: the hold-off never runs out.
HoldOff_Restarts == TRUE

\* holdOff: the first time starts the clock, after the roof the item must be read.
HoldOff == held = Absent \/ held < Roof
HoldStarted == IF LeftToWebhook /\ held = Absent THEN 0 ELSE held
Waits == ~armedItem /\ (~Due \/ (LeftToWebhook /\ HoldOff))

\* Slip: a change does not bring the interval back to its base.
Polled_KeepsDoubling(changed) ==
  LET i == IF entry = NoEntry THEN Base ELSE entry.interval
  IN [next |-> i, interval |-> Min({2 * i, Roof})]

\* polled: a change, or an item not seen before, starts over at the base interval.
Polled(changed) ==
  LET i == IF entry = NoEntry \/ changed THEN Base ELSE entry.interval
  IN [next |-> i, interval |-> Min({2 * i, Roof})]

\* A tick that finds the item gone from the board: keepOnly drops what it knew.
KeepOnly ==
  /\ tick >= Base - 1 /\ ~live
  /\ entry' = NoEntry /\ held' = Absent /\ tick' = 0 /\ followUp' = FALSE
  /\ UNCHANGED <<kind, live, armedItem, covered, heard, blocked, unread>>

\* A tick that leaves the item for later.  With the budget held back holdOff is
\* not asked; with a forge that then does not answer it was.
LeaveBe ==
  /\ tick >= Base - 1 /\ live
  /\ blocked \/ Waits
  /\ held' \in IF armedItem \/ ~Due THEN {held}
              ELSE IF blocked THEN {held, HoldStarted} ELSE {HoldStarted}
  /\ tick' = 0
  /\ UNCHANGED <<kind, live, armedItem, covered, heard, blocked, entry, unread, followUp>>

\* A tick that reads it, in a batch or by its repository.  An armed item is
\* read without going through the schedule.
Read ==
  /\ tick >= Base - 1 /\ live /\ ~blocked /\ ~Waits
  /\ \E changed \in BOOLEAN :
       /\ entry' = IF armedItem THEN entry ELSE Polled(changed)
       /\ followUp' = (changed /\ ~armedItem)
  /\ held' = IF armedItem THEN held ELSE Absent
  /\ unread' = 0 /\ tick' = 0
  /\ UNCHANGED <<kind, live, armedItem, covered, heard, blocked>>

PollNext == Pass \/ BoardChanges \/ Delivery \/ ForgeTurns \/ KeepOnly \/ LeaveBe \/ Read

PollSpec == PollInit /\ [][PollNext]_pvars

-----------------------------------------------------------------------------
\* No item on the board is left unread for longer than its longest interval,
\* one hold by the webhook and a tick's delay after each, whatever deliveries
\* arrive; and one whose last read found a change, with no webhook to wait
\* for, is read again within two ticks.
NothingGoesUnread ==
  /\ unread <= 2 * Roof + 2 * (Base + MaxLate)
  /\ (followUp /\ ~covered) => unread <= 2 * (Base + MaxLate)
=============================================================================
