------------------------------ MODULE Debouncer ------------------------------
(***************************************************************************)
(* The webhook debouncer (internal/dashboard/debounce.go), for one key.    *)
(* Deliveries that come close together share one scoped refresh, Quiet     *)
(* after the newest and at most MaxHold after the first.                   *)
(*                                                                         *)
(* The timer's callback and the context's callback start on their own      *)
(* goroutines and then wait for the mutex, so a Submit can come between.   *)
(* Stop takes back a timer that has not started its callback, and nothing  *)
(* else.  Every Submit carries the process's one context, as every caller  *)
(* in the program does (api/webhooks.go, triggerRefresh).                  *)
(*                                                                         *)
(* Times are ticks counted from the event they belong to, so the clock     *)
(* itself is unbounded.  A ready callback takes the mutex before the clock *)
(* moves: the bounds hold up to the scheduler's delay.                     *)
(***************************************************************************)
EXTENDS Naturals

CONSTANTS
  Quiet,     \* webhookQuiet
  MaxHold,   \* webhookMaxHold
  MaxGen     \* bound: events folded into one entry

ASSUME TimesAssumption == Quiet \in Nat /\ MaxHold \in Nat /\ Quiet <= MaxHold /\ MaxGen \in Nat

VARIABLES
  pending,  \* entries[key] exists
  gen,      \* its gen, 0 without an entry
  held,     \* time since its first event
  timers,   \* armed timers: the gen each will fire, the time it has left, and
            \* whether it is the one the entry's stop would take back
  fires,    \* gens whose fire callback started and waits for the mutex
  runs,     \* fn calls taken out of an entry and not begun
  owner,    \* the owner's context: "live", "ended", or "closed" once close ran
  since,    \* history: time since the newest accepted event
  oldest,   \* history: time since the oldest event no fn has covered
  waiting   \* history: an accepted event no fn call has covered yet

vars == <<pending, gen, held, timers, fires, runs, owner, since, oldest, waiting>>

Gens == 1..MaxGen
Timers == [gen : Gens, left : 0..Quiet, stoppable : BOOLEAN]

TypeOK ==
  /\ pending \in BOOLEAN
  /\ gen \in 0..MaxGen
  /\ held \in 0..MaxHold
  /\ timers \in SUBSET Timers
  /\ fires \in SUBSET Gens
  /\ runs \in Nat
  /\ owner \in {"live", "ended", "closed"}
  /\ since \in 0..Quiet
  /\ oldest \in 0..(MaxHold + 1)
  /\ waiting \in BOOLEAN

Init ==
  /\ pending = FALSE
  /\ gen = 0
  /\ held = 0
  /\ timers = {}
  /\ fires = {}
  /\ runs = 0
  /\ owner = "live"
  /\ since = 0
  /\ oldest = 0
  /\ waiting = FALSE

-----------------------------------------------------------------------------

\* Slip: push the refresh back by Quiet whatever the entry's age.
Wait_Uncapped(h) == Quiet

\* How long the timer of an event is armed for when the entry is h old.
Wait(h) == IF MaxHold - h < Quiet THEN MaxHold - h ELSE Quiet

Armed(g, h) == [gen |-> g, left |-> Wait(h), stoppable |-> TRUE]

\* stop of the entry: the newest timer it armed, unless its callback started.
Stopped == {t \in timers : ~t.stoppable}

\* Slip: take an event after the owner's end.
Submit_Unchecked ==
  /\ gen < MaxGen
  /\ pending' = TRUE
  /\ gen' = gen + 1
  /\ timers' = Stopped \union {Armed(gen + 1, held)}
  /\ since' = 0
  /\ oldest' = IF waiting THEN oldest ELSE 0
  /\ waiting' = TRUE
  /\ UNCHANGED <<held, fires, runs, owner>>

\* Submit while the owner lives: fold the event into the entry or start one,
\* stop the timer before it and arm the next.
Submit ==
  /\ owner = "live"
  /\ gen < MaxGen
  /\ pending' = TRUE
  /\ gen' = gen + 1
  /\ timers' = Stopped \union {Armed(gen + 1, held)}
  /\ since' = 0
  /\ oldest' = IF waiting THEN oldest ELSE 0
  /\ waiting' = TRUE
  /\ UNCHANGED <<held, fires, runs, owner>>

\* A timer with no time left starts its callback, which Stop cannot take back.
TimerFires ==
  /\ \E t \in timers :
       /\ t.left = 0
       /\ timers' = timers \ {t}
       /\ fires' = fires \union {t.gen}
  /\ UNCHANGED <<pending, gen, held, runs, owner, since, oldest, waiting>>

\* The entry leaves the map, and with it the handle on its armed timer.
Release ==
  /\ pending' = FALSE
  /\ gen' = 0
  /\ held' = 0

\* Slip: run the fn and leave the entry in the map.
Fire_KeepsEntry(g) ==
  /\ g \in fires
  /\ fires' = fires \ {g}
  /\ runs' = IF pending /\ gen = g THEN runs + 1 ELSE runs
  /\ UNCHANGED <<pending, gen, held, timers, owner, since, oldest, waiting>>

\* Slip: fire the entry whatever the callback's gen.
Fire_AnyGen(g) ==
  /\ g \in fires
  /\ fires' = fires \ {g}
  /\ IF pending
     THEN /\ Release
          /\ timers' = {[t EXCEPT !.stoppable = FALSE] : t \in timers}
          /\ runs' = runs + 1
     ELSE UNCHANGED <<pending, gen, held, timers, runs>>
  /\ UNCHANGED <<owner, since, oldest, waiting>>

\* fire with the mutex: a callback whose gen is not the entry's does nothing.
Fire(g) ==
  /\ g \in fires
  /\ fires' = fires \ {g}
  /\ IF pending /\ gen = g
     THEN /\ Release
          /\ timers' = {[t EXCEPT !.stoppable = FALSE] : t \in timers}
          /\ runs' = runs + 1
     ELSE UNCHANGED <<pending, gen, held, timers, runs>>
  /\ UNCHANGED <<owner, since, oldest, waiting>>

\* fn, the scoped refresh, begins, outside the mutex: what it reads covers
\* every event accepted by then.
RunFn ==
  /\ runs > 0
  /\ runs' = runs - 1
  /\ waiting' = FALSE
  /\ UNCHANGED <<pending, gen, held, timers, fires, owner, since, oldest>>

\* The owner's context ends; close runs on a goroutine of its own.
OwnerEnds ==
  /\ owner = "live"
  /\ owner' = "ended"
  /\ UNCHANGED <<pending, gen, held, timers, fires, runs, since, oldest, waiting>>

\* The pending call is taken back: its entry leaves, its timer is stopped.
TakeBack ==
  /\ Release
  /\ timers' = Stopped
  /\ waiting' = FALSE
  /\ UNCHANGED <<fires, runs, since, oldest>>

Close ==
  /\ owner = "ended"
  /\ owner' = "closed"
  /\ TakeBack

\* drop: the context of the events is the process's, of which the owner's is a
\* child, so the entry's callback may come before close.
Drop ==
  /\ owner = "ended"
  /\ pending
  /\ TakeBack
  /\ UNCHANGED owner

CountUp(n, most) == IF n < most THEN n + 1 ELSE n

Tick ==
  /\ fires = {} /\ runs = 0 /\ owner # "ended"
  /\ \A t \in timers : t.left > 0
  /\ timers' = {[t EXCEPT !.left = @ - 1] : t \in timers}
  /\ held' = IF pending THEN CountUp(held, MaxHold) ELSE 0
  /\ since' = CountUp(since, Quiet)
  /\ oldest' = IF waiting THEN CountUp(oldest, MaxHold + 1) ELSE 0
  /\ UNCHANGED <<pending, gen, fires, runs, owner, waiting>>

Next ==
  \/ Submit \/ TimerFires \/ RunFn \/ OwnerEnds \/ Close \/ Drop \/ Tick
  \/ \E g \in Gens : Fire(g)

Spec == Init /\ [][Next]_vars

-----------------------------------------------------------------------------
(* Properties *)

\* No accepted event waits longer than MaxHold for the refresh it asked for,
\* however many events follow it.
NeverHeldTooLong == waiting => oldest <= MaxHold

\* An entry is never stranded: its newest event has a timer armed or a
\* callback on its way.
EntryWillFire ==
  pending => \/ \E t \in timers : t.gen = gen /\ t.stoppable
             \/ gen \in fires

\* Once closed, nothing is pending and no later event opens an entry.
ClosedHoldsNothing == owner = "closed" => ~pending

\* What a repository's entry owes the deliveries it holds, and holds when closed.
BurstsAreServed == NeverHeldTooLong /\ EntryWillFire /\ ClosedHoldsNothing

\* The refresh of a burst runs Quiet after its newest event, or at the cap.  The
\* one exception is a callback left over from an earlier entry that carries the
\* number of the newest event, while that event's own timer is still armed:
\* gen starts again with every entry.  (debounceEntry.gen: "a callback that was
\* already running when a later event reset the timer finds nothing to do".)
OnlyALeftoverFiresEarly ==
  [][runs' > runs =>
       \/ since >= Quiet \/ held >= MaxHold
       \/ gen \in fires /\ \E t \in timers : t.stoppable /\ t.gen = gen]_vars
=============================================================================
