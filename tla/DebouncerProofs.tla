--------------------------- MODULE DebouncerProofs ---------------------------
(***************************************************************************)
(* Webhooks, for every value of the constants.                             *)
(*                                                                         *)
(* The debouncer: no accepted event waits longer than MaxHold, no entry is *)
(* stranded without a timer, a closed debouncer holds nothing, and only a  *)
(* leftover callback runs a refresh early.  The invariant ties the clock   *)
(* to the entry: the timer that stop would take back rings before the      *)
(* entry is MaxHold old, and the oldest uncovered event is no older than   *)
(* the entry unless a refresh that covers it is about to begin.            *)
(*                                                                         *)
(* Then the bookkeeping around it, each part with an invariant of its own: *)
(* who holds a repository in the upgrade of old hooks, which write the     *)
(* note of the last delivery relies on, which row a hook check relies on.  *)
(***************************************************************************)
EXTENDS MCDebouncer, SequenceTheorems, TLAPS

EntryShape ==
  /\ pending => gen > 0
  /\ ~pending => gen = 0 /\ held = 0

TimerInTime == \A t \in timers : t.stoppable => held + t.left <= MaxHold

OldestInEntry == waiting /\ runs = 0 => pending /\ oldest <= held

OldestInTime == oldest <= MaxHold

DebouncerInv ==
  /\ TypeOK /\ EntryShape /\ EntryWillFire /\ ClosedHoldsNothing
  /\ TimerInTime /\ OldestInEntry /\ OldestInTime

\* An event arms its timer for at most Quiet and at most up to the cap.
LEMMA WaitWithinHold ==
  ASSUME NEW h \in 0..MaxHold
  PROVE  Wait(h) \in 0..Quiet /\ h + Wait(h) <= MaxHold
BY TimesAssumption DEF Wait

\* The invariant holds at start.
LEMMA InitInv == Init => DebouncerInv
<1> SUFFICES ASSUME Init PROVE DebouncerInv
    OBVIOUS
<1>1. pending \in BOOLEAN /\ waiting \in BOOLEAN
      BY DEF Init
<1>2. /\ gen \in 0..MaxGen /\ held \in 0..MaxHold /\ runs \in Nat
      /\ since \in 0..Quiet /\ oldest \in 0..(MaxHold + 1) /\ oldest <= MaxHold
      BY TimesAssumption DEF Init
<1>3. timers \in SUBSET Timers /\ fires \in SUBSET Gens /\ owner \in {"live", "ended", "closed"}
      BY DEF Init
<1>4. TypeOK
      BY <1>1, <1>2, <1>3 DEF TypeOK
<1>5. EntryShape /\ EntryWillFire /\ ClosedHoldsNothing
      BY DEF Init, EntryShape, EntryWillFire, ClosedHoldsNothing
<1>6. TimerInTime /\ OldestInEntry /\ OldestInTime
      BY <1>2 DEF Init, TimerInTime, OldestInEntry, OldestInTime
<1> QED BY <1>4, <1>5, <1>6 DEF DebouncerInv

\* Submit keeps the invariant: the timer it arms is the entry's new one.
LEMMA SubmitInv == DebouncerInv /\ Submit => DebouncerInv'
<1> SUFFICES ASSUME DebouncerInv, Submit PROVE DebouncerInv'
    OBVIOUS
<1> USE TimesAssumption DEF DebouncerInv
<1> DEFINE new == Armed(gen + 1, held)
<1>1. gen \in 0..MaxGen /\ held \in 0..MaxHold /\ gen < MaxGen
      BY DEF TypeOK, Submit
<1>2. Wait(held) \in 0..Quiet /\ held + Wait(held) <= MaxHold
      BY <1>1, WaitWithinHold
<1>3. new \in Timers /\ new.stoppable /\ new.gen = gen + 1 /\ new.left = Wait(held)
      BY <1>1, <1>2 DEF Armed, Timers, Gens
<1>4. timers' = Stopped \union {new} /\ Stopped \subseteq timers
      BY DEF Submit, Stopped
<1>5. \A t \in Stopped : ~t.stoppable
      BY DEF Stopped
<1>6. /\ pending' = TRUE /\ gen' = gen + 1 /\ since' = 0 /\ waiting' = TRUE
      /\ oldest' = (IF waiting THEN oldest ELSE 0)
      /\ UNCHANGED <<held, fires, runs, owner>> /\ owner = "live"
      BY DEF Submit
<1>7. TypeOK'
  <2>1. timers' \in SUBSET Timers
        BY <1>3, <1>4 DEF TypeOK
  <2>2. pending' \in BOOLEAN /\ waiting' \in BOOLEAN
        BY <1>6
  <2>3. gen' \in 0..MaxGen /\ since' \in 0..Quiet
        BY <1>1, <1>6
  <2>4. oldest' \in 0..(MaxHold + 1)
        BY <1>6 DEF TypeOK
  <2>5. held' \in 0..MaxHold /\ fires' \in SUBSET Gens /\ runs' \in Nat
        /\ owner' \in {"live", "ended", "closed"}
        BY <1>6 DEF TypeOK
  <2> QED BY <2>1, <2>2, <2>3, <2>4, <2>5 DEF TypeOK
<1>8. EntryShape' /\ EntryWillFire' /\ ClosedHoldsNothing'
  <2>1. EntryShape'
        BY <1>1, <1>6 DEF EntryShape
  <2>2. EntryWillFire'
        BY <1>3, <1>4, <1>6 DEF EntryWillFire
  <2>3. ClosedHoldsNothing'
        BY <1>6 DEF ClosedHoldsNothing
  <2> QED BY <2>1, <2>2, <2>3
<1>9. TimerInTime'
      BY <1>2, <1>3, <1>4, <1>5, <1>6 DEF TimerInTime
<1>10. OldestInEntry'
      BY <1>1, <1>6 DEF OldestInEntry, TypeOK
<1>11. OldestInTime'
      BY <1>6 DEF OldestInTime
<1> QED BY <1>7, <1>8, <1>9, <1>10, <1>11

\* A timer that rings keeps the invariant: its gen is now a callback's.
LEMMA TimerFiresInv == DebouncerInv /\ TimerFires => DebouncerInv'
<1> SUFFICES ASSUME DebouncerInv, TimerFires PROVE DebouncerInv'
    OBVIOUS
<1> USE DEF DebouncerInv
<1>1. PICK t \in timers : timers' = timers \ {t} /\ fires' = fires \union {t.gen}
      BY DEF TimerFires
<1>2. UNCHANGED <<pending, gen, held, runs, owner, since, oldest, waiting>>
      BY DEF TimerFires
<1>3. t.gen \in Gens
      BY DEF TypeOK, Timers
<1>4. TypeOK'
      BY <1>1, <1>2, <1>3 DEF TypeOK
<1>5. EntryWillFire'
      BY <1>1, <1>2 DEF EntryWillFire
<1>6. TimerInTime'
      BY <1>1, <1>2 DEF TimerInTime
<1>7. EntryShape' /\ ClosedHoldsNothing' /\ OldestInEntry' /\ OldestInTime'
      BY <1>2 DEF EntryShape, ClosedHoldsNothing, OldestInEntry, OldestInTime
<1> QED BY <1>4, <1>5, <1>6, <1>7

\* A callback keeps the invariant, the entry's own or a stale one.
LEMMA FireInv == ASSUME NEW g \in Gens PROVE DebouncerInv /\ Fire(g) => DebouncerInv'
<1> SUFFICES ASSUME DebouncerInv, Fire(g) PROVE DebouncerInv'
    OBVIOUS
<1> USE TimesAssumption DEF DebouncerInv
<1>1. fires' = fires \ {g} /\ UNCHANGED <<owner, since, oldest, waiting>>
      BY DEF Fire
<1>2. CASE pending /\ gen = g
  <2>1. /\ pending' = FALSE /\ gen' = 0 /\ held' = 0 /\ runs' = runs + 1
        /\ timers' = {[t EXCEPT !.stoppable = FALSE] : t \in timers}
        BY <1>2 DEF Fire, Release
  <2>2. timers' \in SUBSET Timers /\ \A t \in timers' : ~t.stoppable
        BY <2>1 DEF TypeOK, Timers
  <2>3. pending' \in BOOLEAN
        BY <2>1
  <2>4. gen' \in 0..MaxGen /\ held' \in 0..MaxHold /\ runs' \in Nat
        BY <2>1 DEF TypeOK
  <2>5. TypeOK'
        BY <1>1, <2>2, <2>3, <2>4 DEF TypeOK
  <2>6. EntryShape' /\ EntryWillFire' /\ ClosedHoldsNothing'
        BY <2>1 DEF EntryShape, EntryWillFire, ClosedHoldsNothing
  <2>7. TimerInTime'
        BY <2>2 DEF TimerInTime
  <2>8. runs' # 0
        BY <2>1 DEF TypeOK
  <2>9. OldestInEntry' /\ OldestInTime'
        BY <1>1, <2>8 DEF OldestInEntry, OldestInTime
  <2> QED BY <2>5, <2>6, <2>7, <2>9
<1>3. CASE ~(pending /\ gen = g)
  <2>1. UNCHANGED <<pending, gen, held, timers, runs>>
        BY <1>3 DEF Fire
  <2>2. TypeOK'
        BY <1>1, <2>1 DEF TypeOK
  <2>3. EntryWillFire'
        BY <1>1, <1>3, <2>1 DEF EntryWillFire
  <2>4. EntryShape' /\ ClosedHoldsNothing' /\ TimerInTime' /\ OldestInEntry' /\ OldestInTime'
        BY <1>1, <2>1 DEF EntryShape, ClosedHoldsNothing, TimerInTime, OldestInEntry, OldestInTime
  <2> QED BY <2>2, <2>3, <2>4
<1> QED BY <1>2, <1>3

\* A refresh that begins, and the owner's end, keep the invariant.
LEMMA RunAndOwnerInv == DebouncerInv /\ (RunFn \/ OwnerEnds) => DebouncerInv'
<1> SUFFICES ASSUME DebouncerInv, RunFn \/ OwnerEnds PROVE DebouncerInv'
    OBVIOUS
<1> USE DEF DebouncerInv
<1>1. UNCHANGED <<pending, gen, held, timers, fires, since, oldest>>
      BY DEF RunFn, OwnerEnds
<1>2. waiting' \in BOOLEAN /\ (waiting' => UNCHANGED <<waiting, runs>>)
      BY DEF RunFn, OwnerEnds, TypeOK
<1>3. runs' \in Nat
      BY DEF RunFn, OwnerEnds, TypeOK
<1>4. owner' \in {"live", "ended", "closed"} /\ (owner' = "closed" => owner = "closed")
      BY DEF RunFn, OwnerEnds, TypeOK
<1>5. TypeOK'
      BY <1>1, <1>2, <1>3, <1>4 DEF TypeOK
<1>6. EntryShape' /\ EntryWillFire' /\ TimerInTime' /\ OldestInTime'
      BY <1>1 DEF EntryShape, EntryWillFire, TimerInTime, OldestInTime
<1>7. ClosedHoldsNothing'
      BY <1>1, <1>4 DEF ClosedHoldsNothing
<1>8. OldestInEntry'
      BY <1>1, <1>2 DEF OldestInEntry
<1> QED BY <1>5, <1>6, <1>7, <1>8

\* Taking the entry back, in close or in drop, keeps the invariant.
LEMMA CloseInv == DebouncerInv /\ (Close \/ Drop) => DebouncerInv'
<1> SUFFICES ASSUME DebouncerInv, Close \/ Drop PROVE DebouncerInv'
    OBVIOUS
<1> USE TimesAssumption DEF DebouncerInv
<1>1. /\ pending' = FALSE /\ gen' = 0 /\ held' = 0 /\ waiting' = FALSE
      /\ timers' = Stopped /\ UNCHANGED <<fires, runs, since, oldest>>
      BY DEF Close, Drop, TakeBack, Release
<1>0. owner' \in {"live", "ended", "closed"}
      BY DEF Close, Drop
<1>2. Stopped \subseteq timers /\ \A t \in Stopped : ~t.stoppable
      BY DEF Stopped
<1>3. pending' \in BOOLEAN /\ waiting' \in BOOLEAN
      BY <1>1
<1>4. gen' \in 0..MaxGen /\ held' \in 0..MaxHold
      BY <1>1
<1>5. TypeOK'
      BY <1>1, <1>2, <1>3, <1>4, <1>0 DEF TypeOK
<1>6. EntryShape' /\ EntryWillFire' /\ ClosedHoldsNothing' /\ OldestInEntry'
      BY <1>1 DEF EntryShape, EntryWillFire, ClosedHoldsNothing, OldestInEntry
<1>7. TimerInTime' /\ OldestInTime'
      BY <1>1, <1>2 DEF TimerInTime, OldestInTime
<1> QED BY <1>5, <1>6, <1>7

\* The clock keeps the invariant: an entry with an uncovered event still has
\* the timer that rings in time, so it is not MaxHold old yet.
LEMMA TickInv == DebouncerInv /\ Tick => DebouncerInv'
<1> SUFFICES ASSUME DebouncerInv, Tick PROVE DebouncerInv'
    OBVIOUS
<1> USE TimesAssumption DEF DebouncerInv
<1>1. /\ fires = {} /\ runs = 0 /\ \A t \in timers : t.left > 0
      /\ timers' = {[t EXCEPT !.left = @ - 1] : t \in timers}
      /\ UNCHANGED <<pending, gen, fires, runs, owner, waiting>>
      BY DEF Tick
<1>2. \A t \in timers : /\ t \in Timers /\ t.left \in 1..Quiet
                        /\ [t EXCEPT !.left = @ - 1].left = t.left - 1
                        /\ [t EXCEPT !.left = @ - 1].gen = t.gen
                        /\ [t EXCEPT !.left = @ - 1].stoppable = t.stoppable
                        /\ [t EXCEPT !.left = @ - 1] \in Timers
      BY <1>1 DEF TypeOK, Timers
<1>3. ASSUME pending
      PROVE  held < MaxHold /\ held' = held + 1
  <2>1. PICK t \in timers : t.gen = gen /\ t.stoppable
        BY <1>1, <1>3 DEF EntryWillFire
  <2>2. held + t.left <= MaxHold
        BY <2>1 DEF TimerInTime
  <2>3. t.left \in 1..Quiet
        BY <1>2, <2>1
  <2>4. held < MaxHold
        BY <2>2, <2>3 DEF TypeOK
  <2> QED BY <1>3, <2>4 DEF Tick, CountUp
<1>4. ~pending => held' = 0
      BY DEF Tick
<1>5. held' \in 0..MaxHold
      BY <1>3, <1>4 DEF TypeOK
<1>6. since' \in 0..Quiet
      BY DEF Tick, CountUp, TypeOK
<1>7. oldest' \in 0..(MaxHold + 1) /\ (~waiting => oldest' = 0)
      BY DEF Tick, CountUp, TypeOK
<1>8. waiting => pending /\ oldest' <= oldest + 1 /\ oldest <= held /\ oldest \in Nat
      BY <1>1 DEF OldestInEntry, Tick, CountUp, TypeOK
<1>9. TypeOK'
  <2>1. timers' \in SUBSET Timers
        BY <1>1, <1>2
  <2> QED BY <1>1, <1>5, <1>6, <1>7, <2>1 DEF TypeOK
<1>10. EntryShape' /\ ClosedHoldsNothing'
      BY <1>1, <1>4 DEF EntryShape, ClosedHoldsNothing
<1>11. EntryWillFire'
      BY <1>1, <1>2 DEF EntryWillFire
<1>12. TimerInTime'
  <2>1. ASSUME NEW u \in timers', u.stoppable PROVE held' + u.left <= MaxHold
    <3>1. PICK t \in timers : u = [t EXCEPT !.left = @ - 1]
          BY <1>1
    <3>2. t.stoppable /\ u.left = t.left - 1 /\ t.left \in 1..Quiet
          BY <1>2, <2>1, <3>1
    <3>3. held + t.left <= MaxHold /\ held \in Nat
          BY <3>2 DEF TimerInTime, TypeOK
    <3>4. held' \in {0, held + 1}
          BY <1>3, <1>4
    <3> QED BY <3>2, <3>3, <3>4
  <2> QED BY <2>1 DEF TimerInTime
<1>13. OldestInEntry'
      BY <1>1, <1>3, <1>8, <1>7 DEF OldestInEntry, TypeOK
<1>14. OldestInTime'
      BY <1>3, <1>7, <1>8 DEF OldestInTime, TypeOK
<1> QED BY <1>9, <1>10, <1>11, <1>12, <1>13, <1>14

\* Every step keeps the invariant.
LEMMA NextInv == DebouncerInv /\ [Next]_vars => DebouncerInv'
<1> SUFFICES ASSUME DebouncerInv, [Next]_vars PROVE DebouncerInv'
    OBVIOUS
<1>1. CASE UNCHANGED vars
      BY <1>1 DEF vars, DebouncerInv, TypeOK, EntryShape, EntryWillFire, ClosedHoldsNothing,
                  TimerInTime, OldestInEntry, OldestInTime
<1>2. CASE Next
      BY <1>2, SubmitInv, TimerFiresInv, FireInv, RunAndOwnerInv, CloseInv, TickInv DEF Next
<1> QED BY <1>1, <1>2

\* The inductive invariant of the debouncer.
THEOREM DebouncerInvariant == Spec => []DebouncerInv
BY InitInv, NextInv, PTL DEF Spec

\* No accepted event waits longer than MaxHold, whatever the burst.
THEOREM NeverHeldTooLongHolds == Spec => []NeverHeldTooLong
<1>1. DebouncerInv => NeverHeldTooLong
      BY DEF DebouncerInv, OldestInTime, NeverHeldTooLong
<1> QED BY <1>1, DebouncerInvariant, PTL

\* No entry is left in the map without a timer or a callback to take it out.
THEOREM EntryWillFireHolds == Spec => []EntryWillFire
<1>1. DebouncerInv => EntryWillFire
      BY DEF DebouncerInv
<1> QED BY <1>1, DebouncerInvariant, PTL

\* A closed debouncer holds nothing and stays that way.
THEOREM ClosedHoldsNothingHolds == Spec => []ClosedHoldsNothing
<1>1. DebouncerInv => ClosedHoldsNothing
      BY DEF DebouncerInv
<1> QED BY <1>1, DebouncerInvariant, PTL

\* No delivery is held too long or stranded, and a closed debouncer holds none.
THEOREM BurstsAreServedHolds == Spec => []BurstsAreServed
<1>1. DebouncerInv => BurstsAreServed
      BY DEF DebouncerInv, OldestInTime, NeverHeldTooLong, BurstsAreServed
<1> QED BY <1>1, DebouncerInvariant, PTL

-----------------------------------------------------------------------------
(* When a refresh runs early. *)

\* The timer stop would take back rings Quiet after the newest event or at the
\* cap, and belongs to the entry.
TimerNotEarly ==
  \A t \in timers : t.stoppable =>
    pending /\ (since + t.left >= Quiet \/ held + t.left >= MaxHold)

\* An entry whose own timer is gone is due.
EntryIsDue ==
  pending => \/ since >= Quiet \/ held >= MaxHold
             \/ \E t \in timers : t.stoppable /\ t.gen = gen

DueInv == TimerNotEarly /\ EntryIsDue

\* Every step keeps the times at which entries and timers are due.
LEMMA DueStep == DebouncerInv /\ DueInv /\ [Next]_vars => DueInv'
<1> SUFFICES ASSUME DebouncerInv, DueInv, [Next]_vars PROVE DueInv'
    OBVIOUS
<1> USE TimesAssumption
<1>0. /\ gen \in 0..MaxGen /\ held \in 0..MaxHold /\ since \in 0..Quiet
      /\ \A t \in timers : t.left \in 0..Quiet /\ t \in Timers
      BY DEF DebouncerInv, TypeOK, Timers
<1>1. CASE Submit
  <2> DEFINE new == Armed(gen + 1, held)
  <2>1. new.stoppable /\ new.gen = gen + 1 /\ new.left = Wait(held)
        BY DEF Armed
  <2>2. 0 + Wait(held) >= Quiet \/ held + Wait(held) >= MaxHold
        BY <1>0 DEF Wait
  <2>3. /\ timers' = Stopped \union {new} /\ pending' /\ gen' = gen + 1
        /\ since' = 0 /\ held' = held
        BY <1>1 DEF Submit
  <2>4. \A t \in Stopped : ~t.stoppable
        BY DEF Stopped
  <2>5. TimerNotEarly'
        BY <2>1, <2>2, <2>3, <2>4 DEF TimerNotEarly
  <2>6. EntryIsDue'
        BY <2>1, <2>3 DEF EntryIsDue
  <2> QED BY <2>5, <2>6 DEF DueInv
<1>2. CASE TimerFires
  <2>1. PICK t \in timers : t.left = 0 /\ timers' = timers \ {t}
        BY <1>2 DEF TimerFires
  <2>2. UNCHANGED <<pending, gen, held, since>>
        BY <1>2 DEF TimerFires
  <2>3. TimerNotEarly'
        BY <2>1, <2>2 DEF DueInv, TimerNotEarly
  <2>4. t.stoppable => since >= Quiet \/ held >= MaxHold
        BY <1>0, <2>1 DEF DueInv, TimerNotEarly
  <2>5. EntryIsDue'
        BY <2>1, <2>2, <2>4 DEF DueInv, EntryIsDue
  <2> QED BY <2>3, <2>5 DEF DueInv
<1>3. CASE \E g \in Gens : Fire(g)
  <2>1. PICK g \in Gens : Fire(g)
        BY <1>3
  <2>2. CASE pending /\ gen = g
    <3>1. /\ ~pending'
          /\ timers' = {[t EXCEPT !.stoppable = FALSE] : t \in timers}
          BY <2>1, <2>2 DEF Fire, Release
    <3>2. \A t \in timers' : ~t.stoppable
          BY <1>0, <3>1 DEF Timers
    <3> QED BY <3>1, <3>2 DEF DueInv, TimerNotEarly, EntryIsDue
  <2>3. CASE ~(pending /\ gen = g)
        BY <2>1, <2>3 DEF Fire, DueInv, TimerNotEarly, EntryIsDue
  <2> QED BY <2>2, <2>3
<1>4. CASE Close \/ Drop
  <2>1. ~pending' /\ timers' = Stopped
        BY <1>4 DEF Close, Drop, TakeBack, Release
  <2> QED BY <2>1 DEF Stopped, DueInv, TimerNotEarly, EntryIsDue
<1>5. CASE Tick
  <2>1. /\ timers' = {[t EXCEPT !.left = @ - 1] : t \in timers} /\ UNCHANGED <<pending, gen>>
        /\ \A t \in timers : t.left > 0
        BY <1>5 DEF Tick
  <2>2. since' = (IF since < Quiet THEN since + 1 ELSE since)
        BY <1>5 DEF Tick, CountUp
  <2>3. pending => held' = (IF held < MaxHold THEN held + 1 ELSE held)
        BY <1>5 DEF Tick, CountUp
  <2>4. \A t \in timers : /\ [t EXCEPT !.left = @ - 1].left = t.left - 1
                          /\ [t EXCEPT !.left = @ - 1].gen = t.gen
                          /\ [t EXCEPT !.left = @ - 1].stoppable = t.stoppable
        BY <1>0 DEF Timers
  <2>5. TimerNotEarly'
    <3>1. ASSUME NEW u \in timers', u.stoppable
          PROVE  pending' /\ (since' + u.left >= Quiet \/ held' + u.left >= MaxHold)
      <4>1. PICK t \in timers : u = [t EXCEPT !.left = @ - 1]
            BY <2>1
      <4>2. t.stoppable /\ u.left = t.left - 1 /\ t.left \in 1..Quiet
            BY <1>0, <2>1, <2>4, <3>1, <4>1
      <4>3. pending /\ (since + t.left >= Quiet \/ held + t.left >= MaxHold)
            BY <4>1, <4>2 DEF DueInv, TimerNotEarly
      <4>4. since' + u.left >= Quiet \/ held' + u.left >= MaxHold
            BY <1>0, <2>2, <2>3, <4>2, <4>3
      <4> QED BY <2>1, <4>3, <4>4
    <3> QED BY <3>1 DEF TimerNotEarly
  <2>6. EntryIsDue'
    <3>1. SUFFICES ASSUME pending
                   PROVE  \/ since' >= Quiet \/ held' >= MaxHold
                          \/ \E t \in timers' : t.stoppable /\ t.gen = gen
          BY <2>1 DEF EntryIsDue
    <3>2. CASE since >= Quiet \/ held >= MaxHold
          BY <1>0, <2>2, <2>3, <3>1, <3>2
    <3>3. CASE \E t \in timers : t.stoppable /\ t.gen = gen
          BY <2>1, <2>4, <3>3
    <3> QED BY <3>1, <3>2, <3>3 DEF DueInv, EntryIsDue
  <2> QED BY <2>5, <2>6 DEF DueInv
<1>6. CASE RunFn \/ OwnerEnds \/ UNCHANGED vars
      BY <1>6 DEF RunFn, OwnerEnds, vars, DueInv, TimerNotEarly, EntryIsDue
<1> QED BY <1>1, <1>2, <1>3, <1>4, <1>5, <1>6 DEF Next

\* A refresh runs Quiet after the newest event of its burst or at the cap, for
\* every Quiet and MaxHold; only the callback of an earlier entry runs one
\* sooner (debounce.go, fire).
THEOREM OnlyALeftoverFiresEarlyHolds == Spec => OnlyALeftoverFiresEarly
<1> DEFINE Early == runs' > runs =>
      \/ since >= Quiet \/ held >= MaxHold
      \/ gen \in fires /\ \E t \in timers : t.stoppable /\ t.gen = gen
<1>1. Init => DueInv
      BY DEF Init, DueInv, TimerNotEarly, EntryIsDue
<1>2. DebouncerInv /\ DueInv /\ [Next]_vars => [Early]_vars
  <2> SUFFICES ASSUME DebouncerInv, DueInv, Next, runs' > runs PROVE Early
      OBVIOUS
  <2>1. runs \in Nat
        BY DEF DebouncerInv, TypeOK
  <2>2. ~(Submit \/ TimerFires \/ RunFn \/ OwnerEnds \/ Close \/ Drop \/ Tick)
        BY <2>1 DEF Submit, TimerFires, RunFn, OwnerEnds, Close, Drop, TakeBack, Tick
  <2>3. PICK g \in Gens : Fire(g)
        BY <2>2 DEF Next
  <2>4. pending /\ gen = g /\ g \in fires
        BY <2>1, <2>3 DEF Fire
  <2> QED BY <2>4 DEF DueInv, EntryIsDue
<1> QED BY <1>1, <1>2, DueStep, DebouncerInvariant, PTL DEF Spec, OnlyALeftoverFiresEarly

-----------------------------------------------------------------------------
(* The upgrade of old hooks: who holds a repository. *)

PassRecord == [running : BOOLEAN, stopped : BOOLEAN, todo : SUBSET HookRepos,
               claiming : SUBSET HookRepos, asking : SUBSET HookRepos]

Holds(p, r) == r \in pass[p].claiming \/ r \in pass[p].asking

\* One worker at a time holds a repository, in a pass that runs, and none one
\* that had its answer.
OneHolder ==
  /\ \A p \in Passes, q \in Passes, r \in HookRepos : Holds(p, r) /\ Holds(q, r) => p = q
  /\ \A p \in Passes, r \in HookRepos :
       Holds(p, r) => /\ pass[p].running /\ r \notin settledHooks
                      /\ ~(r \in pass[p].claiming /\ r \in pass[p].asking)

\* The record of what was tried is the repositories held and those answered.
TriedIsHeldOrSettled ==
  \A r \in HookRepos : r \in tried <=> (r \in settledHooks \/ \E p \in Passes : Holds(p, r))

AnsweredOnce == \A r \in HookRepos : asks[r] = (IF r \in settledHooks THEN 1 ELSE 0)

UpgradeInv == WU!HookTypeOK /\ OneHolder /\ TriedIsHeldOrSettled /\ AnsweredOnce

LEMMA UpgradeTypes ==
  ASSUME WU!HookTypeOK
  PROVE  /\ pass \in [Passes -> PassRecord] /\ asks \in [HookRepos -> Nat]
         /\ tried \subseteq HookRepos /\ settledHooks \subseteq HookRepos
         /\ cancelled \subseteq Passes /\ available \in BOOLEAN /\ begun \in 0..MaxPasses
BY DEF WU!HookTypeOK, PassRecord

LEMMA TypesOfUpgrade ==
  ASSUME /\ pass \in [Passes -> PassRecord] /\ asks \in [HookRepos -> Nat]
         /\ tried \subseteq HookRepos /\ settledHooks \subseteq HookRepos
         /\ cancelled \subseteq Passes /\ available \in BOOLEAN /\ begun \in 0..MaxPasses
  PROVE  WU!HookTypeOK
BY DEF WU!HookTypeOK, PassRecord

\* At start nothing is tried, held or answered.
LEMMA UpgradeInit == WU!HookInit => UpgradeInv
<1> SUFFICES ASSUME WU!HookInit PROVE UpgradeInv
    OBVIOUS
<1>1. /\ tried = {} /\ pass = [p \in Passes |-> WU!NoPass] /\ available = TRUE /\ cancelled = {}
      /\ settledHooks = {} /\ asks = [r \in HookRepos |-> 0] /\ begun = 0
      BY DEF WU!HookInit
<1>2. WU!NoPass \in PassRecord
      BY DEF WU!NoPass, PassRecord
<1>3. \A p \in Passes, r \in HookRepos : ~Holds(p, r)
      BY <1>1 DEF Holds, WU!NoPass
<1>4. begun \in 0..MaxPasses
      BY <1>1, WebhooksAssumption
<1>5. available \in BOOLEAN
      BY <1>1
<1>6. pass \in [Passes -> PassRecord] /\ asks \in [HookRepos -> Nat]
      BY <1>1, <1>2
<1>7. WU!HookTypeOK
      BY <1>1, <1>4, <1>5, <1>6, TypesOfUpgrade
<1>8. OneHolder /\ TriedIsHeldOrSettled
      BY <1>1, <1>3 DEF OneHolder, TriedIsHeldOrSettled
<1>9. AnsweredOnce
      BY <1>1 DEF AnsweredOnce
<1> QED BY <1>7, <1>8, <1>9 DEF UpgradeInv

\* A step that changes one pass and whom it holds keeps the invariant, given
\* what it does to the record: the pass takes a repository nobody tried, gives
\* one up, or moves one from waiting to asking.
LEMMA OnePassStep ==
  ASSUME UpgradeInv, NEW p \in Passes, NEW new \in PassRecord,
         pass' = [pass EXCEPT ![p] = new],
         tried' \subseteq HookRepos, settledHooks' \subseteq HookRepos,
         asks' \in [HookRepos -> Nat], AnsweredOnce',
         UNCHANGED <<available, cancelled>>, begun' \in 0..MaxPasses,
         new.claiming # {} \/ new.asking # {} => new.running,
         \A r \in HookRepos : ~(r \in new.claiming /\ r \in new.asking),
         \A r \in HookRepos : r \in new.claiming \cup new.asking =>
            /\ r \in tried' /\ r \notin settledHooks'
            /\ Holds(p, r) \/ r \notin tried,
         \A r \in HookRepos : ~Holds(p, r) /\ r \notin new.claiming \cup new.asking =>
            (r \in tried' <=> r \in tried) /\ (r \in settledHooks' <=> r \in settledHooks),
         \A r \in HookRepos : Holds(p, r) /\ r \notin new.claiming \cup new.asking =>
            (r \in tried' <=> r \in settledHooks')
  PROVE  UpgradeInv'
<1>1. pass \in [Passes -> PassRecord] /\ available \in BOOLEAN /\ cancelled \subseteq Passes
      BY UpgradeTypes DEF UpgradeInv
<1>2. pass' \in [Passes -> PassRecord] /\ pass'[p] = new /\ \A q \in Passes \ {p} : pass'[q] = pass[q]
      BY <1>1
<1>3. WU!HookTypeOK'
  <2>1. available' \in BOOLEAN /\ cancelled' \subseteq Passes
        BY <1>1
  <2> QED BY <1>2, <2>1 DEF WU!HookTypeOK, PassRecord
<1>4. \A r \in HookRepos : Holds(p, r)' <=> r \in new.claiming \cup new.asking
      BY <1>2 DEF Holds
<1>5. \A q \in Passes \ {p}, r \in HookRepos : Holds(q, r)' <=> Holds(q, r)
      BY <1>2 DEF Holds
<1>6. \A q \in Passes, r \in HookRepos : Holds(q, r) => r \in tried /\ r \notin settledHooks
      BY DEF UpgradeInv, OneHolder, TriedIsHeldOrSettled
<1>7. ASSUME NEW q \in Passes \ {p}, NEW r \in HookRepos, Holds(q, r)
      PROVE  /\ ~Holds(p, r) /\ r \notin new.claiming \cup new.asking
             /\ r \in tried' /\ r \notin settledHooks'
      BY <1>6, <1>7 DEF UpgradeInv, OneHolder
<1>8. OneHolder'
  <2>1. \A q \in Passes, s \in Passes, r \in HookRepos : Holds(q, r)' /\ Holds(s, r)' => q = s
        BY <1>4, <1>5, <1>7 DEF UpgradeInv, OneHolder
  <2>2. ASSUME NEW q \in Passes, NEW r \in HookRepos, Holds(q, r)'
        PROVE  /\ pass'[q].running /\ r \notin settledHooks'
               /\ ~(r \in pass'[q].claiming /\ r \in pass'[q].asking)
    <3>1. CASE q = p
          BY <1>2, <1>4, <2>2, <3>1
    <3>2. CASE q # p
          BY <1>2, <1>5, <1>7, <2>2, <3>2 DEF UpgradeInv, OneHolder
    <3> QED BY <3>1, <3>2
  <2> QED BY <2>1, <2>2 DEF OneHolder
<1>9. TriedIsHeldOrSettled'
  <2>1. ASSUME NEW r \in HookRepos
        PROVE  r \in tried' <=> (r \in settledHooks' \/ \E q \in Passes : Holds(q, r)')
    <3>1. CASE r \in new.claiming \cup new.asking
          BY <1>4, <3>1
    <3>2. CASE r \notin new.claiming \cup new.asking /\ Holds(p, r)
      <4>1. \A q \in Passes : ~Holds(q, r)'
            BY <1>4, <1>5, <3>2 DEF UpgradeInv, OneHolder
      <4> QED BY <3>2, <4>1
    <3>3. CASE r \notin new.claiming \cup new.asking /\ ~Holds(p, r)
      <4>1. \A q \in Passes : Holds(q, r)' <=> Holds(q, r)
            BY <1>4, <1>5, <3>3
      <4> QED BY <3>3, <4>1 DEF UpgradeInv, TriedIsHeldOrSettled
    <3> QED BY <3>1, <3>2, <3>3
  <2> QED BY <2>1 DEF TriedIsHeldOrSettled
<1> QED BY <1>3, <1>8, <1>9 DEF UpgradeInv

\* Every step of the passes keeps the invariant.
LEMMA UpgradeStep == UpgradeInv /\ WU!HookNext => UpgradeInv'
<1> SUFFICES ASSUME UpgradeInv, WU!HookNext PROVE UpgradeInv'
    OBVIOUS
<1>0. /\ pass \in [Passes -> PassRecord] /\ asks \in [HookRepos -> Nat]
      /\ tried \subseteq HookRepos /\ settledHooks \subseteq HookRepos
      /\ cancelled \subseteq Passes /\ available \in BOOLEAN /\ begun \in 0..MaxPasses
      BY UpgradeTypes DEF UpgradeInv
<1>a. \A p \in Passes : pass[p] \in PassRecord
      BY <1>0
<1>b. \A p \in Passes, r \in HookRepos : Holds(p, r) => r \in tried /\ r \notin settledHooks
      BY DEF UpgradeInv, OneHolder, TriedIsHeldOrSettled
<1>c. \A p \in Passes, r \in HookRepos : Holds(p, r) => pass[p].running
      BY DEF UpgradeInv, OneHolder
<1>d. \A p \in Passes, r \in HookRepos : ~(r \in pass[p].claiming /\ r \in pass[p].asking)
      BY DEF UpgradeInv, OneHolder, Holds
<1>e. WU!NoPass \in PassRecord /\ WU!NoPass.claiming = {} /\ WU!NoPass.asking = {}
      BY DEF WU!NoPass, PassRecord
<1>f. UNCHANGED <<settledHooks, asks>> => AnsweredOnce'
      BY DEF UpgradeInv, AnsweredOnce
<1>1. CASE WU!ForgeComesAndGoes
  <2>1. UNCHANGED <<tried, pass, cancelled, settledHooks, asks, begun>> /\ available' \in BOOLEAN
        BY <1>1 DEF WU!ForgeComesAndGoes
  <2>2. WU!HookTypeOK'
        BY <1>0, <2>1 DEF WU!HookTypeOK, PassRecord
  <2> QED BY <2>1, <2>2 DEF UpgradeInv, OneHolder, TriedIsHeldOrSettled, AnsweredOnce, Holds
<1>2. ASSUME NEW p \in Passes, WU!Replace(p) PROVE UpgradeInv'
  <2>1. UNCHANGED <<tried, pass, available, settledHooks, asks, begun>> /\ cancelled' \subseteq Passes
        BY <1>0, <1>2 DEF WU!Replace
  <2>2. WU!HookTypeOK'
        BY <1>0, <2>1 DEF WU!HookTypeOK, PassRecord
  <2> QED BY <2>1, <2>2 DEF UpgradeInv, OneHolder, TriedIsHeldOrSettled, AnsweredOnce, Holds
<1>3. ASSUME NEW p \in Passes, WU!StartUpgrade(p) PROVE UpgradeInv'
  <2> DEFINE new == [WU!NoPass EXCEPT !.running = TRUE, !.todo = HookRepos]
  <2>1. /\ new \in PassRecord /\ new.claiming = {} /\ new.asking = {}
        BY DEF WU!NoPass, PassRecord
  <2>2. /\ pass' = [pass EXCEPT ![p] = new] /\ begun < MaxPasses /\ begun' = begun + 1
        /\ UNCHANGED <<tried, available, cancelled, settledHooks, asks>>
        /\ ~pass[p].running
        BY <1>3 DEF WU!StartUpgrade
  <2>3. begun' \in 0..MaxPasses
        BY <1>0, <2>2, WebhooksAssumption
  <2>4. \A r \in HookRepos : ~Holds(p, r)
        BY <1>c, <2>2
  <2> HIDE DEF new
  <2> QED BY <1>0, <1>f, <2>1, <2>2, <2>3, <2>4, OnePassStep
<1>4. ASSUME NEW p \in Passes, WU!EndUpgrade(p) PROVE UpgradeInv'
  <2>1. /\ pass' = [pass EXCEPT ![p] = WU!NoPass]
        /\ UNCHANGED <<tried, available, cancelled, settledHooks, asks, begun>>
        BY <1>4 DEF WU!EndUpgrade
  <2>2. \A r \in HookRepos : ~Holds(p, r)
        BY <1>4 DEF WU!EndUpgrade, WU!Busy, Holds
  <2> QED BY <1>0, <1>e, <1>f, <2>1, <2>2, OnePassStep
<1>5. ASSUME NEW p \in Passes, NEW r \in HookRepos, WU!Claim(p, r) PROVE UpgradeInv'
  <2>1. UNCHANGED <<available, cancelled, settledHooks, asks, begun>> /\ pass[p].running
        BY <1>5 DEF WU!Claim
  <2>2. CASE pass[p].stopped \/ p \in cancelled \/ r \in tried
    <3> DEFINE new == [pass[p] EXCEPT !.todo = @ \ {r}]
    <3>1. /\ new \in PassRecord /\ new.claiming = pass[p].claiming /\ new.asking = pass[p].asking
          /\ new.running = pass[p].running
          BY <1>a DEF PassRecord
    <3>2. pass' = [pass EXCEPT ![p] = new] /\ UNCHANGED tried
          BY <1>0, <1>5, <2>2 DEF WU!Claim
    <3>3. \A x \in HookRepos : x \in new.claiming \cup new.asking <=> Holds(p, x)
          BY <3>1 DEF Holds
    <3> HIDE DEF new
    <3> QED BY <1>0, <1>b, <1>d, <1>f, <2>1, <3>1, <3>2, <3>3, OnePassStep
  <2>3. CASE ~(pass[p].stopped \/ p \in cancelled \/ r \in tried)
    <3> DEFINE new == [pass[p] EXCEPT !.todo = @ \ {r}, !.claiming = @ \cup {r}]
    <3>1. /\ new \in PassRecord /\ new.claiming = pass[p].claiming \cup {r}
          /\ new.asking = pass[p].asking /\ new.running = pass[p].running
          BY <1>a DEF PassRecord
    <3>2. pass' = [pass EXCEPT ![p] = new] /\ tried' = tried \cup {r} /\ r \notin tried
          BY <1>0, <1>5, <2>3 DEF WU!Claim
    <3>3. \A x \in HookRepos : x \in new.claiming \cup new.asking <=> (Holds(p, x) \/ x = r)
          BY <3>1 DEF Holds
    <3>4. r \notin settledHooks /\ ~Holds(p, r)
          BY <3>2 DEF UpgradeInv, TriedIsHeldOrSettled
    <3>5. \A x \in HookRepos : ~(x \in new.claiming /\ x \in new.asking)
          BY <1>d, <3>1, <3>4 DEF Holds
    <3> HIDE DEF new
    <3> QED BY <1>0, <1>b, <1>f, <2>1, <3>1, <3>2, <3>3, <3>4, <3>5, OnePassStep, ZenonT(60)
  <2> QED BY <2>2, <2>3
<1>6. ASSUME NEW p \in Passes, NEW r \in HookRepos, WU!Jitter(p, r) PROVE UpgradeInv'
  <2>1. UNCHANGED <<available, cancelled, settledHooks, asks, begun>> /\ r \in pass[p].claiming
        BY <1>6 DEF WU!Jitter
  <2>2. Holds(p, r) /\ r \in tried /\ r \notin settledHooks /\ pass[p].running
        BY <1>b, <1>c, <2>1 DEF Holds
  <2>3. r \notin pass[p].asking
        BY <1>d, <2>1
  <2>4. CASE pass' = [pass EXCEPT ![p].claiming = @ \ {r}] /\ tried' = tried \ {r}
    <3> DEFINE new == [pass[p] EXCEPT !.claiming = @ \ {r}]
    <3>1. /\ new \in PassRecord /\ new.claiming = pass[p].claiming \ {r}
          /\ new.asking = pass[p].asking /\ new.running = pass[p].running
          BY <1>a DEF PassRecord
    <3>2. pass' = [pass EXCEPT ![p] = new]
          BY <1>0, <2>4
    <3>3. \A x \in HookRepos : x \in new.claiming \cup new.asking <=> (Holds(p, x) /\ x # r)
          BY <2>3, <3>1 DEF Holds
    <3>4. \A x \in HookRepos : ~(x \in new.claiming /\ x \in new.asking)
          BY <1>d, <3>1
    <3> HIDE DEF new
    <3> QED BY <1>0, <1>b, <1>f, <2>1, <2>2, <2>4, <3>1, <3>2, <3>3, <3>4, OnePassStep, ZenonT(60)
  <2>5. CASE /\ pass' = [pass EXCEPT ![p].claiming = @ \ {r}, ![p].asking = @ \cup {r}]
             /\ UNCHANGED tried
    <3> DEFINE new == [pass[p] EXCEPT !.claiming = @ \ {r}, !.asking = @ \cup {r}]
    <3>1. /\ new \in PassRecord /\ new.claiming = pass[p].claiming \ {r}
          /\ new.asking = pass[p].asking \cup {r} /\ new.running = pass[p].running
          BY <1>a DEF PassRecord
    <3>2. pass' = [pass EXCEPT ![p] = new]
          BY <1>0, <2>5
    <3>3. \A x \in HookRepos : x \in new.claiming \cup new.asking <=> Holds(p, x)
          BY <2>1, <3>1 DEF Holds
    <3>4. \A x \in HookRepos : ~(x \in new.claiming /\ x \in new.asking)
          BY <1>d, <3>1
    <3> HIDE DEF new
    <3> QED BY <1>0, <1>b, <1>f, <2>1, <2>2, <2>5, <3>1, <3>2, <3>3, <3>4, OnePassStep
  <2> QED BY <1>6, <2>4, <2>5 DEF WU!Jitter
<1>7. ASSUME NEW p \in Passes, NEW r \in HookRepos, WU!Answer(p, r) PROVE UpgradeInv'
  <2>1. UNCHANGED <<available, cancelled, begun>> /\ r \in pass[p].asking
        BY <1>7 DEF WU!Answer
  <2>2. Holds(p, r) /\ r \in tried /\ r \notin settledHooks /\ pass[p].running
        BY <1>b, <1>c, <2>1 DEF Holds
  <2>3. r \notin pass[p].claiming
        BY <1>d, <2>1
  <2>4. CASE /\ pass' = [pass EXCEPT ![p].asking = @ \ {r}]
             /\ settledHooks' = settledHooks \cup {r}
             /\ asks' = [asks EXCEPT ![r] = @ + 1] /\ UNCHANGED tried
    <3> DEFINE new == [pass[p] EXCEPT !.asking = @ \ {r}]
    <3>1. /\ new \in PassRecord /\ new.claiming = pass[p].claiming
          /\ new.asking = pass[p].asking \ {r} /\ new.running = pass[p].running
          BY <1>a DEF PassRecord
    <3>2. pass' = [pass EXCEPT ![p] = new]
          BY <1>0, <2>4
    <3>3. \A x \in HookRepos : x \in new.claiming \cup new.asking <=> (Holds(p, x) /\ x # r)
          BY <2>3, <3>1 DEF Holds
    <3>4. \A x \in HookRepos : ~(x \in new.claiming /\ x \in new.asking)
          BY <1>d, <3>1
    <3>5. asks' \in [HookRepos -> Nat] /\ AnsweredOnce'
          BY <1>0, <2>2, <2>4 DEF UpgradeInv, AnsweredOnce
    <3>6. tried' = tried /\ settledHooks' = settledHooks \cup {r} /\ settledHooks' \subseteq HookRepos
          BY <1>0, <2>4
    <3> HIDE DEF new
    <3> QED BY <1>0, <1>b, <2>1, <2>2, <3>1, <3>2, <3>3, <3>4, <3>5, <3>6, OnePassStep, ZenonT(60)
  <2>5. CASE /\ pass' = [pass EXCEPT ![p].asking = @ \ {r}, ![p].stopped = TRUE]
             /\ tried' = tried \ {r} /\ UNCHANGED <<settledHooks, asks>>
    <3> DEFINE new == [pass[p] EXCEPT !.asking = @ \ {r}, !.stopped = TRUE]
    <3>1. /\ new \in PassRecord /\ new.claiming = pass[p].claiming
          /\ new.asking = pass[p].asking \ {r} /\ new.running = pass[p].running
          BY <1>a DEF PassRecord
    <3>2. pass' = [pass EXCEPT ![p] = new]
          BY <1>0, <2>5
    <3>3. \A x \in HookRepos : x \in new.claiming \cup new.asking <=> (Holds(p, x) /\ x # r)
          BY <2>3, <3>1 DEF Holds
    <3>4. \A x \in HookRepos : ~(x \in new.claiming /\ x \in new.asking)
          BY <1>d, <3>1
    <3>5. tried' = tried \ {r} /\ UNCHANGED <<settledHooks, asks>> /\ AnsweredOnce'
          BY <1>f, <2>5
    <3> HIDE DEF new
    <3> QED BY <1>0, <1>b, <2>1, <2>2, <3>1, <3>2, <3>3, <3>4, <3>5, OnePassStep
  <2> QED BY <1>7, <2>4, <2>5 DEF WU!Answer
<1> QED BY <1>1, <1>2, <1>3, <1>4, <1>5, <1>6, <1>7 DEF WU!HookNext

\* A repository that nobody holds is tried exactly when it had its answer, and
\* it had at most one.
LEMMA UpgradeGoal == UpgradeInv => WU!HookTypeOK /\ WU!HooksTriedOnce
<1> SUFFICES ASSUME UpgradeInv PROVE WU!HookTypeOK /\ WU!HooksTriedOnce
    OBVIOUS
<1>1. \A r \in HookRepos : asks[r] <= 1
      BY DEF UpgradeInv, AnsweredOnce
<1>2. tried \subseteq HookRepos /\ settledHooks \subseteq HookRepos
      BY UpgradeTypes DEF UpgradeInv
<1>3. ASSUME \A p \in Passes : WU!Busy(p) = {} PROVE tried = settledHooks
  <2>1. \A p \in Passes, r \in HookRepos : ~Holds(p, r)
        BY <1>3 DEF WU!Busy, Holds
  <2> QED BY <1>2, <2>1 DEF UpgradeInv, TriedIsHeldOrSettled
<1> QED BY <1>1, <1>3 DEF WU!HooksTriedOnce, UpgradeInv

-----------------------------------------------------------------------------
(* The note of the last delivery. *)

\* A write that was due is on its way or was answered.  While no write failed
\* and none overtook another: the row is not newer than the last delivery, is as
\* new as the note unless the note's write is on its way, and the newest answer
\* is within an interval of the row, or of a note whose write is on its way.
WritesFollowNotes ==
  /\ noted \in writing \/ noted <= acked
  /\ ~lost /\ ~late =>
       /\ kept <= last
       /\ noted <= kept \/ noted \in writing
       /\ \/ acked = -1 \/ acked - kept < WriteInterval
          \/ noted \in writing /\ acked - noted < WriteInterval

SeenInv == WS!SeenTypeOK /\ WritesFollowNotes

LEMMA GreaterOfTwo == ASSUME NEW a \in Int, NEW b \in Int
                      PROVE  WS!Max({a, b}) = IF a >= b THEN a ELSE b
BY DEF WS!Max

\* At start nothing was delivered.
LEMMA SeenInitInv == WS!SeenInit => SeenInv
<1> SUFFICES ASSUME WS!SeenInit PROVE SeenInv
    OBVIOUS
<1>1. WS!SeenTypeOK
  <2>1. 0 \in 0..MaxTime /\ 0 \in 0..MaxHookRestarts /\ -1 \in -1..0
        BY WebhooksAssumption
  <2>2. lost \in BOOLEAN /\ late \in BOOLEAN
        BY DEF WS!SeenInit
  <2> QED BY <2>1, <2>2 DEF WS!SeenInit, WS!SeenTypeOK
<1>2. WritesFollowNotes
      BY DEF WS!SeenInit, WritesFollowNotes
<1> QED BY <1>1, <1>2 DEF SeenInv

\* Every step of a delivery, the clock and a restart keep the invariant.
LEMMA SeenStep == SeenInv /\ WS!SeenNext => SeenInv'
<1> SUFFICES ASSUME SeenInv, WS!SeenNext PROVE SeenInv'
    OBVIOUS
<1>0. /\ now \in 0..MaxTime /\ delivering \subseteq 0..now /\ marked \subseteq 0..now
      /\ writing \subseteq 0..now /\ acked \in -1..now /\ last \in -1..now /\ noted \in -1..now
      /\ kept \in -1..now /\ lost \in BOOLEAN /\ late \in BOOLEAN
      /\ hookRestarts \in 0..MaxHookRestarts
      BY DEF SeenInv, WS!SeenTypeOK
<1>a. MaxTime \in Nat /\ MaxHookRestarts \in Nat /\ WriteInterval \in Nat /\ WriteInterval > 0
      BY WebhooksAssumption
<1>1. CASE WS!ClockTicks
  <2>1. /\ now < MaxTime /\ now' = now + 1
        /\ UNCHANGED <<delivering, marked, writing, acked, last, noted, kept, lost, late, hookRestarts>>
        BY <1>1 DEF WS!ClockTicks
  <2>2. now' \in 0..MaxTime /\ 0..now \subseteq 0..now' /\ -1..now \subseteq -1..now'
        BY <1>0, <1>a, <2>1
  <2>3. WS!SeenTypeOK'
        BY <1>0, <2>1, <2>2 DEF WS!SeenTypeOK
  <2> QED BY <2>1, <2>3 DEF SeenInv, WritesFollowNotes
<1>2. CASE WS!Accept
  <2>1. /\ delivering' = delivering \cup {now}
        /\ UNCHANGED <<now, marked, writing, acked, last, noted, kept, lost, late, hookRestarts>>
        BY <1>2 DEF WS!Accept
  <2>2. delivering' \subseteq 0..now
        BY <1>0, <1>a, <2>1
  <2>3. WS!SeenTypeOK'
        BY <1>0, <2>1, <2>2 DEF WS!SeenTypeOK
  <2> QED BY <2>1, <2>3 DEF SeenInv, WritesFollowNotes
<1>3. ASSUME NEW at \in 0..now, WS!MarkSeen(at) PROVE SeenInv'
  <2>1. /\ delivering' = delivering \ {at} /\ marked' = marked \cup {at}
        /\ late' = (late \/ at < last) /\ last' = at
        /\ UNCHANGED <<now, writing, acked, noted, kept, lost, hookRestarts>>
        BY <1>3 DEF WS!MarkSeen
  <2>2. late' \in BOOLEAN
        BY <2>1
  <2>3. last' \in -1..now
        BY <1>0, <1>a, <2>1
  <2>4. WS!SeenTypeOK'
        BY <1>0, <2>1, <2>2, <2>3 DEF WS!SeenTypeOK
  <2>5. ~late' => ~late /\ ~(at < last)
        BY <2>1, Zenon
  <2>6. ~late /\ ~(at < last) /\ kept <= last => kept <= at
        BY <1>0
  <2>7. WritesFollowNotes'
        BY <2>1, <2>5, <2>6, Zenon DEF SeenInv, WritesFollowNotes
  <2> QED BY <2>4, <2>7 DEF SeenInv
<1>4. ASSUME NEW at \in 0..now, WS!AskToPersist(at) PROVE SeenInv'
  <2>1. /\ marked' = marked \ {at}
        /\ UNCHANGED <<now, delivering, last, kept, lost, late, hookRestarts>>
        BY <1>4 DEF WS!AskToPersist
  <2>2. CASE WS!PersistDue(at)
    <3>1. noted' = at /\ writing' = writing \cup {at} /\ acked' = acked
          BY <1>4, <2>2 DEF WS!AskToPersist
    <3>2. noted = -1 \/ at - noted >= WriteInterval
          BY <2>2 DEF WS!PersistDue
    <3>3. noted' \in -1..now /\ writing' \subseteq 0..now
          BY <1>0, <1>a, <3>1
    <3>4. WS!SeenTypeOK'
          BY <1>0, <2>1, <3>1, <3>3 DEF WS!SeenTypeOK
    <3>5. noted \in writing => noted # -1
          BY <1>0
    <3>6. WritesFollowNotes'
          BY <1>0, <1>a, <2>1, <3>1, <3>2, <3>5 DEF SeenInv, WritesFollowNotes
    <3> QED BY <3>4, <3>6 DEF SeenInv
  <2>3. CASE ~WS!PersistDue(at)
    <3>1. acked' = WS!Max({acked, at}) /\ UNCHANGED <<noted, writing>>
          BY <1>4, <2>3 DEF WS!AskToPersist
    <3>2. noted # -1 /\ ~(at - noted >= WriteInterval)
          BY <2>3 DEF WS!PersistDue
    <3>3. acked' = (IF acked >= at THEN acked ELSE at)
          BY <1>0, <1>a, <3>1, GreaterOfTwo
    <3>4. acked' \in -1..now
          BY <1>0, <1>a, <3>3
    <3>5. WS!SeenTypeOK'
          BY <1>0, <2>1, <3>1, <3>4 DEF WS!SeenTypeOK
    <3>6. WritesFollowNotes'
          BY <1>0, <1>a, <2>1, <3>1, <3>2, <3>3 DEF SeenInv, WritesFollowNotes
    <3> QED BY <3>5, <3>6 DEF SeenInv
  <2> QED BY <2>2, <2>3
<1>5. ASSUME NEW at \in 0..now, WS!SaveSeen(at) PROVE SeenInv'
  <2>1. /\ at \in writing /\ writing' = writing \ {at}
        /\ late' = (late \/ at < kept \/ at > last) /\ acked' = WS!Max({acked, at})
        /\ UNCHANGED <<now, delivering, marked, last, noted, hookRestarts>>
        BY <1>5 DEF WS!SaveSeen
  <2>2. PICK ok \in BOOLEAN : kept' = (IF ok THEN at ELSE kept) /\ lost' = (~ok \/ (lost /\ at < acked))
        BY <1>5 DEF WS!SaveSeen
  <2>3. acked' = (IF acked >= at THEN acked ELSE at)
        BY <1>0, <1>a, <2>1, GreaterOfTwo
  <2>4. late' \in BOOLEAN /\ lost' \in BOOLEAN
        BY <2>1, <2>2
  <2>5. acked' \in -1..now /\ kept' \in -1..now
        BY <1>0, <1>a, <2>2, <2>3
  <2>6. WS!SeenTypeOK'
        BY <1>0, <2>1, <2>4, <2>5 DEF WS!SeenTypeOK
  <2>7. noted \in writing' \/ noted <= acked'
        BY <1>0, <2>1, <2>3 DEF SeenInv, WritesFollowNotes
  <2>8. ASSUME ~lost', ~late'
        PROVE  /\ kept' <= last' /\ (noted <= kept' \/ noted \in writing')
               /\ \/ acked' = -1 \/ acked' - kept' < WriteInterval
                  \/ noted \in writing' /\ acked' - noted < WriteInterval
    <3>a. kept' = at /\ (~lost \/ ~(at < acked))
          BY <2>2, <2>8, Zenon
    <3>b. ~late /\ ~(at < kept) /\ ~(at > last)
          BY <2>1, <2>8, Zenon
    <3>1. kept' = at /\ (at >= acked \/ (~lost /\ at < acked))
          BY <1>0, <3>a
    <3>2. ~late /\ at >= kept /\ at <= last
          BY <1>0, <3>b
    <3>3. kept' <= last'
          BY <2>1, <3>1, <3>2
    <3>4. CASE at >= acked
      <4>1. acked' - kept' < WriteInterval
            BY <1>0, <1>a, <2>3, <3>1, <3>4
      <4>2. noted \in writing' \/ noted <= kept'
            BY <1>0, <2>3, <2>7, <3>1, <3>4
      <4> QED BY <3>3, <4>1, <4>2
    <3>5. CASE ~(at >= acked)
      <4>0. ~lost /\ at < acked
            BY <3>1, <3>5, Zenon
      <4>1. ~lost /\ acked' = acked
            BY <1>0, <2>3, <4>0
      <4>2. /\ noted <= kept \/ noted \in writing
            /\ \/ acked = -1 \/ acked - kept < WriteInterval
               \/ noted \in writing /\ acked - noted < WriteInterval
            BY <3>2, <4>1 DEF SeenInv, WritesFollowNotes
      <4>3. noted \in writing <=> noted \in writing' \/ noted = at
            BY <2>1
      <4> QED BY <1>0, <1>a, <3>1, <3>2, <3>3, <4>1, <4>2, <4>3
    <3> QED BY <3>4, <3>5
  <2>9. WritesFollowNotes'
        BY <2>1, <2>7, <2>8 DEF WritesFollowNotes
  <2> QED BY <2>6, <2>9 DEF SeenInv
<1>6. CASE WS!HookRestart
  <2>1. /\ hookRestarts < MaxHookRestarts /\ hookRestarts' = hookRestarts + 1
        /\ writing' \in SUBSET (delivering \cup marked \cup writing)
        /\ delivering' = {} /\ marked' = {} /\ late' = FALSE /\ UNCHANGED <<now, kept>>
        BY <1>6 DEF WS!HookRestart
  <2>2. PICK ok \in BOOLEAN : /\ last' = (IF ok THEN kept ELSE -1) /\ noted' = last'
                              /\ acked' = last' /\ lost' = ~ok
        BY <1>6 DEF WS!HookRestart
  <2>3. writing' \subseteq 0..now
        BY <1>0, <2>1
  <2>4. last' \in -1..now /\ hookRestarts' \in 0..MaxHookRestarts
        BY <1>0, <1>a, <2>1, <2>2
  <2>5. late' \in BOOLEAN /\ lost' \in BOOLEAN
        BY <2>1, <2>2
  <2>6. WS!SeenTypeOK'
        BY <1>0, <2>1, <2>2, <2>3, <2>4, <2>5 DEF WS!SeenTypeOK
  <2>7. noted' <= acked'
        BY <1>0, <2>2, <2>4
  <2>a. ~lost' => last' = kept
        BY <2>2, Zenon
  <2>8. ~lost' => kept' <= last' /\ noted' <= kept' /\ acked' - kept' < WriteInterval
        BY <1>0, <1>a, <2>1, <2>2, <2>a
  <2>9. WritesFollowNotes'
        BY <2>7, <2>8 DEF WritesFollowNotes
  <2> QED BY <2>6, <2>9 DEF SeenInv
<1> QED BY <1>1, <1>2, <1>3, <1>4, <1>5, <1>6 DEF WS!SeenNext

\* The row lags the newest answer by less than an interval.
LEMMA SeenGoal == SeenInv => WS!SeenTypeOK /\ WS!SeenLagsOneInterval
BY DEF SeenInv, WritesFollowNotes, WS!SeenLagsOneInterval

-----------------------------------------------------------------------------
(* The check whether a repository has the app's hook. *)

Kept == HC!Rows \cup {NoCheck}
Request == [at : {"ensure", "upgrade"}, repo : HookedRepos, there : BOOLEAN, old : BOOLEAN]

HookShapes ==
  /\ HC!HookChecksTypeOK
  /\ lastSaved \in [HookedRepos -> Kept] /\ saved \in [HookedRepos -> Kept]
  /\ probe \in [HookedRepos -> Kept] /\ checked \in [HookedRepos -> Kept]
  /\ setter \in [Setters -> Request \cup {HC!Away}]

\* What the client believes it wrote of a repository is in its row, and an
\* answer yet to be saved is the period's newest.
RowsAgree == \A r \in HookedRepos :
  /\ r \notin unsaved /\ lastSaved[r] # NoCheck => saved[r] = lastSaved[r]
  /\ probe[r] # NoCheck => checked[r] = probe[r] /\ probe[r].age = 0

\* A check that was saved this period is in the row, written this period.
ChecksAreSaved == \A r \in HookedRepos :
  checked[r] # NoCheck /\ probe[r] = NoCheck /\ r \notin unsaved =>
    /\ saved[r] # NoCheck /\ saved[r].age = 0
    /\ saved[r].found = checked[r].found /\ saved[r].refused = checked[r].refused

\* A request that found no hook and will create one.
Creates(s, r) == setter[s].at = "ensure" /\ setter[s].repo = r /\ ~setter[s].there

\* Unless two requests crossed, one at most will create a repository's hook,
\* and only while there is none.
OneCreator == \A r \in HookedRepos : r \notin twice =>
  /\ Len(hooks[r]) <= 1
  /\ \A s \in Setters : Creates(s, r) => Len(hooks[r]) = 0
  /\ \A s, t \in Setters : Creates(s, r) /\ Creates(t, r) => s = t

HookInv == HookShapes /\ RowsAgree /\ ChecksAreSaved /\ OneCreator

LEMMA HookTypes ==
  ASSUME HookShapes
  PROVE  /\ hooks \in [HookedRepos -> Seq({"some", "all"})]
         /\ access \in [HookedRepos -> {"open", "forbidden", "missing"}] /\ appDenied \in BOOLEAN
         /\ events \in [HookedRepos -> HC!Coverage] /\ refused \subseteq HookedRepos
         /\ denied \subseteq HookedRepos /\ deniedAll \in BOOLEAN
         /\ listed \subseteq HookedRepos /\ hookTurns \in 0..MaxHookTurns
         /\ lastSaved \in [HookedRepos -> Kept] /\ saved \in [HookedRepos -> Kept]
         /\ probe \in [HookedRepos -> Kept] /\ checked \in [HookedRepos -> Kept]
         /\ setter \in [Setters -> Request \cup {HC!Away}]
BY DEF HookShapes, HC!HookChecksTypeOK

LEMMA TypesOfHooks ==
  ASSUME /\ hooks \in [HookedRepos -> Seq({"some", "all"})]
         /\ access \in [HookedRepos -> {"open", "forbidden", "missing"}] /\ appDenied \in BOOLEAN
         /\ events \in [HookedRepos -> HC!Coverage] /\ refused \subseteq HookedRepos
         /\ denied \subseteq HookedRepos /\ deniedAll \in BOOLEAN
         /\ listed \subseteq HookedRepos /\ hookTurns \in 0..MaxHookTurns
         /\ lastSaved \in [HookedRepos -> Kept] /\ saved \in [HookedRepos -> Kept]
         /\ probe \in [HookedRepos -> Kept] /\ checked \in [HookedRepos -> Kept]
         /\ setter \in [Setters -> Request \cup {HC!Away}]
  PROVE  HookShapes
<1>1. \A r \in HookedRepos : {lastSaved[r], saved[r]} \subseteq HC!Rows \cup {NoCheck}
      BY DEF Kept
<1> QED BY <1>1 DEF HookShapes, HC!HookChecksTypeOK

\* The same of the state after a step.
LEMMA TypesOfHooksNext ==
  ASSUME /\ hooks' \in [HookedRepos -> Seq({"some", "all"})]
         /\ access' \in [HookedRepos -> {"open", "forbidden", "missing"}] /\ appDenied' \in BOOLEAN
         /\ events' \in [HookedRepos -> HC!Coverage] /\ refused' \subseteq HookedRepos
         /\ denied' \subseteq HookedRepos /\ deniedAll' \in BOOLEAN
         /\ listed' \subseteq HookedRepos /\ hookTurns' \in 0..MaxHookTurns
         /\ lastSaved' \in [HookedRepos -> Kept] /\ saved' \in [HookedRepos -> Kept]
         /\ probe' \in [HookedRepos -> Kept] /\ checked' \in [HookedRepos -> Kept]
         /\ setter' \in [Setters -> Request \cup {HC!Away}]
  PROVE  HookShapes'
<1>1. \A r \in HookedRepos : {lastSaved'[r], saved'[r]} \subseteq HC!Rows \cup {NoCheck}
      BY DEF Kept
<1> QED BY <1>1 DEF HookShapes, HC!HookChecksTypeOK

\* A row a check makes, new, is no row that is missing.
LEMMA NewRow ==
  ASSUME NEW f \in HC!Coverage, NEW b \in BOOLEAN
  PROVE  /\ HC!Row(f, b, 0) \in HC!Rows /\ HC!Row(f, b, 0) # NoCheck
         /\ HC!Row(f, b, 0) \in Kept /\ HC!Row(f, b, 0).age = 0
<1>1. 0 \in 0..(HC!Fresh + 1)
      BY DEF HC!Fresh
<1>2. HC!Row(f, b, 0) \in HC!Rows /\ HC!Row(f, b, 0).age = 0
      BY <1>1 DEF HC!Row, HC!Rows
<1> QED BY <1>2, WebhooksAssumption DEF Kept

\* What a list of a repository's hooks shows is one of the three.
LEMMA FoundIsCoverage ==
  ASSUME NEW r \in HookedRepos, hooks \in [HookedRepos -> Seq({"some", "all"})]
  PROVE  HC!Found(r) \in HC!Coverage
<1>1. CASE hooks[r] = <<>>
      BY <1>1 DEF HC!Found, HC!Coverage
<1>2. CASE hooks[r] # <<>>
  <2>1. hooks[r] \in Seq({"some", "all"})
        OBVIOUS
  <2>2. hooks[r][1] \in {"some", "all"}
        BY <1>2, <2>1
  <2> QED BY <1>2, <2>2 DEF HC!Found, HC!Coverage
<1> QED BY <1>1, <1>2

LEMMA HookInitInv == HC!HookChecksInit => HookInv
<1> SUFFICES ASSUME HC!HookChecksInit PROVE HookInv
    OBVIOUS
<1>1. /\ hooks \in [HookedRepos -> {<<>>, <<"some">>}]
      /\ access = [r \in HookedRepos |-> "open"] /\ appDenied = FALSE /\ listed = HookedRepos
      /\ events = [r \in HookedRepos |-> "none"] /\ refused = {} /\ denied = {} /\ deniedAll = FALSE
      /\ lastSaved = [r \in HookedRepos |-> NoCheck] /\ saved = [r \in HookedRepos |-> NoCheck]
      /\ probe = [r \in HookedRepos |-> NoCheck] /\ setter = [s \in Setters |-> HC!Away]
      /\ hookTurns = 0
      /\ checked = [r \in HookedRepos |-> NoCheck] /\ unsaved = {} /\ twice = {}
      BY DEF HC!HookChecksInit
<1>2. \A r \in HookedRepos : hooks[r] \in Seq({"some", "all"}) /\ Len(hooks[r]) <= 1
  <2>1. <<>> \in Seq({"some", "all"}) /\ Len(<<>>) <= 1
        OBVIOUS
  <2>2. <<"some">> \in Seq({"some", "all"}) /\ Len(<<"some">>) <= 1
        OBVIOUS
  <2> QED BY <1>1, <2>1, <2>2
<1>3. hookTurns \in 0..MaxHookTurns
      BY <1>1, WebhooksAssumption
<1>4. appDenied \in BOOLEAN /\ deniedAll \in BOOLEAN
      BY <1>1
<1>5. /\ hooks \in [HookedRepos -> Seq({"some", "all"})]
      /\ access \in [HookedRepos -> {"open", "forbidden", "missing"}]
      /\ events \in [HookedRepos -> HC!Coverage]
      BY <1>1, <1>2 DEF HC!Coverage
<1>6. /\ lastSaved \in [HookedRepos -> Kept] /\ saved \in [HookedRepos -> Kept]
      /\ probe \in [HookedRepos -> Kept] /\ checked \in [HookedRepos -> Kept]
      /\ setter \in [Setters -> Request \cup {HC!Away}]
      BY <1>1 DEF Kept
<1>7. HookShapes
      BY <1>1, <1>3, <1>4, <1>5, <1>6, TypesOfHooks
<1>8. RowsAgree /\ ChecksAreSaved
      BY <1>1 DEF RowsAgree, ChecksAreSaved
<1>9. \A s \in Setters, r \in HookedRepos : ~Creates(s, r)
      BY <1>1 DEF Creates, HC!Away
<1>10. OneCreator
      BY <1>2, <1>9 DEF OneCreator
<1> QED BY <1>7, <1>8, <1>10 DEF HookInv

\* Who will create a hook is read off the setters alone.
LEMMA CreatorsKept ==
  ASSUME OneCreator, UNCHANGED setter, twice \subseteq twice',
         \A r \in HookedRepos : Len(hooks'[r]) \in Nat /\ Len(hooks[r]) \in Nat
                                /\ Len(hooks'[r]) <= Len(hooks[r])
  PROVE  OneCreator'
<1>1. \A s \in Setters, r \in HookedRepos : Creates(s, r)' <=> Creates(s, r)
      BY DEF Creates
<1> QED BY <1>1 DEF OneCreator

\* A check: answered, refused, or failed.
LEMMA ProbeKeeps == ASSUME NEW r \in HookedRepos PROVE HookInv /\ HC!ProbeOwnHook(r) => HookInv'
<1> SUFFICES ASSUME HookInv, HC!ProbeOwnHook(r) PROVE HookInv'
    OBVIOUS
<1>0. /\ hooks \in [HookedRepos -> Seq({"some", "all"})]
      /\ access \in [HookedRepos -> {"open", "forbidden", "missing"}] /\ appDenied \in BOOLEAN
      /\ events \in [HookedRepos -> HC!Coverage] /\ refused \subseteq HookedRepos
      /\ denied \subseteq HookedRepos /\ deniedAll \in BOOLEAN
      /\ listed \subseteq HookedRepos /\ hookTurns \in 0..MaxHookTurns
      /\ lastSaved \in [HookedRepos -> Kept] /\ saved \in [HookedRepos -> Kept]
      /\ probe \in [HookedRepos -> Kept] /\ checked \in [HookedRepos -> Kept]
      /\ setter \in [Setters -> Request \cup {HC!Away}]
      BY HookTypes DEF HookInv
<1>1. UNCHANGED <<hooks, access, appDenied, listed, lastSaved, saved, setter, hookTurns, unsaved, twice>>
      BY DEF HC!ProbeOwnHook, HC!forge, HC!rows
<1>2. \A x \in HookedRepos : Len(hooks[x]) \in Nat
      BY <1>0, LenProperties
<1>3. OneCreator'
      BY <1>1, <1>2, CreatorsKept DEF HookInv
<1>4. ASSUME NEW row \in HC!Rows, row # NoCheck, row.age = 0, row \in Kept,
             probe' = [probe EXCEPT ![r] = row], checked' = [checked EXCEPT ![r] = row]
      PROVE  /\ probe' \in [HookedRepos -> Kept] /\ checked' \in [HookedRepos -> Kept]
             /\ RowsAgree' /\ ChecksAreSaved'
  <2>1. probe' \in [HookedRepos -> Kept] /\ checked' \in [HookedRepos -> Kept]
        BY <1>0, <1>4
  <2>2. /\ probe'[r] = row /\ checked'[r] = row
        /\ \A x \in HookedRepos \ {r} : probe'[x] = probe[x] /\ checked'[x] = checked[x]
        BY <1>0, <1>4
  <2>3. RowsAgree'
        BY <1>1, <1>4, <2>2 DEF HookInv, RowsAgree
  <2>4. ChecksAreSaved'
        BY <1>1, <1>4, <2>2 DEF HookInv, ChecksAreSaved
  <2> QED BY <2>1, <2>3, <2>4
<1>5. CASE HC!ProbeAnswered(r)
  <2>1. HC!Found(r) \in HC!Coverage
        BY <1>0, FoundIsCoverage
  <2> DEFINE row == HC!Row(HC!Found(r), FALSE, 0)
  <2>2. row \in HC!Rows /\ row # NoCheck /\ row \in Kept /\ row.age = 0
        BY <2>1, NewRow
  <2>3. /\ events' = [events EXCEPT ![r] = HC!Found(r)] /\ refused' = refused \ {r}
        /\ probe' = [probe EXCEPT ![r] = row] /\ checked' = [checked EXCEPT ![r] = row]
        /\ UNCHANGED <<denied, deniedAll>>
        BY <1>5 DEF HC!ProbeAnswered
  <2> HIDE DEF row
  <2>4. /\ probe' \in [HookedRepos -> Kept] /\ checked' \in [HookedRepos -> Kept]
        /\ RowsAgree' /\ ChecksAreSaved'
        BY <1>4, <2>2, <2>3
  <2>5. events' \in [HookedRepos -> HC!Coverage]
        BY <1>0, <2>1, <2>3
  <2>6. refused' \subseteq HookedRepos /\ denied' \subseteq HookedRepos /\ deniedAll' \in BOOLEAN
        BY <1>0, <2>3
  <2>7. HookShapes'
        BY <1>0, <1>1, <2>4, <2>5, <2>6, TypesOfHooksNext
  <2> QED BY <1>3, <2>4, <2>7 DEF HookInv
<1>6. CASE HC!ProbeRefused(r)
  <2> DEFINE row == HC!Row("none", TRUE, 0)
  <2>0. "none" \in HC!Coverage
        BY DEF HC!Coverage
  <2>2. row \in HC!Rows /\ row # NoCheck /\ row \in Kept /\ row.age = 0
        BY <2>0, NewRow
  <2>3. /\ refused' = refused \cup {r} /\ deniedAll' = (deniedAll \/ appDenied)
        /\ probe' = [probe EXCEPT ![r] = row] /\ checked' = [checked EXCEPT ![r] = row]
        /\ UNCHANGED <<events, denied>>
        BY <1>6 DEF HC!ProbeRefused
  <2> HIDE DEF row
  <2>4. /\ probe' \in [HookedRepos -> Kept] /\ checked' \in [HookedRepos -> Kept]
        /\ RowsAgree' /\ ChecksAreSaved'
        BY <1>4, <2>2, <2>3
  <2>5. deniedAll' \in BOOLEAN
        BY <2>3
  <2>6. refused' \subseteq HookedRepos
        BY <1>0, <2>3
  <2>7. HookShapes'
        BY <1>0, <1>1, <2>3, <2>4, <2>5, <2>6, TypesOfHooksNext
  <2> QED BY <1>3, <2>4, <2>7 DEF HookInv
<1>7. CASE HC!ProbeFails(r)
  <2>1. denied' = (IF access[r] = "forbidden" THEN denied \cup {r} ELSE denied)
        /\ UNCHANGED <<events, refused, deniedAll, probe, checked>>
        BY <1>7 DEF HC!ProbeFails
  <2>2. denied' \subseteq HookedRepos
        BY <1>0, <2>1
  <2>3. HookShapes'
        BY <1>0, <1>1, <2>1, <2>2, TypesOfHooksNext
  <2>4. RowsAgree' /\ ChecksAreSaved'
        BY <1>1, <2>1 DEF HookInv, RowsAgree, ChecksAreSaved
  <2> QED BY <1>3, <2>3, <2>4 DEF HookInv
<1> QED BY <1>5, <1>6, <1>7 DEF HC!ProbeOwnHook

\* A check is saved, or was written lately, or its write fails.
LEMMA SaveKeeps == ASSUME NEW r \in HookedRepos PROVE HookInv /\ HC!SaveHookCheck(r) => HookInv'
<1> SUFFICES ASSUME HookInv, HC!SaveHookCheck(r) PROVE HookInv'
    OBVIOUS
<1>0. /\ hooks \in [HookedRepos -> Seq({"some", "all"})]
      /\ access \in [HookedRepos -> {"open", "forbidden", "missing"}] /\ appDenied \in BOOLEAN
      /\ events \in [HookedRepos -> HC!Coverage] /\ refused \subseteq HookedRepos
      /\ denied \subseteq HookedRepos /\ deniedAll \in BOOLEAN
      /\ listed \subseteq HookedRepos /\ hookTurns \in 0..MaxHookTurns
      /\ lastSaved \in [HookedRepos -> Kept] /\ saved \in [HookedRepos -> Kept]
      /\ probe \in [HookedRepos -> Kept] /\ checked \in [HookedRepos -> Kept]
      /\ setter \in [Setters -> Request \cup {HC!Away}]
      BY HookTypes DEF HookInv
<1>l. \A x \in HookedRepos : Len(hooks[x]) \in Nat
      BY <1>0, LenProperties
<1>1. /\ UNCHANGED <<hooks, access, appDenied, listed, events, refused, denied, deniedAll>>
      /\ UNCHANGED <<setter, hookTurns, checked, twice>>
      /\ probe[r] # NoCheck /\ probe' = [probe EXCEPT ![r] = NoCheck]
      BY DEF HC!SaveHookCheck, HC!forge, HC!memory
<1>2. OneCreator'
      BY <1>1, <1>l, CreatorsKept DEF HookInv
<1>3. /\ probe' \in [HookedRepos -> Kept] /\ probe'[r] = NoCheck
      /\ \A x \in HookedRepos \ {r} : probe'[x] = probe[x]
      BY <1>0, <1>1 DEF Kept
<1>4. checked[r] = probe[r] /\ probe[r].age = 0 /\ probe[r] \in Kept
      BY <1>0, <1>1 DEF HookInv, RowsAgree
<1>5. CASE HC!Same(lastSaved[r], probe[r]) /\ UNCHANGED <<lastSaved, saved, unsaved>>
  <2>1. /\ lastSaved[r] # NoCheck /\ lastSaved[r].found = probe[r].found
        /\ lastSaved[r].refused = probe[r].refused /\ lastSaved[r].age < 1
        BY <1>5 DEF HC!Same
  <2>2. lastSaved[r] \in HC!Rows
        BY <1>0, <2>1 DEF Kept
  <2>3. lastSaved[r].age \in 0..(HC!Fresh + 1)
        BY <2>2 DEF HC!Rows
  <2>4. lastSaved[r].age = 0
        BY <2>1, <2>3 DEF HC!Fresh
  <2>5. r \notin unsaved => saved[r] = lastSaved[r]
        BY <2>1 DEF HookInv, RowsAgree
  <2>6. RowsAgree'
        BY <1>1, <1>3, <1>5 DEF HookInv, RowsAgree
  <2>7. ChecksAreSaved'
        BY <1>1, <1>3, <1>4, <1>5, <2>1, <2>4, <2>5 DEF HookInv, ChecksAreSaved
  <2>8. HookShapes'
        BY <1>0, <1>1, <1>3, <1>5, TypesOfHooksNext
  <2> QED BY <1>2, <2>6, <2>7, <2>8 DEF HookInv
<1>6. CASE /\ saved' = [saved EXCEPT ![r] = probe[r]]
           /\ lastSaved' = [lastSaved EXCEPT ![r] = probe[r]]
           /\ unsaved' = unsaved \ {r}
  <2>1. /\ saved' \in [HookedRepos -> Kept] /\ saved'[r] = probe[r]
        /\ \A x \in HookedRepos \ {r} : saved'[x] = saved[x]
        BY <1>0, <1>4, <1>6
  <2>2. /\ lastSaved' \in [HookedRepos -> Kept] /\ lastSaved'[r] = probe[r]
        /\ \A x \in HookedRepos \ {r} : lastSaved'[x] = lastSaved[x]
        BY <1>0, <1>4, <1>6
  <2>3. RowsAgree'
        BY <1>1, <1>3, <1>6, <2>1, <2>2 DEF HookInv, RowsAgree
  <2>4. ChecksAreSaved'
        BY <1>1, <1>3, <1>4, <1>6, <2>1 DEF HookInv, ChecksAreSaved
  <2>5. HookShapes'
        BY <1>0, <1>1, <1>3, <2>1, <2>2, TypesOfHooksNext
  <2> QED BY <1>2, <2>3, <2>4, <2>5 DEF HookInv
<1>7. CASE unsaved' = unsaved \cup {r} /\ UNCHANGED <<lastSaved, saved>>
  <2>1. RowsAgree'
        BY <1>1, <1>3, <1>7 DEF HookInv, RowsAgree
  <2>2. ChecksAreSaved'
        BY <1>1, <1>3, <1>7 DEF HookInv, ChecksAreSaved
  <2>3. HookShapes'
        BY <1>0, <1>1, <1>3, <1>7, TypesOfHooksNext
  <2> QED BY <1>2, <2>1, <2>2, <2>3 DEF HookInv
<1> QED BY <1>5, <1>6, <1>7 DEF HC!SaveHookCheck, HC!rows

\* Rows of repositories no longer listed go.
LEMMA PruneKeeps == HookInv /\ HC!PruneHookChecks => HookInv'
<1> SUFFICES ASSUME HookInv, HC!PruneHookChecks PROVE HookInv'
    OBVIOUS
<1>0. /\ hooks \in [HookedRepos -> Seq({"some", "all"})]
      /\ access \in [HookedRepos -> {"open", "forbidden", "missing"}] /\ appDenied \in BOOLEAN
      /\ events \in [HookedRepos -> HC!Coverage] /\ refused \subseteq HookedRepos
      /\ denied \subseteq HookedRepos /\ deniedAll \in BOOLEAN
      /\ listed \subseteq HookedRepos /\ hookTurns \in 0..MaxHookTurns
      /\ lastSaved \in [HookedRepos -> Kept] /\ saved \in [HookedRepos -> Kept]
      /\ probe \in [HookedRepos -> Kept] /\ checked \in [HookedRepos -> Kept]
      /\ setter \in [Setters -> Request \cup {HC!Away}]
      BY HookTypes DEF HookInv
<1>l. \A x \in HookedRepos : Len(hooks[x]) \in Nat
      BY <1>0, LenProperties
<1>1. /\ saved' = [r \in HookedRepos |-> IF r \in listed THEN saved[r] ELSE NoCheck]
      /\ lastSaved' = [r \in HookedRepos |-> IF r \in listed THEN lastSaved[r] ELSE NoCheck]
      /\ events' = [r \in HookedRepos |-> IF r \in listed \/ lastSaved[r] = NoCheck
                                          THEN events[r] ELSE "none"]
      /\ checked' = [r \in HookedRepos |-> IF r \in listed THEN checked[r] ELSE NoCheck]
      BY DEF HC!PruneHookChecks, HC!Forgotten
<1>2. /\ UNCHANGED <<hooks, access, appDenied, listed, refused, denied, deniedAll>>
      /\ UNCHANGED <<probe, setter, hookTurns, unsaved, twice>>
      /\ \A r \in HookedRepos : probe[r] = NoCheck
      BY DEF HC!PruneHookChecks, HC!forge
<1>3. OneCreator'
      BY <1>2, <1>l, CreatorsKept DEF HookInv
<1>4. /\ saved' \in [HookedRepos -> Kept] /\ lastSaved' \in [HookedRepos -> Kept]
      /\ checked' \in [HookedRepos -> Kept]
      BY <1>0, <1>1 DEF Kept
<1>5. events' \in [HookedRepos -> HC!Coverage]
      BY <1>0, <1>1 DEF HC!Coverage
<1>6. HookShapes'
      BY <1>0, <1>2, <1>4, <1>5, TypesOfHooksNext
<1>7. RowsAgree'
      BY <1>1, <1>2 DEF HookInv, RowsAgree
<1>8. ChecksAreSaved'
      BY <1>1, <1>2 DEF HookInv, ChecksAreSaved
<1> QED BY <1>3, <1>6, <1>7, <1>8 DEF HookInv

\* A request looks for the hook; one that finds none while another is about to
\* create it has crossed with it.
LEMMA LookKeeps ==
  ASSUME NEW s \in Setters, NEW r \in HookedRepos PROVE HookInv /\ HC!Look(s, r) => HookInv'
<1> SUFFICES ASSUME HookInv, HC!Look(s, r) PROVE HookInv'
    OBVIOUS
<1>0. /\ hooks \in [HookedRepos -> Seq({"some", "all"})]
      /\ access \in [HookedRepos -> {"open", "forbidden", "missing"}] /\ appDenied \in BOOLEAN
      /\ events \in [HookedRepos -> HC!Coverage] /\ refused \subseteq HookedRepos
      /\ denied \subseteq HookedRepos /\ deniedAll \in BOOLEAN
      /\ listed \subseteq HookedRepos /\ hookTurns \in 0..MaxHookTurns
      /\ lastSaved \in [HookedRepos -> Kept] /\ saved \in [HookedRepos -> Kept]
      /\ probe \in [HookedRepos -> Kept] /\ checked \in [HookedRepos -> Kept]
      /\ setter \in [Setters -> Request \cup {HC!Away}]
      BY HookTypes DEF HookInv
<1>l. \A x \in HookedRepos : Len(hooks[x]) \in Nat
      BY <1>0, LenProperties
<1>1. /\ UNCHANGED <<hooks, access, appDenied, listed, events, refused, denied, deniedAll>>
      /\ UNCHANGED <<lastSaved, saved, probe, checked, unsaved>>
      BY DEF HC!Look, HC!forge, HC!memory, HC!rows
<1>2. hookTurns < MaxHookTurns /\ hookTurns' = hookTurns + 1
      BY DEF HC!Look, HC!Turn
<1>3. hookTurns' \in 0..MaxHookTurns
      BY <1>0, <1>2, WebhooksAssumption
<1>4. PICK there \in HC!Existing(r), want \in {"ensure", "upgrade"} :
        /\ setter' = [setter EXCEPT ![s] = [at |-> want, repo |-> r, there |-> there,
                                            old |-> there /\ HC!Found(r) # "all"]]
        /\ twice' = IF ~there /\ \E t \in Setters \ {s} : setter[t].at = "ensure" /\ setter[t].repo = r
                    THEN twice \cup {r} ELSE twice
      BY DEF HC!Look
<1>5. there = (Len(hooks[r]) > 0)
      BY DEF HC!Existing
<1>6. there \in BOOLEAN /\ (there /\ HC!Found(r) # "all") \in BOOLEAN
      BY <1>5
<1> DEFINE new == [at |-> want, repo |-> r, there |-> there, old |-> there /\ HC!Found(r) # "all"]
<1>7. new \in Request /\ new.repo = r /\ new.there = there
      BY <1>6 DEF Request
<1>8. setter' = [setter EXCEPT ![s] = new]
      BY <1>4
<1> HIDE DEF new
<1>9. /\ setter' \in [Setters -> Request \cup {HC!Away}] /\ setter'[s] = new
      /\ \A t \in Setters \ {s} : setter'[t] = setter[t]
      BY <1>0, <1>7, <1>8
<1>10. HookShapes'
      BY <1>0, <1>1, <1>3, <1>9, TypesOfHooksNext
<1>11. RowsAgree' /\ ChecksAreSaved'
      BY <1>1 DEF HookInv, RowsAgree, ChecksAreSaved
<1>12. OneCreator'
  <2>1. \A t \in Setters \ {s}, x \in HookedRepos : Creates(t, x)' <=> Creates(t, x)
        BY <1>9 DEF Creates
  <2>2. \A x \in HookedRepos : Creates(s, x)' => x = r /\ ~there
        BY <1>7, <1>9 DEF Creates
  <2>a. ~there => ~(Len(hooks[r]) > 0)
        BY <1>5, Zenon
  <2>3. ~there => Len(hooks[r]) = 0
        BY <1>l, <2>a
  <2>4. ASSUME NEW t \in Setters \ {s}, Creates(t, r), ~there PROVE r \in twice'
        BY <1>4, <2>4 DEF Creates
  <2>5. twice \subseteq twice'
        BY <1>4
  <2>6. ASSUME NEW x \in HookedRepos, x \notin twice'
        PROVE  /\ Len(hooks'[x]) <= 1
               /\ \A t \in Setters : Creates(t, x)' => Len(hooks'[x]) = 0
               /\ \A t, u \in Setters : Creates(t, x)' /\ Creates(u, x)' => t = u
    <3>1. x \notin twice /\ hooks'[x] = hooks[x]
          BY <1>1, <2>5, <2>6
    <3>2. \A t \in Setters : Creates(t, x)' => Len(hooks'[x]) = 0
          BY <2>1, <2>2, <2>3, <3>1 DEF HookInv, OneCreator
    <3>3. \A t \in Setters \ {s} : Creates(t, x)' => ~Creates(s, x)'
          BY <2>1, <2>2, <2>4, <2>6
    <3>4. \A t, u \in Setters : Creates(t, x)' /\ Creates(u, x)' => t = u
          BY <2>1, <3>1, <3>3 DEF HookInv, OneCreator
    <3> QED BY <3>1, <3>2, <3>4 DEF HookInv, OneCreator
  <2> QED BY <2>6 DEF OneCreator
<1> QED BY <1>10, <1>11, <1>12 DEF HookInv

\* A request writes: the one that found no hook creates it.
LEMMA WriteKeeps == ASSUME NEW s \in Setters PROVE HookInv /\ HC!Write(s) => HookInv'
<1> SUFFICES ASSUME HookInv, HC!Write(s) PROVE HookInv'
    OBVIOUS
<1>0. /\ hooks \in [HookedRepos -> Seq({"some", "all"})]
      /\ access \in [HookedRepos -> {"open", "forbidden", "missing"}] /\ appDenied \in BOOLEAN
      /\ events \in [HookedRepos -> HC!Coverage] /\ refused \subseteq HookedRepos
      /\ denied \subseteq HookedRepos /\ deniedAll \in BOOLEAN
      /\ listed \subseteq HookedRepos /\ hookTurns \in 0..MaxHookTurns
      /\ lastSaved \in [HookedRepos -> Kept] /\ saved \in [HookedRepos -> Kept]
      /\ probe \in [HookedRepos -> Kept] /\ checked \in [HookedRepos -> Kept]
      /\ setter \in [Setters -> Request \cup {HC!Away}]
      BY HookTypes DEF HookInv
<1>l. \A x \in HookedRepos : Len(hooks[x]) \in Nat
      BY <1>0, LenProperties
<1>1. /\ UNCHANGED <<access, appDenied, listed, events, refused, denied, deniedAll>>
      /\ UNCHANGED <<lastSaved, saved, probe, hookTurns, checked, unsaved, twice>>
      /\ setter[s].at # "idle" /\ setter' = [setter EXCEPT ![s] = HC!Away]
      BY DEF HC!Write, HC!memory, HC!rows, HC!past
<1>2. setter[s] \in Request
      BY <1>0, <1>1 DEF HC!Away
<1>3. /\ setter' \in [Setters -> Request \cup {HC!Away}] /\ setter'[s] = HC!Away
      /\ \A t \in Setters \ {s} : setter'[t] = setter[t]
      BY <1>0, <1>1
<1> DEFINE r == setter[s].repo
<1>4. r \in HookedRepos
      BY <1>2 DEF Request
<1>5. \A t \in Setters \ {s}, x \in HookedRepos : Creates(t, x)' <=> Creates(t, x)
      BY <1>3 DEF Creates
<1>6. \A x \in HookedRepos : ~Creates(s, x)'
      BY <1>3 DEF Creates, HC!Away
<1>7. ASSUME hooks' \in [HookedRepos -> Seq({"some", "all"})], OneCreator'
      PROVE  HookInv'
  <2>1. HookShapes'
        BY <1>0, <1>1, <1>3, <1>7, TypesOfHooksNext
  <2>2. RowsAgree' /\ ChecksAreSaved'
        BY <1>1 DEF HookInv, RowsAgree, ChecksAreSaved
  <2> QED BY <1>7, <2>1, <2>2 DEF HookInv
<1>8. CASE Creates(s, r)
  <2>1. hooks' = [hooks EXCEPT ![r] = Append(@, "all")]
        BY <1>8 DEF HC!Write, Creates
  <2>2. hooks[r] \in Seq({"some", "all"})
        BY <1>0, <1>4
  <2>3. Append(hooks[r], "all") \in Seq({"some", "all"}) /\ Len(Append(hooks[r], "all")) = Len(hooks[r]) + 1
        BY <2>2, AppendProperties
  <2> HIDE DEF r
  <2>4. /\ hooks' \in [HookedRepos -> Seq({"some", "all"})]
        /\ Len(hooks'[r]) = Len(hooks[r]) + 1
        /\ \A x \in HookedRepos \ {r} : hooks'[x] = hooks[x]
        BY <1>0, <1>4, <2>1, <2>3
  <2>5. r \notin twice => /\ Len(hooks[r]) = 0
                          /\ \A t \in Setters \ {s} : ~Creates(t, r)
        BY <1>4, <1>8 DEF HookInv, OneCreator
  <2>6. OneCreator'
    <3>1. ASSUME NEW x \in HookedRepos, x \notin twice'
          PROVE  /\ Len(hooks'[x]) <= 1
                 /\ \A t \in Setters : Creates(t, x)' => Len(hooks'[x]) = 0
                 /\ \A t, u \in Setters : Creates(t, x)' /\ Creates(u, x)' => t = u
      <4>1. x \notin twice
            BY <1>1, <3>1
      <4>2. CASE x = r
        <5>1. Len(hooks'[x]) <= 1
              BY <1>l, <1>4, <2>4, <2>5, <4>1, <4>2
        <5>2. \A t \in Setters : ~Creates(t, x)'
              BY <1>5, <1>6, <1>4, <2>5, <4>1, <4>2
        <5> QED BY <5>1, <5>2
      <4>3. CASE x # r
            BY <1>5, <1>6, <2>4, <4>1, <4>3 DEF HookInv, OneCreator
      <4> QED BY <4>2, <4>3
    <3> QED BY <3>1 DEF OneCreator
  <2> QED BY <1>7, <2>4, <2>6
<1>9. CASE ~Creates(s, r)
  <2>1. ~(setter[s].at = "ensure" /\ ~setter[s].there)
        BY <1>9 DEF Creates
  <2>2. \/ hooks[r] # <<>> /\ hooks' = [hooks EXCEPT ![r][1] = "all"]
        \/ hooks' = hooks
        BY <2>1 DEF HC!Write
  <2>3. hooks[r] \in Seq({"some", "all"})
        BY <1>0, <1>4
  <2> HIDE DEF r
  <2>4. /\ hooks' \in [HookedRepos -> Seq({"some", "all"})]
        /\ \A x \in HookedRepos : Len(hooks'[x]) = Len(hooks[x])
    <3>1. CASE hooks' = hooks
          BY <1>0, <3>1
    <3>2. CASE hooks[r] # <<>> /\ hooks' = [hooks EXCEPT ![r][1] = "all"]
      <4>1. 1 \in 1..Len(hooks[r])
            BY <2>3, <3>2, EmptySeq
      <4> DEFINE new == [hooks[r] EXCEPT ![1] = "all"]
      <4>2. new \in Seq({"some", "all"}) /\ Len(new) = Len(hooks[r])
            BY <2>3, <4>1, ExceptSeq
      <4>3. hooks' = [hooks EXCEPT ![r] = new]
            BY <1>0, <1>4, <3>2
      <4> HIDE DEF new
      <4> QED BY <1>0, <1>4, <4>2, <4>3
    <3> QED BY <2>2, <3>1, <3>2
  <2>5. OneCreator'
        BY <1>1, <1>5, <1>6, <2>4 DEF HookInv, OneCreator
  <2> QED BY <1>7, <2>4, <2>5
<1> QED BY <1>8, <1>9

\* What happens on the forge, to the clock and to other processes.
LEMMA ForgeKeeps == HookInv /\ HC!ForgeTurns => HookInv'
<1> SUFFICES ASSUME HookInv, HC!ForgeTurns PROVE HookInv'
    OBVIOUS
<1>0. /\ hooks \in [HookedRepos -> Seq({"some", "all"})]
      /\ access \in [HookedRepos -> {"open", "forbidden", "missing"}] /\ appDenied \in BOOLEAN
      /\ events \in [HookedRepos -> HC!Coverage] /\ refused \subseteq HookedRepos
      /\ denied \subseteq HookedRepos /\ deniedAll \in BOOLEAN
      /\ listed \subseteq HookedRepos /\ hookTurns \in 0..MaxHookTurns
      /\ lastSaved \in [HookedRepos -> Kept] /\ saved \in [HookedRepos -> Kept]
      /\ probe \in [HookedRepos -> Kept] /\ checked \in [HookedRepos -> Kept]
      /\ setter \in [Setters -> Request \cup {HC!Away}]
      BY HookTypes DEF HookInv
<1>l. \A x \in HookedRepos : Len(hooks[x]) \in Nat
      BY <1>0, LenProperties
<1>1. /\ UNCHANGED <<events, refused, denied, deniedAll>>
      /\ UNCHANGED <<lastSaved, saved, probe, setter, checked, unsaved, twice>>
      /\ hookTurns < MaxHookTurns /\ hookTurns' = hookTurns + 1
      BY DEF HC!ForgeTurns, HC!memory, HC!rows, HC!past, HC!Turn
<1>2. hookTurns' \in 0..MaxHookTurns
      BY <1>0, <1>1, WebhooksAssumption
<1>3. RowsAgree' /\ ChecksAreSaved'
      BY <1>1 DEF HookInv, RowsAgree, ChecksAreSaved
<1>4. ASSUME hooks' \in [HookedRepos -> Seq({"some", "all"})],
             access' \in [HookedRepos -> {"open", "forbidden", "missing"}],
             appDenied' \in BOOLEAN, listed' \subseteq HookedRepos,
             \A x \in HookedRepos : Len(hooks'[x]) \in Nat /\ Len(hooks'[x]) <= Len(hooks[x])
      PROVE  HookInv'
  <2>1. HookShapes'
        BY <1>0, <1>1, <1>2, <1>4, TypesOfHooksNext
  <2>2. OneCreator'
        BY <1>1, <1>4, <1>l, CreatorsKept DEF HookInv
  <2> QED BY <1>3, <2>1, <2>2 DEF HookInv
<1>5. ASSUME NEW r \in HookedRepos, hooks' = [hooks EXCEPT ![r] = <<>>],
             UNCHANGED <<access, appDenied, listed>>
      PROVE  HookInv'
  <2>1. <<>> \in Seq({"some", "all"}) /\ Len(<<>>) = 0
        BY EmptySeq
  <2>2. hooks' \in [HookedRepos -> Seq({"some", "all"})]
        BY <1>0, <1>5, <2>1
  <2>3. \A x \in HookedRepos : Len(hooks'[x]) \in Nat /\ Len(hooks'[x]) <= Len(hooks[x])
    <3>1. hooks'[r] = <<>> /\ \A x \in HookedRepos \ {r} : hooks'[x] = hooks[x]
          BY <1>0, <1>5
    <3> QED BY <1>l, <2>1, <3>1
  <2> QED BY <1>0, <1>4, <1>5, <2>2, <2>3
<1>6. UNCHANGED hooks => \A x \in HookedRepos : Len(hooks'[x]) \in Nat /\ Len(hooks'[x]) <= Len(hooks[x])
      BY <1>l
<1>7. ASSUME NEW r \in HookedRepos, NEW a \in {"open", "forbidden", "missing"},
             access' = [access EXCEPT ![r] = a], UNCHANGED <<hooks, appDenied, listed>>
      PROVE  HookInv'
  <2>1. access' \in [HookedRepos -> {"open", "forbidden", "missing"}]
        BY <1>0, <1>7
  <2> QED BY <1>0, <1>4, <1>6, <1>7, <2>1
<1>8. ASSUME appDenied' = ~appDenied, UNCHANGED <<hooks, access, listed>> PROVE HookInv'
  <2>1. appDenied' \in BOOLEAN
        BY <1>8
  <2> QED BY <1>0, <1>4, <1>6, <1>8, <2>1
<1>9. ASSUME NEW r \in HookedRepos,
             listed' = IF r \in listed THEN listed \ {r} ELSE listed \cup {r},
             UNCHANGED <<hooks, access, appDenied>>
      PROVE  HookInv'
  <2>1. listed' \subseteq HookedRepos
        BY <1>0, <1>9
  <2> QED BY <1>0, <1>4, <1>6, <1>9, <2>1
<1> QED BY <1>5, <1>7, <1>8, <1>9 DEF HC!ForgeTurns

\* A period passes: rows grow older, and what was checked is to be checked again.
LEMMA PeriodKeeps == HookInv /\ HC!PeriodPasses => HookInv'
<1> SUFFICES ASSUME HookInv, HC!PeriodPasses PROVE HookInv'
    OBVIOUS
<1>0. /\ hooks \in [HookedRepos -> Seq({"some", "all"})]
      /\ access \in [HookedRepos -> {"open", "forbidden", "missing"}] /\ appDenied \in BOOLEAN
      /\ events \in [HookedRepos -> HC!Coverage] /\ refused \subseteq HookedRepos
      /\ denied \subseteq HookedRepos /\ deniedAll \in BOOLEAN
      /\ listed \subseteq HookedRepos /\ hookTurns \in 0..MaxHookTurns
      /\ lastSaved \in [HookedRepos -> Kept] /\ saved \in [HookedRepos -> Kept]
      /\ probe \in [HookedRepos -> Kept] /\ checked \in [HookedRepos -> Kept]
      /\ setter \in [Setters -> Request \cup {HC!Away}]
      BY HookTypes DEF HookInv
<1>l. \A x \in HookedRepos : Len(hooks[x]) \in Nat
      BY <1>0, LenProperties
<1>1. /\ lastSaved' = [r \in HookedRepos |-> HC!Aged(lastSaved[r])]
      /\ saved' = [r \in HookedRepos |-> HC!Aged(saved[r])]
      /\ denied' = {} /\ deniedAll' = FALSE
      /\ checked' = [r \in HookedRepos |-> NoCheck]
      /\ UNCHANGED <<hooks, access, appDenied, listed, events, refused, probe, setter, hookTurns>>
      /\ UNCHANGED <<unsaved, twice>>
      BY DEF HC!PeriodPasses, HC!Lasting, HC!forge
<1>2. \A r \in HookedRepos : probe[r] = NoCheck
      BY DEF HC!PeriodPasses
<1>3. \A c \in Kept : HC!Aged(c) \in Kept /\ (c = NoCheck => HC!Aged(c) = NoCheck)
  <2> TAKE c \in Kept
  <2>1. CASE c = NoCheck
        BY <2>1 DEF HC!Aged
  <2>2. CASE c # NoCheck
    <3>1. c \in HC!Rows
          BY <2>2 DEF Kept
    <3>2. c.age \in 0..3 /\ HC!Fresh + 1 = 3
          BY <3>1 DEF HC!Rows, HC!Fresh
    <3>3. HC!Min({c.age + 1, 3}) \in 0..3
          BY <3>2 DEF HC!Min
    <3>4. HC!Aged(c) = [c EXCEPT !.age = HC!Min({c.age + 1, 3})]
          BY <2>2, <3>2 DEF HC!Aged
    <3>5. HC!Aged(c) \in HC!Rows
          BY <3>1, <3>2, <3>3, <3>4 DEF HC!Rows
    <3> QED BY <2>2, <3>5 DEF Kept
  <2> QED BY <2>1, <2>2
<1>4. lastSaved' \in [HookedRepos -> Kept] /\ saved' \in [HookedRepos -> Kept]
      BY <1>0, <1>1, <1>3
<1>5. checked' \in [HookedRepos -> Kept] /\ denied' \subseteq HookedRepos
      BY <1>1 DEF Kept
<1>6. deniedAll' \in BOOLEAN
      BY <1>1
<1>7. HookShapes'
      BY <1>0, <1>1, <1>4, <1>5, <1>6, TypesOfHooksNext
<1>8. RowsAgree'
  <2>1. ASSUME NEW r \in HookedRepos, r \notin unsaved, lastSaved'[r] # NoCheck
        PROVE  saved'[r] = lastSaved'[r]
    <3>1. lastSaved[r] # NoCheck
          BY <1>0, <1>1, <1>3, <2>1
    <3>2. saved[r] = lastSaved[r]
          BY <2>1, <3>1 DEF HookInv, RowsAgree
    <3> QED BY <1>1, <3>2
  <2> QED BY <1>1, <1>2, <2>1 DEF RowsAgree
<1>9. ChecksAreSaved'
      BY <1>1 DEF ChecksAreSaved
<1>10. OneCreator'
      BY <1>1, <1>l, CreatorsKept DEF HookInv
<1> QED BY <1>7, <1>8, <1>9, <1>10 DEF HookInv

\* The client of a replaced Aggregator overwrites a row.
LEMMA EarlierKeeps ==
  ASSUME NEW r \in HookedRepos PROVE HookInv /\ HC!EarlierClientSaves(r) => HookInv'
<1> SUFFICES ASSUME HookInv, HC!EarlierClientSaves(r) PROVE HookInv'
    OBVIOUS
<1>0. /\ hooks \in [HookedRepos -> Seq({"some", "all"})]
      /\ access \in [HookedRepos -> {"open", "forbidden", "missing"}] /\ appDenied \in BOOLEAN
      /\ events \in [HookedRepos -> HC!Coverage] /\ refused \subseteq HookedRepos
      /\ denied \subseteq HookedRepos /\ deniedAll \in BOOLEAN
      /\ listed \subseteq HookedRepos /\ hookTurns \in 0..MaxHookTurns
      /\ lastSaved \in [HookedRepos -> Kept] /\ saved \in [HookedRepos -> Kept]
      /\ probe \in [HookedRepos -> Kept] /\ checked \in [HookedRepos -> Kept]
      /\ setter \in [Setters -> Request \cup {HC!Away}]
      BY HookTypes DEF HookInv
<1>l. \A x \in HookedRepos : Len(hooks[x]) \in Nat
      BY <1>0, LenProperties
<1>1. /\ UNCHANGED <<hooks, access, appDenied, listed, events, refused, denied, deniedAll>>
      /\ UNCHANGED <<lastSaved, probe, setter, checked, twice>> /\ unsaved' = unsaved \cup {r}
      /\ hookTurns < MaxHookTurns /\ hookTurns' = hookTurns + 1
      BY DEF HC!EarlierClientSaves, HC!forge, HC!memory, HC!Turn
<1>2. hookTurns' \in 0..MaxHookTurns
      BY <1>0, <1>1, WebhooksAssumption
<1>3. PICK f \in HC!Coverage : saved' = [saved EXCEPT ![r] = HC!Row(f, FALSE, 0)]
      BY DEF HC!EarlierClientSaves
<1>4. HC!Row(f, FALSE, 0) \in Kept
      BY NewRow
<1>5. saved' \in [HookedRepos -> Kept] /\ \A x \in HookedRepos \ {r} : saved'[x] = saved[x]
      BY <1>0, <1>3, <1>4
<1>6. HookShapes'
      BY <1>0, <1>1, <1>2, <1>5, TypesOfHooksNext
<1>7. RowsAgree' /\ ChecksAreSaved'
      BY <1>1, <1>5 DEF HookInv, RowsAgree, ChecksAreSaved
<1>8. OneCreator'
      BY <1>1, <1>l, CreatorsKept DEF HookInv
<1> QED BY <1>6, <1>7, <1>8 DEF HookInv

\* A new client adopts the rows that are not too old.
LEMMA RestartKeeps == HookInv /\ HC!ClientRestart => HookInv'
<1> SUFFICES ASSUME HookInv, HC!ClientRestart PROVE HookInv'
    OBVIOUS
<1>0. /\ hooks \in [HookedRepos -> Seq({"some", "all"})]
      /\ access \in [HookedRepos -> {"open", "forbidden", "missing"}] /\ appDenied \in BOOLEAN
      /\ events \in [HookedRepos -> HC!Coverage] /\ refused \subseteq HookedRepos
      /\ denied \subseteq HookedRepos /\ deniedAll \in BOOLEAN
      /\ listed \subseteq HookedRepos /\ hookTurns \in 0..MaxHookTurns
      /\ lastSaved \in [HookedRepos -> Kept] /\ saved \in [HookedRepos -> Kept]
      /\ probe \in [HookedRepos -> Kept] /\ checked \in [HookedRepos -> Kept]
      /\ setter \in [Setters -> Request \cup {HC!Away}]
      BY HookTypes DEF HookInv
<1>l. \A x \in HookedRepos : Len(hooks[x]) \in Nat
      BY <1>0, LenProperties
<1>1. /\ UNCHANGED <<hooks, access, appDenied, listed, saved, twice>>
      /\ hookTurns < MaxHookTurns /\ hookTurns' = hookTurns + 1
      /\ denied' = {} /\ deniedAll' = FALSE /\ unsaved' = {}
      /\ probe' = [r \in HookedRepos |-> NoCheck] /\ setter' = [s \in Setters |-> HC!Away]
      /\ checked' = [r \in HookedRepos |-> NoCheck]
      BY DEF HC!ClientRestart, HC!forge, HC!Turn
<1>2. /\ events' = [r \in HookedRepos |-> IF HC!Adopted(r) THEN saved[r].found ELSE "none"]
      /\ refused' = {r \in HookedRepos : HC!Adopted(r) /\ saved[r].refused}
      /\ lastSaved' = [r \in HookedRepos |-> IF HC!Adopted(r) THEN saved[r] ELSE NoCheck]
      BY DEF HC!ClientRestart
<1>3. hookTurns' \in 0..MaxHookTurns
      BY <1>0, <1>1, WebhooksAssumption
<1>4. \A r \in HookedRepos : HC!Adopted(r) => saved[r] \in HC!Rows
      BY <1>0 DEF HC!Adopted, Kept
<1>5. events' \in [HookedRepos -> HC!Coverage]
      BY <1>2, <1>4 DEF HC!Rows, HC!Coverage
<1>6. lastSaved' \in [HookedRepos -> Kept]
      BY <1>0, <1>2 DEF Kept
<1>7. /\ refused' \subseteq HookedRepos /\ denied' \subseteq HookedRepos
      /\ probe' \in [HookedRepos -> Kept] /\ checked' \in [HookedRepos -> Kept]
      /\ setter' \in [Setters -> Request \cup {HC!Away}]
      BY <1>1, <1>2 DEF Kept
<1>8. deniedAll' \in BOOLEAN
      BY <1>1
<1>9. HookShapes'
      BY <1>0, <1>1, <1>3, <1>5, <1>6, <1>7, <1>8, TypesOfHooksNext
<1>10. RowsAgree' /\ ChecksAreSaved'
      BY <1>1, <1>2 DEF RowsAgree, ChecksAreSaved
<1>11. \A s \in Setters, r \in HookedRepos : ~Creates(s, r)'
      BY <1>1 DEF Creates, HC!Away
<1>12. OneCreator'
      BY <1>1, <1>11 DEF HookInv, OneCreator
<1> QED BY <1>9, <1>10, <1>12 DEF HookInv

\* Every step of the hook checks keeps the invariant.
LEMMA HookStep == HookInv /\ HC!HookChecksNext => HookInv'
BY ProbeKeeps, SaveKeeps, PruneKeeps, LookKeeps, WriteKeeps, ForgeKeeps, PeriodKeeps,
   EarlierKeeps, RestartKeeps DEF HC!HookChecksNext, HC!CheckWebhooks

\* A restart finds what the last check found, and hooks are not doubled.
LEMMA HookGoal ==
  HookInv => HC!HookChecksTypeOK /\ HC!RestartRemembersHooks /\ HC!OneHookUnlessCrossed
<1> SUFFICES ASSUME HookInv
             PROVE  HC!HookChecksTypeOK /\ HC!RestartRemembersHooks /\ HC!OneHookUnlessCrossed
    OBVIOUS
<1>1. HC!HookChecksTypeOK
      BY DEF HookInv, HookShapes
<1>2. listed \subseteq HookedRepos
      BY HookTypes DEF HookInv
<1>3. HC!RestartRemembersHooks
      BY <1>2 DEF HookInv, ChecksAreSaved, HC!RestartRemembersHooks, HC!Adopted, HC!Fresh
<1>4. HC!OneHookUnlessCrossed
      BY DEF HookInv, OneCreator, HC!OneHookUnlessCrossed
<1> QED BY <1>1, <1>3, <1>4

-----------------------------------------------------------------------------
(* The parts together. *)

\* Every part keeps its invariant, whichever of them the behaviour is about.
WebhooksInv == HookInv /\ SeenInv /\ UpgradeInv

LEMMA WebhooksStep ==
  WebhooksInv /\ [MCNext]_<<part, vars, checkVars, noteVars, passVars>> => WebhooksInv'
<1> SUFFICES ASSUME WebhooksInv, [MCNext]_<<part, vars, checkVars, noteVars, passVars>>
             PROVE  WebhooksInv'
    OBVIOUS
<1>1. UNCHANGED checkVars /\ HookInv => HookInv'
      BY DEF checkVars, HookInv, HookShapes, HC!HookChecksTypeOK, RowsAgree, ChecksAreSaved,
             OneCreator, Creates
<1>2. UNCHANGED noteVars /\ SeenInv => SeenInv'
      BY DEF noteVars, SeenInv, WS!SeenTypeOK, WritesFollowNotes
<1>3. UNCHANGED passVars /\ UpgradeInv => UpgradeInv'
      BY DEF passVars, UpgradeInv, WU!HookTypeOK, OneHolder, TriedIsHeldOrSettled, AnsweredOnce, Holds
<1>4. HookInv'
      BY <1>1, HookStep DEF WebhooksInv, MCNext
<1>5. SeenInv'
      BY <1>2, SeenStep DEF WebhooksInv, MCNext
<1>6. UpgradeInv'
      BY <1>3, UpgradeStep DEF WebhooksInv, MCNext
<1> QED BY <1>4, <1>5, <1>6 DEF WebhooksInv

\* The inductive invariant of the hook checks, the note of the last delivery and
\* the upgrade passes.
THEOREM WebhooksInvariant == MCSpec => []WebhooksInv
<1>1. MCInit => WebhooksInv
      BY HookInitInv, SeenInitInv, UpgradeInit DEF MCInit, WebhooksInv
<1>2. MCSpec => MCInit /\ [][MCNext]_<<part, vars, checkVars, noteVars, passVars>>
      BY PTL DEF MCSpec
<1> QED BY <1>1, <1>2, WebhooksStep, PTL

\* For any repositories, requests and restarts: a restart finds what the last
\* check of a repository's hook found, unless its write failed or was overtaken,
\* and no repository gets two hooks unless two requests crossed.
THEOREM HooksAreRememberedHolds == MCSpec => []HooksAreRemembered
<1>1. WebhooksInv => HooksAreRemembered
      BY HookGoal DEF WebhooksInv, HooksAreRemembered
<1> QED BY <1>1, WebhooksInvariant, PTL

\* For any interval between writes, any number of restarts, passes and workers:
\* the row of the last delivery lags by less than an interval, and an old hook
\* is upgraded once.
THEOREM DeliveriesAreBookedHolds == MCSpec => []DeliveriesAreBooked
<1>1. WebhooksInv => DeliveriesAreBooked
      BY SeenGoal, UpgradeGoal DEF WebhooksInv, DeliveriesAreBooked
<1> QED BY <1>1, WebhooksInvariant, PTL
=============================================================================
