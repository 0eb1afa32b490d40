--------------------------- MODULE CoalescerProofs ---------------------------
(***************************************************************************)
(* What Coalescer promises, for any set of callers and any number of       *)
(* calls.  The argument is the inductive invariant CoalescerInv: the two   *)
(* epochs differ by one exactly while a run is in flight, and a waiter     *)
(* whose run has not finished is owed one, either the run in flight (it    *)
(* arrived before that run began) or the trailing run it asked for.        *)
(*                                                                         *)
(* The second half is about the Service whose Aggregators call the gate,   *)
(* for any number of saves and generations: ServiceInv ties what a         *)
(* deployment was told, and which settings the running Aggregator was      *)
(* built from, to the marks and the saves still under way.                 *)
(***************************************************************************)
EXTENDS MCCoalescer, TLAPS

LEMMA CoalescerInit == Init => CoalescerInv
<1> SUFFICES ASSUME Init PROVE CoalescerInv
  OBVIOUS
<1> USE DEF Init
<1>1. TypeOK
  <2>1. running \in BOOLEAN /\ pending \in BOOLEAN BY Zenon
  <2>2. /\ startedEpoch \in Nat
        /\ completedEpoch \in 0..startedEpoch
        /\ pc \in [Callers -> Places]
        /\ arrivedAfter \in [Callers -> Nat]
        /\ calledAt \in [Callers -> Nat]
        /\ calls \in 0..MaxCalls
    BY MaxCallsAssumption DEF Places
  <2> QED BY <2>1, <2>2 DEF TypeOK
<1>2. SingleFlight BY DEF SingleFlight
<1>3. EpochsInStep BY DEF EpochsInStep
<1>4. CallsBeforeRuns BY DEF CallsBeforeRuns, Waiting, Owed
<1>5. TrailingRunIsAwaited BY DEF TrailingRunIsAwaited
<1> QED BY <1>1, <1>2, <1>3, <1>4, <1>5 DEF CoalescerInv

LEMMA CoalescerStep == CoalescerInv /\ [Next]_vars => CoalescerInv'
<1> SUFFICES ASSUME CoalescerInv, [Next]_vars PROVE CoalescerInv'
  OBVIOUS
<1> USE MaxCallsAssumption DEF CoalescerInv, TypeOK, Places
<1>1. ASSUME NEW c \in Callers, Call(c) PROVE CoalescerInv'
  <2>1. TypeOK' BY <1>1 DEF Call
  <2>2. SingleFlight' BY <1>1 DEF Call, SingleFlight
  <2>3. EpochsInStep' BY <1>1 DEF Call, EpochsInStep
  <2>4. CallsBeforeRuns' BY <1>1 DEF Call, CallsBeforeRuns, Waiting, Owed
  <2>5. TrailingRunIsAwaited' BY <1>1 DEF Call, TrailingRunIsAwaited
  <2> QED BY <2>1, <2>2, <2>3, <2>4, <2>5
<1>2. ASSUME NEW c \in Callers, Lead(c) PROVE CoalescerInv'
  <2>1. TypeOK' BY <1>2 DEF Lead, EpochsInStep
  <2>2. SingleFlight' BY <1>2 DEF Lead, SingleFlight
  <2>3. EpochsInStep' BY <1>2 DEF Lead, EpochsInStep
  <2>4. CallsBeforeRuns'
    BY <1>2 DEF Lead, CallsBeforeRuns, EpochsInStep, Waiting, Owed
  <2>5. TrailingRunIsAwaited'
    BY <1>2 DEF Lead, TrailingRunIsAwaited, EpochsInStep
  <2> QED BY <2>1, <2>2, <2>3, <2>4, <2>5
<1>3. ASSUME NEW c \in Callers, Join(c) PROVE CoalescerInv'
  <2>1. TypeOK' BY <1>3 DEF Join
  <2>2. SingleFlight' BY <1>3 DEF Join, SingleFlight
  <2>3. EpochsInStep' BY <1>3 DEF Join, EpochsInStep
  <2>4. CallsBeforeRuns'
    BY <1>3 DEF Join, CallsBeforeRuns, EpochsInStep, Waiting, Owed
  <2>5. TrailingRunIsAwaited' BY <1>3 DEF Join, TrailingRunIsAwaited
  <2> QED BY <2>1, <2>2, <2>3, <2>4, <2>5
<1>4. ASSUME NEW c \in Callers, Recheck(c) PROVE CoalescerInv'
  <2>1. TypeOK' BY <1>4 DEF Recheck
  <2>2. SingleFlight' BY <1>4 DEF Recheck, SingleFlight
  <2>3. EpochsInStep' BY <1>4 DEF Recheck, EpochsInStep
  <2>4. CallsBeforeRuns' BY <1>4 DEF Recheck, CallsBeforeRuns, Waiting, Owed
  <2>5. TrailingRunIsAwaited'
    \* The caller that leaves is not the one the trailing run is owed to: its
    \* own run has finished.
    BY <1>4 DEF Recheck, TrailingRunIsAwaited, EpochsInStep
  <2> QED BY <2>1, <2>2, <2>3, <2>4, <2>5
<1>5. ASSUME NEW c \in Callers, FinishLast(c) PROVE CoalescerInv'
  <2>a. pc[c] = "fn" BY <1>5 DEF FinishLast
  <2>0. running BY <2>a, Zenon DEF SingleFlight
  <2>1. TypeOK'
    <3>1. running' \in BOOLEAN /\ pending' \in BOOLEAN BY <1>5, Zenon DEF FinishLast
    <3>2. pc' \in [Callers -> Places] BY <1>5 DEF FinishLast, Broadcast
    <3>3. startedEpoch' \in Nat /\ completedEpoch' \in 0..startedEpoch' BY <1>5 DEF FinishLast
    <3>4. UNCHANGED <<arrivedAfter, calledAt, calls>> BY <1>5 DEF FinishLast
    <3> QED BY <3>1, <3>2, <3>3, <3>4
  <2>2. SingleFlight' BY <1>5 DEF FinishLast, Broadcast, SingleFlight
  <2>3. EpochsInStep' BY <1>5 DEF FinishLast, EpochsInStep
  <2>4. CallsBeforeRuns'
    BY <1>5, <2>0
       DEF FinishLast, Broadcast, CallsBeforeRuns, EpochsInStep, Waiting, Owed
  <2>5. TrailingRunIsAwaited' BY <1>5 DEF FinishLast, TrailingRunIsAwaited
  <2> QED BY <2>1, <2>2, <2>3, <2>4, <2>5
<1>6. ASSUME NEW c \in Callers, FinishAndRunAgain(c) PROVE CoalescerInv'
  <2>a. pc[c] = "fn" BY <1>6 DEF FinishAndRunAgain
  <2>0. running BY <2>a, Zenon DEF SingleFlight
  <2>1. TypeOK'
    <3>1. running' \in BOOLEAN /\ pending' \in BOOLEAN BY <1>6, Zenon DEF FinishAndRunAgain
    <3>2. pc' \in [Callers -> Places] BY <1>6 DEF FinishAndRunAgain, Broadcast
    <3>3. startedEpoch' \in Nat /\ completedEpoch' \in 0..startedEpoch' BY <1>6 DEF FinishAndRunAgain
    <3>4. UNCHANGED <<arrivedAfter, calledAt, calls>> BY <1>6 DEF FinishAndRunAgain
    <3> QED BY <3>1, <3>2, <3>3, <3>4
  <2>2. SingleFlight' BY <1>6 DEF FinishAndRunAgain, Broadcast, SingleFlight
  <2>3. EpochsInStep' BY <1>6, <2>0 DEF FinishAndRunAgain, EpochsInStep
  <2>4. CallsBeforeRuns'
    BY <1>6, <2>0
       DEF FinishAndRunAgain, Broadcast, CallsBeforeRuns, EpochsInStep, Waiting, Owed
  <2>5. TrailingRunIsAwaited' BY <1>6 DEF FinishAndRunAgain, TrailingRunIsAwaited
  <2> QED BY <2>1, <2>2, <2>3, <2>4, <2>5
<1>7. CASE UNCHANGED vars
  BY <1>7 DEF vars, SingleFlight, EpochsInStep, CallsBeforeRuns,
              TrailingRunIsAwaited, Waiting, Owed
<1> QED BY <1>1, <1>2, <1>3, <1>4, <1>5, <1>6, <1>7 DEF Next, Step

\* The coalescer's state stays well formed and its inductive invariant holds.
THEOREM CoalescerInvariant == Spec => []CoalescerInv
BY CoalescerInit, CoalescerStep, PTL DEF Spec

\* At most one goroutine is ever inside fn (coalescer.do, the running flag).
THEOREM SingleFlightHolds == Spec => []SingleFlight
<1>1. CoalescerInv => SingleFlight BY DEF CoalescerInv
<1> QED BY <1>1, CoalescerInvariant, PTL

\* A goroutine asleep in coalescer.do always has a Broadcast ahead of it.
THEOREM NoLostWakeupHolds == Spec => []NoLostWakeup
<1>1. CoalescerInv => NoLostWakeup
  BY DEF CoalescerInv, CallsBeforeRuns, NoLostWakeup, Waiting, Owed
<1> QED BY <1>1, CoalescerInvariant, PTL

\* Every run coalescer.do starts for pending callers has a caller waiting.
THEOREM TrailingRunIsAwaitedHolds == Spec => []TrailingRunIsAwaited
<1>1. CoalescerInv => TrailingRunIsAwaited BY DEF CoalescerInv
<1> QED BY <1>1, CoalescerInvariant, PTL

\* do returns only after a run that began at or after the call has finished.
THEOREM EveryCallSeesALaterRunHolds == Spec => EveryCallSeesALaterRun
<1> DEFINE Served ==
      \A c \in Callers :
        pc[c] # "idle" /\ pc'[c] = "idle" => completedEpoch' > calledAt[c]
<1>1. ASSUME CoalescerInv, [Next]_vars PROVE [Served]_vars
  <2> USE <1>1 DEF CoalescerInv, TypeOK, Places
  <2>1. ASSUME NEW d \in Callers, Call(d) PROVE Served BY <2>1 DEF Call
  <2>2. ASSUME NEW d \in Callers, Lead(d) PROVE Served BY <2>2 DEF Lead
  <2>3. ASSUME NEW d \in Callers, Join(d) PROVE Served BY <2>3 DEF Join
  <2>4. ASSUME NEW d \in Callers, Recheck(d) PROVE Served
    BY <2>4 DEF Recheck, CallsBeforeRuns
  <2>5. ASSUME NEW d \in Callers, FinishLast(d) PROVE Served
    BY <2>5 DEF FinishLast, Broadcast, CallsBeforeRuns
  <2>6. ASSUME NEW d \in Callers, FinishAndRunAgain(d) PROVE Served
    BY <2>6 DEF FinishAndRunAgain, Broadcast
  <2> QED BY <2>1, <2>2, <2>3, <2>4, <2>5, <2>6 DEF Next, Step
<1> QED BY <1>1, CoalescerInvariant, PTL DEF Spec, EveryCallSeesALaterRun

\* One run at a time, no run for nobody and no sleeper nobody will wake.
THEOREM GateIsSoundHolds == Spec => []GateIsSound
<1>1. CoalescerInv => GateIsSound
  BY DEF CoalescerInv, CallsBeforeRuns, NoLostWakeup, Waiting, Owed, GateIsSound
<1> QED BY <1>1, CoalescerInvariant, PTL

\* do implements the abstract gate: every step of a goroutine inside do is a
\* step of the gate or leaves it as it is.
THEOREM GateImplemented == Spec => ImplementsGate
<1> USE DEF G!gateVars
<1>1. Init => G!GateInit BY DEF Init, G!GateInit
<1>2. ASSUME CoalescerInv, [Next]_vars PROVE [G!GateNext]_(G!gateVars)
  <2> USE <1>2 DEF CoalescerInv, TypeOK, Places
  <2>1. ASSUME NEW c \in Callers, Call(c) PROVE G!Ask(c)
    BY <2>1 DEF Call, G!Ask
  <2>2. ASSUME NEW c \in Callers, Lead(c) PROVE G!Begin
    BY <2>2 DEF Lead, G!Begin, EpochsInStep
  <2>3. ASSUME NEW c \in Callers, Join(c) PROVE UNCHANGED G!gateVars
    BY <2>3 DEF Join
  <2>4. ASSUME NEW c \in Callers, Recheck(c) PROVE G!Answer(c) \/ UNCHANGED G!gateVars
    BY <2>4 DEF Recheck, G!Answer, CallsBeforeRuns
  <2>5. ASSUME NEW c \in Callers, FinishLast(c) PROVE G!Finish(c)
    BY <2>5 DEF FinishLast, Broadcast, G!Finish, CallsBeforeRuns, EpochsInStep, SingleFlight
  <2>6. ASSUME NEW c \in Callers, FinishAndRunAgain(c) PROVE G!Turn
    BY <2>6 DEF FinishAndRunAgain, Broadcast, G!Turn, EpochsInStep, SingleFlight
  <2>7. CASE UNCHANGED vars BY <2>7 DEF vars
  <2> QED BY <2>1, <2>2, <2>3, <2>4, <2>5, <2>6, <2>7 DEF Next, Step, G!GateNext
<1> QED BY <1>1, <1>2, CoalescerInvariant, PTL DEF Spec, ImplementsGate, G!GateSpec

-----------------------------------------------------------------------------
(* The Service: settings saves replace the Aggregator under the requests.  *)

LoopPlaces == {"none", "new", "refreshing", "waiting", "ended"}
MarkRecord == [refreshedOnce : BOOLEAN, seen : BOOLEAN, boot : BOOLEAN]

ServiceTypes ==
  /\ stored \in LC!Settings /\ (current # 0 => current \in LC!Gens)
  /\ builtFrom \in [LC!Gens -> LC!Settings] /\ loop \in [LC!Gens -> LoopPlaces]
  /\ marks \in MarkRecord /\ cooldown \in {"off", "on"}
  /\ save \in [Saves -> {"idle", "stored"}]
  /\ toldReady \in BOOLEAN /\ crossed \in BOOLEAN

\* What a probe was told is held by a latch, not by the Aggregator of the day.
ReadinessIsLatched == toldReady => marks.seen \/ marks.boot

\* The cooldown is on from the moment a forced refresh begins.
CooldownIsClaimed == forced \in 0..1 /\ (cooldown = "off" => forced = 0)

\* Until two saves cross, the one in flight wrote the settings in the store;
\* with none in flight the running Aggregator was built from them.
SettingsAreFollowed == ~crossed =>
  /\ \A s \in Saves : save[s] = "stored" =>
       stored = s /\ \A t \in Saves : save[t] = "stored" => t = s
  /\ (current # 0 /\ \A s \in Saves : save[s] = "idle") => builtFrom[current] = stored

ServiceInv == ServiceTypes /\ ReadinessIsLatched /\ CooldownIsClaimed /\ SettingsAreFollowed

LEMMA ServiceInitInv == LC!Init => ServiceInv
<1> SUFFICES ASSUME LC!Init PROVE ServiceInv
    OBVIOUS
<1>1. /\ stored = "none" /\ current = 0 /\ builtFrom = [g \in LC!Gens |-> "none"] /\ loop = [g \in LC!Gens |-> "none"]
      /\ marks = [refreshedOnce |-> FALSE, seen |-> FALSE, boot |-> FALSE] /\ cooldown = "off"
      /\ save = [s \in Saves |-> "idle"] /\ forced = 0 /\ toldReady = FALSE /\ crossed = FALSE
      BY DEF LC!Init
<1>2. /\ builtFrom \in [LC!Gens -> LC!Settings] /\ loop \in [LC!Gens -> LoopPlaces]
      /\ stored \in LC!Settings
      BY <1>1 DEF LC!Settings, LoopPlaces
<1>3. save \in [Saves -> {"idle", "stored"}] /\ \A s \in Saves : save[s] = "idle"
      BY <1>1
<1>4. marks \in MarkRecord
      BY <1>1 DEF MarkRecord
<1>5. ServiceTypes
      BY <1>1, <1>2, <1>3, <1>4 DEF ServiceTypes
<1>6. 0 \in 0..1
      OBVIOUS
<1> QED BY <1>1, <1>3, <1>5, <1>6
        DEF ServiceInv, ReadinessIsLatched, CooldownIsClaimed, SettingsAreFollowed

\* A new Aggregator is one not built before, from the settings given.
LEMMA StartedIsNew ==
  ASSUME ServiceTypes, NEW settings \in LC!Settings, LC!StartLocked(settings)
  PROVE  /\ current' \in LC!Gens
         /\ builtFrom' \in [LC!Gens -> LC!Settings] /\ loop' \in [LC!Gens -> LoopPlaces]
         /\ builtFrom'[current'] = settings
<1>1. /\ LC!CanBuild /\ current' = LC!NextGen
      /\ builtFrom' = [builtFrom EXCEPT ![LC!NextGen] = settings]
      /\ loop' = [loop EXCEPT ![LC!NextGen] = "new"]
      BY DEF LC!StartLocked
<1>2. LC!NextGen \in LC!Gens
      BY <1>1 DEF LC!CanBuild, LC!Built, LC!NextGen
<1> QED BY <1>1, <1>2 DEF ServiceTypes, LoopPlaces

LoadingStays == LC!Latched => (LC!Latched' \/ current' = 0)

\* The steps of loops, tabs and clocks: they touch neither the settings nor the latches.
LEMMA LoopsKeep ==
  ASSUME ServiceInv,
         UNCHANGED <<stored, current, builtFrom, marks, cooldown, save, forced, toldReady, crossed>>,
         loop' \in [LC!Gens -> LoopPlaces], first \subseteq first'
  PROVE  ServiceInv' /\ LoadingStays
<1>1. ServiceInv'
      BY DEF ServiceInv, ServiceTypes, ReadinessIsLatched, CooldownIsClaimed, SettingsAreFollowed
<1>2. LoadingStays
      BY DEF LoadingStays, LC!Latched
<1> QED BY <1>1, <1>2

LEMMA LoopStep ==
  ASSUME ServiceInv,
         \/ LC!GracePasses \/ LC!Touch \/ LC!ViewerLapses \/ LC!IdlePasses
         \/ \E v \in Tabs : LC!Present(v) \/ LC!Hide(v)
         \/ \E g \in LC!Gens : LC!Run(g) \/ LC!Tick(g) \/ LC!RunEnds(g) \/ LC!ForcedRefreshEnds(g)
  PROVE  ServiceInv' /\ LoadingStays
<1>0. loop \in [LC!Gens -> LoopPlaces]
      BY DEF ServiceInv, ServiceTypes
<1>1. CASE \/ LC!GracePasses \/ LC!Touch \/ LC!ViewerLapses \/ LC!IdlePasses
           \/ \E v \in Tabs : LC!Present(v) \/ LC!Hide(v)
  <2>1. UNCHANGED <<stored, current, builtFrom, marks, cooldown, save, forced, toldReady, crossed,
                    loop, first>>
        BY <1>1 DEF LC!GracePasses, LC!Touch, LC!ViewerLapses, LC!IdlePasses, LC!Present, LC!Hide,
                    LC!service, LC!history
  <2> QED BY <1>0, <2>1, LoopsKeep
<1>2. ASSUME NEW g \in LC!Gens, LC!Run(g) \/ LC!Tick(g) \/ LC!RunEnds(g)
      PROVE  ServiceInv' /\ LoadingStays
  <2>1. UNCHANGED <<stored, current, builtFrom, marks, cooldown, save, forced, toldReady, crossed>>
        BY <1>2 DEF LC!Run, LC!RunBegins, LC!RefreshEnds, LC!Woken, LC!Tick, LC!RunEnds,
                    LC!service, LC!history
  <2>2. \E place \in LoopPlaces : loop' = [loop EXCEPT ![g] = place]
        BY <1>2 DEF LC!Run, LC!RunBegins, LC!RefreshEnds, LC!Woken, LC!Tick, LC!RunEnds, LoopPlaces
  <2>3. loop' \in [LC!Gens -> LoopPlaces]
        BY <1>0, <2>2
  <2>4. first \subseteq first'
        BY <1>2 DEF LC!Run, LC!RunBegins, LC!RefreshEnds, LC!Woken, LC!Tick, LC!RunEnds
  <2> QED BY <2>1, <2>3, <2>4, LoopsKeep
<1>3. ASSUME NEW g \in LC!Gens, LC!ForcedRefreshEnds(g)
      PROVE  ServiceInv' /\ LoadingStays
  <2>1. /\ UNCHANGED <<stored, current, builtFrom, marks, cooldown, save, forced, toldReady, crossed,
                       loop>>
        /\ first \subseteq first'
        BY <1>3 DEF LC!ForcedRefreshEnds, LC!service, LC!history
  <2> QED BY <1>0, <2>1, LoopsKeep
<1> QED BY <1>1, <1>2, <1>3

\* A start: the new Aggregator takes over the latch of the one it replaces.
LEMMA StartsKeep ==
  ASSUME ServiceInv, LC!StartAtBoot \/ LC!EnsureIfAbsent \/ \E s \in Saves : LC!Ensure(s)
  PROVE  ServiceInv' /\ LoadingStays
<1>0. /\ ServiceTypes /\ marks \in MarkRecord /\ save \in [Saves -> {"idle", "stored"}]
      /\ stored \in LC!Settings
      BY DEF ServiceInv, ServiceTypes
<1>1. CASE LC!StartAtBoot \/ LC!EnsureIfAbsent
  <2>1. /\ current = 0 /\ LC!StartLocked(stored)
        /\ UNCHANGED <<stored, cooldown, save, forced, toldReady, crossed>>
        /\ marks' = marks \/ marks' = [marks EXCEPT !.boot = TRUE]
        BY <1>1 DEF LC!StartAtBoot, LC!EnsureIfAbsent, LC!history
  <2>2. /\ current' \in LC!Gens /\ builtFrom' \in [LC!Gens -> LC!Settings]
        /\ loop' \in [LC!Gens -> LoopPlaces] /\ builtFrom'[current'] = stored
        BY <1>0, <2>1, StartedIsNew
  <2>3. /\ marks' \in MarkRecord /\ marks'.refreshedOnce = marks.refreshedOnce
        /\ marks'.seen = marks.seen /\ (marks.boot => marks'.boot)
        BY <1>0, <2>1 DEF MarkRecord
  <2>4. ServiceTypes'
        BY <1>0, <2>1, <2>2, <2>3 DEF ServiceTypes
  <2>5. ReadinessIsLatched' /\ CooldownIsClaimed'
        BY <2>1, <2>3 DEF ServiceInv, ReadinessIsLatched, CooldownIsClaimed
  <2>6. SettingsAreFollowed'
        BY <2>1, <2>2 DEF ServiceInv, SettingsAreFollowed
  <2>7. LoadingStays
        BY <2>1, <2>3 DEF LoadingStays, LC!Latched
  <2> QED BY <2>4, <2>5, <2>6, <2>7 DEF ServiceInv
<1>2. ASSUME NEW s \in Saves, LC!Ensure(s) PROVE ServiceInv' /\ LoadingStays
  <2>1. /\ save[s] = "stored" /\ LC!StartLocked(s) /\ save' = [save EXCEPT ![s] = "idle"]
        /\ UNCHANGED <<stored, cooldown, first, forced, toldReady, crossed>>
        /\ marks' = IF current # 0 THEN LC!LatchFirstRefresh ELSE marks
        BY <1>2 DEF LC!Ensure, LC!history
  <2>2. s \in LC!Settings
        BY DEF LC!Settings
  <2>3. /\ current' \in LC!Gens /\ builtFrom' \in [LC!Gens -> LC!Settings]
        /\ loop' \in [LC!Gens -> LoopPlaces] /\ builtFrom'[current'] = s
        BY <1>0, <2>1, <2>2, StartedIsNew
  <2>4. LC!Latched \in BOOLEAN
        BY <1>0 DEF LC!Latched, MarkRecord
  <2>5. /\ marks' \in MarkRecord /\ marks'.seen = marks.seen /\ marks'.boot = marks.boot
        /\ LC!Latched => marks'.refreshedOnce
    <3>1. CASE current # 0
      <4>1. marks' = [marks EXCEPT !.refreshedOnce = LC!Latched]
            BY <2>1, <3>1 DEF LC!LatchFirstRefresh
      <4> QED BY <1>0, <2>4, <4>1 DEF MarkRecord
    <3>2. CASE current = 0
          BY <1>0, <2>1, <3>2 DEF LC!Latched
    <3> QED BY <3>1, <3>2
  <2>6. /\ save' \in [Saves -> {"idle", "stored"}] /\ save'[s] = "idle"
        /\ \A t \in Saves \ {s} : save'[t] = save[t]
        BY <1>0, <2>1
  <2>7. ServiceTypes'
        BY <1>0, <2>1, <2>3, <2>5, <2>6 DEF ServiceTypes
  <2>8. ReadinessIsLatched' /\ CooldownIsClaimed'
        BY <2>1, <2>5 DEF ServiceInv, ReadinessIsLatched, CooldownIsClaimed
  <2>9. SettingsAreFollowed'
    <3>1. SUFFICES ASSUME ~crossed' PROVE stored = s /\ \A t \in Saves : save'[t] = "idle"
          BY <2>1, <2>3 DEF SettingsAreFollowed
    <3>2. stored = s /\ \A t \in Saves : save[t] = "stored" => t = s
          BY <2>1, <3>1 DEF ServiceInv, SettingsAreFollowed
    <3>3. \A t \in Saves : save'[t] = "idle"
          BY <1>0, <2>6, <3>2
    <3> QED BY <3>2, <3>3
  <2>10. LoadingStays
        BY <2>5 DEF LoadingStays, LC!Latched
  <2> QED BY <2>7, <2>8, <2>9, <2>10 DEF ServiceInv
<1> QED BY <1>1, <1>2

\* The other steps of the Service.
LEMMA ServiceStepsKeep ==
  ASSUME ServiceInv,
         \/ LC!FirstRefreshDone \/ LC!FirstRefreshComplete \/ LC!Reset \/ LC!CooldownPasses
         \/ LC!ForceRefresh \/ \E s \in Saves : LC!SaveSettings(s)
  PROVE  ServiceInv' /\ LoadingStays
<1>0. /\ ServiceTypes /\ marks \in MarkRecord /\ save \in [Saves -> {"idle", "stored"}]
      BY DEF ServiceInv, ServiceTypes
<1>l. /\ LC!LatchFirstRefresh \in MarkRecord /\ LC!LatchFirstRefresh.refreshedOnce = LC!Latched
      /\ LC!LatchFirstRefresh.seen = marks.seen /\ LC!LatchFirstRefresh.boot = marks.boot
  <2>1. LC!Latched \in BOOLEAN
        BY <1>0 DEF LC!Latched, MarkRecord
  <2> QED BY <1>0, <2>1 DEF LC!LatchFirstRefresh, MarkRecord
<1>1. CASE LC!FirstRefreshDone
  <2>1. /\ marks' = LC!LatchFirstRefresh
        /\ UNCHANGED <<stored, current, builtFrom, cooldown, loop, save, forced, toldReady, crossed>>
        BY <1>1 DEF LC!FirstRefreshDone, LC!history
  <2>2. ServiceTypes'
        BY <1>0, <1>l, <2>1 DEF ServiceTypes
  <2>3. ReadinessIsLatched' /\ CooldownIsClaimed' /\ SettingsAreFollowed'
        BY <1>l, <2>1 DEF ServiceInv, ReadinessIsLatched, CooldownIsClaimed, SettingsAreFollowed
  <2>4. LC!Latched => marks'.refreshedOnce
        BY <1>l, <2>1
  <2>5. LoadingStays
        BY <2>4 DEF LoadingStays, LC!Latched
  <2> QED BY <2>2, <2>3, <2>5 DEF ServiceInv
<1>2. CASE LC!FirstRefreshComplete
  <2>1. /\ marks' = IF LC!Ready /\ current # 0 /\ ~marks.boot THEN [marks EXCEPT !.seen = TRUE] ELSE marks
        /\ toldReady' = (toldReady \/ (LC!Ready /\ current # 0))
        /\ UNCHANGED <<stored, current, builtFrom, cooldown, loop, first, save, forced, crossed>>
        BY <1>2 DEF LC!FirstRefreshComplete
  <2>2. /\ marks' \in MarkRecord /\ marks'.refreshedOnce = marks.refreshedOnce
        /\ marks'.boot = marks.boot /\ (marks.seen => marks'.seen)
        /\ (LC!Ready /\ current # 0 /\ ~marks.boot) => marks'.seen
        BY <1>0, <2>1 DEF MarkRecord
  <2>3. toldReady' \in BOOLEAN
        BY <2>1
  <2>4. ServiceTypes'
        BY <1>0, <2>1, <2>2, <2>3 DEF ServiceTypes
  <2>5. ReadinessIsLatched'
        BY <2>1, <2>2, Zenon DEF ServiceInv, ReadinessIsLatched
  <2>6. CooldownIsClaimed' /\ SettingsAreFollowed'
        BY <2>1 DEF ServiceInv, CooldownIsClaimed, SettingsAreFollowed
  <2>7. LoadingStays
        BY <2>1, <2>2 DEF LoadingStays, LC!Latched
  <2> QED BY <2>4, <2>5, <2>6, <2>7 DEF ServiceInv
<1>3. CASE LC!Reset
  <2>1. /\ \A s \in Saves : save[s] = "idle"
        /\ current' = 0 /\ marks' = [refreshedOnce |-> FALSE, seen |-> FALSE, boot |-> FALSE]
        /\ cooldown' = "off" /\ stored' = "none" /\ forced' = 0 /\ toldReady' = FALSE
        /\ crossed' = FALSE /\ UNCHANGED <<builtFrom, loop, save>>
        BY <1>3 DEF LC!Reset
  <2>2. marks' \in MarkRecord /\ stored' \in LC!Settings
        BY <2>1 DEF MarkRecord, LC!Settings
  <2>3. ServiceTypes'
        BY <1>0, <2>1, <2>2 DEF ServiceTypes
  <2>4. 0 \in 0..1
        OBVIOUS
  <2>5. ReadinessIsLatched' /\ CooldownIsClaimed' /\ SettingsAreFollowed'
        BY <2>1, <2>4 DEF ReadinessIsLatched, CooldownIsClaimed, SettingsAreFollowed
  <2> QED BY <2>1, <2>3, <2>5 DEF ServiceInv, LoadingStays
<1>4. CASE LC!CooldownPasses
  <2>1. /\ cooldown' = "off" /\ forced' = 0
        /\ UNCHANGED <<stored, current, builtFrom, marks, loop, first, save, toldReady, crossed>>
        BY <1>4 DEF LC!CooldownPasses
  <2>2. ServiceTypes'
        BY <1>0, <2>1 DEF ServiceTypes
  <2>3. 0 \in 0..1
        OBVIOUS
  <2>4. ReadinessIsLatched' /\ CooldownIsClaimed' /\ SettingsAreFollowed'
        BY <2>1, <2>3 DEF ServiceInv, ReadinessIsLatched, CooldownIsClaimed, SettingsAreFollowed
  <2>5. LoadingStays
        BY <2>1 DEF LoadingStays, LC!Latched
  <2> QED BY <2>2, <2>4, <2>5 DEF ServiceInv
<1>5. CASE LC!ForceRefresh
  <2>1. /\ cooldown = "off" /\ marks' = LC!LatchFirstRefresh /\ cooldown' = "on" /\ forced' = forced + 1
        /\ UNCHANGED <<stored, current, builtFrom, loop, first, save, toldReady, crossed>>
        BY <1>5 DEF LC!ForceRefresh
  <2>2. ServiceTypes'
        BY <1>0, <1>l, <2>1 DEF ServiceTypes
  <2>3. CooldownIsClaimed'
    <3>1. forced' = 0 + 1
          BY <2>1 DEF ServiceInv, CooldownIsClaimed
    <3>2. forced' \in 0..1
          BY <3>1
    <3> QED BY <2>1, <3>2 DEF CooldownIsClaimed
  <2>4. ReadinessIsLatched' /\ SettingsAreFollowed'
        BY <1>l, <2>1 DEF ServiceInv, ReadinessIsLatched, SettingsAreFollowed
  <2>5. LC!Latched => marks'.refreshedOnce
        BY <1>l, <2>1
  <2>6. LoadingStays
        BY <2>5 DEF LoadingStays, LC!Latched
  <2> QED BY <2>2, <2>3, <2>4, <2>6 DEF ServiceInv
<1>6. ASSUME NEW s \in Saves, LC!SaveSettings(s) PROVE ServiceInv' /\ LoadingStays
  <2>1. /\ save[s] = "idle" /\ save' = [save EXCEPT ![s] = "stored"] /\ stored' = s
        /\ crossed' = (crossed \/ \E t \in Saves : save[t] = "stored")
        /\ UNCHANGED <<current, builtFrom, marks, cooldown, loop, first, forced, toldReady>>
        BY <1>6 DEF LC!SaveSettings
  <2>2. /\ save' \in [Saves -> {"idle", "stored"}] /\ save'[s] = "stored"
        /\ \A t \in Saves \ {s} : save'[t] = save[t]
        BY <1>0, <2>1
  <2>3. stored' \in LC!Settings /\ crossed' \in BOOLEAN
        BY <2>1 DEF LC!Settings
  <2>4. ServiceTypes'
        BY <1>0, <2>1, <2>2, <2>3 DEF ServiceTypes
  <2>5. ReadinessIsLatched' /\ CooldownIsClaimed'
        BY <2>1 DEF ServiceInv, ReadinessIsLatched, CooldownIsClaimed
  <2>6. SettingsAreFollowed'
    <3>1. SUFFICES ASSUME ~crossed'
                   PROVE  \A t \in Saves : save'[t] = "stored" => t = s
          BY <2>1, <2>2 DEF SettingsAreFollowed
    <3>2. \A t \in Saves : save[t] # "stored"
          BY <2>1, <3>1
    <3> QED BY <2>2, <3>2
  <2>7. LoadingStays
        BY <2>1 DEF LoadingStays, LC!Latched
  <2> QED BY <2>4, <2>5, <2>6, <2>7 DEF ServiceInv
<1> QED BY <1>1, <1>2, <1>3, <1>4, <1>5, <1>6

LEMMA ServiceStep == ServiceInv /\ LC!Next => ServiceInv' /\ LoadingStays
BY LoopStep, StartsKeep, ServiceStepsKeep DEF LC!Next

LEMMA ServiceStutters ==
  ASSUME ServiceInv, UNCHANGED serviceVars
  PROVE  ServiceInv' /\ UNCHANGED LC!vars
<1>1. UNCHANGED <<stored, current, builtFrom, loop, first, marks, grace, cooldown, save, forcing,
                  viewers, lapsed, rested, wake, forced, toldReady, crossed, asked, eaten>>
      BY DEF serviceVars
<1>2. ServiceTypes' /\ ReadinessIsLatched' /\ CooldownIsClaimed' /\ SettingsAreFollowed'
      BY <1>1 DEF ServiceInv, ServiceTypes, ReadinessIsLatched, CooldownIsClaimed, SettingsAreFollowed
<1>3. UNCHANGED LC!vars
      BY <1>1 DEF LC!vars, LC!service, LC!activity, LC!history
<1> QED BY <1>2, <1>3 DEF ServiceInv

\* Every step of the run, of whichever part, keeps the Service's invariant and
\* leaves a latched Service latched.
LEMMA ServiceRunStep ==
  ServiceInv /\ [MCNext]_<<part, vars, serviceVars>>
    => ServiceInv' /\ [LC!Latched => (LC!Latched' \/ current' = 0)]_(LC!vars)
<1> SUFFICES ASSUME ServiceInv, [MCNext]_<<part, vars, serviceVars>>
             PROVE  ServiceInv' /\ [LC!Latched => (LC!Latched' \/ current' = 0)]_(LC!vars)
    OBVIOUS
<1>1. LC!Next \/ UNCHANGED serviceVars
      BY DEF MCNext
<1>2. CASE LC!Next
      BY <1>2, ServiceStep DEF LoadingStays
<1>3. CASE UNCHANGED serviceVars
      BY <1>3, ServiceStutters
<1> QED BY <1>1, <1>2, <1>3

\* The invariant of the Service while settings saves, visitors and forced
\* refreshes meet the Aggregators it replaces (service.go, activity.go).
THEOREM ServiceInvariant == MCSpec => []ServiceInv
<1>1. MCInit => ServiceInv
      BY ServiceInitInv DEF MCInit
<1>2. ServiceInv /\ [MCNext]_<<part, vars, serviceVars>> => ServiceInv'
      BY ServiceRunStep
<1> QED BY <1>1, <1>2, PTL DEF MCSpec

\* For any number of saves, generations, tabs and visitors: the loading page
\* does not return, readiness once told stays, the Aggregator runs on the
\* newest settings unless two saves crossed, and one cooldown lets one forced
\* refresh begin (service.go).
THEOREM ServiceHoldsHolds == MCSpec => ServiceHolds
<1>1. ServiceInv => LC!ReadyForGood /\ LC!OnlyCrossedSavesRunOldSettings
                                    /\ LC!OneForcedRefreshPerCooldown
  <2> SUFFICES ASSUME ServiceInv
               PROVE  LC!ReadyForGood /\ LC!OnlyCrossedSavesRunOldSettings
                                      /\ LC!OneForcedRefreshPerCooldown
      OBVIOUS
  <2>1. LC!ReadyForGood
        BY DEF ServiceInv, ReadinessIsLatched, LC!ReadyForGood, LC!Ready
  <2>2. LC!OnlyCrossedSavesRunOldSettings
        BY DEF ServiceInv, ServiceTypes, SettingsAreFollowed, LC!OnlyCrossedSavesRunOldSettings
  <2>3. LC!OneForcedRefreshPerCooldown
        BY DEF ServiceInv, CooldownIsClaimed, LC!OneForcedRefreshPerCooldown
  <2> QED BY <2>1, <2>2, <2>3
<1>2. ServiceInv /\ [MCNext]_<<part, vars, serviceVars>>
        => [LC!Latched => (LC!Latched' \/ current' = 0)]_(LC!vars)
      BY ServiceRunStep
<1> QED BY <1>1, <1>2, ServiceInvariant, PTL DEF MCSpec, ServiceHolds, LC!LoadingNeverReturns
=============================================================================
