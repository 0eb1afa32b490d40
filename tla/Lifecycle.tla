------------------------------ MODULE Lifecycle ------------------------------
(***************************************************************************)
(* The Service that owns the running Aggregator (dashboard/service.go), the*)
(* Activity that says whether anyone is looking (activity.go), the refresh *)
(* loop of each Aggregator (Run in aggregator.go) and the request handlers *)
(* that build, replace and force them (api/settings.go, api/dashboard.go,  *)
(* api/presence.go, api/health.go).                                        *)
(*                                                                         *)
(* Every settings save builds a new Aggregator, a generation; the loop of  *)
(* the one before is cancelled and goes on until it notices.  Times are    *)
(* kept as what they decide: the grace is running or over, the cooldown is *)
(* on or off, the idle period has passed or not.                           *)
(***************************************************************************)
EXTENDS Naturals, Sequences

CONSTANTS
  Saves,        \* settings saves in flight at one time, by name
  Tabs,         \* browser tabs that report their visibility
  MaxViewers,   \* dashboard.MaxViewers, cut down
  MaxGen        \* bound: Aggregators built

VARIABLES
  stored,     \* the settings in the store: who saved them last, or "none"
  current,    \* Service.current: the generation, 0 for nil
  builtFrom,  \* the settings each generation's sources were built from
  loop,       \* where each generation's Run is
  first,      \* generations whose first refresh has finished
  marks,      \* Service.refreshedOnce, firstRefreshSeen, bootStarted
  grace,      \* time since Service.firstStarted against firstRefreshGrace
  cooldown,   \* time since Service.lastForced against forceRefreshCooldown
  save,       \* where each settings save is
  forcing,    \* generations a forced refresh is running in (more forcings join it)
  viewers,    \* Activity.viewers heard from within PresenceTTL, the longest unheard first
  lapsed,     \* the others of Activity.viewers, not swept yet
  rested,     \* idleAfter has passed since Activity.lastUsed
  wake,       \* a token lies in Activity.wake
  forced,     \* history: forced refreshes begun in this cooldown
  toldReady,  \* history: a probe was told ready while an Aggregator ran
  crossed,    \* history: two saves were in flight together
  asked,      \* history: someone came back and no refresh has begun since
  eaten       \* history: a cancelled loop took the wake

service == <<stored, current, builtFrom, marks, grace, cooldown>>
activity == <<viewers, lapsed, rested, wake>>
history == <<forced, toldReady, crossed, asked, eaten>>
vars == <<service, loop, first, save, forcing, activity, history>>

Gens == 1..MaxGen
Settings == {"none"} \cup Saves

TypeOK ==
  /\ stored \in Settings /\ current \in 0..MaxGen
  /\ builtFrom \in [Gens -> Settings]
  /\ loop \in [Gens -> {"none", "new", "refreshing", "waiting", "ended"}]
  /\ first \subseteq Gens
  /\ marks \in [refreshedOnce : BOOLEAN, seen : BOOLEAN, boot : BOOLEAN]
  /\ grace \in {"unset", "running", "over"} /\ cooldown \in {"off", "on"}
  /\ save \in [Saves -> {"idle", "stored"}]
  /\ forcing \subseteq Gens
  /\ viewers \in Seq(Tabs) /\ Len(viewers) <= MaxViewers /\ lapsed \subseteq Tabs
  /\ rested \in BOOLEAN /\ wake \in BOOLEAN
  /\ forced \in Nat
  /\ {toldReady, crossed, asked, eaten} \subseteq BOOLEAN

Init ==
  /\ stored = "none" /\ current = 0
  /\ builtFrom = [g \in Gens |-> "none"] /\ loop = [g \in Gens |-> "none"]
  /\ first = {} /\ marks = [refreshedOnce |-> FALSE, seen |-> FALSE, boot |-> FALSE]
  /\ grace = "unset" /\ cooldown = "off"
  /\ save = [s \in Saves |-> "idle"] /\ forcing = {}
  /\ viewers = <<>> /\ lapsed = {} /\ rested = FALSE /\ wake = FALSE
  /\ forced = 0 /\ toldReady = FALSE /\ crossed = FALSE /\ asked = FALSE /\ eaten = FALSE

-----------------------------------------------------------------------------
(* The Service: building and replacing the Aggregator.                     *)

Built == {g \in Gens : loop[g] # "none"}
CanBuild == Built # Gens
NextGen == CHOOSE g \in Gens : g \notin Built     \* a generation's number is only its name

Latched == marks.refreshedOnce \/ (current # 0 /\ current \in first)
LatchFirstRefresh == [marks EXCEPT !.refreshedOnce = Latched]

\* startLocked: the new loop is launched; cancelling the old one is being no longer current.
StartLocked(settings) ==
  /\ CanBuild
  /\ current' = NextGen
  /\ builtFrom' = [builtFrom EXCEPT ![NextGen] = settings]
  /\ loop' = [loop EXCEPT ![NextGen] = "new"]
  /\ grace' = IF grace = "unset" THEN "running" ELSE grace

\* StartAtBoot: the saved settings, unless a request was quicker.
StartAtBoot ==
  /\ current = 0 /\ stored # "none" /\ ~marks.boot
  /\ StartLocked(stored)
  /\ marks' = [marks EXCEPT !.boot = TRUE]
  /\ UNCHANGED <<stored, cooldown, first, save, forcing, activity, history>>

\* warmUpAggregator and EnsureIfAbsent: any request of a signed-in page.
EnsureIfAbsent ==
  /\ current = 0 /\ stored # "none"
  /\ StartLocked(stored)
  /\ UNCHANGED <<stored, marks, cooldown, first, save, forcing, activity, history>>

\* handleSettingsPut up to SettingsStore.Set.
SaveSettings(s) ==
  /\ save[s] = "idle"
  /\ save' = [save EXCEPT ![s] = "stored"]
  /\ stored' = s
  /\ crossed' = (crossed \/ \E t \in Saves : save[t] = "stored")
  /\ UNCHANGED <<current, builtFrom, marks, grace, cooldown, loop, first, forcing, activity,
                 forced, toldReady, asked, eaten>>

\* Slip: a replaced Aggregator starts without its predecessor's latch.
Ensure_Unlatched(s) ==
  /\ save[s] = "stored"
  /\ StartLocked(s)
  /\ save' = [save EXCEPT ![s] = "idle"]
  /\ UNCHANGED <<stored, marks, cooldown, first, forcing, activity, history>>

\* handleSettingsPut's Ensure, with the sources of the settings it saved.
Ensure(s) ==
  /\ save[s] = "stored"
  /\ marks' = IF current # 0 THEN LatchFirstRefresh ELSE marks
  /\ StartLocked(s)
  /\ save' = [save EXCEPT ![s] = "idle"]
  /\ UNCHANGED <<stored, cooldown, first, forcing, activity, history>>

\* Service.FirstRefreshDone, asked with every dashboard response.
FirstRefreshDone ==
  /\ marks' = LatchFirstRefresh
  /\ UNCHANGED <<stored, current, builtFrom, grace, cooldown, loop, first, save, forcing, activity,
                 history>>

Ready == marks.seen \/ current = 0 \/ marks.boot \/ current \in first \/ grace = "over"

\* Service.FirstRefreshComplete, asked by /readyz.
FirstRefreshComplete ==
  /\ marks' = IF Ready /\ current # 0 /\ ~marks.boot THEN [marks EXCEPT !.seen = TRUE] ELSE marks
  /\ toldReady' = (toldReady \/ (Ready /\ current # 0))
  /\ UNCHANGED <<stored, current, builtFrom, grace, cooldown, loop, first, save, forcing, activity,
                 forced, crossed, asked, eaten>>

\* The e2e reset: Stop, Reset and Activity.Reset.
Reset ==
  /\ \A s \in Saves : save[s] = "idle"
  /\ forcing = {}
  /\ current' = 0 /\ marks' = [refreshedOnce |-> FALSE, seen |-> FALSE, boot |-> FALSE]
  /\ grace' = "unset" /\ cooldown' = "off" /\ stored' = "none"
  /\ viewers' = <<>> /\ lapsed' = {} /\ rested' = FALSE /\ wake' = FALSE
  /\ forced' = 0 /\ toldReady' = FALSE /\ asked' = FALSE /\ crossed' = FALSE
  /\ UNCHANGED <<builtFrom, loop, first, save, forcing, eaten>>

GracePasses ==
  /\ grace = "running" /\ grace' = "over"
  /\ UNCHANGED <<stored, current, builtFrom, marks, cooldown, loop, first, save, forcing, activity,
                 history>>

-----------------------------------------------------------------------------
(* ForceRefresh.                                                           *)

\* A refresh of generation g begins: whoever came back before it is answered.
Answered(g) == asked' = (asked /\ g # current)

\* Slip: the cooldown is claimed when the refresh has ended.
ForceRefresh_ClaimsAfter ==
  /\ current # 0 /\ Latched /\ cooldown = "off"
  /\ marks' = LatchFirstRefresh
  /\ forced' = forced + 1
  /\ forcing' = forcing \cup {current}
  /\ Answered(current)
  /\ UNCHANGED <<cooldown, stored, current, builtFrom, grace, loop, first, save, activity, toldReady, crossed, eaten>>

\* The cooldown is claimed under the lock, the refresh runs outside it.
ForceRefresh ==
  /\ current # 0 /\ Latched /\ cooldown = "off"
  /\ marks' = LatchFirstRefresh
  /\ cooldown' = "on" /\ forced' = forced + 1
  /\ forcing' = forcing \cup {current}
  /\ Answered(current)
  /\ UNCHANGED <<stored, current, builtFrom, grace, loop, first, save, activity, toldReady, crossed, eaten>>

ForcedRefreshEnds(g) ==
  /\ g \in forcing
  /\ first' = first \cup {g}
  /\ forcing' = forcing \ {g}
  /\ UNCHANGED <<service, loop, save, activity, history>>

CooldownPasses ==
  /\ cooldown = "on" /\ cooldown' = "off" /\ forced' = 0
  /\ UNCHANGED <<stored, current, builtFrom, marks, grace, loop, first, save, forcing, activity,
                 toldReady, crossed, asked, eaten>>

-----------------------------------------------------------------------------
(* Activity.                                                               *)

Idle == viewers = <<>> /\ rested
Used == /\ rested' = FALSE
        /\ wake' = (wake \/ Idle)
        /\ asked' = (asked \/ (Idle /\ current # 0))
        /\ eaten' = (eaten /\ ~(Idle /\ current # 0))

\* Touch: a request that counts as use, after it was served.
Touch ==
  /\ Used /\ lapsed' = IF viewers = <<>> THEN {} ELSE lapsed
  /\ UNCHANGED <<service, loop, first, save, forcing, viewers, forced, toldReady, crossed>>

\* Present(viewer, true): a heartbeat, which may push out the oldest tab.
Present(v) ==
  /\ LET others == SelectSeq(viewers, LAMBDA w : w # v)
         known == others # viewers
     IN viewers' = Append(IF ~known /\ Len(viewers) >= MaxViewers THEN Tail(others) ELSE others, v)
  /\ Used /\ lapsed' = {}
  /\ UNCHANGED <<service, loop, first, save, forcing, forced, toldReady, crossed>>

\* Present(viewer, false): hiding a known tab counts as use and never wakes,
\* though the tab lapsed long ago and the map has just not been swept since.
Hide(v) ==
  /\ v \in lapsed \/ \E i \in 1..Len(viewers) : viewers[i] = v
  /\ viewers' = SelectSeq(viewers, LAMBDA w : w # v) /\ lapsed' = lapsed \ {v}
  /\ rested' = FALSE
  /\ UNCHANGED <<service, loop, first, save, forcing, wake, history>>

\* PresenceTTL without a heartbeat from the longest unheard tab.  idleLocked
\* sweeps it when the loop next asks, which may be at once.
ViewerLapses ==
  /\ viewers # <<>>
  /\ viewers' = Tail(viewers) /\ lapsed' \in {lapsed, lapsed \cup {Head(viewers)}}
  /\ UNCHANGED <<service, loop, first, save, forcing, rested, wake, history>>

\* idleAfter (15 minutes) passes: longer than PresenceTTL, so no tab is held by then.
IdlePasses ==
  /\ viewers = <<>> /\ ~rested /\ rested' = TRUE
  /\ UNCHANGED <<service, loop, first, save, forcing, viewers, lapsed, wake, history>>

-----------------------------------------------------------------------------
(* Run, the refresh loop of one generation.                                *)

\* drainWake, then the first refresh.
RunBegins(g) ==
  /\ loop[g] = "new"
  /\ wake' = FALSE
  /\ loop' = [loop EXCEPT ![g] = "refreshing"]
  /\ Answered(g)
  /\ eaten' = (eaten \/ (wake /\ g # current))
  /\ UNCHANGED <<service, first, save, forcing, viewers, lapsed, rested, forced, toldReady, crossed>>

\* Slip: the wake that came during the refresh is thrown away.
RefreshEnds_Drains(g) ==
  /\ loop[g] = "refreshing"
  /\ loop' = [loop EXCEPT ![g] = "waiting"]
  /\ first' = first \cup {g} /\ wake' = FALSE
  /\ UNCHANGED <<service, save, forcing, viewers, lapsed, rested, history>>

\* The refresh ends, well or badly, and the timer is set.
RefreshEnds(g) ==
  /\ loop[g] = "refreshing"
  /\ loop' = [loop EXCEPT ![g] = "waiting"]
  /\ first' = first \cup {g}
  /\ UNCHANGED <<service, save, forcing, activity, history>>

\* The timer fires.  Whether automationPending finds a reason to refresh a board
\* nobody watches is left open: if not, the timer is just set again.
Tick(g) ==
  /\ loop[g] = "waiting"
  /\ loop' = [loop EXCEPT ![g] = "refreshing"]
  /\ Answered(g)
  /\ UNCHANGED <<service, first, save, forcing, activity, forced, toldReady, crossed, eaten>>

Woken(g) ==
  /\ loop[g] = "waiting" /\ wake
  /\ wake' = FALSE
  /\ loop' = [loop EXCEPT ![g] = "refreshing"]
  /\ Answered(g)
  /\ eaten' = (eaten \/ g # current)
  /\ UNCHANGED <<service, first, save, forcing, viewers, lapsed, rested, forced, toldReady, crossed>>

\* ctx.Done of a generation that was replaced or stopped.
RunEnds(g) ==
  /\ loop[g] = "waiting" /\ g # current
  /\ loop' = [loop EXCEPT ![g] = "ended"]
  /\ UNCHANGED <<service, first, save, forcing, activity, history>>

Run(g) == RunBegins(g) \/ RefreshEnds(g) \/ Woken(g)

Next ==
  \/ StartAtBoot \/ EnsureIfAbsent \/ FirstRefreshDone \/ FirstRefreshComplete \/ Reset
  \/ GracePasses \/ CooldownPasses \/ Touch \/ ViewerLapses \/ IdlePasses
  \/ \E s \in Saves : SaveSettings(s) \/ Ensure(s)
  \/ ForceRefresh
  \/ \E v \in Tabs : Present(v) \/ Hide(v)
  \/ \E g \in Gens : Run(g) \/ Tick(g) \/ RunEnds(g) \/ ForcedRefreshEnds(g)

\* Go runs a launched goroutine, a fetch has a deadline, a ready channel is read.
Fairness == \A g \in Gens : WF_vars(Run(g))

Spec == Init /\ [][Next]_vars /\ Fairness

-----------------------------------------------------------------------------
\* Replacing the Aggregator never brings the loading page back: once
\* FirstRefreshDone would answer yes it goes on doing so until the e2e reset.
LoadingNeverReturns == [][Latched => (Latched' \/ current' = 0)]_vars

\* A deployment told ready while an Aggregator runs is never told otherwise
\* by a later replacement, whatever the new Aggregator's first refresh does.
ReadyForGood == toldReady => Ready

\* However many clicks race each other and the settings saves that replace
\* the Aggregator, one cooldown lets one forced refresh begin.
OneForcedRefreshPerCooldown == forced <= 1

\* With no save under way the running Aggregator uses the stored settings,
\* unless two saves overlapped and their Ensures came in the other order.
OnlyCrossedSavesRunOldSettings ==
  (current # 0 /\ \A s \in Saves : save[s] = "idle") => (builtFrom[current] = stored \/ crossed)

\* Someone who comes back to an unwatched board gets a refresh begun after
\* they came, unless the loop of a replaced Aggregator took their wake.
ReturnIsAnswered == asked ~> (~asked \/ eaten)
=============================================================================
