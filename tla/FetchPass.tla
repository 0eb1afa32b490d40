------------------------------ MODULE FetchPass ------------------------------
(***************************************************************************)
(* One full refresh's pass over a forge: which deadline it waits out, the  *)
(* fetch that may outlive it, and the stamps by which an incremental       *)
(* refresh skips a repo the forge's probe finds unchanged                  *)
(* (internal/dashboard/aggregator.go, fetchSources to joinPass and         *)
(* refreshOnce; internal/dashboard/incremental.go;                         *)
(* internal/github/incremental.go and Fetch in internal/github/client.go). *)
(*                                                                         *)
(* One source is modelled.  The coalescer in front of a refresh is taken   *)
(* at its word (see Coalescer): a click is served by a run that began      *)
(* after it.  A repo's rows and its probe stamp are the same version       *)
(* number; what a stamp cannot see is outside this module.                 *)
(***************************************************************************)
EXTENDS Naturals

CONSTANTS
  Repos,
  Users,          \* people who press Refresh now
  FullPassEvery,  \* fullPassEvery
  MaxVersion      \* bound: changes of one repo in a behaviour

ASSUME FetchAssumption == FullPassEvery \in Nat \ {0} /\ MaxVersion \in Nat \ {0}

VARIABLES
  forge,     \* external: each repo's version
  board,     \* each repo's version in the snapshot, 0 before the first read
  stamps,    \* c.stamps: the probed version of each repo, 0 without one
  passes,    \* a.passes, modulo FullPassEvery
  pc,        \* where the refresh stands
  led,       \* whose context it runs under: "background" or "user"
  incr,      \* that context is marked incremental
  pass,      \* a.pass: visible to joinPass, joined by a click, short deadline armed
  fetching,  \* a.fetching
  fetch,     \* the fetch goroutine: its phase, its plan and what it read
  heard,     \* a refresh still listens to that fetch
  answer,    \* what the pass collected
  user,      \* each person's place in Refresh
  lost       \* history: stamps were recorded for an answer nobody heard

vars == <<forge, board, stamps, passes, pc, led, incr, pass, fetching, fetch,
          heard, answer, user, lost>>

passVars == <<passes, pc, led, incr, pass, answer, user>>
fetchVars == <<fetching, fetch, heard, stamps, lost>>

Versions == 0..MaxVersion
NoStamps == [r \in Repos |-> 0]
NoPass == [visible |-> FALSE, user |-> FALSE, short |-> FALSE]
NoFetch == [phase |-> "none", incr |-> FALSE, plan |-> FALSE,
            probed |-> NoStamps, skipped |-> {}, whole |-> {}, rows |-> NoStamps]
NoAnswer == [reachable |-> FALSE, asked |-> FALSE, kept |-> Repos, rows |-> NoStamps]

TypeOK ==
  /\ forge \in [Repos -> Versions]
  /\ board \in [Repos -> Versions]
  /\ stamps \in [Repos -> Versions]
  /\ passes \in 0..(FullPassEvery - 1)
  /\ pc \in {"idle", "decided", "visible", "armed", "wait", "collected"}
  /\ led \in {"background", "user"}
  /\ incr \in BOOLEAN
  /\ pass \in [visible : BOOLEAN, user : BOOLEAN, short : BOOLEAN]
  /\ fetching \in BOOLEAN
  /\ fetch \in [phase : {"none", "probe", "read", "record", "recorded"}, incr : BOOLEAN,
                plan : BOOLEAN, probed : [Repos -> Versions], skipped : SUBSET Repos,
                whole : SUBSET Repos, rows : [Repos -> Versions]]
  /\ heard \in BOOLEAN
  /\ answer \in [reachable : BOOLEAN, asked : BOOLEAN, kept : SUBSET Repos,
                 rows : [Repos -> Versions]]
  /\ user \in [Users -> {"idle", "counted", "queued", "served"}]
  /\ lost \in BOOLEAN

Init ==
  /\ forge = [r \in Repos |-> 1]
  /\ board = NoStamps
  /\ stamps = NoStamps
  /\ passes = 0
  /\ pc = "idle"
  /\ led = "background"
  /\ incr = FALSE
  /\ pass = NoPass
  /\ fetching = FALSE
  /\ fetch = NoFetch
  /\ heard = FALSE
  /\ answer = NoAnswer
  /\ user = [u \in Users |-> "idle"]
  /\ lost = FALSE

-----------------------------------------------------------------------------
(* A person's Refresh *)

\* External: something changes in a repo, and the probe can see it.
ForgeChanges(r) ==
  /\ forge[r] < MaxVersion
  /\ forge' = [forge EXCEPT ![r] = @ + 1]
  /\ UNCHANGED <<board, passVars, fetchVars>>

\* userRefreshes: the clicks that have not returned.
UserRefreshes == {u \in Users : user[u] # "idle"}

\* Refresh counts the click first.
Click(u) ==
  /\ user[u] = "idle"
  /\ user' = [user EXCEPT ![u] = "counted"]
  /\ UNCHANGED <<forge, board, passes, pc, led, incr, pass, answer, fetchVars>>

\* joinPass: the first click that finds a pass adds the short deadline to it.
JoinPass(u) ==
  /\ user[u] = "counted"
  /\ user' = [user EXCEPT ![u] = "queued"]
  /\ pass' = IF pass.visible /\ ~pass.user
             THEN [pass EXCEPT !.user = TRUE, !.short = TRUE] ELSE pass
  /\ UNCHANGED <<forge, board, passes, pc, led, incr, answer, fetchVars>>

-----------------------------------------------------------------------------
(* The pass *)

\* Slip: no safety net, a background refresh skips whenever it may.
IncrementalAllowed_NoNet(by) == by = "background" /\ UserRefreshes = {}

\* Slip: a run led by the schedule skips, whoever waits for it.
IncrementalAllowed_Schedule(by) == by = "background" /\ passes # 0

\* incrementalAllowed.
IncrementalAllowed(by) == passes # 0 /\ by = "background" /\ UserRefreshes = {}

\* The gate starts a run: for the schedule, or for the clicks that queued, one
\* of which leads unless the schedule's run goes on for them.
StartRun ==
  /\ pc = "idle"
  /\ led' \in {"background"} \union {"user" : u \in {v \in Users : user[v] = "queued"}}
  /\ incr' = IncrementalAllowed(led')
  /\ user' = [u \in Users |-> IF user[u] = "queued" THEN "served" ELSE user[u]]
  /\ pc' = "decided"
  /\ UNCHANGED <<forge, board, passes, pass, answer, fetchVars>>

\* beginPass: the pass is visible to joinPass from here.
BeginPass ==
  /\ pc = "decided"
  /\ pass' = [NoPass EXCEPT !.visible = TRUE]
  /\ pc' = "visible"
  /\ UNCHANGED <<forge, board, passes, led, incr, answer, user, fetchVars>>

\* Slip: choose the deadline by the context alone.
ArmDeadline_ByContext ==
  /\ pc = "visible"
  /\ pass' = [pass EXCEPT !.short = @ \/ led = "user"]
  /\ pc' = "armed"
  /\ UNCHANGED <<forge, board, passes, led, incr, answer, user, fetchVars>>

\* Then it reads the clicks and arms the short deadline or the long one.
ArmDeadline ==
  /\ pc = "visible"
  /\ pass' = [pass EXCEPT !.short = @ \/ led = "user" \/ UserRefreshes # {}]
  /\ pc' = "armed"
  /\ UNCHANGED <<forge, board, passes, led, incr, answer, user, fetchVars>>

\* A budget hold: the source is answered from the snapshot.
Hold ==
  /\ pc = "armed"
  /\ answer' = NoAnswer
  /\ pc' = "collected"
  /\ UNCHANGED <<forge, board, passes, led, incr, pass, user, fetchVars>>

\* The last fetch still runs: the source is not asked again.
SkipFetch ==
  /\ pc = "armed"
  /\ fetching
  /\ answer' = NoAnswer
  /\ pc' = "collected"
  /\ UNCHANGED <<forge, board, passes, led, incr, pass, user, fetchVars>>

StartFetch ==
  /\ pc = "armed"
  /\ ~fetching
  /\ fetching' = TRUE
  /\ fetch' = [NoFetch EXCEPT !.phase = "probe", !.incr = incr]
  /\ heard' = TRUE
  /\ pc' = "wait"
  /\ UNCHANGED <<forge, board, passes, led, incr, pass, answer, user, stamps, lost>>

\* A deadline passes: the source counts as asked and unreachable, and its fetch
\* is cancelled and no longer heard.
Deadline ==
  /\ pc = "wait"
  /\ heard
  /\ answer' = [NoAnswer EXCEPT !.asked = TRUE]
  /\ heard' = FALSE
  /\ lost' = (lost \/ fetch.phase = "recorded")
  /\ pc' = "collected"
  /\ UNCHANGED <<forge, board, passes, led, incr, pass, user, fetching, fetch, stamps>>

\* Slip: count past the cycle.
NotePass_NoWrap ==
  passes' = CASE ~answer.asked -> passes
              [] answer.asked /\ incr -> passes + 1
              [] answer.asked /\ ~incr -> 1

\* notePass: a full pass restarts the cycle.
NotePass ==
  passes' = CASE ~answer.asked -> passes
              [] answer.asked /\ incr -> (passes + 1) % FullPassEvery
              [] answer.asked /\ ~incr -> 1 % FullPassEvery

\* refreshOnce publishes: the rows read, the ones the source skipped or failed
\* to read kept as they were, all kept when it was unreachable.  The clicks
\* this run serves return.
Publish ==
  /\ pc = "collected"
  /\ board' = [r \in Repos |-> IF r \in answer.kept THEN board[r] ELSE answer.rows[r]]
  /\ NotePass
  /\ pass' = NoPass
  /\ user' = [u \in Users |-> IF user[u] = "served" THEN "idle" ELSE user[u]]
  /\ lost' = (lost /\ (incr \/ ~answer.reachable))
  /\ answer' = NoAnswer
  /\ incr' = FALSE /\ led' = "background"
  /\ pc' = "idle"
  /\ UNCHANGED <<forge, stamps, fetching, fetch, heard>>

-----------------------------------------------------------------------------
(* The fetch, which may outlive its pass *)

\* The probe, and the plan: skip what is stamped as it is now and has a hook
\* that vouches for its checks.
Probe ==
  /\ fetch.phase = "probe"
  /\ \E vouched \in SUBSET Repos :
       fetch' = [fetch EXCEPT !.phase = "read", !.plan = TRUE, !.probed = forge,
                   !.skipped = {r \in vouched : fetch.incr /\ stamps[r] = forge[r]}]
  /\ UNCHANGED <<forge, board, passVars, fetching, heard, stamps, lost>>

\* A probe that fails: no stamps, no plan, every repo is fetched.
ProbeFails ==
  /\ fetch.phase = "probe"
  /\ fetch' = [fetch EXCEPT !.phase = "read"]
  /\ stamps' = NoStamps
  /\ UNCHANGED <<forge, board, passVars, fetching, heard, lost>>

\* The account is read, some repos perhaps not whole.
Read ==
  /\ fetch.phase = "read"
  /\ \E whole \in SUBSET (Repos \ fetch.skipped) :
       fetch' = [fetch EXCEPT !.phase = "record", !.whole = whole, !.rows = forge]
  /\ UNCHANGED <<forge, board, passVars, fetching, heard, stamps, lost>>

\* Slip: stamp a repo with what it is now and not with what the probe saw.
RecordStamps_Now ==
  /\ fetch.phase = "record"
  /\ stamps' = [r \in Repos |->
                  IF fetch.plan /\ r \in fetch.skipped \union fetch.whole
                  THEN forge[r] ELSE 0]
  /\ lost' = (lost \/ ~heard)
  /\ fetch' = [fetch EXCEPT !.phase = "recorded"]
  /\ UNCHANGED <<forge, board, passVars, fetching, heard>>

\* recordStamps, long before Fetch returns: commits, runs and advisories are
\* still to be read.
RecordStamps ==
  /\ fetch.phase = "record"
  /\ stamps' = [r \in Repos |->
                  IF fetch.plan /\ r \in fetch.skipped \union fetch.whole
                  THEN fetch.probed[r] ELSE 0]
  /\ lost' = (lost \/ ~heard)
  /\ fetch' = [fetch EXCEPT !.phase = "recorded"]
  /\ UNCHANGED <<forge, board, passVars, fetching, heard>>

\* Fetch returns, and a pass that still listens has its answer.
Return ==
  /\ fetch.phase = "recorded"
  /\ IF heard
     THEN /\ answer' = [reachable |-> TRUE, asked |-> TRUE,
                        kept |-> Repos \ fetch.whole, rows |-> fetch.rows]
          /\ pc' = "collected"
     ELSE UNCHANGED <<answer, pc>>
  /\ fetch' = NoFetch /\ fetching' = FALSE /\ heard' = FALSE
  /\ UNCHANGED <<forge, board, passes, led, incr, pass, user, stamps, lost>>

\* The account-wide read fails, by itself or because its pass was cancelled.
FetchFails ==
  /\ fetch.phase = "read"
  /\ IF heard
     THEN answer' = [NoAnswer EXCEPT !.asked = TRUE] /\ pc' = "collected"
     ELSE UNCHANGED <<answer, pc>>
  /\ fetch' = NoFetch /\ fetching' = FALSE /\ heard' = FALSE
  /\ UNCHANGED <<forge, board, passes, led, incr, pass, user, stamps, lost>>

-----------------------------------------------------------------------------

Refresher == StartRun \/ BeginPass \/ ArmDeadline \/ Hold \/ SkipFetch \/ StartFetch \/ Publish

Fetcher == Probe \/ ProbeFails \/ Read \/ RecordStamps \/ Return \/ FetchFails

Next ==
  \/ Refresher \/ Fetcher \/ Deadline
  \/ \E u \in Users : Click(u) \/ JoinPass(u)
  \/ \E r \in Repos : ForgeChanges(r)

Spec == Init /\ [][Next]_vars

\* The goroutines are scheduled and the schedule's timer goes on.
FairSpec ==
  /\ Spec
  /\ WF_vars(Refresher) /\ WF_vars(Fetcher)
  /\ \A u \in Users : WF_vars(JoinPass(u))

-----------------------------------------------------------------------------
(* Properties *)

\* Whenever a click waits for a pass, that pass has the short deadline armed,
\* however the click and the start of the pass interleave ("a click is either
\* seen here or finds the pass there").
ClickShortensPass ==
  pc \in {"armed", "wait"} /\ (\E u \in Users : user[u] \in {"queued", "served"}) => pass.short

\* A person's refresh never returns from a pass that skipped repos.
UserRefreshIsFull ==
  [][\A u \in Users : user[u] = "served" /\ user'[u] = "idle" => ~incr]_vars

\* A repo is skipped as unchanged only when the board has what the probe saw.
\* (stampBook.set: an older set "could only cause a refetch, never a skip".)
SkippedIsOnTheBoard == \A r \in fetch.skipped : board[r] >= fetch.probed[r]

\* The one way a skip hides a change is an answer that was dropped at the
\* deadline after its stamps were recorded, until a full pass is heard.
OnlyALostAnswerHidesAChange == ~lost => SkippedIsOnTheBoard

\* What can keep a pass from reading what it meant to.
Hiccup ==
  Deadline \/ FetchFails \/ Hold \/ (Read /\ fetch'.whole # Repos \ fetch.skipped)

\* Once the forge answers in time, every change reaches the board, a lost
\* answer before that notwithstanding: the full pass every FullPassEvery makes
\* up for it.
EveryChangeShows ==
  <>[][~Hiccup]_vars =>
    \A r \in Repos, v \in Versions : (forge[r] = v) ~> (board[r] >= v)
=============================================================================
