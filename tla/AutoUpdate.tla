----------------------------- MODULE AutoUpdate -----------------------------
(***************************************************************************)
(* The branch-update half of a write pass, for one pull request            *)
(* (dashboard/auto_update_branch.go, pull_request_auto_update.go), the     *)
(* user's choice for it (settings/pull_request_auto_update.go) and the     *)
(* handler that saves the choice (api/pull_request_auto_update.go).        *)
(*                                                                         *)
(* The pass reads the repository's setting, the choices and the bots'      *)
(* setting one after the other while handlers change them.  A wait is kept *)
(* as what it decides: it still runs (short or long) or it is up.          *)
(***************************************************************************)
EXTENDS Naturals

CONSTANTS
  UMaxVer,       \* bound: how often the pull request changes (UpdatedAt moves)
  UMaxRestarts,  \* bound: restarts of the process
  UMaxEdits      \* bound: changes of the settings

VARIABLES
  kind,         \* who wrote the pull request
  upull,        \* the pull request on the forge
  repoOn,       \* the repository is in AutoUpdateBranchRepos
  botsOn,       \* the repository is in RebaseBotsRepos
  choice,       \* the row of pull_request_auto_update
  saving,       \* a choice being saved, after the read of the repository's setting
  urow,         \* the pull request's row on the board
  uwaiting,     \* a snapshot waits for its pass
  upc, usnap,   \* where the pass is, and the row it works on
  loaded,       \* what the pass has read of the settings
  watch,        \* dependabotWatch holds the pull request
  attempted,    \* dependabotAttempted does
  upd,          \* updateAttempts
  urestarts, uedits,
  asked,        \* history: rebase comments while the board has shown it behind
  earned,       \* history: a rebase has had no recreate yet
  refused,      \* history: the version a conflict was answered for, its wait not up
  changed,      \* history: settings moved since the pass began to read them
  uended        \* history: closed since its choice was made, or seen so by a board or a
                \* pass that is older than the choice

forge == <<kind, upull>>
settings == <<repoOn, botsOn, choice, saving>>
umemory == <<watch, attempted, upd>>
uhistory == <<asked, earned, refused, changed, uended>>
vars == <<forge, settings, urow, uwaiting, upc, usnap, loaded, umemory, urestarts, uedits, uhistory>>

Vers == 0..UMaxVer
NoVer == UMaxVer + 1
Kinds == {"plain", "dependabot", "renovate", "release"}
Choices == {"none", "on", "off"}
URow == [listed : BOOLEAN, stale : BOOLEAN, ver : Vers, behind : BOOLEAN,
         draft : BOOLEAN, ci : {"pending", "failure", "success"}]
NoURow == [listed |-> FALSE, stale |-> TRUE, ver |-> 0, behind |-> FALSE,
           draft |-> FALSE, ci |-> "pending"]
NoUpd == [ver |-> 0, wait |-> "none"]
NotLoaded == [repo |-> FALSE, bots |-> FALSE, choice |-> "none"]

TypeOK ==
  /\ kind \in Kinds
  /\ upull \in [open : BOOLEAN, ver : Vers, behind : BOOLEAN, draft : BOOLEAN,
                ci : {"pending", "failure", "success"}]
  /\ repoOn \in BOOLEAN /\ botsOn \in BOOLEAN /\ choice \in Choices
  /\ saving \in Choices \cup {"idle"}
  /\ urow \in URow /\ usnap \in URow /\ uwaiting \in BOOLEAN
  /\ upc \in {"idle", "reconcile", "repos", "choices", "bots", "forget", "each", "call"}
  /\ loaded \in [repo : BOOLEAN, bots : BOOLEAN, choice : Choices]
  /\ watch \in BOOLEAN /\ attempted \in BOOLEAN
  /\ upd \in [ver : Vers, wait : {"none", "short", "long", "up"}]
  /\ urestarts \in 0..UMaxRestarts /\ uedits \in 0..UMaxEdits
  /\ asked \in 0..2 /\ earned \in BOOLEAN /\ refused \in Vers \cup {NoVer}
  /\ changed \in BOOLEAN /\ uended \in BOOLEAN

Init ==
  /\ kind \in Kinds
  /\ upull \in [open : {TRUE}, ver : {0}, behind : BOOLEAN, draft : {FALSE}, ci : {"pending"}]
  /\ repoOn \in BOOLEAN /\ botsOn \in BOOLEAN /\ choice = "none" /\ saving = "idle"
  /\ urow = NoURow /\ usnap = NoURow /\ uwaiting = FALSE
  /\ upc = "idle" /\ loaded = NotLoaded
  /\ watch = FALSE /\ attempted = FALSE /\ upd = NoUpd /\ urestarts = 0 /\ uedits = 0
  /\ asked = 0 /\ earned = FALSE /\ refused = NoVer /\ changed = FALSE /\ uended = FALSE

-----------------------------------------------------------------------------
(* The forge (external), the refreshes, the handlers.                      *)

\* A push, the base moving, a check result, a draft mark, a close or a reopen.
UPullChanges ==
  /\ upull.ver < UMaxVer
  /\ \E o, b, d \in BOOLEAN, c \in {"pending", "failure", "success"} :
       /\ o \/ (~b /\ ~d /\ c = "pending")
       /\ upull' = [open |-> o, ver |-> upull.ver + 1, behind |-> b, draft |-> d, ci |-> c]
       /\ uended' = (uended \/ ~o)
  /\ UNCHANGED <<kind, settings, urow, uwaiting, upc, usnap, loaded, umemory, urestarts, uedits,
                 asked, earned, refused, changed>>

\* A refresh publishes the forge's row, or what the board last had, marked
\* stale, when the repository or the forge could not be read.
UPublish ==
  /\ urow' \in { [listed |-> upull.open, stale |-> FALSE, ver |-> upull.ver,
                  behind |-> upull.open /\ upull.behind, draft |-> upull.draft, ci |-> upull.ci],
                 [urow EXCEPT !.stale = TRUE] }
  /\ uwaiting' = TRUE
  /\ asked' = IF urow'.behind THEN asked ELSE 0
  /\ UNCHANGED <<forge, settings, upc, usnap, loaded, umemory, urestarts, uedits,
                 earned, refused, changed, uended>>

\* The repository's own switches.
SwitchRepo ==
  /\ uedits < UMaxEdits /\ uedits' = uedits + 1
  /\ \/ repoOn' = ~repoOn /\ UNCHANGED botsOn
     \/ botsOn' = ~botsOn /\ UNCHANGED repoOn
  /\ changed' = TRUE
  /\ UNCHANGED <<forge, choice, saving, urow, uwaiting, upc, usnap, loaded, umemory, urestarts,
                 asked, earned, refused, uended>>

\* handlePullRequestAutoUpdate for a listed pull request: the setting is read.
\* A choice equal to it clears the row, any other will be written.
ReadForChoice ==
  /\ uedits < UMaxEdits /\ uedits' = uedits + 1
  /\ saving = "idle" /\ urow.listed
  /\ \E c \in Choices :
       saving' = IF c = (IF repoOn THEN "on" ELSE "off") THEN "none" ELSE c
  /\ UNCHANGED <<forge, repoOn, botsOn, choice, urow, uwaiting, upc, usnap, loaded, umemory,
                 urestarts, uhistory>>

\* A row that is missing because the pull request is gone, not because it could
\* not be read.
Gone(r) == ~r.listed /\ ~r.stale

\* saveAutoUpdateChoice's write, which may fail.
SaveChoice ==
  /\ saving # "idle"
  /\ \/ /\ choice' = saving /\ changed' = TRUE
        /\ uended' = (~upull.open \/ Gone(urow) \/ Gone(usnap))
     \/ UNCHANGED <<choice, changed, uended>>
  /\ saving' = "idle"
  /\ UNCHANGED <<forge, repoOn, botsOn, urow, uwaiting, upc, usnap, loaded, umemory, urestarts, uedits,
                 asked, earned, refused>>

\* The wait of the last attempt is up.
UWaitPasses ==
  /\ upd.wait \in {"short", "long"}
  /\ upd' = [upd EXCEPT !.wait = "up"]
  /\ refused' = NoVer
  /\ UNCHANGED <<forge, settings, urow, uwaiting, upc, usnap, loaded, watch, attempted,
                 urestarts, uedits, asked, earned, changed, uended>>

\* A crash or a rebuilt aggregator: the settings stay, the memory goes.
URestart ==
  /\ urestarts < UMaxRestarts
  /\ urestarts' = urestarts + 1
  /\ urow' = NoURow /\ uwaiting' = FALSE /\ upc' = "idle" /\ usnap' = NoURow
  /\ loaded' = NotLoaded /\ watch' = FALSE /\ attempted' = FALSE /\ upd' = NoUpd
  /\ asked' = 0 /\ earned' = FALSE /\ refused' = NoVer /\ saving' = "idle"
  /\ UNCHANGED <<forge, repoOn, botsOn, choice, uedits, changed, uended>>

-----------------------------------------------------------------------------
(* The pass.                                                               *)

calm == <<forge, urow, uwaiting, urestarts, uedits>>
UEnd == upc' = "idle" /\ usnap' = NoURow /\ loaded' = NotLoaded

UPassBegins ==
  /\ upc = "idle" /\ uwaiting
  /\ uwaiting' = FALSE /\ usnap' = urow /\ upc' = "reconcile"
  /\ UNCHANGED <<forge, settings, urow, loaded, umemory, urestarts, uedits, uhistory>>

\* recreateDependabotPR is called: a rebase of ours ended in a failing run.
Recreates == watch /\ usnap.listed /\ usnap.ci = "failure"

\* Slip: the watch is kept over the recreate.
Reconcile_KeepsWatch ==
  /\ upc = "reconcile"
  /\ watch' = (watch /\ usnap.listed /\ usnap.ci # "success")
  /\ earned' = (earned /\ ~Recreates)
  /\ upc' = "repos"
  /\ UNCHANGED <<calm, settings, usnap, loaded, attempted, upd, asked, refused, changed, uended>>

\* reconcileDependabotRebaseWatch: a failing run is recreated over, once.  The
\* comment's failure is only logged.
Reconcile ==
  /\ upc = "reconcile"
  /\ watch' = (watch /\ usnap.listed /\ usnap.ci = "pending")
  /\ earned' = (earned /\ ~Recreates)
  /\ upc' = "repos"
  /\ UNCHANGED <<calm, settings, usnap, loaded, attempted, upd, asked, refused, changed, uended>>

\* Slip: attempts are forgotten with every pass.
LoadRepos_ForgetsAll ==
  /\ upc = "repos"
  /\ attempted' = FALSE /\ upd' = NoUpd
  /\ \/ /\ loaded' = [loaded EXCEPT !.repo = repoOn]
        /\ upc' = "choices"
        /\ UNCHANGED usnap
     \/ UEnd
  /\ changed' = FALSE
  /\ UNCHANGED <<calm, settings, watch, asked, earned, refused, uended>>

\* pruneDependabotAttempts, pruneUpdateAttempts, AutoUpdateBranchRepos.
LoadRepos ==
  /\ upc = "repos"
  /\ attempted' = (attempted /\ usnap.behind)
  /\ upd' = IF usnap.behind THEN upd ELSE NoUpd
  /\ refused' = IF usnap.behind THEN refused ELSE NoVer
  /\ \/ /\ loaded' = [loaded EXCEPT !.repo = repoOn]
        /\ upc' = "choices"
        /\ UNCHANGED usnap
     \/ UEnd
  /\ changed' = FALSE
  /\ UNCHANGED <<calm, settings, watch, asked, earned, uended>>

\* PullRequestAutoUpdates; unreadable choices count as none.
LoadChoices ==
  /\ upc = "choices"
  /\ loaded' \in {[loaded EXCEPT !.choice = choice], loaded}
  /\ upc' = "bots"
  /\ UNCHANGED <<calm, settings, usnap, umemory, uhistory>>

\* rebaseBotRepos (unreadable counts as none) and RenovateAuthors.
LoadBots ==
  /\ upc = "bots"
  /\ \/ /\ loaded' \in {[loaded EXCEPT !.bots = botsOn], loaded}
        /\ upc' = "forget"
        /\ UNCHANGED usnap
     \/ UEnd
  /\ UNCHANGED <<calm, settings, umemory, uhistory>>

isBotPR == kind \in {"dependabot", "renovate"}
On(b) == IF b THEN "on" ELSE "off"

\* Slip: a row that is missing is taken for gone, whatever became of its fetch.
Stale_Unread ==
  /\ loaded.choice # "none"
  /\ \/ ~usnap.listed
     \/ usnap.listed /\ loaded.choice = On(loaded.repo) /\ ~(loaded.bots /\ isBotPR)

\* staleAutoUpdateChoices.
Stale ==
  /\ loaded.choice # "none"
  /\ \/ Gone(usnap)
     \/ usnap.listed /\ loaded.choice = On(loaded.repo) /\ ~(loaded.bots /\ isBotPR)

\* forgetStaleAutoUpdateChoices (the delete may fail) and RenovateRebaseLabel.
ForgetStale ==
  /\ upc = "forget"
  /\ choice' \in IF Stale THEN {"none", choice} ELSE {choice}
  /\ \/ upc' = "each" /\ UNCHANGED <<usnap, loaded>>
     \/ UEnd
  /\ UNCHANGED <<calm, repoOn, botsOn, saving, umemory, uhistory>>

\* autoUpdateWantedWithBots with PullRequestAutoUpdate.
autoUpdateWanted(r, s) ==
  LET repo == s.repo \/ (s.bots /\ isBotPR) IN
  /\ ~r.draft /\ kind # "release"
  /\ IF s.choice = "none" THEN repo ELSE s.choice = "on"

\* beginUpdate's test.
UStands(a, v) == a.ver = v /\ a.wait \in {"short", "long"}

\* Slip: only a watched pull request is left alone, not one already asked for.
ToUpdate_WatchOnly ==
  /\ usnap.behind /\ autoUpdateWanted(usnap, loaded)
  /\ kind = "dependabot" => ~watch
  /\ kind = "plain" => ~UStands(upd, usnap.ver)

\* What the loop of runAutoUpdateBranch calls the forge for: not for a pull
\* request already asked for, nor for one whose last attempt stands.
ToUpdate ==
  /\ usnap.behind /\ autoUpdateWanted(usnap, loaded)
  /\ kind = "dependabot" => (~watch /\ ~attempted)
  /\ kind = "plain" => ~UStands(upd, usnap.ver)

\* updateBehindPR up to the call.
UpdateBehindPR ==
  /\ upc = "each"
  /\ IF ToUpdate
       THEN /\ upc' = "call"
            /\ upd' = IF kind = "plain" THEN [ver |-> usnap.ver, wait |-> "short"] ELSE upd
            /\ UNCHANGED <<usnap, loaded>>
       ELSE UEnd /\ UNCHANGED upd
  /\ UNCHANGED <<calm, settings, watch, attempted, uhistory>>

\* The pass was cancelled before it reached the pull request.
UPassStops ==
  /\ upc = "each" /\ UEnd
  /\ UNCHANGED <<calm, settings, umemory, uhistory>>

\* UpdateBranch pushes a merge of the base: the branch is up to date.
BranchUpdated ==
  /\ kind = "plain" /\ upull.open /\ upull.ver < UMaxVer
  /\ upull' = [upull EXCEPT !.ver = @ + 1, !.behind = FALSE, !.ci = "pending"]
  /\ upd' = NoUpd /\ refused' = NoVer
  /\ UNCHANGED <<watch, attempted, asked, earned>>

\* The comment is posted; the bot may act on it later.
RebaseDependabotPR ==
  /\ kind = "dependabot"
  /\ watch' = TRUE /\ attempted' = TRUE /\ earned' = TRUE
  /\ asked' = IF urow.behind THEN asked + 1 ELSE asked
  /\ UNCHANGED <<upull, upd, refused>>

\* The label is added, and nothing is remembered of it.
LabelRenovatePR ==
  /\ kind = "renovate"
  /\ UNCHANGED <<upull, umemory, asked, earned, refused>>

CallSucceeds ==
  /\ upc = "call"
  /\ BranchUpdated \/ RebaseDependabotPR \/ LabelRenovatePR
  /\ UEnd
  /\ UNCHANGED <<kind, settings, urow, uwaiting, urestarts, uedits, changed, uended>>

\* failedUpdate: a conflict waits an hour, anything else the short wait; the
\* bots' calls leave nothing behind.
CallFails ==
  /\ upc = "call"
  /\ \/ /\ kind = "plain"
        /\ upd' = [upd EXCEPT !.wait = "long"] /\ refused' = usnap.ver
     \/ UNCHANGED <<upd, refused>>
  /\ UEnd
  /\ UNCHANGED <<calm, settings, watch, attempted, asked, earned, changed, uended>>

UPassStep ==
  \/ Reconcile \/ LoadRepos \/ LoadChoices \/ LoadBots \/ ForgetStale
  \/ UpdateBehindPR \/ CallSucceeds \/ CallFails

Next ==
  \/ UPullChanges \/ UPublish \/ SwitchRepo \/ ReadForChoice \/ SaveChoice
  \/ UWaitPasses \/ URestart \/ UPassBegins \/ UPassStops \/ UPassStep

Spec == Init /\ [][Next]_vars

\* automationPending's second half (updatePending): is there a reason to
\* refresh although nobody is watching?
UpdatePending ==
  LET now == [repo |-> repoOn, bots |-> botsOn, choice |-> choice] IN
  /\ urow.behind /\ autoUpdateWanted(urow, now)
  /\ IF kind = "dependabot" THEN ~attempted ELSE ~UStands(upd, urow.ver)

-----------------------------------------------------------------------------

\* Dependabot is asked to rebase at most once while the board keeps showing the
\* pull request behind: a bot that refuses answers with a comment, which
\* triggers a refresh (#660).  One that caught up and fell behind again while a
\* pass ran may be asked twice: the pass counts what it was given.
OneRebaseWhileBehind == asked <= 1

\* Recreate is commented only over a rebase of ours that has had none yet.
RecreateIsEarned == (upc = "reconcile" /\ watch) => earned

\* A branch the forge refused with a conflict is left alone until the pull
\* request changes, stops being behind or the hour is up.
ConflictStands == (upc = "call" /\ kind = "plain") => usnap.ver # refused

\* The pass deletes a choice only when the pull request was closed since, or
\* when the choice says what the repository says; a choice made while the pass
\* runs may be deleted in place of the one it read, and so may one saved for a
\* reopened pull request while the close still stands on the board or in a pass.
ChoiceIsKept ==
  [][(upc = "forget" /\ upc' # upc /\ choice # "none" /\ choice' = "none")
       => (uended \/ changed \/ choice = On(repoOn))]_vars

\* The pass acts only on what updatePending calls a reason to refresh.
PassActsOnThePending ==
  (upc = "each" /\ ToUpdate /\ usnap = urow
     /\ loaded = [repo |-> repoOn, bots |-> botsOn, choice |-> choice])
  => UpdatePending
=============================================================================
