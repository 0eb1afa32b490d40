------------------------------ MODULE UpkeepProofs ------------------------------
(***************************************************************************)
(* What the server does by itself, for any table, any number of versions,  *)
(* edits and restarts, any poll interval and any budget: queued actions,   *)
(* branch updates, the CI poll schedule and the reserve of the budget.     *)
(* Each part has an inductive invariant of its own; the last section puts  *)
(* them together for the specification the upkeep run checks.              *)
(***************************************************************************)
EXTENDS MCUpkeep, SequenceTheorems, WellFoundedInduction, TLAPS

-----------------------------------------------------------------------------
(* Least and greatest elements *)

\* The natural numbers are well founded, so a set of them has a least element.
LEMMA LeastNatural ==
  ASSUME NEW S \in SUBSET Nat, S # {}
  PROVE  \E m \in S : \A n \in S : m <= n
<1>1. IsWellFoundedOn({ss \in Nat \X Nat : ss[1] < ss[2]}, Nat)
  BY NatLessThanWellFounded, Zenon DEF OpToRel
<1>2. PICK m \in S : \A n \in S : ~(<<n, m>> \in {ss \in Nat \X Nat : ss[1] < ss[2]})
  <2> HIDE <1>1
  <2> QED BY <1>1, WFMin
<1>3. \A n \in S : <<n, m>> \in {ss \in Nat \X Nat : ss[1] < ss[2]} <=> n < m
  OBVIOUS
<1>4. \A n \in S : m <= n
  <2>1. \A n \in S : ~(n < m)
    BY <1>2, <1>3
  <2> QED BY <2>1
<1> QED BY <1>4

\* Min picks the least element of a set of integers with a lower bound.
LEMMA MinIsLeast ==
  ASSUME NEW S \in SUBSET Int, S # {}, NEW b \in Int, \A x \in S : x >= b
  PROVE  Min(S) \in S /\ \A x \in S : Min(S) <= x
<1> DEFINE T == {n \in Nat : b + n \in S}
<1>1. T # {}
  <2>1. PICK x \in S : TRUE OBVIOUS
  <2>2. x - b \in Nat /\ b + (x - b) = x OBVIOUS
  <2> QED BY <2>1, <2>2
<1>2. PICK m \in T : \A n \in T : m <= n
  BY <1>1, LeastNatural
<1>3. \A x \in S : b + m <= x
  <2> TAKE x \in S
  <2>1. x - b \in Nat /\ b + (x - b) = x OBVIOUS
  <2>2. x - b \in T BY <2>1
  <2> QED BY <2>1, <2>2, <1>2
<1> QED BY <1>3 DEF Min

\* Max picks the greatest element of a set of integers with an upper bound.
LEMMA MaxIsGreatest ==
  ASSUME NEW S \in SUBSET Int, S # {}, NEW b \in Int, \A x \in S : x <= b
  PROVE  Max(S) \in S /\ \A x \in S : x <= Max(S)
<1> DEFINE T == {n \in Nat : b - n \in S}
<1>1. T # {}
  <2>1. PICK x \in S : TRUE OBVIOUS
  <2>2. b - x \in Nat /\ b - (b - x) = x OBVIOUS
  <2> QED BY <2>1, <2>2
<1>2. PICK m \in T : \A n \in T : m <= n
  BY <1>1, LeastNatural
<1>3. \A x \in S : x <= b - m
  <2> TAKE x \in S
  <2>1. b - x \in Nat /\ b - (b - x) = x OBVIOUS
  <2>2. b - x \in T BY <2>1
  <2> QED BY <2>1, <2>2, <1>2, SMTT(20)
<1> QED BY <1>3 DEF Max

\* The greater and the lesser of two.
LEMMA MaxOfTwo == ASSUME NEW a \in Int, NEW b \in Int
                  PROVE  Max({a, b}) = IF a >= b THEN a ELSE b
BY DEF Max

LEMMA MinOfTwo == ASSUME NEW a \in Int, NEW b \in Int
                  PROVE  Min({a, b}) = IF a <= b THEN a ELSE b
BY DEF Min

-----------------------------------------------------------------------------
(* Branch updates *)

\* The history of rebase comments agrees with dependabotAttempted: a comment
\* counts while the board shows the pull request behind, and no pass at work on
\* an older board can prune the attempt.
OneCommentIsRemembered ==
  /\ rebaseAsked <= 1
  /\ rebaseAsked = 1 => attempted /\ urow.behind
  /\ upc \in {"reconcile", "repos"} /\ rebaseAsked = 1 => usnap.behind
  /\ upc = "call" /\ kind = "dependabot" => ~attempted
  /\ watch => earned

\* Boards only get newer, so the version a conflict was answered for is either
\* the last attempt, its long wait running, or behind every row still in use.
RefusalsAreRemembered ==
  /\ urow.ver <= upull.ver /\ usnap.ver <= urow.ver
  /\ kind # "plain" => upd = AU!NoUpd
  /\ upc = "call" /\ kind = "plain" => upd.ver = usnap.ver /\ upd.wait \in {"short", "up"}
  /\ refused # AU!NoVer =>
       /\ refused <= urow.ver
       /\ upc # "idle" => refused <= usnap.ver
       /\ \/ upd.ver = refused /\ upd.wait = "long"
          \/ refused < urow.ver /\ (upc # "idle" => refused < usnap.ver)

\* A close that a board, a pass or the forge shows is one the choice outlived,
\* and what the pass loaded is what stands unless a setting changed since.
ChoicesAreCurrent ==
  /\ choice # "none" /\ (~upull.open \/ AU!Gone(urow) \/ AU!Gone(usnap)) => uended
  /\ upc \in {"choices", "bots", "forget"} /\ ~changed => loaded.repo = repoOn
  /\ upc \in {"bots", "forget"} /\ ~changed => loaded.choice \in {"none", choice}
  /\ upc \in {"idle", "reconcile", "repos", "choices"} => loaded.choice = "none"

UpdateInv ==
  /\ AU!TypeOK
  /\ OneCommentIsRemembered
  /\ RefusalsAreRemembered
  /\ ChoicesAreCurrent

\* No comment, attempt or choice exists before the first pass.
LEMMA UpdateInit == AU!Init => UpdateInv
<1> SUFFICES ASSUME AU!Init PROVE UpdateInv
  OBVIOUS
<1> USE UpkeepAssumption DEF AU!Init, AU!NoURow, AU!NoUpd, AU!NotLoaded, AU!NoVer, AU!Vers
<1>0. upull \in [open : {TRUE}, ver : {0}, behind : BOOLEAN, draft : {FALSE}, ci : {"pending"}]
  BY DEF AU!Init
<1>1. upull \in [open : BOOLEAN, ver : 0..UMaxVer, behind : BOOLEAN, draft : BOOLEAN,
                 ci : {"pending", "failure", "success"}] /\ upull.ver = 0 /\ upull.open
  <2> HIDE DEF AU!Init
  <2>1. 0 \in 0..UMaxVer
    OBVIOUS
  <2> QED BY <1>0, <2>1
<1>2. AU!TypeOK
  <2>1. AU!NoURow \in AU!URow /\ AU!NoUpd \in [ver : AU!Vers, wait : {"none", "short", "long", "up"}]
    BY DEF AU!URow
  <2>2. 0 \in 0..UMaxRestarts /\ 0 \in 0..UMaxEdits /\ 0 \in 0..2
    OBVIOUS
  <2> QED BY <1>1, <2>1, <2>2 DEF AU!TypeOK, AU!Choices, AU!Kinds
<1>3. OneCommentIsRemembered
  BY DEF OneCommentIsRemembered
<1>4. RefusalsAreRemembered
  BY <1>1 DEF RefusalsAreRemembered
<1>5. ChoicesAreCurrent
  BY DEF ChoicesAreCurrent
<1> QED BY <1>2, <1>3, <1>4, <1>5 DEF UpdateInv

\* The type invariant with its record sets named.
Pulls == [open : BOOLEAN, ver : AU!Vers, behind : BOOLEAN, draft : BOOLEAN,
          ci : {"pending", "failure", "success"}]
Attempts == [ver : AU!Vers, wait : {"none", "short", "long", "up"}]
Loads == [repo : BOOLEAN, bots : BOOLEAN, choice : AU!Choices]

UpdateTypeOK ==
  /\ kind \in AU!Kinds /\ upull \in Pulls
  /\ repoOn \in BOOLEAN /\ botsOn \in BOOLEAN
  /\ choice \in AU!Choices /\ saving \in AU!Choices \cup {"idle"}
  /\ urow \in AU!URow /\ usnap \in AU!URow /\ uwaiting \in BOOLEAN
  /\ upc \in {"idle", "reconcile", "repos", "choices", "bots", "forget", "each", "call"}
  /\ loaded \in Loads /\ watch \in BOOLEAN /\ attempted \in BOOLEAN
  /\ upd \in Attempts /\ urestarts \in 0..UMaxRestarts /\ uedits \in 0..UMaxEdits
  /\ rebaseAsked \in 0..2 /\ earned \in BOOLEAN /\ refused \in 0..(UMaxVer + 1)
  /\ changed \in BOOLEAN /\ uended \in BOOLEAN

\* It is the type invariant.
LEMMA UpdateTypeOKIsTypeOK == AU!TypeOK <=> UpdateTypeOK
<1>1. 0..(UMaxVer + 1) = AU!Vers \cup {AU!NoVer}
  BY UpkeepAssumption DEF AU!Vers, AU!NoVer
<1> QED BY <1>1 DEF AU!TypeOK, UpdateTypeOK, Pulls, Attempts, Loads

\* Every step of a pass, of the forge and of the handlers keeps the types; the
\* second comment that would overflow the count is not posted.
LEMMA UpdateTypes ==
  ASSUME UpdateInv, [AU!Next]_(AU!vars)
  PROVE  UpdateTypeOK'
<1> USE UpkeepAssumption DEF AU!forge, AU!settings, AU!umemory, AU!uhistory, AU!calm, AU!UEnd
<1>0. UpdateTypeOK /\ OneCommentIsRemembered
  BY UpdateTypeOKIsTypeOK DEF UpdateInv
<1>a. /\ AU!NoURow \in AU!URow /\ AU!NoUpd \in Attempts /\ AU!NotLoaded \in Loads
      /\ AU!NoVer \in 0..(UMaxVer + 1)
  BY DEF AU!URow, AU!NoURow, AU!NoUpd, Attempts, Loads, AU!NotLoaded, AU!Choices, AU!Vers, AU!NoVer
<1>b. \A r \in AU!URow : r.ver \in 0..UMaxVer /\ r.behind \in BOOLEAN /\ r.listed \in BOOLEAN
                          /\ [r EXCEPT !.stale = TRUE] \in AU!URow
  BY DEF AU!URow, AU!Vers
<1>c. \A l \in Loads, b \in BOOLEAN, c \in AU!Choices :
        /\ [l EXCEPT !.repo = b] \in Loads /\ [l EXCEPT !.bots = b] \in Loads
        /\ [l EXCEPT !.choice = c] \in Loads
  BY DEF Loads
<1>d. \A u \in Attempts, w \in {"none", "short", "long", "up"} : [u EXCEPT !.wait = w] \in Attempts
  BY DEF Attempts
<1>e. \A v \in 0..UMaxVer : [ver |-> v, wait |-> "short"] \in Attempts
  BY DEF Attempts, AU!Vers
<1>f. upull.ver \in 0..UMaxVer /\ upull.open \in BOOLEAN /\ upull.behind \in BOOLEAN
  BY <1>0 DEF UpdateTypeOK, Pulls, AU!Vers
<1>1. CASE AU!UPullChanges
  <2>1. PICK o, b, d \in BOOLEAN, c \in {"pending", "failure", "success"} :
          upull' = [open |-> o, ver |-> upull.ver + 1, behind |-> b, draft |-> d, ci |-> c]
    BY <1>1 DEF AU!UPullChanges
  <2>2. upull' \in Pulls
    BY <2>1, <1>1, <1>f DEF Pulls, AU!UPullChanges, AU!Vers
  <2> QED BY <2>2, <1>1, <1>0, <1>f DEF AU!UPullChanges, UpdateTypeOK
<1>2. CASE AU!UPublish
  <2>1. [listed |-> upull.open, stale |-> FALSE, ver |-> upull.ver,
         behind |-> upull.open /\ upull.behind, draft |-> upull.draft, ci |-> upull.ci] \in AU!URow
    <3>1. upull \in Pulls
      BY <1>0 DEF UpdateTypeOK
    <3>2. (upull.open /\ upull.behind) \in BOOLEAN
      OBVIOUS
    <3> QED BY <3>1, <3>2 DEF AU!URow, Pulls, AU!Vers
  <2>2. urow \in AU!URow
    BY <1>0 DEF UpdateTypeOK
  <2>3. urow' \in AU!URow
    BY <1>2, <1>b, <2>1, <2>2 DEF AU!UPublish
  <2> QED BY <2>3, <1>2, <1>0, <1>b DEF AU!UPublish, UpdateTypeOK
<1>3. CASE AU!SwitchRepo
  <2>1. uedits' \in 0..UMaxEdits
    BY <1>3, <1>0 DEF AU!SwitchRepo, UpdateTypeOK
  <2>2. repoOn' \in BOOLEAN /\ botsOn' \in BOOLEAN
    BY <1>3, <1>0 DEF AU!SwitchRepo, UpdateTypeOK
  <2> QED BY <1>3, <1>0, <2>1, <2>2 DEF AU!SwitchRepo, UpdateTypeOK
<1>4. CASE AU!ReadForChoice
  BY <1>4, <1>0, <1>a, <1>b, <1>c, <1>d, <1>e DEF AU!ReadForChoice, AU!Choices, UpdateTypeOK
<1>5. CASE AU!SaveChoice
  <2>1. (~upull.open \/ AU!Gone(urow) \/ AU!Gone(usnap)) \in BOOLEAN
    OBVIOUS
  <2>2. choice' \in AU!Choices /\ uended' \in BOOLEAN /\ changed' \in BOOLEAN
    BY <1>5, <1>0, <2>1 DEF AU!SaveChoice, UpdateTypeOK
  <2> QED BY <1>5, <1>0, <2>2 DEF AU!SaveChoice, UpdateTypeOK
<1>6. CASE AU!UWaitPasses
  BY <1>6, <1>0, <1>a, <1>d, ZenonT(60) DEF AU!UWaitPasses, UpdateTypeOK
<1>7. CASE AU!URestart
  <2>1. urestarts' \in 0..UMaxRestarts /\ rebaseAsked' \in 0..2
    BY <1>7, <1>0 DEF AU!URestart, UpdateTypeOK
  <2> QED BY <1>7, <1>0, <1>a, <2>1 DEF AU!URestart, UpdateTypeOK
<1>8. CASE AU!UPassBegins
  BY <1>8, <1>0, <1>a, <1>b, <1>c, <1>d, <1>e DEF AU!UPassBegins, UpdateTypeOK
<1>9. CASE AU!UPassStops
  BY <1>9, <1>0, <1>a, <1>b, <1>c, <1>d, <1>e DEF AU!UPassStops, UpdateTypeOK
<1>10. CASE AU!Reconcile
  BY <1>10, <1>0, <1>a, <1>b, <1>c, <1>d, <1>e DEF AU!Reconcile, UpdateTypeOK
<1>11. CASE AU!LoadRepos
  BY <1>11, <1>0, <1>a, <1>b, <1>c, <1>d, <1>e DEF AU!LoadRepos, UpdateTypeOK
<1>12. CASE AU!LoadChoices
  BY <1>12, <1>0, <1>a, <1>b, <1>c, <1>d, <1>e DEF AU!LoadChoices, UpdateTypeOK
<1>13. CASE AU!LoadBots
  BY <1>13, <1>0, <1>a, <1>b, <1>c, <1>d, <1>e DEF AU!LoadBots, UpdateTypeOK
<1>14. CASE AU!ForgetStale
  BY <1>14, <1>0, <1>a, <1>b, <1>c, <1>d, <1>e DEF AU!ForgetStale, AU!Choices, UpdateTypeOK
<1>15. CASE AU!UpdateBehindPR
  BY <1>15, <1>0, <1>a, <1>b, <1>c, <1>d, <1>e DEF AU!UpdateBehindPR, UpdateTypeOK
<1>16. CASE AU!CallSucceeds
  <2>1. CASE AU!BranchUpdated
    <3>1. upull' \in Pulls
      <4>1. upull \in Pulls /\ upull.ver + 1 \in 0..UMaxVer
        BY <2>1, <1>0, <1>f DEF AU!BranchUpdated, UpdateTypeOK
      <4> QED BY <2>1, <4>1 DEF AU!BranchUpdated, Pulls, AU!Vers
    <3> QED BY <3>1, <2>1, <1>16, <1>0, <1>a DEF AU!BranchUpdated, AU!CallSucceeds, UpdateTypeOK
  <2>2. CASE AU!RebaseDependabotPR
    BY <2>2, <1>16, <1>0, <1>a DEF AU!RebaseDependabotPR, AU!CallSucceeds, UpdateTypeOK, OneCommentIsRemembered
  <2>3. CASE AU!LabelRenovatePR
    BY <2>3, <1>16, <1>0, <1>a DEF AU!LabelRenovatePR, AU!CallSucceeds, UpdateTypeOK
  <2> QED BY <2>1, <2>2, <2>3, <1>16 DEF AU!CallSucceeds
<1>17. CASE AU!CallFails
  <2>1. upd' \in Attempts /\ refused' \in 0..(UMaxVer + 1)
    <3>1. usnap.ver \in 0..UMaxVer /\ upd \in Attempts /\ refused \in 0..(UMaxVer + 1)
      BY <1>0, <1>b DEF UpdateTypeOK
    <3>2. [upd EXCEPT !.wait = "long"] \in Attempts
      BY <1>d, <3>1
    <3>3. usnap.ver \in 0..(UMaxVer + 1)
      BY <3>1
    <3> QED BY <1>17, <3>1, <3>2, <3>3 DEF AU!CallFails
  <2> QED BY <1>17, <1>0, <1>a, <2>1 DEF AU!CallFails, UpdateTypeOK
<1>18. CASE UNCHANGED AU!vars
  BY <1>18, <1>0, <1>a, <1>b, <1>c, <1>d, <1>e DEF AU!vars, UpdateTypeOK
<1> QED BY <1>1, <1>2, <1>3, <1>4, <1>5, <1>6, <1>7, <1>8, <1>9, <1>10, <1>11, <1>12, <1>13, <1>14, <1>15, <1>16, <1>17, <1>18 DEF AU!Next, AU!UPassStep

\* A comment is counted with dependabotAttempted, and both are forgotten together.
LEMMA CommentStep ==
  ASSUME UpdateInv, [AU!Next]_(AU!vars)
  PROVE  OneCommentIsRemembered'
<1> USE UpkeepAssumption DEF AU!forge, AU!settings, AU!umemory, AU!uhistory, AU!calm, AU!UEnd
<1> USE DEF AU!NoURow, AU!NoUpd, AU!NotLoaded, AU!NoVer
<1>0. /\ OneCommentIsRemembered /\ rebaseAsked \in 0..2 /\ kind \in AU!Kinds
      /\ watch \in BOOLEAN /\ earned \in BOOLEAN /\ attempted \in BOOLEAN /\ urow.behind \in BOOLEAN
  BY UpdateTypeOKIsTypeOK DEF UpdateInv, UpdateTypeOK, AU!URow
<1>1. CASE AU!UPullChanges
  BY <1>1, <1>0 DEF AU!UPullChanges, OneCommentIsRemembered
<1>2. CASE AU!UPublish
  BY <1>2, <1>0 DEF AU!UPublish, OneCommentIsRemembered
<1>3. CASE AU!SwitchRepo
  BY <1>3, <1>0 DEF AU!SwitchRepo, OneCommentIsRemembered
<1>4. CASE AU!ReadForChoice
  BY <1>4, <1>0 DEF AU!ReadForChoice, OneCommentIsRemembered
<1>5. CASE AU!SaveChoice
  BY <1>5, <1>0 DEF AU!SaveChoice, OneCommentIsRemembered
<1>6. CASE AU!UWaitPasses
  BY <1>6, <1>0 DEF AU!UWaitPasses, OneCommentIsRemembered
<1>7. CASE AU!URestart
  BY <1>7, <1>0 DEF AU!URestart, OneCommentIsRemembered
<1>8. CASE AU!UPassBegins
  BY <1>8, <1>0 DEF AU!UPassBegins, OneCommentIsRemembered
<1>9. CASE AU!UPassStops
  BY <1>9, <1>0 DEF AU!UPassStops, OneCommentIsRemembered
<1>10. CASE AU!Reconcile
  BY <1>10, <1>0 DEF AU!Reconcile, AU!Recreates, OneCommentIsRemembered
<1>11. CASE AU!LoadRepos
  BY <1>11, <1>0 DEF AU!LoadRepos, OneCommentIsRemembered
<1>12. CASE AU!LoadChoices
  BY <1>12, <1>0 DEF AU!LoadChoices, OneCommentIsRemembered
<1>13. CASE AU!LoadBots
  BY <1>13, <1>0 DEF AU!LoadBots, OneCommentIsRemembered
<1>14. CASE AU!ForgetStale
  BY <1>14, <1>0 DEF AU!ForgetStale, AU!Stale, OneCommentIsRemembered
<1>15. CASE AU!UpdateBehindPR
  BY <1>15, <1>0 DEF AU!UpdateBehindPR, AU!ToUpdate, OneCommentIsRemembered
<1>16. CASE AU!CallSucceeds
  <2>1. CASE AU!BranchUpdated
    BY <2>1, <1>16, <1>0 DEF AU!BranchUpdated, AU!CallSucceeds, OneCommentIsRemembered
  <2>2. CASE AU!RebaseDependabotPR
    BY <2>2, <1>16, <1>0 DEF AU!RebaseDependabotPR, AU!CallSucceeds, OneCommentIsRemembered
  <2>3. CASE AU!LabelRenovatePR
    BY <2>3, <1>16, <1>0 DEF AU!LabelRenovatePR, AU!CallSucceeds, OneCommentIsRemembered
  <2> QED BY <2>1, <2>2, <2>3, <1>16 DEF AU!CallSucceeds
<1>17. CASE AU!CallFails
  BY <1>17, <1>0 DEF AU!CallFails, OneCommentIsRemembered
<1>18. CASE UNCHANGED AU!vars
  BY <1>18, <1>0 DEF AU!vars, OneCommentIsRemembered
<1> QED BY <1>1, <1>2, <1>3, <1>4, <1>5, <1>6, <1>7, <1>8, <1>9, <1>10, <1>11, <1>12, <1>13, <1>14, <1>15, <1>16, <1>17, <1>18 DEF AU!Next, AU!UPassStep

\* A newer board, a new attempt or the end of the wait moves a refusal out of the
\* way; nothing else does.
LEMMA RefusalStep ==
  ASSUME UpdateInv, [AU!Next]_(AU!vars)
  PROVE  RefusalsAreRemembered'
<1> USE UpkeepAssumption DEF AU!forge, AU!settings, AU!umemory, AU!uhistory, AU!calm, AU!UEnd
<1> USE DEF AU!NoURow, AU!NoUpd, AU!NotLoaded, AU!NoVer
<1>0. /\ RefusalsAreRemembered /\ kind \in AU!Kinds
      /\ refused \in 0..(UMaxVer + 1)
      /\ urow.ver \in 0..UMaxVer /\ usnap.ver \in 0..UMaxVer /\ upull.ver \in 0..UMaxVer
      /\ upd \in Attempts /\ upd.ver \in 0..UMaxVer
  BY UpdateTypeOKIsTypeOK DEF UpdateInv, UpdateTypeOK, AU!URow, Pulls, Attempts, AU!Vers
<1>1. CASE AU!UPullChanges
  BY <1>1, <1>0 DEF AU!UPullChanges, RefusalsAreRemembered
<1>2. CASE AU!UPublish
  <2>1. urow'.ver = upull.ver \/ urow'.ver = urow.ver
    <3>1. urow \in AU!URow
      BY UpdateTypeOKIsTypeOK DEF UpdateInv, UpdateTypeOK
    <3> QED BY <1>2, <3>1 DEF AU!UPublish, AU!URow
  <2> QED BY <1>2, <1>0, <2>1 DEF AU!UPublish, RefusalsAreRemembered
<1>3. CASE AU!SwitchRepo
  BY <1>3, <1>0 DEF AU!SwitchRepo, RefusalsAreRemembered
<1>4. CASE AU!ReadForChoice
  BY <1>4, <1>0 DEF AU!ReadForChoice, RefusalsAreRemembered
<1>5. CASE AU!SaveChoice
  BY <1>5, <1>0 DEF AU!SaveChoice, RefusalsAreRemembered
<1>6. CASE AU!UWaitPasses
  BY <1>6, <1>0 DEF AU!UWaitPasses, RefusalsAreRemembered
<1>7. CASE AU!URestart
  BY <1>7, <1>0 DEF AU!URestart, RefusalsAreRemembered
<1>8. CASE AU!UPassBegins
  BY <1>8, <1>0 DEF AU!UPassBegins, RefusalsAreRemembered
<1>9. CASE AU!UPassStops
  BY <1>9, <1>0 DEF AU!UPassStops, RefusalsAreRemembered
<1>10. CASE AU!Reconcile
  BY <1>10, <1>0 DEF AU!Reconcile, AU!Recreates, RefusalsAreRemembered
<1>11. CASE AU!LoadRepos
  BY <1>11, <1>0 DEF AU!LoadRepos, RefusalsAreRemembered
<1>12. CASE AU!LoadChoices
  BY <1>12, <1>0 DEF AU!LoadChoices, RefusalsAreRemembered
<1>13. CASE AU!LoadBots
  BY <1>13, <1>0 DEF AU!LoadBots, RefusalsAreRemembered
<1>14. CASE AU!ForgetStale
  BY <1>14, <1>0 DEF AU!ForgetStale, AU!Stale, RefusalsAreRemembered
<1>15. CASE AU!UpdateBehindPR
  <2>1. CASE AU!ToUpdate /\ kind = "plain"
    <3>1. upd' = [ver |-> usnap.ver, wait |-> "short"] /\ upc' = "call"
      BY <2>1, <1>15 DEF AU!UpdateBehindPR
    <3>2. upd.ver # usnap.ver \/ upd.wait # "long"
      BY <2>1 DEF AU!ToUpdate, AU!UStands
    <3>3. upd'.ver = usnap.ver /\ upd'.wait = "short"
      BY <3>1
    <3> QED BY <2>1, <1>15, <1>0, <3>1, <3>2, <3>3 DEF AU!UpdateBehindPR, RefusalsAreRemembered
  <2>2. CASE AU!ToUpdate /\ kind # "plain"
    BY <2>2, <1>15, <1>0 DEF AU!UpdateBehindPR, RefusalsAreRemembered
  <2>3. CASE ~AU!ToUpdate
    BY <2>3, <1>15, <1>0 DEF AU!UpdateBehindPR, RefusalsAreRemembered
  <2> QED BY <2>1, <2>2, <2>3
<1>16. CASE AU!CallSucceeds
  <2>1. CASE AU!BranchUpdated
    BY <2>1, <1>16, <1>0 DEF AU!BranchUpdated, AU!CallSucceeds, RefusalsAreRemembered
  <2>2. CASE AU!RebaseDependabotPR
    BY <2>2, <1>16, <1>0 DEF AU!RebaseDependabotPR, AU!CallSucceeds, RefusalsAreRemembered
  <2>3. CASE AU!LabelRenovatePR
    BY <2>3, <1>16, <1>0 DEF AU!LabelRenovatePR, AU!CallSucceeds, RefusalsAreRemembered
  <2> QED BY <2>1, <2>2, <2>3, <1>16 DEF AU!CallSucceeds
<1>17. CASE AU!CallFails
  <2>1. CASE upd' = [upd EXCEPT !.wait = "long"] /\ refused' = usnap.ver /\ kind = "plain"
    <3>1. upd'.ver = upd.ver /\ upd'.wait = "long"
      BY <2>1, <1>0 DEF Attempts
    <3> QED BY <2>1, <1>17, <1>0, <3>1 DEF AU!CallFails, RefusalsAreRemembered
  <2>2. CASE UNCHANGED <<upd, refused>>
    BY <2>2, <1>17, <1>0 DEF AU!CallFails, RefusalsAreRemembered
  <2> QED BY <2>1, <2>2, <1>17 DEF AU!CallFails
<1>18. CASE UNCHANGED AU!vars
  BY <1>18, <1>0 DEF AU!vars, RefusalsAreRemembered
<1> QED BY <1>1, <1>2, <1>3, <1>4, <1>5, <1>6, <1>7, <1>8, <1>9, <1>10, <1>11, <1>12, <1>13, <1>14, <1>15, <1>16, <1>17, <1>18 DEF AU!Next, AU!UPassStep

\* A choice is saved with what was known of the pull request's end, and every
\* later end is noted.
LEMMA ChoiceStep ==
  ASSUME UpdateInv, [AU!Next]_(AU!vars)
  PROVE  ChoicesAreCurrent'
<1> USE UpkeepAssumption DEF AU!forge, AU!settings, AU!umemory, AU!uhistory, AU!calm, AU!UEnd
<1> USE DEF AU!NoURow, AU!NoUpd, AU!NotLoaded, AU!NoVer
<1> USE DEF AU!Gone
<1>0. /\ ChoicesAreCurrent /\ choice \in AU!Choices /\ changed \in BOOLEAN /\ uended \in BOOLEAN
      /\ loaded \in Loads /\ urow \in AU!URow /\ usnap \in AU!URow /\ upull \in Pulls
  BY UpdateTypeOKIsTypeOK DEF UpdateInv, UpdateTypeOK
<1>1. CASE AU!UPullChanges
  <2>1. PICK o, b, d \in BOOLEAN, c \in {"pending", "failure", "success"} :
          /\ upull' = [open |-> o, ver |-> upull.ver + 1, behind |-> b, draft |-> d, ci |-> c]
          /\ uended' = (uended \/ ~o)
    BY <1>1 DEF AU!UPullChanges
  <2>2. upull'.open = o
    BY <2>1
  <2> QED BY <1>1, <1>0, <2>1, <2>2 DEF AU!UPullChanges, ChoicesAreCurrent
<1>2. CASE AU!UPublish
  <2>1. AU!Gone(urow') => ~upull.open
    BY <1>2, <1>0 DEF AU!UPublish, AU!URow
  <2> HIDE DEF AU!Gone
  <2> QED BY <1>2, <1>0, <2>1 DEF AU!UPublish, ChoicesAreCurrent
<1>3. CASE AU!SwitchRepo
  BY <1>3, <1>0 DEF AU!SwitchRepo, ChoicesAreCurrent
<1>4. CASE AU!ReadForChoice
  BY <1>4, <1>0 DEF AU!ReadForChoice, ChoicesAreCurrent
<1>5. CASE AU!SaveChoice
  BY <1>5, <1>0 DEF AU!SaveChoice, ChoicesAreCurrent
<1>6. CASE AU!UWaitPasses
  BY <1>6, <1>0 DEF AU!UWaitPasses, ChoicesAreCurrent
<1>7. CASE AU!URestart
  BY <1>7, <1>0 DEF AU!URestart, ChoicesAreCurrent
<1>8. CASE AU!UPassBegins
  BY <1>8, <1>0 DEF AU!UPassBegins, ChoicesAreCurrent
<1>9. CASE AU!UPassStops
  BY <1>9, <1>0 DEF AU!UPassStops, ChoicesAreCurrent
<1>10. CASE AU!Reconcile
  BY <1>10, <1>0 DEF AU!Reconcile, AU!Recreates, ChoicesAreCurrent
<1>11. CASE AU!LoadRepos
  <2>1. loaded'.choice = "none" /\ (upc' = "choices" => loaded'.repo = repoOn)
    BY <1>11, <1>0 DEF AU!LoadRepos, ChoicesAreCurrent, Loads
  <2> QED BY <1>11, <1>0, <2>1 DEF AU!LoadRepos, ChoicesAreCurrent
<1>12. CASE AU!LoadChoices
  <2>1. loaded'.choice \in {choice, "none"} /\ loaded'.repo = loaded.repo
    BY <1>12, <1>0 DEF AU!LoadChoices, ChoicesAreCurrent, Loads
  <2> QED BY <1>12, <1>0, <2>1 DEF AU!LoadChoices, ChoicesAreCurrent
<1>13. CASE AU!LoadBots
  <2>1. upc' = "forget" => loaded'.choice = loaded.choice /\ loaded'.repo = loaded.repo
    BY <1>13, <1>0 DEF AU!LoadBots, Loads
  <2> QED BY <1>13, <1>0, <2>1 DEF AU!LoadBots, ChoicesAreCurrent
<1>14. CASE AU!ForgetStale
  BY <1>14, <1>0 DEF AU!ForgetStale, AU!Stale, ChoicesAreCurrent
<1>15. CASE AU!UpdateBehindPR
  BY <1>15, <1>0 DEF AU!UpdateBehindPR, AU!ToUpdate, ChoicesAreCurrent
<1>16. CASE AU!CallSucceeds
  <2>1. CASE AU!BranchUpdated
    BY <2>1, <1>16, <1>0 DEF AU!BranchUpdated, AU!CallSucceeds, ChoicesAreCurrent
  <2>2. CASE AU!RebaseDependabotPR
    BY <2>2, <1>16, <1>0 DEF AU!RebaseDependabotPR, AU!CallSucceeds, ChoicesAreCurrent
  <2>3. CASE AU!LabelRenovatePR
    BY <2>3, <1>16, <1>0 DEF AU!LabelRenovatePR, AU!CallSucceeds, ChoicesAreCurrent
  <2> QED BY <2>1, <2>2, <2>3, <1>16 DEF AU!CallSucceeds
<1>17. CASE AU!CallFails
  BY <1>17, <1>0 DEF AU!CallFails, ChoicesAreCurrent
<1>18. CASE UNCHANGED AU!vars
  BY <1>18, <1>0 DEF AU!vars, ChoicesAreCurrent
<1> QED BY <1>1, <1>2, <1>3, <1>4, <1>5, <1>6, <1>7, <1>8, <1>9, <1>10, <1>11, <1>12, <1>13, <1>14, <1>15, <1>16, <1>17, <1>18 DEF AU!Next, AU!UPassStep

\* The invariant is inductive.
LEMMA UpdateStep == UpdateInv /\ [AU!Next]_(AU!vars) => UpdateInv'
<1> SUFFICES ASSUME UpdateInv, [AU!Next]_(AU!vars) PROVE UpdateInv'
  OBVIOUS
<1>1. UpdateTypeOK' => AU!TypeOK'
  <2>1. (0..(UMaxVer + 1))' = (AU!Vers \cup {AU!NoVer})'
    BY UpkeepAssumption DEF AU!Vers, AU!NoVer
  <2> QED BY <2>1 DEF AU!TypeOK, UpdateTypeOK, Pulls, Attempts, Loads
<1> QED BY <1>1, UpdateTypes, CommentStep, RefusalStep, ChoiceStep DEF UpdateInv

\* What the invariant says of the calls the pass makes: one rebase comment, an
\* earned recreate, a conflict left alone, and only what updatePending wants.
LEMMA UpdateInvSuffices ==
  UpdateInv => /\ AU!TypeOK /\ AU!OneRebaseWhileBehind /\ AU!RecreateIsEarned
               /\ AU!ConflictStands /\ AU!PassActsOnThePending
<1> SUFFICES ASSUME UpdateInv
             PROVE  /\ AU!TypeOK /\ AU!OneRebaseWhileBehind /\ AU!RecreateIsEarned
                    /\ AU!ConflictStands /\ AU!PassActsOnThePending
  OBVIOUS
<1>1. AU!TypeOK /\ OneCommentIsRemembered /\ RefusalsAreRemembered
  BY DEF UpdateInv
<1>2. AU!OneRebaseWhileBehind /\ AU!RecreateIsEarned
  BY <1>1 DEF OneCommentIsRemembered, AU!OneRebaseWhileBehind, AU!RecreateIsEarned
<1>3. AU!ConflictStands
  <2>1. usnap.ver \in 0..UMaxVer /\ refused \in 0..(UMaxVer + 1)
    BY <1>1, UpdateTypeOKIsTypeOK DEF UpdateTypeOK, AU!URow, AU!Vers
  <2> QED BY <1>1, <2>1, UpkeepAssumption DEF RefusalsAreRemembered, AU!ConflictStands, AU!NoVer
<1>4. AU!PassActsOnThePending
  <2> SUFFICES ASSUME AU!ToUpdate, usnap = urow,
                      loaded = [repo |-> repoOn, bots |-> botsOn, choice |-> choice]
               PROVE  AU!UpdatePending
    BY DEF AU!PassActsOnThePending
  <2>1. urow.behind /\ AU!autoUpdateWanted(urow, [repo |-> repoOn, bots |-> botsOn, choice |-> choice])
    BY DEF AU!ToUpdate
  <2>2. kind = "dependabot" => ~attempted
    BY DEF AU!ToUpdate
  <2>3. kind = "plain" => ~AU!UStands(upd, urow.ver)
    BY DEF AU!ToUpdate
  <2>4. kind # "plain" => ~AU!UStands(upd, urow.ver)
    BY <1>1 DEF RefusalsAreRemembered, AU!UStands, AU!NoUpd
  <2> QED BY <2>1, <2>2, <2>3, <2>4, Zenon DEF AU!UpdatePending
<1> QED BY <1>1, <1>2, <1>3, <1>4

\* forgetStaleAutoUpdateChoices deletes what it read, and that still stands.
LEMMA ChoiceIsKeptStep ==
  UpdateInv /\ [AU!Next]_(AU!vars) =>
    [(upc = "forget" /\ upc' # upc /\ choice # "none" /\ choice' = "none")
       => (uended \/ changed \/ choice = AU!On(repoOn))]_(AU!vars)
<1> SUFFICES ASSUME UpdateInv, [AU!Next]_(AU!vars), upc = "forget", upc' # upc,
                    choice # "none", choice' = "none", ~uended, ~changed
             PROVE  choice = AU!On(repoOn)
  OBVIOUS
<1>1. ChoicesAreCurrent
  BY DEF UpdateInv
<1>2. AU!ForgetStale \/ AU!SaveChoice \/ AU!URestart
  BY DEF AU!Next, AU!UPassStep, AU!vars, AU!settings, AU!forge, AU!umemory, AU!uhistory,
         AU!UPullChanges, AU!UPublish, AU!SwitchRepo, AU!ReadForChoice, AU!UWaitPasses,
         AU!UPassBegins, AU!UPassStops, AU!Reconcile, AU!LoadRepos, AU!LoadChoices,
         AU!LoadBots, AU!UpdateBehindPR, AU!CallSucceeds, AU!CallFails
<1>3. AU!ForgetStale
  BY <1>2 DEF AU!SaveChoice, AU!URestart
<1>4. AU!Stale
  BY <1>3 DEF AU!ForgetStale
<1>5. ~AU!Gone(usnap)
  BY <1>1 DEF ChoicesAreCurrent
<1> QED BY <1>1, <1>4, <1>5 DEF AU!Stale, ChoicesAreCurrent, AU!On

-----------------------------------------------------------------------------
(* The CI poll schedule *)

\* What bounds the time an item on the board goes unread: first the interval
\* that is left, then the tick it is waited for; once held for a webhook, the
\* time since that hold began, and at last one more tick.
UnreadIsBounded ==
  LET Delay == Base + MaxLate IN
  /\ held = PS!Absent =>
       unread <= IF entry.next > 0 THEN PS!Roof - entry.next ELSE PS!Roof + tick
  /\ held # PS!Absent =>
       unread <= IF held < PS!Roof THEN PS!Roof + Delay + held ELSE 2 * PS!Roof + Delay + tick
  /\ followUp /\ ~covered =>
       unread <= IF entry.next > 0 THEN Base - entry.next ELSE Base + tick

\* An item is held only once it is due and its webhook is confirmed; the bound
\* is the run's property, kept while the item is off the board.
PollInv ==
  /\ PS!PollTypeOK
  /\ blocked => unread = 0
  /\ held # PS!Absent => PS!Due
  /\ ~covered => held = PS!Absent
  /\ followUp => entry.next <= Base
  /\ PS!NothingGoesUnread
  /\ live => UnreadIsBounded

\* The roof is the longer of the cap and the interval.
LEMMA RoofIsNat == PS!Roof \in Nat /\ PS!Roof >= Base /\ PS!Roof >= Cap
<1>1. PS!Roof = Max({Cap, Base})
  BY DEF PS!Roof, PS!Max, Max
<1> QED BY <1>1, MaxOfTwo, UpkeepAssumption

LEMMA PollMinOfTwo == ASSUME NEW a \in Nat, NEW b \in Nat
                      PROVE  PS!Min({a, b}) = IF a <= b THEN a ELSE b
<1>1. PS!Min({a, b}) = Min({a, b})
  BY DEF PS!Min, Min
<1> QED BY <1>1, MinOfTwo

\* Nothing is listed at first.
LEMMA PollsInit == PS!PollInit => PollInv
<1> SUFFICES ASSUME PS!PollInit PROVE PollInv
  OBVIOUS
<1>1. entry = [next |-> 0, interval |-> 0] /\ entry.next = 0
      /\ [next |-> 0, interval |-> 0] \in [next : 0..PS!Roof, interval : 0..PS!Roof]
  BY RoofIsNat DEF PS!PollInit, PS!NoEntry
<1>2. PS!PollTypeOK
  <2>1. /\ Overdue + 1 \in 0..Overdue + 1 /\ PS!Absent \in 0..PS!Absent
        /\ 0 \in 0..Base + MaxLate /\ 0 \in 0..PS!Longest
    BY UpkeepAssumption DEF PS!Absent, PS!Longest
  <2> QED BY <1>1, <2>1 DEF PS!PollInit, PS!PollTypeOK
<1>3. PS!NothingGoesUnread
  BY RoofIsNat, UpkeepAssumption DEF PS!PollInit, PS!NothingGoesUnread
<1>4. ~live /\ held = PS!Absent /\ unread = 0 /\ followUp = FALSE
  BY DEF PS!PollInit
<1> QED BY <1>2, <1>3, <1>4 DEF PollInv

\* Each unit of time and each tick keeps the bounds.
LEMMA PollsStep == PollInv /\ [PS!PollNext]_(PS!pvars) => PollInv'
<1> SUFFICES ASSUME PollInv, [PS!PollNext]_(PS!pvars) PROVE PollInv'
  OBVIOUS
<1> USE UpkeepAssumption
<1>0. /\ PS!PollTypeOK /\ entry.next \in 0..PS!Roof /\ entry.interval \in 0..PS!Roof
      /\ PS!Roof \in Nat /\ Base <= PS!Roof /\ PS!Absent = 3 * Cap + 1 /\ PS!Longest = 3 * Cap
      /\ heard \in 0..Overdue + 1 /\ held \in 0..PS!Absent /\ tick \in 0..Base + MaxLate
      /\ unread \in 0..PS!Longest
      /\ covered \in BOOLEAN /\ followUp \in BOOLEAN /\ live \in BOOLEAN /\ blocked \in BOOLEAN
      /\ entry \in [next : 0..PS!Roof, interval : 0..PS!Roof]
  BY RoofIsNat DEF PollInv, PS!PollTypeOK, PS!Absent, PS!Longest
<1>1. CASE PS!Pass
  <2>1. PICK n, m, u \in Nat : /\ n = (IF entry.next > 1 THEN entry.next - 1 ELSE 0)
                               /\ m = (IF held < PS!Longest THEN held + 1 ELSE PS!Longest)
                               /\ u = (IF unread < PS!Longest THEN unread + 1 ELSE PS!Longest)
    BY <1>0
  <2>2. entry' = [next |-> n, interval |-> entry.interval] /\ entry'.next = n
    BY <1>1, <1>0, <2>1 DEF PS!Pass, PS!Minus
  <2>3. PS!Min({unread + 1, PS!Longest}) = u /\ PS!Min({held + 1, PS!Longest}) = m
    BY <1>0, <2>1, PollMinOfTwo
  <2>4. heard' \in 0..Overdue + 1
    <3>1. heard + 1 \in Nat /\ Overdue + 1 \in Nat
      BY <1>0
    <3>2. PS!Min({heard + 1, Overdue + 1}) \in 0..Overdue + 1
      BY <3>1, PollMinOfTwo
    <3> QED BY <1>1, <3>2 DEF PS!Pass
  <2>5. /\ tick' = tick + 1 /\ tick + 1 <= Base + MaxLate
        /\ held' = (IF held = PS!Absent THEN PS!Absent ELSE m)
        /\ unread' = (IF live /\ ~blocked THEN u ELSE 0)
        /\ UNCHANGED <<pollKind, live, armedItem, covered, blocked, followUp>>
    BY <1>1, <1>0, <2>3 DEF PS!Pass
  <2>6. PS!PollTypeOK'
    BY <1>0, <2>1, <2>2, <2>4, <2>5 DEF PS!PollTypeOK
  <2>7. (held' # PS!Absent => PS!Due')
    BY <1>0, <2>1, <2>2, <2>5 DEF PollInv, PS!Due, PS!NoEntry
  <2>8. live /\ ~blocked => UnreadIsBounded'
    BY <1>0, <2>1, <2>2, <2>5 DEF PollInv, UnreadIsBounded, PS!Roof, PS!Absent
  <2>9. ~live \/ blocked => UnreadIsBounded'
    BY <1>0, <2>1, <2>2, <2>5 DEF PollInv, UnreadIsBounded
  <2>10. PS!NothingGoesUnread'
    BY <1>0, <2>1, <2>2, <2>5, <2>8 DEF PollInv, UnreadIsBounded, PS!NothingGoesUnread
  <2> QED BY <1>0, <2>1, <2>2, <2>5, <2>6, <2>7, <2>8, <2>9, <2>10 DEF PollInv
<1>2. CASE PS!BoardChanges
  <2>1. /\ unread' = (IF live THEN unread ELSE 0) /\ live' \in BOOLEAN /\ armedItem' \in BOOLEAN
        /\ UNCHANGED <<pollKind, covered, heard, blocked, entry, held, tick, followUp>>
    BY <1>2 DEF PS!BoardChanges
  <2>2. UnreadIsBounded' \/ ~live'
    BY <1>0, <2>1 DEF PollInv, UnreadIsBounded
  <2> QED BY <1>0, <2>1, <2>2 DEF PollInv, PS!PollTypeOK, PS!NothingGoesUnread, PS!Due
<1>3. CASE PS!Delivery
  BY <1>3, <1>0 DEF PollInv, PS!Delivery, PS!PollTypeOK, PS!NothingGoesUnread, PS!Due, UnreadIsBounded
<1>4. CASE PS!ForgeTurns
  <2>1. UnreadIsBounded' /\ PS!NothingGoesUnread'
    BY <1>4, <1>0 DEF PollInv, PS!ForgeTurns, UnreadIsBounded, PS!NothingGoesUnread
  <2> QED BY <1>4, <1>0, <2>1 DEF PollInv, PS!ForgeTurns, PS!PollTypeOK, PS!Due
<1>5. CASE PS!KeepOnly
  <2>1. /\ ~live' /\ held' = PS!Absent /\ tick' = 0 /\ followUp' = FALSE
        /\ entry' = [next |-> 0, interval |-> 0]
        /\ UNCHANGED <<pollKind, live, armedItem, covered, heard, blocked, unread>>
    BY <1>5, <1>0 DEF PS!KeepOnly, PS!NoEntry
  <2>2. PS!PollTypeOK'
    <3>1. entry' \in [next : 0..PS!Roof, interval : 0..PS!Roof]
      BY <1>0, <2>1
    <3>2. held' \in 0..PS!Absent /\ tick' \in 0..Base + MaxLate
      BY <1>0, <2>1
    <3> QED BY <1>0, <2>1, <3>1, <3>2 DEF PS!PollTypeOK
  <2> QED BY <1>0, <2>1, <2>2 DEF PollInv, PS!NothingGoesUnread
<1>6. CASE PS!LeaveBe
  <2>1. /\ tick' = 0 /\ live
        /\ UNCHANGED <<pollKind, live, armedItem, covered, heard, blocked, entry, unread, followUp>>
    BY <1>6 DEF PS!LeaveBe
  <2>2. held' = held \/ (held = PS!Absent /\ held' = 0 /\ PS!Due /\ PS!LeftToWebhook)
    BY <1>6 DEF PS!LeaveBe, PS!HoldStarted
  <2>3. blocked \/ ~PS!Due \/ (PS!LeftToWebhook /\ held' # PS!Absent /\ (held = PS!Absent \/ held < PS!Roof))
    BY <1>6, <1>0 DEF PS!LeaveBe, PS!Waits, PS!HoldOff, PS!HoldStarted
  <2>4. PS!Due' = PS!Due
    BY <2>1 DEF PS!Due
  <2>5. PS!LeftToWebhook => covered
    BY DEF PS!LeftToWebhook
  <2>6. ~PS!Due => entry.next > 0
    BY <1>0 DEF PS!Due
  <2>7. UnreadIsBounded'
    <3>1. CASE blocked
      BY <1>0, <2>1, <2>2, <3>1 DEF PollInv, UnreadIsBounded
    <3>2. CASE ~PS!Due
      BY <1>0, <2>1, <2>2, <2>6, <3>2 DEF PollInv, UnreadIsBounded
    <3>3. CASE ~blocked /\ PS!Due
      BY <1>0, <2>1, <2>2, <2>3, <2>5, <3>3 DEF PollInv, UnreadIsBounded
    <3> QED BY <3>1, <3>2, <3>3
  <2>8. PS!PollTypeOK'
    BY <1>0, <2>1, <2>2 DEF PS!PollTypeOK
  <2> QED BY <1>0, <2>1, <2>2, <2>4, <2>5, <2>7, <2>8 DEF PollInv, PS!NothingGoesUnread
<1>7. CASE PS!Read
  <2>1. /\ tick' = 0 /\ unread' = 0
        /\ UNCHANGED <<pollKind, live, armedItem, covered, heard, blocked>>
    BY <1>7 DEF PS!Read
  <2>2. CASE armedItem
    <3>1. entry' = entry /\ held' = held /\ followUp' = FALSE
      BY <1>7, <2>2 DEF PS!Read
    <3>2. UnreadIsBounded' /\ PS!NothingGoesUnread'
      BY <1>0, <2>1, <3>1 DEF UnreadIsBounded, PS!NothingGoesUnread
    <3>3. PS!PollTypeOK'
      <4>1. 0 \in 0..Base + MaxLate /\ 0 \in 0..PS!Longest
        BY <1>0
      <4> QED BY <1>0, <2>1, <3>1, <4>1 DEF PS!PollTypeOK
    <3>4. PS!Due => PS!Due'
      BY <3>1 DEF PS!Due
    <3> QED BY <1>0, <2>1, <3>1, <3>2, <3>3, <3>4 DEF PollInv
  <2>3. CASE ~armedItem
    <3>1. PICK changes \in BOOLEAN : entry' = PS!Polled(changes) /\ followUp' = changes
      BY <1>7, <2>3 DEF PS!Read
    <3>2. PICK i \in 0..PS!Roof : /\ i = (IF entry = PS!NoEntry \/ changes THEN Base ELSE entry.interval)
      BY <1>0
    <3>3. entry' = [next |-> i, interval |-> PS!Min({2 * i, PS!Roof})]
      BY <3>1, <3>2 DEF PS!Polled
    <3>4. PS!Min({2 * i, PS!Roof}) \in 0..PS!Roof
      <4>1. 2 * i \in Nat
        BY <1>0
      <4> QED BY <1>0, <4>1, PollMinOfTwo
    <3>5. entry' \in [next : 0..PS!Roof, interval : 0..PS!Roof] /\ entry'.next = i
      BY <3>3, <3>4
    <3>6. held' = PS!Absent
      BY <1>7, <2>3 DEF PS!Read
    <3>7. PS!PollTypeOK'
      BY <1>0, <2>1, <3>1, <3>5, <3>6 DEF PS!PollTypeOK
    <3> QED BY <1>0, <2>1, <3>1, <3>2, <3>5, <3>6, <3>7 DEF PollInv, UnreadIsBounded, PS!NothingGoesUnread
  <2> QED BY <2>2, <2>3
<1>8. CASE UNCHANGED PS!pvars
  BY <1>8, <1>0 DEF PS!pvars, PollInv, UnreadIsBounded, PS!PollTypeOK, PS!NothingGoesUnread, PS!Due
<1> QED BY <1>1, <1>2, <1>3, <1>4, <1>5, <1>6, <1>7, <1>8 DEF PS!PollNext

-----------------------------------------------------------------------------
(* The reserve of the budget *)

\* The board's figure is what the forge has left, unless something was spent
\* since, its window is over, or it was never read.
FigureIsCurrent == behind \/ windowOver \/ figure = BU!Unknown \/ figure = left

BudgetInv ==
  /\ BU!BudgetTypeOK
  /\ FigureIsCurrent
  /\ BU!ScheduledRefreshLeavesTheReserve

LEMMA BudgetMaxMin == ASSUME NEW S PROVE BU!Max(S) = Max(S) /\ BU!Min(S) = Min(S)
BY DEF BU!Max, BU!Min, Max, Min

\* reserveOf is between nothing and half of the limit, and holds a tenth of it.
LEMMA ReserveIsShare ==
  ASSUME NEW limit \in Nat
  PROVE  /\ BU!ReserveOf(limit) \in 0..(limit \div 2)
         /\ \A n \in Nat : n <= limit \div 10 => n <= BU!ReserveOf(limit)
<1>1. limit \div 10 \in Nat /\ limit \div 2 \in Nat /\ limit \div 10 <= limit \div 2
  OBVIOUS
<1>2. Max({Floor, limit \div 10}) \in Nat /\ Max({Floor, limit \div 10}) >= limit \div 10
  BY <1>1, MaxOfTwo, UpkeepAssumption
<1>3. BU!ReserveOf(limit) = Min({Max({Floor, limit \div 10}), limit \div 2})
  BY BudgetMaxMin DEF BU!ReserveOf
<1> QED BY <1>1, <1>2, <1>3, MinOfTwo

\* lastCost: at least nothing, and no less than any refresh in the window.
LEMMA LastCostIsNat ==
  ASSUME BU!BudgetTypeOK
  PROVE  BU!LastCost \in 0..MaxCost
<1> DEFINE S == {0} \cup {costs[i] : i \in 1..Len(costs)}
<1>1. S \in SUBSET (0..MaxCost) /\ 0 \in S
  <2>1. costs \in Seq(0..MaxCost)
    BY DEF BU!BudgetTypeOK
  <2>2. \A i \in 1..Len(costs) : costs[i] \in 0..MaxCost
    BY <2>1, ElementOfSeq, Zenon
  <2>3. 0 \in 0..MaxCost
    BY UpkeepAssumption
  <2> QED BY <2>2, <2>3
<1>2. BU!LastCost = Max(S)
  BY BudgetMaxMin DEF BU!LastCost
<1> HIDE DEF S
<1>3. S \in SUBSET Int /\ S # {} /\ (\A x \in S : x <= MaxCost) /\ MaxCost \in Int
  BY <1>1, UpkeepAssumption
<1>4. Max(S) \in S
  BY <1>3, MaxIsGreatest
<1> QED BY <1>1, <1>2, <1>4

\* Nothing has been spent.
LEMMA BudgetsInit == BU!BudgetInit => BudgetInv
<1> SUFFICES ASSUME BU!BudgetInit PROVE BudgetInv
  OBVIOUS
<1>1. Limit \in 0..Limit /\ BU!Unknown \in 0..BU!Unknown
  BY UpkeepAssumption DEF BU!Unknown
<1>2. << >> \in Seq(0..MaxCost) /\ Len(<< >>) <= BU!CostWindow
  BY DEF BU!CostWindow
<1>3. BU!BudgetTypeOK
  BY <1>1, <1>2 DEF BU!BudgetInit, BU!BudgetTypeOK, BU!Kinds
<1> QED BY <1>3 DEF BU!BudgetInit, BudgetInv, FigureIsCurrent, BU!ScheduledRefreshLeavesTheReserve

\* A scheduled refresh went by a figure above the reserve and the last cost.
LEMMA BudgetsStep == BudgetInv /\ [BU!BudgetNext]_(BU!bvars) => BudgetInv'
<1> SUFFICES ASSUME BudgetInv, [BU!BudgetNext]_(BU!bvars) PROVE BudgetInv'
  OBVIOUS
<1> USE UpkeepAssumption
<1>0. /\ BU!BudgetTypeOK /\ BU!LastCost \in 0..MaxCost /\ BU!Reserve \in 0..Limit
      /\ BU!Unknown = Limit + 1
  BY LastCostIsNat, ReserveIsShare DEF BudgetInv, BU!Reserve, BU!Unknown
<1>1. ASSUME NEW who \in {"full", "person"}, NEW cost \in 0..MaxCost, BU!FullRefresh(who, cost)
      PROVE  BudgetInv'
  <2>1. left' \in 0..Limit /\ figure' = left' /\ windowOver' = FALSE /\ behind' = FALSE /\ spender' = who
    BY <1>1, <1>0 DEF BU!FullRefresh, BU!BudgetTypeOK
  <2>2. costs' \in Seq(0..MaxCost) /\ Len(costs') <= BU!CostWindow
    <3>1. costs \in Seq(0..MaxCost) /\ Len(costs) <= 3
      BY <1>0 DEF BU!BudgetTypeOK, BU!CostWindow
    <3>2. Append(costs, cost) \in Seq(0..MaxCost) /\ Len(Append(costs, cost)) = Len(costs) + 1
      BY <3>1
    <3>3. Tail(Append(costs, cost)) \in Seq(0..MaxCost) /\ Len(Tail(Append(costs, cost))) = Len(costs)
      BY <3>1, <3>2
    <3>4. costs' \in {costs, Append(costs, cost), Tail(Append(costs, cost))}
          /\ (costs' = Append(costs, cost) => Len(Append(costs, cost)) <= 3 \/ costs' = Tail(Append(costs, cost)))
      BY <1>1 DEF BU!FullRefresh, BU!CostWindow
    <3> HIDE DEF BU!FullRefresh
    <3> QED BY <3>1, <3>2, <3>3, <3>4 DEF BU!CostWindow
  <2>3. surprise' \in BOOLEAN
    BY <1>1 DEF BU!FullRefresh
  <2>4. BU!BudgetTypeOK'
    <3>1. figure' \in 0..BU!Unknown
      BY <1>0, <2>1
    <3> QED BY <2>1, <2>2, <2>3, <3>1 DEF BU!BudgetTypeOK, BU!Kinds
  <2>5. BU!ScheduledRefreshLeavesTheReserve'
    <3> SUFFICES ASSUME who = "full", ~surprise' PROVE left' > BU!Reserve
      BY <2>1 DEF BU!ScheduledRefreshLeavesTheReserve, BU!Reserve, BU!ReserveOf
    <3>1. ~behind /\ ~windowOver /\ figure # BU!Unknown /\ ~(cost > BU!LastCost)
      BY <1>1 DEF BU!FullRefresh
    <3>2. figure = left
      BY <3>1 DEF BudgetInv, FigureIsCurrent
    <3>3. ~(figure <= BU!Reserve + BU!LastCost)
      BY <1>1, <3>1 DEF BU!FullRefresh, BU!BudgetHold
    <3>4. left' = left - cost
      BY <1>1, <1>0, <3>1, <3>2, <3>3 DEF BU!FullRefresh, BU!BudgetTypeOK
    <3> QED BY <1>0, <3>1, <3>2, <3>3, <3>4 DEF BU!BudgetTypeOK
  <2> QED BY <2>1, <2>4, <2>5 DEF BudgetInv, FigureIsCurrent
<1>2. ASSUME NEW who \in {"poll", "webhook"}, BU!SmallRead(who)
      PROVE  BudgetInv'
  BY <1>2, <1>0 DEF BudgetInv, BU!SmallRead, BU!BudgetTypeOK, BU!Kinds, FigureIsCurrent,
                    BU!ScheduledRefreshLeavesTheReserve
<1>3. CASE BU!WindowTurns
  BY <1>3, <1>0 DEF BudgetInv, BU!WindowTurns, BU!BudgetTypeOK, FigureIsCurrent,
                    BU!ScheduledRefreshLeavesTheReserve, BU!Reserve, BU!ReserveOf
<1>4. CASE UNCHANGED BU!bvars
  BY <1>4, <1>0 DEF BudgetInv, BU!bvars, BU!BudgetTypeOK, FigureIsCurrent,
                    BU!ScheduledRefreshLeavesTheReserve, BU!Reserve, BU!ReserveOf
<1> QED BY <1>1, <1>2, <1>3, <1>4 DEF BU!BudgetNext

\* stretchedInterval is never shorter than the interval, nor longer than it and
\* the roof.
LEMMA StretchIsLonger ==
  ASSUME NEW interval \in Nat \ {0}
  PROVE  BU!StretchedInterval(interval) \in Nat
         /\ BU!StretchedInterval(interval) >= interval
         /\ (BU!StretchedInterval(interval) <= interval \/ BU!StretchedInterval(interval) <= StretchRoof)
<1>1. BU!Min({4 * interval, StretchRoof}) = (IF 4 * interval <= StretchRoof THEN 4 * interval ELSE StretchRoof)
  BY BudgetMaxMin, MinOfTwo, UpkeepAssumption
<1> QED BY <1>1, UpkeepAssumption DEF BU!StretchedInterval

\* NextRefreshDelay for any set of budgets: the wait is the interval or one of
\* the waits for a reset, and no longer than any bound on both.
LEMMA DelayIsInterval ==
  ASSUME NEW budgets, NEW interval \in Nat,
         \A d \in budgets : d.untilReset \in Int
  PROVE  LET delay == BU!NextRefreshDelay(budgets, interval) IN
         /\ delay \in Int /\ delay >= interval
         /\ delay <= interval \/ delay <= MaxBackoff
         /\ delay > interval =>
              \E d \in budgets : /\ BU!CriticallyLow(d) /\ d.remaining # 0
                                 /\ delay <= d.untilReset + BackoffBuffer
<1> DEFINE wait(d) == Min({d.untilReset + BackoffBuffer, MaxBackoff})
           low == {d \in budgets : BU!CriticallyLow(d) /\ d.remaining # 0}
           S == {interval} \cup {wait(d) : d \in low}
           delay == BU!NextRefreshDelay(budgets, interval)
<1>1. \A d \in low : wait(d) \in Int /\ wait(d) <= d.untilReset + BackoffBuffer /\ wait(d) <= MaxBackoff
  <2> TAKE d \in low
  <2>1. d.untilReset + BackoffBuffer \in Int /\ MaxBackoff \in Int
    BY UpkeepAssumption
  <2> QED BY <2>1, MinOfTwo
<1>2. delay = Max(S)
  BY BudgetMaxMin DEF BU!NextRefreshDelay
<1>3. S \in SUBSET Int /\ interval \in S
  <2> HIDE DEF low, wait
  <2> QED BY <1>1
<1>4. \A x \in S : x <= interval + MaxBackoff
  <2> HIDE DEF low, wait
  <2>1. \A d \in low : wait(d) <= interval + MaxBackoff
    BY <1>1, UpkeepAssumption
  <2> QED BY <2>1, UpkeepAssumption
<1>5. delay \in S /\ \A x \in S : x <= delay
  <2>1. interval + MaxBackoff \in Int
    BY UpkeepAssumption
  <2> HIDE DEF S, delay
  <2> QED BY <1>2, <1>3, <1>4, <2>1, MaxIsGreatest
<1>6. delay \in Int /\ delay >= interval
  <2> HIDE DEF S, delay
  <2> QED BY <1>3, <1>5
<1>7. CASE delay = interval
  BY <1>6, <1>7
<1>8. CASE \E d \in low : delay = wait(d)
  <2>1. PICK d \in low : delay = wait(d)
    BY <1>8
  <2>2. delay <= MaxBackoff /\ delay <= d.untilReset + BackoffBuffer
    BY <1>1, <2>1
  <2> QED BY <1>6, <2>2
<1> HIDE DEF delay
<1> QED BY <1>5, <1>7, <1>8

\* The wait before a scheduled refresh is justified, whatever the constants.
LEMMA DelaysHold == BU!DelaysAreJustified
<1> SUFFICES ASSUME NEW b \in BU!Budgets, NEW c \in BU!Budgets, NEW interval \in {1, 3, 9},
                    NEW stretch \in BOOLEAN
             PROVE  LET delay == BU!NextDelay({b, c}, interval, stretch)
                    IN /\ delay \in interval..BU!Max({interval, StretchRoof, MaxBackoff})
                       /\ delay > (IF stretch THEN BU!StretchedInterval(interval) ELSE interval) =>
                            \E d \in {b, c} : /\ d.remaining \in 1..BU!ReserveOf(d.limit)
                                              /\ delay <= d.untilReset + BackoffBuffer
  BY Zenon DEF BU!DelaysAreJustified
<1> DEFINE base == IF stretch THEN BU!StretchedInterval(interval) ELSE interval
           delay == BU!NextDelay({b, c}, interval, stretch)
           top == Max({interval, StretchRoof, MaxBackoff})
<1>1. \A d \in {b, c} : d.untilReset \in Int /\ d.remaining \in Nat /\ d.limit \in Nat
  BY DEF BU!Budgets
<1>2. base \in Nat /\ base >= interval /\ (base <= interval \/ base <= StretchRoof)
  BY StretchIsLonger
<1>3. top \in Nat /\ interval <= top /\ StretchRoof <= top /\ MaxBackoff <= top
  <2>1. {interval, StretchRoof, MaxBackoff} \in SUBSET Int
        /\ \A x \in {interval, StretchRoof, MaxBackoff} : x <= interval + StretchRoof + MaxBackoff
    BY UpkeepAssumption
  <2>2. interval + StretchRoof + MaxBackoff \in Int /\ {interval, StretchRoof, MaxBackoff} # {}
    BY UpkeepAssumption
  <2>3. top \in {interval, StretchRoof, MaxBackoff} /\ \A x \in {interval, StretchRoof, MaxBackoff} : x <= top
    BY <2>1, <2>2, MaxIsGreatest
  <2> QED BY <2>3, UpkeepAssumption
<1>4. delay = BU!NextRefreshDelay({b, c}, base)
  BY DEF BU!NextDelay
<1> HIDE DEF base
<1>5. /\ delay \in Int /\ delay >= base
      /\ delay <= base \/ delay <= MaxBackoff
      /\ delay > base =>
           \E d \in {b, c} : /\ BU!CriticallyLow(d) /\ d.remaining # 0
                             /\ delay <= d.untilReset + BackoffBuffer
  BY <1>1, <1>2, <1>4, DelayIsInterval
<1> HIDE DEF delay, top
<1>6. delay \in interval..top
  BY <1>2, <1>3, <1>5, UpkeepAssumption
<1>7. ASSUME NEW d \in {b, c}, BU!CriticallyLow(d), d.remaining # 0
      PROVE  d.remaining \in 1..BU!ReserveOf(d.limit)
  <2>1. d.remaining \in Nat \ {0} /\ d.limit \in Nat /\ d.remaining * 20 < d.limit
    BY <1>1, <1>7 DEF BU!CriticallyLow
  <2>2. d.remaining <= d.limit \div 10
    BY <2>1
  <2>3. d.remaining <= BU!ReserveOf(d.limit) /\ BU!ReserveOf(d.limit) \in Nat
    BY <2>1, <2>2, ReserveIsShare
  <2> QED BY <2>1, <2>3
<1>8. delay > base => \E d \in {b, c} : /\ d.remaining \in 1..BU!ReserveOf(d.limit)
                                        /\ delay <= d.untilReset + BackoffBuffer
  BY <1>5, <1>7
<1>9. BU!Max({interval, StretchRoof, MaxBackoff}) = top
  BY BudgetMaxMin DEF top
<1> QED BY <1>6, <1>8, <1>9, Zenon DEF delay, base

-----------------------------------------------------------------------------
(* Queued actions *)

\* The bounds of every time in the queue.
LEMMA QueueTimes ==
  /\ Oldest \in Int /\ Oldest <= 0 /\ Furthest \in Nat /\ MaxReset <= Furthest /\ Retry <= Furthest
  /\ Max({Day, Minute, Furthest + Buffer}) \in Nat
  /\ Day <= Max({Day, Minute, Furthest + Buffer}) /\ Minute <= Max({Day, Minute, Furthest + Buffer})
<1> USE TimesAssumption
<1>1. \A a, b, c \in Nat : /\ Max({a, b, c}) \in Nat
                           /\ a <= Max({a, b, c}) /\ b <= Max({a, b, c}) /\ c <= Max({a, b, c})
  <2> TAKE a, b, c \in Nat
  <2>1. {a, b, c} \in SUBSET Int /\ {a, b, c} # {} /\ \A x \in {a, b, c} : x <= a + b + c
    OBVIOUS
  <2>2. a + b + c \in Int
    OBVIOUS
  <2>3. Max({a, b, c}) \in {a, b, c} /\ \A x \in {a, b, c} : x <= Max({a, b, c})
    BY <2>1, <2>2, MaxIsGreatest
  <2> QED BY <2>3
<1>2. Furthest \in Nat /\ MaxReset <= Furthest /\ Retry <= Furthest
  BY MaxOfTwo DEF Furthest
<1>3. Max({GiveUp, Keep + 1, Buffer + 1}) \in Nat
  BY <1>1
<1> QED BY <1>1, <1>2, <1>3 DEF Oldest

\* One tick less, down to a bound.
LEMMA CountDownIs ==
  ASSUME NEW n \in Int, NEW least \in Int
  PROVE  CountDown(n, least) = IF n - 1 >= least THEN n - 1 ELSE least
BY MaxOfTwo DEF CountDown

\* The next row is one of those left to decide.
LEMMA CurrentIsDue == ASSUME due \in SUBSET Ids, due # {} PROVE Current \in due
<1>1. due \in SUBSET Int /\ \A x \in due : x >= 1
  BY TimesAssumption DEF Ids
<1> QED BY <1>1, MinIsLeast DEF Current

\* What a row is made of.
LEMMA RowFacts ==
  /\ \A r \in Row : r.status \in Statuses /\ r.target \in Targets /\ r.at \in Times
  /\ \A s \in Statuses, t \in Targets, a \in Times : [status |-> s, target |-> t, at |-> a] \in Row
BY DEF Row

\* UpdateQueuedAction changes a waiting row, or none.
LEMMA UpdateEffect ==
  ASSUME items \in [Ids -> Row], due \in SUBSET Ids, due # {},
         NEW s \in Statuses, NEW a \in Times, Update(s, a)
  PROVE  /\ items' \in [Ids -> Row]
         /\ \A i \in Ids : /\ items'[i].target = items[i].target
                           /\ \/ items'[i] = items[i]
                              \/ i = Current /\ items[i].status = "queued" /\ items'[i].status = s
<1>1. Current \in Ids
  BY CurrentIsDue
<1>2. CASE items' = items
  BY <1>2
<1>3. CASE items' = [items EXCEPT ![Current] =
                 IF @.status = "queued" THEN [@ EXCEPT !.status = s, !.at = a] ELSE @]
  <2>1. PICK q \in Row : /\ q = IF items[Current].status = "queued"
                                THEN [items[Current] EXCEPT !.status = s, !.at = a] ELSE items[Current]
                         /\ q.target = items[Current].target
                         /\ q = items[Current] \/ (items[Current].status = "queued" /\ q.status = s)
    <3>1. PICK old \in Row : old = items[Current]
      BY <1>1
    <3>2. PICK new \in Row : /\ new = [old EXCEPT !.status = s, !.at = a]
                             /\ new.status = s /\ new.target = old.target
      <4>1. [old EXCEPT !.status = s, !.at = a] \in Row
        BY DEF Row
      <4>2. [old EXCEPT !.status = s, !.at = a].status = s /\ [old EXCEPT !.status = s, !.at = a].target = old.target
        BY DEF Row
      <4> QED BY <4>1, <4>2
    <3> QED BY <3>1, <3>2
  <2>2. items' = [items EXCEPT ![Current] = q]
    BY <1>3, <2>1
  <2> QED BY <1>1, <2>1, <2>2
<1> QED BY <1>2, <1>3 DEF Update

\* A refresh makes a board of a board.
LEMMA RefreshedIsBoard == ASSUME board \in Board, forge \in Forge PROVE Refreshed \in Board
<1>1. /\ \A b \in Board : b.health \in {"absent", "up", "down"} /\ b.until \in 0..MaxReset /\ b.behind \in SUBSET Targets
      /\ \A f \in Forge : f.up \in BOOLEAN /\ f.resetIn \in 0..MaxReset /\ f.behind \in SUBSET Targets
  BY DEF Board, Forge
<1>2. [board EXCEPT !.health = "down"] \in Board
  BY DEF Board
<1>3. [board EXCEPT !.health = "down", !.until = forge.resetIn] \in Board
  BY <1>1 DEF Board
<1>4. [health |-> "up", until |-> 0, behind |-> forge.behind] \in Board
  BY <1>1, TimesAssumption DEF Board
<1>5. Refreshed \in {board, [board EXCEPT !.health = "down"],
                     [board EXCEPT !.health = "down", !.until = forge.resetIn],
                     [health |-> "up", until |-> 0, behind |-> forge.behind]}
  <2>1. CASE board.health = "absent"
    BY <2>1 DEF Refreshed
  <2>2. CASE board.health # "absent" /\ board.until > 0
    BY <2>2 DEF Refreshed
  <2>3. CASE board.health # "absent" /\ board.until = 0 /\ ~forge.up
    BY <2>3 DEF Refreshed
  <2>4. CASE board.health # "absent" /\ board.until = 0 /\ forge.up /\ forge.resetIn > 0
    BY <2>4 DEF Refreshed
  <2>5. CASE board.health # "absent" /\ board.until = 0 /\ forge.up /\ forge.resetIn = 0
    BY <2>5 DEF Refreshed
  <2> QED BY <1>1, <2>1, <2>2, <2>3, <2>4, <2>5, TimesAssumption
<1> QED BY <1>2, <1>3, <1>4, <1>5

\* A cancel that came before the second read left a row that is gone for good and
\* not among those the pass decides; a call is made for a row of the pass.
CancelsAreFinal ==
  /\ \A i \in cancelled : items[i].status = "gone"
  /\ pc \in {"run", "call", "called"} => due \cap cancelled = {}
  /\ pc \in {"call", "called"} => due # {}

\* What is asked for is on the board, unless its outcome is still to be recorded;
\* among the rows left in a pass the board the pass goes by shows it.
AskedIsKnown ==
  /\ pc # "called" => answer = "none"
  /\ \A i \in asked : items[i].status # "unused"
  /\ pc \in {"run", "call", "called"} => \A i \in due : items[i].status # "unused"
  /\ \A i \in asked : (pc = "called" => i # Current) => items[i].target \in requests
  /\ pc \in {"run", "call", "called"} =>
       \A i \in asked \cap due : (pc = "called" => i # Current) => items[i].target \in noted
  /\ pc = "call" => items[Current].target \notin noted
  /\ pc = "called" /\ answer # "ok" => Current \notin asked

QueueInv ==
  /\ TypeOK
  /\ NeverOversleeps
  /\ CancelsAreFinal
  /\ AskedIsKnown

\* A row keeps its target from the insert on, and one that is gone stays gone.
RowsKept ==
  \A i \in Ids : /\ items[i].status # "unused" =>
                      items'[i].status # "unused" /\ items'[i].target = items[i].target
                 /\ items[i].status = "gone" => items'[i].status = "gone"

\* Whatever the handlers, the clock and the scheduler write, the table stays one.
LEMMA RowsStep ==
  ASSUME TypeOK, CancelsAreFinal, [Next]_vars
  PROVE  items' \in [Ids -> Row] /\ resetAt' \in [Ids -> Times] /\ RowsKept
<1> USE TimesAssumption, QueueTimes
<1>0. /\ items \in [Ids -> Row] /\ resetAt \in [Ids -> Times] /\ due \in SUBSET Ids
      /\ 0 \in Times /\ Retry \in Times /\ \A n \in 0..MaxReset : n \in Times
  BY DEF TypeOK, Times
<1>1. \A s \in Statuses \ {"unused"}, a \in Times : due # {} /\ Update(s, a) => items' \in [Ids -> Row] /\ RowsKept
  <2> SUFFICES ASSUME NEW s \in Statuses \ {"unused"}, NEW a \in Times, due # {}, Update(s, a)
               PROVE  items' \in [Ids -> Row] /\ RowsKept
    OBVIOUS
  <2>1. /\ items' \in [Ids -> Row]
        /\ \A i \in Ids : /\ items'[i].target = items[i].target
                          /\ \/ items'[i] = items[i]
                             \/ i = Current /\ items[i].status = "queued" /\ items'[i].status = s
    BY <1>0, UpdateEffect
  <2> QED BY <2>1 DEF RowsKept
<1>2. CASE Tick
  <2>1. PICK a \in [Ids -> Times] :
          a = [i \in Ids |-> IF items[i].status \in {"unused", "gone"} THEN items[i].at
                             ELSE CountDown(items[i].at, Oldest)]
    <3>1. \A i \in Ids : items[i].at \in Times
      BY <1>0, RowFacts
    <3>2. \A n \in Times : CountDown(n, Oldest) \in Times
      BY CountDownIs DEF Times
    <3> QED BY <3>1, <3>2
  <2>2. items' = [i \in Ids |-> [items[i] EXCEPT !.at = a[i]]]
    BY <1>2, <2>1 DEF Tick
  <2>3. \A i \in Ids : /\ [items[i] EXCEPT !.at = a[i]] \in Row
                       /\ [items[i] EXCEPT !.at = a[i]].status = items[i].status
                       /\ [items[i] EXCEPT !.at = a[i]].target = items[i].target
    <3> TAKE i \in Ids
    <3>1. items[i] \in Row /\ a[i] \in Times
      BY <1>0, <2>1
    <3> QED BY <3>1 DEF Row
  <2>4. resetAt' \in [Ids -> Times]
    <3>1. \A n \in Times : CountDown(n, Oldest) \in Times
      BY CountDownIs DEF Times
    <3> QED BY <1>2, <1>0, <3>1 DEF Tick
  <2> QED BY <2>2, <2>3, <2>4 DEF RowsKept
<1>3. ASSUME NEW c \in Clients, Insert(c)
      PROVE  items' \in [Ids -> Row] /\ resetAt' \in [Ids -> Times] /\ RowsKept
  <2>1. PICK i \in Ids : /\ items[i].status = "unused"
                         /\ items' = [items EXCEPT ![i] = [status |-> "queued", target |-> client[c].target,
                                                            at |-> client[c].runAt]]
                         /\ resetAt' = [resetAt EXCEPT ![i] = client[c].runAt]
    BY <1>3 DEF Insert
  <2>2. client[c].target \in Targets /\ client[c].runAt \in Times
    BY <1>0 DEF TypeOK
  <2>3. [status |-> "queued", target |-> client[c].target, at |-> client[c].runAt] \in Row
    BY <2>2, RowFacts DEF Statuses
  <2> QED BY <1>0, <2>1, <2>2, <2>3 DEF RowsKept
<1>4. ASSUME NEW i \in Ids, Cancel(i)
      PROVE  items' \in [Ids -> Row] /\ resetAt' \in [Ids -> Times] /\ RowsKept
  <2>1. items' = [items EXCEPT ![i] = [items[i] EXCEPT !.status = "gone", !.at = 0]]
        /\ resetAt' = resetAt
    BY <1>4, <1>0 DEF Cancel
  <2>2. PICK q : q = [items[i] EXCEPT !.status = "gone", !.at = 0]
    OBVIOUS
  <2>3. q \in Row /\ q.status = "gone" /\ q.target = items[i].target
    <3>1. items[i] \in Row /\ "gone" \in Statuses
      BY <1>0 DEF Statuses
    <3> QED BY <1>0, <2>2, <3>1 DEF Row
  <2>4. items' = [items EXCEPT ![i] = q]
    BY <2>1, <2>2
  <2> QED BY <1>0, <2>1, <2>3, <2>4 DEF RowsKept
<1>5. CASE Load
  <2>1. resetAt' = resetAt /\
        items' = [i \in Ids |-> IF items[i].status \in Finished /\ items[i].at < -Keep
                                THEN [items[i] EXCEPT !.status = "gone", !.at = 0] ELSE items[i]]
    BY <1>5 DEF Load, history
  <2>2. \A i \in Ids : /\ [items[i] EXCEPT !.status = "gone", !.at = 0] \in Row
                       /\ [items[i] EXCEPT !.status = "gone", !.at = 0].status = "gone"
                       /\ [items[i] EXCEPT !.status = "gone", !.at = 0].target = items[i].target
    <3> TAKE i \in Ids
    <3>1. items[i] \in Row /\ "gone" \in Statuses
      BY <1>0 DEF Statuses
    <3> QED BY <1>0, <3>1 DEF Row
  <2> QED BY <1>0, <2>1, <2>2 DEF RowsKept
<1>6. ASSUME NEW a \in Times, due # {}, Reschedule(a)
      PROVE  items' \in [Ids -> Row] /\ resetAt' \in [Ids -> Times] /\ RowsKept
  <2>1. items' \in [Ids -> Row] /\ RowsKept
    BY <1>1, <1>6 DEF Reschedule, Statuses
  <2>2. resetAt' \in [Ids -> Times]
    BY <1>0, <1>6 DEF Reschedule
  <2> QED BY <2>1, <2>2
<1>7. ASSUME NEW s \in {"done", "skipped", "failed"}, due # {}, Finish(s)
      PROVE  items' \in [Ids -> Row] /\ resetAt' \in [Ids -> Times] /\ RowsKept
  BY <1>0, <1>1, <1>7 DEF Finish, Statuses
<1>8. CASE RunLimited
  <2>1. snap.until \in Times
    BY <1>0 DEF TypeOK, Board
  <2> QED BY <1>6, <1>8, <2>1 DEF RunLimited
<1>9. CASE RunUnreachable
  BY <1>0, <1>1, <1>9 DEF RunUnreachable, Statuses, history
<1>10. CASE RunSkipped
  BY <1>7, <1>10 DEF RunSkipped
<1>11. CASE RecordRefusal
  <2>1. forge.resetIn \in Times
    BY <1>0 DEF TypeOK, Forge
  <2>2. due # {}
    BY <1>11 DEF RecordRefusal, CancelsAreFinal
  <2> QED BY <1>0, <1>6, <1>7, <1>11, <2>1, <2>2 DEF RecordRefusal
<1>12. CASE RecordRequest
  <2>1. due # {}
    BY <1>12 DEF RecordRequest, CancelsAreFinal
  <2> QED BY <1>7, <1>12, <2>1 DEF RecordRequest
<1>13. CASE UNCHANGED <<items, resetAt>>
  BY <1>0, <1>13 DEF RowsKept
<1>14. ASSUME ForgeChanges \/ BackgroundRefresh \/ RequestExpires \/ Restart \/ Plan \/ WakeUp
              \/ LoadFails \/ RunnerRefresh \/ Reload \/ Perform \/ EndPass \/ Call
              \/ (\E c \in Clients, t \in Targets : Lookup(c, t))
              \/ (\E c \in Clients : QueuedActionsChanged(c)) \/ UNCHANGED vars
       PROVE  UNCHANGED <<items, resetAt>>
  BY <1>14 DEF ForgeChanges, BackgroundRefresh, RequestExpires, Restart, Plan, WakeUp, LoadFails,
               RunnerRefresh, Reload, Perform, EndPass, Call, Lookup, QueuedActionsChanged, vars, history
<1> QED BY <1>2, <1>3, <1>4, <1>5, <1>8, <1>9, <1>10, <1>11, <1>12, <1>13, <1>14
        DEF Next, Environment, Scheduler, Handler, Run, Record

\* untilNextQueued: no longer than a day, nor than the time until a row is due.
LEMMA NextWaitIs ==
  ASSUME items \in [Ids -> Row]
  PROVE  /\ NextWait \in Nat /\ NextWait <= Day
         /\ \A i \in Waiting : DueIn(i) \in Int /\ (NextWait = 0 \/ NextWait <= DueIn(i))
<1> USE TimesAssumption, QueueTimes
<1> DEFINE S == {Day} \union {DueIn(i) : i \in Waiting}
<1>1. \A i \in Waiting : DueIn(i) \in Int /\ DueIn(i) >= Oldest + Buffer
  <2> TAKE i \in Waiting
  <2>1. items[i].at \in Times
    BY RowFacts DEF Waiting
  <2>2. items[i].at \in Int /\ items[i].at >= Oldest
    BY <2>1 DEF Times
  <2> QED BY <2>2 DEF DueIn
<1>2. S \in SUBSET Int /\ Day \in S
  <2> HIDE DEF Waiting, DueIn
  <2> QED BY <1>1
<1>3. \A x \in S : x >= Oldest
  <2> HIDE DEF Waiting, DueIn
  <2>1. \A i \in Waiting : DueIn(i) >= Oldest
    BY <1>1
  <2> QED BY <2>1
<1>4. Min(S) \in S /\ \A x \in S : Min(S) <= x
  <2> HIDE DEF S
  <2> QED BY <1>2, <1>3, MinIsLeast
<1>5. NextWait = Max({0, Min(S)})
  BY DEF NextWait
<1>6. Min(S) \in Int /\ Min(S) <= Day /\ \A i \in Waiting : Min(S) <= DueIn(i)
  <2>1. \A i \in Waiting : DueIn(i) \in S
    OBVIOUS
  <2> HIDE DEF S
  <2> QED BY <1>2, <1>4, <2>1
<1> HIDE DEF S
<1>7. NextWait = IF 0 >= Min(S) THEN 0 ELSE Min(S)
  BY <1>5, <1>6, MaxOfTwo
<1> QED BY <1>1, <1>6, <1>7

\* The rest of the state keeps its types.
LEMMA QueueTypes ==
  ASSUME TypeOK, CancelsAreFinal, [Next]_vars
  PROVE  TypeOK'
<1> USE TimesAssumption, QueueTimes DEF history, runnerVars
<1>0. items' \in [Ids -> Row] /\ resetAt' \in [Ids -> Times]
  BY RowsStep
<1>1. /\ items \in [Ids -> Row] /\ wake \in BOOLEAN /\ pc \in Places
      /\ alarm \in 0..Max({Day, Minute, Furthest + Buffer})
      /\ due \in SUBSET Ids /\ snap \in Board /\ noted \in SUBSET Targets /\ answer \in Answers
      /\ client \in [Clients -> [at : {"idle", "looked", "inserted"}, target : Targets, runAt : 0..MaxReset]]
      /\ board \in Board /\ requests \in SUBSET Targets /\ forge \in Forge
      /\ restarts \in 0..MaxRestarts /\ cancelled \in SUBSET Ids /\ asked \in SUBSET Ids
  BY DEF TypeOK
<1>a. NoBoard \in Board /\ NoClient \in [at : {"idle", "looked", "inserted"}, target : Targets, runAt : 0..MaxReset]
  <2>1. NoRow.target \in Targets
    BY TargetsAssumption DEF NoRow
  <2> QED BY <2>1 DEF NoBoard, NoClient, Board
<1>b. \A n \in 0..MaxReset : CountDown(n, 0) \in 0..MaxReset
  BY CountDownIs
<1>c. Waiting \in SUBSET Ids /\ Due \in SUBSET Ids
  BY DEF Waiting, Due
<1>2. CASE Tick
  <2>1. alarm' \in 0..Max({Day, Minute, Furthest + Buffer})
    BY <1>1, <1>2, CountDownIs DEF Tick
  <2>2. snap' \in Board /\ board' \in Board
    <3>1. snap.until \in 0..MaxReset /\ board.until \in 0..MaxReset
      BY <1>1 DEF Board
    <3>2. CountDown(snap.until, 0) \in 0..MaxReset /\ CountDown(board.until, 0) \in 0..MaxReset
      BY <3>1, <1>b
    <3> QED BY <1>1, <1>2, <3>2 DEF Tick, Board
  <2>3. forge' \in Forge
    <3>1. CountDown(forge.resetIn, 0) \in 0..MaxReset
      BY <1>1, <1>b DEF Forge
    <3> QED BY <1>1, <1>2, <3>1 DEF Tick, Forge
  <2>4. client' \in [Clients -> [at : {"idle", "looked", "inserted"}, target : Targets, runAt : 0..MaxReset]]
    BY <1>1, <1>2, <1>b DEF Tick
  <2> QED BY <1>0, <1>1, <1>2, <2>1, <2>2, <2>3, <2>4 DEF Tick, TypeOK
<1>3. CASE ForgeChanges
  <2>1. forge.up \in BOOLEAN /\ forge.behind \in SUBSET Targets /\ MaxReset \in 0..MaxReset
    BY <1>1 DEF Forge
  <2>2. forge' \in Forge
    BY <1>1, <1>3, <2>1, ZenonT(60) DEF ForgeChanges, Forge
  <2> QED BY <1>0, <1>1, <1>3, <2>2 DEF ForgeChanges, TypeOK
<1>4. CASE BackgroundRefresh
  <2>1. board' \in Board
    BY <1>1, <1>4, RefreshedIsBoard DEF BackgroundRefresh
  <2> QED BY <1>0, <1>1, <1>4, <2>1 DEF BackgroundRefresh, Forget, TypeOK
<1>5. CASE RequestExpires
  BY <1>0, <1>1, <1>5 DEF RequestExpires, Forget, TypeOK
<1>6. CASE Restart
  <2>0. 0 \in 0..MaxReset
    OBVIOUS
  <2>1. [board EXCEPT !.health = "down", !.until = 0] \in Board
    BY <1>1, <2>0 DEF Board
  <2>2. restarts' \in 0..MaxRestarts /\ alarm' \in 0..Max({Day, Minute, Furthest + Buffer})
    BY <1>1, <1>6 DEF Restart
  <2>3. board' \in Board /\ client' \in [Clients -> [at : {"idle", "looked", "inserted"}, target : Targets, runAt : 0..MaxReset]]
    BY <1>a, <1>6, <2>1 DEF Restart
  <2> QED BY <1>0, <1>1, <1>a, <1>6, <2>2, <2>3 DEF Restart, TypeOK, Places, Answers
<1>7. ASSUME NEW c \in Clients, NEW t \in Targets, Lookup(c, t) PROVE TypeOK'
  <2>1. board.until \in 0..MaxReset
    BY <1>1 DEF Board
  <2>2. client' \in [Clients -> [at : {"idle", "looked", "inserted"}, target : Targets, runAt : 0..MaxReset]]
    BY <1>1, <1>7, <2>1 DEF Lookup
  <2> QED BY <1>0, <1>1, <1>7, <2>2 DEF Lookup, TypeOK
<1>8. ASSUME NEW i \in Ids, Cancel(i) PROVE TypeOK'
  BY <1>0, <1>1, <1>8 DEF Cancel, TypeOK
<1>9. ASSUME NEW c \in Clients, Insert(c) PROVE TypeOK'
  BY <1>0, <1>1, <1>9 DEF Insert, TypeOK
<1>10. ASSUME NEW c \in Clients, QueuedActionsChanged(c) PROVE TypeOK'
  BY <1>0, <1>1, <1>10, <1>a DEF QueuedActionsChanged, TypeOK
<1>11. CASE Plan
  <2>1. alarm' \in 0..Max({Day, Minute, Furthest + Buffer})
    BY <1>1, <1>11, NextWaitIs DEF Plan
  <2> QED BY <1>0, <1>1, <1>11, <2>1 DEF Plan, TypeOK, Places
<1>12. CASE WakeUp
  <2>1. 0 \in 0..Max({Day, Minute, Furthest + Buffer})
    OBVIOUS
  <2> QED BY <1>0, <1>1, <1>12, <2>1 DEF WakeUp, TypeOK, Places
<1>13. CASE Load
  BY <1>0, <1>1, <1>c, <1>13 DEF Load, TypeOK, Places
<1>14. CASE LoadFails
  BY <1>0, <1>1, <1>14 DEF LoadFails, TypeOK, Places
<1>15. CASE RunnerRefresh
  <2>1. board' \in Board
    BY <1>1, <1>15, RefreshedIsBoard DEF RunnerRefresh
  <2> QED BY <1>0, <1>1, <1>15, <2>1 DEF RunnerRefresh, Forget, TypeOK, Places
<1>16. CASE Reload
  BY <1>0, <1>1, <1>c, <1>16 DEF Reload, TypeOK, Places
<1>17. CASE RunLimited \/ RunUnreachable \/ RunSkipped
  BY <1>0, <1>1, <1>17 DEF RunLimited, RunUnreachable, RunSkipped, Advance, TypeOK, Places
<1>18. CASE Perform
  BY <1>0, <1>1, <1>18 DEF Perform, TypeOK, Places
<1>19. CASE EndPass
  BY <1>0, <1>1, <1>a, <1>19 DEF EndPass, TypeOK, Places
<1>20. CASE Call
  <2>1. Current \in Ids
    BY <1>1, <1>20, CurrentIsDue DEF Call, CancelsAreFinal
  <2>2. answer' \in Answers
    BY <1>20 DEF Call, Answers
  <2> QED BY <1>0, <1>1, <1>20, <2>1, <2>2 DEF Call, TypeOK, Places
<1>21. CASE RecordRefusal
  BY <1>0, <1>1, <1>21 DEF RecordRefusal, Advance, TypeOK, Places, Answers
<1>22. CASE RecordRequest
  <2>1. items[Current].target \in Targets
    BY <1>1, <1>22, CurrentIsDue, RowFacts DEF RecordRequest, CancelsAreFinal
  <2> QED BY <1>0, <1>1, <1>22, <2>1 DEF RecordRequest, Advance, TypeOK, Places, Answers
<1>23. CASE UNCHANGED vars
  BY <1>23, <1>0, <1>1 DEF vars, TypeOK
<1> QED BY <1>2, <1>3, <1>4, <1>5, <1>6, <1>7, <1>8, <1>9, <1>10, <1>11, <1>12, <1>13, <1>14, <1>15,
           <1>16, <1>17, <1>18, <1>19, <1>20, <1>21, <1>22, <1>23
        DEF Next, Environment, Scheduler, Handler, Run, Record

\* The timer keeps up with the rows, and a new row sends a wake-up.
LEMMA SleepStep ==
  ASSUME TypeOK, TypeOK', NeverOversleeps, [Next]_vars
  PROVE  NeverOversleeps'
<1> USE TimesAssumption DEF history, runnerVars
<1> SUFFICES ASSUME pc' = "sleep", ~wake', \A c \in Clients : client'[c].at # "inserted",
                    NEW i \in Waiting'
             PROVE  alarm' <= Max({Minute, DueIn(i)'})
  BY DEF NeverOversleeps
<1>0. /\ items \in [Ids -> Row] /\ items' \in [Ids -> Row] /\ i \in Ids
      /\ items[i].at \in Int /\ items'[i].at \in Int /\ alarm \in Nat /\ alarm' \in Nat
  <2>1. items \in [Ids -> Row] /\ items' \in [Ids -> Row] /\ i \in Ids
    BY DEF TypeOK, Waiting
  <2>2. items[i].at \in Times /\ items'[i].at \in Times
    BY <2>1, RowFacts
  <2>3. \A n \in Times : n \in Int
    BY QueueTimes DEF Times
  <2>4. alarm \in Nat /\ alarm' \in Nat
    BY QueueTimes DEF TypeOK
  <2> QED BY <2>1, <2>2, <2>3, <2>4
<1>1. Max({Minute, DueIn(i)}) = (IF Minute >= items[i].at + Buffer THEN Minute ELSE items[i].at + Buffer)
      /\ Max({Minute, DueIn(i)'}) = (IF Minute >= items'[i].at + Buffer THEN Minute ELSE items'[i].at + Buffer)
  BY <1>0, MaxOfTwo DEF DueIn
<1>2. CASE Plan
  <2>1. i \in Waiting /\ items' = items
    BY <1>2 DEF Plan, Waiting
  <2>2. alarm' = NextWait \/ alarm' = Minute
    BY <1>2 DEF Plan
  <2>3. NextWait = 0 \/ NextWait <= items[i].at + Buffer
    BY <1>0, <2>1, NextWaitIs DEF DueIn
  <2> QED BY <1>0, <1>1, <2>1, <2>2, <2>3
<1>3. CASE Tick
  <2>1. /\ pc = "sleep" /\ ~wake /\ alarm' = CountDown(alarm, 0)
        /\ \A c \in Clients : client'[c].at = client[c].at
    <3>1. \A c \in Clients : client'[c] = [client[c] EXCEPT !.runAt = CountDown(@, 0)]
      BY <1>3 DEF Tick
    <3>2. \A c \in Clients : client[c] \in [at : {"idle", "looked", "inserted"}, target : Targets, runAt : 0..MaxReset]
      BY DEF TypeOK
    <3> QED BY <1>3, <3>1, <3>2 DEF Tick
  <2>2. items[i].status = "queued" /\ items'[i].at = CountDown(items[i].at, Oldest)
    <3>1. items[i] \in Row /\ items'[i] = [items[i] EXCEPT !.at =
            IF items[i].status \in {"unused", "gone"} THEN items[i].at ELSE CountDown(items[i].at, Oldest)]
      BY <1>3, <1>0 DEF Tick
    <3>2. items'[i].status = "queued"
      BY DEF Waiting
    <3> QED BY <3>1, <3>2 DEF Row
  <2>3. i \in Waiting
    BY <1>0, <2>2 DEF Waiting
  <2>4. alarm <= Max({Minute, DueIn(i)})
    BY <2>1, <2>3 DEF NeverOversleeps
  <2>5. items'[i].at >= items[i].at - 1 /\ alarm' = (IF alarm >= 1 THEN alarm - 1 ELSE 0)
    BY <1>0, <2>1, <2>2, CountDownIs, QueueTimes
  <2> QED BY <1>0, <1>1, <2>4, <2>5
<1>4. ASSUME NEW c \in Clients, Insert(c)
      PROVE  FALSE
  BY <1>4 DEF Insert, TypeOK
<1>5. ASSUME NEW c \in Clients, QueuedActionsChanged(c)
      PROVE  FALSE
  BY <1>5 DEF QueuedActionsChanged
<1>6. ASSUME NEW j \in Ids, Cancel(j)
      PROVE  FALSE
  BY <1>6 DEF Cancel
<1>7. ASSUME NEW c \in Clients, NEW t \in Targets, Lookup(c, t)
      PROVE  alarm' <= Max({Minute, DueIn(i)'})
  <2>1. \A d \in Clients : client[d].at # "inserted"
    BY <1>7 DEF Lookup, TypeOK
  <2>2. i \in Waiting /\ items' = items /\ alarm' = alarm /\ pc = "sleep" /\ ~wake
    BY <1>7 DEF Lookup, Waiting
  <2> QED BY <1>1, <2>1, <2>2 DEF NeverOversleeps
<1>8. CASE ForgeChanges \/ BackgroundRefresh \/ RequestExpires \/ UNCHANGED vars
  <2>1. UNCHANGED <<items, alarm, pc, wake, client>>
    BY <1>8 DEF ForgeChanges, BackgroundRefresh, RequestExpires, vars
  <2>2. i \in Waiting
    BY <2>1 DEF Waiting
  <2> QED BY <1>1, <2>1, <2>2 DEF NeverOversleeps
<1>9. ASSUME Restart \/ WakeUp \/ Load \/ LoadFails \/ RunnerRefresh \/ Reload \/ Run \/ Call \/ Record
      PROVE  FALSE
  BY <1>9 DEF Restart, WakeUp, Load, LoadFails, RunnerRefresh, Reload, Run, RunLimited, RunUnreachable,
              RunSkipped, Perform, EndPass, Call, Record, RecordRefusal, RecordRequest, Advance
<1> QED BY <1>2, <1>3, <1>4, <1>5, <1>6, <1>7, <1>8, <1>9
        DEF Next, Environment, Scheduler, Handler

\* A row cancelled before the second read is not among the rows it finds.
LEMMA CancelStep ==
  ASSUME TypeOK, CancelsAreFinal, [Next]_vars
  PROVE  CancelsAreFinal'
<1> USE DEF history, runnerVars
<1>0. RowsKept /\ due \in SUBSET Ids /\ cancelled \in SUBSET Ids /\ items \in [Ids -> Row]
  BY RowsStep DEF TypeOK
<1>1. ASSUME NEW i \in Ids, Cancel(i) PROVE CancelsAreFinal'
  <2>1. items'[i].status = "gone"
    <3>1. items'[i] = [items[i] EXCEPT !.status = "gone", !.at = 0] /\ items[i] \in Row
      BY <1>0, <1>1 DEF Cancel
    <3> QED BY <3>1 DEF Row
  <2>2. cancelled' \in {cancelled, cancelled \cup {i}} /\ pc' = pc /\ due' = due
        /\ (pc \in {"run", "call", "called"} => cancelled' = cancelled)
    BY <1>1 DEF Cancel
  <2>3. \A j \in cancelled : items'[j].status = "gone"
    BY <1>0 DEF CancelsAreFinal, RowsKept
  <2> QED BY <2>1, <2>2, <2>3 DEF CancelsAreFinal
<1>2. CASE Reload
  <2>1. Due \cap cancelled = {}
    BY DEF CancelsAreFinal, Due, Waiting
  <2> QED BY <1>0, <1>2, <2>1 DEF Reload, CancelsAreFinal, RowsKept
<1>3. CASE Tick \/ ForgeChanges \/ BackgroundRefresh \/ RequestExpires \/ UNCHANGED vars
           \/ (\E c \in Clients, t \in Targets : Lookup(c, t)) \/ (\E c \in Clients : Handler(c))
  <2>1. UNCHANGED <<pc, due, cancelled>>
    BY <1>3 DEF Tick, ForgeChanges, BackgroundRefresh, RequestExpires, vars, Lookup, Handler, Insert,
                QueuedActionsChanged
  <2> QED BY <1>0, <2>1 DEF CancelsAreFinal, RowsKept
<1>4. CASE Restart \/ Plan \/ WakeUp \/ Load \/ LoadFails \/ RunnerRefresh \/ EndPass
  <2>1. pc' \notin {"run", "call", "called"} /\ cancelled' = cancelled
    BY <1>4 DEF Restart, Plan, WakeUp, Load, LoadFails, RunnerRefresh, EndPass
  <2> QED BY <1>0, <2>1 DEF CancelsAreFinal, RowsKept
<1>5. CASE RunLimited \/ RunUnreachable \/ RunSkipped \/ Record
  <2>1. pc' = "run" /\ due' \subseteq due /\ cancelled' = cancelled /\ pc \in {"run", "called"}
    BY <1>5 DEF RunLimited, RunUnreachable, RunSkipped, Record, RecordRefusal, RecordRequest, Advance
  <2> QED BY <1>0, <2>1 DEF CancelsAreFinal, RowsKept
<1>6. CASE Perform \/ Call
  <2>1. pc \in {"run", "call"} /\ due' = due /\ due # {} /\ cancelled' = cancelled
    BY <1>6 DEF Perform, Call, CancelsAreFinal
  <2> QED BY <1>0, <2>1 DEF CancelsAreFinal, RowsKept
<1> QED BY <1>1, <1>2, <1>3, <1>4, <1>5, <1>6
        DEF Next, Environment, Scheduler, Run

\* A target is dropped from the registry together with the rows asked for it.
LEMMA ForgetKeepsAsked ==
  ASSUME AskedIsKnown, NEW gone, Forget(gone), UNCHANGED <<items, due, noted, answer>>,
         pc' = pc \/ (pc = "refresh" /\ pc' = "reload")
  PROVE  AskedIsKnown'
<1>1. asked' \subseteq asked /\ Current' = Current
  BY DEF Forget, Current
<1>2. \A i \in asked' : items[i].target \in requests => items[i].target \in requests'
  BY DEF Forget
<1>3. CASE pc' = pc
  BY <1>1, <1>2, <1>3 DEF AskedIsKnown
<1>4. CASE pc = "refresh" /\ pc' = "reload"
  BY <1>1, <1>2, <1>4 DEF AskedIsKnown
<1> QED BY <1>3, <1>4

\* Perform leaves a row alone that the board of the pass shows as asked for, and
\* recordQueuedRequest puts what was asked on the board.
LEMMA AskedStep ==
  ASSUME TypeOK, CancelsAreFinal, AskedIsKnown, [Next]_vars
  PROVE  AskedIsKnown'
<1> USE DEF history, runnerVars
<1>0. /\ RowsKept /\ due \in SUBSET Ids /\ asked \in SUBSET Ids /\ items \in [Ids -> Row]
      /\ (pc \in {"call", "called"} => Current \in due)
  <2>1. RowsKept /\ due \in SUBSET Ids /\ asked \in SUBSET Ids /\ items \in [Ids -> Row]
    BY RowsStep DEF TypeOK
  <2> QED BY <2>1, CurrentIsDue DEF CancelsAreFinal
<1>1. \A i \in asked \cup (IF pc \in {"run", "call", "called"} THEN due ELSE {}) :
        items'[i].status # "unused" /\ items'[i].target = items[i].target
  BY <1>0 DEF AskedIsKnown, RowsKept
<1>2. CASE BackgroundRefresh
  BY <1>2, ForgetKeepsAsked DEF BackgroundRefresh
<1>3. CASE RequestExpires
  BY <1>3, ForgetKeepsAsked DEF RequestExpires
<1>4. CASE RunnerRefresh
  BY <1>4, ForgetKeepsAsked DEF RunnerRefresh
<1>5. CASE Tick \/ ForgeChanges \/ UNCHANGED vars \/ (\E i \in Ids : Cancel(i))
           \/ (\E c \in Clients, t \in Targets : Lookup(c, t)) \/ (\E c \in Clients : Handler(c))
  <2>1. UNCHANGED <<pc, due, asked, requests, noted, answer>>
    BY <1>5 DEF Tick, ForgeChanges, vars, Lookup, Handler, Insert, QueuedActionsChanged, Cancel
  <2>2. Current' = Current
    BY <2>1 DEF Current
  <2> QED BY <1>0, <1>1, <2>1, <2>2 DEF AskedIsKnown
<1>6. CASE Restart
  BY <1>6 DEF Restart, AskedIsKnown
<1>7. CASE Plan \/ WakeUp \/ Load \/ LoadFails \/ EndPass
  <2>1. /\ pc' \notin {"run", "call", "called"} /\ pc # "called"
        /\ UNCHANGED <<asked, requests, answer>>
    BY <1>7 DEF Plan, WakeUp, Load, LoadFails, EndPass
  <2> QED BY <1>0, <1>1, <2>1 DEF AskedIsKnown
<1>8. CASE Reload
  <2>1. \A i \in Due : items[i].status # "unused"
    BY DEF Due, Waiting
  <2> QED BY <1>8, <2>1 DEF Reload, AskedIsKnown
<1>9. CASE RunLimited \/ RunUnreachable \/ RunSkipped
  <2>1. /\ pc = "run" /\ pc' = "run" /\ due' \subseteq due
        /\ UNCHANGED <<asked, requests, noted, answer>>
    BY <1>9 DEF RunLimited, RunUnreachable, RunSkipped, Advance
  <2> QED BY <1>0, <1>1, <2>1 DEF AskedIsKnown
<1>10. CASE Perform
  <2>1. Current' = Current
    BY <1>10 DEF Perform, Current
  <2> QED BY <1>10, <2>1 DEF Perform, AskedIsKnown
<1>11. CASE Call
  <2>1. Current' = Current
    BY <1>11 DEF Call, Current
  <2>2. Current \notin asked
    BY <1>0, <1>11 DEF Call, AskedIsKnown
  <2> QED BY <1>0, <1>11, <2>1, <2>2 DEF Call, AskedIsKnown
<1>12. CASE RecordRefusal
  <2>1. /\ pc = "called" /\ pc' = "run" /\ due' = due \ {Current} /\ answer # "ok" /\ answer' = "none"
        /\ UNCHANGED <<asked, requests, noted>>
    BY <1>12 DEF RecordRefusal, Advance
  <2>2. Current \notin asked
    BY <2>1 DEF AskedIsKnown
  <2> QED BY <1>0, <1>1, <2>1, <2>2 DEF AskedIsKnown
<1>13. CASE RecordRequest
  <2>1. /\ pc = "called" /\ pc' = "run" /\ due' = due \ {Current} /\ answer' = "none" /\ noted' = noted
    BY <1>13 DEF RecordRequest, Advance
  <2>2. \/ requests' = requests \union {items[Current].target} /\ asked' = asked
        \/ requests' = requests /\ asked' = asked \ {Current}
    BY <1>13 DEF RecordRequest
  <2> QED BY <1>0, <1>1, <2>1, <2>2 DEF AskedIsKnown
<1> QED BY <1>2, <1>3, <1>4, <1>5, <1>6, <1>7, <1>8, <1>9, <1>10, <1>11, <1>12, <1>13
        DEF Next, Environment, Scheduler, Run, Record

\* The queue starts empty and the scheduler with nothing to decide.
LEMMA QueueInit == Init => QueueInv
<1> SUFFICES ASSUME Init PROVE QueueInv
  OBVIOUS
<1> USE TimesAssumption, QueueTimes
<1>1. NoRow.target \in Targets /\ NoRow.status = "unused" /\ 0 \in Times
  BY TargetsAssumption DEF NoRow, Times
<1>2. NoRow \in Row
  BY <1>1 DEF NoRow, Row, Statuses
<1>3. 0 \in 0..MaxReset /\ MaxReset \in 0..MaxReset /\ 0 \in 0..MaxRestarts
      /\ 0 \in 0..Max({Day, Minute, Furthest + Buffer})
  OBVIOUS
<1>4. NoBoard \in Board /\ [NoBoard EXCEPT !.health = "down"] \in Board
      /\ [up |-> TRUE, resetIn |-> MaxReset, behind |-> Targets] \in Forge
      /\ NoClient \in [at : {"idle", "looked", "inserted"}, target : Targets, runAt : 0..MaxReset]
  BY <1>1, <1>3 DEF NoBoard, Board, Forge, NoClient
<1>5. TypeOK
  BY <1>1, <1>2, <1>3, <1>4 DEF Init, TypeOK, Places, Answers
<1>6. NeverOversleeps /\ CancelsAreFinal /\ AskedIsKnown
  BY DEF Init, NeverOversleeps, CancelsAreFinal, AskedIsKnown
<1> QED BY <1>5, <1>6 DEF QueueInv

\* Every step of the queue keeps its invariant.
LEMMA QueueStep == QueueInv /\ [Next]_vars => QueueInv'
<1> SUFFICES ASSUME QueueInv, [Next]_vars PROVE QueueInv'
  OBVIOUS
<1>1. TypeOK /\ NeverOversleeps /\ CancelsAreFinal /\ AskedIsKnown
  BY DEF QueueInv
<1>2. TypeOK'
  BY <1>1, QueueTypes
<1> QED BY <1>1, <1>2, SleepStep, CancelStep, AskedStep DEF QueueInv

\* The row a call is made for was not cancelled before the second read.
LEMMA QueueInvSuffices == QueueInv => EarlyCancelWins
<1> SUFFICES ASSUME QueueInv, pc \in {"call", "called"} PROVE Current \notin cancelled
  BY DEF EarlyCancelWins
<1>1. Current \in due
  BY CurrentIsDue DEF QueueInv, TypeOK, CancelsAreFinal
<1> QED BY <1>1 DEF QueueInv, CancelsAreFinal

\* A call that the forge accepts is the first for its row.
LEMMA NotAskedTwiceStep ==
  QueueInv /\ [Next]_vars => [pc = "call" /\ answer' = "ok" => Current \notin asked]_vars
<1> SUFFICES ASSUME QueueInv, pc = "call", Current \in asked PROVE FALSE
  OBVIOUS
<1>1. Current \in due
  BY CurrentIsDue DEF QueueInv, TypeOK, CancelsAreFinal
<1> QED BY <1>1 DEF QueueInv, AskedIsKnown

-----------------------------------------------------------------------------
(* The parts together *)

\* Each part keeps its own invariant, at work or at rest.
UpkeepInv == QueueInv /\ UpdateInv /\ PollInv /\ BudgetInv

upkeepVars == <<part, vars, updateVars, pollVars, budgetVars>>

\* A step of one part leaves the others where they are.
LEMMA PartsStep ==
  [MCNext]_upkeepVars =>
    [Next]_vars /\ [AU!Next]_(AU!vars) /\ [PS!PollNext]_(PS!pvars) /\ [BU!BudgetNext]_(BU!bvars)
<1>1. updateVars' = updateVars => AU!vars' = AU!vars
  BY DEF updateVars, AU!vars, AU!forge, AU!settings, AU!umemory, AU!uhistory
<1>2. pollVars' = pollVars => PS!pvars' = PS!pvars
  BY DEF pollVars, PS!pvars
<1>3. budgetVars' = budgetVars => BU!bvars' = BU!bvars
  BY DEF budgetVars, BU!bvars
<1> QED BY <1>1, <1>2, <1>3 DEF MCNext, upkeepVars

\* The invariants of the queue, the updates, the polls and the budget hold in
\* every behaviour of the run's specification, for all values of the constants.
THEOREM UpkeepInvariant == MCSpec => []UpkeepInv
<1>1. MCInit => UpkeepInv
  BY QueueInit, UpdateInit, PollsInit, BudgetsInit DEF MCInit, UpkeepInv
<1>2. UpkeepInv /\ [MCNext]_upkeepVars => UpkeepInv'
  BY PartsStep, QueueStep, UpdateStep, PollsStep, BudgetsStep DEF UpkeepInv
<1> QED BY <1>1, <1>2, PTL DEF MCSpec, upkeepVars

\* The scheduler never sleeps past a waiting row, and a cancel that reaches the
\* table before the second read wins (queued_runner.go).
THEOREM QueueIsHonestHolds == MCSpec => []QueueIsHonest
<1>1. UpkeepInv => QueueIsHonest
  BY QueueInvSuffices DEF UpkeepInv, QueueInv, QueueIsHonest
<1> QED BY <1>1, UpkeepInvariant, PTL

\* No row is asked for twice while its first request stands, whatever writes and
\* restarts fail in between (runQueued, recordQueuedRequest).
THEOREM NotAskedTwiceHolds == MCSpec => NotAskedTwice
<1>1. UpkeepInv /\ [MCNext]_upkeepVars => [pc = "call" /\ answer' = "ok" => Current \notin asked]_vars
  BY PartsStep, NotAskedTwiceStep DEF UpkeepInv
<1> QED BY <1>1, UpkeepInvariant, PTL DEF MCSpec, upkeepVars, NotAskedTwice

\* Branch updates are asked for as long as they are wanted and not once more, and
\* a choice outlives every pass until it ends (auto_update_branch.go).
THEOREM UpdatesAreWantedHolds == MCSpec => UpdatesAreWanted
<1>1. UpkeepInv => (part = "updates" => /\ AU!TypeOK /\ AU!OneRebaseWhileBehind /\ AU!RecreateIsEarned
                                        /\ AU!ConflictStands /\ AU!PassActsOnThePending)
  BY UpdateInvSuffices DEF UpkeepInv
<1>2. UpkeepInv /\ [MCNext]_upkeepVars =>
        [(upc = "forget" /\ upc' # upc /\ choice # "none" /\ choice' = "none")
           => (uended \/ changed \/ choice = AU!On(repoOn))]_(AU!vars)
  BY PartsStep, ChoiceIsKeptStep DEF UpkeepInv
<1> QED BY <1>1, <1>2, UpkeepInvariant, PTL DEF MCSpec, upkeepVars, UpdatesAreWanted, AU!ChoiceIsKept

\* A pending item is read in time (pending_schedule.go), and the scheduled refresh
\* leaves the reserve and waits no longer than it is held back for (reserve.go).
THEOREM PollsAreRationedHolds == MCSpec => []PollsAreRationed
<1>1. UpkeepInv => PollsAreRationed
  BY DelaysHold DEF UpkeepInv, PollInv, BudgetInv, PollsAreRationed
<1> QED BY <1>1, UpkeepInvariant, PTL
=============================================================================
