----------------------------- MODULE MCRequests -----------------------------
(* What a request changes, and where it is kept.  Seven parts of one run,    *)
(* each behaviour of one of them: saves of the settings; passkeys; the       *)
(* upgrade of the database; which actions a row offers, how a refused one    *)
(* is explained and how pull requests stack; writes to a branch; the saved   *)
(* snapshot; the copies of the forge's answers.                              *)
EXTENDS Integers, Sequences, FiniteSets

CONSTANTS c, d, h1, h2, w1, w2, p1, p2, q1, q2, r1, r2, u1, u2, x, y,
          Writers, Choices, MaxRev, MaxTokens, MaxSaves,
          Handlers, MaxCeremonies, MaxPending, MaxUsers, NoUser,
          Accounts, MaxCrashes, Stacked, Branches, MaxForgeMoves,
          Repos, RowSets, NoRows, Publishers, MaxMoves, MaxReboots,
          Urls, Requests, MaxContent, MaxBody, MaxEntries, MaxBytes, TableCap, MaxTurns

VARIABLES part,
          appConfigured, form, hook, filterRev, writer, tokensMade, saves, promised, shownHook,
          savesCrossed, hookCrossed, unnumbered, toldLow,
          users, made, named, pending, begun, sessions, tokens, req, want, crossed,
          db, backups, phase, mine, crashes, legacy,
          row, refusal, ends,
          client, place, head, listedPulls, merge, update, target, methods, linear, native, call,
          result, forgeMoves, news,
          onForge, shown, savedRows, believed, saving, moves, reboots, lagging, overlapped, misread,
          content, memory, table, tableBytes, request, torn, turns

formVars == <<appConfigured, form, hook, filterRev, writer, tokensMade, saves, promised, shownHook,
              savesCrossed, hookCrossed, unnumbered, toldLow>>
keyVars == <<users, made, named, pending, begun, sessions, tokens, req, want, crossed>>
upgradeVars == <<db, backups, phase, mine, crashes, legacy>>
ruleVars == <<row, refusal, ends>>
branchVars == <<client, place, head, listedPulls, merge, update, target, methods, linear, native,
                call, result, forgeMoves, news>>
cacheVars == <<onForge, shown, savedRows, believed, saving, moves, reboots, lagging, overlapped,
               misread>>
etagVars == <<content, memory, table, tableBytes, request, torn, turns>>

ST == INSTANCE Settings WITH row <- form, made <- tokensMade, crossed <- savesCrossed
PK == INSTANCE Passkeys WITH row <- users
UP == INSTANCE Upgrade
RU == INSTANCE Rules
BW == INSTANCE BranchWrites
SC == INSTANCE SnapshotCache WITH table <- savedRows
EC == INSTANCE EtagCache
UN == INSTANCE Uncached WITH Contents <- EC!Contents,
                          asked <- [q \in Requests |-> EC!Asked(request[q])]

ASSUME RequestsAssumption ==
  /\ MaxRev \in Nat /\ MaxTokens \in Nat /\ MaxSaves \in Nat /\ Choices # {}
  /\ MaxMoves \in Nat /\ MaxReboots \in Nat /\ MaxForgeMoves \in Nat

\* NoUser stands for a row that is not there, an empty list for one without passkeys.
ASSUME AccountAssumption ==
  /\ MaxUsers \in Nat \ {0} /\ MaxCeremonies \in Nat /\ NoUser \notin Seq(Nat)
  /\ Accounts \in Nat \ {0} /\ MaxCrashes \in Nat

\* Pull requests are numbered from 1; the board of a repository lists finitely many.
ASSUME StackedAssumption == IsFiniteSet(Stacked) /\ Stacked \subseteq Nat \ {0}

\* The limits of the copies of answers are numbers.
ASSUME CopiesAssumption ==
  /\ MaxContent \in Nat /\ MaxBody \in Nat /\ MaxTurns \in Nat
  /\ MaxEntries \in Nat /\ MaxBytes \in Nat /\ TableCap \in Nat

\* A part that is not chosen rests in one of its initial states.  The merge
\* methods, the rules and the head's state vary for a branch of the repository.
MCInit ==
  /\ part \in {"settings", "passkeys", "upgrade", "rules", "branches", "snapshot", "answers"}
  /\ ST!SettingsInit /\ (part = "settings" \/ appConfigured)
  /\ PK!KeysInit /\ (part = "passkeys" \/ (made = 0 /\ named = 0))
  /\ UP!UpgradeInit /\ (part = "upgrade" \/ db = UP!Blank)
  /\ RU!RulesInit
  /\ BW!BranchInit
  /\ \/ part = "branches" /\ (place = "own" \/ (methods = {"squash"} /\ linear = {} /\ update = "behind"))
     \/ /\ client = "github" /\ place = "own" /\ listedPulls = <<>> /\ update = "current"
        /\ target = "main" /\ methods = {"merge"} /\ linear = {}
  /\ SC!CacheInit /\ (part = "snapshot" \/ onForge = [r \in Repos |-> x])
  /\ EC!EtagInit

MCNext ==
  /\ UNCHANGED part
  /\ \/ /\ part = "settings" /\ ST!SettingsNext
        /\ UNCHANGED <<keyVars, upgradeVars, ruleVars, branchVars, cacheVars, etagVars>>
     \/ /\ part = "passkeys" /\ PK!KeysNext
        /\ UNCHANGED <<formVars, upgradeVars, ruleVars, branchVars, cacheVars, etagVars>>
     \/ /\ part = "upgrade" /\ UP!UpgradeNext
        /\ UNCHANGED <<formVars, keyVars, ruleVars, branchVars, cacheVars, etagVars>>
     \/ /\ part = "rules" /\ RU!RulesNext
        /\ UNCHANGED <<formVars, keyVars, upgradeVars, branchVars, cacheVars, etagVars>>
     \/ /\ part = "branches" /\ BW!BranchNext
        /\ UNCHANGED <<formVars, keyVars, upgradeVars, ruleVars, cacheVars, etagVars>>
     \/ /\ part = "snapshot" /\ SC!CacheNext
        /\ UNCHANGED <<formVars, keyVars, upgradeVars, ruleVars, branchVars, etagVars>>
     \/ /\ part = "answers" /\ EC!EtagNext
        /\ UNCHANGED <<formVars, keyVars, upgradeVars, ruleVars, branchVars, cacheVars>>

MCSpec == MCInit /\ [][MCNext]_<<part, formVars, keyVars, upgradeVars, ruleVars, branchVars,
                                cacheVars, etagVars>>

\* The stored form is one the validation accepts, an answered save stays until a
\* later one or one that crossed it, and a page whose filter state was refused
\* is told a revision it can go past (settings/store.go, api/settings.go).
SettingsAreKept == part = "settings" =>
  /\ ST!SettingsTypeOK /\ ST!StoredFormIsWhole
  /\ ST!OnlyCrossedSavesAreLost /\ ST!RefusedPagesCatchUp

\* One account owns the passkeys, its last passkey cannot be removed, a change
\* of them is undone only by a write that crossed it (auth/store.go); and an
\* upgrade cut off at any step loses no row without a backup and leaves the
\* owner's rows to the owner (dbmigrate.go, singleuser/cleanup.go).
OwnerKeepsTheAccount ==
  /\ [](part = "passkeys" => PK!KeysTypeOK /\ PK!OneOwner /\ PK!OnlyCrossedWritesUndo)
  /\ PK!LastPasskeyStays
  /\ [](part = "upgrade" => UP!UpgradeTypeOK /\ UP!NothingIsLostUnsaved /\ UP!TheOwnersRowsStay)

\* What the rows say of the actions they offer is true: a refusal names a cause
\* the state has, the advice it gives can be followed, it reads nothing the
\* refused call did not say, and a stack is a tree (allowed_actions.go,
\* action_refusal.go, stack.go).
RowsTellTheTruth == part = "rules" =>
  /\ RU!RulesTypeOK /\ RU!RefusalsTellTheTruth /\ RU!AdviceCanBeFollowed
  /\ RU!RefusalsNeedNoMoreThanTheyRead /\ RU!StacksAreTrees

\* A branch is deleted under no pull request but one that came while it was
\* being deleted, "deleted" means it is gone, a merge is refused for its method
\* only by rules that could not be read, and an update that was applied is not
\* reported as a conflict (the clients' DeleteBranch, Merge and UpdateBranch).
BranchesAreSafe == part = "branches" =>
  /\ BW!BranchTypeOK /\ BW!OnlyLateUsersLoseTheirBranch /\ BW!DeletedMeansGone
  /\ BW!OnlyUnreadRulesRefuseTheMethod /\ BW!AppliedIsNoConflict

\* The saved snapshot is the board unless two saves crossed or one failed
\* (snapshot_cache.go); the copies of answers in memory and in the table stay
\* within their limits (etag_store.go, cache.go); and however they are replaced,
\* evicted or lost to a restart, a caller cannot tell that they are there: it is given
\* what the forge answered with after the call (RoundTrip, etag_transport.go:79-113).
CopiesAreTrue ==
  /\ [](part = "snapshot" => SC!CacheTypeOK /\ SC!OnlyCrossedSavesLeaveTheTableBehind)
  /\ [](part = "answers" => EC!EtagTypeOK /\ EC!CachesFit)
  /\ UN!UncachedSpec
=============================================================================
