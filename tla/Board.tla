-------------------------------- MODULE Board --------------------------------
(***************************************************************************)
(* How the three kinds of forge read meet in one snapshot                  *)
(* (internal/dashboard/aggregator.go, ci_poll.go, incremental.go).         *)
(*                                                                         *)
(* A full refresh reads every repository, a scoped refresh reads one, a CI *)
(* poll reads the pull requests on the board.  Each takes a number from    *)
(* fetchSeq when it starts and reads the forge later, at its own pace;     *)
(* scopedSeq and the lock mu decide what the snapshot keeps.  A pull       *)
(* request this server closed is held off the board while the forge still  *)
(* lists it (settled, under settledMu).                                    *)
(*                                                                         *)
(* Each repository has one pull request that polls and closes are about;   *)
(* `rest` stands for its other pull requests and its issues.  A version is *)
(* the number of changes the forge had seen when the part was read; 0 is   *)
(* "no row".  All repositories are on one forge: the merges of two forges  *)
(* touch disjoint rows.                                                    *)
(***************************************************************************)
EXTENDS Naturals

CONSTANTS
  Repos,        \* tracked repositories
  MaxSeq,       \* bound: fetches started in one behaviour
  MaxVersion    \* bound: versions of a repository

ASSUME BoundsAssumption ==
  MaxSeq \in Nat /\ MaxVersion \in Nat \ {0}

VARIABLES
  forge,      \* external: what each repository holds and still lists
  closed,     \* repositories whose pull request the forge has closed
  snap,       \* a.snap: the rows of each repository
  settled,    \* a.settled: repositories whose pull request has a key there
  window,     \* repositories marked settled less than settleWindow ago
  marking,    \* repositories where MarkSettled is between its two locks
  lastGood,   \* a.lastGood: some full refresh reached the forge
  fetchSeq,   \* a.fetchSeq
  scopedSeq,  \* a.scopedSeq
  full,       \* the refreshOnce in flight (one: the refresh coalescer)
  scoped,     \* the RefreshRepo of each repository (one each: repoRefresh)
  poll,       \* the pollBatched in flight (one: RunCIPoll is a loop)
  merged,     \* history: fetchSeq of the newest RefreshRepo merged
  late        \* history: repositories marked settled while a full refresh was
              \* between its filter and its swap

vars == <<forge, closed, snap, settled, window, marking, lastGood, fetchSeq, scopedSeq,
          full, scoped, poll, merged, late>>

Versions == 0..MaxVersion

NoRows == [rest |-> 0, pull |-> 0, on |-> FALSE, branch |-> 0]

\* pull is the version of the pull request's row, on whether it is listed.
Rows == [rest : Versions, pull : Versions, on : BOOLEAN, branch : Versions]

\* What a fetch has read of a repository so far.
Unread == [read |-> {}, rest |-> 0, pull |-> 0, on |-> FALSE, branch |-> 0]

Answers == [read : SUBSET {"rows", "branch"}, rest : Versions, pull : Versions,
            on : BOOLEAN, branch : Versions]

\* began is history: the forge's versions when the refresh started.
IdleFull == [pc |-> "idle", seq |-> 0, asked |-> Repos, reached |-> FALSE,
             got |-> [r \in Repos |-> Unread], board |-> [r \in Repos |-> NoRows],
             began |-> [r \in Repos |-> 0]]

IdleFetch == [pc |-> "idle", seq |-> 0, got |-> Unread]

IdlePoll == [pc |-> "idle", seq |-> 0, due |-> {},
             got |-> [r \in Repos |-> Unread]]

TypeOK ==
  /\ forge \in [Repos -> [ver : Versions, listed : BOOLEAN]]
  /\ closed \subseteq Repos
  /\ snap \in [Repos -> Rows]
  /\ settled \subseteq Repos
  /\ window \subseteq Repos
  /\ marking \subseteq Repos
  /\ lastGood \in BOOLEAN
  /\ fetchSeq \in 0..MaxSeq
  /\ scopedSeq \in [Repos -> 0..fetchSeq]
  /\ full \in [pc : {"idle", "reading", "taken", "built"}, seq : 0..fetchSeq,
               asked : SUBSET Repos, reached : BOOLEAN, got : [Repos -> Answers],
               board : [Repos -> Rows], began : [Repos -> Versions]]
  /\ scoped \in [Repos -> [pc : {"idle", "rows", "branch", "merge"},
                           seq : 0..fetchSeq, got : Answers]]
  /\ poll \in [pc : {"idle", "reading"}, seq : 0..fetchSeq, due : SUBSET Repos,
               got : [Repos -> Answers]]
  /\ merged \in [Repos -> 0..fetchSeq]
  /\ late \subseteq Repos

Init ==
  /\ forge = [r \in Repos |-> [ver |-> 1, listed |-> TRUE]]
  /\ closed = {}
  /\ snap = [r \in Repos |-> NoRows]
  /\ settled = {}
  /\ window = {}
  /\ marking = {}
  /\ lastGood = FALSE
  /\ fetchSeq = 0
  /\ scopedSeq = [r \in Repos |-> 0]
  /\ full = IdleFull
  /\ scoped = [r \in Repos |-> IdleFetch]
  /\ poll = IdlePoll
  /\ merged = [r \in Repos |-> 0]
  /\ late = {}

-----------------------------------------------------------------------------
(* The forge, as the code sees it *)

ForgeChanges(r) ==
  /\ forge[r].ver < MaxVersion
  /\ forge' = [forge EXCEPT ![r].ver = @ + 1]
  /\ UNCHANGED <<closed, snap, settled, window, marking, lastGood, fetchSeq, scopedSeq,
                 full, scoped, poll, merged, late>>

\* A closed pull request leaves the forge's own list some time later.
ForgeStopsListing(r) ==
  /\ r \in closed
  /\ forge[r].listed
  /\ forge' = [forge EXCEPT ![r].listed = FALSE]
  /\ UNCHANGED <<closed, snap, settled, window, marking, lastGood, fetchSeq, scopedSeq,
                 full, scoped, poll, merged, late>>

\* What a read of the repository's lists returns at this moment.
ReadRows(r, got) ==
  [got EXCEPT !.read = @ \cup {"rows"}, !.rest = forge[r].ver,
              !.pull = forge[r].ver, !.on = forge[r].listed]

ReadBranch(r, got) == [got EXCEPT !.read = @ \cup {"branch"}, !.branch = forge[r].ver]

-----------------------------------------------------------------------------
(* Closing and reopening *)

\* The forge accepted a merge or a close, or a delivery said so: MarkSettled
\* records it under settledMu ...
MarkSettled(r) ==
  /\ r \notin marking
  /\ closed' = closed \cup {r}
  /\ settled' = settled \cup {r}
  /\ window' = window \cup {r}
  /\ marking' = marking \cup {r}
  /\ late' = IF full.pc = "built" THEN late \cup {r} ELSE late \ {r}
  /\ UNCHANGED <<forge, snap, lastGood, fetchSeq, scopedSeq, full, scoped, poll, merged>>

\* ... and takes the row off the snapshot under mu.
MarkSettledBoard(r) ==
  /\ r \in marking
  /\ marking' = marking \ {r}
  /\ snap' = [snap EXCEPT ![r].on = FALSE]
  /\ UNCHANGED <<forge, closed, settled, window, lastGood, fetchSeq, scopedSeq,
                 full, scoped, poll, merged, late>>

\* The pull request was reopened: Unsettle leaves the board to the next refresh.
Unsettle(r) ==
  /\ r \in closed \ marking
  /\ closed' = closed \ {r}
  /\ forge' = [forge EXCEPT ![r].listed = TRUE]
  /\ settled' = settled \ {r}
  /\ window' = window \ {r}
  /\ late' = late \ {r}
  /\ UNCHANGED <<snap, marking, lastGood, fetchSeq, scopedSeq, full, scoped, poll, merged>>

\* settleWindow passes since the pull request was marked.
WindowPasses(r) ==
  /\ r \in window \ marking
  /\ window' = window \ {r}
  /\ late' = late \ {r}
  /\ UNCHANGED <<forge, closed, snap, settled, marking, lastGood, fetchSeq,
                 scopedSeq, full, scoped, poll, merged>>

\* withoutSettled, first half: the keys left in settled.  A key of a repository
\* in scope stays only while its window is open and the rows list it.
StillSettled(rows, scope) ==
  {r \in settled : r \in scope => r \in window /\ rows[r].on}

\* Slip: forget keys but let every row through.
WithoutSettled_Keeps(rows, keys) == rows

\* withoutSettled, second half: a pull request with a key is dropped.
WithoutSettled(rows, keys) ==
  [r \in Repos |-> [rows[r] EXCEPT !.on = @ /\ r \notin keys]]

-----------------------------------------------------------------------------
(* Full refresh *)

\* fetchSources copies the snapshot before it asks anyone.
FullBegin ==
  /\ full.pc = "idle"
  /\ fetchSeq < MaxSeq
  /\ fetchSeq' = fetchSeq + 1
  /\ full' = [IdleFull EXCEPT !.pc = "reading", !.seq = fetchSeq + 1, !.board = snap,
                              !.began = [r \in Repos |-> forge[r].ver]]
  /\ UNCHANGED <<forge, closed, snap, settled, window, marking, lastGood, scopedSeq,
                 scoped, poll, merged, late>>

\* The source reads one repository, whole or in part: a list can fail
\* (FailedRepos), and an unchanged repository is not read at all (Unchanged).
FullRead(r, parts) ==
  /\ full.pc = "reading"
  /\ r \in full.asked
  /\ full' = [full EXCEPT
       !.asked = @ \ {r},
       !.got[r] = LET rows == IF "rows" \in parts THEN ReadRows(r, @) ELSE @
                  IN  IF "branch" \in parts THEN ReadBranch(r, rows) ELSE rows]
  /\ UNCHANGED <<forge, closed, snap, settled, window, marking, lastGood, fetchSeq,
                 scopedSeq, scoped, poll, merged, late>>

\* What refreshOnce assembles from the answers and the snapshot it copies after
\* the fetch: a part that was not read keeps the earlier rows.
Assembled ==
  [r \in Repos |->
     LET got == full.got[r] IN
     [rest   |-> IF "rows" \in got.read THEN got.rest ELSE snap[r].rest,
      pull   |-> IF "rows" \in got.read THEN got.pull ELSE snap[r].pull,
      on     |-> IF "rows" \in got.read THEN got.on ELSE snap[r].on,
      branch |-> IF "branch" \in got.read THEN got.branch ELSE snap[r].branch]]

FullTake ==
  /\ full.pc = "reading"
  /\ full.asked = {}
  /\ full' = [full EXCEPT !.pc = "taken", !.reached = TRUE, !.board = Assembled]
  /\ UNCHANGED <<forge, closed, snap, settled, window, marking, lastGood, fetchSeq,
                 scopedSeq, scoped, poll, merged, late>>

\* The forge is not asked, its budget being at its reserve or spent: its rows
\* are those of the copy, and its last health stands for an answer.
FullHeld ==
  /\ full.pc = "reading"
  /\ full.asked = Repos
  /\ lastGood
  /\ full' = [full EXCEPT !.pc = "taken", !.asked = {}, !.reached = TRUE]
  /\ UNCHANGED <<forge, closed, snap, settled, window, marking, lastGood, fetchSeq,
                 scopedSeq, scoped, poll, merged, late>>

\* The forge did not answer, or its last fetch is still running: its rows are
\* carried over, unless no full refresh ever reached it.
FullUnreachable ==
  /\ full.pc = "reading"
  /\ full' = [full EXCEPT
       !.pc = "taken", !.asked = {}, !.got = [r \in Repos |-> Unread],
       !.board = IF lastGood THEN snap ELSE [r \in Repos |-> NoRows]]
  /\ UNCHANGED <<forge, closed, snap, settled, window, marking, lastGood, fetchSeq,
                 scopedSeq, scoped, poll, merged, late>>

FullDropSettled ==
  /\ full.pc = "taken"
  /\ settled' = StillSettled(full.board, Repos)
  /\ full' = [full EXCEPT !.pc = "built",
                          !.board = WithoutSettled(@, StillSettled(full.board, Repos))]
  /\ UNCHANGED <<forge, closed, snap, window, marking, lastGood, fetchSeq,
                 scopedSeq, scoped, poll, merged, late>>

\* Slip: let every repository take the full refresh's data.
KeepNewerScopedRepos_Off(board) == board

\* Slip: keep every repository a scoped refresh ever wrote.
KeepNewerScopedRepos_Any(board) ==
  [r \in Repos |->
     IF scopedSeq[r] > 0
     THEN [snap[r] EXCEPT !.branch = board[r].branch] ELSE board[r]]

\* A repository some scoped refresh wrote since this one began keeps its current
\* rows; its default-branch row is the full refresh's.
KeepNewerScopedRepos(board) ==
  [r \in Repos |->
     IF scopedSeq[r] > full.seq
     THEN [snap[r] EXCEPT !.branch = board[r].branch] ELSE board[r]]

FullPublish ==
  /\ full.pc = "built"
  /\ snap' = KeepNewerScopedRepos(full.board)
  /\ lastGood' = (lastGood \/ full.reached)
  /\ full' = IdleFull
  /\ UNCHANGED <<forge, closed, settled, window, marking, fetchSeq, scopedSeq,
                 scoped, poll, merged, late>>

-----------------------------------------------------------------------------
(* Scoped refresh of one repository *)

\* Slip: look at the next number without taking it.
ScopedBegin_Peeks(r) ==
  /\ scoped[r].pc = "idle"
  /\ fetchSeq < MaxSeq
  /\ scoped' = [scoped EXCEPT ![r] = [IdleFetch EXCEPT
                  !.pc = "rows", !.seq = fetchSeq + 1]]
  /\ UNCHANGED <<forge, closed, snap, settled, window, marking, lastGood, fetchSeq,
                 scopedSeq, full, poll, merged, late>>

ScopedBegin(r) ==
  /\ scoped[r].pc = "idle"
  /\ fetchSeq < MaxSeq
  /\ fetchSeq' = fetchSeq + 1
  /\ scoped' = [scoped EXCEPT ![r] = [IdleFetch EXCEPT
                  !.pc = "rows", !.seq = fetchSeq + 1]]
  /\ UNCHANGED <<forge, closed, snap, settled, window, marking, lastGood, scopedSeq,
                 full, poll, merged, late>>

\* FetchRepo: on an error the run ends and merges nothing.
ScopedRows(r) ==
  /\ scoped[r].pc = "rows"
  /\ \/ scoped' = [scoped EXCEPT ![r].pc = "branch", ![r].got = ReadRows(r, @)]
     \/ scoped' = [scoped EXCEPT ![r] = IdleFetch]
  /\ UNCHANGED <<forge, closed, snap, settled, window, marking, lastGood, fetchSeq,
                 scopedSeq, full, poll, merged, late>>

\* FetchMainBranch: an error leaves the default-branch row as it was.
ScopedBranch(r) ==
  /\ scoped[r].pc = "branch"
  /\ \/ scoped' = [scoped EXCEPT ![r].pc = "merge", ![r].got = ReadBranch(r, @)]
     \/ scoped' = [scoped EXCEPT ![r].pc = "merge"]
  /\ UNCHANGED <<forge, closed, snap, settled, window, marking, lastGood, fetchSeq,
                 scopedSeq, full, poll, merged, late>>

\* mergedRepo, under mu: rows replaces the repositories in scope.
MergeRepos(rows, scope, seq) ==
  LET keys == StillSettled(rows, scope)
  IN  /\ settled' = keys
      /\ snap' = [r \in Repos |->
                    IF r \in scope THEN WithoutSettled(rows, keys)[r] ELSE snap[r]]
      /\ scopedSeq' = [r \in Repos |-> IF r \in scope THEN seq ELSE scopedSeq[r]]

ScopedMerge(r) ==
  LET got  == scoped[r].got
      rows == [snap EXCEPT ![r] =
                 [rest |-> got.rest, pull |-> got.pull, on |-> got.on,
                  branch |-> IF "branch" \in got.read THEN got.branch ELSE @.branch]]
  IN  /\ scoped[r].pc = "merge"
      /\ MergeRepos(rows, {r}, scoped[r].seq)
      /\ scoped' = [scoped EXCEPT ![r] = IdleFetch]
      /\ merged' = [merged EXCEPT ![r] = scoped[r].seq]
      /\ UNCHANGED <<forge, closed, window, marking, lastGood, fetchSeq, full, poll, late>>

-----------------------------------------------------------------------------
(* CI poll: the pull requests on the board, in one request *)

PollBegin ==
  LET due == {r \in Repos : snap[r].on} IN
  /\ poll.pc = "idle"
  /\ due # {}
  /\ fetchSeq < MaxSeq
  /\ fetchSeq' = fetchSeq + 1
  /\ poll' = [IdlePoll EXCEPT !.pc = "reading", !.seq = fetchSeq + 1, !.due = due]
  /\ UNCHANGED <<forge, closed, snap, settled, window, marking, lastGood, scopedSeq,
                 full, scoped, merged, late>>

\* The source answers for one pull request, open or closed, or leaves it out (the
\* scoped refresh that follows is ScopedBegin).
PollRead(r) ==
  /\ poll.pc = "reading"
  /\ r \in poll.due
  /\ \/ poll' = [poll EXCEPT !.due = @ \ {r}, !.got[r] = ReadRows(r, @)]
     \/ poll' = [poll EXCEPT !.due = @ \ {r}]
  /\ UNCHANGED <<forge, closed, snap, settled, window, marking, lastGood, fetchSeq,
                 scopedSeq, full, scoped, merged, late>>

\* mergePendingResult leaves alone a repository a newer scoped refresh wrote.
PollWrites(r) == "rows" \in poll.got[r].read /\ ~(scopedSeq[r] > poll.seq)

\* repoPullRequestsAfter: an answered pull request replaces its row where the
\* snapshot still has one, a closed one leaves; the other rows are the snapshot's.
PollRows(r) ==
  LET got == poll.got[r] IN
  [snap[r] EXCEPT !.on = @ /\ got.on,
                  !.pull = IF snap[r].on /\ got.on THEN got.pull ELSE @]

PollMerge ==
  /\ poll.pc = "reading"
  /\ poll.due = {}
  /\ MergeRepos([r \in Repos |-> PollRows(r)], {r \in Repos : PollWrites(r)}, poll.seq)
  /\ poll' = IdlePoll
  /\ UNCHANGED <<forge, closed, window, marking, lastGood, fetchSeq, full,
                 scoped, merged, late>>

-----------------------------------------------------------------------------

Next ==
  \/ \E r \in Repos :
       \/ ForgeChanges(r) \/ ForgeStopsListing(r)
       \/ MarkSettled(r) \/ MarkSettledBoard(r) \/ Unsettle(r) \/ WindowPasses(r)
       \/ \E parts \in SUBSET {"rows", "branch"} : FullRead(r, parts)
       \/ ScopedBegin(r) \/ ScopedRows(r) \/ ScopedBranch(r) \/ ScopedMerge(r)
       \/ PollRead(r)
  \/ FullBegin \/ FullTake \/ FullHeld \/ FullUnreachable \/ FullDropSettled \/ FullPublish
  \/ PollBegin \/ PollMerge

Spec == Init /\ [][Next]_vars

-----------------------------------------------------------------------------
(* Properties *)

\* A fetch that began before the newest scoped refresh of a repository never
\* takes the repository's rows back to an older version (#966): a slow full
\* refresh or CI poll cannot undo a webhook's own read.
NewerReadIsNotUndone ==
  [][\A r \in Repos :
        \/ FullPublish /\ merged[r] > full.seq
        \/ PollMerge /\ merged[r] > poll.seq
        => snap'[r].rest >= snap[r].rest /\ snap'[r].pull >= snap[r].pull]_vars

\* The person who pressed refresh sees every change made before the click: when
\* a full refresh publishes, a repository it read shows nothing older than what
\* the forge held when the refresh began.  The one exception is a repository
\* whose newest number is a CI poll's that began later: mergePendingResult marks
\* it newer although it read one row of it.
OnlyAPollHidesARefresh ==
  [][\A r \in Repos :
        FullPublish /\ "rows" \in full.got[r].read /\ snap'[r].rest < full.began[r]
          => scopedSeq[r] > full.seq /\ scopedSeq[r] # merged[r]]_vars

\* Once MarkSettled has returned, a pull request with a live key is off the
\* board, whatever merges ran while it was being marked ("The pull request
\* leaves the snapshot at once").  The one merge that puts it back is a full
\* refresh that had filtered the settled pull requests before the mark and
\* publishes after it.
OnlyALateMarkIsUndone ==
  \A r \in settled \cap window : r \notin marking \cup late => ~snap[r].on
=============================================================================
