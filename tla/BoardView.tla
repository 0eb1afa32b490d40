------------------------------ MODULE BoardView ------------------------------
(***************************************************************************)
(* What one answer of the board shows, and the hides it forgets            *)
(* (api/dashboard.go buildDashboardResponse, api/nav_counts.go,            *)
(* api/pull_request_hide.go, settings/hidden_pull_request.go and the       *)
(* ignore and per-repository switches of settings/store.go).               *)
(*                                                                         *)
(* A handler takes the snapshot, loads the marks in statements of their    *)
(* own and then forgets the hides of pull requests its snapshot says are   *)
(* closed: refreshes, other handlers and the user go on in between.  One   *)
(* repository; a row is its pull request and whether it is a draft.        *)
(***************************************************************************)
EXTENDS Naturals, FiniteSets

CONSTANTS
  Pulls,        \* the pull requests of one repository
  Readers,      \* handlers that may answer at one time
  MaxBoards     \* bound: snapshots published

VARIABLES
  openPulls,    \* what the forge has open
  drafts,       \* which of them are drafts
  board,        \* the shown snapshot: rows, forge reachable, repository tracked
  boards,       \* its number
  hidden,       \* hidden_pull_requests: "no", "forever" or "until"
  ignoredPRs,   \* ignored_repos: this repository's pull requests are left out
  reader,       \* where each handler is
  steady,       \* history: open ever since it was hidden
  lost          \* history: pull requests shown again without cause, by a current board

viewVars == <<openPulls, drafts, board, boards, hidden, ignoredPRs, reader, steady, lost>>

NoBoard == [rows |-> {}, reachable |-> FALSE, tracked |-> FALSE]
Away == [at |-> "idle", snap |-> NoBoard, taken |-> 0, marks |-> {}, ignored |-> FALSE]

\* A row of hidden_pull_requests: hidden until the user restores
\* it, or until a time.
Hides == {"no", "forever", "until"}

ViewTypeOK ==
  /\ openPulls \subseteq Pulls /\ drafts \subseteq Pulls /\ steady \subseteq Pulls /\ lost \subseteq Pulls
  /\ board \in [rows : SUBSET Pulls, reachable : BOOLEAN, tracked : BOOLEAN]
  /\ boards \in 0..MaxBoards
  /\ hidden \in [Pulls -> Hides] /\ ignoredPRs \in BOOLEAN
  /\ reader \in [Readers -> [at : {"idle", "load", "forget", "answer"},
                             snap : [rows : SUBSET Pulls, reachable : BOOLEAN, tracked : BOOLEAN],
                             taken : 0..MaxBoards, marks : SUBSET Pulls, ignored : BOOLEAN]]

ViewInit ==
  /\ openPulls = Pulls /\ drafts \in SUBSET Pulls
  /\ board = NoBoard /\ boards = 0
  /\ hidden = [p \in Pulls |-> "no"] /\ ignoredPRs = FALSE
  /\ reader = [r \in Readers |-> Away] /\ steady = {} /\ lost = {}

-----------------------------------------------------------------------------
(* The forge, the refreshes and the user.                                  *)

\* A pull request is closed, merged or opened again (external).
ForgeTurns ==
  \E p \in Pulls :
    /\ openPulls' = (openPulls \ {p}) \cup ({p} \ openPulls)
    /\ steady' = steady \ {p}
  /\ UNCHANGED <<drafts, board, boards, hidden, ignoredPRs, reader, lost>>

\* A refresh: the forge's rows; the ones before when it is unreachable; none when the
\* repository is no longer tracked.  Or a new process that has no stored snapshot.
PublishBoard ==
  /\ boards < MaxBoards /\ boards' = boards + 1
  /\ board' \in {[rows |-> openPulls, reachable |-> TRUE, tracked |-> TRUE],
                 [board EXCEPT !.reachable = FALSE],
                 [rows |-> {}, reachable |-> TRUE, tracked |-> FALSE], NoBoard}
  /\ UNCHANGED <<openPulls, drafts, hidden, ignoredPRs, reader, steady, lost>>

\* handlePullRequestHide, for a row on the board, with or without an end.
Hide(p) ==
  /\ p \in board.rows
  /\ \E h \in {"forever", "until"} : hidden' = [hidden EXCEPT ![p] = h]
  /\ steady' = steady \cup ({p} \cap openPulls) /\ lost' = lost \ {p}
  /\ UNCHANGED <<openPulls, drafts, board, boards, ignoredPRs, reader>>

\* handlePullRequestUnhide.
Unhide(p) ==
  /\ hidden[p] # "no"
  /\ hidden' = [hidden EXCEPT ![p] = "no"] /\ steady' = steady \ {p}
  /\ UNCHANGED <<openPulls, drafts, board, boards, ignoredPRs, reader, lost>>

\* IgnoreRepo and UnignoreRepo; the other per-repository switches are rows of the same form.
ToggleIgnore ==
  /\ ignoredPRs' = ~ignoredPRs
  /\ UNCHANGED <<openPulls, drafts, board, boards, hidden, reader, steady, lost>>

-----------------------------------------------------------------------------
(* buildDashboardResponse.                                                 *)

\* deps.Service.Get.
TakeSnapshot(r) ==
  /\ reader[r].at = "idle"
  /\ reader' = [reader EXCEPT ![r] = [Away EXCEPT !.at = "load", !.snap = board, !.taken = boards]]
  /\ UNCHANGED <<openPulls, drafts, board, boards, hidden, ignoredPRs, steady, lost>>

\* loadBoardSettings.  HiddenPullRequests first deletes the hides whose time has come; a table
\* that cannot be read counts as empty.
LoadBoardSettings(r) ==
  /\ reader[r].at = "load"
  /\ \E over \in SUBSET {p \in Pulls : hidden[p] = "until"}, readable \in BOOLEAN :
       LET left == {p \in Pulls \ over : hidden[p] # "no"}
       IN /\ hidden' = [p \in Pulls |-> IF p \in over THEN "no" ELSE hidden[p]]
          /\ steady' = steady \ over
          /\ \E ign \in {ignoredPRs, FALSE} :
               reader' = [reader EXCEPT ![r] = [@ EXCEPT !.at = "forget", !.ignored = ign,
                                                         !.marks = IF readable THEN left ELSE {}]]
  /\ UNCHANGED <<openPulls, drafts, board, boards, ignoredPRs, lost>>

\* Slip: a pull request the snapshot does not list counts as closed.
Closed_Unlisted(snap, p) == p \notin snap.rows

\* closed: gone from a repository that the snapshot has, of a forge that answered.
Closed(snap, p) == p \notin snap.rows /\ snap.reachable /\ snap.tracked

\* forgetClosedHides: deletes their rows, then takes them out of the loaded marks; on an
\* error, after any of them, the marks stay as loaded.
ForgetClosedHides(r) ==
  /\ reader[r].at = "forget"
  /\ LET gone == {p \in reader[r].marks : Closed(reader[r].snap, p)}
     IN \E deleted \in SUBSET gone :
          /\ hidden' = [p \in Pulls |-> IF p \in deleted THEN "no" ELSE hidden[p]]
          /\ lost' = lost \cup {p \in deleted \cap steady : reader[r].taken = boards}
          /\ steady' = steady \ deleted
          /\ reader' = [reader EXCEPT ![r].at = "answer",
                                       ![r].marks = IF deleted = gone THEN @ \ gone ELSE @]
  /\ UNCHANGED <<openPulls, drafts, board, boards, ignoredPRs>>

\* Slip: the counts are of the rows the answer shows.
Counted_Shown(shownRows, marks) == shownRows

\* buildNavCounts: drafts and hidden rows are in no count.
Counted(shownRows, marks) == {p \in shownRows : p \notin drafts /\ p \notin marks}

\* pullRequestViews: the rows of an answer, with drafts and hidden ones on request.
ShownRows(rd, includeDrafts, includeHidden) ==
  {p \in rd.snap.rows : /\ ~rd.ignored
                        /\ p \in rd.marks => includeHidden
                        /\ p \in drafts => (includeDrafts \/ p \in rd.marks)}
HiddenDrafts(rd, includeDrafts) ==
  {p \in rd.snap.rows : ~rd.ignored /\ p \in drafts /\ ~includeDrafts /\ p \notin rd.marks}
HiddenPullRequests(rd) == {p \in rd.snap.rows : ~rd.ignored /\ p \in rd.marks}

\* The answer is written.
Answer(r) ==
  /\ reader[r].at = "answer"
  /\ reader' = [reader EXCEPT ![r] = Away]
  /\ UNCHANGED <<openPulls, drafts, board, boards, hidden, ignoredPRs, steady, lost>>

ViewNext ==
  \/ ForgeTurns \/ PublishBoard \/ ToggleIgnore
  \/ \E p \in Pulls : Hide(p) \/ Unhide(p)
  \/ \E r \in Readers : TakeSnapshot(r) \/ LoadBoardSettings(r) \/ ForgetClosedHides(r) \/ Answer(r)

ViewSpec == ViewInit /\ [][ViewNext]_viewVars

-----------------------------------------------------------------------------
\* A hide stays for as long as its pull request stays open: a forge that does
\* not answer, a repository that is no longer tracked or a restart without a
\* snapshot forget none.  Only an answer whose snapshot has been replaced may.
OnlyAnOldBoardForgetsAHide == lost = {}

\* The counts in the navigation are the same for every view of one board, and
\* a row is shown, counted as a hidden draft or counted as hidden by hand:
\* none is left out of all three, none that is not shown is in two.
CountsAgree ==
  \A r \in Readers : reader[r].at = "answer" =>
    LET rd == reader[r]
        total(d, h) == Cardinality(Counted(ShownRows(rd, d, h), rd.marks))
    IN /\ \A d, h \in BOOLEAN : total(d, h) = total(FALSE, FALSE)
       /\ ~rd.ignored => \A d \in BOOLEAN :
            Cardinality(ShownRows(rd, d, FALSE)) + Cardinality(HiddenDrafts(rd, d))
              + Cardinality(HiddenPullRequests(rd)) = Cardinality(rd.snap.rows)
=============================================================================
