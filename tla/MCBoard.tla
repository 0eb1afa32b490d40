------------------------------- MODULE MCBoard -------------------------------
(* The board and what a row of it says.  Five parts of one run, each         *)
(* behaviour of one of them: the merges of refreshes into the snapshot, on   *)
(* one repository (its rows meet those of no other); the answer a handler    *)
(* builds from it; the CI colour of a Forgejo row and of a GitHub row; the   *)
(* request to a bot and the box a row shows for it.                          *)
EXTENDS Board, FiniteSets

CONSTANTS r1, u1, u2, h1, Pulls, Readers, MaxBoards, MaxJobSteps,
          FullTTL, MaxHeads, MaxCheckTurns, MaxPush, MaxFetches, MaxAsks

ASSUME ViewAssumption == IsFiniteSet(Pulls) /\ MaxBoards \in Nat
ASSUME ChecksAssumption == MaxJobSteps \in Nat /\ FullTTL \in Nat /\ MaxHeads \in Nat
ASSUME BotsAssumption == MaxPush \in Nat /\ MaxFetches \in Nat /\ MaxAsks \in Nat

VARIABLES part,
          openPulls, drafts, board, boards, hidden, ignoredPRs, reader, steady, lost,
          job, external, ci, shown, jobSteps, clean, lateFailure,
          headSha, runOf, lagging, heldRuns, protects, ruled, mayRead, review, complete, contexts,
          heldBy, look, shownRow, checkTurns, missing, excuse, changed,
          bkind, truth, brow, req, box, fullRead, scopedRead, acting, acks, fetches, askings,
          wanted, slipped

answerVars == <<openPulls, drafts, board, boards, hidden, ignoredPRs, reader, steady, lost>>
forgejoVars == <<job, external, ci, shown, jobSteps, clean, lateFailure>>
githubVars == <<headSha, runOf, lagging, heldRuns, protects, ruled, mayRead, review, complete,
                contexts, heldBy, look, shownRow, checkTurns, missing, excuse, changed>>
botVars == <<bkind, truth, brow, req, box, fullRead, scopedRead, acting, acks, fetches, askings,
             wanted, slipped>>

BV == INSTANCE BoardView
FC == INSTANCE ForgejoChecks WITH late <- lateFailure
RC == INSTANCE RequiredChecks
BR == INSTANCE BotRequests WITH full <- fullRead, scoped <- scopedRead

\* A part that is not chosen rests in one of its initial states.
MCInit ==
  /\ part \in {"merges", "answers", "forgejo", "github", "bots"}
  /\ Init /\ BV!ViewInit /\ FC!ForgejoInit /\ RC!RequiredInit /\ BR!Init
  /\ part = "answers" \/ drafts = {}
  /\ part = "forgejo" \/ external = "none"
  /\ part = "github" \/ (protects = {} /\ ruled = {} /\ mayRead /\ ~review)
  /\ part = "bots" \/ bkind = "update"

MCNext ==
  /\ UNCHANGED part
  /\ \/ part = "merges" /\ Next /\ UNCHANGED <<answerVars, forgejoVars, githubVars, botVars>>
     \/ part = "answers" /\ BV!ViewNext /\ UNCHANGED <<vars, forgejoVars, githubVars, botVars>>
     \/ part = "forgejo" /\ FC!ForgejoNext /\ UNCHANGED <<vars, answerVars, githubVars, botVars>>
     \/ part = "github" /\ RC!RequiredNext /\ UNCHANGED <<vars, answerVars, forgejoVars, botVars>>
     \/ part = "bots" /\ BR!Next /\ UNCHANGED <<vars, answerVars, forgejoVars, githubVars>>

MCSpec == MCInit /\ [][MCNext]_<<part, vars, answerVars, forgejoVars, githubVars, botVars>>

\* A pull request hidden on purpose is shown again only when it closed, its time
\* came, its user said so, or a handler answered from a board that a newer one
\* had replaced (forgetClosedHides); and the counts in the navigation are those
\* of the rows in the answer (buildNavCounts).
HidesAndCountsHold == part = "answers" =>
  BV!ViewTypeOK /\ BV!OnlyAnOldBoardForgetsAHide /\ BV!CountsAgree

\* The CI colour of a row follows its check counts, and green is earned: on
\* Forgejo only a run that moved while it was read can read green with a job
\* failed or left (ciStatus), on GitHub every required check has reported unless
\* the rules or the runs changed since they were read (requiredChecks).
ColoursAreEarned ==
  /\ part = "forgejo" => FC!ForgejoTypeOK /\ FC!ForgejoCountsAgree /\ FC!OnlyAMovingRunReadsGreen
  /\ part = "github" => RC!RequiredTypeOK /\ RC!RollupCountsAgree /\ RC!GreenHasReported

\* What this server asked of a bot stays on the row: a tick is not shown undone
\* by a fetch that began before it, the request is on the row until it ends, and
\* it ends early only on a row the fetch did not read (bot_request.go).
RequestsAreShown ==
  /\ [](part = "bots" => BR!TypeOK /\ BR!TickStays /\ BR!RequestIsShown)
  /\ BR!OnlyAnUnreadRowSettlesEarly
=============================================================================
