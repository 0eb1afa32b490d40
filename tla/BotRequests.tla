---------------------------- MODULE BotRequests -----------------------------
(***************************************************************************)
(* What the board remembers of a request made to a bot, or to the forge,   *)
(* for one pull request (dashboard/bot_request.go, bot_ack.go,             *)
(* update_request.go, renovate_rebase_checkbox.go), the handlers that make *)
(* it, and the refreshes that settle it: a full one, and the scoped ones   *)
(* and CI polls of this and of another repository.                         *)
(*                                                                         *)
(* The code numbers fetches and compares the numbers; here a fetch carries *)
(* the answers: did it begin after the request, after the box was set,     *)
(* after the full refresh?  Times are kept as the deadlines they pass.     *)
(***************************************************************************)
EXTENDS Naturals

CONSTANTS
  MaxPush,    \* bound: pushes to the pull request's branch
  MaxFetches, \* bound: fetches begun
  MaxAsks     \* bound: requests and cancels

VARIABLES
  bkind,     \* who was asked: "dependabot", "renovate", or "update" (the forge)
  truth,     \* the pull request on the forge
  brow,      \* its row of a.snap
  req,       \* its entry of botRequests, or of updateRequests
  box,       \* its entry of boxOverrides
  full,      \* the full refresh in flight
  scoped,    \* the scoped refresh or CI poll in flight
  acting,    \* a handler between the forge's answer and the board's record
  acks,      \* a lookup of Dependabot's thumbs-up: none, or whose request it is for
  fetches, askings,  \* how many began
  wanted,    \* history: the last tick or cancel made here
  slipped    \* history: a row older than that tick was published over a newer one

vars == <<bkind, truth, brow, req, box, full, scoped, acting, acks, fetches, askings, wanted, slipped>>
counts == <<fetches, askings>>

Boxes == {"absent", "off", "on"}
Phases == {"queued", "rebasing", "expired"}
Truth == [open : BOOLEAN, head : 0..MaxPush, behind : BOOLEAN, box : Boxes, pending : BOOLEAN]
\* sinceReq and sinceBox: history, was the row read by a fetch begun after them?
BRow == [listed : BOOLEAN, head : 0..MaxPush, behind : BOOLEAN, box : BOOLEAN,
         pending : BOOLEAN, shown : Phases \cup {"none"}, sinceReq : BOOLEAN, sinceBox : BOOLEAN]
NoBRow == [listed |-> FALSE, head |-> 0, behind |-> FALSE, box |-> FALSE,
           pending |-> FALSE, shown |-> "none", sinceReq |-> FALSE, sinceBox |-> FALSE]
NoReq == [phase |-> "none", head |-> 0, behind |-> FALSE, clock |-> "runs", acked |-> FALSE]
NoFetch == [at |-> "idle", row |-> NoBRow, read |-> FALSE, afterReq |-> FALSE,
            afterBox |-> FALSE, beaten |-> FALSE]
NoScoped == [at |-> "idle", of |-> "own", row |-> NoBRow, afterReq |-> FALSE,
             afterBox |-> FALSE, later |-> FALSE]

TypeOK ==
  /\ bkind \in {"dependabot", "renovate", "update"}
  /\ truth \in Truth /\ brow \in BRow
  /\ req \in [phase : Phases \cup {"none"}, head : 0..MaxPush, behind : BOOLEAN,
              clock : {"runs", "due", "old"}, acked : BOOLEAN]
  /\ box \in {"none", "on", "off"} /\ wanted \in {"none", "on", "off"}
  /\ full \in [at : {"idle", "asking", "copied", "applied"}, row : BRow,
               read : BOOLEAN, afterReq : BOOLEAN, afterBox : BOOLEAN, beaten : BOOLEAN]
  /\ scoped \in [at : {"idle", "asking", "answered"}, of : {"own", "other", "poll"}, row : BRow,
                 afterReq : BOOLEAN, afterBox : BOOLEAN, later : BOOLEAN]
  /\ acting \in {"idle", "asked", "ticked", "already", "cleared"}
  /\ fetches \in 0..MaxFetches /\ askings \in 0..MaxAsks
  /\ acks \in {"none", "current", "stale"} /\ slipped \in BOOLEAN
  /\ (box # "none") => (bkind = "renovate" /\ box = wanted)

Init ==
  /\ bkind \in {"dependabot", "renovate", "update"}
  /\ truth \in [open : {TRUE}, head : {0}, behind : {TRUE},
                box : IF bkind = "renovate" THEN {"absent", "off"} ELSE {"absent"}, pending : {FALSE}]
  /\ brow = NoBRow /\ req = NoReq /\ box = "none"
  /\ full = NoFetch /\ scoped = NoScoped
  /\ acting = "idle" /\ acks = "none" /\ wanted = "none" /\ slipped = FALSE
  /\ fetches = 0 /\ askings = 0

-----------------------------------------------------------------------------
(* The forge and the bots (external), and the clock.                       *)

\* A push by the bot or a person, which clears Renovate's box; or a merge or a
\* close; or checks that end.
TruthMoves ==
  /\ \/ /\ truth.open /\ truth.head < MaxPush
        /\ \E b, p \in BOOLEAN :
             truth' = [truth EXCEPT !.head = @ + 1, !.behind = b, !.pending = p,
                                    !.box = IF @ = "on" THEN "off" ELSE @]
     \/ truth.open /\ truth' = [truth EXCEPT !.open = FALSE]
     \/ truth.pending /\ truth' = [truth EXCEPT !.pending = FALSE]
  /\ UNCHANGED <<bkind, brow, req, box, full, scoped, acting, acks, counts, wanted, slipped>>

\* ExpiresAt passes; later the hour an expired request is kept for.
DeadlinePasses ==
  /\ \/ req.phase # "none" /\ req.clock = "runs" /\ req' = [req EXCEPT !.clock = "due"]
     \/ req.phase = "expired" /\ req.clock = "due" /\ req' = [req EXCEPT !.clock = "old"]
  /\ UNCHANGED <<bkind, truth, brow, box, full, scoped, acting, acks, counts, wanted, slipped>>

-----------------------------------------------------------------------------
(* The handlers.                                                           *)

\* RequestRenovateRebase where the description has a box: it is ticked, or was.
TickBox ==
  /\ acting' = IF truth.box = "on" THEN "already" ELSE "ticked"
  /\ truth' = [truth EXCEPT !.box = "on"]

\* CancelRenovateRebase: the box is cleared where it is ticked.
UntickBox == truth' = [truth EXCEPT !.box = IF @ = "on" THEN "off" ELSE @]

\* handlePullRequestDependabotAction, handlePullRequestUpdateBranch and
\* handlePullRequestRenovateRebase up to the forge's answer.  Renovate is asked
\* by its box, or by a label when there is none.
AskForge ==
  /\ askings < MaxAsks /\ askings' = askings + 1 /\ UNCHANGED fetches
  /\ acting = "idle" /\ brow.listed /\ truth.open
  /\ IF bkind = "renovate" /\ truth.box # "absent"
       THEN TickBox
       ELSE /\ acting' = "asked"
            /\ \/ UNCHANGED truth
               \/ /\ bkind = "update" /\ truth.head < MaxPush
                  /\ truth' = [truth EXCEPT !.head = @ + 1, !.behind = FALSE, !.pending = TRUE]
  /\ UNCHANGED <<bkind, brow, req, box, full, scoped, acks, wanted, slipped>>

\* handlePullRequestRenovateRebaseCancel up to the forge's answer.
CancelOnForge ==
  /\ askings < MaxAsks /\ askings' = askings + 1 /\ UNCHANGED fetches
  /\ acting = "idle" /\ bkind = "renovate" /\ brow.listed /\ brow.box
  /\ UntickBox
  /\ acting' = "cleared"
  /\ UNCHANGED <<bkind, brow, req, box, full, scoped, acks, wanted, slipped>>

Shown(r) == r.phase

\* recordBotLocked, or RecordUpdateRequest's entry: every fetch in flight began
\* before it.
Queued == [phase |-> "queued", head |-> brow.head, behind |-> brow.behind,
           clock |-> "runs", acked |-> FALSE]

\* setBoxLocked's part of the registry: a cancel drops a waiting Renovate request.
ReqAfterBox(r, ticked) == IF ticked THEN r ELSE NoReq

\* A row that was read before a request or a change of the box that comes now.
Aged(r, asks, boxes) == [r EXCEPT !.sinceReq = @ /\ ~asks, !.sinceBox = @ /\ ~boxes]

\* NoteRenovateRebase, RecordBotRequest, RecordRenovateRebase, SetRenovateRebaseBox
\* and RecordUpdateRequest, through amendPullRequest: nothing for a row that left.
Record ==
  /\ acting # "idle"
  /\ acting' = "idle"
  /\ IF ~brow.listed
       THEN UNCHANGED <<brow, req, box, full, scoped, acks, wanted, slipped>>
       ELSE LET asks  == acting \in {"asked", "ticked"}
                boxes == acting \in {"ticked", "already", "cleared"}
                on    == acting # "cleared"
            IN /\ req' = ReqAfterBox(IF asks THEN Queued ELSE req, on)
               /\ box' = IF boxes THEN (IF on THEN "on" ELSE "off") ELSE box
               /\ wanted' = IF boxes THEN box' ELSE wanted
               /\ brow' = [Aged(brow, asks, boxes) EXCEPT !.box = IF boxes THEN on ELSE @,
                                                          !.shown = Shown(req')]
               /\ full' = [full EXCEPT !.row = Aged(@, asks, boxes),
                                       !.afterReq = @ /\ ~asks, !.afterBox = @ /\ ~boxes]
               /\ scoped' = [scoped EXCEPT !.row = Aged(@, asks, boxes),
                                           !.afterReq = @ /\ ~asks, !.afterBox = @ /\ ~boxes]
               /\ acks' = IF asks /\ acks = "current" THEN "stale" ELSE acks
               /\ slipped' = (slipped /\ ~boxes)
  /\ UNCHANGED <<bkind, truth, counts>>

\* A handler: the forge is asked, and what came of it recorded.
Asking == AskForge \/ CancelOnForge \/ Record

-----------------------------------------------------------------------------
(* Settling: applyBotRequests, settleBoxOverrides, annotateBotRequests.    *)

\* Slip: the numbers are not compared.
Landed_Any(r, row, after) ==
  r.head # row.head \/ (r.behind /\ ~row.behind)

\* botEntry.advance's landed: only a fetch begun after the request can show it.
Landed(r, row, after) ==
  after /\ (r.head # row.head \/ (r.behind /\ ~row.behind))

\* botEntry.advance and updateEntry.advance: the entry, or none when it ends.
Advance(r, row, after) ==
  CASE r.phase = "queued" ->
         IF bkind = "update"
           THEN IF after /\ ~row.behind THEN NoReq
                ELSE IF r.clock # "runs" THEN [r EXCEPT !.phase = "expired"] ELSE r
           ELSE IF Landed(r, row, after)
                THEN IF row.pending THEN NoReq ELSE [r EXCEPT !.phase = "rebasing", !.clock = "runs"]
                ELSE IF r.clock # "runs" THEN [r EXCEPT !.phase = "expired"] ELSE r
    [] r.phase = "rebasing" -> IF row.pending \/ r.clock # "runs" THEN NoReq ELSE r
    [] r.phase = "expired" -> IF r.clock = "old" THEN NoReq ELSE r
    [] OTHER -> r

\* applyBotRequests with advanceUpdateRequests, for one key.
Apply(r, row, after, covers) ==
  IF row.listed THEN Advance(r, row, after) ELSE IF covers THEN NoReq ELSE r

\* Slip: the box is believed whenever the row was read.
Boxed_Believes(row, after, covers, read) ==
  [row |-> row, box |-> IF covers /\ row.listed /\ read THEN "none" ELSE box]

\* settleBoxOverrides for one key: the row, and what is left of the override.
Boxed(row, after, covers, read) ==
  IF box = "none" \/ ~covers \/ (row.listed /\ ~read)
    THEN [row |-> row, box |-> box]
    ELSE IF after THEN [row |-> row, box |-> "none"]
         ELSE [row |-> IF row.listed THEN [row EXCEPT !.box = (box = "on")] ELSE row, box |-> box]

Annotate(row, r) == [row EXCEPT !.shown = Shown(r)]
ReadRow(f) == [listed |-> truth.open, head |-> truth.head, behind |-> truth.behind,
               box |-> truth.box = "on", pending |-> truth.pending, shown |-> "none",
               sinceReq |-> f.afterReq, sinceBox |-> f.afterBox]

\* checkDependabotAcks: a lookup for the waiting request, and its answer.
LookUpAck ==
  /\ bkind = "dependabot" /\ acks = "none"
  /\ req.phase \in {"queued", "expired"} /\ ~req.acked
  /\ acks' = "current"
  /\ UNCHANGED <<bkind, truth, brow, req, box, full, scoped, acting, counts, wanted, slipped>>

\* recordAck: dropped when the request is gone or is another one by now.
RecordAck ==
  /\ acks # "none"
  /\ acks' = "none"
  /\ req' \in IF acks = "current" /\ req.phase # "none"
                THEN {req, IF req.phase = "rebasing" THEN [req EXCEPT !.acked = TRUE]
                           ELSE [req EXCEPT !.acked = TRUE, !.phase = "queued", !.clock = "runs"]}
                ELSE {req}
  /\ UNCHANGED <<bkind, truth, brow, box, full, scoped, acting, counts, wanted, slipped>>

-----------------------------------------------------------------------------
(* The full refresh: refreshOnce.                                          *)

BeginFull ==
  /\ fetches < MaxFetches /\ fetches' = fetches + 1 /\ UNCHANGED askings
  /\ full.at = "idle"
  /\ full' = [NoFetch EXCEPT !.at = "asking", !.afterReq = TRUE, !.afterBox = TRUE]
  /\ scoped' = [scoped EXCEPT !.later = FALSE]
  /\ UNCHANGED <<bkind, truth, brow, req, box, acting, acks, wanted, slipped>>

\* The forge answers for the repository; or the fetch fails or skips it, and the
\* rows are carried over from a copy of the snapshot.
FullAnswers ==
  /\ full.at = "asking"
  /\ full' \in { [full EXCEPT !.at = "copied", !.row = ReadRow(full), !.read = TRUE],
                 [full EXCEPT !.at = "copied", !.row = brow] }
  /\ UNCHANGED <<bkind, truth, brow, req, box, scoped, acting, acks, counts, wanted, slipped>>

\* applyBotRequests, outside mu.  A forge that failed is not covered.
FullApplies ==
  /\ full.at = "copied"
  /\ req' = Apply(req, full.row, full.afterReq, full.read)
  /\ full' = [full EXCEPT !.at = "applied"]
  /\ UNCHANGED <<bkind, truth, brow, box, scoped, acting, acks, counts, wanted, slipped>>

\* Under mu: keepNewerScopedRepos, annotateUnderLock and the swap.
SwapFull ==
  /\ full.at = "applied"
  /\ LET kept == IF full.beaten THEN brow ELSE full.row
         b    == Boxed(kept, full.afterBox, full.read, full.read)
     IN /\ brow' = Annotate(b.row, req)
        /\ box' = b.box
        /\ slipped' = IF full.beaten THEN slipped
                      ELSE full.row.listed /\ ~full.read /\ wanted # "none"
                           /\ full.row.box # (wanted = "on")
  /\ full' = NoFetch
  /\ UNCHANGED <<bkind, truth, req, scoped, acting, acks, counts, wanted>>

-----------------------------------------------------------------------------
(* A scoped refresh of this repository, or a CI poll of it that did not    *)
(* read this pull request, or either of another repository.                *)

BeginScoped ==
  /\ fetches < MaxFetches /\ fetches' = fetches + 1 /\ UNCHANGED askings
  /\ scoped.at = "idle"
  /\ \E of \in {"own", "other", "poll"} :
       scoped' = [NoScoped EXCEPT !.at = IF of = "own" THEN "asking" ELSE "answered", !.of = of, !.afterReq = TRUE,
                                  !.afterBox = TRUE, !.later = full.at # "idle"]
  /\ UNCHANGED <<bkind, truth, brow, req, box, full, acting, acks, wanted, slipped>>

ScopedAnswers ==
  /\ scoped.at = "asking"
  /\ scoped' = [scoped EXCEPT !.at = "answered", !.row = ReadRow(scoped)]
  /\ UNCHANGED <<bkind, truth, brow, req, box, full, acting, acks, counts, wanted, slipped>>

\* mergedRepo under mu.
MergeScoped ==
  /\ scoped.at = "answered"
  /\ LET own == scoped.of = "own"
         b == Boxed(IF own THEN scoped.row ELSE brow, scoped.afterBox, scoped.of # "other", own)
         r == Apply(req, b.row, scoped.afterReq, scoped.of # "other")
     IN /\ req' = r /\ box' = b.box /\ brow' = Annotate(b.row, r)
        /\ slipped' = IF own THEN ~scoped.afterBox /\ box = "none" /\ wanted # "none" ELSE slipped
  /\ full' = [full EXCEPT !.beaten = IF scoped.of = "other" THEN @
                                     ELSE scoped.later /\ full.at # "idle"]
  /\ scoped' = NoScoped
  /\ UNCHANGED <<bkind, truth, acting, acks, counts, wanted>>

Refresh ==
  \/ BeginFull \/ FullAnswers \/ FullApplies \/ SwapFull
  \/ BeginScoped \/ ScopedAnswers \/ MergeScoped

Next ==
  \/ TruthMoves \/ DeadlinePasses \/ Asking
  \/ LookUpAck \/ RecordAck \/ Refresh

Spec == Init /\ [][Next]_vars

-----------------------------------------------------------------------------

\* A tick or a cancel made here is not undone by a fetch that began before it:
\* the row shows it until a later fetch has read the description.  Except that a
\* refresh whose fetch failed may publish the copy it took before the tick, and
\* a scoped refresh merges however old it is once a later fetch retired the
\* override.
TickStays ==
  (brow.listed /\ wanted # "none" /\ ~brow.sinceBox /\ ~slipped) => (brow.box = (wanted = "on"))

\* A waiting request is settled as done only by a row that a fetch begun after
\* the request has read, or by a merge that did not read the row at all (a
\* carried copy, another repository's merge): those pass their own number for
\* rows that are older.
OnlyAnUnreadRowSettlesEarly ==
  [][(req.phase = "queued" /\ req'.phase \in {"none", "rebasing"} /\ acting' = acting)
       => \/ full.at = "copied" /\ full'.at = "applied" /\ (~full.row.listed \/ full.row.sinceReq \/ ~full.read)
          \/ scoped.at = "answered" /\ scoped'.at = "idle" /\ (~brow'.listed \/ brow'.sinceReq \/ scoped.of # "own")]_vars

\* A request in the registry is on the board while its row is, whatever
\* refresh swapped its snapshot in since (#976).
RequestIsShown == (req.phase # "none" /\ brow.listed) => (brow.shown # "none")
=============================================================================
