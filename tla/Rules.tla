-------------------------------- MODULE Rules --------------------------------
(***************************************************************************)
(* The rules of the board that are functions of what is known: the actions *)
(* a row offers and their blocks (dashboard/allowed_actions.go,            *)
(* pull_request_status.go, bot_pr.go), the reason the API gives for one    *)
(* that is not offered (api/action_error.go), what a refusal of the forge  *)
(* means (dashboard/action_refusal.go), what the armed badge says          *)
(* (auto_merge_status.go) and how pull requests stack (stack.go).          *)
(*                                                                         *)
(* The state is an input: a row whose fields change one at a time, a       *)
(* refusal, or the branches of a few pull requests.  Texts are left out,   *)
(* a code stands for each of them.                                         *)
(***************************************************************************)
EXTENDS Integers, Sequences, FiniteSets

CONSTANTS
  Stacked,     \* pull requests of one repository, as numbers
  Branches     \* their branches

VARIABLES
  row,         \* a pull request on the board
  refusal,     \* a refused call: the action, the error and the state read again
  ends         \* head and base branch of each pull request in Stacked

ruleVars == <<row, refusal, ends>>

Domain == [forge |-> {"github", "forgejo"},
           kind |-> {"human", "dependabot", "renovate", "release", "renovate_release"},
           empty |-> BOOLEAN, draft |-> BOOLEAN, stacked |-> BOOLEAN, behind |-> BOOLEAN,
           merge |-> {"mergeable", "conflicting", "blocked", "unstable", "unknown"},
           ci |-> {"none", "pending", "success", "failure"},
           auto |-> {"on", "off", "not_allowed"},
           approval |-> {"none", "awaiting", "only"},
           request |-> {"none", "rebase_queued", "recreate_queued", "rebasing", "expired"},
           box |-> BOOLEAN]

Plain == [forge |-> "github", kind |-> "human", empty |-> FALSE, draft |-> FALSE, stacked |-> FALSE,
          behind |-> FALSE, merge |-> "mergeable", ci |-> "success", auto |-> "off",
          approval |-> "none", request |-> "none", box |-> FALSE]

CallDomain == [action |-> {"merge", "close", "reopen", "update", "auto_merge", "renovate", "rerun"},
               kind |-> {"other", "rate", "unauthorized", "failed", "not_found", "conflict",
                            "unreachable", "unknown"},
               text |-> {"none", "up_to_date", "head_sha", "approval", "check_failed", "check_pending",
                            "not_mergeable", "not_allowed", "clean", "unstable", "unprotected"},
               state |-> {"unread", "open", "merged", "closed", "conflicting", "unconfirmed", "behind",
                             "draft", "failing", "blocked", "workflows"}]

NoCall == [action |-> "merge", kind |-> "other", text |-> "none", state |-> "unread"]
NoBranch == ""
Flat == [n \in Stacked |-> [head |-> NoBranch, base |-> NoBranch]]

RulesTypeOK ==
  /\ DOMAIN row = DOMAIN Domain /\ \A f \in DOMAIN Domain : row[f] \in Domain[f]
  /\ DOMAIN refusal = DOMAIN CallDomain /\ \A f \in DOMAIN CallDomain : refusal[f] \in CallDomain[f]
  /\ ends \in [Stacked -> [head : Branches \cup {NoBranch}, base : Branches \cup {NoBranch}]]

RulesInit == row = Plain /\ refusal = NoCall /\ ends = Flat

\* A switch: the value of the first case whose condition holds, the last one's without.
Switch(cases) ==
  LET i == CHOOSE i \in DOMAIN cases :
             /\ cases[i][1] \/ i = Len(cases)
             /\ \A j \in 1..i - 1 : ~cases[j][1]
  IN cases[i][2]

-----------------------------------------------------------------------------
(* allowed_actions.go.                                                     *)

IsDependabot(pr) == pr.kind = "dependabot"
IsRenovate(pr) == pr.kind \in {"renovate", "renovate_release"}
IsRelease(pr) == pr.kind \in {"release", "renovate_release"}
IsFailingCI(pr) == pr.ci = "failure" /\ pr.approval # "only"
HeldForApproval(pr) ==
  pr.approval # "none" /\ pr.ci # "pending" /\ pr.merge \in {"blocked", "unknown"}

\* mergeAvailability and forgeMergeAvailability: why Merge is blocked, "no" when it is not.
MergeBlock(pr) ==
  Switch(<< <<pr.stacked, "stacked">>,
            <<pr.merge = "conflicting", "conflict">>,
            <<pr.draft, "not_mergeable">>,
            <<pr.merge = "unstable", "no">>,
            <<pr.ci = "pending", "checks_pending">>,
            <<HeldForApproval(pr), "approval">>,
            <<pr.behind /\ pr.merge # "mergeable", "behind">>,
            <<pr.merge = "blocked" /\ pr.ci = "failure", "checks_failing">>,
            <<pr.merge = "blocked", "protected">>,
            <<pr.merge # "mergeable", "not_mergeable">>,
            <<TRUE, "no">> >>)

\* Slip: a row that is behind is not offered auto-merge either.
AutoMergeOffered_UpToDate(pr) ==
  /\ ~(pr.forge = "forgejo" /\ pr.draft) /\ pr.auto = "off"
  /\ ~pr.empty /\ pr.merge # "conflicting" /\ ~pr.stacked
  /\ ~(pr.merge = "mergeable" /\ pr.ci = "success")

\* autoMergeOffered.
AutoMergeOffered(pr) ==
  /\ ~(pr.forge = "forgejo" /\ pr.draft) /\ pr.auto = "off"
  /\ ~pr.empty /\ pr.merge # "conflicting" /\ ~pr.stacked
  /\ ~(pr.merge = "mergeable" /\ pr.ci = "success" /\ ~pr.behind)

Asked(pr) == pr.request \in {"rebase_queued", "recreate_queued", "rebasing"}
UpdateOffered(pr) ==
  pr.behind /\ ~pr.empty /\ ((IsDependabot(pr) \/ IsRenovate(pr)) => IsRelease(pr))

\* AllowedActions, before blocks: the names of what is offered.
Offered(pr) ==
  {"close"}
  \cup (IF ~pr.empty THEN {"merge"} ELSE {})
  \cup (IF UpdateOffered(pr) THEN {"update"} ELSE {})
  \cup (IF AutoMergeOffered(pr) THEN {"auto_merge"} ELSE {})
  \cup (IF pr.auto = "on" THEN {"cancel_auto_merge"} ELSE {})
  \cup (IF pr.forge = "github" /\ IsDependabot(pr) /\ ~Asked(pr)
        THEN {"dependabot_rebase", "dependabot_recreate"} ELSE {})
  \cup (IF ~IsRenovate(pr) \/ pr.request = "rebasing" THEN {}
        ELSE IF pr.box THEN {"cancel_renovate"}
        ELSE IF Asked(pr) THEN {} ELSE {"renovate_rebase"})
  \cup (IF IsFailingCI(pr) THEN {"rerun"} ELSE {})
  \cup (IF pr.ci = "pending" THEN {"cancel_run"} ELSE {})

\* The block of an offered action: blockHeadPushes after the action's own rule.
BlockOf(pr, a) ==
  CASE a = "merge" -> MergeBlock(pr)
    [] a = "update" /\ pr.merge = "conflicting" -> "conflict"
    [] /\ a \in {"update", "renovate_rebase", "dependabot_rebase", "dependabot_recreate"}
       /\ ~(a = "update" /\ pr.merge = "conflicting")
       /\ pr.behind /\ "merge" \in Offered(pr) /\ MergeBlock(pr) = "approval" -> "approval"
    [] OTHER -> "no"

\* primaryCandidates, in order.
BotRebases == <<"renovate_rebase", "dependabot_rebase">>
Candidates(pr) ==
  Switch(<< <<pr.empty, <<"close">> >>,
            <<MergeBlock(pr) = "no" /\ pr.ci # "failure", <<"merge">> >>,
            <<MergeBlock(pr) = "behind", <<"update">> \o BotRebases>>,
            <<pr.behind /\ pr.merge # "conflicting" /\ ~pr.draft /\ ~pr.stacked, BotRebases>>,
            <<TRUE, <<>> >> >>)

\* markPrimary: the first candidate that is offered and not blocked, "none" for none.
Primary(pr) ==
  LET able == {i \in DOMAIN Candidates(pr) :
                 Candidates(pr)[i] \in Offered(pr) /\ BlockOf(pr, Candidates(pr)[i]) = "no"}
  IN IF able = {} THEN "none" ELSE Candidates(pr)[CHOOSE i \in able : \A j \in able : i <= j]

-----------------------------------------------------------------------------
(* The row on the board: api/dashboard.go allowedActions, and its status.  *)

\* Auto-update, when on for the row, takes Update branch away.
AutoUpdates(pr, repoAuto) == repoAuto /\ ~pr.draft /\ ~IsRelease(pr)
OnBoard(pr, repoAuto) ==
  Offered(pr) \ (IF AutoUpdates(pr, repoAuto) /\ BlockOf(pr, "update") = "no" THEN {"update"} ELSE {})

\* Slip: the fix is looked for among what the row offers at all.
FixFor_Offered(pr, repoAuto) == IF Primary(pr) \in Offered(pr) THEN Primary(pr) ELSE "none"

\* fixFor: the primary action, when it is one that brings the branch up to date.
FixFor(pr, repoAuto) ==
  IF /\ Primary(pr) \in OnBoard(pr, repoAuto)
     /\ Primary(pr) \in {"update", "renovate_rebase", "dependabot_rebase"}
  THEN Primary(pr) ELSE "none"

\* PullRequestStatus: the block and the action that fixes it.
StatusOf(pr, repoAuto) ==
  Switch(<< <<pr.empty, [code |-> "already_up_to_date", fix |-> "none"]>>,
            <<MergeBlock(pr) = "behind", [code |-> "behind", fix |-> FixFor(pr, repoAuto)]>>,
            <<TRUE, [code |-> MergeBlock(pr), fix |-> "none"]>> >>)

-----------------------------------------------------------------------------
(* api/action_error.go: why an action is not offered.                      *)

AutoMergeNotOffered(pr) ==
  Switch(<< <<pr.forge = "forgejo" /\ pr.draft, "draft">>,
            <<pr.auto = "on", "already_on">>,
            <<pr.auto = "not_allowed", "not_allowed">>,
            <<pr.empty, "empty">>,
            <<pr.merge = "conflicting", "conflict">>,
            <<pr.stacked, "stacked">>,
            <<TRUE, "ready_to_merge">> >>)

NotOffered(a, pr) ==
  LET pending == pr.request \notin {"none", "expired"}
  IN CASE a = "auto_merge" -> AutoMergeNotOffered(pr)
       [] a = "update" -> IF ~pr.behind \/ pr.empty THEN "up_to_date" ELSE "bots_rebase"
       [] a = "merge" -> "empty"
       [] a \in {"dependabot_rebase", "dependabot_recreate"} ->
            IF ~(pending /\ IsDependabot(pr)) THEN "not_dependabot"
            ELSE IF (a = "dependabot_rebase") = (pr.request # "recreate_queued")
                 THEN "already_requested" ELSE "another_command_pending"
       [] a = "renovate_rebase" ->
            IF pr.box \/ (pending /\ IsRenovate(pr)) THEN "already_requested" ELSE "not_renovate"
       [] a = "cancel_renovate" ->
            IF IsRenovate(pr) /\ pr.request = "rebasing" THEN "already_rebasing" ELSE "no_box_ticked"
       [] a = "rerun" -> "no_failed_checks"
       [] OTHER -> "does_not_apply"

\* What each reason says of the row.
Holds(reason, a, pr) ==
  CASE reason = "draft" -> pr.draft
    [] reason = "already_on" -> pr.auto = "on"
    [] reason = "not_allowed" -> pr.auto = "not_allowed"
    [] reason = "empty" -> pr.empty
    [] reason = "conflict" -> pr.merge = "conflicting"
    [] reason = "stacked" -> pr.stacked
    [] reason = "ready_to_merge" -> pr.merge = "mergeable" /\ pr.ci = "success" /\ ~pr.behind
    [] reason = "up_to_date" -> ~pr.behind \/ pr.empty
    [] reason = "bots_rebase" -> IsDependabot(pr) \/ IsRenovate(pr)
    [] reason = "not_dependabot" -> ~(IsDependabot(pr) /\ pr.forge = "github")
    [] reason \in {"already_requested", "another_command_pending"} -> pr.box \/ Asked(pr)
    [] reason = "not_renovate" -> ~IsRenovate(pr)
    [] reason = "already_rebasing" -> pr.request = "rebasing"
    [] reason = "no_box_ticked" -> ~(IsRenovate(pr) /\ pr.box)
    [] reason = "no_failed_checks" -> ~IsFailingCI(pr)
    [] reason = "does_not_apply" -> a \notin {"merge", "update", "auto_merge"}

-----------------------------------------------------------------------------
(* auto_merge_status.go and readyForAutoMerge.                             *)

AutoMergeStatusOf(pr) ==
  Switch(<< <<pr.merge = "conflicting", "stopped_conflict">>,
            <<pr.ci = "failure" /\ pr.approval = "only", "waiting_approval">>,
            <<pr.ci = "failure", "stopped_checks">>,
            <<pr.empty, "stopped_empty">>,
            <<pr.draft, "waiting_draft">>,
            <<pr.stacked, "waiting_stacked">>,
            <<pr.ci \in {"none", "pending"}, "waiting_checks">>,
            <<pr.merge # "mergeable", "waiting_forge">>,
            <<TRUE, "merges_next">> >>)

\* Slip: a branch without checks counts as passed.
ReadyForAutoMerge_NoChecks(pr) ==
  /\ pr.ci \in {"success", "none"} /\ pr.merge = "mergeable"
  /\ ~pr.draft /\ ~pr.empty /\ ~pr.stacked

ReadyForAutoMerge(pr) ==
  /\ pr.ci = "success" /\ pr.merge = "mergeable"
  /\ ~pr.draft /\ ~pr.empty /\ ~pr.stacked

-----------------------------------------------------------------------------
(* action_refusal.go: what a refused call means.                           *)

IsClientError(call) == call.kind # "other"

\* refusalFromKind: codes the error alone decides, "none" when it does not.
FromKind(call) ==
  CASE call.kind = "rate" -> "rate_limited"
    [] call.kind = "unauthorized" -> "permission"
    [] call.kind = "failed" -> "forge_error"
    [] OTHER -> "none"

\* refusalFromFinishedState.
FromFinishedState(call) ==
  CASE call.state = "merged" -> "already_merged"
    [] call.state = "closed" /\ call.action # "reopen" -> "already_closed"
    [] OTHER -> "none"

\* classifyMergeRefusal: the flags read again, then the forge's words.
MergeRefusal(call) ==
  Switch(<< <<call.state \in {"conflicting", "unconfirmed"}, "conflict">>,
            <<call.state = "behind", "behind">>,
            <<call.state = "draft", "not_mergeable">>,
            <<call.state = "failing", "checks_failing">>,
            <<call.text = "approval", "protected">>,
            <<call.text = "check_failed", "checks_failing">>,
            <<call.text = "check_pending", "checks_pending">>,
            <<call.state = "blocked", "protected">>,
            <<TRUE, "not_mergeable">> >>)

UpdateRefusal(call) ==
  Switch(<< <<call.text = "up_to_date", "already_up_to_date">>,
            <<call.text = "head_sha" /\ call.state # "conflicting", "unknown">>,
            <<call.kind = "conflict" \/ call.state = "conflicting", "conflict">>,
            <<TRUE, "unknown">> >>)

AutoMergeRefusal(call) ==
  CASE call.text = "not_allowed" -> "auto_merge_not_allowed"
    [] call.text = "clean" -> "ready_to_merge"
    [] call.text = "unstable" -> "checks_pending"
    [] call.text = "unprotected" -> "protected"
    [] OTHER -> "unknown"

\* classifyByAction.
ByAction(call) ==
  CASE call.action = "merge" /\ call.state # "unread" -> MergeRefusal(call)
    [] call.action = "update" -> UpdateRefusal(call)
    [] call.action = "auto_merge" -> AutoMergeRefusal(call)
    [] call.action = "renovate" /\ call.kind = "not_found" /\ call.state # "unread" -> "label_missing"
    [] call.action = "reopen" /\ call.kind \in {"conflict", "unknown"} -> "not_reopenable"
    [] OTHER -> "unknown"

\* Slip: what was read again decides before the error does.
Classify_StateFirst(call) ==
  Switch(<< <<FromFinishedState(call) # "none", FromFinishedState(call)>>,
            <<call.action = "update" /\ call.state = "workflows" /\ call.kind = "unauthorized", "permission">>,
            <<FromKind(call) # "none", FromKind(call)>>,
            <<TRUE, ByAction(call)>> >>)

\* classifyActionRefusal.
Classify(call) ==
  Switch(<< <<FromKind(call) = "rate_limited", "rate_limited">>,
            <<FromFinishedState(call) # "none", FromFinishedState(call)>>,
            <<call.action = "update" /\ call.state = "workflows" /\ call.kind = "unauthorized", "permission">>,
            <<FromKind(call) # "none", FromKind(call)>>,
            <<TRUE, ByAction(call)>> >>)

\* refusalNeedsNoReRead, and the status writeActionRefusal answers with.
NeedsNoReRead(call) == call.kind = "rate"
HttpStatus(call) ==
  Switch(<< <<Classify(call) \in {"already_merged", "already_closed", "not_reopenable"}, 409>>,
            <<call.kind = "unauthorized", 403>>,
            <<call.kind = "not_found", 404>>,
            <<call.kind = "conflict", 409>>,
            <<call.kind = "rate", 429>>,
            <<TRUE, 502>> >>)

-----------------------------------------------------------------------------
(* stack.go.                                                               *)

None == 0

\* parents: the lowest-numbered pull request whose head is this one's base.
Parent(e, n) ==
  LET owners == {m \in Stacked : e[m].head # NoBranch /\ e[m].head = e[n].base}
      owner == CHOOSE m \in owners : \A k \in owners : m <= k
  IN IF e[n].base = NoBranch \/ owners = {} \/ owner = n THEN None ELSE owner

\* The pull requests on the way up from n, n included.
Walked(up, n) ==
  LET at[k \in 0..Cardinality(Stacked)] ==
        IF k = 0 THEN n ELSE IF at[k - 1] = None THEN None ELSE up[at[k - 1]]
  IN {at[k] : k \in 0..Cardinality(Stacked)} \ {None}
Circles(up, n) == \A m \in Walked(up, n) : up[m] # None

\* Slip: only two pull requests stacked on each other are seen as a circle.
DropCycles_OfTwo(up) ==
  [n \in Stacked |-> IF up[n] # None /\ up[up[n]] = n THEN None ELSE up[n]]

\* dropCycles: everything that leads into a circle loses its parent, and so
\* does what is stacked on it.
DropCycles(up) ==
  LET bad == {n \in Stacked : Circles(up, n)}
  IN [n \in Stacked |-> IF n \in bad \/ (up[n] # None /\ up[n] \in bad) THEN None ELSE up[n]]

\* AnnotateStacks: depth below the root, and the size of the whole tree.
ParentOf(e) == DropCycles([n \in Stacked |-> Parent(e, n)])
Root(up, n) == CHOOSE m \in Walked(up, n) : up[m] = None
Position(up, n) == Cardinality(Walked(up, n))
Size(up, n) == Cardinality({m \in Stacked : Root(up, m) = Root(up, n)})

-----------------------------------------------------------------------------
\* One field of the row changes.  A bot's request is on a row of that bot, a
\* ticked box on one of Renovate.
RowChanges ==
  /\ refusal = NoCall /\ ends = Flat
  /\ \E f \in DOMAIN Domain : \E v \in Domain[f] \ {row[f]} : row' = [row EXCEPT ![f] = v]
  /\ row'.request # "none" => (IsDependabot(row') \/ IsRenovate(row'))
  /\ row'.request = "recreate_queued" => IsDependabot(row')
  /\ row'.box => IsRenovate(row')
  /\ UNCHANGED <<refusal, ends>>

\* A call is refused (the forge's answer is external).
CallRefused ==
  /\ row = Plain /\ ends = Flat
  /\ \E f \in DOMAIN CallDomain : \E v \in CallDomain[f] \ {refusal[f]} :
       refusal' = [refusal EXCEPT ![f] = v]
  /\ UNCHANGED <<row, ends>>

\* A pull request is opened or retargeted.
Retargeted ==
  /\ row = Plain /\ refusal = NoCall
  /\ \E n \in Stacked, b \in Branches \cup {NoBranch}, f \in {"head", "base"} :
       ends' = [ends EXCEPT ![n][f] = b]
  /\ UNCHANGED <<row, refusal>>

RulesNext == RowChanges \/ CallRefused \/ Retargeted

RulesSpec == RulesInit /\ [][RulesNext]_ruleVars

-----------------------------------------------------------------------------
\* The API's reason for refusing an action the row does not offer is true of
\* the row: the rules that offer it and the ones that explain, in two
\* packages, agree on every row.
RefusalsTellTheTruth ==
  \A a \in {"merge", "update", "auto_merge", "dependabot_rebase", "dependabot_recreate",
             "renovate_rebase", "cancel_renovate", "rerun"} :
    a \notin Offered(row) => Holds(NotOffered(a, row), a, row)

\* What the board tells the user to do next can be done: the fix in the row's
\* status is an action the row still shows, unblocked, and an armed row whose
\* badge says it merges next is exactly one the auto-merge pass will merge.
AdviceCanBeFollowed ==
  /\ \A repoAuto \in BOOLEAN :
       LET fix == StatusOf(row, repoAuto).fix
       IN fix # "none" => fix \in OnBoard(row, repoAuto) /\ BlockOf(row, fix) = "no"
  /\ (AutoMergeStatusOf(row) = "merges_next") = ReadyForAutoMerge(row)

\* A refusal that is not worth a second read means the same whatever that
\* read would have said, and the status of the answer says what its code does.
RefusalsNeedNoMoreThanTheyRead ==
  /\ NeedsNoReRead(refusal) => Classify(refusal) = Classify([refusal EXCEPT !.state = "unread"])
  /\ (Classify(refusal) = "rate_limited") = (HttpStatus(refusal) = 429)
  /\ Classify(refusal) = "permission" => HttpStatus(refusal) = 403

\* Stacks are trees however the branches point at each other: every walk to
\* the root ends, a pull request sits one below its parent, and no position
\* exceeds the size of its stack.
StacksAreTrees ==
  LET up == ParentOf(ends)
  IN \A n \in Stacked :
       /\ ~Circles(up, n)
       /\ up[n] # None => Position(up, n) = Position(up, up[n]) + 1
       /\ Position(up, n) <= Size(up, n)
=============================================================================
