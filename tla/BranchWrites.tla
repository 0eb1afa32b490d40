---------------------------- MODULE BranchWrites ----------------------------
(***************************************************************************)
(* The writes of the forge clients on one pull request (github/client.go,  *)
(* forgejo/client.go): the merge with the method the repository takes, the *)
(* deletion of the merged branch, the update of the branch with its one    *)
(* retry, and the read of a pull request's state.  Each is a handful of    *)
(* calls, between which the people on the forge go on.                     *)
(*                                                                         *)
(* The forge is external: "answer" stands for the status of a call.  A     *)
(* call that fails with a 5xx or no answer may have been carried out.      *)
(***************************************************************************)
EXTENDS Naturals, SequencesExt

CONSTANTS MaxForgeMoves   \* changes people make on the forge

VARIABLES client,      \* "github" or "forgejo"
          place,       \* where the head branch is
          head,        \* the head branch: there, protected
          listedPulls, \* the repository's other open pull requests, newest first
          merge,       \* open, merged or closed
          update,      \* the head against its base: "current", "behind", "conflict"
          target,      \* the branch the pull request targets
          methods,     \* merge methods the repository allows
          linear,      \* branches that require linear history
          native,      \* the forge's own auto-merge is armed
          call,        \* the write in progress
          result,      \* what it told its caller
          forgeMoves,
          news         \* history: what happened on the forge, or to a read, during this write

branchVars == <<client, place, head, listedPulls, merge, update, target, methods, linear,
                native, call, result, forgeMoves, news>>
repoRules  == <<client, place, target>>
repoState  == <<head, listedPulls, merge, update, methods, linear, native>>

Uses     == {"from", "onto"}       \* raised from the head branch, or targeting it
Idle     == [op |-> "none", at |-> "idle"]
Methods  == {"merge", "squash", "rebase"}
Outcomes == {"", "ok", "accepted", "error", "conflict", "unavailable", "method refused",
             "deleted", "failed", "skipped: fork", "skipped: default", "skipped: in use",
             "skipped: protected", "reads: merged", "reads: closed", "reads: conflict",
             "reads: behind", "reads: clean", "reads: unmergeable"}

BranchTypeOK ==
    /\ head \in [there : BOOLEAN, protected : BOOLEAN]
    /\ listedPulls \in Seq(Uses \cup {"other"}) /\ Len(listedPulls) <= MaxForgeMoves + 2
    /\ merge \in {"open", "merged", "closed"} /\ update \in {"current", "behind", "conflict"}
    /\ methods \in (SUBSET Methods) \ {{}} /\ linear \subseteq {"main", "release"}
    /\ call.op \in {"none", "merge", "arm", "disarm", "delete", "update", "read"} /\ result \in Outcomes
    /\ forgeMoves \in 0..MaxForgeMoves

BranchInit ==
    /\ client \in {"github", "forgejo"} /\ place \in {"own", "fork", "default", "nameless"}
    /\ head = [there |-> TRUE, protected |-> FALSE]
    /\ listedPulls \in {<<>>, <<"other", "from">>, <<"other", "onto">>}
    /\ merge = "open" /\ update \in {"current", "behind", "conflict"}
    /\ target \in {"main", "release"} /\ methods \in {{"merge"}, {"squash"}, Methods}
    /\ linear \in {{}, {"main"}, {"release"}}
    /\ native = FALSE /\ call = Idle /\ result = "" /\ forgeMoves = 0 /\ news = {}

Starts(op) == /\ call = Idle /\ result' = "" /\ news' = {}
              /\ call' = [op |-> op, at |-> "start"]
Goes(at)   == call' = [call EXCEPT !.at = at] /\ UNCHANGED result
Ends(r)    == call' = Idle /\ result' = r
At(op, at) == call.op = op /\ call.at = at

(* forgeErrorKind(FromStatus) with update-branch's own reading of a 422.   *)
KindOf(status) ==
    CASE status = 401 \/ status = 403 \/ status = 404 \/ status = 429 -> "error"
      [] status = 405 \/ status = 409 -> "conflict"
      [] status = 422 -> "conflict"
      [] OTHER -> "unavailable"

\* forgeFailure and ForgeFailed: the forge's own 5xx, not a call without an answer.
ForgeFailed(status) == status >= 500 /\ status < 600
NoStatus == 0

-----------------------------------------------------------------------------
(* MergePullRequest.                                                       *)

StartMerge == /\ Starts("merge")
              /\ UNCHANGED <<repoRules, repoState, forgeMoves>>

(* The repository is read; without it there is no merge.  Forgejo's style  *)
(* is the repository's own, "merge" when it names none.                    *)
MergeReadsRepo ==
    /\ At("merge", "start")
    /\ \/ Ends("error")
       \/ /\ client = "github" /\ UNCHANGED result
          /\ call' = [op |-> "merge", at |-> "pull", methods |-> methods]
       \/ /\ client = "forgejo" /\ UNCHANGED result
          /\ \E style \in methods : call' = [op |-> "merge", at |-> "ask", method |-> style]
    /\ UNCHANGED <<repoRules, repoState, forgeMoves, news>>

\* Slip: the rule is always read of the default branch.
RuleBranch_Default(pr) == "main"

\* cmp.Or(pr.GetBase().GetRef(), repo.GetDefaultBranch())
RuleBranch(pr) == IF pr = "unread" THEN "main" ELSE pr

(* readPullRequest: a read that fails leaves the default branch.           *)
MergeReadsPull ==
    /\ At("merge", "pull")
    /\ \E pr \in {target, "unread"} :
          /\ call' = [op |-> "merge", at |-> "rules", methods |-> call.methods,
                      base |-> RuleBranch(pr)]
          /\ news' = IF pr = "unread" THEN news \cup {"unread"} ELSE news
    /\ UNCHANGED <<repoRules, repoState, result, forgeMoves>>

\* Slip: a merge commit whenever the repository allows one.
PickMergeMethod_Plain(allowed, linearHistory) ==
    IF "merge" \in allowed THEN "merge" ELSE IF "squash" \in allowed THEN "squash" ELSE "rebase"

PickMergeMethod(allowed, linearHistory) ==
    IF "merge" \in allowed /\ (~linearHistory \/ allowed = {"merge"}) THEN "merge"
    ELSE IF "squash" \in allowed THEN "squash"
    ELSE IF "rebase" \in allowed THEN "rebase"
    ELSE "merge"

(* linearHistoryRequired: unreadable reads as not required.                *)
MergeReadsRules ==
    /\ At("merge", "rules") \/ At("arm", "rules")
    /\ \E required \in {call.base \in linear, FALSE} :
          /\ call' = [op |-> call.op, at |-> "ask",
                      method |-> PickMergeMethod(call.methods, required)]
          /\ news' = IF required # (call.base \in linear) THEN news \cup {"unread"} ELSE news
    /\ UNCHANGED <<repoRules, repoState, result, forgeMoves>>

TakesMethod(m) == m \in methods /\ (m = "merge" => target \notin linear)

MergeAsks ==
    /\ At("merge", "ask")
    /\ \/ /\ merge = "open" /\ update # "conflict" /\ TakesMethod(call.method) /\ merge' = "merged"
          /\ Ends("ok") \/ Ends("unavailable")
       \/ /\ merge = "open" /\ ~TakesMethod(call.method) /\ Ends("method refused") /\ UNCHANGED merge
       \/ /\ merge # "open" \/ update = "conflict"
          /\ Ends(KindOf(405)) /\ UNCHANGED merge
       \/ \E status \in {403, 404, 429, 500} : Ends(KindOf(status)) /\ UNCHANGED merge
    /\ UNCHANGED <<repoRules, head, listedPulls, update, methods, linear, native, forgeMoves, news>>

(* EnableAutoMerge (GitHub only): one query answers for the repository and *)
(* the pull request, so the base is always the one it targets.             *)
AutoMergeLookup ==
    /\ client = "github" /\ call = Idle /\ merge = "open" /\ news' = {}
    /\ \/ Ends("error")
       \/ /\ call' = [op |-> "arm", at |-> "rules", methods |-> methods, base |-> target]
          /\ result' = ""
    /\ UNCHANGED <<repoRules, repoState, forgeMoves>>

EnableAutoMerge ==
    /\ At("arm", "ask")
    /\ \/ /\ merge = "open" /\ TakesMethod(call.method) /\ native' = TRUE
          /\ Ends("ok") \/ Ends("unavailable")
       \/ merge = "open" /\ ~TakesMethod(call.method) /\ Ends("method refused") /\ UNCHANGED native
       \/ Ends("error") /\ UNCHANGED native
    /\ UNCHANGED <<repoRules, head, listedPulls, merge, update, methods, linear, forgeMoves, news>>

(* DisableAutoMerge: the pull request's id, then the mutation.             *)
DisableAutoMerge ==
    \/ /\ native /\ Starts("disarm") /\ UNCHANGED <<repoRules, repoState, forgeMoves>>
    \/ /\ At("disarm", "start")
       /\ \/ native' = FALSE /\ (Ends("ok") \/ Ends("unavailable"))
          \/ Ends("error") /\ UNCHANGED native
       /\ UNCHANGED <<repoRules, head, listedPulls, merge, update, methods, linear, forgeMoves, news>>

-----------------------------------------------------------------------------
(* DeletePullRequestBranch: every problem is an outcome.                   *)

(* The pull request is read: whose branch is it?                           *)
StartDelete ==
    /\ merge = "merged" /\ Starts("delete")
    /\ UNCHANGED <<repoRules, repoState, forgeMoves>>

BranchToDelete ==
    /\ At("delete", "start")
    /\ \/ Ends("failed")
       \/ place = "fork" /\ Ends("skipped: fork")
       \/ place = "nameless" /\ Ends("failed")
       \/ place = "default" /\ Ends("skipped: default")
       \/ place = "own" /\ call' = [op |-> "delete", at |-> "uses", page |-> 1] /\ UNCHANGED result
    /\ UNCHANGED <<repoRules, repoState, forgeMoves, news>>

\* Slip: only pull requests raised from the branch count.
Filters_Heads == <<"from">>

\* branchUseSkip of the GitHub client: the heads, then the bases.
Filters == <<"from", "onto">>

(* GitHub's two filtered lists; Forgejo's pages of all open pull requests. *)
BranchUseSkip ==
    /\ At("delete", "uses")
    /\ \/ Ends("failed")
       \/ /\ client = "github"
          /\ \/ Contains(listedPulls, Filters[call.page]) /\ Ends("skipped: in use")
             \/ /\ ~Contains(listedPulls, Filters[call.page])
                /\ IF call.page < Len(Filters) THEN call' = [call EXCEPT !.page = @ + 1] /\ UNCHANGED result
                                               ELSE Goes("branch")
       \/ /\ client = "forgejo" /\ call.page <= Len(listedPulls)
          /\ \/ listedPulls[call.page] \in Uses /\ Ends("skipped: in use")
             \/ /\ listedPulls[call.page] \notin Uses
                /\ call' = [call EXCEPT !.page = @ + 1] /\ UNCHANGED result
       \/ client = "forgejo" /\ call.page > Len(listedPulls) /\ Goes("branch")
    /\ UNCHANGED <<repoRules, repoState, forgeMoves, news>>

(* The branch itself: gone is deleted, protected is left alone.            *)
ReadBranch ==
    /\ At("delete", "branch")
    /\ \/ Ends("failed")
       \/ ~head.there /\ Ends("deleted")
       \/ head.there /\ head.protected /\ Ends("skipped: protected")
       \/ head.there /\ ~head.protected /\ Goes("remove")
    /\ UNCHANGED <<repoRules, repoState, forgeMoves, news>>

\* Slip: any refusal of the deletion is read as gone already.
AlreadyGone_Refused(status) == TRUE

\* DeleteRef says 404 or 422 of a ref that is gone; Forgejo 404.
AlreadyGone(status) == status = 404 \/ (client = "github" /\ status = 422)

(* A protected branch is refused: GitHub's rulesets say 422, too.          *)
RemoveBranch ==
    /\ At("delete", "remove")
    /\ \/ /\ head.there /\ ~head.protected
          /\ head' = [head EXCEPT !.there = FALSE]
          /\ news' = IF \E i \in DOMAIN listedPulls : listedPulls[i] \in Uses
                     THEN news \cup {"harmed"} ELSE news
          /\ Ends("deleted") \/ Ends("failed")
       \/ \E status \in (IF ~head.there THEN {404} ELSE IF head.protected THEN {403, 422} ELSE {})
                        \cup {403, 500} :
             /\ Ends(IF AlreadyGone(status) THEN "deleted" ELSE "failed")
             /\ UNCHANGED <<head, news>>
    /\ UNCHANGED <<repoRules, listedPulls, merge, update, methods, linear, native, forgeMoves>>

-----------------------------------------------------------------------------
(* UpdateBranch.                                                           *)

StartUpdate ==
    /\ merge = "open" /\ Starts("update")
    /\ UNCHANGED <<repoRules, repoState, forgeMoves>>

\* Slip: "no new commits" is a conflict on the retry as well.
UpToDateAlready_Conflict(at) == "conflict"

\* upToDateAlready: the first try may have worked with its answer lost.
UpToDateAlready(at) == IF at = "again" THEN "ok" ELSE "conflict"

\* failedOnGitHubsSide: only GitHub's client asks again, once.
Fails(status) == IF client = "github" /\ call.at = "start" /\ ForgeFailed(status)
                 THEN Goes("wait") ELSE Ends(KindOf(status))

(* updateBranchOnce.  A 202 is accepted: the forge's own job ends it.      *)
UpdateBranchOnce ==
    /\ At("update", "start") \/ At("update", "again")
    /\ \/ /\ update = "behind" /\ update' = "current" /\ news' = news \cup {"applied"}
          /\ Ends("ok") \/ Ends("accepted") \/ Fails(500) \/ Fails(NoStatus)
       \/ /\ update = "current" /\ UNCHANGED <<update, news>>
          /\ IF client = "github" THEN Ends(UpToDateAlready(call.at)) ELSE Ends("ok")
       \/ update = "conflict" /\ UNCHANGED <<update, news>>
          /\ Ends(KindOf(IF client = "github" THEN 422 ELSE 409))
       \/ \E status \in {403, 404, 429, 500, NoStatus} : Fails(status) /\ UNCHANGED <<update, news>>
    /\ UNCHANGED <<repoRules, head, listedPulls, merge, methods, linear, native, forgeMoves>>

(* The wait before the retry ends with the request.                        *)
RetryWait ==
    /\ At("update", "wait")
    /\ Goes("again") \/ Ends("unavailable")
    /\ UNCHANGED <<repoRules, repoState, forgeMoves, news>>

-----------------------------------------------------------------------------
(* ReadPullRequestState: GitHub says why, Forgejo says only whether, and   *)
(* its flag is also off while the merge check runs.                        *)

StartRead == /\ Starts("read")
             /\ UNCHANGED <<repoRules, repoState, forgeMoves>>

StateWord ==
    IF merge = "merged" THEN {"reads: merged"}
    ELSE IF merge = "closed" THEN {"reads: closed"}
    ELSE IF client = "forgejo" THEN {"reads: unmergeable"} \cup
                                    (IF update = "conflict" THEN {} ELSE {"reads: clean"})
    ELSE IF update = "conflict" THEN {"reads: conflict"}
    ELSE IF update = "behind" THEN {"reads: behind"}
    ELSE {"reads: clean"}

ReadPullRequestState ==
    /\ At("read", "start")
    /\ Ends("error") \/ \E word \in StateWord : Ends(word)
    /\ UNCHANGED <<repoRules, repoState, forgeMoves, news>>

-----------------------------------------------------------------------------
(* ClosePullRequest and ReopenPullRequest, and whoever else uses the forge *)
(* (external): pull requests come and go, the branch is deleted, protected *)
(* or updated by another, the base moves, the rules change.                *)

SetState(from, to) ==
    /\ call = Idle /\ merge = from /\ news' = {}
    /\ \/ merge' = to /\ result' \in {"ok", "unavailable"}
       \/ merge' = from /\ result' \in {"error", "unavailable"}
    /\ forgeMoves < MaxForgeMoves /\ forgeMoves' = forgeMoves + 1
    /\ UNCHANGED <<repoRules, head, listedPulls, update, methods, linear, native, call>>
ClosePullRequest  == SetState("open", "closed")
ReopenPullRequest == SetState("closed", "open")

PullsMove ==
    \/ \E p \in Uses : listedPulls' = <<p>> \o listedPulls /\ news' = news \cup {"arrived"}
    \/ \E i \in DOMAIN listedPulls : /\ listedPulls' = RemoveAt(listedPulls, i)
                                     /\ news' = news \cup {"shifted"}

ForgeMove ==
    /\ forgeMoves < MaxForgeMoves /\ forgeMoves' = forgeMoves + 1
    /\ \/ PullsMove /\ head.there /\ UNCHANGED <<head, update, methods, linear>>
       \/ /\ head.there /\ \E h \in {[there |-> FALSE, protected |-> FALSE],
                                     [there |-> TRUE, protected |-> TRUE]} : head' = h
          /\ news' = news \cup {"protected"} /\ UNCHANGED <<listedPulls, update, methods, linear>>
       \/ /\ update = "behind" /\ update' = "current" /\ news' = news \cup {"others"}
          /\ UNCHANGED <<head, listedPulls, methods, linear>>
       \/ /\ update' \in {"behind", "conflict"} /\ news' = news \ {"applied"}
          /\ UNCHANGED <<head, listedPulls, methods, linear>>
       \/ /\ methods' \in {{"merge"}, {"squash"}, Methods} /\ linear' \in {{}, {"main"}, {"release"}}
          /\ news' = news \cup {"rules"} /\ UNCHANGED <<head, listedPulls, update>>
    /\ UNCHANGED <<repoRules, merge, native, call, result>>

BranchNext ==
    \/ StartMerge \/ MergeReadsRepo \/ MergeReadsPull \/ MergeReadsRules \/ MergeAsks
    \/ AutoMergeLookup \/ EnableAutoMerge \/ DisableAutoMerge
    \/ StartDelete \/ BranchToDelete \/ BranchUseSkip \/ ReadBranch \/ RemoveBranch
    \/ StartUpdate \/ UpdateBranchOnce \/ RetryWait
    \/ StartRead \/ ReadPullRequestState \/ ClosePullRequest \/ ReopenPullRequest \/ ForgeMove

BranchSpec == BranchInit /\ [][BranchNext]_branchVars

-----------------------------------------------------------------------------
(* A deletion takes no branch from under an open pull request that was     *)
(* there when it looked (client.go:723-727).  What may slip through: one   *)
(* opened after the look, and on Forgejo one that moved to a page already  *)
(* read because another was closed (forgejo/client.go:550-570).            *)
OnlyLateUsersLoseTheirBranch ==
    "harmed" \in news => "arrived" \in news \/ (client = "forgejo" /\ "shifted" \in news)

(* "deleted" is said of a branch that is gone, unless it was protected     *)
(* after it was read: the 422 of that refusal is read as gone              *)
(* (client.go:798-800).                                                    *)
DeletedMeansGone == result = "deleted" => ~head.there \/ "protected" \in news

(* A merge is refused for its method only if a read failed, the rules      *)
(* changed meanwhile, or no method would do (client.go:904-911).           *)
OnlyUnreadRulesRefuseTheMethod ==
    (result = "method refused" /\ client = "github") =>
        \/ news \cap {"unread", "rules"} # {}
        \/ ~\E m \in Methods : TakesMethod(m)

(* An update this client carried out is not reported as a conflict: the    *)
(* retry after a 5xx takes "no new commits" for success.  The first try    *)
(* has no such reading, so a branch another has just updated reads as a    *)
(* conflict (client.go:1126-1132).                                         *)
AppliedIsNoConflict ==
    (result = "conflict" /\ call = Idle) => "applied" \notin news
=============================================================================
