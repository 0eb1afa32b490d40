----------------------------- MODULE MCWritePass -----------------------------
(* WritePass on three refreshers (a full refresh and two scoped ones), and   *)
(* as another part of the run what the pass does with an armed pull request. *)
EXTENDS WritePass

CONSTANTS c1, c2, c3, MaxVer, MaxRestarts

VARIABLES part,
          where, pull, armed, board, waiting, pc, snap, attempt, cancelAttempt, failure,
          cancelledHere, restarts, lateCancel, barred, ended

mergeVars == <<where, pull, armed, board, waiting, pc, snap, attempt, cancelAttempt, failure,
               cancelledHere, restarts, lateCancel, barred, ended>>

ASSUME MergesAssumption == MaxVer \in Nat /\ MaxRestarts \in Nat

AM == INSTANCE AutoMerge WITH cancelled <- cancelledHere

MCInit == /\ part \in {"passes", "merges"} /\ Init /\ AM!Init
          /\ part = "passes" => where = "github"

MCNext == /\ UNCHANGED part
          /\ \/ part = "passes" /\ Next /\ UNCHANGED mergeVars
             \/ part = "merges" /\ AM!Next /\ UNCHANGED vars

Merging(A) == part = "merges" /\ A

MCSpec ==
  /\ MCInit /\ [][MCNext]_<<part, vars, mergeVars>>
  /\ \A c \in Refreshers : WF_vars(Queue(c) \/ Start(c)) /\ WF_vars(Return(c))
  /\ \A k \in Calls : WF_vars(BudgetExpires(k))
  /\ WF_mergeVars(Merging(AM!Publish)) /\ WF_mergeVars(Merging(AM!PassBegins))
  /\ WF_mergeVars(Merging(AM!PassStep)) /\ WF_mergeVars(Merging(AM!WaitPasses))
  /\ SF_mergeVars(Merging(AM!LoadIntents)) /\ SF_mergeVars(Merging(AM!AutoMergeNow))

\* Auto-merge merges what is armed and nothing else, leaves a refused version
\* alone for as long as the refusal stands, retries by itself only after an
\* outage, and keeps the intent while the pull request is open (auto_merge.go).
MergesAreWanted ==
  /\ [](AM!OnlyTheArmedAreMerged /\ AM!RefusalStands /\ AM!OnlyAnOutageResumes)
  /\ AM!IntentIsKept

\* An armed pull request that stays ready is tried (auto_merge.go).
EveryArmedPullIsTried == AM!EveryArmedPullIsTried
=============================================================================
