---------------------------- MODULE MCDebouncer ----------------------------
(* Webhooks.  Four parts of one run, each behaviour of one of them: the     *)
(* debouncer with the source's two and five seconds as ticks; the check     *)
(* whether a repository has the app's hook, with what it saves and          *)
(* remembers; the note of the last delivery; the upgrade of old hooks.      *)
EXTENDS Debouncer, Sequences, FiniteSetsExt

CONSTANTS r1, r2, r3, p1, p2, s1, s2,
          HookedRepos, Neighbours, Setters, NoCheck, MaxHookTurns,
          WriteInterval, MaxTime, MaxHookRestarts,
          HookRepos, Passes, Workers, MaxPasses

VARIABLES part,
          hooks, access, appDenied, listed, events, refused, denied, deniedAll, lastSaved, saved,
          probe, setter, hookTurns, checked, unsaved, twice,
          now, delivering, marked, writing, acked, last, noted, kept, lost, late, hookRestarts,
          tried, pass, available, cancelled, settledHooks, asks, begun

checkVars == <<hooks, access, appDenied, listed, events, refused, denied, deniedAll, lastSaved, saved,
               probe, setter, hookTurns, checked, unsaved, twice>>
noteVars == <<now, delivering, marked, writing, acked, last, noted, kept, lost, late, hookRestarts>>
passVars == <<tried, pass, available, cancelled, settledHooks, asks, begun>>

HC == INSTANCE HookChecks
WS == INSTANCE WebhookSeen
WU == INSTANCE WebhookUpgrade

ASSUME WebhooksAssumption ==
  /\ MaxHookTurns \in Nat /\ MaxTime \in Nat /\ MaxHookRestarts \in Nat /\ MaxPasses \in Nat
  /\ WriteInterval \in Nat \ {0}
  /\ NoCheck \notin HC!Rows

MCInit == /\ part \in {"bursts", "checks", "notes", "upgrades"}
          /\ Init /\ HC!HookChecksInit /\ WS!SeenInit /\ WU!HookInit
          /\ part = "checks" \/ hooks = [r \in HookedRepos |-> <<>>]

MCNext ==
  /\ UNCHANGED part
  /\ \/ part = "bursts" /\ Next /\ UNCHANGED <<checkVars, noteVars, passVars>>
     \/ part = "checks" /\ HC!HookChecksNext /\ UNCHANGED <<vars, noteVars, passVars>>
     \/ part = "notes" /\ WS!SeenNext /\ UNCHANGED <<vars, checkVars, passVars>>
     \/ part = "upgrades" /\ WU!HookNext /\ UNCHANGED <<vars, checkVars, noteVars>>

\* HookFairness, in the behaviours that check hooks.
MCSpec ==
  /\ MCInit /\ [][MCNext]_<<part, vars, checkVars, noteVars, passVars>>
  /\ WF_checkVars(part = "checks" /\ HC!PeriodPasses)
  /\ \A r \in HookedRepos :
       /\ SF_checkVars(part = "checks" /\ HC!ProbeOwnHook(r) /\ probe'[r] # NoCheck)
       /\ WF_checkVars(part = "checks" /\ HC!SaveHookCheck(r))

\* A restart finds what the last check of a repository's hook found, unless the
\* write of it failed or was overtaken (hook_check_persist.go), and no
\* repository has two of the app's hooks unless two requests to create one both
\* looked first (EnsureWebhook).
HooksAreRemembered == part = "checks" =>
  HC!HookChecksTypeOK /\ HC!RestartRemembersHooks /\ HC!OneHookUnlessCrossed

\* A refusal to list a repository's hooks does not outlive the permission it
\* was about (hooksTTL).
RefusalIsForgotten == HC!RefusalIsForgotten

\* The row of webhook_seen lags the last delivery answered by no more than the
\* interval between two writes, unless a write failed or one overtook another
\* (webhook_seen.go); an old hook is upgraded once, whatever passes of old and
\* new Aggregators overlap (webhook_upgrade.go).
DeliveriesAreBooked ==
  /\ part = "notes" => WS!SeenTypeOK /\ WS!SeenLagsOneInterval
  /\ part = "upgrades" => WU!HookTypeOK /\ WU!HooksTriedOnce
=============================================================================
