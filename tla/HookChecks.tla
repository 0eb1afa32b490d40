----------------------------- MODULE HookChecks -----------------------------
(***************************************************************************)
(* Whether a repository has this app's webhook: the check every refresh    *)
(* makes of each repository (github/client.go, checkWebhooks), what is     *)
(* remembered of refusals, the rows kept across restarts                   *)
(* (github/hook_check_persist.go, settings/cache.go), and the two writers: *)
(* a person who asks for the webhook and the upgrade of an old one.        *)
(*                                                                         *)
(* A hook is abstracted to the events it has: "some" of those wanted, or   *)
(* "all".  A period is half of HookCheckFreshness; the denial TTL is       *)
(* shorter, so a denial does not outlive a period.                         *)
(***************************************************************************)
EXTENDS Naturals, Sequences, FiniteSetsExt

CONSTANTS HookedRepos, Setters, NoCheck,
          Neighbours,   \* repositories the forge may list beside those followed
          MaxHookTurns  \* changes on the forge, restarts and requests explored

VARIABLES hooks,       \* repo -> the app's own hooks on the forge
          access,      \* repo -> what the forge answers to a list of hooks
          appDenied,   \* the app's credential may not read hooks at all
          listed,      \* repositories the forge lists
          events,      \* Client.ownHookEvents
          refused,     \* Client.refusedRepo: repositories marked
          denied,      \* Client.hooksDeniedRepo, within the TTL
          deniedAll,   \* Client.hooksDeniedAll, within the TTL
          lastSaved,   \* Client.hookLastSaved
          saved,       \* hook_checks
          probe,       \* repo -> the answer a check has yet to save
          setter,      \* a request to create or upgrade a hook
          hookTurns,
          checked,     \* history: what this period's last answered check found, of
                       \* a repository listed since
          unsaved,     \* history: repos whose save failed, or was overtaken
          twice        \* history: two requests looked before either created

hookVars == <<hooks, access, appDenied, listed, events, refused, denied, deniedAll, lastSaved,
              saved, probe, setter, hookTurns, checked, unsaved, twice>>
forge    == <<hooks, access, appDenied, listed>>
memory   == <<events, refused, denied, deniedAll>>
rows     == <<lastSaved, saved>>
past     == <<checked, unsaved, twice>>

Coverage == {"none", "some", "all"}
Fresh    == 2      \* periods in HookCheckFreshness
Row(f, r, a) == [found |-> f, refused |-> r, age |-> a]
Rows     == [found : Coverage, refused : BOOLEAN, age : 0..(Fresh + 1)]
Away     == [at |-> "idle"]

HookChecksTypeOK ==
    /\ hooks \in [HookedRepos -> Seq({"some", "all"})]
    /\ access \in [HookedRepos -> {"open", "forbidden", "missing"}] /\ appDenied \in BOOLEAN
    /\ events \in [HookedRepos -> Coverage] /\ refused \subseteq HookedRepos
    /\ denied \subseteq HookedRepos /\ deniedAll \in BOOLEAN
    /\ \A r \in HookedRepos : {lastSaved[r], saved[r]} \subseteq Rows \cup {NoCheck}
    /\ listed \subseteq HookedRepos /\ hookTurns \in 0..MaxHookTurns

HookChecksInit ==
    /\ hooks \in [HookedRepos -> {<<>>, <<"some">>}]
    /\ access = [r \in HookedRepos |-> "open"] /\ appDenied = FALSE /\ listed = HookedRepos
    /\ events = [r \in HookedRepos |-> "none"] /\ refused = {} /\ denied = {} /\ deniedAll = FALSE
    /\ lastSaved = [r \in HookedRepos |-> NoCheck] /\ saved = [r \in HookedRepos |-> NoCheck]
    /\ probe = [r \in HookedRepos |-> NoCheck] /\ setter = [s \in Setters |-> Away]
    /\ hookTurns = 0
    /\ checked = [r \in HookedRepos |-> NoCheck] /\ unsaved = {} /\ twice = {}

Found(r) == IF hooks[r] = <<>> THEN "none" ELSE hooks[r][1]
Turn     == hookTurns < MaxHookTurns /\ hookTurns' = hookTurns + 1

-----------------------------------------------------------------------------
(* The check.                                                              *)

(* hooksDenied: a denial that still stands spares the call.                *)
HooksDenied(r) == deniedAll \/ r \in denied

(* findOwnHook answered: noteRefused, noteOwnHook, then the save.          *)
ProbeAnswered(r) ==
    /\ ~appDenied /\ access[r] = "open"
    /\ events' = [events EXCEPT ![r] = Found(r)]
    /\ refused' = refused \ {r}
    /\ probe' = [probe EXCEPT ![r] = Row(Found(r), FALSE, 0)]
    /\ checked' = [checked EXCEPT ![r] = Row(Found(r), FALSE, 0)]
    /\ UNCHANGED <<denied, deniedAll>>

(* noteHooksDenial and refusesHooks: "not accessible by integration" is    *)
(* for every repository, a 404 for this one, and both are saved.  The      *)
(* events found earlier stay.                                              *)
ProbeRefused(r) ==
    /\ appDenied \/ access[r] = "missing"
    /\ deniedAll' = (deniedAll \/ appDenied)
    /\ refused' = refused \cup {r}
    /\ probe' = [probe EXCEPT ![r] = Row("none", TRUE, 0)]
    /\ checked' = [checked EXCEPT ![r] = Row("none", TRUE, 0)]
    /\ UNCHANGED <<events, denied>>

(* A token that is no admin there, or a call that failed: the last verdict *)
(* stands, and nothing is saved.                                           *)
ProbeFails(r) ==
    /\ denied' = IF access[r] = "forbidden" THEN denied \cup {r} ELSE denied
    /\ UNCHANGED <<events, refused, deniedAll, probe, checked>>

ProbeOwnHook(r) ==
    /\ r \in listed /\ probe[r] = NoCheck /\ ~HooksDenied(r)
    /\ ProbeAnswered(r) \/ ProbeRefused(r) \/ ProbeFails(r)
    /\ UNCHANGED <<forge, rows, setter, hookTurns, unsaved, twice>>

\* Slip: a check that found the same again is never written again.
Same_AtAnyAge(last, check) ==
    last # NoCheck /\ last.found = check.found /\ last.refused = check.refused

\* saveHookCheck skips what it wrote less than half the freshness ago.
Same(last, check) ==
    last # NoCheck /\ last.found = check.found /\ last.refused = check.refused /\ last.age < 1

(* saveHookCheck: written and then remembered; a write that fails leaves   *)
(* both as they were.                                                      *)
SaveHookCheck(r) ==
    /\ probe[r] # NoCheck
    /\ probe' = [probe EXCEPT ![r] = NoCheck]
    /\ \/ /\ Same(lastSaved[r], probe[r])
          /\ UNCHANGED <<rows, unsaved>>
       \/ /\ ~Same(lastSaved[r], probe[r])
          /\ saved' = [saved EXCEPT ![r] = probe[r]]
          /\ lastSaved' = [lastSaved EXCEPT ![r] = probe[r]]
          /\ unsaved' = unsaved \ {r}
       \/ /\ ~Same(lastSaved[r], probe[r])
          /\ unsaved' = unsaved \cup {r} /\ UNCHANGED rows
    /\ UNCHANGED <<forge, memory, setter, hookTurns, checked, twice>>

\* pruneHookChecks forgets what it wrote of a repository no longer listed.
Forgotten == [r \in HookedRepos |-> IF r \in listed THEN lastSaved[r] ELSE NoCheck]

(* PruneUntracked: rows of repositories the forge no longer lists go; with *)
(* nothing listed nothing is pruned.  The checks come after, in the same   *)
(* refresh.                                                                *)
PruneHookChecks ==
    /\ \E others \in SUBSET Neighbours : listed \cup others # {}
    /\ \A r \in HookedRepos : probe[r] = NoCheck
    /\ saved' = [r \in HookedRepos |-> IF r \in listed THEN saved[r] ELSE NoCheck]
    /\ lastSaved' = Forgotten
    /\ events' = [r \in HookedRepos |-> IF r \in listed \/ lastSaved[r] = NoCheck
                                        THEN events[r] ELSE "none"]
    /\ checked' = [r \in HookedRepos |-> IF r \in listed THEN checked[r] ELSE NoCheck]
    /\ UNCHANGED <<forge, refused, denied, deniedAll, probe, setter, hookTurns, unsaved, twice>>

-----------------------------------------------------------------------------
(* EnsureWebhook and UpgradeWebhook.                                       *)

\* Slip: only the first page of the list is looked at.
Existing_FirstPage(r) == {FALSE, Len(hooks[r]) > 0}

\* findOwnHook goes through every page.
Existing(r) == {Len(hooks[r]) > 0}

Look(s, r) ==
    /\ Turn /\ setter[s].at = "idle" /\ ~appDenied /\ access[r] = "open"
    /\ \E there \in Existing(r), want \in {"ensure", "upgrade"} :
          /\ setter' = [setter EXCEPT ![s] = [at |-> want, repo |-> r, there |-> there,
                                              old |-> there /\ Found(r) # "all"]]
          /\ twice' = IF ~there /\ \E t \in Setters \ {s} : setter[t].at = "ensure" /\ setter[t].repo = r
                      THEN twice \cup {r} ELSE twice
    /\ UNCHANGED <<forge, memory, rows, probe, checked, unsaved>>

(* A hook that was found is edited, if it is still there; one that was not *)
(* is created, if a person asked.                                          *)
Write(s) ==
    /\ setter[s].at # "idle"
    /\ LET w == setter[s]
           r == w.repo
       IN hooks' = CASE w.at = "ensure" /\ ~w.there -> [hooks EXCEPT ![r] = Append(@, "all")]
                     [] w.there /\ (w.at = "ensure" \/ w.old) /\ hooks[r] # <<>>
                           -> [hooks EXCEPT ![r][1] = "all"]
                     [] OTHER -> hooks
    /\ setter' = [setter EXCEPT ![s] = Away]
    /\ UNCHANGED <<access, appDenied, listed, memory, rows, probe, hookTurns, past>>

-----------------------------------------------------------------------------
(* The forge (external), the clock, other processes.                       *)

ForgeTurns ==
    /\ Turn
    /\ \/ \E r \in HookedRepos : /\ hooks[r] # <<>> /\ hooks' = [hooks EXCEPT ![r] = <<>>]
                                 /\ UNCHANGED <<access, appDenied, listed>>
       \/ \E r \in HookedRepos, a \in {"open", "forbidden", "missing"} :
             /\ access' = [access EXCEPT ![r] = a] /\ UNCHANGED <<hooks, appDenied, listed>>
       \/ appDenied' = ~appDenied /\ UNCHANGED <<hooks, access, listed>>
       \/ \E r \in HookedRepos : /\ listed' = IF r \in listed THEN listed \ {r} ELSE listed \cup {r}
                                 /\ UNCHANGED <<hooks, access, appDenied>>
    /\ UNCHANGED <<memory, rows, probe, setter, past>>

Aged(c) == IF c = NoCheck THEN c ELSE [c EXCEPT !.age = Min({@ + 1, Fresh + 1})]

\* Slip: a denial has no end.
Lasting_ForGood == <<denied, deniedAll>>

\* hooksTTL: what is left of the denials a period later.
Lasting == <<{}, FALSE>>

PeriodPasses ==
    /\ \A r \in HookedRepos : probe[r] = NoCheck
    /\ lastSaved' = [r \in HookedRepos |-> Aged(lastSaved[r])]
    /\ saved' = [r \in HookedRepos |-> Aged(saved[r])]
    /\ denied' = Lasting[1] /\ deniedAll' = Lasting[2]
    /\ checked' = [r \in HookedRepos |-> NoCheck]
    /\ UNCHANGED <<forge, events, refused, probe, setter, hookTurns, unsaved, twice>>

(* The client of a replaced Aggregator ends a check it began before, and   *)
(* saves what it found over this client's row.                             *)
EarlierClientSaves(r) ==
    /\ Turn
    /\ \E f \in Coverage : saved' = [saved EXCEPT ![r] = Row(f, FALSE, 0)]
    /\ unsaved' = unsaved \cup {r}
    /\ UNCHANGED <<forge, memory, lastSaved, probe, setter, checked, twice>>

(* restoreHookChecks and adoptHookChecks: rows that are not too old.       *)
Adopted(r) == saved[r] # NoCheck /\ saved[r].age <= Fresh
ClientRestart ==
    /\ Turn
    /\ events' = [r \in HookedRepos |-> IF Adopted(r) THEN saved[r].found ELSE "none"]
    /\ refused' = {r \in HookedRepos : Adopted(r) /\ saved[r].refused}
    /\ lastSaved' = [r \in HookedRepos |-> IF Adopted(r) THEN saved[r] ELSE NoCheck]
    /\ denied' = {} /\ deniedAll' = FALSE
    /\ probe' = [r \in HookedRepos |-> NoCheck] /\ setter' = [s \in Setters |-> Away]
    /\ unsaved' = {} /\ checked' = [r \in HookedRepos |-> NoCheck]
    /\ UNCHANGED <<forge, saved, twice>>

CheckWebhooks == \E r \in HookedRepos : ProbeOwnHook(r) \/ SaveHookCheck(r)

HookChecksNext ==
    \/ CheckWebhooks \/ PruneHookChecks \/ ForgeTurns \/ PeriodPasses \/ ClientRestart
    \/ \E r \in HookedRepos : EarlierClientSaves(r)
    \/ \E s \in Setters : Write(s) \/ \E r \in HookedRepos : Look(s, r)

(* Refreshes go on, and so does the clock.  The forge answers some check   *)
(* in the end, and some save is written.                                   *)
HookFairness ==
    /\ WF_hookVars(PeriodPasses)
    /\ \A r \in HookedRepos : /\ SF_hookVars(ProbeOwnHook(r) /\ probe'[r] # NoCheck)
                              /\ WF_hookVars(SaveHookCheck(r))

HookChecksSpec == HookChecksInit /\ [][HookChecksNext]_hookVars /\ HookFairness

-----------------------------------------------------------------------------
(* A repository that is checked has a row a restart will adopt, and the    *)
(* row says what the check found: the check is not written every time, yet *)
(* never so seldom that it expires (hook_check_persist.go:99-132).  Only a *)
(* write that failed or was overtaken leaves another.                      *)
RestartRemembersHooks ==
    \A r \in listed : (checked[r] # NoCheck /\ probe[r] = NoCheck /\ r \notin unsaved) =>
        /\ Adopted(r)
        /\ saved[r].found = checked[r].found /\ saved[r].refused = checked[r].refused

(* A repository gets one webhook from this app, unless two requests looked *)
(* before either had created it: nothing holds EnsureWebhook's look and    *)
(* its write together (client.go:572-597).                                 *)
OneHookUnlessCrossed == \A r \in HookedRepos : Len(hooks[r]) <= 1 \/ r \in twice

(* A refusal is not for good: when the forge lets the app read the hooks   *)
(* again, the mark that locks the button goes (client.go:93-97, "a         *)
(* permission granted later is noticed").                                  *)
RefusalIsForgotten ==
    \A r \in HookedRepos :
        <>[](r \in listed /\ access[r] = "open" /\ ~appDenied) => <>[](r \notin refused)
=============================================================================
