--------------------------- MODULE WebhookUpgrade ---------------------------
(***************************************************************************)
(* The background pass that brings the hooks of covered repositories up to *)
(* date (dashboard/webhook_upgrade.go).  A pass belongs to an Aggregator;  *)
(* two overlap when a settings save replaces the Aggregator, and share the *)
(* record of what was tried.                                               *)
(***************************************************************************)
EXTENDS Naturals, FiniteSets

CONSTANTS
  HookRepos,   \* repositories that have a webhook
  Passes,      \* the upgrade passes of the old and the new Aggregator
  Workers,     \* webhookUpgradeConcurrency, cut down
  MaxPasses    \* bound: passes begun

VARIABLES
  tried,        \* WebhookUpgrades.tried
  pass,         \* per pass: running, stopped, still to start, and its workers
  available,    \* the forge answers
  cancelled,    \* passes whose Aggregator was replaced
  settledHooks, \* history: repositories that had a final answer
  asks,         \* history: final answers per repository
  begun

hvars == <<tried, pass, available, cancelled, settledHooks, asks, begun>>

NoPass == [running |-> FALSE, stopped |-> FALSE, todo |-> {}, claiming |-> {}, asking |-> {}]
Busy(p) == pass[p].claiming \cup pass[p].asking

HookTypeOK ==
  /\ available \in BOOLEAN
  /\ tried \subseteq HookRepos /\ settledHooks \subseteq HookRepos /\ cancelled \subseteq Passes
  /\ pass \in [Passes -> [running : BOOLEAN, stopped : BOOLEAN, todo : SUBSET HookRepos,
                          claiming : SUBSET HookRepos, asking : SUBSET HookRepos]]
  /\ asks \in [HookRepos -> Nat] /\ begun \in 0..MaxPasses

HookInit ==
  /\ tried = {} /\ pass = [p \in Passes |-> NoPass] /\ available = TRUE /\ cancelled = {}
  /\ settledHooks = {} /\ asks = [r \in HookRepos |-> 0] /\ begun = 0

-----------------------------------------------------------------------------
\* startWebhookUpgrade after a refresh: one pass at a time per Aggregator,
\* of a forge that was healthy and not held back when its snapshot was read.
StartUpgrade(p) ==
  /\ begun < MaxPasses /\ ~pass[p].running
  /\ pass' = [pass EXCEPT ![p] = [NoPass EXCEPT !.running = TRUE, !.todo = HookRepos]]
  /\ begun' = begun + 1
  /\ UNCHANGED <<tried, available, cancelled, settledHooks, asks>>

\* A worker takes the next repository: nothing to do once the pass stopped or
\* somebody else claimed it.
Claim(p, r) ==
  /\ pass[p].running /\ r \in pass[p].todo /\ Cardinality(Busy(p)) < Workers
  /\ IF pass[p].stopped \/ p \in cancelled \/ r \in tried
     THEN /\ pass' = [pass EXCEPT ![p].todo = @ \ {r}]
          /\ UNCHANGED tried
     ELSE /\ pass' = [pass EXCEPT ![p].todo = @ \ {r}, ![p].claiming = @ \cup {r}]
          /\ tried' = tried \cup {r}
  /\ UNCHANGED <<available, cancelled, settledHooks, asks, begun>>

\* Slip: a pass cancelled in its wait keeps its claims.
Jitter_KeepsClaim(p, r) ==
  /\ r \in pass[p].claiming
  /\ IF p \in cancelled \/ pass[p].stopped
     THEN pass' = [pass EXCEPT ![p].claiming = @ \ {r}] /\ UNCHANGED tried
     ELSE pass' = [pass EXCEPT ![p].claiming = @ \ {r}, ![p].asking = @ \cup {r}] /\ UNCHANGED tried
  /\ UNCHANGED <<available, cancelled, settledHooks, asks, begun>>

\* pauseForJitter: cut short by a cancelled Aggregator, unless the wait was over
\* as well, or by a stopped pass; then the claim is given back.
Jitter(p, r) ==
  /\ r \in pass[p].claiming
  /\ \/ /\ p \in cancelled \/ pass[p].stopped
        /\ pass' = [pass EXCEPT ![p].claiming = @ \ {r}]
        /\ tried' = tried \ {r}
     \/ /\ ~pass[p].stopped
        /\ pass' = [pass EXCEPT ![p].claiming = @ \ {r}, ![p].asking = @ \cup {r}]
        /\ UNCHANGED tried
  /\ UNCHANGED <<available, cancelled, settledHooks, asks, begun>>

\* upgradeRepo: the hook is up to date or cannot be upgraded, for good, or the
\* forge is not there and the pass stops.  A call cut off by the cancel counts as
\* the latter, one answered before it as the former.
Answer(p, r) ==
  /\ r \in pass[p].asking
  /\ \/ /\ available
        /\ pass' = [pass EXCEPT ![p].asking = @ \ {r}]
        /\ settledHooks' = settledHooks \cup {r}
        /\ asks' = [asks EXCEPT ![r] = @ + 1]
        /\ UNCHANGED tried
     \/ /\ ~available \/ p \in cancelled
        /\ pass' = [pass EXCEPT ![p].asking = @ \ {r}, ![p].stopped = TRUE]
        /\ tried' = tried \ {r}
        /\ UNCHANGED <<settledHooks, asks>>
  /\ UNCHANGED <<available, cancelled, begun>>

EndUpgrade(p) ==
  /\ pass[p].running /\ pass[p].todo = {} /\ Busy(p) = {}
  /\ pass' = [pass EXCEPT ![p] = NoPass]
  /\ UNCHANGED <<tried, available, cancelled, settledHooks, asks, begun>>

ForgeComesAndGoes ==
  /\ available' = ~available
  /\ UNCHANGED <<tried, pass, cancelled, settledHooks, asks, begun>>

\* Service.Ensure replaces the Aggregator a pass belongs to.
Replace(p) ==
  /\ p \notin cancelled /\ cancelled' = cancelled \cup {p}
  /\ UNCHANGED <<tried, pass, available, settledHooks, asks, begun>>

HookNext ==
  \/ ForgeComesAndGoes
  \/ \E p \in Passes :
       \/ StartUpgrade(p) \/ EndUpgrade(p) \/ Replace(p)
       \/ \E r \in HookRepos : Claim(p, r) \/ Jitter(p, r) \/ Answer(p, r)

HookSpec == HookInit /\ [][HookNext]_hvars

-----------------------------------------------------------------------------
\* A repository's hook gets one final answer per process, however passes of
\* two Aggregators overlap; and once no pass works on it, the record of what
\* was tried holds exactly the repositories that got theirs, so one the forge
\* could not be reached for is tried again.
HooksTriedOnce ==
  /\ \A r \in HookRepos : asks[r] <= 1
  /\ (\A p \in Passes : Busy(p) = {}) => tried = settledHooks
=============================================================================
