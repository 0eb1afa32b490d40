---------------------------- MODULE MCCoalescer ----------------------------
(* The gate of the refreshes, on three callers and five calls (enough for   *)
(* two callers to wait on one trailing run while a third calls during it),  *)
(* and, as other parts of the same run, the Service that builds and         *)
(* replaces the Aggregators whose loops call it: with two settings saves    *)
(* and a board that is always in use, and with one save and people who      *)
(* leave and come back.  A behaviour is of one part.                        *)
EXTENDS Coalescer, Sequences

CONSTANTS c1, c2, c3, s1, s2, t1, Saves, Tabs, MaxViewers, MaxGen

VARIABLES part,
          stored, current, builtFrom, loop, first, marks, grace, cooldown, save, forcing,
          viewers, lapsed, rested, wake, forced, toldReady, crossed, asked, eaten

LC == INSTANCE Lifecycle

serviceVars == <<stored, current, builtFrom, loop, first, marks, grace, cooldown, save, forcing,
                 viewers, lapsed, rested, wake, forced, toldReady, crossed, asked, eaten>>

MCInit == part \in {"gate", "saves", "visitors"} /\ Init /\ LC!Init

MCNext == /\ UNCHANGED part
          /\ \/ part = "gate" /\ Next /\ UNCHANGED serviceVars
             \/ part = "saves" /\ LC!Next /\ viewers' = <<>> /\ ~rested' /\ UNCHANGED vars
             \/ part = "visitors" /\ LC!Next /\ save'[s2] = "idle" /\ UNCHANGED vars

MCSpec == /\ MCInit /\ [][MCNext]_<<part, vars, serviceVars>>
          /\ \A c \in Callers : WF_vars(Step(c))
          /\ \A g \in 1..MaxGen : WF_serviceVars(part # "gate" /\ LC!Run(g))

\* What the Service owes a deployment and its user while settings saves replace
\* the Aggregator under it: the loading page does not return, readiness once
\* told stays, an Aggregator runs on the newest settings unless two saves
\* crossed, and one cooldown lets one forced refresh begin (service.go).
ServiceHolds ==
  /\ LC!LoadingNeverReturns
  /\ [](LC!ReadyForGood /\ LC!OnlyCrossedSavesRunOldSettings /\ LC!OneForcedRefreshPerCooldown)

\* Someone who comes back to an idle dashboard gets a refresh, unless the loop
\* of a replaced Aggregator took the wake (activity.go).
ReturnIsAnswered == LC!ReturnIsAnswered
=============================================================================
