-------------------------------- MODULE Gate --------------------------------
(***************************************************************************)
(* What the coalescing gate promises its callers                           *)
(* (internal/dashboard/coalesce.go, the comment on coalescer and do),      *)
(* without its mutex, flags and condition variable: one run at a time, a   *)
(* run begins only while somebody asks for one, and whoever asked is       *)
(* answered by a run that began after it asked.                            *)
(***************************************************************************)
EXTENDS Naturals

CONSTANT Askers

VARIABLES
  asking,    \* who called and has not been answered
  since,     \* runs begun when each of them last called
  begun,     \* runs begun
  finished   \* runs finished

gateVars == <<asking, since, begun, finished>>

GateInit ==
  /\ asking = {}
  /\ since = [c \in Askers |-> 0]
  /\ begun = 0
  /\ finished = 0

Ask(c) ==
  /\ c \in Askers \ asking
  /\ asking' = asking \cup {c}
  /\ since' = [since EXCEPT ![c] = begun]
  /\ UNCHANGED <<begun, finished>>

\* A run begins while none is in progress and somebody asks.
Begin ==
  /\ begun = finished
  /\ asking # {}
  /\ begun' = begun + 1
  /\ UNCHANGED <<asking, since, finished>>

\* The run in progress finishes; whoever led it is answered with it.
Finish(c) ==
  /\ finished < begun
  /\ c \in asking
  /\ since[c] < begun
  /\ finished' = begun
  /\ asking' = asking \ {c}
  /\ UNCHANGED <<since, begun>>

\* The run in progress finishes and the next one begins for those who asked.
Turn ==
  /\ finished < begun
  /\ asking # {}
  /\ finished' = begun
  /\ begun' = begun + 1
  /\ UNCHANGED <<asking, since>>

Answer(c) ==
  /\ c \in asking
  /\ since[c] < finished
  /\ asking' = asking \ {c}
  /\ UNCHANGED <<since, begun, finished>>

GateNext ==
  \/ Begin \/ Turn
  \/ \E c \in Askers : Ask(c) \/ Finish(c) \/ Answer(c)

GateSpec == GateInit /\ [][GateNext]_gateVars
=============================================================================
