----------------------------- MODULE WebhookSeen -----------------------------
(***************************************************************************)
(* The deliveries that arrive (api/webhooks.go), when one last did and what*)
(* of that outlives the process (dashboard/webhook_seen.go), for one       *)
(* repository and its check events.                                        *)
(***************************************************************************)
EXTENDS Integers, FiniteSetsExt

CONSTANTS
  WriteInterval,             \* seenWriteInterval, in ticks
  MaxTime, MaxHookRestarts   \* bounds

VARIABLES
  now,          \* the clock
  delivering,   \* deliveries accepted and not yet recorded: the time each read
  marked,       \* deliveries in webhookSeen.last that have not asked for a write
  writing,      \* deliveries whose write is due and not done, of a replaced Aggregator too
  acked,        \* history: the newest delivery answered since the start, or restored
  last,         \* webhookSeen.last, -1 for none
  noted,        \* webhookSeen.stored: the time the last write was due, -1 for none
  kept,         \* the row of webhook_seen, -1 for none
  lost,         \* history: the newest write, or the read at the start, failed
  late,         \* history: a delivery was marked or written after a newer one
  hookRestarts

seenVars == <<now, delivering, marked, writing, acked, last, noted, kept, lost, late, hookRestarts>>

SeenTypeOK ==
  /\ now \in 0..MaxTime /\ delivering \subseteq 0..now /\ marked \subseteq 0..now /\ writing \subseteq 0..now
  /\ acked \in -1..now
  /\ last \in -1..now /\ noted \in -1..now /\ kept \in -1..now
  /\ lost \in BOOLEAN /\ late \in BOOLEAN /\ hookRestarts \in 0..MaxHookRestarts

SeenInit ==
  /\ now = 0 /\ delivering = {} /\ marked = {} /\ writing = {} /\ acked = -1 /\ last = -1 /\ noted = -1 /\ kept = -1
  /\ lost = FALSE /\ late = FALSE /\ hookRestarts = 0

-----------------------------------------------------------------------------
ClockTicks ==
  /\ now < MaxTime /\ now' = now + 1
  /\ UNCHANGED <<delivering, marked, writing, acked, last, noted, kept, lost, late, hookRestarts>>

Events == {"check_run", "status", "pull_request", "push"}
ClassifyEvent(event) ==
  IF event \in {"check_run", "status"} THEN "check"
  ELSE IF event = "pull_request" THEN "pull_request" ELSE "other"

\* recordDelivery: a check event that names no commit proves nothing about checks.
FiledAs(event, commit) ==
  IF ClassifyEvent(event) = "check" /\ ~commit THEN "other" ELSE ClassifyEvent(event)

\* handleWebhook and acknowledgeDelivery: the token must be known, the
\* signature must hold and an Aggregator must run; then the clock is read.
Accept ==
  /\ \E event \in Events, commit \in BOOLEAN, valid \in BOOLEAN, running \in BOOLEAN :
       valid /\ running /\ FiledAs(event, commit) = "check"
  /\ now \notin delivering \cup marked \cup writing
  /\ delivering' = delivering \cup {now}
  /\ UNCHANGED <<now, marked, writing, acked, last, noted, kept, lost, late, hookRestarts>>

\* Slip: the interval restarts with every delivery.
PersistDue_WhenQuiet(at) == noted = -1 \/ at - last >= WriteInterval

\* persistDue: one write a minute.
PersistDue(at) == noted = -1 \/ at - noted >= WriteInterval

\* markSeen takes the lock twice and then writes, so deliveries mix.  First, in
\* memory always.
MarkSeen(at) ==
  /\ at \in delivering
  /\ delivering' = delivering \ {at} /\ marked' = marked \cup {at}
  /\ late' = (late \/ at < last) /\ last' = at
  /\ UNCHANGED <<now, writing, acked, noted, kept, lost, hookRestarts>>

\* Then the note that a write is due.  A delivery with none is answered.
AskToPersist(at) ==
  /\ at \in marked /\ marked' = marked \ {at}
  /\ IF PersistDue(at)
     THEN noted' = at /\ writing' = writing \cup {at} /\ UNCHANGED acked
     ELSE acked' = Max({acked, at}) /\ UNCHANGED <<noted, writing>>
  /\ UNCHANGED <<now, delivering, last, kept, lost, late, hookRestarts>>

\* SaveWebhookSeen: overwrites the row, whatever its time; the write may fail
\* and the delivery is answered all the same.
SaveSeen(at) ==
  /\ at \in writing /\ writing' = writing \ {at}
  /\ \E ok \in BOOLEAN : kept' = (IF ok THEN at ELSE kept) /\ lost' = (~ok \/ (lost /\ at < acked))
  /\ late' = (late \/ at < kept \/ at > last)
  /\ acked' = Max({acked, at})
  /\ UNCHANGED <<now, delivering, marked, last, noted, hookRestarts>>

\* A new process, or a new Aggregator while the old one's deliveries go on to
\* write: restoreWebhookSeen, which starts empty if the table cannot be read.
HookRestart ==
  /\ hookRestarts < MaxHookRestarts /\ hookRestarts' = hookRestarts + 1
  /\ writing' \in SUBSET (delivering \cup marked \cup writing)
  /\ \E ok \in BOOLEAN :
       /\ last' = (IF ok THEN kept ELSE -1) /\ noted' = last' /\ acked' = last'
       /\ lost' = ~ok
  /\ delivering' = {} /\ marked' = {} /\ late' = FALSE
  /\ UNCHANGED <<now, kept>>

SeenNext ==
  \/ ClockTicks \/ Accept \/ HookRestart
  \/ \E at \in 0..now : MarkSeen(at) \/ AskToPersist(at) \/ SaveSeen(at)
SeenSpec == SeenInit /\ [][SeenNext]_seenVars

-----------------------------------------------------------------------------
\* A restart would find the newest delivery answered, or one at most a write
\* interval older, and never one newer than the last: unless a write or the
\* read at the start failed, a newer delivery was overtaken, or a write another
\* delivery relies on is still on its way.
SeenLagsOneInterval ==
  \/ lost \/ late
  \/ /\ kept <= last
     /\ acked - kept < WriteInterval \/ writing # {} \/ acked = -1
=============================================================================
