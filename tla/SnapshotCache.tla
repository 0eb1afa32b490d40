---------------------------- MODULE SnapshotCache ----------------------------
(***************************************************************************)
(* The snapshot that outlives the process (dashboard/snapshot_cache.go,    *)
(* persist.go; the tables in settings/cache.go): every publisher saves the *)
(* repositories that differ from what it believes is stored, and a new     *)
(* process starts from the stored rows, marked stale.                      *)
(*                                                                         *)
(* One forge and credential.  A repository's rows are one of a few         *)
(* contents, NoRows when it is not on the board.  A publisher diffs, writes*)
(* and remembers in three steps, and nothing stops another one in between. *)
(***************************************************************************)
EXTENDS Naturals

CONSTANTS
  Repos, RowSets, NoRows,
  Publishers,       \* refreshes and merges that may publish at one time
  MaxMoves,         \* bound: changes on the forge
  MaxReboots        \* bound: restarts

VARIABLES
  onForge,     \* what the forge has of each repository
  shown,       \* the board: rows, and whether the forge counts as reachable
  table,       \* snapshot_repos
  believed,    \* Aggregator.saved: what this process thinks the table holds
  saving,      \* where each publisher is
  moves, reboots,
  lagging,     \* history: the last write failed
  overlapped,  \* history: two publishers saved at one time in this process
  misread      \* history: this process could not read the table at its start

cvars == <<onForge, shown, table, believed, saving, moves, reboots, lagging, overlapped, misread>>

Rows == [Repos -> RowSets \cup {NoRows}]
Nothing == [r \in Repos |-> NoRows]
Idle == [at |-> "idle", rows |-> Nothing, changed |-> {}]

CacheTypeOK ==
  /\ onForge \in Rows /\ table \in Rows /\ believed \in Rows
  /\ shown \in [rows : Rows, reachable : BOOLEAN]
  /\ saving \in [Publishers -> [at : {"idle", "diff", "write", "remember"}, rows : Rows,
                                changed : SUBSET Repos]]
  /\ moves \in 0..MaxMoves /\ reboots \in 0..MaxReboots
  /\ lagging \in BOOLEAN /\ overlapped \in BOOLEAN /\ misread \in BOOLEAN

CacheInit ==
  /\ onForge \in [Repos -> RowSets]
  /\ table = Nothing /\ believed = Nothing
  /\ shown = [rows |-> Nothing, reachable |-> FALSE]
  /\ saving = [p \in Publishers |-> Idle]
  /\ moves = 0 /\ reboots = 0 /\ lagging = FALSE /\ overlapped = FALSE /\ misread = FALSE

-----------------------------------------------------------------------------
\* A repository changes, or leaves what the user tracks (external).
ForgeMoves ==
  /\ moves < MaxMoves /\ moves' = moves + 1
  /\ \E r \in Repos, c \in RowSets \cup {NoRows} : onForge' = [onForge EXCEPT ![r] = c]
  /\ UNCHANGED <<shown, table, believed, saving, reboots, lagging, overlapped, misread>>

\* publish: a snapshot is swapped in and goes to saveSnapshot, which leaves a
\* forge that is unreachable or shown from older data alone.
Publish(p, snap) ==
  /\ saving[p].at = "idle"
  /\ shown' = snap
  /\ saving' = [saving EXCEPT ![p] = IF snap.reachable
                                     THEN [at |-> "diff", rows |-> snap.rows, changed |-> {}] ELSE Idle]
  /\ overlapped' = (overlapped \/ (snap.reachable /\ \E q \in Publishers : saving[q].at # "idle"))
  /\ UNCHANGED <<onForge, table, believed, moves, reboots, lagging, misread>>

\* A full refresh that reached the forge.
PublishFull(p) == Publish(p, [rows |-> onForge, reachable |-> TRUE])
\* One that did not: the rows are carried over.
PublishUnreachable(p) == Publish(p, [rows |-> shown.rows, reachable |-> FALSE])
\* A scoped refresh of one repository, into the snapshot as it is.
PublishScoped(p) ==
  \E r \in Repos : /\ onForge[r] # NoRows
                   /\ Publish(p, [shown EXCEPT !.rows[r] = onForge[r]])

\* The slip SavedDiff is tried with: only the rows still on the board are compared.
SavedDiff_KeepsTheGone(p) ==
  /\ saving[p].at = "diff"
  /\ LET changed == {r \in Repos : saving[p].rows[r] \notin {NoRows, believed[r]}}
     IN saving' = [saving EXCEPT ![p] = IF changed = {} THEN Idle
                                        ELSE [@ EXCEPT !.at = "write", !.changed = changed]]
  /\ UNCHANGED <<onForge, shown, table, believed, moves, reboots, lagging, overlapped, misread>>

\* savedDiff: the rows that differ from what is believed stored, gone ones included.
SavedDiff(p) ==
  /\ saving[p].at = "diff"
  /\ LET changed == {r \in Repos : saving[p].rows[r] # believed[r]}
     IN saving' = [saving EXCEPT ![p] = IF changed = {} THEN Idle
                                        ELSE [@ EXCEPT !.at = "write", !.changed = changed]]
  /\ UNCHANGED <<onForge, shown, table, believed, moves, reboots, lagging, overlapped, misread>>

\* SaveSnapshotChanges: one transaction over the changed rows, or an error.
Write(p) ==
  /\ saving[p].at = "write"
  /\ \/ /\ table' = [r \in Repos |-> IF r \in saving[p].changed THEN saving[p].rows[r] ELSE table[r]]
        /\ saving' = [saving EXCEPT ![p].at = "remember"]
        /\ lagging' = FALSE
     \/ /\ saving' = [saving EXCEPT ![p] = Idle]
        /\ lagging' = TRUE
        /\ UNCHANGED table
  /\ UNCHANGED <<onForge, shown, believed, moves, reboots, overlapped, misread>>

\* rememberSaved: the whole snapshot, not what was written of it.
RememberSaved(p) ==
  /\ saving[p].at = "remember"
  /\ believed' = saving[p].rows
  /\ saving' = [saving EXCEPT ![p] = Idle]
  /\ UNCHANGED <<onForge, shown, table, moves, reboots, lagging, overlapped, misread>>

\* A new process: restoreSnapshot, unless the table cannot be read.
Reboot ==
  /\ reboots < MaxReboots /\ reboots' = reboots + 1
  /\ saving' = [p \in Publishers |-> Idle]
  /\ \E readable \in BOOLEAN :
       /\ believed' = IF readable THEN table ELSE Nothing
       /\ shown' = [rows |-> IF readable THEN table ELSE Nothing, reachable |-> FALSE]
       /\ misread' = ~readable
  /\ overlapped' = FALSE
  /\ UNCHANGED <<onForge, table, moves, lagging>>

CacheNext ==
  \/ ForgeMoves \/ Reboot
  \/ \E p \in Publishers : \/ PublishFull(p) \/ PublishUnreachable(p) \/ PublishScoped(p)
                           \/ SavedDiff(p) \/ Write(p) \/ RememberSaved(p)

CacheSpec == CacheInit /\ [][CacheNext]_cvars

-----------------------------------------------------------------------------
\* With no save under way, what the next process would start from is what the
\* board shows of a reachable forge, removed repositories gone too.  Only an
\* overlap of two saves, a failed write not yet repeated or an unreadable table
\* at the start may leave it behind.
OnlyCrossedSavesLeaveTheTableBehind ==
  (shown.reachable /\ \A p \in Publishers : saving[p].at = "idle")
     => (table = shown.rows \/ overlapped \/ lagging \/ misread)
=============================================================================
