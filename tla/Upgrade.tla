------------------------------ MODULE Upgrade ------------------------------
(***************************************************************************)
(* Opening the database: dbmigrate.Run with the two steps that turn a      *)
(* several-user database into a single-user one (settings/migrate.go,      *)
(* auth/migrate.go), and the single-user clean-up that follows them        *)
(* (internal/singleuser).  A step is one transaction; the process may fail *)
(* or die between any two of them, and starts again from what it wrote.    *)
(*                                                                         *)
(* Rows are abstracted to the user id they carry: rows[t] is the set of    *)
(* users who have a row in table t.  Step 1 rebuilds "settings" (all the   *)
(* tables of settings/migrate.go), step 2 "auth" (sessions, API tokens and *)
(* passkey labels).  User ids are numbered in the order of created_at; the *)
(* id Stray stands for one that is in no users row.  The request log       *)
(* carries no owner and is copied whole, so it is left out.                *)
(***************************************************************************)
EXTENDS Naturals, Sequences, FiniteSetsExt

CONSTANTS Accounts,     \* user ids an earlier release gave out
          MaxCrashes    \* restarts explored

VARIABLES db,           \* the database file
          backups,      \* the copies VACUUM INTO left beside it
          phase,        \* where the starting process is
          mine,         \* the backup this process made, and the steps it applied
          crashes,      \* restarts so far
          legacy        \* history: the database the first start found

upgradeVars == <<db, backups, phase, mine, crashes, legacy>>

Ids    == 1..Accounts
Stray  == Accounts + 1
Tables == <<"settings", "auth">>
Steps  == Len(Tables)
NoCopy == [users |-> {}, rows |-> [t \in 1..Steps |-> {}]]
Copy(d) == [users |-> d.users, rows |-> d.rows]

Database == [fresh : BOOLEAN, version : 0..(Steps + 1), users : SUBSET Ids,
             keys : SUBSET Ids, marker : BOOLEAN, tagged : [1..Steps -> BOOLEAN],
             rows : [1..Steps -> SUBSET (Ids \cup {Stray})], inTheWay : BOOLEAN]

Blank == [fresh |-> TRUE, version |-> 0, users |-> {}, keys |-> {}, marker |-> FALSE,
          tagged |-> [t \in 1..Steps |-> FALSE], rows |-> [t \in 1..Steps |-> {}],
          inTheWay |-> FALSE]

(* What an earlier release may have left: the steps up to its version are  *)
(* done, and the clean-up that writes the marker keeps one passkey holder. *)
Found == {d \in Database :
            /\ ~d.fresh /\ d.keys \subseteq d.users
            /\ d.marker => Cardinality(d.keys) <= 1
            /\ \A t \in 1..Steps : d.tagged[t] <=> d.version < t
            /\ \A t \in 1..Steps : ~d.tagged[t] => d.rows[t] = {}
            /\ ~d.tagged[1] => ~d.inTheWay}

UpgradeInit == /\ db \in Found \cup {Blank}
               /\ legacy = db
               /\ backups = {} /\ phase = "down" /\ crashes = 0
               /\ mine = [copy |-> NoCopy, applied |-> 0]

\* Slip: the oldest user, whether a passkey holder or not.
Owner_Oldest(d) == Min(d.users)

(* ORDER BY credentials_json = '[]', created_at, rowid                     *)
Owner(d) == IF d.keys # {} THEN Min(d.keys) ELSE Min(d.users)

OthersHoldNothing(d, t) == \A u \in d.rows[t] : u = Owner(d) \/ u \notin d.users

(* chooseOwner and chooseAuthOwner: may one user's rows be told apart?     *)
OwnerKnown(d, t) ==
    IF d.users = {} THEN d.rows[t] = {}
    ELSE \/ Cardinality(d.users) = 1 \/ d.marker
         \/ d.keys = {} /\ OthersHoldNothing(d, t)

AuthOwnerKnown(d) == OwnerKnown(d, 2)

(* checkOwnerHasRows: rows without one of the owner's, or with a user id   *)
(* nobody has, mean the wrong owner was found.                             *)
OwnerHasRows(d) ==
    d.users # {} => /\ d.rows[1] # {} => Owner(d) \in d.rows[1]
                    /\ d.rows[1] \subseteq d.users

(* checkSettingsTableFree: a table already has the name "settings".        *)
SettingsTableFree(d) == ~d.inTheWay

(* checkNoOrphans: rows of no user are left to a person, unless the        *)
(* clean-up has said whose database this is.                               *)
NoOrphans(d) == d.users # {} => d.marker \/ d.rows[2] \subseteq d.users

(* Each step repeats its own preflight inside its transaction; a table     *)
(* without the column asks for nothing.                                    *)
SettingsPreflight(d) == OwnerKnown(d, 1) /\ SettingsTableFree(d) /\ OwnerHasRows(d)
AuthPreflight(d)     == AuthOwnerKnown(d) /\ NoOrphans(d)
Preflight(d, t) == d.tagged[t] => IF t = 1 THEN SettingsPreflight(d) ELSE AuthPreflight(d)

(* rebuild, in both files: the owner's rows are copied to a table without  *)
(* the column and the old table is dropped; the version is written in the  *)
(* same transaction.                                                       *)
Kept(d, t) == IF ~d.tagged[t] \/ d.users = {} THEN d.rows[t] ELSE d.rows[t] \cap {Owner(d)}
Rebuild(d, t) == [d EXCEPT !.tagged[t] = FALSE, !.version = t, !.rows[t] = Kept(d, t)]

Stamped(d) == [d EXCEPT !.fresh = FALSE, !.version = Steps]

(* Run: a new database is stamped, a newer one refused, a current one left *)
(* alone; otherwise every pending step is asked first, and a copy is made  *)
(* before anything is changed.                                             *)
Boot ==
    /\ phase = "down"
    /\ \/ /\ db.fresh
          /\ db' = Stamped(db)
          /\ phase' = "open" /\ UNCHANGED <<backups, mine>>
       \/ /\ ~db.fresh /\ db.version = Steps
          /\ phase' = "open" /\ UNCHANGED <<db, backups, mine>>
       \/ /\ ~db.fresh /\ db.version < Steps
          /\ \A t \in (db.version + 1)..Steps : Preflight(db, t)
          /\ backups' = backups \cup {Copy(db)}
          /\ mine' = [copy |-> Copy(db), applied |-> 0]
          /\ phase' = "migrating" /\ UNCHANGED db
    /\ UNCHANGED <<crashes, legacy>>

\* Slip: a failed step always takes the copy with it.
Unneeded_Always(m) == TRUE

(* dropUnneededBackup: a copy no step followed is removed again.           *)
Unneeded(m) == m.applied = 0

DropCopy == IF Unneeded(mine) THEN backups \ {mine.copy} ELSE backups

(* apply: one step, checked again, committed with its version.             *)
Apply ==
    /\ phase = "migrating" /\ Preflight(db, db.version + 1)
    /\ db' = Rebuild(db, db.version + 1)
    /\ mine' = [mine EXCEPT !.applied = @ + 1]
    /\ phase' = IF db'.version = Steps THEN "open" ELSE "migrating"
    /\ UNCHANGED <<backups, crashes, legacy>>

(* A step that fails is rolled back, and the process exits.                *)
ApplyFails ==
    /\ phase = "migrating"
    /\ backups' = DropCopy /\ phase' = "down"
    /\ crashes < MaxCrashes /\ crashes' = crashes + 1
    /\ UNCHANGED <<db, mine, legacy>>

(* deleteOthers: one transaction, which also writes the marker.            *)
DeleteOthers(d) == [d EXCEPT !.users = {Owner(d)}, !.keys = @ \cap {Owner(d)}, !.marker = TRUE]

(* singleuser.Run: once a passkey holder exists, everybody else goes, after *)
(* a copy, in the transaction that writes the marker.  A failure before    *)
(* that is logged, deletes nothing, and the server starts all the same.    *)
CleanUp ==
    /\ phase = "open"
    /\ \/ /\ ~db.marker /\ db.keys # {}
          /\ backups' = IF db.users = {Owner(db)} THEN backups ELSE backups \cup {Copy(db)}
          /\ db' = DeleteOthers(db)
       \/ UNCHANGED <<db, backups>>
    /\ phase' = "serving"
    /\ UNCHANGED <<mine, crashes, legacy>>

(* While serving, a first registration keeps the owner's row, drops the    *)
(* others that never finished one, and writes the marker.                  *)
Registered ==
    /\ phase = "serving" /\ db.keys = {}
    /\ LET u == IF db.users = {} THEN 1 ELSE Min(db.users)
       IN db' = [db EXCEPT !.users = {u}, !.keys = {u}, !.marker = TRUE]
    /\ UNCHANGED <<backups, phase, mine, crashes, legacy>>

(* The process stops or is killed; what it wrote stays.                    *)
Crash ==
    /\ phase # "down" /\ crashes < MaxCrashes
    /\ phase' = "down" /\ crashes' = crashes + 1
    /\ UNCHANGED <<db, backups, mine, legacy>>

UpgradeNext == Boot \/ Apply \/ ApplyFails \/ CleanUp \/ Registered \/ Crash

UpgradeSpec == UpgradeInit /\ [][UpgradeNext]_upgradeVars

UpgradeTypeOK ==
    /\ db \in Database /\ legacy \in Database
    /\ phase \in {"down", "migrating", "open", "serving"}
    /\ crashes \in 0..MaxCrashes /\ mine.applied \in 0..Steps
    /\ backups \subseteq [users : SUBSET Ids, rows : [1..Steps -> SUBSET (Ids \cup {Stray})]]

-----------------------------------------------------------------------------
(* Whatever fails and whenever the process dies, a row the upgrade takes   *)
(* out of the database, and a passkey holder the clean-up removes, is in   *)
(* one of the copies still lying beside it.  A copy is only removed when   *)
(* nothing was changed after it (dbmigrate.go:118-127,                     *)
(* singleuser.go:40-44).                                                   *)
NothingIsLostUnsaved ==
    /\ \A t \in 1..Steps : \A u \in legacy.rows[t] :
          u \in db.rows[t] \/ \E b \in backups : u \in b.rows[t]
    /\ \A u \in legacy.keys : u \in db.users \/ \E b \in backups : u \in b.users

(* Both steps, run by two different starts if need be, keep the rows of    *)
(* the same user, the one that owned the database when the first began,    *)
(* and all of them (settings/migrate.go:218-255, auth/migrate.go:181-223). *)
TheOwnersRowsStay ==
    \A t \in 1..Steps : legacy.tagged[t] /\ ~db.tagged[t] =>
        db.rows[t] = IF legacy.users = {} THEN {} ELSE legacy.rows[t] \cap
             {IF legacy.keys # {} THEN Min(legacy.keys) ELSE Min(legacy.users)}
=============================================================================
