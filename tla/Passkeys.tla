------------------------------ MODULE Passkeys ------------------------------
(***************************************************************************)
(* The owner's account (internal/auth): registering the first passkey,     *)
(* adding and removing one, signing in, API tokens, and the                *)
(* reset-passkeys command, which is another process on the same database.  *)
(* A handler is a sequence of database statements; statements of different *)
(* handlers interleave.  Only what registrationMu holds together, and what *)
(* one transaction holds together, is one step.                            *)
(*                                                                         *)
(* A passkey is named by the number of the ceremony that made it.  User    *)
(* rows are numbered in the order of created_at, so OwnerOrder is: a row   *)
(* with passkeys first, then the lowest number.                            *)
(***************************************************************************)
EXTENDS Naturals, SequencesExt, FiniteSetsExt

CONSTANTS Handlers,      \* requests in flight
          MaxCeremonies, \* ceremonies begun
          MaxPending,    \* maxPendingCeremonies
          MaxUsers,      \* user rows ever created
          NoUser

VARIABLES row,       \* users: number -> its passkeys, or NoUser
          made,      \* user rows created so far
          named,     \* the row whose username is "owner", or 0
          pending,   \* ceremonies
          begun,     \* ceremonies begun
          sessions, tokens,
          req,       \* handler -> where it is and what it has read
          want,      \* history: the passkeys after the changes made, in their order
          crossed    \* history: a write went out over one it had not read, or an add came twice

keyVars == <<row, made, named, pending, begun, sessions, tokens, req, want, crossed>>

Idle  == [at |-> "idle"]
Empty == <<>>
Users == 1..MaxUsers
Keys  == 1..MaxCeremonies
Kinds == {"register", "add", "login"}

Exists(u)     == row[u] # NoUser
Registered(u) == Exists(u) /\ row[u] # Empty
Someone       == \E u \in Users : Registered(u)

(* Owner: OwnerOrder over the users table.                                 *)
Known == {u \in Users : Exists(u)}
Owner == IF Someone THEN Min({u \in Known : Registered(u)}) ELSE Min(Known)
OwnerKeys == IF Known = {} THEN Empty ELSE row[Owner]

(* A database from before the single-user release may hold a row that is   *)
(* not called "owner".                                                     *)
KeysInit ==
    /\ \/ row = [u \in Users |-> NoUser] /\ made = 0
       \/ row = [u \in Users |-> IF u = 1 THEN Empty ELSE NoUser] /\ made = 1
    /\ named \in {0, made}
    /\ pending = {} /\ begun = 0 /\ sessions = {} /\ tokens = {}
    /\ req = [h \in Handlers |-> Idle]
    /\ want = {} /\ crossed = FALSE

To(h, r)   == req' = [req EXCEPT ![h] = r]
Ends(h)    == To(h, Idle)
table      == <<row, made, named>>
ceremonies == <<pending, begun>>
grants     == <<sessions, tokens>>
past       == <<want, crossed>>

(* SaveCeremony: what has expired is pruned (the ceremonies up to a        *)
(* number, for they all live as long), the oldest of the kind make room,   *)
(* and the key's own row is replaced.  An added passkey is keyed by the    *)
(* username, so a second begin replaces the first.                         *)
Stored(kind) == IF kind = "add" THEN "register" ELSE kind
SaveCeremony(kind, u, expired) ==
    LET n     == begun + 1
        kept  == {c \in pending : c.key > expired}
        same  == {c \in kept : Stored(c.kind) = Stored(kind)}
        older == {c \in same : Cardinality({d \in same : d.key > c.key}) >= MaxPending - 1}
        mine  == {c \in kept : kind = "add" /\ c.kind = "add" /\ c.user = u}
    IN /\ begun < MaxCeremonies /\ begun' = n
       /\ pending' = (kept \ (older \cup mine)) \cup {[key |-> n, kind |-> kind, user |-> u]}

(* DeleteCeremony goes by the key, so finishing an added passkey deletes   *)
(* whatever has been begun under the username since.                       *)
Drop(c) == pending' = {d \in pending : ~(d = c \/ (c.kind = "add" /\ d.kind = "add" /\ d.user = c.user))}

-----------------------------------------------------------------------------
(* BeginRegistration.                                                      *)

RegisterBegin(h) ==
    /\ req[h].at = "idle" /\ ~Someone
    /\ To(h, [at |-> "claim"])
    /\ UNCHANGED <<table, ceremonies, grants, past>>

(* ClaimUnregisteredUser, under registrationMu: the row without a passkey, *)
(* or a new one called "owner"; a name that is taken means closed.         *)
Claim(h) ==
    /\ req[h].at = "claim"
    /\ LET open == {u \in Known : row[u] = Empty}
       IN \/ /\ open # {}
             /\ \E gone \in SUBSET (open \ {Min(open)}) :
                   row' = [u \in Users |-> IF u \in gone THEN NoUser ELSE row[u]]
             /\ To(h, [at |-> "begin", user |-> Min(open)])
             /\ UNCHANGED <<made, named>>
          \/ /\ open = {} /\ named \notin Known /\ made < MaxUsers
             /\ made' = made + 1 /\ named' = made + 1
             /\ row' = [row EXCEPT ![made + 1] = Empty]
             /\ To(h, [at |-> "begin", user |-> made + 1])
          \/ /\ open = {} /\ named \in Known
             /\ Ends(h) /\ UNCHANGED table
    /\ UNCHANGED <<ceremonies, grants, past>>

RegisterSaved(h) ==
    /\ req[h].at = "begin"
    /\ \E n \in 0..begun : SaveCeremony("register", req[h].user, n)
    /\ Ends(h)
    /\ UNCHANGED <<table, grants, past>>

(* FinishRegistration: the ceremony is read here and deleted on return, so *)
(* a second finish may read it meanwhile.                                  *)
RegisterFinish(h) ==
    /\ req[h].at = "idle"
    /\ \E c \in pending :
          /\ c.kind = "register"
          /\ IF Exists(c.user) THEN To(h, [at |-> "attach", c |-> c]) /\ UNCHANGED pending
             ELSE Drop(c) /\ Ends(h)
    /\ UNCHANGED <<table, begun, grants, past>>

\* Slip: another row's passkey is not looked for.
Attaches_Alone(u) == Exists(u) /\ row[u] = Empty

\* The condition of AddFirstCredential's UPDATE.
Attaches(u) ==
    /\ Exists(u) /\ row[u] = Empty
    /\ \A v \in Known \ {u} : row[v] = Empty

(* AddFirstCredential: one transaction under registrationMu.               *)
AddFirstCredential(h) ==
    /\ req[h].at = "attach"
    /\ LET u == req[h].c.user
           k == req[h].c.key
           abandoned == IF Exists(u) /\ row[u] = Empty
                        THEN {v \in Known \ {u} : row[v] = Empty} ELSE {}
           left == [v \in Users |-> IF v \in abandoned THEN NoUser ELSE row[v]]
       IN IF Attaches(u)
          THEN /\ row' = [left EXCEPT ![u] = <<k>>] /\ want' = {k}
               /\ To(h, [at |-> "return", c |-> req[h].c])
               /\ UNCHANGED pending
          ELSE /\ row' = [left EXCEPT ![u] = IF @ = Empty THEN NoUser ELSE @]
               /\ Drop(req[h].c) /\ Ends(h) /\ UNCHANGED want
    /\ UNCHANGED <<made, named, begun, grants, crossed>>

(* The ceremony is deleted as the service returns (its passkey's label,    *)
(* written before, is left out), and the handler begins a session; adding  *)
(* a passkey begins none.                                                  *)
Return(h) ==
    /\ req[h].at = "return"
    /\ Drop(req[h].c)
    /\ IF req[h].c.kind = "add" THEN Ends(h) ELSE To(h, [at |-> "session"])
    /\ UNCHANGED <<table, begun, grants, past>>

StartSession(h) ==
    /\ req[h].at = "session"
    /\ sessions' = sessions \cup {h} /\ Ends(h)
    /\ UNCHANGED <<table, ceremonies, tokens, past>>

Logout(h) ==
    /\ h \in sessions /\ sessions' = sessions \ {h}
    /\ UNCHANGED <<table, ceremonies, tokens, req, past>>

-----------------------------------------------------------------------------
(* RequireSession: a session names no user, only that it is the owner's.   *)
SignedIn(h) == h \in sessions

(* Passkeys of the signed-in owner: each reads the owner's row, changes    *)
(* the list in memory and writes the whole list back.                      *)

AddBegin(h) ==
    /\ req[h].at = "idle" /\ SignedIn(h) /\ Known # {}
    /\ \E n \in 0..begun : SaveCeremony("add", Owner, n)
    /\ UNCHANGED <<table, grants, req, past>>

AddFinish(h) ==
    /\ req[h].at = "idle" /\ SignedIn(h) /\ Known # {}
    /\ \E c \in pending : /\ c.kind = "add" /\ c.user = Owner
                          /\ To(h, [at |-> "add", c |-> c])
    /\ UNCHANGED <<table, ceremonies, grants, past>>

Reading(h, change, list, c) == To(h, [at |-> "save", change |-> change, user |-> Owner,
                                      seen |-> row[Owner], list |-> list, c |-> c])

AddRead(h) ==
    /\ req[h].at = "add" /\ Known # {}
    /\ Reading(h, "add", Append(row[Owner], req[h].c.key), req[h].c)
    /\ UNCHANGED <<table, ceremonies, grants, past>>

\* Slip: the last passkey may be removed.
Removable_Any(s) == TRUE

\* RemoveCredential refuses the last one.
Removable(s) == Len(s) > 1

RemoveRead(h) ==
    /\ req[h].at = "idle" /\ SignedIn(h) /\ Known # {}
    /\ \E k \in Range(row[Owner]) :
          /\ Removable(row[Owner])
          /\ Reading(h, "remove", RemoveFirst(row[Owner], k), [key |-> k])
    /\ UNCHANGED <<table, ceremonies, grants, past>>

(* BeginLogin and FinishLogin up to the validated assertion.               *)
LoginBegin(h) ==
    /\ req[h].at = "idle" /\ OwnerKeys # Empty
    /\ \E n \in 0..begun : SaveCeremony("login", 0, n)
    /\ UNCHANGED <<table, grants, req, past>>

LoginFinish(h) ==
    /\ req[h].at = "idle"
    /\ \E c \in pending, k \in Range(OwnerKeys) :
          c.kind = "login" /\ To(h, [at |-> "update", c |-> c, key |-> k])
    /\ UNCHANGED <<table, ceremonies, grants, past>>

(* UpdateCredential: the owner is read again; a passkey that is gone       *)
(* refuses the sign-in.                                                    *)
UpdateRead(h) ==
    /\ req[h].at = "update"
    /\ IF Known # {} /\ req[h].key \in Range(OwnerKeys)
       THEN Reading(h, "update", row[Owner], req[h].c) /\ UNCHANGED pending
       ELSE Drop(req[h].c) /\ Ends(h)
    /\ UNCHANGED <<table, begun, grants, past>>

(* saveCredentials: UPDATE users SET credentials_json WHERE id, which does *)
(* nothing to a row that is gone.                                          *)
SaveCredentials(h) ==
    /\ req[h].at = "save"
    /\ LET r == req[h]
       IN /\ row' = [row EXCEPT ![r.user] = IF Exists(r.user) THEN r.list ELSE @]
          /\ crossed' = (crossed \/ row[r.user] # r.seen
                                \/ (r.change = "add" /\ r.c.key \in Range(r.seen)))
          /\ want' = IF r.change = "add" THEN want \cup {r.c.key}
                     ELSE IF r.change = "remove" THEN want \ {r.c.key} ELSE want
          /\ CASE r.change = "add"    -> To(h, [at |-> "return", c |-> r.c]) /\ UNCHANGED pending
               [] r.change = "update" -> To(h, [at |-> "session"]) /\ Drop(r.c)
               [] r.change = "remove" -> Ends(h) /\ UNCHANGED pending
    /\ UNCHANGED <<made, named, begun, grants>>

-----------------------------------------------------------------------------
(* API tokens, and the operator's reset.                                   *)

CreateAPIToken == /\ sessions # {} /\ tokens = {} /\ tokens' = {1}
                  /\ UNCHANGED <<table, ceremonies, sessions, req, past>>

DeleteAPIToken == /\ tokens # {} /\ tokens' = {}
                  /\ UNCHANGED <<table, ceremonies, sessions, req, past>>

(* ResetPasskeys: one transaction, after a copy of the database.           *)
ResetPasskeys(withTokens) ==
    /\ Someone
    /\ row' = [row EXCEPT ![Owner] = Empty]
    /\ pending' = {} /\ sessions' = {}
    /\ tokens' = IF withTokens THEN {} ELSE tokens
    /\ want' = {}
    \* A handler past its checks still writes, or begins a session.
    /\ crossed' = (crossed \/ \E h \in Handlers : req[h].at \in {"session", "return"})
    /\ UNCHANGED <<made, named, begun, req>>

(* The handlers: signing up, in and out; a signed-in owner's passkeys; API *)
(* tokens; and the reset-passkeys command.                                 *)
SignUpAndIn(h) ==
    \/ RegisterBegin(h) \/ Claim(h) \/ RegisterSaved(h) \/ RegisterFinish(h)
    \/ AddFirstCredential(h) \/ LoginBegin(h) \/ LoginFinish(h) \/ UpdateRead(h)
    \/ Return(h) \/ StartSession(h) \/ Logout(h)

OwnPasskeys(h) == \/ AddBegin(h) \/ AddFinish(h) \/ AddRead(h) \/ RemoveRead(h)
                  \/ SaveCredentials(h)

APITokens == CreateAPIToken \/ DeleteAPIToken

ResetCommand == \E b \in BOOLEAN : ResetPasskeys(b)

KeysNext == \/ \E h \in Handlers : SignUpAndIn(h) \/ OwnPasskeys(h)
            \/ APITokens \/ ResetCommand

KeysSpec == KeysInit /\ [][KeysNext]_keyVars

KeysTypeOK ==
    /\ \A u \in Users : row[u] = NoUser \/ Range(row[u]) \subseteq Keys
    /\ made \in 0..MaxUsers /\ named \in 0..MaxUsers /\ begun \in 0..MaxCeremonies
    /\ pending \subseteq [key : Keys, kind : Kinds, user : 0..MaxUsers]
    /\ want \subseteq Keys /\ crossed \in BOOLEAN
    /\ sessions \subseteq Handlers /\ tokens \subseteq {1} /\ DOMAIN req = Handlers

-----------------------------------------------------------------------------
(* However registrations, finishes and resets interleave, at most one user *)
(* row holds a passkey: "an instance has one owner, and the first passkey  *)
(* to land is theirs" (store.go:37-40).                                    *)
OneOwner == Cardinality({u \in Users : Registered(u)}) <= 1

(* The account's last passkey goes with a reset and in no other way, even  *)
(* when two removals, or a removal and a sign-in, both read the list       *)
(* before either writes it (RemoveCredential, store.go:703-745).           *)
LastPasskeyStays ==
    [][(Someone /\ \A u \in Users : ~Registered(u)') => ResetCommand]_keyVars

(* The passkeys on the account are those its changes add up to, and nobody *)
(* is signed in to an account without one, unless a write went out over    *)
(* another it had not read, or one finished ceremony was sent twice:       *)
(* AddCredential, UpdateCredential and RemoveCredential read, change and   *)
(* write without a lock, and a ceremony is deleted only when its finish    *)
(* returns.                                                                *)
OnlyCrossedWritesUndo ==
    ~crossed => /\ UNION {Range(row[u]) : u \in Known} = want
                /\ want = {} => sessions = {}
=============================================================================
