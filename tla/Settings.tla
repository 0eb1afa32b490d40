------------------------------ MODULE Settings ------------------------------
(***************************************************************************)
(* The one row of the settings table and the handlers that write it        *)
(* (api/settings.go, api/filter_state.go, settings/store.go).  A PUT of    *)
(* the form, the theme or the time zone reads the row, changes its own     *)
(* part and writes every column of the form back; no lock spans the two.   *)
(* The webhook credentials and the filter state are columns of the same    *)
(* row with statements of their own.                                       *)
(*                                                                         *)
(* Texts are reduced to what the rules tell apart: set or not for the      *)
(* Forgejo fields and the GitHub App installation, a value from Choices    *)
(* for the theme and the zone.                                             *)
(***************************************************************************)
EXTENDS Naturals

CONSTANTS
  Writers,     \* requests that may be under way at one time
  Choices,     \* values of a field nothing else depends on
  MaxRev,      \* bound: the highest revision a page sends
  MaxTokens,   \* bound: webhook tokens ever made
  MaxSaves     \* bound: saves of the form, the theme and the zone

VARIABLES
  appConfigured,  \* this server has a GitHub App
  row,            \* the form's columns
  hook,           \* webhook_token, 0 when empty
  filterRev,      \* the revision of filter_state, NoRev when it has none
  writer,         \* where each request is
  made, saves,    \* webhook tokens made so far, saves begun so far
  promised,       \* history: what answered saves say the row holds
  shownHook,      \* history: the webhook token last shown on the settings page
  crossed,        \* history: two writes of the form's columns overlapped
  hookCrossed,    \* history: two first reads of the webhook token overlapped
  unnumbered,     \* history: a filter state without a revision was stored
  toldLow         \* history: a refused page was told no higher revision

setVars == <<appConfigured, row, hook, filterRev, writer, made, saves, promised, shownHook,
             crossed, hookCrossed, unnumbered, toldLow>>

Form == [url : BOOLEAN, token : BOOLEAN, user : BOOLEAN, inst : BOOLEAN]
Row == [form : Form, theme : Choices, zone : Choices]
NoRev == 0
First == CHOOSE c \in Choices : TRUE
Empty == [form |-> [url |-> FALSE, token |-> FALSE, user |-> FALSE, inst |-> FALSE],
          theme |-> First, zone |-> First]
Resting == [at |-> "idle", part |-> "form", new |-> Empty, hook |-> 0, rev |-> NoRev]

SettingsTypeOK ==
  /\ appConfigured \in BOOLEAN /\ row \in Row /\ hook \in 0..MaxTokens /\ filterRev \in 0..MaxRev
  /\ writer \in [Writers -> [at : {"idle", "set", "ensure", "refused"},
                             part : {"form", "theme", "zone"}, new : Row,
                             hook : 0..MaxTokens, rev : 0..MaxRev]]
  /\ made \in 0..MaxTokens /\ saves \in 0..MaxSaves
  /\ promised \in Row /\ shownHook \in 0..MaxTokens
  /\ crossed \in BOOLEAN /\ hookCrossed \in BOOLEAN /\ unnumbered \in BOOLEAN /\ toldLow \in BOOLEAN

SettingsInit ==
  /\ appConfigured \in BOOLEAN
  /\ row = Empty /\ promised = Empty /\ hook = 0 /\ shownHook = 0 /\ filterRev = NoRev
  /\ writer = [w \in Writers |-> Resting] /\ made = 0 /\ saves = 0
  /\ crossed = FALSE /\ hookCrossed = FALSE /\ unnumbered = FALSE /\ toldLow = FALSE

-----------------------------------------------------------------------------
(* The three PUTs of the form's columns.                                   *)

Setting(w) == \E v \in Writers \ {w} : writer[v].at = "set"

\* Get, the change, and on to Set.  Get fails when a token does not decrypt;
\* the request then ends with nothing changed, as it does on a bad body.
Load(w, part, new) ==
  /\ writer[w].at = "idle" /\ saves < MaxSaves /\ saves' = saves + 1
  /\ writer' = [writer EXCEPT ![w] = [Resting EXCEPT !.at = "set", !.part = part, !.new = new,
                                                         !.hook = hook]]
  /\ crossed' = (crossed \/ Setting(w))
  /\ UNCHANGED <<appConfigured, row, hook, filterRev, made, promised, shownHook, hookCrossed, unnumbered, toldLow>>

\* Slip: the page the form was filled on decides over the theme and the zone.
MergeSettings_FromTheForm(req, existing) ==
  [existing EXCEPT !.form = [req EXCEPT !.token = req.token \/ existing.form.token],
                   !.theme = First, !.zone = First]

\* mergeSettings: an empty token keeps the stored one, the theme and the zone stay.
MergeSettings(req, existing) ==
  [existing EXCEPT !.form = [req EXCEPT !.token = req.token \/ existing.form.token]]

\* Slip: the request is checked instead of what will be stored.
Acceptable_Request(merged, req) ==
  /\ (req.token \/ req.user) => req.url
  /\ merged.form.inst => appConfigured

\* settingsFieldError, on the merged record.
Acceptable(merged, req) ==
  /\ (merged.form.token \/ merged.form.user) => merged.form.url
  /\ merged.form.inst => appConfigured

\* handleSettingsPut, up to Set.
PutForm(w) ==
  \E req \in Form :
    LET merged == MergeSettings(req, row)
    IN Acceptable(merged, req) /\ Load(w, "form", merged)

\* handleThemePut and handleTimezonePut, up to Set.
PutTheme(w) == \E c \in Choices : Load(w, "theme", [row EXCEPT !.theme = c])
PutTimezone(w) == \E c \in Choices : Load(w, "zone", [row EXCEPT !.zone = c])

\* What the answer says: the columns the request was about hold what it set.
Promise(wr) ==
  CASE wr.part = "form"  -> [promised EXCEPT !.form = wr.new.form]
    [] wr.part = "theme" -> [promised EXCEPT !.theme = wr.new.theme]
    [] wr.part = "zone"  -> [promised EXCEPT !.zone = wr.new.zone]

\* Slip: the webhook columns are written from the record that was read.
Set_AllColumns(w) ==
  /\ writer[w].at = "set"
  /\ row' = writer[w].new /\ promised' = Promise(writer[w])
  /\ hook' = writer[w].hook
  /\ writer' = [writer EXCEPT ![w] = Resting]
  /\ UNCHANGED <<appConfigured, filterRev, made, saves, shownHook, crossed, hookCrossed, unnumbered, toldLow>>

\* Set: one statement over the form's columns, and the answer.
Set(w) ==
  /\ writer[w].at = "set"
  /\ row' = writer[w].new /\ promised' = Promise(writer[w])
  /\ writer' = [writer EXCEPT ![w] = Resting]
  /\ UNCHANGED <<appConfigured, hook, filterRev, made, saves, shownHook, crossed, hookCrossed,
                 unnumbered, toldLow>>

\* Set fails: the answer is an error and nothing was written.
SetFails(w) ==
  /\ writer[w].at = "set"
  /\ writer' = [writer EXCEPT ![w] = Resting]
  /\ UNCHANGED <<appConfigured, row, hook, filterRev, made, saves, promised, shownHook, crossed,
                 hookCrossed, unnumbered, toldLow>>

-----------------------------------------------------------------------------
(* EnsureWebhookCredentials, for the settings page.                        *)

\* The stored credentials are there: they are shown.
ShowWebhook(w) ==
  /\ writer[w].at = "idle" /\ hook # 0
  /\ shownHook' = hook
  /\ UNCHANGED <<appConfigured, row, hook, filterRev, writer, made, saves, promised, crossed,
                 hookCrossed, unnumbered, toldLow>>

\* They are not: a random value is made, to be stored in a second statement.
MakeWebhook(w) ==
  /\ writer[w].at = "idle" /\ hook = 0 /\ made < MaxTokens
  /\ made' = made + 1
  /\ writer' = [writer EXCEPT ![w] = [Resting EXCEPT !.at = "ensure", !.hook = made']]
  /\ hookCrossed' = (hookCrossed \/ \E v \in Writers \ {w} : writer[v].at = "ensure")
  /\ UNCHANGED <<appConfigured, row, hook, filterRev, saves, promised, shownHook, crossed,
                 unnumbered, toldLow>>

\* The upsert, which leaves the form's columns alone, and the answer.
StoreWebhook(w) ==
  /\ writer[w].at = "ensure"
  /\ hook' = writer[w].hook /\ shownHook' = writer[w].hook
  /\ writer' = [writer EXCEPT ![w] = Resting]
  /\ UNCHANGED <<appConfigured, row, filterRev, made, saves, promised, crossed, hookCrossed,
                 unnumbered, toldLow>>

-----------------------------------------------------------------------------
(* The filter state.                                                       *)

\* Slip: a save that repeats the stored revision counts as older.
Supersedes_Strictly(rev) == rev = NoRev \/ filterRev = NoRev \/ rev > filterRev

\* The WHERE of SetFilterState's upsert.
Supersedes(rev) == rev = NoRev \/ filterRev = NoRev \/ rev >= filterRev

\* handleFilterStatePut: the upsert, whose row count tells whether it won.
PutFilter(w) ==
  /\ writer[w].at = "idle"
  /\ \E rev \in 0..MaxRev :
       \/ /\ Supersedes(rev)
          /\ filterRev' = rev /\ unnumbered' = (unnumbered \/ rev = NoRev)
          /\ UNCHANGED writer
       \/ /\ ~Supersedes(rev)
          /\ writer' = [writer EXCEPT ![w] = [Resting EXCEPT !.at = "refused", !.rev = rev]]
          /\ UNCHANGED <<filterRev, unnumbered>>
  /\ UNCHANGED <<appConfigured, row, hook, made, saves, promised, shownHook, crossed, hookCrossed, toldLow>>

\* GetFilterState for the page that lost: the revision to catch up with.
TellRevision(w) ==
  /\ writer[w].at = "refused"
  /\ toldLow' = (toldLow \/ filterRev <= writer[w].rev)
  /\ writer' = [writer EXCEPT ![w] = Resting]
  /\ UNCHANGED <<appConfigured, row, hook, filterRev, made, saves, promised, shownHook, crossed,
                 hookCrossed, unnumbered>>

SettingsNext ==
  \E w \in Writers :
    \/ PutForm(w) \/ PutTheme(w) \/ PutTimezone(w) \/ Set(w) \/ SetFails(w)
    \/ ShowWebhook(w) \/ MakeWebhook(w) \/ StoreWebhook(w)
    \/ PutFilter(w) \/ TellRevision(w)

SettingsSpec == SettingsInit /\ [][SettingsNext]_setVars

-----------------------------------------------------------------------------
\* The stored form never has a Forgejo token or user without the address they
\* belong to, nor an installation on a server without a GitHub App, however
\* the writes of the form, the theme and the zone overlap.
StoredFormIsWhole ==
  /\ (row.form.token \/ row.form.user) => row.form.url
  /\ row.form.inst => appConfigured

\* What a save was answered for is what the row holds, and the webhook token
\* the page shows is the one deliveries are checked with: only two writes of
\* the form that overlap lose one, only two first reads that overlap show a
\* token that is not kept.
OnlyCrossedSavesAreLost ==
  /\ crossed \/ row = promised
  /\ hookCrossed \/ shownHook \in {0, hook}

\* A page whose filters were refused as older is told a revision above its own,
\* unless a save without a revision took the row's away.
RefusedPagesCatchUp == toldLow => unnumbered
=============================================================================
