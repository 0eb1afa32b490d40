--------------------------- MODULE RequestsProofs ---------------------------
(***************************************************************************)
(* What requests change and read, for any number of requests, saves,       *)
(* publishers and restarts: the settings row, the branches a merge or an   *)
(* update writes to, the snapshot kept in the database, the owner's        *)
(* account and its upgrade, what a row says of its actions and where a     *)
(* pull request stands in a stack, and the copies of the forge's answers.  *)
(* Each has an inductive invariant of its own: a save agrees               *)
(* with the row it read until another crosses it; what the dashboard saw   *)
(* of a pull request is news or still true; what the publisher believes it *)
(* stored is what the table has; a list of passkeys goes back to the row   *)
(* it came from; what a step of the upgrade drops was copied before; a     *)
(* request is on the row of a bot that takes it; and a copy's ETag is the  *)
(* one of its body.                                                        *)
(***************************************************************************)
EXTENDS MCRequests, SequenceTheorems, FiniteSetTheorems, WellFoundedInduction, TLAPS

-----------------------------------------------------------------------------
(* Saves of the settings. *)

WriterRecord == [at : {"idle", "set", "ensure", "refused"},
                 part : {"form", "theme", "zone"}, new : ST!Row,
                 hook : 0..MaxTokens, rev : 0..MaxRev]

Whole(r) == /\ (r.form.token \/ r.form.user) => r.form.url
            /\ r.form.inst => appConfigured

\* A record on its way to the row is one the validation accepts.
WrittenIsWhole ==
  /\ Whole(form)
  /\ \A w \in Writers : writer[w].at = "set" => Whole(writer[w].new)

\* Outside its own part a record agrees with the row it was read from.
Agrees(wr) ==
  /\ wr.part # "form" => wr.new.form = form.form
  /\ wr.part # "theme" => wr.new.theme = form.theme
  /\ wr.part # "zone" => wr.new.zone = form.zone

\* Until two saves cross there is one at a time, and it agrees with the row.
OneSaveAtATime == ~savesCrossed =>
  /\ form = promised
  /\ \A v, w \in Writers : writer[v].at = "set" /\ writer[w].at = "set" => v = w
  /\ \A w \in Writers : writer[w].at = "set" => Agrees(writer[w])

\* Until two first reads cross, a token on its way is the first.
OneTokenAtATime == ~hookCrossed =>
  /\ shownHook \in {0, hook}
  /\ \A v, w \in Writers : writer[v].at = "ensure" /\ writer[w].at = "ensure" => v = w
  /\ \A w \in Writers : writer[w].at = "ensure" => hook = 0

\* A refused page is behind the row until a save without a revision comes.
RefusedIsBehind ==
  /\ toldLow => unnumbered
  /\ \A w \in Writers : writer[w].at = "refused" => unnumbered \/ filterRev > writer[w].rev

SettingsInv ==
  /\ ST!SettingsTypeOK /\ WrittenIsWhole /\ OneSaveAtATime /\ OneTokenAtATime /\ RefusedIsBehind

LEMMA SettingsTypes ==
  ASSUME ST!SettingsTypeOK
  PROVE  /\ appConfigured \in BOOLEAN /\ form \in ST!Row /\ hook \in 0..MaxTokens
         /\ filterRev \in 0..MaxRev /\ writer \in [Writers -> WriterRecord]
         /\ tokensMade \in 0..MaxTokens /\ saves \in 0..MaxSaves
         /\ promised \in ST!Row /\ shownHook \in 0..MaxTokens
         /\ savesCrossed \in BOOLEAN /\ hookCrossed \in BOOLEAN
         /\ unnumbered \in BOOLEAN /\ toldLow \in BOOLEAN
BY DEF ST!SettingsTypeOK, WriterRecord

LEMMA TypesOfSettingsNext ==
  ASSUME /\ appConfigured' \in BOOLEAN /\ form' \in ST!Row /\ hook' \in 0..MaxTokens
         /\ filterRev' \in 0..MaxRev /\ writer' \in [Writers -> WriterRecord]
         /\ tokensMade' \in 0..MaxTokens /\ saves' \in 0..MaxSaves
         /\ promised' \in ST!Row /\ shownHook' \in 0..MaxTokens
         /\ savesCrossed' \in BOOLEAN /\ hookCrossed' \in BOOLEAN
         /\ unnumbered' \in BOOLEAN /\ toldLow' \in BOOLEAN
  PROVE  ST!SettingsTypeOK'
BY DEF ST!SettingsTypeOK, WriterRecord

\* The record of a request at rest.
LEMMA RestingRecord ==
  ST!Empty \in ST!Row /\ ST!Resting \in WriterRecord /\ ST!Resting.at = "idle"
<1>1. ST!First \in Choices
      BY RequestsAssumption DEF ST!First
<1>2. ST!Empty \in ST!Row
      BY <1>1 DEF ST!Empty, ST!Row, ST!Form
<1>3. 0 \in 0..MaxTokens /\ ST!NoRev \in 0..MaxRev
      BY RequestsAssumption DEF ST!NoRev
<1>4. ST!Resting \in WriterRecord /\ ST!Resting.at = "idle"
  <2> HIDE DEF ST!Empty
  <2> QED BY <1>2, <1>3 DEF ST!Resting, WriterRecord
<1> QED BY <1>2, <1>4

LEMMA SettingsInitInv == ST!SettingsInit => SettingsInv
<1> SUFFICES ASSUME ST!SettingsInit PROVE SettingsInv
    OBVIOUS
<1>1. /\ form = ST!Empty /\ promised = ST!Empty /\ hook = 0 /\ shownHook = 0 /\ filterRev = 0
      /\ writer = [w \in Writers |-> ST!Resting] /\ tokensMade = 0 /\ saves = 0
      BY DEF ST!SettingsInit, ST!NoRev
<1>2. /\ appConfigured \in BOOLEAN /\ savesCrossed = FALSE /\ hookCrossed = FALSE
      /\ unnumbered = FALSE /\ toldLow = FALSE
      BY DEF ST!SettingsInit
<1>3. ST!Empty \in ST!Row /\ ST!Resting \in WriterRecord /\ ST!Resting.at = "idle"
      BY RestingRecord
<1>4. 0 \in 0..MaxTokens /\ 0 \in 0..MaxRev /\ 0 \in 0..MaxSaves
      BY RequestsAssumption
<1>5. writer \in [Writers -> WriterRecord] /\ \A w \in Writers : writer[w].at = "idle"
      BY <1>1, <1>3
<1>6. /\ savesCrossed \in BOOLEAN /\ hookCrossed \in BOOLEAN
      /\ unnumbered \in BOOLEAN /\ toldLow \in BOOLEAN
      BY <1>2
<1>7. ST!SettingsTypeOK
      BY <1>1, <1>2, <1>3, <1>4, <1>5, <1>6 DEF ST!SettingsTypeOK, WriterRecord
<1>8. Whole(form)
      BY <1>1 DEF Whole, ST!Empty
<1>9. WrittenIsWhole /\ OneSaveAtATime /\ OneTokenAtATime /\ RefusedIsBehind
      BY <1>1, <1>2, <1>5, <1>8
      DEF WrittenIsWhole, OneSaveAtATime, OneTokenAtATime, RefusedIsBehind
<1> QED BY <1>7, <1>9 DEF SettingsInv

\* A save reads the row and is on its way.
LEMMA LoadKeeps ==
  ASSUME NEW w \in Writers, NEW p \in {"form", "theme", "zone"}, NEW new \in ST!Row,
         SettingsInv, ST!Load(w, p, new), Whole(new),
         p # "form" => new.form = form.form, p # "theme" => new.theme = form.theme,
         p # "zone" => new.zone = form.zone
  PROVE  SettingsInv'
<1>0. /\ appConfigured \in BOOLEAN /\ form \in ST!Row /\ hook \in 0..MaxTokens
      /\ filterRev \in 0..MaxRev /\ writer \in [Writers -> WriterRecord]
      /\ tokensMade \in 0..MaxTokens /\ saves \in 0..MaxSaves
      /\ promised \in ST!Row /\ shownHook \in 0..MaxTokens
      /\ savesCrossed \in BOOLEAN /\ hookCrossed \in BOOLEAN
      /\ unnumbered \in BOOLEAN /\ toldLow \in BOOLEAN
      BY SettingsTypes DEF SettingsInv
<1>a. ST!Resting \in WriterRecord
      BY RestingRecord
<1> DEFINE n == [ST!Resting EXCEPT !.at = "set", !.part = p, !.new = new, !.hook = hook]
<1>1. n \in WriterRecord /\ n.at = "set" /\ n.part = p /\ n.new = new
      BY <1>0, <1>a DEF WriterRecord
<1>2. /\ saves < MaxSaves /\ saves' = saves + 1 /\ writer' = [writer EXCEPT ![w] = n]
      /\ savesCrossed' = (savesCrossed \/ ST!Setting(w))
      /\ UNCHANGED <<appConfigured, form, hook, filterRev, tokensMade, promised, shownHook>>
      /\ UNCHANGED <<hookCrossed, unnumbered, toldLow>>
      BY DEF ST!Load
<1> HIDE DEF n
<1>3. /\ writer' \in [Writers -> WriterRecord] /\ writer'[w] = n
      /\ \A v \in Writers \ {w} : writer'[v] = writer[v]
      BY <1>0, <1>1, <1>2
<1>4. saves' \in 0..MaxSaves
      BY <1>0, <1>2, RequestsAssumption
<1>5. savesCrossed' \in BOOLEAN
      BY <1>2
<1>6. ST!SettingsTypeOK'
      BY <1>0, <1>2, <1>3, <1>4, <1>5, TypesOfSettingsNext
<1>7. WrittenIsWhole'
      BY <1>1, <1>2, <1>3 DEF SettingsInv, WrittenIsWhole, Whole
<1>8. OneSaveAtATime'
  <2>1. SUFFICES ASSUME ~savesCrossed' PROVE
          /\ form' = promised'
          /\ \A u, v \in Writers : writer'[u].at = "set" /\ writer'[v].at = "set" => u = v
          /\ \A v \in Writers : writer'[v].at = "set" => Agrees(writer[v])'
        BY DEF OneSaveAtATime, Agrees
  <2>2. ~savesCrossed /\ \A v \in Writers \ {w} : writer[v].at # "set"
        BY <1>2, <2>1, Zenon DEF ST!Setting
  <2>3. Agrees(writer[w])'
        BY <1>1, <1>2, <1>3 DEF Agrees
  <2> QED BY <1>2, <1>3, <2>2, <2>3 DEF SettingsInv, OneSaveAtATime
<1>9. OneTokenAtATime' /\ RefusedIsBehind'
      BY <1>1, <1>2, <1>3 DEF SettingsInv, OneTokenAtATime, RefusedIsBehind
<1> QED BY <1>6, <1>7, <1>8, <1>9 DEF SettingsInv

\* The three PUTs load a record that is whole and agrees with the row outside
\* the part they are about.
LEMMA PutsKeep ==
  ASSUME NEW w \in Writers, SettingsInv, ST!PutForm(w) \/ ST!PutTheme(w) \/ ST!PutTimezone(w)
  PROVE  SettingsInv'
<1>0. form \in ST!Row /\ Whole(form)
      BY SettingsTypes DEF SettingsInv, WrittenIsWhole
<1>1. CASE ST!PutForm(w)
  <2>1. PICK req1 \in ST!Form : /\ ST!Acceptable(ST!MergeSettings(req1, form), req1)
                               /\ ST!Load(w, "form", ST!MergeSettings(req1, form))
        BY <1>1 DEF ST!PutForm
  <2> DEFINE new == ST!MergeSettings(req1, form)
  <2>2. [req1 EXCEPT !.token = req1.token \/ form.form.token] \in ST!Form
        BY DEF ST!Form
  <2>3. new \in ST!Row /\ new.theme = form.theme /\ new.zone = form.zone
        BY <1>0, <2>2 DEF ST!MergeSettings, ST!Row
  <2>4. Whole(new)
        BY <2>1 DEF ST!Acceptable, Whole
  <2> HIDE DEF new
  <2>5. ST!Load(w, "form", new)
        BY <2>1 DEF new
  <2> QED BY <2>3, <2>4, <2>5, LoadKeeps
<1>2. CASE ST!PutTheme(w)
  <2>1. PICK c1 \in Choices : ST!Load(w, "theme", [form EXCEPT !.theme = c1])
        BY <1>2 DEF ST!PutTheme
  <2> DEFINE new == [form EXCEPT !.theme = c1]
  <2>2. new \in ST!Row /\ new.form = form.form /\ new.zone = form.zone
        BY <1>0 DEF ST!Row
  <2>3. ST!Load(w, "theme", new)
        BY <2>1
  <2> HIDE DEF new
  <2>4. Whole(new)
        BY <1>0, <2>2 DEF Whole
  <2> QED BY <2>2, <2>3, <2>4, LoadKeeps
<1>3. CASE ST!PutTimezone(w)
  <2>1. PICK c1 \in Choices : ST!Load(w, "zone", [form EXCEPT !.zone = c1])
        BY <1>3 DEF ST!PutTimezone
  <2> DEFINE new == [form EXCEPT !.zone = c1]
  <2>2. new \in ST!Row /\ new.form = form.form /\ new.theme = form.theme
        BY <1>0 DEF ST!Row
  <2>3. ST!Load(w, "zone", new)
        BY <2>1
  <2> HIDE DEF new
  <2>4. Whole(new)
        BY <1>0, <2>2 DEF Whole
  <2> QED BY <2>2, <2>3, <2>4, LoadKeeps
<1> QED BY <1>1, <1>2, <1>3

\* A save is written, and answered for; or it fails.
LEMMA SetKeeps ==
  ASSUME NEW w \in Writers, SettingsInv, ST!Set(w) PROVE SettingsInv'
<1>0. /\ appConfigured \in BOOLEAN /\ form \in ST!Row /\ hook \in 0..MaxTokens
      /\ filterRev \in 0..MaxRev /\ writer \in [Writers -> WriterRecord]
      /\ tokensMade \in 0..MaxTokens /\ saves \in 0..MaxSaves
      /\ promised \in ST!Row /\ shownHook \in 0..MaxTokens
      /\ savesCrossed \in BOOLEAN /\ hookCrossed \in BOOLEAN
      /\ unnumbered \in BOOLEAN /\ toldLow \in BOOLEAN
      BY SettingsTypes DEF SettingsInv
<1>r. ST!Resting \in WriterRecord /\ ST!Resting.at = "idle"
      BY RestingRecord
<1>1. /\ writer[w].at = "set" /\ form' = writer[w].new /\ promised' = ST!Promise(writer[w])
      /\ writer' = [writer EXCEPT ![w] = ST!Resting]
      /\ UNCHANGED <<appConfigured, hook, filterRev, tokensMade, saves, shownHook, savesCrossed>>
      /\ UNCHANGED <<hookCrossed, unnumbered, toldLow>>
      BY DEF ST!Set
<1>w. /\ writer' \in [Writers -> WriterRecord] /\ writer'[w].at = "idle"
      /\ \A v \in Writers \ {w} : writer'[v] = writer[v]
      BY <1>0, <1>1, <1>r
<1>2. /\ writer[w] \in WriterRecord /\ writer[w].new \in ST!Row
      /\ writer[w].part \in {"form", "theme", "zone"}
      BY <1>0 DEF WriterRecord
<1>3. promised' \in ST!Row
      BY <1>0, <1>1, <1>2 DEF ST!Promise, ST!Row
<1>4. ST!SettingsTypeOK'
      BY <1>0, <1>1, <1>2, <1>3, <1>w, TypesOfSettingsNext
<1>5. WrittenIsWhole'
      BY <1>1, <1>w DEF SettingsInv, WrittenIsWhole, Whole
<1>6. OneSaveAtATime'
  <2>1. SUFFICES ASSUME ~savesCrossed' PROVE
          /\ form' = promised'
          /\ \A u, v \in Writers : writer'[u].at = "set" /\ writer'[v].at = "set" => u = v
          /\ \A v \in Writers : writer'[v].at = "set" => Agrees(writer[v])'
        BY DEF OneSaveAtATime, Agrees
  <2>2. /\ form = promised /\ Agrees(writer[w])
        /\ \A v \in Writers \ {w} : writer[v].at # "set"
        BY <1>1, <2>1 DEF SettingsInv, OneSaveAtATime
  <2>3. \A v \in Writers : writer'[v].at # "set"
        BY <1>w, <2>2
  <2>4. form' = promised'
    <3> DEFINE n == writer[w].new
    <3>1. n \in [form : ST!Form, theme : Choices, zone : Choices]
          BY <1>2 DEF ST!Row
    <3>2. promised \in [form : ST!Form, theme : Choices, zone : Choices]
          BY <1>0 DEF ST!Row
    <3>3. CASE writer[w].part = "form"
      <4>1. promised' = [promised EXCEPT !.form = n.form]
            BY <1>1, <3>3 DEF ST!Promise
      <4>2. n.theme = promised.theme /\ n.zone = promised.zone
            BY <2>2, <3>3 DEF Agrees
      <4> HIDE DEF n
      <4>3. promised' = n
            BY <3>1, <3>2, <4>1, <4>2
      <4> QED BY <1>1, <4>3 DEF n
    <3>4. CASE writer[w].part = "theme"
      <4>1. promised' = [promised EXCEPT !.theme = n.theme]
            BY <1>1, <3>4 DEF ST!Promise
      <4>2. n.form = promised.form /\ n.zone = promised.zone
            BY <2>2, <3>4 DEF Agrees
      <4> HIDE DEF n
      <4>3. promised' = n
            BY <3>1, <3>2, <4>1, <4>2
      <4> QED BY <1>1, <4>3 DEF n
    <3>5. CASE writer[w].part = "zone"
      <4>1. promised' = [promised EXCEPT !.zone = n.zone]
            BY <1>1, <3>5 DEF ST!Promise
      <4>2. n.form = promised.form /\ n.theme = promised.theme
            BY <2>2, <3>5 DEF Agrees
      <4> HIDE DEF n
      <4>3. promised' = n
            BY <3>1, <3>2, <4>1, <4>2
      <4> QED BY <1>1, <4>3 DEF n
    <3> QED BY <1>2, <3>3, <3>4, <3>5
  <2> QED BY <2>3, <2>4
<1>7. OneTokenAtATime' /\ RefusedIsBehind'
      BY <1>1, <1>w DEF SettingsInv, OneTokenAtATime, RefusedIsBehind
<1> QED BY <1>4, <1>5, <1>6, <1>7 DEF SettingsInv

LEMMA SetFailsKeeps ==
  ASSUME NEW w \in Writers, SettingsInv, ST!SetFails(w) PROVE SettingsInv'
<1>0. /\ appConfigured \in BOOLEAN /\ form \in ST!Row /\ hook \in 0..MaxTokens
      /\ filterRev \in 0..MaxRev /\ writer \in [Writers -> WriterRecord]
      /\ tokensMade \in 0..MaxTokens /\ saves \in 0..MaxSaves
      /\ promised \in ST!Row /\ shownHook \in 0..MaxTokens
      /\ savesCrossed \in BOOLEAN /\ hookCrossed \in BOOLEAN
      /\ unnumbered \in BOOLEAN /\ toldLow \in BOOLEAN
      BY SettingsTypes DEF SettingsInv
<1>r. ST!Resting \in WriterRecord /\ ST!Resting.at = "idle"
      BY RestingRecord
<1>1. /\ writer' = [writer EXCEPT ![w] = ST!Resting]
      /\ UNCHANGED <<appConfigured, form, hook, filterRev, tokensMade, saves, promised, shownHook>>
      /\ UNCHANGED <<savesCrossed, hookCrossed, unnumbered, toldLow>>
      BY DEF ST!SetFails
<1>w. /\ writer' \in [Writers -> WriterRecord] /\ writer'[w].at = "idle"
      /\ \A v \in Writers \ {w} : writer'[v] = writer[v]
      BY <1>0, <1>1, <1>r
<1>2. ST!SettingsTypeOK'
      BY <1>0, <1>1, <1>w, TypesOfSettingsNext
<1>3. \A v \in Writers : writer'[v].at # "idle" => writer'[v] = writer[v]
      BY <1>w
<1>4. WrittenIsWhole' /\ OneSaveAtATime'
      BY <1>1, <1>3 DEF SettingsInv, WrittenIsWhole, Whole, OneSaveAtATime, Agrees
<1>5. OneTokenAtATime' /\ RefusedIsBehind'
      BY <1>1, <1>3 DEF SettingsInv, OneTokenAtATime, RefusedIsBehind
<1> QED BY <1>2, <1>4, <1>5 DEF SettingsInv

\* The webhook token is shown, made, or stored.
LEMMA WebhookKeeps ==
  ASSUME NEW w \in Writers, SettingsInv,
         ST!ShowWebhook(w) \/ ST!MakeWebhook(w) \/ ST!StoreWebhook(w)
  PROVE  SettingsInv'
<1>0. /\ appConfigured \in BOOLEAN /\ form \in ST!Row /\ hook \in 0..MaxTokens
      /\ filterRev \in 0..MaxRev /\ writer \in [Writers -> WriterRecord]
      /\ tokensMade \in 0..MaxTokens /\ saves \in 0..MaxSaves
      /\ promised \in ST!Row /\ shownHook \in 0..MaxTokens
      /\ savesCrossed \in BOOLEAN /\ hookCrossed \in BOOLEAN
      /\ unnumbered \in BOOLEAN /\ toldLow \in BOOLEAN
      BY SettingsTypes DEF SettingsInv
<1>r. ST!Resting \in WriterRecord /\ ST!Resting.at = "idle"
      BY RestingRecord
<1>1. CASE ST!ShowWebhook(w)
  <2>1. /\ shownHook' = hook /\ UNCHANGED <<appConfigured, form, hook, filterRev, writer, tokensMade>>
        /\ UNCHANGED <<saves, promised, savesCrossed, hookCrossed, unnumbered, toldLow>>
        BY <1>1 DEF ST!ShowWebhook
  <2>2. ST!SettingsTypeOK'
        BY <1>0, <2>1, TypesOfSettingsNext
  <2>3. WrittenIsWhole' /\ OneSaveAtATime'
        BY <2>1 DEF SettingsInv, WrittenIsWhole, Whole, OneSaveAtATime, Agrees
  <2>4. OneTokenAtATime' /\ RefusedIsBehind'
        BY <2>1 DEF SettingsInv, OneTokenAtATime, RefusedIsBehind
  <2> QED BY <2>2, <2>3, <2>4 DEF SettingsInv
<1>2. CASE ST!MakeWebhook(w)
  <2> DEFINE n == [ST!Resting EXCEPT !.at = "ensure", !.hook = tokensMade + 1]
  <2>1. /\ hook = 0 /\ tokensMade < MaxTokens /\ tokensMade' = tokensMade + 1
        /\ writer' = [writer EXCEPT ![w] = n]
        /\ hookCrossed' = (hookCrossed \/ \E v \in Writers \ {w} : writer[v].at = "ensure")
        /\ UNCHANGED <<appConfigured, form, hook, filterRev, saves, promised, shownHook>>
        /\ UNCHANGED <<savesCrossed, unnumbered, toldLow>>
        BY <1>2 DEF ST!MakeWebhook
  <2>2. tokensMade' \in 0..MaxTokens
        BY <1>0, <2>1, RequestsAssumption
  <2>3. n \in WriterRecord /\ n.at = "ensure"
        BY <1>r, <2>1, <2>2 DEF WriterRecord
  <2> HIDE DEF n
  <2>4. /\ writer' \in [Writers -> WriterRecord] /\ writer'[w].at = "ensure"
        /\ \A v \in Writers \ {w} : writer'[v] = writer[v]
        BY <1>0, <2>1, <2>3
  <2>5. hookCrossed' \in BOOLEAN
        BY <2>1
  <2>6. ST!SettingsTypeOK'
        BY <1>0, <2>1, <2>2, <2>4, <2>5, TypesOfSettingsNext
  <2>7. WrittenIsWhole' /\ OneSaveAtATime' /\ RefusedIsBehind'
        BY <2>1, <2>4
        DEF SettingsInv, WrittenIsWhole, Whole, OneSaveAtATime, Agrees, RefusedIsBehind
  <2>8. ~hookCrossed' => ~hookCrossed /\ \A v \in Writers \ {w} : writer[v].at # "ensure"
        BY <2>1, Zenon
  <2>9. OneTokenAtATime'
        BY <2>1, <2>4, <2>8 DEF SettingsInv, OneTokenAtATime
  <2> QED BY <2>6, <2>7, <2>9 DEF SettingsInv
<1>3. CASE ST!StoreWebhook(w)
  <2>1. /\ writer[w].at = "ensure" /\ hook' = writer[w].hook /\ shownHook' = writer[w].hook
        /\ writer' = [writer EXCEPT ![w] = ST!Resting]
        /\ UNCHANGED <<appConfigured, form, filterRev, tokensMade, saves, promised, savesCrossed>>
        /\ UNCHANGED <<hookCrossed, unnumbered, toldLow>>
        BY <1>3 DEF ST!StoreWebhook
  <2>2. writer[w].hook \in 0..MaxTokens
        BY <1>0 DEF WriterRecord
  <2>3. /\ writer' \in [Writers -> WriterRecord] /\ writer'[w].at = "idle"
        /\ \A v \in Writers \ {w} : writer'[v] = writer[v]
        BY <1>0, <1>r, <2>1
  <2>4. ST!SettingsTypeOK'
        BY <1>0, <2>1, <2>2, <2>3, TypesOfSettingsNext
  <2>5. WrittenIsWhole' /\ OneSaveAtATime' /\ RefusedIsBehind'
        BY <2>1, <2>3
        DEF SettingsInv, WrittenIsWhole, Whole, OneSaveAtATime, Agrees, RefusedIsBehind
  <2>6. OneTokenAtATime'
        BY <2>1, <2>3 DEF SettingsInv, OneTokenAtATime
  <2> QED BY <2>4, <2>5, <2>6 DEF SettingsInv
<1> QED BY <1>1, <1>2, <1>3

\* The filter state is stored or refused, and a refused page told its revision.
LEMMA FilterKeeps ==
  ASSUME NEW w \in Writers, SettingsInv, ST!PutFilter(w) \/ ST!TellRevision(w)
  PROVE  SettingsInv'
<1>0. /\ appConfigured \in BOOLEAN /\ form \in ST!Row /\ hook \in 0..MaxTokens
      /\ filterRev \in 0..MaxRev /\ writer \in [Writers -> WriterRecord]
      /\ tokensMade \in 0..MaxTokens /\ saves \in 0..MaxSaves
      /\ promised \in ST!Row /\ shownHook \in 0..MaxTokens
      /\ savesCrossed \in BOOLEAN /\ hookCrossed \in BOOLEAN
      /\ unnumbered \in BOOLEAN /\ toldLow \in BOOLEAN
      BY SettingsTypes DEF SettingsInv
<1>r. ST!Resting \in WriterRecord /\ ST!Resting.at = "idle"
      BY RestingRecord
<1>1. CASE ST!PutFilter(w)
  <2>0. UNCHANGED <<appConfigured, form, hook, tokensMade, saves, promised, shownHook, savesCrossed,
                    hookCrossed, toldLow>>
        BY <1>1 DEF ST!PutFilter
  <2>1. PICK rev \in 0..MaxRev :
          \/ /\ ST!Supersedes(rev) /\ filterRev' = rev
             /\ unnumbered' = (unnumbered \/ rev = ST!NoRev) /\ UNCHANGED writer
          \/ /\ ~ST!Supersedes(rev)
             /\ writer' = [writer EXCEPT ![w] = [ST!Resting EXCEPT !.at = "refused", !.rev = rev]]
             /\ UNCHANGED <<filterRev, unnumbered>>
        BY <1>1 DEF ST!PutFilter
  <2>2. CASE /\ ST!Supersedes(rev) /\ filterRev' = rev
             /\ unnumbered' = (unnumbered \/ rev = ST!NoRev) /\ UNCHANGED writer
    <3>1. unnumbered' \in BOOLEAN /\ (unnumbered => unnumbered') /\ (rev = 0 => unnumbered')
          BY <2>2, Zenon DEF ST!NoRev
    <3>2. ST!SettingsTypeOK'
          BY <1>0, <2>0, <2>2, <3>1, TypesOfSettingsNext
    <3>3. WrittenIsWhole' /\ OneSaveAtATime' /\ OneTokenAtATime'
          BY <2>0, <2>2
          DEF SettingsInv, WrittenIsWhole, Whole, OneSaveAtATime, Agrees, OneTokenAtATime
    <3>4. rev = 0 \/ filterRev = 0 \/ rev >= filterRev
          BY <2>2 DEF ST!Supersedes, ST!NoRev
    <3>5. ASSUME NEW v \in Writers, writer[v].at = "refused", ~unnumbered'
          PROVE  filterRev' > writer[v].rev
      <4>1. writer[v].rev \in 0..MaxRev /\ filterRev > writer[v].rev
            BY <1>0, <3>1, <3>5 DEF SettingsInv, RefusedIsBehind, WriterRecord
      <4> QED BY <1>0, <2>2, <3>1, <3>4, <3>5, <4>1
    <3>6. RefusedIsBehind'
          BY <2>0, <2>2, <3>1, <3>5 DEF SettingsInv, RefusedIsBehind
    <3> QED BY <3>2, <3>3, <3>6 DEF SettingsInv
  <2>3. CASE /\ ~ST!Supersedes(rev)
             /\ writer' = [writer EXCEPT ![w] = [ST!Resting EXCEPT !.at = "refused", !.rev = rev]]
             /\ UNCHANGED <<filterRev, unnumbered>>
    <3> DEFINE n == [ST!Resting EXCEPT !.at = "refused", !.rev = rev]
    <3>1. n \in WriterRecord /\ n.at = "refused" /\ n.rev = rev
          BY <1>r DEF WriterRecord
    <3>2. writer' = [writer EXCEPT ![w] = n]
          BY <2>3
    <3> HIDE DEF n
    <3>3. /\ writer' \in [Writers -> WriterRecord] /\ writer'[w] = n
          /\ \A v \in Writers \ {w} : writer'[v] = writer[v]
          BY <1>0, <3>1, <3>2
    <3>4. ST!SettingsTypeOK'
          BY <1>0, <2>0, <2>3, <3>3, TypesOfSettingsNext
    <3>5. WrittenIsWhole' /\ OneSaveAtATime' /\ OneTokenAtATime'
          BY <2>0, <3>1, <3>3
          DEF SettingsInv, WrittenIsWhole, Whole, OneSaveAtATime, Agrees, OneTokenAtATime
    <3>6. filterRev > rev
          BY <1>0, <2>3 DEF ST!Supersedes
    <3>7. RefusedIsBehind'
          BY <2>0, <2>3, <3>1, <3>3, <3>6 DEF SettingsInv, RefusedIsBehind
    <3> QED BY <3>4, <3>5, <3>7 DEF SettingsInv
  <2> QED BY <2>1, <2>2, <2>3
<1>2. CASE ST!TellRevision(w)
  <2>1. /\ writer[w].at = "refused" /\ toldLow' = (toldLow \/ filterRev <= writer[w].rev)
        /\ writer' = [writer EXCEPT ![w] = ST!Resting]
        /\ UNCHANGED <<appConfigured, form, hook, filterRev, tokensMade, saves, promised, shownHook>>
        /\ UNCHANGED <<savesCrossed, hookCrossed, unnumbered>>
        BY <1>2 DEF ST!TellRevision
  <2>2. /\ writer' \in [Writers -> WriterRecord] /\ writer'[w].at = "idle"
        /\ \A v \in Writers \ {w} : writer'[v] = writer[v]
        BY <1>0, <1>r, <2>1
  <2>3. toldLow' \in BOOLEAN
        BY <2>1
  <2>4. ST!SettingsTypeOK'
        BY <1>0, <2>1, <2>2, <2>3, TypesOfSettingsNext
  <2>5. WrittenIsWhole' /\ OneSaveAtATime' /\ OneTokenAtATime'
        BY <2>1, <2>2
        DEF SettingsInv, WrittenIsWhole, Whole, OneSaveAtATime, Agrees, OneTokenAtATime
  <2>6. writer[w].rev \in 0..MaxRev /\ (unnumbered \/ filterRev > writer[w].rev)
        BY <1>0, <2>1 DEF SettingsInv, RefusedIsBehind, WriterRecord
  <2>7. filterRev > writer[w].rev => ~(filterRev <= writer[w].rev)
        BY <1>0, <2>6
  <2>8. toldLow' => unnumbered
        BY <2>1, <2>6, <2>7, Zenon DEF SettingsInv, RefusedIsBehind
  <2>9. RefusedIsBehind'
        BY <2>1, <2>2, <2>8 DEF SettingsInv, RefusedIsBehind
  <2> QED BY <2>4, <2>5, <2>9 DEF SettingsInv
<1> QED BY <1>1, <1>2

\* Every step of a request keeps the invariant.
LEMMA SettingsStep == SettingsInv /\ ST!SettingsNext => SettingsInv'
<1> SUFFICES ASSUME SettingsInv, ST!SettingsNext PROVE SettingsInv'
    OBVIOUS
<1>1. PICK w \in Writers :
        \/ ST!PutForm(w) \/ ST!PutTheme(w) \/ ST!PutTimezone(w) \/ ST!Set(w) \/ ST!SetFails(w)
        \/ ST!ShowWebhook(w) \/ ST!MakeWebhook(w) \/ ST!StoreWebhook(w)
        \/ ST!PutFilter(w) \/ ST!TellRevision(w)
      BY DEF ST!SettingsNext
<1> QED BY <1>1, PutsKeep, SetKeeps, SetFailsKeeps, WebhookKeeps, FilterKeeps

LEMMA SettingsGoal ==
  SettingsInv => /\ ST!SettingsTypeOK /\ ST!StoredFormIsWhole
                 /\ ST!OnlyCrossedSavesAreLost /\ ST!RefusedPagesCatchUp
BY DEF SettingsInv, WrittenIsWhole, Whole, OneSaveAtATime, OneTokenAtATime, RefusedIsBehind,
       ST!StoredFormIsWhole, ST!OnlyCrossedSavesAreLost, ST!RefusedPagesCatchUp

\* MCSpec => []SettingsInv.  Requests, however many and however interleaved,
\* write to the settings row only what the validation accepted; until two saves
\* cross there is at most one on its way, and it differs from the row in its own
\* part alone (settings/store.go, api/settings.go).
THEOREM SettingsInvariant == MCSpec => []SettingsInv
<1>1. MCInit => SettingsInv
      BY SettingsInitInv DEF MCInit
<1>2. SettingsInv /\ [MCNext]_<<part, formVars, keyVars, upgradeVars, ruleVars, branchVars,
                                cacheVars, etagVars>> => SettingsInv'
  <2> SUFFICES ASSUME SettingsInv,
                      [MCNext]_<<part, formVars, keyVars, upgradeVars, ruleVars, branchVars,
                                 cacheVars, etagVars>>
               PROVE  SettingsInv'
      OBVIOUS
  <2>1. ST!SettingsNext \/ UNCHANGED formVars
        BY DEF MCNext
  <2>2. CASE UNCHANGED formVars
        BY <2>2 DEF formVars, SettingsInv, ST!SettingsTypeOK, WrittenIsWhole, Whole,
                    OneSaveAtATime, Agrees, OneTokenAtATime, RefusedIsBehind
  <2> QED BY <2>1, <2>2, SettingsStep
<1> QED BY <1>1, <1>2, PTL DEF MCSpec

\* MCSpec => []SettingsAreKept: the stored form is one the validation accepts,
\* an answered save is lost only to one that crossed it, and a refused page is
\* told a revision it can go past.
THEOREM SettingsAreKeptHolds == MCSpec => []SettingsAreKept
<1>1. SettingsInv => SettingsAreKept
      BY SettingsGoal DEF SettingsAreKept
<1> QED BY <1>1, SettingsInvariant, PTL

-----------------------------------------------------------------------------
(* Writes to a branch. *)

PullKinds == BW!Uses \cup {"other"}
MethodSets == (SUBSET BW!Methods) \ {{}}
RuleNames == {"main", "release"}

\* A write in progress, by what it has read so far.
BranchCalls ==
  {BW!Idle}
  \cup [op : {"merge", "disarm", "delete", "read"}, at : {"start"}]
  \cup [op : {"update"}, at : {"start", "wait", "again"}]
  \cup [op : {"merge"}, at : {"pull"}, methods : MethodSets]
  \cup [op : {"merge", "arm"}, at : {"rules"}, methods : MethodSets, base : RuleNames]
  \cup [op : {"merge", "arm"}, at : {"ask"}, method : BW!Methods]
  \cup [op : {"delete"}, at : {"uses", "branch", "remove"}, page : Nat \ {0}]

BranchTypes ==
  /\ client \in {"github", "forgejo"} /\ target \in RuleNames
  /\ head \in [there : BOOLEAN, protected : BOOLEAN]
  /\ listedPulls \in Seq(PullKinds) /\ Len(listedPulls) <= forgeMoves + 2
  /\ merge \in {"open", "merged", "closed"} /\ update \in {"current", "behind", "conflict"}
  /\ methods \in MethodSets /\ linear \subseteq RuleNames
  /\ call \in BranchCalls /\ result \in BW!Outcomes
  /\ forgeMoves \in 0..MaxForgeMoves

\* A call to GitHub whose reads worked, and under which no rule changed, goes by
\* the rules the forge has.
MethodIsKnown ==
  (client = "github" /\ "unread" \notin news /\ "rules" \notin news) =>
    /\ call.at = "pull" => call.methods = methods
    /\ call.at = "rules" => call.methods = methods /\ call.base = target
    /\ call.at = "ask" => call.method = BW!PickMergeMethod(methods, target \in linear)

\* Nothing the look has passed is a use of the branch, unless it came late.
Late == "arrived" \in news \/ (client = "forgejo" /\ "shifted" \in news)
LookIsHonest ==
  /\ (call.at = "uses" /\ client = "github") => call.page \in 1..2
  /\ (call.at = "uses" /\ client = "github" /\ ~Late /\ call.page > 1) =>
       \A i \in 1..Len(listedPulls) : listedPulls[i] # "from"
  /\ (call.at = "uses" /\ client = "forgejo" /\ ~Late) =>
       \A i \in 1..Len(listedPulls) : i < call.page => listedPulls[i] \notin BW!Uses
  /\ (call.at \in {"branch", "remove"} /\ ~Late) =>
       \A i \in 1..Len(listedPulls) : listedPulls[i] \notin BW!Uses

ProtectionIsNews ==
  (call.at = "remove" /\ head.protected) => "protected" \in news

\* After a write that got through, GitHub's client is at its second try, and
\* the branch is up to date.
AppliedIsCurrent ==
  ("applied" \in news /\ call # BW!Idle) =>
    client = "github" /\ call.at \in {"wait", "again"} /\ update = "current"

BranchPromises ==
  /\ BW!OnlyLateUsersLoseTheirBranch /\ BW!DeletedMeansGone
  /\ BW!OnlyUnreadRulesRefuseTheMethod /\ BW!AppliedIsNoConflict

BranchInv ==
  /\ BranchTypes /\ MethodIsKnown /\ LookIsHonest /\ ProtectionIsNews /\ AppliedIsCurrent
  /\ (call # BW!Idle => result = "")
  /\ BranchPromises

\* What a write has read, by the step it is at.
LEMMA CallShapes ==
  ASSUME call \in BranchCalls
  PROVE  /\ call.at = "idle" <=> call = BW!Idle
         /\ call = BW!Idle => call.op = "none"
         /\ call.op \in {"none", "merge", "arm", "disarm", "delete", "update", "read"}
         /\ (call.op = "update") => call \in [op : {"update"}, at : {"start", "wait", "again"}]
         /\ call.at \in {"wait", "again"} => call.op = "update"
         /\ call.at = "pull" => call \in [op : {"merge"}, at : {"pull"}, methods : MethodSets]
         /\ call.at = "rules" =>
              call \in [op : {"merge", "arm"}, at : {"rules"}, methods : MethodSets, base : RuleNames]
         /\ call.at = "ask" => call \in [op : {"merge", "arm"}, at : {"ask"}, method : BW!Methods]
         /\ call.at \in {"uses", "branch", "remove"} =>
              call \in [op : {"delete"}, at : {"uses", "branch", "remove"}, page : Nat \ {0}]
BY DEF BranchCalls, BW!Idle

\* The rules a repository may have are rules of the type.
LEMMA RuleSets ==
  /\ {{"merge"}, {"squash"}, BW!Methods} \subseteq MethodSets
  /\ \A l \in {{}, {"main"}, {"release"}} : l \subseteq RuleNames
<1>1. {"merge"} \in MethodSets
      BY DEF MethodSets, BW!Methods
<1>2. {"squash"} \in MethodSets
      BY DEF MethodSets, BW!Methods
<1>3. BW!Methods \in MethodSets
      BY DEF MethodSets, BW!Methods
<1>4. {"main"} \subseteq RuleNames /\ {"release"} \subseteq RuleNames
      BY DEF RuleNames
<1> QED BY <1>1, <1>2, <1>3, <1>4

LEMMA BranchInitInv == BW!BranchInit => BranchInv
<1> SUFFICES ASSUME BW!BranchInit PROVE BranchInv
    OBVIOUS
<1>1. listedPulls \in Seq(PullKinds) /\ Len(listedPulls) <= 2
  <2>1. "other" \in PullKinds /\ "from" \in PullKinds /\ "onto" \in PullKinds
        BY DEF PullKinds, BW!Uses
  <2>2. CASE listedPulls = <<>>
        BY <2>2
  <2>3. CASE listedPulls = <<"other", "from">>
        BY <2>1, <2>3
  <2>4. CASE listedPulls = <<"other", "onto">>
        BY <2>1, <2>4
  <2> QED BY <2>2, <2>3, <2>4 DEF BW!BranchInit
<1>2. 0 \in 0..MaxForgeMoves
      BY RequestsAssumption
<1>3. methods \in MethodSets /\ linear \subseteq RuleNames
  <2>1. methods \in {{"merge"}, {"squash"}, BW!Methods}
        BY DEF BW!BranchInit
  <2>2. linear \in {{}, {"main"}, {"release"}}
        BY DEF BW!BranchInit
  <2> QED BY <2>1, <2>2, RuleSets
<1>4. call = BW!Idle /\ call \in BranchCalls /\ call.at = "idle"
      BY DEF BW!BranchInit, BranchCalls, BW!Idle
<1>5. BranchTypes
  <2>1. /\ head \in [there : BOOLEAN, protected : BOOLEAN] /\ result \in BW!Outcomes
        /\ client \in {"github", "forgejo"} /\ target \in RuleNames /\ forgeMoves = 0
        /\ merge \in {"open", "merged", "closed"} /\ update \in {"current", "behind", "conflict"}
        BY DEF BW!BranchInit, BW!Outcomes, RuleNames
  <2> QED BY <1>1, <1>2, <1>3, <1>4, <2>1 DEF BranchTypes
<1>6. MethodIsKnown /\ LookIsHonest /\ ProtectionIsNews /\ AppliedIsCurrent
      BY <1>4 DEF MethodIsKnown, LookIsHonest, ProtectionIsNews, AppliedIsCurrent
<1>7. BranchPromises
      BY DEF BranchPromises, BW!BranchInit, BW!OnlyLateUsersLoseTheirBranch, BW!DeletedMeansGone,
             BW!OnlyUnreadRulesRefuseTheMethod, BW!AppliedIsNoConflict
<1> QED BY <1>4, <1>5, <1>6, <1>7 DEF BranchInv

\* A write that begins keeps the invariant: nothing has happened during it.
LEMMA BeginningKeeps ==
  ASSUME BranchTypes', news' = {}, result' = "", call'.at \in {"start", "idle"}
  PROVE  BranchInv'
<1>1. MethodIsKnown' /\ LookIsHonest' /\ ProtectionIsNews' /\ AppliedIsCurrent'
      BY DEF MethodIsKnown, LookIsHonest, ProtectionIsNews, AppliedIsCurrent
<1>2. BranchPromises'
      BY DEF BranchPromises, BW!OnlyLateUsersLoseTheirBranch, BW!DeletedMeansGone,
             BW!OnlyUnreadRulesRefuseTheMethod, BW!AppliedIsNoConflict
<1> QED BY <1>1, <1>2 DEF BranchInv

\* So does one that ends and claims nothing.
LEMMA EndingKeeps ==
  ASSUME BranchInv, BranchTypes', call' = BW!Idle, news' = news, client' = client,
         result' \notin {"deleted", "method refused", "conflict"}
  PROVE  BranchInv'
<1>1. call'.at = "idle"
      BY DEF BW!Idle
<1>2. MethodIsKnown' /\ LookIsHonest' /\ ProtectionIsNews' /\ AppliedIsCurrent'
      BY <1>1 DEF MethodIsKnown, LookIsHonest, ProtectionIsNews, AppliedIsCurrent
<1>3. BranchPromises'
      BY DEF BranchInv, BranchPromises, BW!OnlyLateUsersLoseTheirBranch, BW!DeletedMeansGone,
             BW!OnlyUnreadRulesRefuseTheMethod, BW!AppliedIsNoConflict
<1> QED BY <1>2, <1>3 DEF BranchInv

\* And a step of one that has said nothing yet, when what it has read is honest.
LEMMA GoingOnKeeps ==
  ASSUME BranchInv, BranchTypes', news' = news, client' = client, call # BW!Idle, result' = result,
         call' # BW!Idle, update' = update,
         call'.at \in {"wait", "again"} <=> call.at \in {"wait", "again"},
         MethodIsKnown', LookIsHonest', ProtectionIsNews'
  PROVE  BranchInv'
<1>1. AppliedIsCurrent'
      BY DEF BranchInv, AppliedIsCurrent
<1>2. result' = ""
      BY DEF BranchInv
<1>3. BranchPromises'
      BY <1>2 DEF BranchInv, BranchPromises, BW!OnlyLateUsersLoseTheirBranch, BW!DeletedMeansGone,
             BW!OnlyUnreadRulesRefuseTheMethod, BW!AppliedIsNoConflict
<1> QED BY <1>1, <1>2, <1>3 DEF BranchInv

\* Most steps leave the repository as it is.
LEMMA TypesOfBranchNext ==
  ASSUME BranchTypes, call' \in BranchCalls, result' \in BW!Outcomes,
         UNCHANGED <<client, target, head, listedPulls, methods, linear, forgeMoves>>,
         merge' \in {"open", "merged", "closed"}, update' \in {"current", "behind", "conflict"}
  PROVE  BranchTypes'
BY DEF BranchTypes

LEMMA OutcomesOfCalls ==
  /\ \A o \in {"", "ok", "accepted", "error", "conflict", "unavailable", "method refused", "deleted",
               "failed", "skipped: fork", "skipped: default", "skipped: in use",
               "skipped: protected", "reads: merged", "reads: closed", "reads: conflict",
               "reads: behind", "reads: clean", "reads: unmergeable"} : o \in BW!Outcomes
  /\ BW!Idle \in BranchCalls /\ BW!Idle.at = "idle"
BY DEF BW!Outcomes, BranchCalls, BW!Idle

\* forgeErrorKind of the answers the model enumerates.
LEMMA KindsOfAnswers ==
  /\ BW!KindOf(403) = "error" /\ BW!KindOf(404) = "error" /\ BW!KindOf(429) = "error"
  /\ BW!KindOf(405) = "conflict" /\ BW!KindOf(409) = "conflict" /\ BW!KindOf(422) = "conflict"
  /\ BW!KindOf(500) = "unavailable" /\ BW!KindOf(BW!NoStatus) = "unavailable"
  /\ BW!ForgeFailed(500) /\ ~BW!ForgeFailed(403) /\ ~BW!ForgeFailed(404) /\ ~BW!ForgeFailed(429)
  /\ ~BW!ForgeFailed(BW!NoStatus)
BY DEF BW!KindOf, BW!NoStatus, BW!ForgeFailed

LEMMA OtherAnswers ==
  \A status \in {403, 404, 429, 500, BW!NoStatus} : BW!KindOf(status) \in {"error", "unavailable"}
BY DEF BW!KindOf, BW!NoStatus

\* A method the rules as they are do not take is picked only where none is.
LEMMA PickedIsTaken ==
  ASSUME methods \in MethodSets,
         ~BW!TakesMethod(BW!PickMergeMethod(methods, target \in linear))
  PROVE  ~\E m \in BW!Methods : BW!TakesMethod(m)
<1> DEFINE picked == BW!PickMergeMethod(methods, target \in linear)
<1>1. methods \subseteq {"merge", "squash", "rebase"} /\ methods # {}
      BY DEF MethodSets, BW!Methods
<1>2. CASE "merge" \in methods /\ (target \notin linear \/ methods = {"merge"})
  <2>1. picked = "merge"
        BY <1>2 DEF BW!PickMergeMethod
  <2> QED BY <1>2, <2>1 DEF BW!TakesMethod, BW!Methods
<1>3. CASE ~("merge" \in methods /\ (target \notin linear \/ methods = {"merge"}))
  <2>1. "squash" \in methods \/ "rebase" \in methods
        BY <1>1, <1>3
  <2>2. picked \in methods /\ picked # "merge"
        BY <1>3, <2>1 DEF BW!PickMergeMethod
  <2> QED BY <2>2 DEF BW!TakesMethod
<1> QED BY <1>2, <1>3

\* PickMergeMethod names a method.
LEMMA PickedIsAMethod ==
  ASSUME NEW allowed, NEW strict
  PROVE  BW!PickMergeMethod(allowed, strict) \in BW!Methods
BY DEF BW!PickMergeMethod, BW!Methods

\* The starts of a write.
LEMMA StartsKeep ==
  BranchInv /\ (BW!StartMerge \/ BW!StartDelete \/ BW!StartUpdate \/ BW!StartRead) => BranchInv'
<1> SUFFICES ASSUME BranchInv, BW!StartMerge \/ BW!StartDelete \/ BW!StartUpdate \/ BW!StartRead
             PROVE  BranchInv'
    OBVIOUS
<1>1. /\ UNCHANGED <<client, target, head, listedPulls, merge, update, methods, linear, forgeMoves>>
      /\ news' = {} /\ result' = ""
      BY DEF BW!StartMerge, BW!StartDelete, BW!StartUpdate, BW!StartRead, BW!Starts,
             BW!repoRules, BW!repoState
<1>2. PICK op \in {"merge", "delete", "update", "read"} : call' = [op |-> op, at |-> "start"]
      BY DEF BW!StartMerge, BW!StartDelete, BW!StartUpdate, BW!StartRead, BW!Starts
<1>3. call' \in BranchCalls /\ call'.at = "start"
      BY <1>2 DEF BranchCalls
<1>4. BranchTypes'
      BY <1>1, <1>3, OutcomesOfCalls DEF BranchInv, BranchTypes
<1> QED BY <1>1, <1>3, <1>4, BeginningKeeps

\* The reads of a merge: its method is picked from what it read.
LEMMA MergeReadsKeep ==
  BranchInv /\ (BW!MergeReadsRepo \/ BW!MergeReadsPull \/ BW!MergeReadsRules) => BranchInv'
<1> SUFFICES ASSUME BranchInv, BW!MergeReadsRepo \/ BW!MergeReadsPull \/ BW!MergeReadsRules
             PROVE  BranchInv'
    OBVIOUS
<1>0. /\ BranchTypes /\ call \in BranchCalls /\ methods \in MethodSets /\ target \in RuleNames
      /\ linear \subseteq RuleNames /\ client \in {"github", "forgejo"} /\ result \in BW!Outcomes
      BY DEF BranchInv, BranchTypes
<1>1. CASE BW!MergeReadsRepo
  <2>0. /\ UNCHANGED <<client, target, head, listedPulls, merge, update, methods, linear, forgeMoves>>
        /\ news' = news /\ call.at = "start" /\ call.op = "merge"
        BY <1>1 DEF BW!MergeReadsRepo, BW!repoRules, BW!repoState, BW!At
  <2>1. CASE BW!Ends("error")
    <3>1. call' = BW!Idle /\ result' = "error"
          BY <2>1 DEF BW!Ends
    <3>2. BranchTypes'
          BY <1>0, <2>0, <3>1, OutcomesOfCalls, TypesOfBranchNext DEF BranchTypes
    <3> QED BY <2>0, <3>1, <3>2, EndingKeeps
  <2>2. CASE /\ client = "github" /\ UNCHANGED result
             /\ call' = [op |-> "merge", at |-> "pull", methods |-> methods]
    <3>1. /\ call' \in BranchCalls /\ call'.at = "pull" /\ call'.methods = methods
          /\ call # BW!Idle /\ call' # BW!Idle
          BY <1>0, <2>0, <2>2 DEF BranchCalls, BW!Idle
    <3>2. BranchTypes'
          BY <1>0, <2>0, <2>2, <3>1, TypesOfBranchNext DEF BranchTypes
    <3>3. MethodIsKnown' /\ LookIsHonest' /\ ProtectionIsNews'
          BY <2>0, <3>1 DEF MethodIsKnown, LookIsHonest, ProtectionIsNews
    <3> QED BY <2>0, <2>2, <3>1, <3>2, <3>3, GoingOnKeeps
  <2>3. CASE /\ client = "forgejo" /\ UNCHANGED result
             /\ \E style \in methods : call' = [op |-> "merge", at |-> "ask", method |-> style]
    <3>1. PICK style \in methods : call' = [op |-> "merge", at |-> "ask", method |-> style]
          BY <2>3
    <3>2. style \in BW!Methods
          BY <1>0, <3>1 DEF MethodSets
    <3>3. call' \in BranchCalls /\ call'.at = "ask" /\ call # BW!Idle /\ call' # BW!Idle
          BY <1>0, <2>0, <3>1, <3>2 DEF BranchCalls, BW!Idle
    <3>4. BranchTypes'
          BY <1>0, <2>0, <2>3, <3>3, TypesOfBranchNext DEF BranchTypes
    <3>5. MethodIsKnown' /\ LookIsHonest' /\ ProtectionIsNews'
          BY <2>0, <2>3, <3>3 DEF MethodIsKnown, LookIsHonest, ProtectionIsNews
    <3> QED BY <2>0, <2>3, <3>3, <3>4, <3>5, GoingOnKeeps
  <2> QED BY <1>1, <2>1, <2>2, <2>3 DEF BW!MergeReadsRepo
<1>2. CASE BW!MergeReadsPull
  <2>0. /\ UNCHANGED <<client, target, head, listedPulls, merge, update, methods, linear, forgeMoves>>
        /\ result' = result /\ call.at = "pull"
        BY <1>2 DEF BW!MergeReadsPull, BW!repoRules, BW!repoState, BW!At
  <2>1. PICK pr \in {target, "unread"} :
          /\ call' = [op |-> "merge", at |-> "rules", methods |-> call.methods,
                      base |-> BW!RuleBranch(pr)]
          /\ news' = IF pr = "unread" THEN news \cup {"unread"} ELSE news
        BY <1>2 DEF BW!MergeReadsPull
  <2>2. call.methods \in MethodSets /\ call # BW!Idle
        BY <1>0, <2>0, CallShapes DEF BW!Idle
  <2>3. BW!RuleBranch(pr) \in RuleNames /\ (pr # "unread" => BW!RuleBranch(pr) = target)
        BY <1>0, <2>1 DEF BW!RuleBranch, RuleNames
  <2>4. /\ call' \in BranchCalls /\ call'.at = "rules" /\ call'.methods = call.methods
        /\ call'.base = BW!RuleBranch(pr) /\ call' # BW!Idle
        BY <2>1, <2>2, <2>3 DEF BranchCalls, BW!Idle
  <2>5. BranchTypes'
        BY <1>0, <2>0, <2>4, TypesOfBranchNext DEF BranchTypes
  <2>6. MethodIsKnown'
        BY <2>0, <2>1, <2>3, <2>4 DEF BranchInv, MethodIsKnown
  <2>7. LookIsHonest' /\ ProtectionIsNews'
        BY <2>4 DEF LookIsHonest, ProtectionIsNews
  <2>8. CASE pr # "unread"
        BY <2>0, <2>1, <2>2, <2>4, <2>5, <2>6, <2>7, <2>8, GoingOnKeeps
  <2>9. CASE pr = "unread"
    <3>1. news' = news \cup {"unread"} /\ result' = ""
          BY <2>0, <2>1, <2>2, <2>9 DEF BranchInv
    <3>2. AppliedIsCurrent'
          BY <2>0, <2>2, <3>1 DEF BranchInv, AppliedIsCurrent
    <3>3. BranchPromises'
          BY <2>0, <3>1 DEF BranchInv, BranchPromises, BW!OnlyLateUsersLoseTheirBranch,
             BW!DeletedMeansGone, BW!OnlyUnreadRulesRefuseTheMethod, BW!AppliedIsNoConflict
    <3> QED BY <2>5, <2>6, <2>7, <3>1, <3>2, <3>3 DEF BranchInv
  <2> QED BY <2>8, <2>9
<1>3. CASE BW!MergeReadsRules
  <2>0. /\ UNCHANGED <<client, target, head, listedPulls, merge, update, methods, linear, forgeMoves>>
        /\ result' = result /\ call.at = "rules"
        BY <1>3 DEF BW!MergeReadsRules, BW!repoRules, BW!repoState, BW!At
  <2>1. PICK required \in {call.base \in linear, FALSE} :
          /\ call' = [op |-> call.op, at |-> "ask",
                      method |-> BW!PickMergeMethod(call.methods, required)]
          /\ news' = IF required # (call.base \in linear) THEN news \cup {"unread"} ELSE news
        BY <1>3 DEF BW!MergeReadsRules
  <2>2. call.op \in {"merge", "arm"} /\ call # BW!Idle
        BY <1>0, <2>0, CallShapes DEF BW!Idle
  <2>4. BW!PickMergeMethod(call.methods, required) \in BW!Methods
        BY PickedIsAMethod
  <2>5. /\ call' \in BranchCalls /\ call'.at = "ask" /\ call' # BW!Idle
        /\ call'.method = BW!PickMergeMethod(call.methods, required)
        BY <2>1, <2>2, <2>4 DEF BranchCalls, BW!Idle
  <2>6. BranchTypes'
        BY <1>0, <2>0, <2>5, TypesOfBranchNext DEF BranchTypes
  <2>7. LookIsHonest' /\ ProtectionIsNews'
        BY <2>5 DEF LookIsHonest, ProtectionIsNews
  <2>8. CASE required = (call.base \in linear)
    <3>1. news' = news
          BY <2>1, <2>8
    <3>2. MethodIsKnown'
      <4> SUFFICES ASSUME client = "github", "unread" \notin news, "rules" \notin news
                   PROVE  call'.method = BW!PickMergeMethod(methods, target \in linear)
          BY <2>0, <2>5, <3>1 DEF MethodIsKnown
      <4>1. call.methods = methods /\ call.base = target
            BY <2>0 DEF BranchInv, MethodIsKnown
      <4>2. required = (target \in linear)
            BY <2>8, <4>1
      <4> QED BY <2>5, <4>1, <4>2
    <3> QED BY <2>0, <2>2, <2>5, <2>6, <2>7, <3>1, <3>2, GoingOnKeeps
  <2>9. CASE required # (call.base \in linear)
    <3>1. news' = news \cup {"unread"} /\ result' = ""
          BY <2>0, <2>1, <2>2, <2>9 DEF BranchInv
    <3>2. AppliedIsCurrent' /\ MethodIsKnown'
          BY <2>0, <2>2, <3>1 DEF BranchInv, AppliedIsCurrent, MethodIsKnown
    <3>3. BranchPromises'
          BY <2>0, <3>1 DEF BranchInv, BranchPromises, BW!OnlyLateUsersLoseTheirBranch,
             BW!DeletedMeansGone, BW!OnlyUnreadRulesRefuseTheMethod, BW!AppliedIsNoConflict
    <3> QED BY <2>6, <2>7, <3>1, <3>2, <3>3 DEF BranchInv
  <2> QED BY <2>8, <2>9
<1> QED BY <1>1, <1>2, <1>3

\* The merge itself, arming and disarming: a refusal of the method is claimed
\* only where no method is taken, or a read failed.
LEMMA MergesKeep ==
  BranchInv /\ (BW!MergeAsks \/ BW!AutoMergeLookup \/ BW!EnableAutoMerge \/ BW!DisableAutoMerge)
    => BranchInv'
<1> SUFFICES ASSUME BranchInv,
                    BW!MergeAsks \/ BW!AutoMergeLookup \/ BW!EnableAutoMerge \/ BW!DisableAutoMerge
             PROVE  BranchInv'
    OBVIOUS
<1>0. /\ BranchTypes /\ call \in BranchCalls /\ methods \in MethodSets /\ target \in RuleNames
      /\ merge \in {"open", "merged", "closed"} /\ update \in {"current", "behind", "conflict"}
      BY DEF BranchInv, BranchTypes
\* An end, with whatever the promises need.
<1>e. ASSUME UNCHANGED <<client, target, head, listedPulls, update, methods, linear, forgeMoves, news>>,
             call' = BW!Idle, result' \in BW!Outcomes, merge' \in {"open", "merged", "closed"},
             result' = "deleted" => FALSE,
             result' = "conflict" => "applied" \notin news,
             (result' = "method refused" /\ client = "github") =>
               \/ "unread" \in news \/ "rules" \in news
               \/ ~\E m \in BW!Methods : BW!TakesMethod(m)
      PROVE  BranchInv'
  <2>1. BranchTypes'
        BY <1>0, <1>e, OutcomesOfCalls, TypesOfBranchNext
  <2>2. MethodIsKnown' /\ LookIsHonest' /\ ProtectionIsNews' /\ AppliedIsCurrent'
        BY <1>e, OutcomesOfCalls DEF MethodIsKnown, LookIsHonest, ProtectionIsNews, AppliedIsCurrent
  <2>3. BW!OnlyLateUsersLoseTheirBranch' /\ BW!DeletedMeansGone' /\ BW!AppliedIsNoConflict'
        BY <1>e DEF BranchInv, BranchPromises, BW!OnlyLateUsersLoseTheirBranch,
                    BW!DeletedMeansGone, BW!AppliedIsNoConflict
  <2>4. BW!OnlyUnreadRulesRefuseTheMethod'
        BY <1>e DEF BW!OnlyUnreadRulesRefuseTheMethod, BW!TakesMethod
  <2> QED BY <1>e, <2>1, <2>2, <2>3, <2>4 DEF BranchInv, BranchPromises
\* The method asked for is refused.
<1>m. ASSUME call.at = "ask", client = "github", ~BW!TakesMethod(call.method)
      PROVE  \/ "unread" \in news \/ "rules" \in news
             \/ ~\E m \in BW!Methods : BW!TakesMethod(m)
  <2>1. CASE "unread" \notin news /\ "rules" \notin news
    <3>1. call.method = BW!PickMergeMethod(methods, target \in linear)
          BY <1>m, <2>1 DEF BranchInv, MethodIsKnown
    <3> QED BY <1>0, <1>m, <3>1, PickedIsTaken
  <2> QED BY <2>1
<1>1. CASE BW!MergeAsks
  <2>0. /\ UNCHANGED <<client, target, head, listedPulls, update, methods, linear, forgeMoves, news>>
        /\ call.at = "ask" /\ call # BW!Idle
    <3>1. UNCHANGED <<client, target, head, listedPulls, update, methods, linear, forgeMoves, news>>
          BY <1>1 DEF BW!MergeAsks, BW!repoRules
    <3>2. call.at = "ask"
          BY <1>1 DEF BW!MergeAsks, BW!At
    <3> QED BY <3>1, <3>2, OutcomesOfCalls
  <2>1. "applied" \notin news
        BY <2>0 DEF BranchInv, AppliedIsCurrent
  <2>2. /\ call' = BW!Idle /\ merge' \in {"open", "merged", "closed"}
        /\ \/ result' \in {"ok", "unavailable", "conflict", "error"}
           \/ result' = "method refused" /\ ~BW!TakesMethod(call.method)
    <3>1. CASE \E status \in {403, 404, 429, 500} : BW!Ends(BW!KindOf(status)) /\ UNCHANGED merge
      <4>1. PICK status \in {403, 404, 429, 500} : BW!Ends(BW!KindOf(status)) /\ UNCHANGED merge
            BY <3>1
      <4>2. call' = BW!Idle /\ result' = BW!KindOf(status) /\ merge' = merge
            BY <4>1 DEF BW!Ends
      <4>3. BW!KindOf(status) \in {"error", "unavailable"}
            BY <4>1, OtherAnswers
      <4> QED BY <1>0, <4>2, <4>3
    <3>2. CASE merge' = "merged" /\ (BW!Ends("ok") \/ BW!Ends("unavailable"))
          BY <3>2 DEF BW!Ends
    <3>3. CASE ~BW!TakesMethod(call.method) /\ BW!Ends("method refused") /\ UNCHANGED merge
          BY <1>0, <3>3 DEF BW!Ends
    <3>4. CASE BW!Ends(BW!KindOf(405)) /\ UNCHANGED merge
      <4>1. call' = BW!Idle /\ result' = "conflict" /\ merge' = merge
            BY <3>4, KindsOfAnswers DEF BW!Ends
      <4> QED BY <1>0, <4>1
    <3> QED BY <1>1, <3>1, <3>2, <3>3, <3>4, ZenonT(30) DEF BW!MergeAsks
  <2>3. result' \in BW!Outcomes
        BY <2>2, OutcomesOfCalls
  <2> QED BY <1>e, <1>m, <2>0, <2>1, <2>2, <2>3
<1>2. CASE BW!AutoMergeLookup
  <2>0. /\ UNCHANGED <<client, target, head, listedPulls, merge, update, methods, linear, forgeMoves>>
        /\ news' = {}
        BY <1>2 DEF BW!AutoMergeLookup, BW!repoRules, BW!repoState
  <2>1. CASE BW!Ends("error")
    <3>1. call' = BW!Idle /\ result' = "error"
          BY <2>1 DEF BW!Ends
    <3>2. BranchTypes'
          BY <1>0, <2>0, <3>1, OutcomesOfCalls, TypesOfBranchNext
    <3>3. MethodIsKnown' /\ LookIsHonest' /\ ProtectionIsNews' /\ AppliedIsCurrent'
          BY <3>1, OutcomesOfCalls DEF MethodIsKnown, LookIsHonest, ProtectionIsNews, AppliedIsCurrent
    <3>4. BranchPromises'
          BY <2>0, <3>1 DEF BranchPromises, BW!OnlyLateUsersLoseTheirBranch,
             BW!DeletedMeansGone, BW!OnlyUnreadRulesRefuseTheMethod, BW!AppliedIsNoConflict
    <3> QED BY <3>1, <3>2, <3>3, <3>4 DEF BranchInv
  <2>2. CASE /\ call' = [op |-> "arm", at |-> "rules", methods |-> methods, base |-> target]
             /\ result' = ""
    <3>1. /\ call' \in BranchCalls /\ call'.at = "rules" /\ call'.methods = methods
          /\ call'.base = target
          BY <1>0, <2>2 DEF BranchCalls
    <3>2. BranchTypes'
          BY <1>0, <2>0, <2>2, <3>1, OutcomesOfCalls, TypesOfBranchNext
    <3>3. MethodIsKnown' /\ LookIsHonest' /\ ProtectionIsNews' /\ AppliedIsCurrent'
          BY <2>0, <3>1 DEF MethodIsKnown, LookIsHonest, ProtectionIsNews, AppliedIsCurrent
    <3>4. BranchPromises'
          BY <2>0, <2>2 DEF BranchPromises, BW!OnlyLateUsersLoseTheirBranch,
             BW!DeletedMeansGone, BW!OnlyUnreadRulesRefuseTheMethod, BW!AppliedIsNoConflict
    <3> QED BY <2>2, <3>2, <3>3, <3>4 DEF BranchInv
  <2> QED BY <1>2, <2>1, <2>2 DEF BW!AutoMergeLookup
<1>3. CASE BW!EnableAutoMerge
  <2>0. /\ UNCHANGED <<client, target, head, listedPulls, merge, update, methods, linear, forgeMoves,
                       news>>
        /\ call.at = "ask"
        BY <1>3 DEF BW!EnableAutoMerge, BW!repoRules, BW!At
  <2>1. /\ call' = BW!Idle
        /\ \/ result' \in {"ok", "unavailable", "error"}
           \/ result' = "method refused" /\ ~BW!TakesMethod(call.method)
        BY <1>3 DEF BW!EnableAutoMerge, BW!Ends
  <2>2. result' \in BW!Outcomes
        BY <2>1, OutcomesOfCalls
  <2> QED BY <1>0, <1>e, <1>m, <2>0, <2>1, <2>2
<1>4. CASE BW!DisableAutoMerge
  <2>1. CASE native /\ BW!Starts("disarm") /\ UNCHANGED <<BW!repoRules, BW!repoState, forgeMoves>>
    <3>1. /\ UNCHANGED <<client, target, head, listedPulls, merge, update, methods, linear, forgeMoves>>
          /\ news' = {} /\ result' = "" /\ call' = [op |-> "disarm", at |-> "start"]
          BY <2>1 DEF BW!Starts, BW!repoRules, BW!repoState
    <3>2. call' \in BranchCalls /\ call'.at = "start"
          BY <3>1 DEF BranchCalls
    <3>3. BranchTypes'
          BY <1>0, <3>1, <3>2, OutcomesOfCalls, TypesOfBranchNext
    <3> QED BY <3>1, <3>2, <3>3, BeginningKeeps
  <2>2. CASE ~(native /\ BW!Starts("disarm") /\ UNCHANGED <<BW!repoRules, BW!repoState, forgeMoves>>)
    <3>1. /\ UNCHANGED <<client, target, head, listedPulls, merge, update, methods, linear, forgeMoves,
                         news>>
          /\ call' = BW!Idle /\ result' \in {"ok", "unavailable", "error"}
          BY <1>4, <2>2 DEF BW!DisableAutoMerge, BW!repoRules, BW!Ends
    <3>2. result' \in BW!Outcomes
          BY <3>1, OutcomesOfCalls
    <3> QED BY <1>0, <1>e, <3>1, <3>2
  <2> QED BY <2>1, <2>2
<1> QED BY <1>1, <1>2, <1>3, <1>4

\* The look before a deletion.
LEMMA LooksKeep ==
  BranchInv /\ (BW!BranchToDelete \/ BW!BranchUseSkip \/ BW!ReadBranch) => BranchInv'
<1> SUFFICES ASSUME BranchInv, BW!BranchToDelete \/ BW!BranchUseSkip \/ BW!ReadBranch
             PROVE  BranchInv'
    OBVIOUS
<1>0. /\ BranchTypes /\ call \in BranchCalls /\ client \in {"github", "forgejo"}
      /\ listedPulls \in Seq(PullKinds) /\ result \in BW!Outcomes
      /\ head \in [there : BOOLEAN, protected : BOOLEAN]
      /\ merge \in {"open", "merged", "closed"} /\ update \in {"current", "behind", "conflict"}
      BY DEF BranchInv, BranchTypes
<1>1. /\ UNCHANGED <<client, target, head, listedPulls, merge, update, methods, linear, forgeMoves, news>>
      /\ call.op = "delete" /\ call.at \in {"start", "uses", "branch"}
      BY DEF BW!BranchToDelete, BW!BranchUseSkip, BW!ReadBranch, BW!repoRules, BW!repoState, BW!At
<1>2. call # BW!Idle
      BY <1>1, OutcomesOfCalls
<1>e. ASSUME NEW o \in {"failed", "skipped: fork", "skipped: default", "skipped: in use",
                        "skipped: protected"},
             BW!Ends(o)
      PROVE  BranchInv'
  <2>1. call' = BW!Idle /\ result' = o
        BY <1>e DEF BW!Ends
  <2>2. BranchTypes'
        BY <1>0, <1>1, <2>1, OutcomesOfCalls, TypesOfBranchNext
  <2> QED BY <1>1, <2>1, <2>2, EndingKeeps
<1>g. ASSUME call' \in [op : {"delete"}, at : {"uses", "branch", "remove"}, page : Nat \ {0}],
             result' = result, LookIsHonest', ProtectionIsNews'
      PROVE  BranchInv'
  <2>1. call' \in BranchCalls /\ call'.at \in {"uses", "branch", "remove"} /\ call' # BW!Idle
        BY <1>g DEF BranchCalls, BW!Idle
  <2>2. BranchTypes'
        BY <1>0, <1>1, <1>g, <2>1, TypesOfBranchNext
  <2>3. MethodIsKnown'
        BY <2>1 DEF MethodIsKnown
  <2> QED BY <1>1, <1>2, <1>g, <2>1, <2>2, <2>3, GoingOnKeeps
<1>3. CASE BW!BranchToDelete
  <2>1. CASE call' = [op |-> "delete", at |-> "uses", page |-> 1] /\ UNCHANGED result
    <3>1. /\ call' \in [op : {"delete"}, at : {"uses", "branch", "remove"}, page : Nat \ {0}]
          /\ call'.at = "uses" /\ call'.page = 1
          BY <2>1
    <3>2. LookIsHonest' /\ ProtectionIsNews'
          BY <3>1 DEF LookIsHonest, ProtectionIsNews
    <3> QED BY <1>g, <2>1, <3>1, <3>2
  <2>2. CASE BW!Ends("failed") \/ BW!Ends("skipped: fork") \/ BW!Ends("skipped: default")
        BY <1>e, <2>2
  <2> QED BY <1>3, <2>1, <2>2 DEF BW!BranchToDelete
<1>4. CASE BW!BranchUseSkip
  <2>0. call.at = "uses" /\ call \in [op : {"delete"}, at : {"uses", "branch", "remove"}, page : Nat \ {0}]
        BY <1>0, <1>4, CallShapes DEF BW!BranchUseSkip, BW!At
  <2>f. Len(BW!Filters) = 2 /\ BW!Filters[1] = "from" /\ BW!Filters[2] = "onto"
        BY DEF BW!Filters
  <2>1. CASE BW!Ends("failed") \/ BW!Ends("skipped: in use")
        BY <1>e, <2>1
  <2>2. CASE /\ client = "github" /\ ~BW!Contains(listedPulls, BW!Filters[call.page])
             /\ IF call.page < Len(BW!Filters)
                THEN call' = [call EXCEPT !.page = @ + 1] /\ UNCHANGED result ELSE BW!Goes("branch")
    <3>0. \A i \in 1..Len(listedPulls) : listedPulls[i] # BW!Filters[call.page]
          BY <2>2 DEF BW!Contains
    <3>1. CASE call.page = 1
      <4>1. call' = [call EXCEPT !.page = @ + 1] /\ result' = result
            BY <2>2, <2>f, <3>1
      <4>2. /\ call' \in [op : {"delete"}, at : {"uses", "branch", "remove"}, page : Nat \ {0}]
            /\ call'.at = "uses" /\ call'.page = 2
            BY <2>0, <3>1, <4>1
      <4>3. \A i \in 1..Len(listedPulls) : listedPulls[i] # "from"
            BY <2>f, <3>0, <3>1
      <4>4. LookIsHonest' /\ ProtectionIsNews'
            BY <1>1, <2>2, <4>2, <4>3 DEF LookIsHonest, ProtectionIsNews
      <4> QED BY <1>g, <4>1, <4>2, <4>4
    <3>2. CASE call.page = 2
      <4>1. call' = [call EXCEPT !.at = "branch"] /\ result' = result
            BY <2>2, <2>f, <3>2 DEF BW!Goes
      <4>2. /\ call' \in [op : {"delete"}, at : {"uses", "branch", "remove"}, page : Nat \ {0}]
            /\ call'.at = "branch"
            BY <2>0, <4>1
      <4>3. ~Late => \A i \in 1..Len(listedPulls) : listedPulls[i] # "from"
        <5>1. call.page > 1
              BY <3>2
        <5> QED BY <2>0, <2>2, <5>1 DEF BranchInv, LookIsHonest
      <4>4. ~Late => \A i \in 1..Len(listedPulls) : listedPulls[i] \notin BW!Uses
            BY <2>f, <3>0, <3>2, <4>3 DEF BW!Uses
      <4>5. LookIsHonest' /\ ProtectionIsNews'
            BY <1>1, <4>2, <4>4 DEF LookIsHonest, ProtectionIsNews, Late
      <4> QED BY <1>g, <4>1, <4>2, <4>5
    <3>3. call.page \in 1..2
          BY <2>0, <2>2 DEF BranchInv, LookIsHonest
    <3> QED BY <3>1, <3>2, <3>3
  <2>3. CASE /\ client = "forgejo" /\ call.page <= Len(listedPulls)
             /\ listedPulls[call.page] \notin BW!Uses
             /\ call' = [call EXCEPT !.page = @ + 1] /\ UNCHANGED result
    <3>1. /\ call' \in [op : {"delete"}, at : {"uses", "branch", "remove"}, page : Nat \ {0}]
          /\ call'.at = "uses" /\ call'.page = call.page + 1 /\ call.page \in Nat
          BY <2>0, <2>3
    <3>2. ~Late => \A i \in 1..Len(listedPulls) : i < call.page + 1 => listedPulls[i] \notin BW!Uses
      <4> SUFFICES ASSUME ~Late, NEW i \in 1..Len(listedPulls), i < call.page + 1
                   PROVE  listedPulls[i] \notin BW!Uses
          OBVIOUS
      <4>1. i < call.page => listedPulls[i] \notin BW!Uses
            BY <2>0, <2>3 DEF BranchInv, LookIsHonest
      <4>2. i < call.page \/ i = call.page
            BY <3>1
      <4> QED BY <2>3, <4>1, <4>2
    <3>3. LookIsHonest' /\ ProtectionIsNews'
          BY <1>1, <2>3, <3>1, <3>2 DEF LookIsHonest, ProtectionIsNews, Late
    <3> QED BY <1>g, <2>3, <3>1, <3>3
  <2>4. CASE client = "forgejo" /\ call.page > Len(listedPulls) /\ BW!Goes("branch")
    <3>1. call' = [call EXCEPT !.at = "branch"] /\ result' = result
          BY <2>4 DEF BW!Goes
    <3>2. /\ call' \in [op : {"delete"}, at : {"uses", "branch", "remove"}, page : Nat \ {0}]
          /\ call'.at = "branch" /\ call.page \in Nat
          BY <2>0, <3>1
    <3>3. \A i \in 1..Len(listedPulls) : i < call.page
          BY <1>0, <2>4, <3>2
    <3>4. ~Late => \A i \in 1..Len(listedPulls) : listedPulls[i] \notin BW!Uses
          BY <2>0, <2>4, <3>3 DEF BranchInv, LookIsHonest
    <3>5. LookIsHonest' /\ ProtectionIsNews'
          BY <1>1, <3>2, <3>4 DEF LookIsHonest, ProtectionIsNews, Late
    <3> QED BY <1>g, <3>1, <3>2, <3>5
  <2> QED BY <1>4, <2>1, <2>2, <2>3, <2>4 DEF BW!BranchUseSkip
<1>5. CASE BW!ReadBranch
  <2>0. call.at = "branch" /\ call \in [op : {"delete"}, at : {"uses", "branch", "remove"}, page : Nat \ {0}]
        BY <1>0, <1>5, CallShapes DEF BW!ReadBranch, BW!At
  <2>1. CASE BW!Ends("failed") \/ BW!Ends("skipped: protected")
        BY <1>e, <2>1
  <2>2. CASE ~head.there /\ BW!Ends("deleted")
    <3>1. call' = BW!Idle /\ result' = "deleted"
          BY <2>2 DEF BW!Ends
    <3>2. BranchTypes'
          BY <1>0, <1>1, <3>1, OutcomesOfCalls, TypesOfBranchNext
    <3>3. MethodIsKnown' /\ LookIsHonest' /\ ProtectionIsNews' /\ AppliedIsCurrent'
          BY <3>1, OutcomesOfCalls DEF MethodIsKnown, LookIsHonest, ProtectionIsNews, AppliedIsCurrent
    <3>4. BranchPromises'
          BY <1>1, <2>2, <3>1 DEF BranchInv, BranchPromises, BW!OnlyLateUsersLoseTheirBranch,
             BW!DeletedMeansGone, BW!OnlyUnreadRulesRefuseTheMethod, BW!AppliedIsNoConflict
    <3> QED BY <3>1, <3>2, <3>3, <3>4 DEF BranchInv
  <2>3. CASE head.there /\ ~head.protected /\ BW!Goes("remove")
    <3>1. call' = [call EXCEPT !.at = "remove"] /\ result' = result
          BY <2>3 DEF BW!Goes
    <3>2. /\ call' \in [op : {"delete"}, at : {"uses", "branch", "remove"}, page : Nat \ {0}]
          /\ call'.at = "remove"
          BY <2>0, <3>1
    <3>3. LookIsHonest' /\ ProtectionIsNews'
          BY <1>1, <2>0, <2>3, <3>2 DEF BranchInv, LookIsHonest, ProtectionIsNews, Late
    <3> QED BY <1>g, <3>1, <3>2, <3>3
  <2> QED BY <1>5, <2>1, <2>2, <2>3 DEF BW!ReadBranch
<1> QED BY <1>3, <1>4, <1>5

\* The deletion: "deleted" is said of what is gone, or was protected meanwhile.
LEMMA RemoveKeeps == BranchInv /\ BW!RemoveBranch => BranchInv'
<1> SUFFICES ASSUME BranchInv, BW!RemoveBranch PROVE BranchInv'
    OBVIOUS
<1>0. /\ BranchTypes /\ client \in {"github", "forgejo"} /\ listedPulls \in Seq(PullKinds)
      /\ head \in [there : BOOLEAN, protected : BOOLEAN]
      BY DEF BranchInv, BranchTypes
<1>1. /\ UNCHANGED <<client, target, listedPulls, merge, update, methods, linear, forgeMoves>>
      /\ call.at = "remove"
      BY DEF BW!RemoveBranch, BW!repoRules, BW!At
<1>2. call # BW!Idle
      BY <1>1, OutcomesOfCalls
<1>e. ASSUME call' = BW!Idle, result' \in {"deleted", "failed"},
             head' \in [there : BOOLEAN, protected : BOOLEAN],
             BW!OnlyLateUsersLoseTheirBranch', BW!DeletedMeansGone'
      PROVE  BranchInv'
  <2>0. result' \in BW!Outcomes
        BY <1>e, OutcomesOfCalls
  <2>1. BranchTypes'
        BY <1>0, <1>1, <1>e, <2>0, OutcomesOfCalls DEF BranchTypes
  <2>2. MethodIsKnown' /\ LookIsHonest' /\ ProtectionIsNews' /\ AppliedIsCurrent'
        BY <1>e, OutcomesOfCalls DEF MethodIsKnown, LookIsHonest, ProtectionIsNews, AppliedIsCurrent
  <2>3. BW!OnlyUnreadRulesRefuseTheMethod' /\ BW!AppliedIsNoConflict'
        BY <1>e DEF BW!OnlyUnreadRulesRefuseTheMethod, BW!AppliedIsNoConflict
  <2> QED BY <1>e, <2>1, <2>2, <2>3 DEF BranchInv, BranchPromises
<1>3. CASE /\ head' = [head EXCEPT !.there = FALSE]
           /\ news' = IF \E i \in DOMAIN listedPulls : listedPulls[i] \in BW!Uses
                      THEN news \cup {"harmed"} ELSE news
           /\ BW!Ends("deleted") \/ BW!Ends("failed")
  <2>1. call' = BW!Idle /\ result' \in {"deleted", "failed"}
        BY <1>3 DEF BW!Ends
  <2>2. head' \in [there : BOOLEAN, protected : BOOLEAN] /\ head'.there = FALSE
        BY <1>0, <1>3
  <2>3. BW!DeletedMeansGone'
        BY <2>2 DEF BW!DeletedMeansGone
  <2>4. BW!OnlyLateUsersLoseTheirBranch'
    <3>1. CASE \E i \in DOMAIN listedPulls : listedPulls[i] \in BW!Uses
      <4>1. \E i \in 1..Len(listedPulls) : listedPulls[i] \in BW!Uses
            BY <1>0, <3>1
      <4>2. Late
            BY <1>1, <4>1 DEF BranchInv, LookIsHonest
      <4>3. news \subseteq news'
            BY <1>3
      <4> QED BY <1>1, <4>2, <4>3 DEF Late, BW!OnlyLateUsersLoseTheirBranch
    <3>2. CASE ~\E i \in DOMAIN listedPulls : listedPulls[i] \in BW!Uses
      <4>1. news' = news
            BY <1>3, <3>2
      <4> QED BY <1>1, <4>1 DEF BranchInv, BranchPromises, BW!OnlyLateUsersLoseTheirBranch
    <3> QED BY <3>1, <3>2
  <2> QED BY <1>e, <2>1, <2>2, <2>3, <2>4
<1>4. CASE \E status \in (IF ~head.there THEN {404} ELSE IF head.protected THEN {403, 422} ELSE {})
                         \cup {403, 500} :
             /\ BW!Ends(IF BW!AlreadyGone(status) THEN "deleted" ELSE "failed")
             /\ UNCHANGED <<head, news>>
  <2>1. PICK status \in (IF ~head.there THEN {404} ELSE IF head.protected THEN {403, 422} ELSE {})
                        \cup {403, 500} :
             /\ BW!Ends(IF BW!AlreadyGone(status) THEN "deleted" ELSE "failed")
             /\ UNCHANGED <<head, news>>
        BY <1>4
  <2>2. /\ call' = BW!Idle /\ result' = (IF BW!AlreadyGone(status) THEN "deleted" ELSE "failed")
        /\ head' = head /\ news' = news
        BY <2>1 DEF BW!Ends
  <2>3. BW!AlreadyGone(status) => ~head.there \/ head.protected
        BY <2>1 DEF BW!AlreadyGone
  <2>4. BW!DeletedMeansGone'
        BY <1>1, <2>2, <2>3 DEF BranchInv, ProtectionIsNews, BW!DeletedMeansGone
  <2>5. BW!OnlyLateUsersLoseTheirBranch'
        BY <1>1, <2>2 DEF BranchInv, BranchPromises, BW!OnlyLateUsersLoseTheirBranch
  <2> QED BY <1>0, <1>e, <2>2, <2>4, <2>5
<1> QED BY <1>3, <1>4 DEF BW!RemoveBranch

\* The update of a branch and its one retry.
LEMMA UpdatesKeep ==
  BranchInv /\ (BW!UpdateBranchOnce \/ BW!RetryWait) => BranchInv'
<1> SUFFICES ASSUME BranchInv, BW!UpdateBranchOnce \/ BW!RetryWait PROVE BranchInv'
    OBVIOUS
<1>0. /\ BranchTypes /\ client \in {"github", "forgejo"} /\ call \in BranchCalls
      /\ merge \in {"open", "merged", "closed"} /\ update \in {"current", "behind", "conflict"}
      /\ result \in BW!Outcomes
      BY DEF BranchInv, BranchTypes
<1>1. /\ UNCHANGED <<client, target, head, listedPulls, merge, methods, linear, forgeMoves>>
      /\ call.op = "update"
      BY DEF BW!UpdateBranchOnce, BW!RetryWait, BW!repoRules, BW!repoState, BW!At
<1>2. /\ call \in [op : {"update"}, at : {"start", "wait", "again"}] /\ call # BW!Idle
      /\ result = ""
      BY <1>0, <1>1, CallShapes DEF BranchInv, BW!Idle
<1>3. "applied" \in news => client = "github" /\ call.at # "start" /\ update = "current"
      BY <1>2 DEF BranchInv, AppliedIsCurrent
\* An end: a conflict is told only when nothing was applied.
<1>e. ASSUME NEW o \in {"ok", "accepted", "error", "unavailable", "conflict"}, BW!Ends(o),
             update' \in {"current", "behind", "conflict"},
             news' \in {news, news \cup {"applied"}},
             o = "conflict" => "applied" \notin news'
      PROVE  BranchInv'
  <2>0. call' = BW!Idle /\ result' = o /\ result' \in BW!Outcomes
        BY <1>e, OutcomesOfCalls DEF BW!Ends
  <2>1. BranchTypes'
        BY <1>0, <1>1, <1>e, <2>0, OutcomesOfCalls, TypesOfBranchNext
  <2>2. MethodIsKnown' /\ LookIsHonest' /\ ProtectionIsNews' /\ AppliedIsCurrent'
        BY <2>0, OutcomesOfCalls DEF MethodIsKnown, LookIsHonest, ProtectionIsNews, AppliedIsCurrent
  <2>3. BranchPromises'
        BY <1>1, <1>e, <2>0 DEF BranchInv, BranchPromises, BW!OnlyLateUsersLoseTheirBranch,
             BW!DeletedMeansGone, BW!OnlyUnreadRulesRefuseTheMethod, BW!AppliedIsNoConflict
  <2> QED BY <2>0, <2>1, <2>2, <2>3 DEF BranchInv
\* On to the wait or the second try.
<1>g. ASSUME NEW step \in {"wait", "again"}, BW!Goes(step), news' \in {news, news \cup {"applied"}},
             update' \in {"current", "behind", "conflict"},
             "applied" \in news' => client = "github" /\ update' = "current"
      PROVE  BranchInv'
  <2>0. call' = [call EXCEPT !.at = step] /\ result' = result
        BY <1>g DEF BW!Goes
  <2>1. /\ call' \in [op : {"update"}, at : {"start", "wait", "again"}]
        /\ call'.at = step /\ step \in {"wait", "again"}
        BY <1>2, <1>g, <2>0
  <2>2. call' \in BranchCalls /\ result' \in BW!Outcomes
        BY <1>0, <2>0, <2>1 DEF BranchCalls
  <2>3. BranchTypes'
        BY <1>0, <1>1, <1>g, <2>2, TypesOfBranchNext
  <2>4. MethodIsKnown' /\ LookIsHonest' /\ ProtectionIsNews' /\ AppliedIsCurrent'
        BY <1>1, <1>g, <2>1 DEF MethodIsKnown, LookIsHonest, ProtectionIsNews, AppliedIsCurrent
  <2>5. BranchPromises'
        BY <1>1, <1>2, <1>g, <2>0 DEF BranchInv, BranchPromises, BW!OnlyLateUsersLoseTheirBranch,
             BW!DeletedMeansGone, BW!OnlyUnreadRulesRefuseTheMethod, BW!AppliedIsNoConflict
  <2> QED BY <1>2, <2>0, <2>3, <2>4, <2>5 DEF BranchInv
\* A try that failed: GitHub's own failure is tried once more.
<1>f. ASSUME NEW status \in {403, 404, 429, 500, BW!NoStatus}, BW!Fails(status),
             news' \in {news, news \cup {"applied"}}, update' \in {"current", "behind", "conflict"},
             "applied" \in news' => update' = "current"
      PROVE  BranchInv'
  <2>1. CASE client = "github" /\ BW!Goes("wait")
        BY <1>f, <1>g, <2>1
  <2>2. CASE BW!Ends(BW!KindOf(status))
    <3>1. BW!KindOf(status) \in {"error", "unavailable"}
          BY OtherAnswers
    <3> QED BY <1>e, <1>f, <2>2, <3>1
  <2> QED BY <1>f, <2>1, <2>2 DEF BW!Fails
<1>4. CASE BW!UpdateBranchOnce
  <2>1. CASE /\ update = "behind" /\ update' = "current" /\ news' = news \cup {"applied"}
             /\ BW!Ends("ok") \/ BW!Ends("accepted") \/ BW!Fails(500) \/ BW!Fails(BW!NoStatus)
        BY <1>e, <1>f, <2>1
  <2>2. CASE /\ update = "current" /\ UNCHANGED <<update, news>>
             /\ IF client = "github" THEN BW!Ends(BW!UpToDateAlready(call.at)) ELSE BW!Ends("ok")
    <3>1. CASE client = "github" /\ call.at = "again"
      <4>1. BW!Ends("ok")
            BY <2>2, <3>1 DEF BW!UpToDateAlready
      <4> QED BY <1>0, <1>e, <2>2, <4>1
    <3>2. CASE client = "github" /\ call.at = "start"
      <4>1. BW!Ends("conflict") /\ "applied" \notin news
            BY <1>3, <2>2, <3>2 DEF BW!UpToDateAlready
      <4> QED BY <1>0, <1>e, <2>2, <4>1
    <3>3. CASE client # "github"
          BY <1>0, <1>e, <2>2, <3>3
    <3>4. call.at \in {"start", "again"}
          BY <1>4 DEF BW!UpdateBranchOnce, BW!At
    <3> QED BY <3>1, <3>2, <3>3, <3>4
  <2>3. CASE /\ update = "conflict" /\ UNCHANGED <<update, news>>
             /\ BW!Ends(BW!KindOf(IF client = "github" THEN 422 ELSE 409))
    <3>1. BW!KindOf(IF client = "github" THEN 422 ELSE 409) = "conflict"
          BY KindsOfAnswers
    <3> QED BY <1>0, <1>3, <1>e, <2>3, <3>1
  <2>4. CASE \E status \in {403, 404, 429, 500, BW!NoStatus} :
               BW!Fails(status) /\ UNCHANGED <<update, news>>
    <3>1. PICK status \in {403, 404, 429, 500, BW!NoStatus} :
               BW!Fails(status) /\ UNCHANGED <<update, news>>
          BY <2>4
    <3> QED BY <1>0, <1>3, <1>f, <3>1
  <2> QED BY <1>4, <2>1, <2>2, <2>3, <2>4 DEF BW!UpdateBranchOnce
<1>5. CASE BW!RetryWait
  <2>1. update' = update /\ news' = news
        BY <1>5 DEF BW!RetryWait, BW!repoState
  <2>2. CASE BW!Goes("again")
        BY <1>0, <1>3, <1>g, <2>1, <2>2
  <2>3. CASE BW!Ends("unavailable")
        BY <1>0, <1>e, <2>1, <2>3
  <2> QED BY <1>5, <2>2, <2>3 DEF BW!RetryWait
<1> QED BY <1>4, <1>5

\* What RemoveAt leaves is what was there, one less.
LEMMA RemoveAtKeepsElements ==
  ASSUME NEW s \in Seq(PullKinds), NEW i \in DOMAIN s
  PROVE  /\ BW!RemoveAt(s, i) \in Seq(PullKinds) /\ Len(BW!RemoveAt(s, i)) = Len(s) - 1
         /\ \A k \in 1..Len(BW!RemoveAt(s, i)) : \E j \in 1..Len(s) : BW!RemoveAt(s, i)[k] = s[j]
<1> DEFINE front == SubSeq(s, 1, i - 1)
           back == SubSeq(s, i + 1, Len(s))
<1>0. i \in 1..Len(s) /\ Len(s) \in Nat
      OBVIOUS
<1>1. /\ front \in Seq(PullKinds) /\ Len(front) = i - 1
      /\ \A k \in 1..(i - 1) : front[k] = s[k]
      BY <1>0
<1>2. /\ back \in Seq(PullKinds) /\ Len(back) = Len(s) - i
      /\ \A k \in 1..(Len(s) - i) : back[k] = s[i + k]
      BY <1>0
<1>3. BW!RemoveAt(s, i) = front \o back
      BY DEF BW!RemoveAt
<1> HIDE DEF front, back
<1>4. front \o back \in Seq(PullKinds) /\ Len(front \o back) = Len(s) - 1
      BY <1>0, <1>1, <1>2
<1>5. ASSUME NEW k \in 1..(Len(s) - 1)
      PROVE  \E j \in 1..Len(s) : (front \o back)[k] = s[j]
  <2>1. CASE k <= i - 1
    <3>1. (front \o back)[k] = s[k]
          BY <1>0, <1>1, <1>2, <2>1
    <3>2. k \in 1..Len(s)
          BY <1>0
    <3> QED BY <3>1, <3>2
  <2>2. CASE ~(k <= i - 1)
    <3>1. (front \o back)[k] = back[k - (i - 1)]
          BY <1>0, <1>1, <1>2, <2>2
    <3>2. k - (i - 1) \in 1..(Len(s) - i) /\ i + (k - (i - 1)) = k + 1
          BY <1>0, <2>2
    <3>3. back[k - (i - 1)] = s[k + 1]
          BY <1>2, <3>2
    <3>4. k + 1 \in 1..Len(s)
          BY <1>0
    <3> QED BY <3>1, <3>3, <3>4
  <2> QED BY <2>1, <2>2
<1> QED BY <1>3, <1>4, <1>5

\* Reading a pull request, closing and reopening it.
LEMMA ReadsKeep ==
  BranchInv /\ (BW!ReadPullRequestState \/ BW!ClosePullRequest \/ BW!ReopenPullRequest) => BranchInv'
<1> SUFFICES ASSUME BranchInv,
                    BW!ReadPullRequestState \/ BW!ClosePullRequest \/ BW!ReopenPullRequest
             PROVE  BranchInv'
    OBVIOUS
<1>0. /\ BranchTypes /\ merge \in {"open", "merged", "closed"}
      /\ update \in {"current", "behind", "conflict"} /\ forgeMoves \in 0..MaxForgeMoves
      BY DEF BranchInv, BranchTypes
<1>1. CASE BW!ReadPullRequestState
  <2>1. /\ UNCHANGED <<client, target, head, listedPulls, merge, update, methods, linear, forgeMoves>>
        /\ news' = news
        BY <1>1 DEF BW!ReadPullRequestState, BW!repoRules, BW!repoState
  <2>2. BW!StateWord \subseteq {"reads: merged", "reads: closed", "reads: unmergeable", "reads: clean",
                                "reads: conflict", "reads: behind"}
        BY DEF BW!StateWord
  <2>3. /\ call' = BW!Idle
        /\ result' \in {"error", "reads: merged", "reads: closed", "reads: unmergeable", "reads: clean",
                        "reads: conflict", "reads: behind"}
        BY <1>1, <2>2 DEF BW!ReadPullRequestState, BW!Ends
  <2>4. result' \in BW!Outcomes
        BY <2>3, OutcomesOfCalls
  <2>5. BranchTypes'
        BY <1>0, <2>1, <2>3, <2>4, OutcomesOfCalls, TypesOfBranchNext
  <2> QED BY <2>1, <2>3, <2>5, EndingKeeps
<1>2. CASE BW!ClosePullRequest \/ BW!ReopenPullRequest
  <2>1. /\ UNCHANGED <<client, target, head, listedPulls, update, methods, linear, call>>
        /\ call = BW!Idle /\ news' = {} /\ forgeMoves < MaxForgeMoves /\ forgeMoves' = forgeMoves + 1
        BY <1>2 DEF BW!ClosePullRequest, BW!ReopenPullRequest, BW!SetState, BW!repoRules
  <2>2. /\ merge' \in {"open", "merged", "closed"} /\ result' \in {"ok", "unavailable", "error"}
        BY <1>2 DEF BW!ClosePullRequest, BW!ReopenPullRequest, BW!SetState
  <2>3. forgeMoves' \in 0..MaxForgeMoves
        BY <1>0, <2>1, RequestsAssumption
  <2>o. result' \in BW!Outcomes
        BY <2>2, OutcomesOfCalls
  <2>4. Len(listedPulls') <= forgeMoves' + 2
        BY <1>0, <2>1 DEF BranchTypes
  <2>5. BranchTypes'
        BY <1>0, <2>1, <2>2, <2>3, <2>4, <2>o DEF BranchTypes
  <2>6. call' = BW!Idle /\ call'.at = "idle"
        BY <2>1, OutcomesOfCalls
  <2>7. MethodIsKnown' /\ LookIsHonest' /\ ProtectionIsNews' /\ AppliedIsCurrent'
        BY <2>6 DEF MethodIsKnown, LookIsHonest, ProtectionIsNews, AppliedIsCurrent
  <2>8. BranchPromises'
        BY <2>1, <2>2 DEF BranchPromises, BW!OnlyLateUsersLoseTheirBranch,
             BW!DeletedMeansGone, BW!OnlyUnreadRulesRefuseTheMethod, BW!AppliedIsNoConflict
  <2> QED BY <2>5, <2>6, <2>7, <2>8 DEF BranchInv
<1> QED BY <1>1, <1>2

\* Others go on while a write is in progress.
LEMMA ForgeMovesKeep == BranchInv /\ BW!ForgeMove => BranchInv'
<1> SUFFICES ASSUME BranchInv, BW!ForgeMove PROVE BranchInv'
    OBVIOUS
<1>0. /\ BranchTypes /\ forgeMoves \in 0..MaxForgeMoves /\ listedPulls \in Seq(PullKinds)
      /\ head \in [there : BOOLEAN, protected : BOOLEAN] /\ Len(listedPulls) <= forgeMoves + 2
      BY DEF BranchInv, BranchTypes
<1>1. /\ UNCHANGED <<client, target, merge, call, result>>
      /\ forgeMoves < MaxForgeMoves /\ forgeMoves' = forgeMoves + 1
      BY DEF BW!ForgeMove, BW!repoRules
<1>2. forgeMoves' \in 0..MaxForgeMoves /\ Len(listedPulls) + 1 <= forgeMoves' + 2
      BY <1>0, <1>1, RequestsAssumption
<1>3. CASE BW!PullsMove /\ head.there /\ UNCHANGED <<head, update, methods, linear>>
  <2>1. CASE \E p \in BW!Uses : listedPulls' = <<p>> \o listedPulls /\ news' = news \cup {"arrived"}
    <3>1. PICK p \in BW!Uses : listedPulls' = <<p>> \o listedPulls /\ news' = news \cup {"arrived"}
          BY <2>1
    <3>2. p \in PullKinds
          BY DEF PullKinds
    <3>3. listedPulls' \in Seq(PullKinds) /\ Len(listedPulls') = Len(listedPulls) + 1
          BY <1>0, <3>1, <3>2
    <3>4. BranchTypes'
          BY <1>0, <1>1, <1>2, <1>3, <3>3 DEF BranchTypes
    <3>5. Late'
          BY <3>1 DEF Late
    <3>6. LookIsHonest'
          BY <1>1, <3>5 DEF BranchInv, LookIsHonest
    <3>7. MethodIsKnown' /\ ProtectionIsNews' /\ AppliedIsCurrent'
          BY <1>1, <1>3, <3>1 DEF BranchInv, MethodIsKnown, ProtectionIsNews, AppliedIsCurrent
    <3>8. BranchPromises'
          BY <1>1, <1>3, <3>1 DEF BranchInv, BranchPromises, BW!OnlyLateUsersLoseTheirBranch,
             BW!DeletedMeansGone, BW!OnlyUnreadRulesRefuseTheMethod, BW!AppliedIsNoConflict,
             BW!TakesMethod
    <3> QED BY <1>1, <3>4, <3>6, <3>7, <3>8 DEF BranchInv
  <2>2. CASE \E i \in DOMAIN listedPulls : /\ listedPulls' = BW!RemoveAt(listedPulls, i)
                                           /\ news' = news \cup {"shifted"}
    <3>1. PICK i \in DOMAIN listedPulls : /\ listedPulls' = BW!RemoveAt(listedPulls, i)
                                          /\ news' = news \cup {"shifted"}
          BY <2>2
    <3>2. /\ listedPulls' \in Seq(PullKinds) /\ Len(listedPulls') = Len(listedPulls) - 1
          /\ \A k \in 1..Len(listedPulls') : \E j \in 1..Len(listedPulls) : listedPulls'[k] = listedPulls[j]
          BY <1>0, <3>1, RemoveAtKeepsElements
    <3>3. Len(listedPulls') <= forgeMoves' + 2
          BY <1>0, <1>1, <3>2
    <3>4. BranchTypes'
          BY <1>0, <1>1, <1>2, <1>3, <3>2, <3>3 DEF BranchTypes
    <3>5. LookIsHonest'
      <4>1. client = "forgejo" => Late'
            BY <1>1, <3>1 DEF Late
      <4>2. Late => Late'
            BY <1>1, <3>1 DEF Late
      <4>3. client = "github" \/ client = "forgejo"
            BY <1>0 DEF BranchTypes
      <4>4. ASSUME client = "github", ~Late', call.at = "uses", call.page > 1
            PROVE  \A k \in 1..Len(listedPulls') : listedPulls'[k] # "from"
            BY <3>2, <4>2, <4>4 DEF BranchInv, LookIsHonest
      <4>5. ASSUME ~Late', call.at \in {"branch", "remove"}
            PROVE  \A k \in 1..Len(listedPulls') : listedPulls'[k] \notin BW!Uses
            BY <3>2, <4>2, <4>5 DEF BranchInv, LookIsHonest
      <4> QED BY <1>1, <4>1, <4>3, <4>4, <4>5 DEF BranchInv, LookIsHonest
    <3>7. MethodIsKnown' /\ ProtectionIsNews' /\ AppliedIsCurrent'
          BY <1>1, <1>3, <3>1 DEF BranchInv, MethodIsKnown, ProtectionIsNews, AppliedIsCurrent
    <3>8. BranchPromises'
          BY <1>1, <1>3, <3>1 DEF BranchInv, BranchPromises, BW!OnlyLateUsersLoseTheirBranch,
             BW!DeletedMeansGone, BW!OnlyUnreadRulesRefuseTheMethod, BW!AppliedIsNoConflict,
             BW!TakesMethod
    <3> QED BY <1>1, <3>4, <3>5, <3>7, <3>8 DEF BranchInv
  <2> QED BY <1>3, <2>1, <2>2 DEF BW!PullsMove
\* The other moves leave the list of pull requests alone.
<1>l. Len(listedPulls) <= forgeMoves' + 2
      BY <1>0, <1>1
<1>4. CASE /\ head.there
           /\ \E h \in {[there |-> FALSE, protected |-> FALSE], [there |-> TRUE, protected |-> TRUE]} :
                head' = h
           /\ news' = news \cup {"protected"} /\ UNCHANGED <<listedPulls, update, methods, linear>>
  <2>1. head' \in [there : BOOLEAN, protected : BOOLEAN]
    <3>1. CASE head' = [there |-> FALSE, protected |-> FALSE]
          BY <3>1
    <3>2. CASE head' = [there |-> TRUE, protected |-> TRUE]
          BY <3>2
    <3> QED BY <1>4, <3>1, <3>2
  <2>2. BranchTypes'
        BY <1>0, <1>1, <1>2, <1>4, <1>l, <2>1 DEF BranchTypes
  <2>3. LookIsHonest'
        BY <1>1, <1>4 DEF BranchInv, LookIsHonest, Late
  <2>4. MethodIsKnown' /\ ProtectionIsNews' /\ AppliedIsCurrent'
        BY <1>1, <1>4 DEF BranchInv, MethodIsKnown, ProtectionIsNews, AppliedIsCurrent
  <2>5. BranchPromises'
        BY <1>1, <1>4 DEF BranchInv, BranchPromises, BW!OnlyLateUsersLoseTheirBranch,
           BW!DeletedMeansGone, BW!OnlyUnreadRulesRefuseTheMethod, BW!AppliedIsNoConflict,
           BW!TakesMethod
  <2> QED BY <1>1, <2>2, <2>3, <2>4, <2>5 DEF BranchInv
<1>5. CASE /\ update = "behind" /\ update' = "current" /\ news' = news \cup {"others"}
           /\ UNCHANGED <<head, listedPulls, methods, linear>>
  <2>2. BranchTypes'
        BY <1>0, <1>1, <1>2, <1>5, <1>l DEF BranchTypes
  <2>3. LookIsHonest'
        BY <1>1, <1>5 DEF BranchInv, LookIsHonest, Late
  <2>4. MethodIsKnown' /\ ProtectionIsNews' /\ AppliedIsCurrent'
        BY <1>1, <1>5 DEF BranchInv, MethodIsKnown, ProtectionIsNews, AppliedIsCurrent
  <2>5. BranchPromises'
        BY <1>1, <1>5 DEF BranchInv, BranchPromises, BW!OnlyLateUsersLoseTheirBranch,
           BW!DeletedMeansGone, BW!OnlyUnreadRulesRefuseTheMethod, BW!AppliedIsNoConflict,
           BW!TakesMethod
  <2> QED BY <1>1, <2>2, <2>3, <2>4, <2>5 DEF BranchInv
<1>6. CASE /\ update' \in {"behind", "conflict"} /\ news' = news \ {"applied"}
           /\ UNCHANGED <<head, listedPulls, methods, linear>>
  <2>2. BranchTypes'
        BY <1>0, <1>1, <1>2, <1>6, <1>l DEF BranchTypes
  <2>3. LookIsHonest'
        BY <1>1, <1>6 DEF BranchInv, LookIsHonest, Late
  <2>4. MethodIsKnown' /\ ProtectionIsNews' /\ AppliedIsCurrent'
        BY <1>1, <1>6 DEF BranchInv, MethodIsKnown, ProtectionIsNews, AppliedIsCurrent
  <2>5. BranchPromises'
        BY <1>1, <1>6 DEF BranchInv, BranchPromises, BW!OnlyLateUsersLoseTheirBranch,
           BW!DeletedMeansGone, BW!OnlyUnreadRulesRefuseTheMethod, BW!AppliedIsNoConflict,
           BW!TakesMethod
  <2> QED BY <1>1, <2>2, <2>3, <2>4, <2>5 DEF BranchInv
<1>7. CASE /\ methods' \in {{"merge"}, {"squash"}, BW!Methods}
           /\ linear' \in {{}, {"main"}, {"release"}}
           /\ news' = news \cup {"rules"} /\ UNCHANGED <<head, listedPulls, update>>
  <2>1. methods' \in MethodSets /\ linear' \subseteq RuleNames
        BY <1>7, RuleSets
  <2>2. BranchTypes'
        BY <1>0, <1>1, <1>2, <1>7, <1>l, <2>1 DEF BranchTypes
  <2>3. LookIsHonest'
        BY <1>1, <1>7 DEF BranchInv, LookIsHonest, Late
  <2>4. MethodIsKnown' /\ ProtectionIsNews' /\ AppliedIsCurrent'
        BY <1>1, <1>7 DEF BranchInv, MethodIsKnown, ProtectionIsNews, AppliedIsCurrent
  <2>5. BranchPromises'
        BY <1>1, <1>7 DEF BranchInv, BranchPromises, BW!OnlyLateUsersLoseTheirBranch,
           BW!DeletedMeansGone, BW!OnlyUnreadRulesRefuseTheMethod, BW!AppliedIsNoConflict
  <2> QED BY <1>1, <2>2, <2>3, <2>4, <2>5 DEF BranchInv
<1> QED BY <1>3, <1>4, <1>5, <1>6, <1>7 DEF BW!ForgeMove

\* MCSpec => []BranchInv.  Whatever others do between a client's calls: the
\* look before a deletion passed no use of the branch but a late one, the merge
\* method comes from the rules as they are unless a read failed or they changed,
\* and an update that got through leaves the client at its second try, up to date.
THEOREM BranchInvariant == MCSpec => []BranchInv
<1>1. MCInit => BranchInv
      BY BranchInitInv DEF MCInit
<1>2. BranchInv /\ [MCNext]_<<part, formVars, keyVars, upgradeVars, ruleVars, branchVars,
                              cacheVars, etagVars>> => BranchInv'
  <2> SUFFICES ASSUME BranchInv,
                      [MCNext]_<<part, formVars, keyVars, upgradeVars, ruleVars, branchVars,
                                 cacheVars, etagVars>>
               PROVE  BranchInv'
      OBVIOUS
  <2>1. BW!BranchNext \/ UNCHANGED branchVars
        BY DEF MCNext
  <2>2. CASE UNCHANGED branchVars
    <3>1. UNCHANGED <<client, head, listedPulls, merge, update, target, methods, linear, call, result,
                      forgeMoves, news>>
          BY <2>2 DEF branchVars
    <3>2. BranchTypes'
          BY <3>1 DEF BranchInv, BranchTypes
    <3>3. MethodIsKnown' /\ ProtectionIsNews' /\ AppliedIsCurrent'
          BY <3>1 DEF BranchInv, MethodIsKnown, ProtectionIsNews, AppliedIsCurrent
    <3>4. LookIsHonest'
          BY <3>1 DEF BranchInv, LookIsHonest, Late
    <3>5. BranchPromises'
          BY <3>1 DEF BranchInv, BranchPromises, BW!OnlyLateUsersLoseTheirBranch,
             BW!DeletedMeansGone, BW!OnlyUnreadRulesRefuseTheMethod, BW!AppliedIsNoConflict,
             BW!TakesMethod
    <3> QED BY <3>1, <3>2, <3>3, <3>4, <3>5 DEF BranchInv
  <2>3. CASE BW!BranchNext
        BY <2>3, StartsKeep, MergeReadsKeep, MergesKeep, LooksKeep, RemoveKeeps, UpdatesKeep,
           ReadsKeep, ForgeMovesKeep DEF BW!BranchNext
  <2> QED BY <2>1, <2>2, <2>3
<1> QED BY <1>1, <1>2, PTL DEF MCSpec

\* MCSpec => []BranchesAreSafe: no branch is deleted under a pull request that
\* was there when the client looked, "deleted" means gone, a method is refused
\* only for rules that could not be read, and an applied update is no conflict.
THEOREM BranchesAreSafeHolds == MCSpec => []BranchesAreSafe
<1>1. BranchInv => BranchesAreSafe
  <2> SUFFICES ASSUME BranchInv PROVE BranchesAreSafe
      OBVIOUS
  <2>1. BW!BranchTypeOK
    <3>1. call.op \in {"none", "merge", "arm", "disarm", "delete", "update", "read"}
          BY CallShapes DEF BranchInv, BranchTypes
    <3>0. /\ listedPulls \in Seq(PullKinds) /\ Len(listedPulls) <= forgeMoves + 2
          /\ forgeMoves \in 0..MaxForgeMoves
          BY DEF BranchInv, BranchTypes
    <3>2. Len(listedPulls) <= MaxForgeMoves + 2
          BY <3>0, RequestsAssumption
    <3> QED BY <3>1, <3>2 DEF BranchInv, BranchTypes, BW!BranchTypeOK, PullKinds, MethodSets, RuleNames
  <2> QED BY <2>1 DEF BranchInv, BranchPromises, BranchesAreSafe
<1> QED BY <1>1, BranchInvariant, PTL

-----------------------------------------------------------------------------
(* The saved snapshot. *)

SaveRecord == [at : {"idle", "diff", "write", "remember"}, rows : SC!Rows, changed : SUBSET Repos]
BoardRecord == [rows : SC!Rows, reachable : BOOLEAN]

\* While saves have not crossed and the table was read: one publisher saves at a
\* time; what it believes is stored is stored, except between write and remember;
\* what it has not marked as changed is stored already; and what it saves is the board.
OnePublisher ==
  \A p, q \in Publishers : (saving[p].at # "idle" /\ saving[q].at # "idle") => p = q
BelievedIsStored ==
  (\A p \in Publishers : saving[p].at # "remember") => believed = savedRows
SavesAreExact ==
  \A p \in Publishers :
    /\ saving[p].at = "write" =>
         \A r \in Repos : r \notin saving[p].changed => saving[p].rows[r] = savedRows[r]
    /\ saving[p].at = "remember" => savedRows = saving[p].rows
    /\ (saving[p].at # "idle" /\ shown.reachable) => saving[p].rows = shown.rows
TableIsTheBoard ==
  (shown.reachable /\ \A p \in Publishers : saving[p].at = "idle")
    => savedRows = shown.rows \/ lagging

SnapshotInv ==
  /\ SC!CacheTypeOK
  /\ (~overlapped /\ ~misread) =>
       OnePublisher /\ BelievedIsStored /\ SavesAreExact /\ TableIsTheBoard

LEMMA CacheShapes ==
  SC!Nothing \in SC!Rows /\ SC!Idle \in SaveRecord /\ SC!Idle.at = "idle"
<1>1. SC!Nothing \in SC!Rows
      BY DEF SC!Nothing, SC!Rows
<1> QED BY <1>1 DEF SC!Idle, SaveRecord

LEMMA SnapshotInitInv == SC!CacheInit => SnapshotInv
<1> SUFFICES ASSUME SC!CacheInit PROVE SnapshotInv
    OBVIOUS
<1>1. /\ savedRows = SC!Nothing /\ believed = SC!Nothing /\ shown = [rows |-> SC!Nothing, reachable |-> FALSE]
      /\ saving = [p \in Publishers |-> SC!Idle] /\ moves = 0 /\ reboots = 0
      /\ lagging = FALSE /\ overlapped = FALSE /\ misread = FALSE
      BY DEF SC!CacheInit
<1>2. onForge \in SC!Rows
      BY DEF SC!CacheInit, SC!Rows
<1>3. shown \in BoardRecord /\ shown.reachable = FALSE
      BY <1>1, CacheShapes DEF BoardRecord
<1>4. saving \in [Publishers -> SaveRecord] /\ \A p \in Publishers : saving[p].at = "idle"
      BY <1>1, CacheShapes
<1>5. 0 \in 0..MaxMoves /\ 0 \in 0..MaxReboots
      BY RequestsAssumption
<1>6. SC!CacheTypeOK
      BY <1>1, <1>2, <1>3, <1>4, <1>5, CacheShapes DEF SC!CacheTypeOK, SaveRecord, BoardRecord
<1>7. OnePublisher /\ BelievedIsStored /\ SavesAreExact /\ TableIsTheBoard
      BY <1>1, <1>3, <1>4 DEF OnePublisher, BelievedIsStored, SavesAreExact, TableIsTheBoard
<1> QED BY <1>6, <1>7 DEF SnapshotInv

\* A publisher's snapshot goes on the board, and to the save if the forge was reached.
LEMMA PublishKeeps ==
  ASSUME SnapshotInv, NEW p \in Publishers, NEW snap \in BoardRecord, SC!Publish(p, snap)
  PROVE  SnapshotInv'
<1>0. /\ saving \in [Publishers -> SaveRecord] /\ SC!CacheTypeOK
      BY DEF SnapshotInv, SC!CacheTypeOK, SaveRecord
<1>1. /\ saving[p].at = "idle" /\ shown' = snap
      /\ overlapped' = (overlapped \/ (snap.reachable /\ \E q \in Publishers : saving[q].at # "idle"))
      /\ UNCHANGED <<onForge, savedRows, believed, moves, reboots, lagging, misread>>
      BY DEF SC!Publish
<1> DEFINE next == IF snap.reachable THEN [at |-> "diff", rows |-> snap.rows, changed |-> {}]
                                     ELSE SC!Idle
<1>2. saving' = [saving EXCEPT ![p] = next]
      BY DEF SC!Publish
<1>3. /\ next \in SaveRecord /\ snap.reachable \in BOOLEAN
      /\ snap.reachable => next.at = "diff" /\ next.rows = snap.rows
      /\ ~snap.reachable => next.at = "idle"
      BY CacheShapes DEF SaveRecord, BoardRecord
<1> HIDE DEF next
<1>4. /\ saving' \in [Publishers -> SaveRecord] /\ saving'[p] = next
      /\ \A q \in Publishers \ {p} : saving'[q] = saving[q]
      BY <1>0, <1>2, <1>3
<1>5. overlapped' \in BOOLEAN
      BY <1>1
<1>6. SC!CacheTypeOK'
      BY <1>0, <1>1, <1>4, <1>5 DEF SC!CacheTypeOK, SaveRecord, BoardRecord
<1>7. ASSUME ~overlapped', ~misread'
      PROVE  OnePublisher' /\ BelievedIsStored' /\ SavesAreExact' /\ TableIsTheBoard'
  <2>1. /\ ~overlapped /\ ~misread
        /\ snap.reachable => \A q \in Publishers : saving[q].at = "idle"
        BY <1>1, <1>7
  <2>2. OnePublisher /\ BelievedIsStored /\ SavesAreExact /\ TableIsTheBoard
        BY <2>1 DEF SnapshotInv
  <2>3. CASE snap.reachable
    <3>1. /\ saving'[p].at = "diff" /\ saving'[p].rows = shown'.rows
          /\ \A q \in Publishers \ {p} : saving'[q].at = "idle"
          BY <1>1, <1>3, <1>4, <2>1, <2>3
    <3>2. believed = savedRows
          BY <2>1, <2>2, <2>3 DEF BelievedIsStored
    <3> QED BY <1>1, <3>1, <3>2 DEF OnePublisher, BelievedIsStored, SavesAreExact, TableIsTheBoard
  <2>4. CASE ~snap.reachable
    <3>1. saving'[p].at = "idle" /\ ~shown'.reachable
          BY <1>1, <1>3, <1>4, <2>4
    <3>2. \A q \in Publishers : /\ saving'[q].at = saving[q].at
                                /\ saving[q].at # "idle" => saving'[q] = saving[q]
          BY <1>1, <1>4, <3>1
    <3> QED BY <1>1, <2>2, <3>1, <3>2 DEF OnePublisher, BelievedIsStored, SavesAreExact, TableIsTheBoard
  <2> QED BY <1>3, <2>3, <2>4
<1> QED BY <1>6, <1>7 DEF SnapshotInv

\* The three steps of a save.
LEMMA SavesKeep ==
  ASSUME SnapshotInv, NEW p \in Publishers, SC!SavedDiff(p) \/ SC!Write(p) \/ SC!RememberSaved(p)
  PROVE  SnapshotInv'
<1>0. /\ saving \in [Publishers -> SaveRecord] /\ SC!CacheTypeOK /\ savedRows \in SC!Rows
      /\ believed \in SC!Rows /\ shown \in BoardRecord
      BY DEF SnapshotInv, SC!CacheTypeOK, SaveRecord, BoardRecord
<1>r. saving[p].rows \in SC!Rows /\ saving[p].changed \in SUBSET Repos /\ saving[p] \in SaveRecord
      BY <1>0 DEF SaveRecord
\* One publisher's record changes.
<1>s. ASSUME NEW n \in SaveRecord, saving' = [saving EXCEPT ![p] = n]
      PROVE  /\ saving' \in [Publishers -> SaveRecord] /\ saving'[p] = n
             /\ \A q \in Publishers \ {p} : saving'[q] = saving[q]
      BY <1>0, <1>s
<1>1. CASE SC!SavedDiff(p)
  <2> DEFINE changed == {r \in Repos : saving[p].rows[r] # believed[r]}
             next == IF changed = {} THEN SC!Idle
                     ELSE [saving[p] EXCEPT !.at = "write", !.changed = changed]
  <2>1. /\ saving[p].at = "diff" /\ saving' = [saving EXCEPT ![p] = next]
        /\ UNCHANGED <<onForge, shown, savedRows, believed, moves, reboots, lagging, overlapped, misread>>
        BY <1>1 DEF SC!SavedDiff
  <2>2. /\ next \in SaveRecord
        /\ changed = {} => next.at = "idle"
        /\ changed # {} => next.at = "write" /\ next.rows = saving[p].rows /\ next.changed = changed
        BY <1>r, CacheShapes DEF SaveRecord
  <2>c. \A r \in Repos : r \notin changed => saving[p].rows[r] = believed[r]
        OBVIOUS
  <2> HIDE DEF next, changed
  <2>3. /\ saving' \in [Publishers -> SaveRecord] /\ saving'[p] = next
        /\ \A q \in Publishers \ {p} : saving'[q] = saving[q]
        BY <1>s, <2>1, <2>2
  <2>4. SC!CacheTypeOK'
        BY <1>0, <2>1, <2>3 DEF SC!CacheTypeOK, SaveRecord
  <2>5. ASSUME ~overlapped', ~misread'
        PROVE  OnePublisher' /\ BelievedIsStored' /\ SavesAreExact' /\ TableIsTheBoard'
    <3>1. OnePublisher /\ BelievedIsStored /\ SavesAreExact /\ TableIsTheBoard
          BY <2>1, <2>5 DEF SnapshotInv
    <3>2. \A q \in Publishers \ {p} : saving[q].at = "idle" /\ saving'[q].at = "idle"
          BY <2>1, <2>3, <3>1 DEF OnePublisher
    <3>3. believed = savedRows
          BY <2>1, <3>1, <3>2 DEF BelievedIsStored
    <3>4. shown.reachable => saving[p].rows = shown.rows
          BY <2>1, <3>1 DEF SavesAreExact
    <3>5. CASE changed = {}
      <4>1. \A r \in Repos : saving[p].rows[r] = savedRows[r]
            BY <2>c, <3>3, <3>5
      <4>2. saving[p].rows = savedRows
            BY <1>0, <1>r, <4>1 DEF SC!Rows
      <4>3. saving'[p].at = "idle"
            BY <2>2, <2>3, <3>5
      <4> QED BY <2>1, <3>2, <3>3, <3>4, <4>2, <4>3
              DEF OnePublisher, BelievedIsStored, SavesAreExact, TableIsTheBoard
    <3>6. CASE changed # {}
      <4>1. saving'[p].at = "write" /\ saving'[p].rows = saving[p].rows /\ saving'[p].changed = changed
            BY <2>2, <2>3, <3>6
      <4> QED BY <2>1, <2>c, <3>2, <3>3, <3>4, <4>1
              DEF OnePublisher, BelievedIsStored, SavesAreExact, TableIsTheBoard
    <3> QED BY <3>5, <3>6
  <2> QED BY <2>4, <2>5 DEF SnapshotInv
<1>2. CASE SC!Write(p)
  <2>0. /\ saving[p].at = "write"
        /\ UNCHANGED <<onForge, shown, believed, moves, reboots, overlapped, misread>>
        BY <1>2 DEF SC!Write
  <2>1. CASE /\ savedRows' = [r \in Repos |-> IF r \in saving[p].changed THEN saving[p].rows[r]
                                              ELSE savedRows[r]]
             /\ saving' = [saving EXCEPT ![p].at = "remember"] /\ lagging' = FALSE
    <3> DEFINE next == [saving[p] EXCEPT !.at = "remember"]
    <3>1. /\ next \in SaveRecord /\ next.at = "remember" /\ next.rows = saving[p].rows
          /\ saving' = [saving EXCEPT ![p] = next]
          BY <1>r, <2>1 DEF SaveRecord
    <3> HIDE DEF next
    <3>2. /\ saving' \in [Publishers -> SaveRecord] /\ saving'[p] = next
          /\ \A q \in Publishers \ {p} : saving'[q] = saving[q]
          BY <1>s, <3>1
    <3>3. savedRows' \in SC!Rows
          BY <1>0, <1>r, <2>1 DEF SC!Rows
    <3>4. SC!CacheTypeOK'
          BY <1>0, <2>0, <2>1, <3>2, <3>3 DEF SC!CacheTypeOK, SaveRecord
    <3>5. ASSUME ~overlapped', ~misread'
          PROVE  OnePublisher' /\ BelievedIsStored' /\ SavesAreExact' /\ TableIsTheBoard'
      <4>1. OnePublisher /\ BelievedIsStored /\ SavesAreExact /\ TableIsTheBoard
            BY <2>0, <3>5 DEF SnapshotInv
      <4>2. \A q \in Publishers \ {p} : saving[q].at = "idle" /\ saving'[q].at = "idle"
            BY <2>0, <3>2, <4>1 DEF OnePublisher
      <4>3. \A r \in Repos : savedRows'[r] = saving[p].rows[r]
            BY <2>0, <2>1, <4>1 DEF SavesAreExact
      <4>4. savedRows' = saving[p].rows
            BY <1>r, <3>3, <4>3 DEF SC!Rows
      <4>5. shown.reachable => saving[p].rows = shown.rows
            BY <2>0, <4>1 DEF SavesAreExact
      <4> QED BY <2>0, <3>1, <3>2, <4>2, <4>4, <4>5
              DEF OnePublisher, BelievedIsStored, SavesAreExact, TableIsTheBoard
    <3> QED BY <3>4, <3>5 DEF SnapshotInv
  <2>2. CASE saving' = [saving EXCEPT ![p] = SC!Idle] /\ lagging' = TRUE /\ UNCHANGED savedRows
    <3>1. /\ saving' \in [Publishers -> SaveRecord] /\ saving'[p].at = "idle"
          /\ \A q \in Publishers \ {p} : saving'[q] = saving[q]
          BY <1>s, <2>2, CacheShapes
    <3>2. SC!CacheTypeOK'
          BY <1>0, <2>0, <2>2, <3>1 DEF SC!CacheTypeOK, SaveRecord
    <3>3. ASSUME ~overlapped', ~misread'
          PROVE  OnePublisher' /\ BelievedIsStored' /\ SavesAreExact' /\ TableIsTheBoard'
      <4>1. OnePublisher /\ BelievedIsStored /\ SavesAreExact /\ TableIsTheBoard
            BY <2>0, <3>3 DEF SnapshotInv
      <4>2. \A q \in Publishers : saving'[q].at = "idle"
            BY <2>0, <3>1, <4>1 DEF OnePublisher
      <4>3. believed = savedRows
            BY <2>0, <3>1, <4>1 DEF OnePublisher, BelievedIsStored
      <4> QED BY <2>0, <2>2, <4>2, <4>3
              DEF OnePublisher, BelievedIsStored, SavesAreExact, TableIsTheBoard
    <3> QED BY <3>2, <3>3 DEF SnapshotInv
  <2> QED BY <1>2, <2>1, <2>2 DEF SC!Write
<1>3. CASE SC!RememberSaved(p)
  <2>0. /\ saving[p].at = "remember" /\ believed' = saving[p].rows
        /\ saving' = [saving EXCEPT ![p] = SC!Idle]
        /\ UNCHANGED <<onForge, shown, savedRows, moves, reboots, lagging, overlapped, misread>>
        BY <1>3 DEF SC!RememberSaved
  <2>1. /\ saving' \in [Publishers -> SaveRecord] /\ saving'[p].at = "idle"
        /\ \A q \in Publishers \ {p} : saving'[q] = saving[q]
        BY <1>s, <2>0, CacheShapes
  <2>2. SC!CacheTypeOK'
        BY <1>0, <1>r, <2>0, <2>1 DEF SC!CacheTypeOK, SaveRecord
  <2>3. ASSUME ~overlapped', ~misread'
        PROVE  OnePublisher' /\ BelievedIsStored' /\ SavesAreExact' /\ TableIsTheBoard'
    <3>1. OnePublisher /\ SavesAreExact
          BY <2>0, <2>3 DEF SnapshotInv
    <3>2. \A q \in Publishers : saving'[q].at = "idle"
          BY <2>0, <2>1, <3>1 DEF OnePublisher
    <3>3. savedRows = saving[p].rows /\ (shown.reachable => saving[p].rows = shown.rows)
          BY <2>0, <3>1 DEF SavesAreExact
    <3> QED BY <2>0, <3>2, <3>3
            DEF OnePublisher, BelievedIsStored, SavesAreExact, TableIsTheBoard
  <2> QED BY <2>2, <2>3 DEF SnapshotInv
<1> QED BY <1>1, <1>2, <1>3

\* Every step on the board, the table or the forge keeps the invariant.
LEMMA SnapshotStep == SnapshotInv /\ SC!CacheNext => SnapshotInv'
<1> SUFFICES ASSUME SnapshotInv, SC!CacheNext PROVE SnapshotInv'
    OBVIOUS
<1>0. /\ saving \in [Publishers -> SaveRecord] /\ SC!CacheTypeOK /\ savedRows \in SC!Rows
      /\ onForge \in SC!Rows /\ shown \in BoardRecord /\ moves \in 0..MaxMoves /\ reboots \in 0..MaxReboots
      BY DEF SnapshotInv, SC!CacheTypeOK, SaveRecord, BoardRecord
<1>1. CASE SC!ForgeMoves
  <2>1. /\ moves < MaxMoves /\ moves' = moves + 1
        /\ UNCHANGED <<shown, savedRows, believed, saving, reboots, lagging, overlapped, misread>>
        BY <1>1 DEF SC!ForgeMoves
  <2>2. onForge' \in SC!Rows
        BY <1>0, <1>1 DEF SC!ForgeMoves, SC!Rows
  <2>3. moves' \in 0..MaxMoves
        BY <1>0, <2>1, RequestsAssumption
  <2>4. SC!CacheTypeOK'
        BY <1>0, <2>1, <2>2, <2>3 DEF SC!CacheTypeOK
  <2> QED BY <2>1, <2>4
          DEF SnapshotInv, OnePublisher, BelievedIsStored, SavesAreExact, TableIsTheBoard
<1>2. CASE SC!Reboot
  <2>1. PICK readable \in BOOLEAN :
          /\ believed' = IF readable THEN savedRows ELSE SC!Nothing
          /\ shown' = [rows |-> IF readable THEN savedRows ELSE SC!Nothing, reachable |-> FALSE]
          /\ misread' = ~readable
        BY <1>2 DEF SC!Reboot
  <2>2. /\ reboots < MaxReboots /\ reboots' = reboots + 1 /\ overlapped' = FALSE
        /\ saving' = [p \in Publishers |-> SC!Idle]
        /\ UNCHANGED <<onForge, savedRows, moves, lagging>>
        BY <1>2 DEF SC!Reboot
  <2>3. /\ saving' \in [Publishers -> SaveRecord] /\ \A p \in Publishers : saving'[p].at = "idle"
        BY <2>2, CacheShapes
  <2>4. /\ believed' \in SC!Rows /\ shown' \in BoardRecord /\ shown'.reachable = FALSE
        BY <1>0, <2>1, CacheShapes DEF BoardRecord
  <2>5. reboots' \in 0..MaxReboots
        BY <1>0, <2>2, RequestsAssumption
  <2>6. misread' \in BOOLEAN
        BY <2>1
  <2>7. SC!CacheTypeOK'
        BY <1>0, <2>2, <2>3, <2>4, <2>5, <2>6 DEF SC!CacheTypeOK, SaveRecord, BoardRecord
  <2>8. ~misread' => believed' = savedRows'
        BY <2>1, <2>2
  <2> QED BY <2>3, <2>4, <2>7, <2>8
          DEF SnapshotInv, OnePublisher, BelievedIsStored, SavesAreExact, TableIsTheBoard
<1>3. ASSUME NEW p \in Publishers, SC!PublishFull(p) PROVE SnapshotInv'
  <2>1. [rows |-> onForge, reachable |-> TRUE] \in BoardRecord
        BY <1>0 DEF BoardRecord
  <2> QED BY <1>3, <2>1, PublishKeeps DEF SC!PublishFull
<1>4. ASSUME NEW p \in Publishers, SC!PublishUnreachable(p) PROVE SnapshotInv'
  <2>1. [rows |-> shown.rows, reachable |-> FALSE] \in BoardRecord
        BY <1>0 DEF BoardRecord
  <2> QED BY <1>4, <2>1, PublishKeeps DEF SC!PublishUnreachable
<1>5. ASSUME NEW p \in Publishers, SC!PublishScoped(p) PROVE SnapshotInv'
  <2>1. PICK r \in Repos : SC!Publish(p, [shown EXCEPT !.rows[r] = onForge[r]])
        BY <1>5 DEF SC!PublishScoped
  <2>2. [shown.rows EXCEPT ![r] = onForge[r]] \in SC!Rows
        BY <1>0 DEF BoardRecord, SC!Rows
  <2>3. [shown EXCEPT !.rows[r] = onForge[r]] \in BoardRecord
        BY <1>0, <2>2 DEF BoardRecord
  <2> QED BY <2>1, <2>3, PublishKeeps
<1> QED BY <1>1, <1>2, <1>3, <1>4, <1>5, SavesKeep DEF SC!CacheNext

\* MCSpec => []SnapshotInv.  However many publishers, while their saves have not
\* crossed and the table could be read, one saves at a time, believes of the table
\* what it holds and writes the board (dashboard/snapshot_cache.go).
THEOREM SnapshotInvariant == MCSpec => []SnapshotInv
<1>1. MCInit => SnapshotInv
      BY SnapshotInitInv DEF MCInit
<1>2. SnapshotInv /\ [MCNext]_<<part, formVars, keyVars, upgradeVars, ruleVars, branchVars,
                                cacheVars, etagVars>> => SnapshotInv'
  <2> SUFFICES ASSUME SnapshotInv,
                      [MCNext]_<<part, formVars, keyVars, upgradeVars, ruleVars, branchVars,
                                 cacheVars, etagVars>>
               PROVE  SnapshotInv'
      OBVIOUS
  <2>1. SC!CacheNext \/ UNCHANGED cacheVars
        BY DEF MCNext
  <2>2. CASE UNCHANGED cacheVars
        BY <2>2 DEF cacheVars, SnapshotInv, SC!CacheTypeOK, OnePublisher, BelievedIsStored,
                    SavesAreExact, TableIsTheBoard
  <2> QED BY <2>1, <2>2, SnapshotStep
<1> QED BY <1>1, <1>2, PTL DEF MCSpec

\* The next process starts from what the board shows of a reachable forge, unless
\* two saves crossed, one failed or the table could not be read: the part of
\* CopiesAreTrue that is about the saved snapshot.
THEOREM SavedSnapshotHolds ==
  MCSpec => [](SC!CacheTypeOK /\ SC!OnlyCrossedSavesLeaveTheTableBehind)
<1>1. SnapshotInv => SC!CacheTypeOK /\ SC!OnlyCrossedSavesLeaveTheTableBehind
      BY DEF SnapshotInv, TableIsTheBoard, SC!OnlyCrossedSavesLeaveTheTableBehind
<1> QED BY <1>1, SnapshotInvariant, PTL

-----------------------------------------------------------------------------
(* Least elements *)

\* The natural numbers are well founded, so a set of them has a least element.
LEMMA LeastNatural ==
  ASSUME NEW S \in SUBSET Nat, S # {}
  PROVE  \E m \in S : \A n \in S : m <= n
<1>1. IsWellFoundedOn({ss \in Nat \X Nat : ss[1] < ss[2]}, Nat)
      BY NatLessThanWellFounded, Zenon DEF OpToRel
<1>2. PICK m \in S : \A n \in S : ~(<<n, m>> \in {ss \in Nat \X Nat : ss[1] < ss[2]})
  <2> HIDE <1>1
  <2> QED BY <1>1, WFMin
<1>3. \A n \in S : <<n, m>> \in {ss \in Nat \X Nat : ss[1] < ss[2]} <=> n < m
      OBVIOUS
<1>4. \A n \in S : ~(n < m)
      BY <1>2, <1>3
<1> QED BY <1>4

\* What is computed step by step from a start has a value at every step.
LEMMA NatRecursion ==
  ASSUME NEW X, NEW a \in X, NEW N \in Nat, NEW step \in [1..N -> [X -> X]]
  PROVE  \E f \in [0..N -> X] : f[0] = a /\ \A i \in 1..N : f[i] = step[i][f[i - 1]]
<1> DEFINE Reaches(m) ==
             \E f \in [0..m -> X] : f[0] = a /\ \A i \in 1..m : f[i] = step[i][f[i - 1]]
           S == {m \in 0..N : ~Reaches(m)}
<1>1. Reaches(0)
  <2> DEFINE h == [i \in 0..0 |-> a]
  <2>1. h \in [0..0 -> X] /\ h[0] = a /\ 1..0 = {}
        OBVIOUS
  <2> HIDE DEF h
  <2> QED BY <2>1
<1>2. ASSUME NEW m \in 1..N, Reaches(m - 1) PROVE Reaches(m)
  <2>1. PICK f \in [0..m - 1 -> X] : f[0] = a /\ \A i \in 1..m - 1 : f[i] = step[i][f[i - 1]]
        BY <1>2
  <2> DEFINE g == [i \in 0..m |-> IF i = m THEN step[m][f[m - 1]] ELSE f[i]]
  <2>2. m - 1 \in 0..m - 1 /\ f[m - 1] \in X
        BY <2>1
  <2>3. step[m][f[m - 1]] \in X
        BY <2>2
  <2>4. g \in [0..m -> X] /\ g[0] = a
        BY <2>1, <2>3
  <2>5. ASSUME NEW i \in 1..m PROVE g[i] = step[i][g[i - 1]]
    <3>1. CASE i = m
      <4>1. g[m - 1] = f[m - 1] /\ g[m] = step[m][f[m - 1]]
            BY <2>2
      <4> QED BY <3>1, <4>1
    <3>2. CASE i # m
      <4>1. i \in 1..m - 1 /\ i - 1 \in 0..m - 1 /\ i - 1 # m
            BY <3>2
      <4>2. g[i] = f[i] /\ g[i - 1] = f[i - 1]
            BY <4>1, <3>2
      <4> QED BY <2>1, <4>1, <4>2
    <3> QED BY <3>1, <3>2
  <2> HIDE DEF g
  <2> QED BY <2>4, <2>5
<1> HIDE DEF Reaches
<1>3. S \subseteq Nat /\ \A m \in 0..N : m \notin S => Reaches(m)
      OBVIOUS
<1>4. CASE S # {}
  <2>1. PICK m \in S : \A k \in S : m <= k
        BY <1>3, <1>4, LeastNatural
  <2>2. m \in 0..N /\ ~Reaches(m) /\ m # 0
        BY <1>1, <2>1
  <2>3. m \in 1..N /\ m - 1 \in 0..N /\ m - 1 \notin S
        BY <2>1, <2>2
  <2> QED BY <1>2, <1>3, <2>2, <2>3
<1>5. CASE S = {}
  <2>1. Reaches(N)
        BY <1>3, <1>5
  <2> QED BY <2>1 DEF Reaches
<1> QED BY <1>4, <1>5

\* Induction up to a bound, over the numbers for which something holds.
LEMMA UpToBound ==
  ASSUME NEW N \in Nat, NEW S, 0 \in S, \A k \in 1..N : k - 1 \in S => k \in S
  PROVE  \A k \in 0..N : k \in S
<1> DEFINE Left == {k \in 0..N : k \notin S}
<1> SUFFICES ASSUME Left # {} PROVE FALSE
    OBVIOUS
<1>1. PICK m \in Left : \A k \in Left : m <= k
  <2>1. Left \subseteq Nat
        OBVIOUS
  <2> HIDE DEF Left
  <2> QED BY <2>1, LeastNatural
<1>2. m \in 1..N /\ m - 1 \in 0..N /\ m - 1 \notin Left
      BY <1>1
<1> QED BY <1>1, <1>2

\* Min picks it, in the passkeys and in the upgrade.
LEMMA MinIsLeast ==
  ASSUME NEW S \in SUBSET Nat, S # {}
  PROVE  /\ PK!Min(S) \in S /\ \A n \in S : PK!Min(S) <= n
         /\ UP!Min(S) \in S /\ \A n \in S : UP!Min(S) <= n
<1>1. PICK m \in S : \A n \in S : m <= n
      BY LeastNatural
<1> QED BY <1>1 DEF PK!Min, UP!Min

-----------------------------------------------------------------------------
(* The upgrade of the database *)

UserIds == UP!Ids \cup {UP!Stray}
DatabaseRecord == [fresh : BOOLEAN, version : 0..3, users : SUBSET UP!Ids,
                   keys : SUBSET UP!Ids, marker : BOOLEAN, tagged : [1..2 -> BOOLEAN],
                   rows : [1..2 -> SUBSET UserIds], inTheWay : BOOLEAN]
CopyRecord == [users : SUBSET UP!Ids, rows : [1..2 -> SUBSET UserIds]]

\* The start's own record, beside the types of the run.
StartTypes ==
  /\ db \in DatabaseRecord /\ legacy \in DatabaseRecord
  /\ phase \in {"down", "migrating", "open", "serving"} /\ crashes \in 0..MaxCrashes
  /\ mine \in [copy : CopyRecord, applied : 0..2] /\ backups \subseteq CopyRecord

\* What the first start found: passkey holders are users, a rebuilt table names
\* nobody, and a new database is empty.
FoundIsWhole ==
  /\ legacy.keys \subseteq legacy.users
  /\ \A t \in 1..2 : ~legacy.tagged[t] => legacy.rows[t] = {}
  /\ legacy.fresh => \A t \in 1..2 : ~legacy.tagged[t]

\* A table names users exactly until its step is done, and then those the first
\* start found.
StepsAreCounted ==
  /\ ~db.fresh /\ ~legacy.fresh => \A t \in 1..2 : db.tagged[t] <=> db.version < t
  /\ \A t \in 1..2 : db.tagged[t] => legacy.tagged[t] /\ db.rows[t] = legacy.rows[t]
  /\ legacy.fresh /\ ~db.fresh => db.version = 2
  /\ db.fresh => legacy.fresh

\* Nobody's account is touched before the last step is done, and an account with
\* passkeys does not give way to one without.
AccountsWait ==
  /\ db.version # 2 => db.users = legacy.users /\ db.keys = legacy.keys
  /\ legacy.keys # {} => db.keys # {}
  /\ phase \in {"open", "serving"} => db.version = 2
  /\ phase # "down" => ~db.fresh
  /\ phase = "migrating" => db.version < 2

\* While steps are applied the start's own copy has what they may drop, and a copy
\* no step followed is the database itself.
OwnCopyIsKept == phase = "migrating" =>
  /\ mine.copy \in backups
  /\ \A t \in 1..2 : db.tagged[t] => mine.copy.rows[t] = legacy.rows[t]
  /\ mine.applied <= db.version
  /\ mine.applied = 0 => mine.copy = [users |-> db.users, rows |-> db.rows]

RowsAreSomewhere == \A t \in 1..2 : \A u \in legacy.rows[t] :
  u \in db.rows[t] \/ \E b \in backups : u \in b.rows[t]
HoldersAreSomewhere == \A u \in legacy.keys :
  u \in db.users \/ \E b \in backups : u \in b.users

FirstOwner == IF legacy.keys # {} THEN UP!Min(legacy.keys) ELSE UP!Min(legacy.users)
FirstOwnersRows == \A t \in 1..2 : legacy.tagged[t] /\ ~db.tagged[t] =>
  db.rows[t] = IF legacy.users = {} THEN {} ELSE legacy.rows[t] \cap {FirstOwner}

MigrationInv ==
  /\ StartTypes /\ FoundIsWhole /\ StepsAreCounted /\ AccountsWait /\ OwnCopyIsKept
  /\ RowsAreSomewhere /\ HoldersAreSomewhere /\ FirstOwnersRows

LEMMA TwoSteps == UP!Steps = 2
BY DEF UP!Steps, UP!Tables

LEMMA DatabaseShapes ==
  /\ UP!Database = DatabaseRecord
  /\ UP!Blank \in DatabaseRecord
  /\ UP!NoCopy \in CopyRecord
  /\ \A d0 \in DatabaseRecord : UP!Copy(d0) \in CopyRecord
<1>1. UP!Database = DatabaseRecord
      BY TwoSteps DEF UP!Database, DatabaseRecord, UserIds
<1>2. UP!Blank \in DatabaseRecord
  <2>1. [t \in 1..2 |-> FALSE] \in [1..2 -> BOOLEAN] /\ 0 \in 0..3
        OBVIOUS
  <2>2. [t \in 1..2 |-> {}] \in [1..2 -> SUBSET UserIds]
        OBVIOUS
  <2> QED BY <2>1, <2>2, TwoSteps DEF UP!Blank, DatabaseRecord
<1>3. UP!NoCopy \in CopyRecord
  <2>2. [t \in 1..2 |-> {}] \in [1..2 -> SUBSET UserIds]
        OBVIOUS
  <2> QED BY <2>2, TwoSteps DEF UP!NoCopy, CopyRecord
<1>4. ASSUME NEW d0 \in DatabaseRecord PROVE UP!Copy(d0) \in CopyRecord
      BY DEF UP!Copy, CopyRecord, DatabaseRecord
<1> QED BY <1>1, <1>2, <1>3, <1>4

\* The upgrade's properties follow from the invariant.
LEMMA MigrationGoal ==
  MigrationInv => UP!UpgradeTypeOK /\ UP!NothingIsLostUnsaved /\ UP!TheOwnersRowsStay
<1> SUFFICES ASSUME MigrationInv
             PROVE  UP!UpgradeTypeOK /\ UP!NothingIsLostUnsaved /\ UP!TheOwnersRowsStay
    OBVIOUS
<1>1. UP!UpgradeTypeOK
  <2>1. /\ db \in UP!Database /\ legacy \in UP!Database
        BY DatabaseShapes DEF MigrationInv, StartTypes
  <2>2. mine.applied \in 0..2
        BY DEF MigrationInv, StartTypes
  <2>3. backups \subseteq [users : SUBSET UP!Ids,
                           rows : [1..UP!Steps -> SUBSET (UP!Ids \cup {UP!Stray})]]
        BY TwoSteps DEF MigrationInv, StartTypes, CopyRecord, UserIds
  <2> QED BY <2>1, <2>2, <2>3, TwoSteps DEF MigrationInv, StartTypes, UP!UpgradeTypeOK
<1>2. UP!NothingIsLostUnsaved
      BY TwoSteps DEF MigrationInv, RowsAreSomewhere, HoldersAreSomewhere, UP!NothingIsLostUnsaved
<1>3. UP!TheOwnersRowsStay
      BY TwoSteps DEF MigrationInv, FirstOwnersRows, FirstOwner, UP!TheOwnersRowsStay
<1> QED BY <1>1, <1>2, <1>3

LEMMA MigrationInitInv == UP!UpgradeInit => MigrationInv
<1> SUFFICES ASSUME UP!UpgradeInit PROVE MigrationInv
    OBVIOUS
<1>1. /\ db \in UP!Found \cup {UP!Blank} /\ legacy = db /\ backups = {} /\ phase = "down"
      /\ crashes = 0 /\ mine = [copy |-> UP!NoCopy, applied |-> 0]
      BY DEF UP!UpgradeInit
<1>2. db \in DatabaseRecord
      BY <1>1, DatabaseShapes DEF UP!Found
<1>3. CASE db = UP!Blank
  <2>1. /\ db.fresh /\ db.keys = {} /\ db.users = {} /\ db.version = 0
        /\ \A t \in 1..2 : ~db.tagged[t] /\ db.rows[t] = {}
        BY <1>3, TwoSteps DEF UP!Blank
  <2>2. StartTypes
    <3>1. 0 \in 0..MaxCrashes /\ 0 \in 0..2
          BY AccountAssumption
    <3> QED BY <1>1, <1>2, <3>1, DatabaseShapes DEF StartTypes
  <2> QED BY <1>1, <2>1, <2>2 DEF MigrationInv, FoundIsWhole, StepsAreCounted, AccountsWait,
             OwnCopyIsKept, RowsAreSomewhere, HoldersAreSomewhere, FirstOwnersRows
<1>4. CASE db \in UP!Found
  <2>1. /\ ~db.fresh /\ db.keys \subseteq db.users
        /\ \A t \in 1..2 : db.tagged[t] <=> db.version < t
        /\ \A t \in 1..2 : ~db.tagged[t] => db.rows[t] = {}
        BY <1>4, TwoSteps DEF UP!Found
  <2>2. StartTypes
    <3>1. 0 \in 0..MaxCrashes /\ 0 \in 0..2
          BY AccountAssumption
    <3> QED BY <1>1, <1>2, <3>1, DatabaseShapes DEF StartTypes
  <2>3. RowsAreSomewhere /\ HoldersAreSomewhere
        BY <1>1, <2>1 DEF RowsAreSomewhere, HoldersAreSomewhere
  <2> QED BY <1>1, <2>1, <2>2, <2>3 DEF MigrationInv, FoundIsWhole, StepsAreCounted, AccountsWait,
             OwnCopyIsKept, FirstOwnersRows
<1> QED BY <1>1, <1>3, <1>4

\* The fields a step of the upgrade reads.
LEMMA DatabaseFields ==
  ASSUME NEW d0 \in DatabaseRecord
  PROVE  /\ d0.fresh \in BOOLEAN /\ d0.version \in 0..3 /\ d0.users \in SUBSET UP!Ids
         /\ d0.keys \in SUBSET UP!Ids /\ d0.marker \in BOOLEAN
         /\ d0.tagged \in [1..2 -> BOOLEAN] /\ d0.rows \in [1..2 -> SUBSET UserIds]
         /\ d0.inTheWay \in BOOLEAN
BY DEF DatabaseRecord

LEMMA OwnerIsAUser ==
  ASSUME NEW d0 \in DatabaseRecord
  PROVE  /\ d0.keys # {} => UP!Owner(d0) \in d0.keys
         /\ d0.keys = {} /\ d0.users # {} => UP!Owner(d0) \in d0.users
         /\ d0.users # {} => UP!Min(d0.users) \in d0.users
<1>1. d0.keys \in SUBSET Nat /\ d0.users \in SUBSET Nat
  <2>1. UP!Ids \subseteq Nat
        BY AccountAssumption DEF UP!Ids
  <2> QED BY <2>1, DatabaseFields
<1> QED BY <1>1, MinIsLeast DEF UP!Owner

\* A start: a new database is stamped, one with steps to go is copied first.
LEMMA BootKeeps == MigrationInv /\ UP!Boot => MigrationInv'
<1> SUFFICES ASSUME MigrationInv, UP!Boot PROVE MigrationInv'
    OBVIOUS
<1>0. /\ phase = "down" /\ legacy' = legacy /\ crashes' = crashes
      BY DEF UP!Boot
<1>t. /\ db \in DatabaseRecord /\ legacy \in DatabaseRecord /\ StartTypes
      BY DEF MigrationInv, StartTypes
<1>1. CASE db.fresh /\ db' = UP!Stamped(db) /\ phase' = "open" /\ UNCHANGED <<backups, mine>>
  <2>1. db' = [db EXCEPT !.fresh = FALSE, !.version = 2]
        BY <1>1, TwoSteps DEF UP!Stamped
  <2>2. /\ db' \in DatabaseRecord /\ db'.fresh = FALSE /\ db'.version = 2
        /\ db'.users = db.users /\ db'.keys = db.keys /\ db'.tagged = db.tagged /\ db'.rows = db.rows
    <3>1. 2 \in 0..3 /\ FALSE \in BOOLEAN
          OBVIOUS
    <3>2. db' \in DatabaseRecord
          BY <1>t, <2>1, <3>1 DEF DatabaseRecord
    <3>3. /\ db'.fresh = FALSE /\ db'.version = 2 /\ db'.users = db.users
          /\ db'.keys = db.keys /\ db'.tagged = db.tagged /\ db'.rows = db.rows
          BY <1>t, <2>1 DEF DatabaseRecord
    <3> QED BY <3>2, <3>3
  <2>3. StartTypes'
        BY <1>0, <1>1, <1>t, <2>2 DEF StartTypes
  <2>4. legacy.fresh
        BY <1>1 DEF MigrationInv, StepsAreCounted
  <2> QED BY <1>0, <1>1, <2>2, <2>3, <2>4
          DEF MigrationInv, FoundIsWhole, StepsAreCounted, AccountsWait, OwnCopyIsKept,
              RowsAreSomewhere, HoldersAreSomewhere, FirstOwnersRows, FirstOwner
<1>2. CASE ~db.fresh /\ db.version = 2 /\ phase' = "open" /\ UNCHANGED <<db, backups, mine>>
  <2>1. StartTypes'
        BY <1>0, <1>2, <1>t DEF StartTypes
  <2> QED BY <1>0, <1>2, <2>1
          DEF MigrationInv, FoundIsWhole, StepsAreCounted, AccountsWait, OwnCopyIsKept,
              RowsAreSomewhere, HoldersAreSomewhere, FirstOwnersRows, FirstOwner
<1>3. CASE /\ ~db.fresh /\ db.version < 2 /\ backups' = backups \cup {UP!Copy(db)}
           /\ mine' = [copy |-> UP!Copy(db), applied |-> 0]
           /\ phase' = "migrating" /\ UNCHANGED db
  <2>1. UP!Copy(db) \in CopyRecord /\ UP!Copy(db) = [users |-> db.users, rows |-> db.rows]
        BY <1>t, DatabaseShapes DEF UP!Copy
  <2>2. StartTypes'
    <3>1. 0 \in 0..2
          OBVIOUS
    <3> QED BY <1>0, <1>3, <1>t, <2>1, <3>1 DEF StartTypes
  <2>3. OwnCopyIsKept'
    <3>1. mine'.copy = UP!Copy(db) /\ mine'.applied = 0
          BY <1>3
    <3>2. mine'.copy.rows = db.rows
          BY <2>1, <3>1
    <3>3. 0 <= db.version
          BY <1>t, DatabaseFields
    <3>4. \A t \in 1..2 : db.tagged[t] => db.rows[t] = legacy.rows[t]
          BY DEF MigrationInv, StepsAreCounted
    <3> QED BY <1>0, <1>3, <2>1, <3>1, <3>2, <3>3, <3>4 DEF OwnCopyIsKept
  <2>4. RowsAreSomewhere' /\ HoldersAreSomewhere'
        BY <1>0, <1>3 DEF MigrationInv, RowsAreSomewhere, HoldersAreSomewhere
  <2> QED BY <1>0, <1>3, <2>2, <2>3, <2>4
          DEF MigrationInv, FoundIsWhole, StepsAreCounted, AccountsWait, FirstOwnersRows, FirstOwner
<1> QED BY <1>1, <1>2, <1>3, TwoSteps DEF UP!Boot

\* A step drops only what the start's own copy has, and keeps the rows of the user
\* who owned the database when the first step began.
LEMMA ApplyKeeps == MigrationInv /\ UP!Apply => MigrationInv'
<1> SUFFICES ASSUME MigrationInv, UP!Apply PROVE MigrationInv'
    OBVIOUS
<1> DEFINE t == db.version + 1
<1>0. /\ phase = "migrating" /\ UP!Preflight(db, t) /\ db' = UP!Rebuild(db, t)
      /\ mine' = [mine EXCEPT !.applied = @ + 1]
      /\ phase' = IF db'.version = 2 THEN "open" ELSE "migrating"
      /\ UNCHANGED <<backups, crashes, legacy>>
      BY TwoSteps DEF UP!Apply
<1>1. /\ db \in DatabaseRecord /\ legacy \in DatabaseRecord /\ StartTypes
      /\ db.version < 2 /\ ~db.fresh /\ ~legacy.fresh
      BY <1>0 DEF MigrationInv, StartTypes, AccountsWait, StepsAreCounted
<1>2. t \in 1..2 /\ db.version \in 0..1 /\ t = db.version + 1
      BY <1>1, DatabaseFields
<1> HIDE DEF t
<1>3. /\ db.tagged[t] /\ db.rows[t] = legacy.rows[t]
      /\ db.users = legacy.users /\ db.keys = legacy.keys
      BY <1>1, <1>2 DEF MigrationInv, StepsAreCounted, AccountsWait
<1>4. UP!Kept(db, t) = IF legacy.users = {} THEN {} ELSE legacy.rows[t] \cap {FirstOwner}
  <2>1. UP!OwnerKnown(db, t)
        BY <1>0, <1>2, <1>3 DEF UP!Preflight, UP!SettingsPreflight, UP!AuthPreflight,
                                UP!AuthOwnerKnown
  <2>2. db.users = {} => db.rows[t] = {}
        BY <2>1 DEF UP!OwnerKnown
  <2> QED BY <1>3, <2>2 DEF UP!Kept, UP!Owner, FirstOwner
<1>5. /\ db'.tagged = [db.tagged EXCEPT ![t] = FALSE] /\ db'.version = t
      /\ db'.rows = [db.rows EXCEPT ![t] = UP!Kept(db, t)]
      /\ db'.users = db.users /\ db'.keys = db.keys /\ db'.fresh = db.fresh
      /\ db'.marker = db.marker /\ db'.inTheWay = db.inTheWay
      BY <1>0, <1>1, <1>2 DEF UP!Rebuild, DatabaseRecord
<1>6. db' \in DatabaseRecord
  <2>1. UP!Kept(db, t) \subseteq UserIds
    <3>1. db.rows[t] \subseteq UserIds
          BY <1>1, <1>2, DatabaseFields
    <3> QED BY <3>1 DEF UP!Kept
  <2>2. db'.rows \in [1..2 -> SUBSET UserIds] /\ db'.tagged \in [1..2 -> BOOLEAN]
    <3>1. db.rows \in [1..2 -> SUBSET UserIds] /\ db.tagged \in [1..2 -> BOOLEAN]
          BY <1>1, DatabaseFields
    <3>2. [db.rows EXCEPT ![t] = UP!Kept(db, t)] \in [1..2 -> SUBSET UserIds]
          BY <2>1, <3>1
    <3>3. [db.tagged EXCEPT ![t] = FALSE] \in [1..2 -> BOOLEAN]
          BY <3>1
    <3> QED BY <1>5, <3>2, <3>3
  <2>3. t \in 0..3
        BY <1>2
  <2>4. db' = [db EXCEPT !.tagged = db'.tagged, !.version = t, !.rows = db'.rows]
        BY <1>0, <1>1, <1>5 DEF UP!Rebuild, DatabaseRecord
  <2> QED BY <1>1, <2>2, <2>3, <2>4 DEF DatabaseRecord
<1>7. /\ mine \in [copy : CopyRecord, applied : 0..2] /\ mine.applied <= db.version
      /\ mine.copy \in backups
      /\ \A s \in 1..2 : db.tagged[s] => mine.copy.rows[s] = legacy.rows[s]
      BY <1>0 DEF MigrationInv, StartTypes, OwnCopyIsKept
<1>8. /\ mine'.copy = mine.copy /\ mine'.applied = mine.applied + 1
      /\ mine'.applied \in 0..2 /\ mine' \in [copy : CopyRecord, applied : 0..2]
  <2>1. mine'.copy = mine.copy /\ mine'.applied = mine.applied + 1
        BY <1>0, <1>7
  <2>2. mine.applied + 1 \in 0..2
        BY <1>2, <1>7
  <2> QED BY <1>0, <1>7, <2>1, <2>2
<1>9. StartTypes'
  <2>1. phase' \in {"down", "migrating", "open", "serving"}
        BY <1>0
  <2> QED BY <1>0, <1>1, <1>6, <1>8, <2>1 DEF StartTypes
<1>10. \A s \in 1..2 : /\ s # t => db'.tagged[s] = db.tagged[s] /\ db'.rows[s] = db.rows[s]
                       /\ db'.tagged[t] = FALSE /\ db'.rows[t] = UP!Kept(db, t)
       BY <1>1, <1>2, <1>5, DatabaseFields
<1>11. StepsAreCounted'
  <2>1. \A s \in 1..2 : db'.tagged[s] <=> t < s
    <3>1. \A s \in 1..2 : db.tagged[s] <=> db.version < s
          BY <1>1 DEF MigrationInv, StepsAreCounted
    <3>2. \A s \in 1..2 : s # t => (db.version < s <=> t < s)
          BY <1>2
    <3>3. ~(t < t)
          BY <1>2
    <3> QED BY <1>10, <3>1, <3>2, <3>3
  <2>2. \A s \in 1..2 : db'.tagged[s] => legacy.tagged[s] /\ db'.rows[s] = legacy.rows[s]
        BY <1>10 DEF MigrationInv, StepsAreCounted
  <2> QED BY <1>0, <1>1, <1>5, <2>1, <2>2 DEF StepsAreCounted
<1>12. AccountsWait'
       BY <1>0, <1>1, <1>2, <1>3, <1>5 DEF MigrationInv, AccountsWait
<1>13. OwnCopyIsKept'
  <2>1. mine'.applied <= db'.version /\ mine'.applied # 0
        BY <1>2, <1>5, <1>7, <1>8
  <2>2. \A s \in 1..2 : db'.tagged[s] => mine.copy.rows[s] = legacy.rows[s]
        BY <1>7, <1>10
  <2> QED BY <1>0, <1>7, <1>8, <2>1, <2>2 DEF OwnCopyIsKept
<1>14. RowsAreSomewhere'
  <2> SUFFICES ASSUME NEW s \in 1..2, NEW u \in legacy.rows[s]
               PROVE  u \in db'.rows[s] \/ \E b \in backups : u \in b.rows[s]
      BY <1>0 DEF RowsAreSomewhere
  <2>1. CASE s = t
        BY <1>3, <1>7, <2>1
  <2>2. CASE s # t
        BY <1>10, <2>2 DEF MigrationInv, RowsAreSomewhere
  <2> QED BY <2>1, <2>2
<1>15. FirstOwnersRows'
  <2> SUFFICES ASSUME NEW s \in 1..2, legacy.tagged[s], ~db'.tagged[s]
               PROVE  db'.rows[s] = IF legacy.users = {} THEN {}
                                    ELSE legacy.rows[s] \cap {FirstOwner}
      BY <1>0 DEF FirstOwnersRows, FirstOwner
  <2>1. CASE s = t
        BY <1>4, <1>10, <2>1
  <2>2. CASE s # t
        BY <1>10, <2>2 DEF MigrationInv, FirstOwnersRows
  <2> QED BY <2>1, <2>2
<1>16. FoundIsWhole' /\ HoldersAreSomewhere'
       BY <1>0, <1>5 DEF MigrationInv, FoundIsWhole, HoldersAreSomewhere
<1> QED BY <1>9, <1>11, <1>12, <1>13, <1>14, <1>15, <1>16 DEF MigrationInv

\* A step that fails takes at most the copy nothing was changed after.
LEMMA ApplyFailsKeeps == MigrationInv /\ UP!ApplyFails => MigrationInv'
<1> SUFFICES ASSUME MigrationInv, UP!ApplyFails PROVE MigrationInv'
    OBVIOUS
<1>0. /\ phase = "migrating" /\ backups' = UP!DropCopy /\ phase' = "down"
      /\ crashes < MaxCrashes /\ crashes' = crashes + 1 /\ UNCHANGED <<db, mine, legacy>>
      BY DEF UP!ApplyFails
<1>1. backups' \subseteq backups
      BY <1>0 DEF UP!DropCopy
<1>2. ASSUME NEW b \in backups, b \notin backups'
      PROVE  b = [users |-> db.users, rows |-> db.rows]
  <2>1. UP!Unneeded(mine) /\ b = mine.copy
        BY <1>0, <1>2 DEF UP!DropCopy
  <2> QED BY <1>0, <2>1 DEF UP!Unneeded, MigrationInv, OwnCopyIsKept
<1>3. StartTypes'
  <2>1. crashes' \in 0..MaxCrashes
        BY <1>0, AccountAssumption DEF MigrationInv, StartTypes
  <2> QED BY <1>0, <1>1, <2>1 DEF MigrationInv, StartTypes
<1>4. RowsAreSomewhere'
  <2> SUFFICES ASSUME NEW s \in 1..2, NEW u \in legacy.rows[s], u \notin db.rows[s]
               PROVE  \E b \in backups' : u \in b.rows[s]
      BY <1>0 DEF RowsAreSomewhere
  <2>1. PICK b \in backups : u \in b.rows[s]
        BY DEF MigrationInv, RowsAreSomewhere
  <2>2. b \in backups'
        BY <1>2, <2>1
  <2> QED BY <2>1, <2>2
<1>5. HoldersAreSomewhere'
  <2> SUFFICES ASSUME NEW u \in legacy.keys, u \notin db.users
               PROVE  \E b \in backups' : u \in b.users
      BY <1>0 DEF HoldersAreSomewhere
  <2>1. PICK b \in backups : u \in b.users
        BY DEF MigrationInv, HoldersAreSomewhere
  <2>2. b \in backups'
        BY <1>2, <2>1
  <2> QED BY <2>1, <2>2
<1> QED BY <1>0, <1>3, <1>4, <1>5
        DEF MigrationInv, FoundIsWhole, StepsAreCounted, AccountsWait, OwnCopyIsKept,
            FirstOwnersRows, FirstOwner

\* An account that is removed was copied, unless nobody had a passkey.
LEMMA CleanUpKeeps == MigrationInv /\ (UP!CleanUp \/ UP!Registered \/ UP!Crash) => MigrationInv'
<1> SUFFICES ASSUME MigrationInv, UP!CleanUp \/ UP!Registered \/ UP!Crash PROVE MigrationInv'
    OBVIOUS
<1>t. /\ db \in DatabaseRecord /\ legacy \in DatabaseRecord /\ StartTypes
      BY DEF MigrationInv, StartTypes
<1>1. CASE UP!Crash
  <2>0. /\ phase' = "down" /\ crashes < MaxCrashes /\ crashes' = crashes + 1
        /\ UNCHANGED <<db, backups, mine, legacy>>
        BY <1>1 DEF UP!Crash
  <2>1. crashes' \in 0..MaxCrashes
        BY <1>t, <2>0, AccountAssumption DEF StartTypes
  <2>2. StartTypes'
        BY <1>t, <2>0, <2>1 DEF StartTypes
  <2> QED BY <2>0, <2>2
          DEF MigrationInv, FoundIsWhole, StepsAreCounted, AccountsWait, OwnCopyIsKept,
              RowsAreSomewhere, HoldersAreSomewhere, FirstOwnersRows, FirstOwner
\* The accounts change only after the last step.
<1>a. ASSUME NEW us \in SUBSET UP!Ids, NEW ks \in SUBSET UP!Ids, ks # {},
             phase \in {"open", "serving"},
             db' = [db EXCEPT !.users = us, !.keys = ks, !.marker = TRUE],
             phase' = "serving", backups \subseteq backups', backups' \subseteq CopyRecord,
             UNCHANGED <<mine, crashes, legacy>>,
             \A u \in legacy.keys : u \in db.users =>
                u \in us \/ \E b \in backups' : u \in b.users
      PROVE  MigrationInv'
  <2>1. /\ db' \in DatabaseRecord /\ db'.users = us /\ db'.keys = ks /\ db'.version = db.version
        /\ db'.tagged = db.tagged /\ db'.rows = db.rows /\ db'.fresh = db.fresh
        BY <1>t, <1>a DEF DatabaseRecord
  <2>2. StartTypes'
        BY <1>t, <1>a, <2>1 DEF StartTypes
  <2>3. db.version = 2
        BY <1>a DEF MigrationInv, AccountsWait
  <2>4. RowsAreSomewhere'
        BY <1>a, <2>1 DEF MigrationInv, RowsAreSomewhere
  <2>5. HoldersAreSomewhere'
        BY <1>a, <2>1 DEF MigrationInv, HoldersAreSomewhere
  <2>6. ~db.fresh
        BY <1>a DEF MigrationInv, AccountsWait
  <2> QED BY <1>a, <2>1, <2>2, <2>3, <2>4, <2>5, <2>6
          DEF MigrationInv, FoundIsWhole, StepsAreCounted, AccountsWait, OwnCopyIsKept,
              FirstOwnersRows, FirstOwner
<1>2. CASE UP!CleanUp
  <2>0. phase = "open" /\ phase' = "serving" /\ UNCHANGED <<mine, crashes, legacy>>
        BY <1>2 DEF UP!CleanUp
  <2>1. CASE UNCHANGED <<db, backups>>
    <3>1. StartTypes'
          BY <1>t, <2>0, <2>1 DEF StartTypes
    <3> QED BY <2>0, <2>1, <3>1
            DEF MigrationInv, FoundIsWhole, StepsAreCounted, AccountsWait, OwnCopyIsKept,
                RowsAreSomewhere, HoldersAreSomewhere, FirstOwnersRows, FirstOwner
  <2>2. CASE /\ db.keys # {}
             /\ backups' = IF db.users = {UP!Owner(db)} THEN backups ELSE backups \cup {UP!Copy(db)}
             /\ db' = UP!DeleteOthers(db)
    <3>1. UP!Owner(db) \in db.keys /\ UP!Owner(db) \in UP!Ids
          BY <1>t, <2>2, OwnerIsAUser, DatabaseFields
    <3>2. db' = [db EXCEPT !.users = {UP!Owner(db)}, !.keys = db.keys \cap {UP!Owner(db)},
                           !.marker = TRUE]
          BY <1>t, <2>2 DEF UP!DeleteOthers, DatabaseRecord
    <3>3. backups \subseteq backups' /\ backups' \subseteq CopyRecord
          BY <1>t, <2>2, DatabaseShapes DEF StartTypes
    <3>4. \A u \in legacy.keys : u \in db.users =>
             u \in {UP!Owner(db)} \/ \E b \in backups' : u \in b.users
      <4>1. CASE db.users = {UP!Owner(db)}
            BY <4>1
      <4>2. CASE UP!Copy(db) \in backups'
        <5>1. UP!Copy(db).users = db.users
              BY DEF UP!Copy
        <5> QED BY <4>2, <5>1
      <4> QED BY <2>2, <4>1, <4>2
    <3>5. {UP!Owner(db)} \in SUBSET UP!Ids /\ db.keys \cap {UP!Owner(db)} \in SUBSET UP!Ids
          /\ db.keys \cap {UP!Owner(db)} # {}
          BY <3>1
    <3> QED BY <2>0, <3>2, <3>3, <3>4, <3>5, <1>a
  <2> QED BY <1>2, <2>1, <2>2 DEF UP!CleanUp
<1>3. CASE UP!Registered
  <2>0. PICK u : /\ phase = "serving" /\ db.keys = {}
                 /\ u = IF db.users = {} THEN 1 ELSE UP!Min(db.users)
                 /\ db' = [db EXCEPT !.users = {u}, !.keys = {u}, !.marker = TRUE]
                 /\ UNCHANGED <<backups, phase, mine, crashes, legacy>>
        BY <1>3 DEF UP!Registered
  <2>1. u \in UP!Ids
    <3>1. 1 \in UP!Ids
          BY AccountAssumption DEF UP!Ids
    <3> QED BY <1>t, <2>0, <3>1, OwnerIsAUser, DatabaseFields
  <2>2. legacy.keys = {}
        BY <2>0 DEF MigrationInv, AccountsWait
  <2>3. {u} \in SUBSET UP!Ids /\ {u} # {} /\ backups' \subseteq CopyRecord
        BY <1>t, <2>0, <2>1 DEF StartTypes
  <2> QED BY <2>0, <2>2, <2>3, <1>a
<1> QED BY <1>1, <1>2, <1>3

\* MCSpec => []MigrationInv.  Whatever fails and whenever the process dies, for any
\* number of users and restarts: until a step is done its table has what the first
\* start found, and what it drops is in the copy made before (dbmigrate.go).
THEOREM MigrationInvariant == MCSpec => []MigrationInv
<1>1. MCInit => MigrationInv
      BY MigrationInitInv DEF MCInit
<1>2. MigrationInv /\ [MCNext]_<<part, formVars, keyVars, upgradeVars, ruleVars, branchVars,
                                 cacheVars, etagVars>> => MigrationInv'
  <2> SUFFICES ASSUME MigrationInv,
                      [MCNext]_<<part, formVars, keyVars, upgradeVars, ruleVars, branchVars,
                                 cacheVars, etagVars>>
               PROVE  MigrationInv'
      OBVIOUS
  <2>1. UP!UpgradeNext \/ UNCHANGED upgradeVars
        BY DEF MCNext
  <2>2. CASE UNCHANGED upgradeVars
        BY <2>2 DEF upgradeVars, MigrationInv, StartTypes, FoundIsWhole, StepsAreCounted,
                    AccountsWait, OwnCopyIsKept, RowsAreSomewhere, HoldersAreSomewhere,
                    FirstOwnersRows, FirstOwner
  <2> QED BY <2>1, <2>2, BootKeeps, ApplyKeeps, ApplyFailsKeeps, CleanUpKeeps DEF UP!UpgradeNext
<1> QED BY <1>1, <1>2, PTL DEF MCSpec

-----------------------------------------------------------------------------
(* The passkeys *)

NoTwice(s) == \A i, j \in 1..Len(s) : s[i] = s[j] => i = j

\* The elements of a list, with one more at its end.
LEMMA RangeOfAppend ==
  ASSUME NEW s \in Seq(PK!Keys), NEW k \in PK!Keys
  PROVE  /\ Append(s, k) \in Seq(PK!Keys) /\ Append(s, k) # <<>>
         /\ PK!Range(Append(s, k)) = PK!Range(s) \cup {k}
         /\ NoTwice(s) /\ k \notin PK!Range(s) => NoTwice(Append(s, k))
<1> DEFINE a == Append(s, k)
<1>1. /\ a \in Seq(PK!Keys) /\ Len(a) = Len(s) + 1 /\ Len(s) \in Nat /\ a[Len(s) + 1] = k
      /\ \A i \in 1..Len(s) : a[i] = s[i]
      OBVIOUS
<1>2. DOMAIN a = 1..(Len(s) + 1) /\ DOMAIN s = 1..Len(s)
      BY <1>1
<1>3. /\ a # <<>> /\ \A i \in 1..(Len(s) + 1) : i \in 1..Len(s) \/ i = Len(s) + 1
      /\ Len(s) + 1 \in 1..(Len(s) + 1) /\ \A i \in 1..Len(s) : i \in 1..(Len(s) + 1)
      BY <1>1
<1> HIDE DEF a
<1>4. PK!Range(a) = {a[i] : i \in 1..(Len(s) + 1)} /\ PK!Range(s) = {s[i] : i \in 1..Len(s)}
      BY <1>2 DEF PK!Range
<1>5. PK!Range(a) = PK!Range(s) \cup {k}
      BY <1>1, <1>3, <1>4
<1>6. ASSUME NoTwice(s), k \notin PK!Range(s) PROVE NoTwice(a)
  <2> SUFFICES ASSUME NEW i \in 1..(Len(s) + 1), NEW j \in 1..(Len(s) + 1), a[i] = a[j]
               PROVE  i = j
      BY <1>1 DEF NoTwice
  <2>1. \A n \in 1..Len(s) : a[n] # k
        BY <1>1, <1>4, <1>6
  <2>2. CASE i \in 1..Len(s) /\ j \in 1..Len(s)
        BY <1>1, <1>6, <2>2 DEF NoTwice
  <2> QED BY <1>1, <1>3, <2>1, <2>2
<1> QED BY <1>1, <1>3, <1>5, <1>6 DEF a

\* A list with the element at place n taken out.
LEMMA TakenOut ==
  ASSUME NEW S, NEW s \in Seq(S), NEW n \in 1..Len(s)
  PROVE  LET t == SubSeq(s, 1, n - 1) \o SubSeq(s, n + 1, Len(s))
         IN /\ t \in Seq(S) /\ Len(t) = Len(s) - 1
            /\ \A i \in 1..(Len(s) - 1) : t[i] = IF i < n THEN s[i] ELSE s[i + 1]
<1> DEFINE front == SubSeq(s, 1, n - 1)
           back == SubSeq(s, n + 1, Len(s))
<1>0. Len(s) \in Nat /\ n \in Nat /\ 1 <= n /\ n <= Len(s)
      OBVIOUS
<1>1. /\ front \in Seq(S) /\ Len(front) = n - 1
      /\ \A i \in 1..(n - 1) : front[i] = s[i]
      BY <1>0
<1>2. /\ back \in Seq(S) /\ Len(back) = Len(s) - n
      /\ \A i \in 1..(Len(s) - n) : back[i] = s[n + i]
      BY <1>0
<1> HIDE DEF front, back
<1>3. front \o back \in Seq(S) /\ Len(front \o back) = Len(s) - 1
  <2>1. front \o back \in Seq(S) /\ Len(front \o back) = Len(front) + Len(back)
        BY <1>1, <1>2, ConcatProperties
  <2>2. (n - 1) + (Len(s) - n) = Len(s) - 1
        BY <1>0
  <2> QED BY <1>1, <1>2, <2>1, <2>2
<1>4. ASSUME NEW i \in 1..(Len(s) - 1)
      PROVE  (front \o back)[i] = IF i < n THEN s[i] ELSE s[i + 1]
  <2>1. CASE i < n
        BY <1>0, <1>1, <1>2, <2>1
  <2>2. CASE ~(i < n)
    <3>1. (front \o back)[i] = back[i - (n - 1)]
          BY <1>0, <1>1, <1>2, <2>2
    <3>2. i - (n - 1) \in 1..(Len(s) - n) /\ n + (i - (n - 1)) = i + 1
          BY <1>0, <2>2
    <3>3. back[i - (n - 1)] = s[i + 1]
          BY <1>2, <3>2
    <3> QED BY <2>2, <3>1, <3>3
  <2> QED BY <2>1, <2>2
<1> QED BY <1>3, <1>4 DEF front, back

\* RemoveFirst takes one element out, and of a list without repeats nothing else.
LEMMA RangeOfRemoveFirst ==
  ASSUME NEW s \in Seq(PK!Keys), NEW k \in PK!Range(s), Len(s) > 1
  PROVE  /\ PK!RemoveFirst(s, k) \in Seq(PK!Keys) /\ PK!RemoveFirst(s, k) # <<>>
         /\ NoTwice(s) => /\ PK!Range(PK!RemoveFirst(s, k)) = PK!Range(s) \ {k}
                          /\ NoTwice(PK!RemoveFirst(s, k))
<1> DEFINE I == {i \in 1..Len(s) : s[i] = k}
           n == PK!Min(I)
           t == PK!RemoveFirst(s, k)
<1>0. DOMAIN s = 1..Len(s) /\ Len(s) \in Nat
      OBVIOUS
<1>1. PICK i0 \in 1..Len(s) : s[i0] = k
      BY <1>0 DEF PK!Range
<1>2. I \in SUBSET Nat /\ I # {}
      BY <1>0, <1>1
<1>3. n \in 1..Len(s) /\ s[n] = k
  <2>1. n \in I
        BY <1>2, MinIsLeast
  <2> QED BY <2>1
<1>4. t = SubSeq(s, 1, n - 1) \o SubSeq(s, n + 1, Len(s))
  <2>1. PK!SelectInSeq(s, LAMBDA v : v = k) = n
        BY <1>2 DEF PK!SelectInSeq
  <2> QED BY <1>1, <2>1 DEF PK!RemoveFirst, PK!RemoveAt
<1> HIDE DEF I, n, t
<1>5. t \in Seq(PK!Keys) /\ Len(t) = Len(s) - 1
      BY <1>3, <1>4, TakenOut
<1>7. t \in Seq(PK!Keys) /\ Len(t) = Len(s) - 1 /\ DOMAIN t = 1..(Len(s) - 1) /\ t # <<>>
      BY <1>0, <1>5
<1>8. \A i \in 1..(Len(s) - 1) : t[i] = IF i < n THEN s[i] ELSE s[i + 1]
      BY <1>3, <1>4, TakenOut
<1>9. ASSUME NoTwice(s) PROVE PK!Range(t) = PK!Range(s) \ {k} /\ NoTwice(t)
  <2>0. /\ PK!Range(t) = {t[i] : i \in 1..(Len(s) - 1)} /\ PK!Range(s) = {s[i] : i \in 1..Len(s)}
        BY <1>0, <1>7 DEF PK!Range
  <2>1. \A i \in 1..Len(s) : i # n => s[i] # k
        BY <1>3, <1>9 DEF NoTwice
  <2>2. \A i \in 1..(Len(s) - 1) :
           /\ i < n => i \in 1..Len(s) /\ i # n
           /\ ~(i < n) => i + 1 \in 1..Len(s) /\ i + 1 # n
        BY <1>0, <1>3
  <2>3. PK!Range(t) \subseteq PK!Range(s) \ {k}
        BY <1>8, <2>0, <2>1, <2>2
  <2>4. ASSUME NEW e \in PK!Range(s) \ {k} PROVE e \in PK!Range(t)
    <3>1. PICK i \in 1..Len(s) : s[i] = e
          BY <2>0
    <3>2. CASE i < n
      <4>1. i \in 1..(Len(s) - 1)
            BY <1>0, <1>3, <3>2
      <4> QED BY <1>8, <2>0, <3>1, <3>2, <4>1
    <3>3. CASE i > n
      <4>1. i - 1 \in 1..(Len(s) - 1) /\ ~(i - 1 < n) /\ (i - 1) + 1 = i
            BY <1>0, <1>3, <3>3
      <4>2. t[i - 1] = s[i]
            BY <1>8, <4>1
      <4> QED BY <2>0, <3>1, <4>1, <4>2
    <3>4. i # n
          BY <1>3, <2>4, <3>1
    <3> QED BY <1>3, <3>2, <3>3, <3>4
  <2>5. NoTwice(t)
    <3> SUFFICES ASSUME NEW i \in 1..(Len(s) - 1), NEW j \in 1..(Len(s) - 1), t[i] = t[j]
                 PROVE  i = j
        BY <1>7 DEF NoTwice
    <3> DEFINE p == IF i < n THEN i ELSE i + 1
               q == IF j < n THEN j ELSE j + 1
    <3>1. p \in 1..Len(s) /\ q \in 1..Len(s)
          BY <2>2
    <3>2. s[p] = s[q]
          BY <1>8
    <3>3. p = q
          BY <1>9, <3>1, <3>2 DEF NoTwice
    <3> QED BY <1>3, <3>3
  <2> QED BY <2>3, <2>4, <2>5
<1> QED BY <1>7, <1>9 DEF t

Ceremony == {cer \in [key : PK!Keys, kind : PK!Kinds, user : 0..MaxUsers] :
               cer.kind # "login" => cer.user \in PK!Users}

There(u) == users[u] # NoUser
Holds(u) == There(u) /\ users[u] # <<>>

\* What a handler has in hand at each place, and what it writes at "save": the list
\* it read with the one change, which is never the empty list.
HandlerShape(r) ==
  /\ r.at \in {"idle", "claim", "begin", "attach", "return", "session", "add", "update", "save"}
  /\ r.at = "begin" => r.user \in PK!Users
  /\ r.at \in {"attach", "return", "add", "update"} => r.c \in Ceremony
  /\ r.at = "attach" => r.c.user \in PK!Users
  /\ r.at = "save" =>
       /\ r.user \in PK!Users /\ r.seen \in Seq(PK!Keys) /\ r.c.key \in PK!Keys
       /\ \/ r.change = "add" /\ r.list = Append(r.seen, r.c.key) /\ r.c \in Ceremony
          \/ r.change = "update" /\ r.list = r.seen /\ r.seen # <<>> /\ r.c \in Ceremony
          \/ /\ r.change = "remove" /\ r.list = PK!RemoveFirst(r.seen, r.c.key)
             /\ Len(r.seen) > 1 /\ r.c.key \in PK!Range(r.seen)

KeyTypes ==
  /\ users \in [PK!Users -> Seq(PK!Keys) \cup {NoUser}]
  /\ made \in 0..MaxUsers /\ named \in 0..MaxUsers /\ begun \in 0..MaxCeremonies
  /\ pending \subseteq Ceremony /\ want \subseteq PK!Keys /\ crossed \in BOOLEAN
  /\ sessions \subseteq Handlers /\ tokens \subseteq {1} /\ DOMAIN req = Handlers
  /\ \A h \in Handlers : HandlerShape(req[h])

\* Rows are made in order, and a row with passkeys is the first there is.
FirstRowHolds ==
  /\ \A u \in PK!Users : There(u) => u <= made
  /\ \A u, v \in PK!Users : Holds(u) /\ There(v) => u <= v

\* A list about to be written goes to the first row, or to one that is gone for good.
SaversHaveTheFirstRow == \A h \in Handlers : req[h].at = "save" =>
  /\ req[h].user <= made
  /\ There(req[h].user) => \A v \in PK!Users : There(v) => req[h].user <= v

\* Until two writes cross, the rows hold the passkeys wanted, each once.
RowsAddUp == ~crossed =>
  /\ \A u \in PK!Users : There(u) => NoTwice(users[u])
  /\ \A k \in PK!Keys : k \in want <=> \E u \in PK!Users : There(u) /\ k \in PK!Range(users[u])

\* Who is signed in, or about to be, is so to an account with a passkey.
SignedInHaveAKey == ~crossed =>
  ((sessions # {} \/ \E h \in Handlers : req[h].at \in {"return", "session"}) => want # {})

KeysInv ==
  /\ KeyTypes /\ FirstRowHolds /\ SaversHaveTheFirstRow /\ RowsAddUp /\ SignedInHaveAKey

LEMMA NoUserIsNoList == \A s \in Seq(PK!Keys) : s # NoUser
<1>1. PK!Keys \subseteq Nat
      BY AccountAssumption DEF PK!Keys
<1>2. \A s \in Seq(PK!Keys) : s \in Seq(Nat)
      BY <1>1, SeqMonotonic
<1> QED BY <1>2, AccountAssumption

\* Lists of no key and of one.
LEMMA EmptyList ==
  /\ <<>> \in Seq(PK!Keys) /\ <<>> # NoUser /\ PK!Range(<<>>) = {} /\ NoTwice(<<>>)
<1>1. DOMAIN <<>> = {} /\ Len(<<>>) = 0 /\ <<>> \in Seq(PK!Keys)
      OBVIOUS
<1>2. PK!Range(<<>>) = {}
      BY <1>1, Zenon DEF PK!Range
<1>3. <<>> # NoUser
      BY <1>1, NoUserIsNoList
<1>4. NoTwice(<<>>)
      BY <1>1 DEF NoTwice
<1> QED BY <1>1, <1>2, <1>3, <1>4

LEMMA OneKeyList ==
  ASSUME NEW k \in PK!Keys
  PROVE  /\ <<k>> \in Seq(PK!Keys) /\ <<k>> # NoUser /\ <<k>> # <<>>
         /\ PK!Range(<<k>>) = {k} /\ NoTwice(<<k>>)
<1>1. <<k>> \in Seq(PK!Keys) /\ <<k>> # <<>> /\ Len(<<k>>) = 1 /\ <<k>>[1] = k
      OBVIOUS
<1>2. DOMAIN <<k>> = 1..1
      BY <1>1
<1>3. PK!Range(<<k>>) = {k}
      BY <1>1, <1>2 DEF PK!Range
<1>4. <<k>> # NoUser
      BY <1>1, NoUserIsNoList
<1>5. NoTwice(<<k>>)
      BY <1>1 DEF NoTwice
<1> QED BY <1>1, <1>3, <1>4, <1>5

\* The row of the owner: the first there is.
LEMMA OwnerIsFirst ==
  ASSUME KeysInv, PK!Known # {}
  PROVE  /\ PK!Owner \in PK!Users /\ There(PK!Owner) /\ users[PK!Owner] \in Seq(PK!Keys)
         /\ \A v \in PK!Users : There(v) => PK!Owner <= v
<1> DEFINE R == {u \in PK!Known : PK!Registered(u)}
<1>1. /\ PK!Known \in SUBSET Nat
      /\ \A u : u \in PK!Known <=> u \in PK!Users /\ There(u)
      BY AccountAssumption DEF PK!Known, PK!Users, PK!Exists, There
<1>2. \A u \in PK!Users : PK!Registered(u) <=> Holds(u)
      BY DEF PK!Registered, PK!Exists, PK!Empty, Holds, There
<1>3. CASE PK!Someone
  <2>1. R # {} /\ R \in SUBSET Nat
        BY <1>1, <1>2, <1>3 DEF PK!Someone, Holds
  <2>2. PK!Owner = PK!Min(R)
        BY <1>3 DEF PK!Owner
  <2> HIDE DEF R
  <2>3. PK!Owner \in R
        BY <2>1, <2>2, MinIsLeast
  <2>4. PK!Owner \in PK!Users /\ Holds(PK!Owner)
        BY <1>1, <1>2, <2>3 DEF R
  <2> QED BY <2>4 DEF KeysInv, KeyTypes, FirstRowHolds, Holds, There
<1>4. CASE ~PK!Someone
  <2>1. PK!Owner = PK!Min(PK!Known)
        BY <1>4 DEF PK!Owner
  <2>2. PK!Owner \in PK!Known /\ \A v \in PK!Known : PK!Owner <= v
        BY <1>1, <2>1, MinIsLeast
  <2>3. PK!Owner \in PK!Users /\ There(PK!Owner)
        BY <1>1, <2>2
  <2> QED BY <1>1, <2>2, <2>3 DEF KeysInv, KeyTypes, There
<1> QED BY <1>3, <1>4

\* The properties follow from the invariant.
LEMMA KeysGoal == KeysInv => PK!KeysTypeOK /\ PK!OneOwner /\ PK!OnlyCrossedWritesUndo
<1> SUFFICES ASSUME KeysInv
             PROVE  PK!KeysTypeOK /\ PK!OneOwner /\ PK!OnlyCrossedWritesUndo
    OBVIOUS
<1>0. KeyTypes
      BY DEF KeysInv
<1>r. \A u \in PK!Users : There(u) => PK!Range(users[u]) \subseteq PK!Keys
  <2> SUFFICES ASSUME NEW u \in PK!Users, There(u), NEW i \in DOMAIN users[u]
               PROVE  users[u][i] \in PK!Keys
      BY DEF PK!Range
  <2>1. users[u] \in Seq(PK!Keys)
        BY <1>0 DEF KeyTypes, There
  <2> QED BY <2>1
<1>1. PK!KeysTypeOK
  <2>1. \A u \in PK!Users : users[u] = NoUser \/ PK!Range(users[u]) \subseteq PK!Keys
        BY <1>r DEF There
  <2>2. pending \subseteq [key : PK!Keys, kind : PK!Kinds, user : 0..MaxUsers]
        BY <1>0 DEF KeyTypes, Ceremony
  <2> QED BY <1>0, <2>1, <2>2 DEF KeyTypes, PK!KeysTypeOK
<1>2. PK!OneOwner
  <2> DEFINE R == {u \in PK!Users : PK!Registered(u)}
  <2>1. \A u \in R : \A v \in R : u = v
    <3>1. \A u \in R : u \in Nat /\ Holds(u) /\ There(u) /\ u \in PK!Users
          BY AccountAssumption DEF PK!Registered, PK!Exists, PK!Empty, Holds, There, PK!Users
    <3>2. \A u \in R : \A v \in R : u <= v
          BY <3>1 DEF KeysInv, FirstRowHolds
    <3> QED BY <3>1, <3>2
  <2>2. R = {} \/ \E u \in R : R = {u}
        BY <2>1
  <2> HIDE DEF R
  <2>3. Cardinality(R) <= 1
        BY <2>2, FS_EmptySet, FS_Singleton
  <2>4. PK!Cardinality(R) = Cardinality(R)
        BY Zenon DEF PK!Cardinality, Cardinality
  <2> QED BY <2>3, <2>4 DEF R, PK!OneOwner
<1>3. PK!OnlyCrossedWritesUndo
  <2> SUFFICES ASSUME ~crossed
               PROVE  /\ UNION {PK!Range(users[u]) : u \in PK!Known} = want
                      /\ want = {} => sessions = {}
      BY DEF PK!OnlyCrossedWritesUndo
  <2>1. \A u : u \in PK!Known <=> u \in PK!Users /\ There(u)
        BY DEF PK!Known, PK!Exists, There
  <2>2. \A k \in PK!Keys : k \in want <=> \E u \in PK!Known : k \in PK!Range(users[u])
        BY <2>1 DEF KeysInv, RowsAddUp
  <2>3. want \subseteq PK!Keys
        BY <1>0 DEF KeyTypes
  <2>4. UNION {PK!Range(users[u]) : u \in PK!Known} = want
        BY <1>r, <2>1, <2>2, <2>3
  <2>5. want = {} => sessions = {}
        BY DEF KeysInv, SignedInHaveAKey
  <2> QED BY <2>4, <2>5
<1> QED BY <1>1, <1>2, <1>3

LEMMA KeysInitInv == PK!KeysInit => KeysInv
<1> SUFFICES ASSUME PK!KeysInit PROVE KeysInv
    OBVIOUS
<1>1. /\ pending = {} /\ begun = 0 /\ sessions = {} /\ tokens = {} /\ want = {}
      /\ crossed = FALSE /\ named \in {0, made} /\ DOMAIN req = Handlers
      /\ \A h \in Handlers : req[h].at = "idle"
      BY DEF PK!KeysInit, PK!Idle
<1>2. <<>> \in Seq(PK!Keys) /\ <<>> # NoUser /\ PK!Range(<<>>) = {} /\ NoTwice(<<>>)
      BY EmptyList
<1>3. 1 \in PK!Users /\ 1 \in 0..MaxUsers /\ 0 \in 0..MaxUsers /\ 0 \in 0..MaxCeremonies
      /\ \A u \in PK!Users : u \in Nat
      BY AccountAssumption DEF PK!Users
<1>4. /\ users \in [PK!Users -> Seq(PK!Keys) \cup {NoUser}] /\ made \in 0..MaxUsers
      /\ \A u \in PK!Users : There(u) => users[u] = <<>> /\ u = 1 /\ made = 1
  <2>1. CASE users = [u \in PK!Users |-> NoUser] /\ made = 0
        BY <1>3, <2>1 DEF There
  <2>2. CASE users = [u \in PK!Users |-> IF u = 1 THEN <<>> ELSE NoUser] /\ made = 1
        BY <1>2, <1>3, <2>2 DEF There
  <2> QED BY <2>1, <2>2 DEF PK!KeysInit, PK!Empty
<1>5. KeyTypes
  <2>1. named \in 0..MaxUsers
        BY <1>1, <1>3, <1>4
  <2>2. \A h \in Handlers : HandlerShape(req[h])
        BY <1>1 DEF HandlerShape
  <2> QED BY <1>1, <1>3, <1>4, <2>1, <2>2 DEF KeyTypes
<1>6. FirstRowHolds /\ RowsAddUp
      BY <1>1, <1>2, <1>3, <1>4 DEF FirstRowHolds, RowsAddUp, Holds
<1> QED BY <1>1, <1>5, <1>6 DEF KeysInv, SaversHaveTheFirstRow, SignedInHaveAKey

\* A step that leaves the rows alone: each handler rests, or comes to a place with
\* what belongs there.
LEMMA HandlersMove ==
  ASSUME KeysInv, UNCHANGED <<users, made, named, want, crossed>>, DOMAIN req' = Handlers,
         pending' \subseteq Ceremony, begun' \in 0..MaxCeremonies,
         sessions' \subseteq Handlers, tokens' \subseteq {1},
         sessions' \subseteq sessions \/ (~crossed => want # {}),
         \A g \in Handlers : \/ req'[g] = req[g]
                             \/ /\ HandlerShape(req'[g])
                                /\ req'[g].at = "save" =>
                                     /\ req'[g].user \in PK!Users /\ There(req'[g].user)
                                     /\ \A v \in PK!Users : There(v) => req'[g].user <= v
                                /\ req'[g].at \in {"return", "session"} /\ ~crossed => want # {}
  PROVE  KeysInv'
<1>1. KeyTypes /\ FirstRowHolds
      BY DEF KeysInv
<1>2. KeyTypes'
  <2>1. \A g \in Handlers : HandlerShape(req'[g])
        BY <1>1 DEF KeyTypes
  <2>2. \A g \in Handlers : HandlerShape(req[g])'
        BY <2>1 DEF HandlerShape
  <2> QED BY <1>1, <2>2 DEF KeyTypes
<1>3. \A u : There(u)' <=> There(u)
      BY DEF There
<1>4. \A u : Holds(u)' <=> Holds(u)
      BY DEF There, Holds
<1>5. SaversHaveTheFirstRow'
  <2> SUFFICES ASSUME NEW g \in Handlers, req'[g].at = "save"
               PROVE  /\ req'[g].user <= made
                      /\ There(req'[g].user) => \A v \in PK!Users : There(v) => req'[g].user <= v
      BY <1>3 DEF SaversHaveTheFirstRow, There
  <2>1. CASE req'[g] = req[g]
        BY <2>1 DEF KeysInv, SaversHaveTheFirstRow
  <2>2. CASE req'[g] # req[g]
        BY <1>1, <2>2 DEF FirstRowHolds
  <2> QED BY <2>1, <2>2
<1>6. FirstRowHolds' /\ RowsAddUp'
      BY <1>1, <1>3, <1>4 DEF KeysInv, FirstRowHolds, RowsAddUp, There
<1>7. SignedInHaveAKey'
  <2> SUFFICES ASSUME ~crossed,
                      sessions' # {} \/ \E g \in Handlers : req'[g].at \in {"return", "session"}
               PROVE  want # {}
      BY DEF SignedInHaveAKey
  <2>1. CASE sessions' # {}
        BY <2>1 DEF KeysInv, SignedInHaveAKey
  <2>2. ASSUME NEW g \in Handlers, req'[g].at \in {"return", "session"} PROVE want # {}
        BY <2>2 DEF KeysInv, SignedInHaveAKey
  <2> QED BY <2>1, <2>2
<1> QED BY <1>2, <1>5, <1>6, <1>7 DEF KeysInv

LEMMA GoesTo ==
  ASSUME KeysInv, NEW h \in Handlers, NEW new, PK!To(h, new)
  PROVE  /\ DOMAIN req' = Handlers /\ req'[h] = new
         /\ \A g \in Handlers : g # h => req'[g] = req[g]
BY DEF PK!To, KeysInv, KeyTypes

LEMMA CeremonyIsSaved ==
  ASSUME KeysInv, NEW kind \in PK!Kinds, NEW u \in 0..MaxUsers, kind # "login" => u \in PK!Users,
         NEW n, PK!SaveCeremony(kind, u, n)
  PROVE  pending' \subseteq Ceremony /\ begun' \in 0..MaxCeremonies
<1> DEFINE new == [key |-> begun + 1, kind |-> kind, user |-> u]
<1>1. begun \in 0..MaxCeremonies /\ pending \subseteq Ceremony
      BY DEF KeysInv, KeyTypes
<1>2. begun < MaxCeremonies /\ begun' = begun + 1
      BY DEF PK!SaveCeremony
<1>3. \A cer \in pending' : cer \in pending \/ cer = new
      BY Zenon DEF PK!SaveCeremony
<1>4. begun + 1 \in PK!Keys /\ begun' \in 0..MaxCeremonies
      BY <1>1, <1>2, AccountAssumption DEF PK!Keys
<1>5. new \in Ceremony
      BY <1>4 DEF Ceremony
<1> QED BY <1>1, <1>3, <1>4, <1>5

LEMMA CeremonyIsDropped ==
  ASSUME NEW cer, PK!Drop(cer)
  PROVE  pending' \subseteq pending
BY DEF PK!Drop

\* Where a handler is and what it has in hand.
LEMMA HandlerHas ==
  ASSUME KeysInv, NEW h \in Handlers
  PROVE  /\ HandlerShape(req[h]) /\ begun \in 0..MaxCeremonies /\ pending \subseteq Ceremony
         /\ sessions \subseteq Handlers /\ tokens \subseteq {1} /\ DOMAIN req = Handlers
         /\ ~crossed /\ (sessions # {} \/ req[h].at \in {"return", "session"}) => want # {}
BY DEF KeysInv, KeyTypes, SignedInHaveAKey

\* Signing up and in, but for the two statements that write a row.
LEMMA SignInsKeep ==
  ASSUME KeysInv, NEW h \in Handlers,
         \/ PK!RegisterBegin(h) \/ PK!RegisterSaved(h) \/ PK!RegisterFinish(h)
         \/ PK!LoginBegin(h) \/ PK!LoginFinish(h) \/ PK!UpdateRead(h)
         \/ PK!Return(h) \/ PK!StartSession(h) \/ PK!Logout(h)
  PROVE  KeysInv'
<1>0. /\ HandlerShape(req[h]) /\ begun \in 0..MaxCeremonies /\ pending \subseteq Ceremony
      /\ sessions \subseteq Handlers /\ tokens \subseteq {1} /\ DOMAIN req = Handlers
      BY HandlerHas
<1>i. HandlerShape(PK!Idle) /\ PK!Idle.at = "idle"
      BY DEF HandlerShape, PK!Idle
\* The handler comes to a place other than "save".
<1>m. ASSUME NEW new, PK!To(h, new), HandlerShape(new), new.at # "save",
             new.at \in {"return", "session"} /\ ~crossed => want # {},
             UNCHANGED <<users, made, named, want, crossed, tokens>>,
             pending' \subseteq Ceremony, begun' \in 0..MaxCeremonies,
             sessions' \subseteq Handlers,
             sessions' \subseteq sessions \/ (~crossed => want # {})
      PROVE  KeysInv'
      BY <1>0, <1>m, GoesTo, HandlersMove
<1>1. CASE PK!RegisterBegin(h)
  <2>1. HandlerShape([at |-> "claim"]) /\ [at |-> "claim"].at = "claim"
        BY DEF HandlerShape
  <2> QED BY <1>0, <1>1, <1>m, <2>1
          DEF PK!RegisterBegin, PK!table, PK!ceremonies, PK!grants, PK!past
<1>2. CASE PK!RegisterSaved(h)
  <2>1. PICK n \in 0..begun : PK!SaveCeremony("register", req[h].user, n)
        BY <1>2 DEF PK!RegisterSaved
  <2>2. /\ req[h].at = "begin" /\ PK!To(h, PK!Idle)
        /\ UNCHANGED <<users, made, named, want, crossed, tokens, sessions>>
        BY <1>2 DEF PK!RegisterSaved, PK!Ends, PK!table, PK!grants, PK!past
  <2>3. req[h].user \in PK!Users /\ req[h].user \in 0..MaxUsers
        BY <1>0, <2>2 DEF HandlerShape, PK!Users
  <2>4. "register" \in PK!Kinds
        BY DEF PK!Kinds
  <2>5. pending' \subseteq Ceremony /\ begun' \in 0..MaxCeremonies
        BY <2>1, <2>3, <2>4, CeremonyIsSaved
  <2> QED BY <1>0, <1>i, <1>m, <2>2, <2>5
<1>3. CASE PK!RegisterFinish(h)
  <2>1. PICK cer \in pending :
          /\ cer.kind = "register"
          /\ IF PK!Exists(cer.user) THEN PK!To(h, [at |-> "attach", c |-> cer]) /\ UNCHANGED pending
             ELSE PK!Drop(cer) /\ PK!Ends(h)
        BY <1>3 DEF PK!RegisterFinish
  <2>2. UNCHANGED <<users, made, named, want, crossed, tokens, sessions, begun>>
        BY <1>3 DEF PK!RegisterFinish, PK!table, PK!grants, PK!past
  <2>3. cer \in Ceremony /\ cer.user \in PK!Users
        BY <1>0, <2>1 DEF Ceremony
  <2>4. CASE PK!To(h, [at |-> "attach", c |-> cer]) /\ UNCHANGED pending
    <3>1. HandlerShape([at |-> "attach", c |-> cer]) /\ [at |-> "attach", c |-> cer].at = "attach"
          BY <2>3 DEF HandlerShape
    <3> QED BY <1>0, <1>m, <2>2, <2>4, <3>1
  <2>5. CASE PK!Drop(cer) /\ PK!To(h, PK!Idle)
        BY <1>0, <1>i, <1>m, <2>2, <2>5, CeremonyIsDropped
  <2> QED BY <2>1, <2>4, <2>5 DEF PK!Ends
<1>4. CASE PK!LoginBegin(h)
  <2>1. PICK n \in 0..begun : PK!SaveCeremony("login", 0, n)
        BY <1>4 DEF PK!LoginBegin
  <2>2. UNCHANGED <<users, made, named, want, crossed, tokens, sessions, req>>
        BY <1>4 DEF PK!LoginBegin, PK!table, PK!grants, PK!past
  <2>3. "login" \in PK!Kinds /\ 0 \in 0..MaxUsers
        BY AccountAssumption DEF PK!Kinds
  <2>4. pending' \subseteq Ceremony /\ begun' \in 0..MaxCeremonies
        BY <2>1, <2>3, CeremonyIsSaved
  <2> QED BY <1>0, <2>2, <2>4, HandlersMove
<1>5. CASE PK!LoginFinish(h)
  <2>1. PICK cer \in pending, k \in PK!Range(PK!OwnerKeys) :
          cer.kind = "login" /\ PK!To(h, [at |-> "update", c |-> cer, key |-> k])
        BY <1>5 DEF PK!LoginFinish
  <2>2. UNCHANGED <<users, made, named, want, crossed, tokens, sessions, begun, pending>>
        BY <1>5 DEF PK!LoginFinish, PK!table, PK!ceremonies, PK!grants, PK!past
  <2>3. /\ HandlerShape([at |-> "update", c |-> cer, key |-> k])
        /\ [at |-> "update", c |-> cer, key |-> k].at = "update"
        BY <1>0, <2>1 DEF HandlerShape
  <2> QED BY <1>0, <1>m, <2>1, <2>2, <2>3
<1>6. CASE PK!UpdateRead(h)
  <2>1. /\ req[h].at = "update"
        /\ UNCHANGED <<users, made, named, want, crossed, tokens, sessions, begun>>
        BY <1>6 DEF PK!UpdateRead, PK!table, PK!grants, PK!past
  <2>2. CASE PK!Drop(req[h].c) /\ PK!To(h, PK!Idle)
        BY <1>0, <1>i, <1>m, <2>1, <2>2, CeremonyIsDropped
  <2>3. CASE /\ PK!Known # {} /\ req[h].key \in PK!Range(PK!OwnerKeys)
             /\ PK!Reading(h, "update", users[PK!Owner], req[h].c) /\ UNCHANGED pending
    <3> DEFINE new == [at |-> "save", change |-> "update", user |-> PK!Owner,
                       seen |-> users[PK!Owner], list |-> users[PK!Owner], c |-> req[h].c]
    <3>1. PK!To(h, new)
          BY <2>3 DEF PK!Reading
    <3>2. users[PK!Owner] # <<>>
      <4>1. PK!OwnerKeys = users[PK!Owner]
            BY <2>3 DEF PK!OwnerKeys
      <4> QED BY <2>3, <4>1, EmptyList
    <3>3. /\ PK!Owner \in PK!Users /\ There(PK!Owner) /\ users[PK!Owner] \in Seq(PK!Keys)
          /\ \A v \in PK!Users : There(v) => PK!Owner <= v
          BY <2>3, OwnerIsFirst
    <3>4. req[h].c \in Ceremony /\ req[h].c.key \in PK!Keys
          BY <1>0, <2>1 DEF HandlerShape, Ceremony
    <3>5. HandlerShape(new) /\ new.at = "save" /\ new.user = PK!Owner
          BY <3>2, <3>3, <3>4 DEF HandlerShape
    <3> HIDE DEF new
    <3> QED BY <1>0, <2>1, <2>3, <3>1, <3>3, <3>5, GoesTo, HandlersMove
  <2> QED BY <1>6, <2>2, <2>3 DEF PK!UpdateRead, PK!Ends
<1>7. CASE PK!Return(h)
  <2>1. /\ req[h].at = "return" /\ pending' \subseteq pending
        /\ UNCHANGED <<users, made, named, want, crossed, tokens, sessions, begun>>
        BY <1>7, CeremonyIsDropped DEF PK!Return, PK!table, PK!grants, PK!past
  <2>2. HandlerShape([at |-> "session"]) /\ [at |-> "session"].at = "session"
        BY DEF HandlerShape
  <2>3. PK!To(h, PK!Idle) \/ PK!To(h, [at |-> "session"])
        BY <1>7 DEF PK!Return, PK!Ends
  <2>4. ~crossed => want # {}
        BY <2>1, HandlerHas
  <2> QED BY <1>0, <1>i, <1>m, <2>1, <2>2, <2>3, <2>4
<1>8. CASE PK!StartSession(h)
  <2>1. /\ req[h].at = "session" /\ sessions' = sessions \cup {h} /\ PK!To(h, PK!Idle)
        /\ UNCHANGED <<users, made, named, want, crossed, tokens, begun, pending>>
        BY <1>8 DEF PK!StartSession, PK!Ends, PK!table, PK!ceremonies, PK!past
  <2>2. ~crossed => want # {}
        BY <2>1, HandlerHas
  <2> QED BY <1>0, <1>i, <1>m, <2>1, <2>2
<1>9. CASE PK!Logout(h)
  <2>1. /\ sessions' = sessions \ {h}
        /\ UNCHANGED <<users, made, named, want, crossed, tokens, begun, pending, req>>
        BY <1>9 DEF PK!Logout, PK!table, PK!ceremonies, PK!past
  <2> QED BY <1>0, <2>1, HandlersMove
<1> QED BY <1>1, <1>2, <1>3, <1>4, <1>5, <1>6, <1>7, <1>8, <1>9

\* A signed-in owner's reads, and the API tokens.
LEMMA OwnerReadsKeep ==
  ASSUME KeysInv,
         \/ \E h \in Handlers : PK!AddBegin(h) \/ PK!AddFinish(h) \/ PK!AddRead(h) \/ PK!RemoveRead(h)
         \/ PK!APITokens
  PROVE  KeysInv'
<1>0. /\ begun \in 0..MaxCeremonies /\ pending \subseteq Ceremony
      /\ sessions \subseteq Handlers /\ tokens \subseteq {1} /\ DOMAIN req = Handlers
      BY DEF KeysInv, KeyTypes
<1>o. PK!Known # {} => /\ PK!Owner \in PK!Users /\ There(PK!Owner)
                       /\ users[PK!Owner] \in Seq(PK!Keys)
                       /\ \A v \in PK!Users : There(v) => PK!Owner <= v
      BY OwnerIsFirst
<1>1. ASSUME NEW h \in Handlers, PK!AddBegin(h) PROVE KeysInv'
  <2>1. PICK n \in 0..begun : PK!SaveCeremony("add", PK!Owner, n)
        BY <1>1 DEF PK!AddBegin
  <2>2. PK!Known # {} /\ UNCHANGED <<users, made, named, want, crossed, tokens, sessions, req>>
        BY <1>1 DEF PK!AddBegin, PK!table, PK!grants, PK!past
  <2>3. "add" \in PK!Kinds /\ PK!Owner \in PK!Users /\ PK!Owner \in 0..MaxUsers
        BY <1>o, <2>2 DEF PK!Kinds, PK!Users
  <2>4. pending' \subseteq Ceremony /\ begun' \in 0..MaxCeremonies
        BY <2>1, <2>3, CeremonyIsSaved
  <2> QED BY <1>0, <2>2, <2>4, HandlersMove
<1>2. ASSUME NEW h \in Handlers, PK!AddFinish(h) PROVE KeysInv'
  <2>1. PICK cer \in pending : PK!To(h, [at |-> "add", c |-> cer])
        BY <1>2 DEF PK!AddFinish
  <2>2. UNCHANGED <<users, made, named, want, crossed, tokens, sessions, begun, pending>>
        BY <1>2 DEF PK!AddFinish, PK!table, PK!ceremonies, PK!grants, PK!past
  <2>3. HandlerShape([at |-> "add", c |-> cer]) /\ [at |-> "add", c |-> cer].at = "add"
        BY <1>0 DEF HandlerShape
  <2> QED BY <1>0, <2>1, <2>2, <2>3, GoesTo, HandlersMove
\* Comes to "save" with the list of the first row and the change.
<1>s. ASSUME NEW h \in Handlers, NEW change, NEW list, NEW cer, PK!Known # {},
             PK!Reading(h, change, list, cer), cer.key \in PK!Keys,
             \/ change = "add" /\ list = Append(users[PK!Owner], cer.key) /\ cer \in Ceremony
             \/ /\ change = "remove" /\ list = PK!RemoveFirst(users[PK!Owner], cer.key)
                /\ Len(users[PK!Owner]) > 1 /\ cer.key \in PK!Range(users[PK!Owner]),
             UNCHANGED <<users, made, named, want, crossed, tokens, sessions, begun, pending>>
      PROVE  KeysInv'
  <2> DEFINE new == [at |-> "save", change |-> change, user |-> PK!Owner,
                     seen |-> users[PK!Owner], list |-> list, c |-> cer]
  <2>1. PK!To(h, new)
        BY <1>s DEF PK!Reading
  <2>2. HandlerShape(new) /\ new.at = "save" /\ new.user = PK!Owner
        BY <1>o, <1>s DEF HandlerShape
  <2> HIDE DEF new
  <2> QED BY <1>0, <1>o, <1>s, <2>1, <2>2, GoesTo, HandlersMove
<1>3. ASSUME NEW h \in Handlers, PK!AddRead(h) PROVE KeysInv'
  <2>1. /\ req[h].at = "add" /\ PK!Known # {}
        /\ PK!Reading(h, "add", Append(users[PK!Owner], req[h].c.key), req[h].c)
        /\ UNCHANGED <<users, made, named, want, crossed, tokens, sessions, begun, pending>>
        BY <1>3 DEF PK!AddRead, PK!table, PK!ceremonies, PK!grants, PK!past
  <2>2. req[h].c \in Ceremony /\ req[h].c.key \in PK!Keys
        BY <2>1, HandlerHas DEF HandlerShape, Ceremony
  <2> QED BY <1>s, <2>1, <2>2
<1>4. ASSUME NEW h \in Handlers, PK!RemoveRead(h) PROVE KeysInv'
  <2>1. PICK k \in PK!Range(users[PK!Owner]) :
          /\ PK!Removable(users[PK!Owner])
          /\ PK!Reading(h, "remove", PK!RemoveFirst(users[PK!Owner], k), [key |-> k])
        BY <1>4 DEF PK!RemoveRead
  <2>2. /\ PK!Known # {}
        /\ UNCHANGED <<users, made, named, want, crossed, tokens, sessions, begun, pending>>
        BY <1>4 DEF PK!RemoveRead, PK!table, PK!ceremonies, PK!grants, PK!past
  <2>3. k \in PK!Keys
    <3>1. PICK i \in DOMAIN users[PK!Owner] : k = users[PK!Owner][i]
          BY <2>1 DEF PK!Range
    <3> QED BY <1>o, <2>2, <3>1
  <2>4. Len(users[PK!Owner]) > 1
        BY <2>1 DEF PK!Removable
  <2>5. [key |-> k].key = k
        OBVIOUS
  <2> QED BY <1>s, <2>1, <2>2, <2>3, <2>4, <2>5
<1>5. CASE PK!APITokens
  <2>1. /\ tokens' \subseteq {1}
        /\ UNCHANGED <<users, made, named, want, crossed, sessions, begun, pending, req>>
        BY <1>5 DEF PK!APITokens, PK!CreateAPIToken, PK!DeleteAPIToken, PK!table,
                    PK!ceremonies, PK!past
  <2> QED BY <1>0, <2>1, HandlersMove
<1> QED BY <1>1, <1>2, <1>3, <1>4, <1>5

SomeoneStays == (\E u \in PK!Users : Holds(u)) => \E u \in PK!Users : Holds(u)'

\* A step that makes a row, or takes rows without passkeys away, and moves one
\* handler to a place where it has written nothing.
LEMMA EmptyRowsComeAndGo ==
  ASSUME KeysInv, NEW h \in Handlers, NEW new, PK!To(h, new), HandlerShape(new),
         new.at \notin {"save", "return", "session"},
         users' \in [PK!Users -> Seq(PK!Keys) \cup {NoUser}],
         made' \in {made, made + 1}, made' <= MaxUsers, named' \in 0..MaxUsers,
         \A u \in PK!Users : \/ users'[u] = users[u]
                             \/ users[u] = <<>> /\ users'[u] = NoUser
                             \/ made' = made + 1 /\ u = made + 1 /\ users'[u] = <<>>,
         pending' \subseteq pending, UNCHANGED <<begun, sessions, tokens, want, crossed>>
  PROVE  KeysInv' /\ SomeoneStays
<1>0. /\ begun \in 0..MaxCeremonies /\ pending \subseteq Ceremony /\ made \in 0..MaxUsers
      /\ sessions \subseteq Handlers /\ tokens \subseteq {1} /\ KeyTypes /\ FirstRowHolds
      BY DEF KeysInv, KeyTypes
<1>n. made \in Nat /\ made' \in Nat /\ made <= made' /\ \A u \in PK!Users : u \in Nat
      BY <1>0, AccountAssumption DEF PK!Users
<1>g. /\ DOMAIN req' = Handlers /\ req'[h] = new
      /\ \A g \in Handlers : g # h => req'[g] = req[g]
      BY GoesTo
<1>1. \A u \in PK!Users : There(u) => u <= made
      BY <1>0 DEF FirstRowHolds
<1>2. ~There(made + 1) \/ made + 1 \notin PK!Users
      BY <1>1, <1>n
<1>3. \A u \in PK!Users : /\ There(u)' => There(u) \/ (made' = made + 1 /\ u = made + 1)
                          /\ Holds(u)' <=> Holds(u)
                          /\ Holds(u) => users'[u] = users[u]
      BY <1>2, NoUserIsNoList, EmptySeq DEF There, Holds
<1>4. KeyTypes'
  <2>1. \A g \in Handlers : HandlerShape(req'[g])
        BY <1>0, <1>g DEF KeyTypes
  <2>2. \A g \in Handlers : HandlerShape(req[g])'
        BY <2>1 DEF HandlerShape
  <2>3. made' \in 0..MaxUsers
        BY <1>n
  <2> QED BY <1>0, <1>g, <2>2, <2>3 DEF KeyTypes
<1>5. FirstRowHolds'
  <2>1. \A u \in PK!Users : There(u)' => u <= made'
        BY <1>1, <1>3, <1>n
  <2>2. \A u, v \in PK!Users : Holds(u)' /\ There(v)' => u <= v
    <3> SUFFICES ASSUME NEW u \in PK!Users, NEW v \in PK!Users, Holds(u)', There(v)'
                 PROVE  u <= v
        OBVIOUS
    <3>1. Holds(u) /\ u <= made
          BY <1>1, <1>3 DEF Holds
    <3>2. There(v) => u <= v
          BY <1>0, <3>1 DEF FirstRowHolds
    <3> QED BY <1>3, <1>n, <3>1, <3>2
  <2> QED BY <2>1, <2>2 DEF FirstRowHolds
<1>6. SaversHaveTheFirstRow'
  <2> SUFFICES ASSUME NEW g \in Handlers, req'[g].at = "save"
               PROVE  /\ req'[g].user <= made'
                      /\ users'[req'[g].user] # NoUser =>
                           \A v \in PK!Users : users'[v] # NoUser => req'[g].user <= v
      BY DEF SaversHaveTheFirstRow, There
  <2>1. req'[g] = req[g]
        BY <1>g
  <2>2. /\ req[g].user \in PK!Users /\ req[g].user <= made
        /\ There(req[g].user) => \A v \in PK!Users : There(v) => req[g].user <= v
        BY <1>0, <2>1 DEF KeysInv, KeyTypes, HandlerShape, SaversHaveTheFirstRow
  <2>3. users'[req[g].user] # NoUser => There(req[g].user)
    <3>1. req[g].user # made + 1
          BY <1>n, <2>2
    <3> QED BY <1>3, <2>2, <3>1 DEF There
  <2>4. \A v \in PK!Users : users'[v] # NoUser => There(v) \/ v = made + 1
        BY <1>3 DEF There
  <2> QED BY <1>n, <2>1, <2>2, <2>3, <2>4
<1>7. RowsAddUp'
  <2> SUFFICES ASSUME ~crossed
               PROVE  /\ \A u \in PK!Users : There(u)' => NoTwice(users'[u])
                      /\ \A k \in PK!Keys : k \in want <=>
                            \E u \in PK!Users : There(u)' /\ k \in PK!Range(users'[u])
      BY DEF RowsAddUp
  <2>1. PK!Range(<<>>) = {} /\ NoTwice(<<>>)
        BY EmptyList
  <2>2. \A u \in PK!Users : There(u)' => users'[u] = <<>> \/ (There(u) /\ users'[u] = users[u])
        BY <1>3 DEF There
  <2>3. \A u \in PK!Users : There(u)' => NoTwice(users'[u])
        BY <2>1, <2>2 DEF KeysInv, RowsAddUp
  <2>4. ASSUME NEW k, NEW u \in PK!Users, There(u), k \in PK!Range(users[u])
        PROVE  There(u)' /\ k \in PK!Range(users'[u])
    <3>1. Holds(u)
          BY <2>1, <2>4 DEF Holds
    <3> QED BY <1>3, <2>4, <3>1 DEF Holds
  <2>5. ASSUME NEW k, NEW u \in PK!Users, There(u)', k \in PK!Range(users'[u])
        PROVE  There(u) /\ k \in PK!Range(users[u])
        BY <2>1, <2>2, <2>5
  <2>6. \A k \in PK!Keys : k \in want <=> \E u \in PK!Users : There(u) /\ k \in PK!Range(users[u])
        BY DEF KeysInv, RowsAddUp
  <2>7. \A k : (\E u \in PK!Users : There(u) /\ k \in PK!Range(users[u]))
               <=> \E u \in PK!Users : There(u)' /\ k \in PK!Range(users'[u])
        BY <2>4, <2>5
  <2> QED BY <2>3, <2>6, <2>7
<1>8. SignedInHaveAKey'
  <2> SUFFICES ASSUME ~crossed,
                      sessions # {} \/ \E g \in Handlers : req'[g].at \in {"return", "session"}
               PROVE  want # {}
      BY DEF SignedInHaveAKey
  <2> QED BY <1>g DEF KeysInv, SignedInHaveAKey
<1>9. SomeoneStays
      BY <1>3 DEF SomeoneStays
<1> QED BY <1>4, <1>5, <1>6, <1>7, <1>8, <1>9 DEF KeysInv

\* ClaimUnregisteredUser takes no row with passkeys, and makes rows in order.
LEMMA ClaimKeeps ==
  ASSUME KeysInv, NEW h \in Handlers, PK!Claim(h)
  PROVE  KeysInv' /\ SomeoneStays
<1>0. /\ KeyTypes /\ made \in 0..MaxUsers /\ named \in 0..MaxUsers
      /\ users \in [PK!Users -> Seq(PK!Keys) \cup {NoUser}]
      BY DEF KeysInv, KeyTypes
<1>n. made \in Nat /\ MaxUsers \in Nat /\ made <= MaxUsers
      BY <1>0, AccountAssumption
<1>1. UNCHANGED <<pending, begun, sessions, tokens, want, crossed>>
      BY DEF PK!Claim, PK!ceremonies, PK!grants, PK!past
<1> DEFINE open == {u \in PK!Known : users[u] = <<>>}
<1>o. open \in SUBSET PK!Users /\ open \in SUBSET Nat /\ \A u \in open : users[u] = <<>>
      BY AccountAssumption DEF PK!Known, PK!Users
<1>2. CASE \E gone \in SUBSET (open \ {PK!Min(open)}) :
             /\ open # {} /\ PK!To(h, [at |-> "begin", user |-> PK!Min(open)])
             /\ users' = [u \in PK!Users |-> IF u \in gone THEN NoUser ELSE users[u]]
             /\ UNCHANGED <<made, named>>
  <2>1. PICK gone \in SUBSET (open \ {PK!Min(open)}) :
             /\ open # {} /\ PK!To(h, [at |-> "begin", user |-> PK!Min(open)])
             /\ users' = [u \in PK!Users |-> IF u \in gone THEN NoUser ELSE users[u]]
             /\ UNCHANGED <<made, named>>
        BY <1>2
  <2>2. PK!Min(open) \in PK!Users
        BY <1>o, <2>1, MinIsLeast
  <2>3. \A u \in gone : users[u] = <<>>
        BY <1>o
  <2> DEFINE new == [at |-> "begin", user |-> PK!Min(open)]
  <2> HIDE DEF open
  <2>4. HandlerShape(new) /\ new.at = "begin"
        BY <2>2 DEF HandlerShape
  <2>5. users' \in [PK!Users -> Seq(PK!Keys) \cup {NoUser}]
        BY <1>0, <2>1
  <2>6. \A u \in PK!Users : users'[u] = users[u] \/ (users[u] = <<>> /\ users'[u] = NoUser)
        BY <2>1, <2>3
  <2>7. PK!To(h, new)
        BY <2>1
  <2> HIDE DEF new
  <2> QED BY <1>0, <1>1, <1>n, <2>1, <2>4, <2>5, <2>6, <2>7, EmptyRowsComeAndGo
<1>3. CASE /\ made < MaxUsers /\ made' = made + 1 /\ named' = made + 1
           /\ users' = [users EXCEPT ![made + 1] = <<>>]
           /\ PK!To(h, [at |-> "begin", user |-> made + 1])
  <2> DEFINE new == [at |-> "begin", user |-> made + 1]
  <2>1. made + 1 \in PK!Users /\ made + 1 \in 0..MaxUsers
        BY <1>3, <1>n DEF PK!Users
  <2>2. HandlerShape(new) /\ new.at = "begin"
        BY <2>1 DEF HandlerShape
  <2>3. users' \in [PK!Users -> Seq(PK!Keys) \cup {NoUser}]
        BY <1>0, <1>3, <2>1, EmptyList
  <2>4. \A u \in PK!Users : users'[u] = users[u] \/ (u = made + 1 /\ users'[u] = <<>>)
        BY <1>0, <1>3, <2>1
  <2>5. PK!To(h, new) /\ made' <= MaxUsers
        BY <1>3, <1>n
  <2> HIDE DEF new
  <2> QED BY <1>1, <1>3, <2>1, <2>2, <2>3, <2>4, <2>5, EmptyRowsComeAndGo
<1>4. CASE PK!To(h, PK!Idle) /\ UNCHANGED <<users, made, named>>
  <2>1. HandlerShape(PK!Idle) /\ PK!Idle.at = "idle"
        BY DEF HandlerShape, PK!Idle
  <2> QED BY <1>0, <1>1, <1>4, <1>n, <2>1, EmptyRowsComeAndGo
<1> QED BY <1>2, <1>3, <1>4 DEF PK!Claim, PK!Ends, PK!table, PK!Empty

\* The first passkey lands where no other row has one, and the others go.
LEMMA FirstKeyKeeps ==
  ASSUME KeysInv, NEW h \in Handlers, PK!AddFirstCredential(h)
  PROVE  KeysInv' /\ SomeoneStays
<1> DEFINE u == req[h].c.user
           k == req[h].c.key
           abandoned == IF PK!Exists(u) /\ users[u] = <<>>
                        THEN {v \in PK!Known \ {u} : users[v] = <<>>} ELSE {}
           left == [v \in PK!Users |-> IF v \in abandoned THEN NoUser ELSE users[v]]
<1>0. /\ KeyTypes /\ made \in 0..MaxUsers /\ named \in 0..MaxUsers /\ pending \subseteq Ceremony
      /\ users \in [PK!Users -> Seq(PK!Keys) \cup {NoUser}]
      BY DEF KeysInv, KeyTypes
<1>1. /\ req[h].at = "attach" /\ UNCHANGED <<made, named, begun, sessions, tokens, crossed>>
      BY DEF PK!AddFirstCredential, PK!grants
<1>2. req[h].c \in Ceremony /\ u \in PK!Users /\ k \in PK!Keys
      BY <1>1, HandlerHas DEF HandlerShape, Ceremony
<1>3. \A v \in PK!Users : PK!Exists(v) <=> There(v)
      BY DEF PK!Exists, There
<1>4. CASE /\ PK!Attaches(u) /\ users' = [left EXCEPT ![u] = <<k>>] /\ want' = {k}
           /\ PK!To(h, [at |-> "return", c |-> req[h].c]) /\ UNCHANGED pending
  <2> DEFINE new == [at |-> "return", c |-> req[h].c]
  <2>1. /\ There(u) /\ users[u] = <<>>
        /\ \A v \in PK!Users : v # u /\ There(v) => users[v] = <<>>
        BY <1>2, <1>3, <1>4 DEF PK!Attaches, PK!Known, PK!Empty
  <2>2. \A v \in PK!Users : v # u => left[v] = NoUser
    <3>1. \A v \in PK!Users : v # u /\ There(v) => v \in abandoned
          BY <1>2, <1>3, <2>1 DEF PK!Known
    <3> HIDE DEF abandoned
    <3> QED BY <3>1 DEF There
  <2>3. left \in [PK!Users -> Seq(PK!Keys) \cup {NoUser}]
        BY <1>0
  <2> HIDE DEF left, abandoned
  <2>4. /\ users' \in [PK!Users -> Seq(PK!Keys) \cup {NoUser}] /\ users'[u] = <<k>>
        /\ \A v \in PK!Users : v # u => users'[v] = NoUser
        BY <1>2, <1>4, <2>2, <2>3, OneKeyList
  <2>5. u <= made /\ u \in Nat
        BY <1>2, <2>1 DEF KeysInv, FirstRowHolds, PK!Users
  <2>6. HandlerShape(new) /\ new.at = "return" /\ PK!To(h, new)
        BY <1>2, <1>4 DEF HandlerShape
  <2> HIDE DEF new
  <2>7. /\ DOMAIN req' = Handlers /\ req'[h] = new
        /\ \A g \in Handlers : g # h => req'[g] = req[g]
        BY <2>6, GoesTo
  <2> HIDE DEF u, k
  <2>8. KeyTypes'
    <3>1. \A g \in Handlers : HandlerShape(req'[g])
          BY <1>0, <2>6, <2>7 DEF KeyTypes
    <3>2. \A g \in Handlers : HandlerShape(req[g])'
          BY <3>1 DEF HandlerShape
    <3>3. want' \subseteq PK!Keys
          BY <1>2, <1>4
    <3> QED BY <1>0, <1>1, <1>4, <2>4, <2>7, <3>2, <3>3 DEF KeyTypes
  <2>9. \A v \in PK!Users : There(v)' <=> v = u
        BY <1>2, <2>4, OneKeyList DEF There
  <2>10. FirstRowHolds'
        BY <1>1, <2>5, <2>9 DEF FirstRowHolds, Holds
  <2>11. SaversHaveTheFirstRow'
    <3> SUFFICES ASSUME NEW g \in Handlers, req'[g].at = "save"
                 PROVE  /\ req'[g].user <= made
                        /\ users'[req'[g].user] # NoUser =>
                             \A v \in PK!Users : users'[v] # NoUser => req'[g].user <= v
        BY <1>1 DEF SaversHaveTheFirstRow, There
    <3>1. req'[g] = req[g]
          BY <2>6, <2>7
    <3>2. req[g].user \in PK!Users /\ req[g].user <= made
          BY <1>0, <3>1 DEF KeysInv, KeyTypes, HandlerShape, SaversHaveTheFirstRow
    <3> QED BY <2>4, <2>5, <3>1, <3>2
  <2>12. RowsAddUp'
    <3>1. /\ \A v \in PK!Users : There(v)' => NoTwice(users'[v])
          /\ \A j \in PK!Keys : j \in want' <=>
                \E v \in PK!Users : There(v)' /\ j \in PK!Range(users'[v])
          BY <1>2, <1>4, <2>4, <2>9, OneKeyList
    <3> QED BY <3>1 DEF RowsAddUp
  <2>13. want' # {}
        BY <1>4
  <2>14. SomeoneStays
        BY <1>2, <2>4, OneKeyList DEF SomeoneStays, Holds, There
  <2> QED BY <2>8, <2>10, <2>11, <2>12, <2>13, <2>14 DEF KeysInv, SignedInHaveAKey
<1>5. CASE /\ users' = [left EXCEPT ![u] = IF @ = <<>> THEN NoUser ELSE @]
           /\ PK!Drop(req[h].c) /\ PK!To(h, PK!Idle) /\ UNCHANGED want
  <2>1. \A v \in abandoned : users[v] = <<>>
        OBVIOUS
  <2> HIDE DEF abandoned
  <2>2. \A v \in PK!Users : left[v] = users[v] \/ (users[v] = <<>> /\ left[v] = NoUser)
        BY <2>1
  <2>3. left \in [PK!Users -> Seq(PK!Keys) \cup {NoUser}]
        BY <1>0
  <2> HIDE DEF left
  <2>4. /\ users' \in [PK!Users -> Seq(PK!Keys) \cup {NoUser}]
        /\ \A v \in PK!Users : users'[v] = left[v] \/ (left[v] = <<>> /\ users'[v] = NoUser)
        BY <1>2, <1>5, <2>3
  <2>5. \A v \in PK!Users : users'[v] = users[v] \/ (users[v] = <<>> /\ users'[v] = NoUser)
        BY <2>2, <2>4, EmptyList
  <2>6. HandlerShape(PK!Idle) /\ PK!Idle.at = "idle"
        BY DEF HandlerShape, PK!Idle
  <2>7. pending' \subseteq pending
        BY <1>5, CeremonyIsDropped
  <2>8. made' <= MaxUsers
        BY <1>0, <1>1, AccountAssumption
  <2> QED BY <1>0, <1>1, <1>5, <2>4, <2>5, <2>6, <2>7, <2>8, EmptyRowsComeAndGo
<1> QED BY <1>4, <1>5 DEF PK!AddFirstCredential, PK!Empty, PK!Ends

LEMMA ListHasAKey ==
  ASSUME NEW s \in Seq(PK!Keys), s # <<>>
  PROVE  \E k \in PK!Keys : k \in PK!Range(s)
<1>1. 1 \in DOMAIN s /\ s[1] \in PK!Keys
      OBVIOUS
<1> QED BY <1>1 DEF PK!Range

\* What a handler at "save" is about to write.
LEMMA SavedList ==
  ASSUME NEW r, HandlerShape(r), r.at = "save"
  PROVE  /\ r.user \in PK!Users /\ r.seen \in Seq(PK!Keys) /\ r.c.key \in PK!Keys
         /\ r.change \in {"add", "update", "remove"} /\ r.list \in Seq(PK!Keys) /\ r.list # <<>>
         /\ r.change # "remove" => r.c \in Ceremony
         /\ NoTwice(r.seen) /\ (r.change = "add" => r.c.key \notin PK!Range(r.seen)) =>
              /\ NoTwice(r.list)
              /\ r.change = "add" => PK!Range(r.list) = PK!Range(r.seen) \cup {r.c.key}
              /\ r.change = "update" => PK!Range(r.list) = PK!Range(r.seen)
              /\ r.change = "remove" => PK!Range(r.list) = PK!Range(r.seen) \ {r.c.key}
<1>1. r.user \in PK!Users /\ r.seen \in Seq(PK!Keys) /\ r.c.key \in PK!Keys
      BY DEF HandlerShape
<1>2. CASE r.change = "add" /\ r.list = Append(r.seen, r.c.key) /\ r.c \in Ceremony
      BY <1>1, <1>2, RangeOfAppend
<1>3. CASE r.change = "update" /\ r.list = r.seen /\ r.seen # <<>> /\ r.c \in Ceremony
      BY <1>1, <1>3
<1>4. CASE /\ r.change = "remove" /\ r.list = PK!RemoveFirst(r.seen, r.c.key)
           /\ Len(r.seen) > 1 /\ r.c.key \in PK!Range(r.seen)
      BY <1>1, <1>4, RangeOfRemoveFirst
<1> QED BY <1>2, <1>3, <1>4 DEF HandlerShape

\* saveCredentials: a list is written to the row it was read from, or to none.
LEMMA SaveKeeps ==
  ASSUME KeysInv, NEW h \in Handlers, PK!SaveCredentials(h)
  PROVE  KeysInv' /\ SomeoneStays
<1> DEFINE r == req[h]
           u == r.user
<1>0. /\ KeyTypes /\ made \in 0..MaxUsers /\ named \in 0..MaxUsers /\ pending \subseteq Ceremony
      /\ users \in [PK!Users -> Seq(PK!Keys) \cup {NoUser}] /\ want \subseteq PK!Keys
      /\ FirstRowHolds /\ \A v \in PK!Users : v \in Nat
      BY AccountAssumption DEF KeysInv, KeyTypes, PK!Users
<1>1. /\ r.at = "save" /\ UNCHANGED <<made, named, begun, sessions, tokens>>
      /\ users' = [users EXCEPT ![u] = IF PK!Exists(u) THEN r.list ELSE @]
      /\ crossed' = (crossed \/ users[u] # r.seen
                             \/ (r.change = "add" /\ r.c.key \in PK!Range(r.seen)))
      /\ want' = IF r.change = "add" THEN want \cup {r.c.key}
                 ELSE IF r.change = "remove" THEN want \ {r.c.key} ELSE want
      BY DEF PK!SaveCredentials, PK!grants
<1>2. HandlerShape(r)
      BY HandlerHas
<1>3. /\ u \in PK!Users /\ r.seen \in Seq(PK!Keys) /\ r.c.key \in PK!Keys
      /\ r.change \in {"add", "update", "remove"} /\ r.list \in Seq(PK!Keys) /\ r.list # <<>>
      BY <1>1, <1>2, SavedList
<1>4. u <= made /\ (There(u) => \A v \in PK!Users : There(v) => u <= v)
      BY <1>1 DEF KeysInv, SaversHaveTheFirstRow
<1>5. \E new : /\ PK!To(h, new) /\ HandlerShape(new) /\ new.at # "save" /\ pending' \subseteq pending
  <2>1. CASE r.change = "add"
    <3>1. PK!To(h, [at |-> "return", c |-> r.c]) /\ UNCHANGED pending
          BY <2>1 DEF PK!SaveCredentials
    <3>2. r.c \in Ceremony
          BY <1>1, <1>2, <2>1, SavedList
    <3>3. HandlerShape([at |-> "return", c |-> r.c]) /\ [at |-> "return", c |-> r.c].at = "return"
          BY <3>2 DEF HandlerShape
    <3> QED BY <3>1, <3>3
  <2>2. CASE r.change = "update"
    <3>1. PK!To(h, [at |-> "session"]) /\ PK!Drop(r.c)
          BY <2>2 DEF PK!SaveCredentials
    <3>2. HandlerShape([at |-> "session"]) /\ [at |-> "session"].at = "session"
          BY DEF HandlerShape
    <3> QED BY <3>1, <3>2, CeremonyIsDropped
  <2>3. CASE r.change = "remove"
    <3>1. PK!To(h, PK!Idle) /\ UNCHANGED pending
          BY <2>3 DEF PK!SaveCredentials, PK!Ends
    <3>2. HandlerShape(PK!Idle) /\ PK!Idle.at = "idle"
          BY DEF HandlerShape, PK!Idle
    <3> QED BY <3>1, <3>2
  <2> QED BY <1>3, <2>1, <2>2, <2>3
<1>6. PICK new : PK!To(h, new) /\ HandlerShape(new) /\ new.at # "save" /\ pending' \subseteq pending
      BY <1>5
<1>7. /\ DOMAIN req' = Handlers /\ req'[h] = new
      /\ \A g \in Handlers : g # h => req'[g] = req[g]
      BY <1>6, GoesTo
<1>8. /\ users'[u] = IF There(u) THEN r.list ELSE NoUser
      /\ \A v \in PK!Users : v # u => users'[v] = users[v]
      /\ users' \in [PK!Users -> Seq(PK!Keys) \cup {NoUser}]
      BY <1>0, <1>1, <1>3 DEF PK!Exists, There
<1>s. ~crossed' => users[u] = r.seen /\ ~crossed /\ (r.change = "add" => r.c.key \notin PK!Range(r.seen))
      BY <1>1
<1>l. NoTwice(r.seen) /\ (r.change = "add" => r.c.key \notin PK!Range(r.seen)) =>
              /\ NoTwice(r.list)
              /\ r.change = "add" => PK!Range(r.list) = PK!Range(r.seen) \cup {r.c.key}
              /\ r.change = "update" => PK!Range(r.list) = PK!Range(r.seen)
              /\ r.change = "remove" => PK!Range(r.list) = PK!Range(r.seen) \ {r.c.key}
      BY <1>1, <1>2, SavedList
<1>k. PICK k0 \in PK!Keys : k0 \in PK!Range(r.list)
      BY <1>3, ListHasAKey
<1>w. want' \subseteq PK!Keys /\ crossed' \in BOOLEAN
  <2>1. crossed \in BOOLEAN
        BY <1>0 DEF KeyTypes
  <2> QED BY <1>0, <1>1, <1>3, <2>1
<1> DEFINE list == r.list
           seen == r.seen
           key == r.c.key
           change == r.change
<1> HIDE DEF r, u, list, seen, key, change
<1>9. \A v \in PK!Users : There(v)' <=> There(v)
      BY <1>3, <1>8, NoUserIsNoList DEF There
<1>10. There(u) => \A v \in PK!Users : v # u /\ There(v) => users[v] = <<>>
  <2> SUFFICES ASSUME There(u), NEW v \in PK!Users, v # u, There(v), users[v] # <<>> PROVE FALSE
      OBVIOUS
  <2>1. v <= u /\ u <= v
        BY <1>0, <1>3, <1>4 DEF FirstRowHolds, Holds
  <2> QED BY <1>0, <1>3, <2>1
<1>11. KeyTypes'
  <2>1. \A g \in Handlers : HandlerShape(req'[g])
        BY <1>0, <1>6, <1>7 DEF KeyTypes
  <2>2. \A g \in Handlers : HandlerShape(req[g])'
        BY <2>1 DEF HandlerShape
  <2> QED BY <1>0, <1>1, <1>6, <1>7, <1>8, <1>w, <2>2 DEF KeyTypes
<1>12. FirstRowHolds'
  <2>1. \A v \in PK!Users : There(v)' => v <= made'
        BY <1>0, <1>1, <1>9 DEF FirstRowHolds
  <2>2. ASSUME NEW v \in PK!Users, NEW w \in PK!Users, Holds(v)', There(w)' PROVE v <= w
    <3>1. There(v) /\ There(w)
          BY <1>9, <2>2 DEF Holds
    <3>2. CASE v = u
          BY <1>4, <3>1, <3>2
    <3>3. CASE v # u
      <4>1. Holds(v)
            BY <1>8, <2>2, <3>1, <3>3 DEF Holds, There
      <4> QED BY <1>0, <3>1, <4>1 DEF FirstRowHolds
    <3> QED BY <3>2, <3>3
  <2> QED BY <2>1, <2>2 DEF FirstRowHolds
<1>13. SaversHaveTheFirstRow'
  <2> SUFFICES ASSUME NEW g \in Handlers, req'[g].at = "save"
               PROVE  /\ req'[g].user <= made
                      /\ users'[req'[g].user] # NoUser =>
                           \A v \in PK!Users : users'[v] # NoUser => req'[g].user <= v
      BY <1>1 DEF SaversHaveTheFirstRow, There
  <2>1. req'[g] = req[g]
        BY <1>6, <1>7
  <2>2. /\ req[g].user \in PK!Users /\ req[g].user <= made
        /\ There(req[g].user) => \A v \in PK!Users : There(v) => req[g].user <= v
        BY <1>0, <2>1 DEF KeysInv, KeyTypes, HandlerShape, SaversHaveTheFirstRow
  <2>3. \A v \in PK!Users : users'[v] # NoUser <=> There(v)
        BY <1>9 DEF There
  <2> QED BY <2>1, <2>2, <2>3
<1>14. ASSUME ~crossed'
       PROVE  /\ \A v \in PK!Users : There(v)' => NoTwice(users'[v])
              /\ \A k \in PK!Keys : k \in want' <=> k \in PK!Range(list)
              /\ \A k \in PK!Keys : k \in PK!Range(list) <=>
                    \E v \in PK!Users : There(v)' /\ k \in PK!Range(users'[v])
  <2>1. /\ users[u] = seen /\ ~crossed /\ (change = "add" => key \notin PK!Range(seen))
        BY <1>14, <1>s DEF seen, key, change
  <2>2. There(u)
        BY <1>3, <2>1, NoUserIsNoList DEF There, seen
  <2>3. /\ \A v \in PK!Users : There(v) => NoTwice(users[v])
        /\ \A k \in PK!Keys : k \in want <=> \E v \in PK!Users : There(v) /\ k \in PK!Range(users[v])
        BY <2>1 DEF KeysInv, RowsAddUp
  <2>4. \A k \in PK!Keys : k \in want <=> k \in PK!Range(seen)
    <3>1. \A v \in PK!Users : v # u /\ There(v) => PK!Range(users[v]) = {}
          BY <1>10, <2>2, EmptyList
    <3> QED BY <1>3, <2>1, <2>2, <2>3, <3>1
  <2>5. /\ NoTwice(list)
        /\ change = "add" => PK!Range(list) = PK!Range(seen) \cup {key}
        /\ change = "update" => PK!Range(list) = PK!Range(seen)
        /\ change = "remove" => PK!Range(list) = PK!Range(seen) \ {key}
    <3>1. NoTwice(seen)
          BY <1>3, <2>1, <2>2, <2>3
    <3> QED BY <1>l, <2>1, <3>1 DEF list, seen, key, change
  <2>6. /\ change \in {"add", "update", "remove"}
        /\ want' = IF change = "add" THEN want \cup {key}
                   ELSE IF change = "remove" THEN want \ {key} ELSE want
        BY <1>1, <1>3 DEF change, key
  <2>7. \A k \in PK!Keys : k \in want' <=> k \in PK!Range(list)
        BY <2>4, <2>5, <2>6
  <2>8. users'[u] = list /\ list # NoUser
        BY <1>3, <1>8, <2>2, NoUserIsNoList DEF list
  <2>9. \A v \in PK!Users : v # u /\ There(v)' => users'[v] = <<>>
        BY <1>8, <1>9, <1>10, <2>2
  <2>10. \A v \in PK!Users : There(v)' => NoTwice(users'[v])
        BY <2>5, <2>8, <2>9, EmptyList
  <2>11. \A k \in PK!Range(list) : \E v \in PK!Users : There(v)' /\ k \in PK!Range(users'[v])
        BY <1>3, <2>8 DEF There
  <2>12. \A v \in PK!Users : There(v)' => PK!Range(users'[v]) \subseteq PK!Range(list)
        BY <2>8, <2>9, EmptyList
  <2> QED BY <2>7, <2>10, <2>11, <2>12
<1>15. RowsAddUp'
       BY <1>14 DEF RowsAddUp
<1>16. SignedInHaveAKey'
  <2>1. ~crossed' => want' # {}
        BY <1>14, <1>k DEF list
  <2> QED BY <2>1 DEF SignedInHaveAKey
<1>17. SomeoneStays
  <2>1. ASSUME NEW v \in PK!Users, Holds(v) PROVE Holds(v)'
    <3>1. CASE v = u
          BY <1>3, <1>8, <1>9, <2>1, <3>1 DEF Holds, There, list
    <3>2. CASE v # u
          BY <1>8, <2>1, <3>2 DEF Holds, There
    <3> QED BY <3>1, <3>2
  <2> QED BY <2>1 DEF SomeoneStays
<1> QED BY <1>11, <1>12, <1>13, <1>15, <1>16, <1>17 DEF KeysInv

\* The operator's reset empties the owner's row.
LEMMA ResetKeeps == KeysInv /\ PK!ResetCommand => KeysInv'
<1> SUFFICES ASSUME KeysInv, PK!ResetCommand PROVE KeysInv'
    OBVIOUS
<1>0. /\ KeyTypes /\ FirstRowHolds /\ users \in [PK!Users -> Seq(PK!Keys) \cup {NoUser}]
      /\ \A v \in PK!Users : v \in Nat
      BY AccountAssumption DEF KeysInv, KeyTypes, PK!Users
<1>1. PICK b \in BOOLEAN : PK!ResetPasskeys(b)
      BY DEF PK!ResetCommand
<1>2. /\ PK!Someone /\ users' = [users EXCEPT ![PK!Owner] = <<>>]
      /\ pending' = {} /\ sessions' = {} /\ tokens' \subseteq tokens /\ want' = {}
      /\ crossed' = (crossed \/ \E h \in Handlers : req[h].at \in {"session", "return"})
      /\ UNCHANGED <<made, named, begun, req>>
      BY <1>1 DEF PK!ResetPasskeys, PK!Empty
<1>3. PK!Known # {}
      BY <1>2 DEF PK!Someone, PK!Registered, PK!Known
<1>4. /\ PK!Owner \in PK!Users /\ There(PK!Owner)
      /\ \A v \in PK!Users : There(v) => PK!Owner <= v
      BY <1>3, OwnerIsFirst
<1> DEFINE u == PK!Owner
<1> HIDE DEF u
<1>5. /\ u \in PK!Users /\ There(u) /\ users' = [users EXCEPT ![u] = <<>>]
      /\ \A v \in PK!Users : There(v) => u <= v
      BY <1>2, <1>4 DEF u
<1>6. /\ users' \in [PK!Users -> Seq(PK!Keys) \cup {NoUser}] /\ users'[u] = <<>>
      /\ \A v \in PK!Users : v # u => users'[v] = users[v]
      BY <1>0, <1>5, EmptyList
<1>7. \A v \in PK!Users : There(v)' <=> There(v)
      BY <1>5, <1>6, EmptyList DEF There
<1>8. \A v \in PK!Users : There(v)' => users'[v] = <<>>
  <2> SUFFICES ASSUME NEW v \in PK!Users, v # u, There(v), users[v] # <<>> PROVE FALSE
      BY <1>6, <1>7
  <2>1. v <= u /\ u <= v
        BY <1>0, <1>5 DEF FirstRowHolds, Holds
  <2> QED BY <1>0, <1>5, <2>1
<1>9. KeyTypes'
  <2>1. \A g \in Handlers : HandlerShape(req'[g])
        BY <1>0, <1>2 DEF KeyTypes
  <2>2. \A g \in Handlers : HandlerShape(req[g])'
        BY <2>1 DEF HandlerShape
  <2>3. crossed' \in BOOLEAN
        BY <1>0, <1>2 DEF KeyTypes
  <2> QED BY <1>0, <1>2, <1>6, <2>2, <2>3 DEF KeyTypes
<1>10. FirstRowHolds'
       BY <1>0, <1>2, <1>7, <1>8 DEF FirstRowHolds, Holds
<1>11. SaversHaveTheFirstRow'
  <2> SUFFICES ASSUME NEW g \in Handlers, req[g].at = "save"
               PROVE  /\ req[g].user <= made
                      /\ users'[req[g].user] # NoUser =>
                           \A v \in PK!Users : users'[v] # NoUser => req[g].user <= v
      BY <1>2 DEF SaversHaveTheFirstRow, There
  <2>2. /\ req[g].user \in PK!Users /\ req[g].user <= made
        /\ There(req[g].user) => \A v \in PK!Users : There(v) => req[g].user <= v
        BY <1>0 DEF KeysInv, KeyTypes, HandlerShape, SaversHaveTheFirstRow
  <2>3. \A v \in PK!Users : users'[v] # NoUser <=> There(v)
        BY <1>7 DEF There
  <2> QED BY <2>2, <2>3
<1>12. RowsAddUp'
       BY <1>2, <1>8, EmptyList DEF RowsAddUp
<1>13. SignedInHaveAKey'
       BY <1>2 DEF SignedInHaveAKey
<1> QED BY <1>9, <1>10, <1>11, <1>12, <1>13 DEF KeysInv

\* Every step keeps the invariant, and all but the reset keep the account.
LEMMA KeysStep ==
  ASSUME KeysInv, PK!KeysNext
  PROVE  KeysInv' /\ (PK!ResetCommand \/ SomeoneStays)
<1>1. CASE PK!ResetCommand
      BY <1>1, ResetKeeps
<1>2. CASE PK!APITokens
  <2>1. users' = users
        BY <1>2 DEF PK!APITokens, PK!CreateAPIToken, PK!DeleteAPIToken, PK!table
  <2> QED BY <1>2, <2>1, OwnerReadsKeep DEF SomeoneStays, Holds, There
<1>3. ASSUME NEW h \in Handlers, PK!SignUpAndIn(h) \/ PK!OwnPasskeys(h)
      PROVE  KeysInv' /\ SomeoneStays
  <2>1. CASE PK!Claim(h)
        BY <2>1, ClaimKeeps
  <2>2. CASE PK!AddFirstCredential(h)
        BY <2>2, FirstKeyKeeps
  <2>3. CASE PK!SaveCredentials(h)
        BY <2>3, SaveKeeps
  <2>4. CASE \/ PK!RegisterBegin(h) \/ PK!RegisterSaved(h) \/ PK!RegisterFinish(h)
             \/ PK!LoginBegin(h) \/ PK!LoginFinish(h) \/ PK!UpdateRead(h)
             \/ PK!Return(h) \/ PK!StartSession(h) \/ PK!Logout(h)
    <3>1. users' = users
          BY <2>4 DEF PK!RegisterBegin, PK!RegisterSaved, PK!RegisterFinish, PK!LoginBegin,
                      PK!LoginFinish, PK!UpdateRead, PK!Return, PK!StartSession, PK!Logout, PK!table
    <3> QED BY <2>4, <3>1, SignInsKeep DEF SomeoneStays, Holds, There
  <2>5. CASE PK!AddBegin(h) \/ PK!AddFinish(h) \/ PK!AddRead(h) \/ PK!RemoveRead(h)
    <3>1. users' = users
          BY <2>5 DEF PK!AddBegin, PK!AddFinish, PK!AddRead, PK!RemoveRead, PK!table
    <3> QED BY <2>5, <3>1, OwnerReadsKeep DEF SomeoneStays, Holds, There
  <2> QED BY <1>3, <2>1, <2>2, <2>3, <2>4, <2>5 DEF PK!SignUpAndIn, PK!OwnPasskeys
<1> QED BY <1>1, <1>2, <1>3 DEF PK!KeysNext

\* MCSpec => []KeysInv.  However registrations, additions, removals, sign-ins and
\* resets interleave, for any number of them: rows are made in order and only the
\* first has passkeys; a list is written back to that row (auth/store.go).
THEOREM KeysInvariant == MCSpec => []KeysInv
<1>1. MCInit => KeysInv
      BY KeysInitInv DEF MCInit
<1>2. KeysInv /\ [MCNext]_<<part, formVars, keyVars, upgradeVars, ruleVars, branchVars,
                            cacheVars, etagVars>> => KeysInv'
  <2> SUFFICES ASSUME KeysInv,
                      [MCNext]_<<part, formVars, keyVars, upgradeVars, ruleVars, branchVars,
                                 cacheVars, etagVars>>
               PROVE  KeysInv'
      OBVIOUS
  <2>1. PK!KeysNext \/ UNCHANGED keyVars
        BY DEF MCNext
  <2>2. CASE UNCHANGED keyVars
    <3>1. /\ UNCHANGED <<users, made, named, want, crossed>> /\ req' = req
          /\ pending' = pending /\ begun' = begun /\ sessions' = sessions /\ tokens' = tokens
          BY <2>2 DEF keyVars
    <3> QED BY <3>1, HandlersMove DEF KeysInv, KeyTypes
  <2> QED BY <2>1, <2>2, KeysStep
<1> QED BY <1>1, <1>2, PTL DEF MCSpec

\* MCSpec => OwnerKeepsTheAccount.  At most one row has passkeys, the last passkey
\* goes only with a reset, what the rows hold is what was asked for until two writes
\* cross, and an upgrade cut off anywhere keeps the owner's rows and copies the rest.
THEOREM OwnerKeepsTheAccountHolds == MCSpec => OwnerKeepsTheAccount
<1>1. KeysInv /\ [MCNext]_<<part, formVars, keyVars, upgradeVars, ruleVars, branchVars,
                            cacheVars, etagVars>>
      => [(PK!Someone /\ \A u \in PK!Users : ~PK!Registered(u)') => PK!ResetCommand]_(PK!keyVars)
  <2> SUFFICES ASSUME KeysInv, MCNext, ~UNCHANGED PK!keyVars, PK!Someone,
                      \A u \in PK!Users : ~PK!Registered(u)'
               PROVE  PK!ResetCommand
      BY DEF formVars, keyVars, upgradeVars, ruleVars, branchVars, cacheVars, etagVars, PK!keyVars
  <2>1. PK!KeysNext
        BY DEF MCNext, keyVars, PK!keyVars
  <2>2. \A u \in PK!Users : PK!Registered(u) <=> Holds(u)
        BY DEF PK!Registered, PK!Exists, PK!Empty, Holds, There
  <2>3. \A u \in PK!Users : ~Holds(u)'
        BY DEF PK!Registered, PK!Exists, PK!Empty, Holds, There
  <2>4. \E u \in PK!Users : Holds(u)
        BY <2>2 DEF PK!Someone
  <2> QED BY <2>1, <2>3, <2>4, KeysStep DEF SomeoneStays
<1>2. KeysInv => (part = "passkeys" =>
                    PK!KeysTypeOK /\ PK!OneOwner /\ PK!OnlyCrossedWritesUndo)
      BY KeysGoal
<1>3. MigrationInv => (part = "upgrade" =>
                    UP!UpgradeTypeOK /\ UP!NothingIsLostUnsaved /\ UP!TheOwnersRowsStay)
      BY MigrationGoal
<1> QED BY <1>1, <1>2, <1>3, KeysInvariant, MigrationInvariant, PTL
        DEF MCSpec, OwnerKeepsTheAccount, PK!LastPasskeyStays

-----------------------------------------------------------------------------
(* What the rows say *)

\* A switch takes the first of its cases that applies, or the last.
LEMMA FirstCase ==
  ASSUME NEW cases, NEW n \in Nat \ {0}, Len(cases) = n, DOMAIN cases = 1..n
  PROVE  \E k \in 1..n : /\ cases[k][1] \/ k = n
                         /\ \A j \in 1..k - 1 : ~cases[j][1]
                         /\ RU!Switch(cases) = cases[k][2]
<1> DEFINE S == {i \in 1..n : cases[i][1] \/ i = n}
<1>1. n \in S /\ S \subseteq Nat
      OBVIOUS
<1>2. PICK k \in S : \A j \in S : k <= j
      BY <1>1, LeastNatural
<1>3. \A j \in 1..k - 1 : ~cases[j][1]
      BY <1>2
<1>4. \E i \in DOMAIN cases : (cases[i][1] \/ i = Len(cases)) /\ \A j \in 1..i - 1 : ~cases[j][1]
      BY <1>2, <1>3
<1> DEFINE i == CHOOSE i \in DOMAIN cases : /\ cases[i][1] \/ i = Len(cases)
                                           /\ \A j \in 1..i - 1 : ~cases[j][1]
<1>5. i \in 1..n /\ (cases[i][1] \/ i = n) /\ \A j \in 1..i - 1 : ~cases[j][1]
  <2> HIDE DEF S
  <2> QED BY <1>4, Zenon
<1>6. RU!Switch(cases) = cases[i][2]
      BY DEF RU!Switch
<1> QED BY <1>5, <1>6

\* The reason why auto-merge is not offered.
LEMMA AutoMergeReason ==
  ASSUME NEW pr
  PROVE  LET said == RU!AutoMergeNotOffered(pr) IN
         \/ pr.forge = "forgejo" /\ pr.draft /\ said = "draft"
         \/ pr.auto = "on" /\ said = "already_on"
         \/ pr.auto = "not_allowed" /\ said = "not_allowed"
         \/ pr.empty /\ said = "empty"
         \/ pr.merge = "conflicting" /\ said = "conflict"
         \/ pr.stacked /\ said = "stacked"
         \/ /\ ~(pr.forge = "forgejo" /\ pr.draft) /\ pr.auto # "on" /\ pr.auto # "not_allowed"
            /\ ~pr.empty /\ pr.merge # "conflicting" /\ ~pr.stacked /\ said = "ready_to_merge"
<1> DEFINE cases == << <<pr.forge = "forgejo" /\ pr.draft, "draft">>,
                     <<pr.auto = "on", "already_on">>,
                     <<pr.auto = "not_allowed", "not_allowed">>,
                     <<pr.empty, "empty">>,
                     <<pr.merge = "conflicting", "conflict">>,
                     <<pr.stacked, "stacked">>,
                     <<TRUE, "ready_to_merge">> >>
<1>1. Len(cases) = 7 /\ DOMAIN cases = 1..7 /\ 7 \in Nat \ {0}
      OBVIOUS
<1>2. /\ cases[1][1] <=> pr.forge = "forgejo" /\ pr.draft
      /\ cases[2][1] <=> pr.auto = "on"
      /\ cases[3][1] <=> pr.auto = "not_allowed"
      /\ cases[4][1] <=> pr.empty
      /\ cases[5][1] <=> pr.merge = "conflicting"
      /\ cases[6][1] <=> pr.stacked
      OBVIOUS
<1>3. /\ cases[1][2] = "draft"
      /\ cases[2][2] = "already_on"
      /\ cases[3][2] = "not_allowed"
      /\ cases[4][2] = "empty"
      /\ cases[5][2] = "conflict"
      /\ cases[6][2] = "stacked"
      /\ cases[7][2] = "ready_to_merge"
      OBVIOUS
<1>4. RU!AutoMergeNotOffered(pr) = RU!Switch(cases)
      BY DEF RU!AutoMergeNotOffered
<1> HIDE DEF cases
<1>5. PICK k \in 1..7 : /\ cases[k][1] \/ k = 7
                        /\ \A j \in 1..k - 1 : ~cases[j][1]
                        /\ RU!Switch(cases) = cases[k][2]
      BY <1>1, FirstCase, Zenon
<1>6. k = 1 \/ k = 2 \/ k = 3 \/ k = 4 \/ k = 5 \/ k = 6 \/ k = 7
      BY <1>5
<1> QED BY <1>2, <1>3, <1>4, <1>5, <1>6

\* What the armed badge says.
LEMMA BadgeIs ==
  ASSUME NEW pr
  PROVE  LET said == RU!AutoMergeStatusOf(pr) IN
         \/ pr.merge = "conflicting" /\ said = "stopped_conflict"
         \/ pr.ci = "failure" /\ pr.approval = "only" /\ said = "waiting_approval"
         \/ pr.ci = "failure" /\ said = "stopped_checks"
         \/ pr.empty /\ said = "stopped_empty"
         \/ pr.draft /\ said = "waiting_draft"
         \/ pr.stacked /\ said = "waiting_stacked"
         \/ pr.ci \in {"none", "pending"} /\ said = "waiting_checks"
         \/ pr.merge # "mergeable" /\ said = "waiting_forge"
         \/ /\ pr.merge # "conflicting" /\ ~(pr.ci = "failure" /\ pr.approval = "only")
            /\ pr.ci # "failure" /\ ~pr.empty /\ ~pr.draft /\ ~pr.stacked
            /\ pr.ci \notin {"none", "pending"} /\ pr.merge = "mergeable"
            /\ said = "merges_next"
<1> DEFINE cases == << <<pr.merge = "conflicting", "stopped_conflict">>,
                     <<pr.ci = "failure" /\ pr.approval = "only", "waiting_approval">>,
                     <<pr.ci = "failure", "stopped_checks">>,
                     <<pr.empty, "stopped_empty">>,
                     <<pr.draft, "waiting_draft">>,
                     <<pr.stacked, "waiting_stacked">>,
                     <<pr.ci \in {"none", "pending"}, "waiting_checks">>,
                     <<pr.merge # "mergeable", "waiting_forge">>,
                     <<TRUE, "merges_next">> >>
<1> DEFINE n == 9
<1>1. Len(cases) = n /\ DOMAIN cases = 1..n /\ n \in Nat \ {0}
      OBVIOUS
<1>2. /\ cases[1][1] <=> pr.merge = "conflicting"
      /\ cases[2][1] <=> pr.ci = "failure" /\ pr.approval = "only"
      /\ cases[3][1] <=> pr.ci = "failure"
      /\ cases[4][1] <=> pr.empty
      /\ cases[5][1] <=> pr.draft
      /\ cases[6][1] <=> pr.stacked
      /\ cases[7][1] <=> pr.ci \in {"none", "pending"}
      /\ cases[8][1] <=> pr.merge # "mergeable"
      OBVIOUS
<1>3. /\ cases[1][2] = "stopped_conflict"
      /\ cases[2][2] = "waiting_approval"
      /\ cases[3][2] = "stopped_checks"
      /\ cases[4][2] = "stopped_empty"
      /\ cases[5][2] = "waiting_draft"
      /\ cases[6][2] = "waiting_stacked"
      /\ cases[7][2] = "waiting_checks"
      /\ cases[8][2] = "waiting_forge"
      /\ cases[9][2] = "merges_next"
      OBVIOUS
<1>4. RU!AutoMergeStatusOf(pr) = RU!Switch(cases)
      BY DEF RU!AutoMergeStatusOf
<1> HIDE DEF cases, n
<1>5. PICK k \in 1..n : /\ cases[k][1] \/ k = n
                        /\ \A j \in 1..k - 1 : ~cases[j][1]
                        /\ RU!Switch(cases) = cases[k][2]
      BY <1>1, FirstCase, Zenon
<1> USE DEF n
<1>6. k = 1 \/ k = 2 \/ k = 3 \/ k = 4 \/ k = 5 \/ k = 6 \/ k = 7 \/ k = 8 \/ k = 9
      BY <1>5
<1> QED BY <1>2, <1>3, <1>4, <1>5, <1>6

\* The block of a row and its fix.
LEMMA StatusFix ==
  ASSUME NEW pr, NEW repoAuto
  PROVE  LET said == RU!StatusOf(pr, repoAuto) IN
         \/ pr.empty /\ said = [code |-> "already_up_to_date", fix |-> "none"]
         \/ /\ RU!MergeBlock(pr) = "behind"
            /\ said = [code |-> "behind", fix |-> RU!FixFor(pr, repoAuto)]
         \/ /\ ~pr.empty /\ RU!MergeBlock(pr) # "behind"
            /\ said = [code |-> RU!MergeBlock(pr), fix |-> "none"]
<1> DEFINE cases == << <<pr.empty, [code |-> "already_up_to_date", fix |-> "none"]>>,
                     <<RU!MergeBlock(pr) = "behind", [code |-> "behind", fix |-> RU!FixFor(pr, repoAuto)]>>,
                     <<TRUE, [code |-> RU!MergeBlock(pr), fix |-> "none"]>> >>
<1>1. Len(cases) = 3 /\ DOMAIN cases = 1..3 /\ 3 \in Nat \ {0}
      OBVIOUS
<1>2. /\ cases[1][1] <=> pr.empty
      /\ cases[2][1] <=> RU!MergeBlock(pr) = "behind"
      OBVIOUS
<1>3. /\ cases[1][2] = [code |-> "already_up_to_date", fix |-> "none"]
      /\ cases[2][2] = [code |-> "behind", fix |-> RU!FixFor(pr, repoAuto)]
      /\ cases[3][2] = [code |-> RU!MergeBlock(pr), fix |-> "none"]
      OBVIOUS
<1>4. RU!StatusOf(pr, repoAuto) = RU!Switch(cases)
      BY DEF RU!StatusOf
<1> HIDE DEF cases
<1>5. PICK k \in 1..3 : /\ cases[k][1] \/ k = 3
                        /\ \A j \in 1..k - 1 : ~cases[j][1]
                        /\ RU!Switch(cases) = cases[k][2]
      BY <1>1, FirstCase, Zenon
<1>6. k = 1 \/ k = 2 \/ k = 3
      BY <1>5
<1> QED BY <1>2, <1>3, <1>4, <1>5, <1>6

\* The actions that may be the primary one.
LEMMA CandidatesAre ==
  ASSUME NEW pr
  PROVE  RU!Candidates(pr) \in {<<"close">>, <<"merge">>, <<"update">> \o RU!BotRebases, RU!BotRebases, <<>>}
<1> DEFINE cases == << <<pr.empty, <<"close">>>>,
                     <<RU!MergeBlock(pr) = "no" /\ pr.ci # "failure", <<"merge">>>>,
                     <<RU!MergeBlock(pr) = "behind", <<"update">> \o RU!BotRebases>>,
                     <<pr.behind /\ pr.merge # "conflicting" /\ ~pr.draft /\ ~pr.stacked, RU!BotRebases>>,
                     <<TRUE, <<>>>> >>
<1>1. Len(cases) = 5 /\ DOMAIN cases = 1..5 /\ 5 \in Nat \ {0}
      OBVIOUS
<1>3. /\ cases[1][2] = <<"close">>
      /\ cases[2][2] = <<"merge">>
      /\ cases[3][2] = <<"update">> \o RU!BotRebases
      /\ cases[4][2] = RU!BotRebases
      /\ cases[5][2] = <<>>
      OBVIOUS
<1>4. RU!Candidates(pr) = RU!Switch(cases)
      BY DEF RU!Candidates
<1> HIDE DEF cases
<1>5. PICK k \in 1..5 : /\ cases[k][1] \/ k = 5
                        /\ \A j \in 1..k - 1 : ~cases[j][1]
                        /\ RU!Switch(cases) = cases[k][2]
      BY <1>1, FirstCase, Zenon
<1>6. k = 1 \/ k = 2 \/ k = 3 \/ k = 4 \/ k = 5
      BY <1>5
<1> QED BY <1>3, <1>4, <1>5, <1>6

\* What a refused merge means.
LEMMA MergeRefusalIs ==
  ASSUME NEW told
  PROVE  RU!MergeRefusal(told) \in {"conflict", "behind", "not_mergeable", "checks_failing",
                                     "protected", "checks_pending"}
<1> DEFINE cases == << <<told.state \in {"conflicting", "unconfirmed"}, "conflict">>,
                     <<told.state = "behind", "behind">>,
                     <<told.state = "draft", "not_mergeable">>,
                     <<told.state = "failing", "checks_failing">>,
                     <<told.text = "approval", "protected">>,
                     <<told.text = "check_failed", "checks_failing">>,
                     <<told.text = "check_pending", "checks_pending">>,
                     <<told.state = "blocked", "protected">>,
                     <<TRUE, "not_mergeable">> >>
<1> DEFINE n == 9
<1>1. Len(cases) = n /\ DOMAIN cases = 1..n /\ n \in Nat \ {0}
      OBVIOUS
<1>3. /\ cases[1][2] = "conflict"
      /\ cases[2][2] = "behind"
      /\ cases[3][2] = "not_mergeable"
      /\ cases[4][2] = "checks_failing"
      /\ cases[5][2] = "protected"
      /\ cases[6][2] = "checks_failing"
      /\ cases[7][2] = "checks_pending"
      /\ cases[8][2] = "protected"
      /\ cases[9][2] = "not_mergeable"
      OBVIOUS
<1>4. RU!MergeRefusal(told) = RU!Switch(cases)
      BY DEF RU!MergeRefusal
<1> HIDE DEF cases, n
<1>5. PICK k \in 1..n : /\ cases[k][1] \/ k = n
                        /\ \A j \in 1..k - 1 : ~cases[j][1]
                        /\ RU!Switch(cases) = cases[k][2]
      BY <1>1, FirstCase, Zenon
<1> USE DEF n
<1>6. k = 1 \/ k = 2 \/ k = 3 \/ k = 4 \/ k = 5 \/ k = 6 \/ k = 7 \/ k = 8 \/ k = 9
      BY <1>5
<1> QED BY <1>3, <1>4, <1>5, <1>6

\* What a refused update means.
LEMMA UpdateRefusalIs ==
  ASSUME NEW told
  PROVE  RU!UpdateRefusal(told) \in {"already_up_to_date", "unknown", "conflict"}
<1> DEFINE cases == << <<told.text = "up_to_date", "already_up_to_date">>,
                     <<told.text = "head_sha" /\ told.state # "conflicting", "unknown">>,
                     <<told.kind = "conflict" \/ told.state = "conflicting", "conflict">>,
                     <<TRUE, "unknown">> >>
<1>1. Len(cases) = 4 /\ DOMAIN cases = 1..4 /\ 4 \in Nat \ {0}
      OBVIOUS
<1>3. /\ cases[1][2] = "already_up_to_date"
      /\ cases[2][2] = "unknown"
      /\ cases[3][2] = "conflict"
      /\ cases[4][2] = "unknown"
      OBVIOUS
<1>4. RU!UpdateRefusal(told) = RU!Switch(cases)
      BY DEF RU!UpdateRefusal
<1> HIDE DEF cases
<1>5. PICK k \in 1..4 : /\ cases[k][1] \/ k = 4
                        /\ \A j \in 1..k - 1 : ~cases[j][1]
                        /\ RU!Switch(cases) = cases[k][2]
      BY <1>1, FirstCase, Zenon
<1>6. k = 1 \/ k = 2 \/ k = 3 \/ k = 4
      BY <1>5
<1> QED BY <1>3, <1>4, <1>5, <1>6

\* What a refusal of the forge means.
LEMMA ClassifyIs ==
  ASSUME NEW told
  PROVE  LET said == RU!Classify(told) IN
         \/ RU!FromKind(told) = "rate_limited" /\ said = "rate_limited"
         \/ /\ RU!FromKind(told) # "rate_limited" /\ RU!FromFinishedState(told) # "none"
            /\ said = RU!FromFinishedState(told)
         \/ /\ RU!FromKind(told) # "rate_limited" /\ RU!FromFinishedState(told) = "none"
            /\ told.action = "update" /\ told.state = "workflows" /\ told.kind = "unauthorized"
            /\ said = "permission"
         \/ /\ RU!FromKind(told) # "rate_limited" /\ RU!FromFinishedState(told) = "none"
            /\ ~(told.action = "update" /\ told.state = "workflows" /\ told.kind = "unauthorized")
            /\ RU!FromKind(told) # "none" /\ said = RU!FromKind(told)
         \/ /\ RU!FromKind(told) # "rate_limited" /\ RU!FromFinishedState(told) = "none"
            /\ ~(told.action = "update" /\ told.state = "workflows" /\ told.kind = "unauthorized")
            /\ RU!FromKind(told) = "none" /\ said = RU!ByAction(told)
<1> DEFINE cases == << <<RU!FromKind(told) = "rate_limited", "rate_limited">>,
                     <<RU!FromFinishedState(told) # "none", RU!FromFinishedState(told)>>,
                     <<told.action = "update" /\ told.state = "workflows" /\ told.kind = "unauthorized", "permission">>,
                     <<RU!FromKind(told) # "none", RU!FromKind(told)>>,
                     <<TRUE, RU!ByAction(told)>> >>
<1>1. Len(cases) = 5 /\ DOMAIN cases = 1..5 /\ 5 \in Nat \ {0}
      OBVIOUS
<1>2. /\ cases[1][1] <=> RU!FromKind(told) = "rate_limited"
      /\ cases[2][1] <=> RU!FromFinishedState(told) # "none"
      /\ cases[3][1] <=> told.action = "update" /\ told.state = "workflows" /\ told.kind = "unauthorized"
      /\ cases[4][1] <=> RU!FromKind(told) # "none"
      OBVIOUS
<1>3. /\ cases[1][2] = "rate_limited"
      /\ cases[2][2] = RU!FromFinishedState(told)
      /\ cases[3][2] = "permission"
      /\ cases[4][2] = RU!FromKind(told)
      /\ cases[5][2] = RU!ByAction(told)
      OBVIOUS
<1>4. RU!Classify(told) = RU!Switch(cases)
      BY DEF RU!Classify
<1> HIDE DEF cases
<1>5. PICK k \in 1..5 : /\ cases[k][1] \/ k = 5
                        /\ \A j \in 1..k - 1 : ~cases[j][1]
                        /\ RU!Switch(cases) = cases[k][2]
      BY <1>1, FirstCase, Zenon
<1>6. k = 1 \/ k = 2 \/ k = 3 \/ k = 4 \/ k = 5
      BY <1>5
<1> QED BY <1>2, <1>3, <1>4, <1>5, <1>6

\* The status a refusal is answered with.
LEMMA HttpStatusIs ==
  ASSUME NEW told
  PROVE  LET said == RU!HttpStatus(told) IN
         \/ /\ RU!Classify(told) \in {"already_merged", "already_closed", "not_reopenable"}
            /\ said = 409
         \/ told.kind = "unauthorized" /\ said = 403
         \/ told.kind = "not_found" /\ said = 404
         \/ told.kind = "conflict" /\ said = 409
         \/ told.kind = "rate" /\ said = 429
         \/ /\ RU!Classify(told) \notin {"already_merged", "already_closed", "not_reopenable"}
            /\ told.kind # "unauthorized" /\ told.kind # "not_found" /\ told.kind # "conflict"
            /\ told.kind # "rate" /\ said = 502
<1> DEFINE cases == << <<RU!Classify(told) \in {"already_merged", "already_closed", "not_reopenable"}, 409>>,
                     <<told.kind = "unauthorized", 403>>,
                     <<told.kind = "not_found", 404>>,
                     <<told.kind = "conflict", 409>>,
                     <<told.kind = "rate", 429>>,
                     <<TRUE, 502>> >>
<1>1. Len(cases) = 6 /\ DOMAIN cases = 1..6 /\ 6 \in Nat \ {0}
      OBVIOUS
<1>2. /\ cases[1][1] <=> RU!Classify(told) \in {"already_merged", "already_closed", "not_reopenable"}
      /\ cases[2][1] <=> told.kind = "unauthorized"
      /\ cases[3][1] <=> told.kind = "not_found"
      /\ cases[4][1] <=> told.kind = "conflict"
      /\ cases[5][1] <=> told.kind = "rate"
      OBVIOUS
<1>3. /\ cases[1][2] = 409
      /\ cases[2][2] = 403
      /\ cases[3][2] = 404
      /\ cases[4][2] = 409
      /\ cases[5][2] = 429
      /\ cases[6][2] = 502
      OBVIOUS
<1>4. RU!HttpStatus(told) = RU!Switch(cases)
      BY DEF RU!HttpStatus
<1> HIDE DEF cases
<1>5. PICK k \in 1..6 : /\ cases[k][1] \/ k = 6
                        /\ \A j \in 1..k - 1 : ~cases[j][1]
                        /\ RU!Switch(cases) = cases[k][2]
      BY <1>1, FirstCase, Zenon
<1>6. k = 1 \/ k = 2 \/ k = 3 \/ k = 4 \/ k = 5 \/ k = 6
      BY <1>5
<1> QED BY <1>2, <1>3, <1>4, <1>5, <1>6


\* A request or a ticked box is on the row of a bot that takes it.
BotsAreAsked ==
  /\ row.request # "none" => RU!IsDependabot(row) \/ RU!IsRenovate(row)
  /\ row.request = "recreate_queued" => RU!IsDependabot(row)
  /\ row.box => RU!IsRenovate(row)

RowsInv == RU!RulesTypeOK /\ BotsAreAsked

LEMMA RowFields ==
  ASSUME RU!RulesTypeOK
  PROVE  /\ row.forge \in {"github", "forgejo"}
         /\ row.kind \in {"human", "dependabot", "renovate", "release", "renovate_release"}
         /\ row.empty \in BOOLEAN /\ row.draft \in BOOLEAN /\ row.stacked \in BOOLEAN
         /\ row.behind \in BOOLEAN /\ row.box \in BOOLEAN
         /\ row.merge \in {"mergeable", "conflicting", "blocked", "unstable", "unknown"}
         /\ row.ci \in {"none", "pending", "success", "failure"}
         /\ row.auto \in {"on", "off", "not_allowed"}
         /\ row.request \in {"none", "rebase_queued", "recreate_queued", "rebasing", "expired"}
BY DEF RU!RulesTypeOK, RU!Domain

LEMMA RowsInitInv == RU!RulesInit => RowsInv
<1> SUFFICES ASSUME RU!RulesInit PROVE RowsInv
    OBVIOUS
<1>1. DOMAIN row = DOMAIN RU!Domain /\ \A f \in DOMAIN RU!Domain : row[f] \in RU!Domain[f]
  <2>1. DOMAIN row = DOMAIN RU!Domain
        BY DEF RU!RulesInit, RU!Plain, RU!Domain
  <2>2. ASSUME NEW f \in DOMAIN RU!Domain PROVE row[f] \in RU!Domain[f]
    <3>1. f \in {"forge", "kind", "empty", "draft", "stacked", "behind", "merge", "ci", "auto",
                 "approval", "request", "box"}
          BY <2>2 DEF RU!Domain
    <3>2. /\ row.forge \in RU!Domain.forge /\ row.kind \in RU!Domain.kind
          /\ row.empty \in RU!Domain.empty /\ row.draft \in RU!Domain.draft
          /\ row.stacked \in RU!Domain.stacked /\ row.behind \in RU!Domain.behind
          /\ row.merge \in RU!Domain.merge /\ row.ci \in RU!Domain.ci
          /\ row.auto \in RU!Domain.auto /\ row.approval \in RU!Domain.approval
          /\ row.request \in RU!Domain.request /\ row.box \in RU!Domain.box
          BY DEF RU!RulesInit, RU!Plain, RU!Domain
    <3> QED BY <3>1, <3>2
  <2> QED BY <2>1, <2>2
<1>2. /\ DOMAIN refusal = DOMAIN RU!CallDomain
      /\ \A f \in DOMAIN RU!CallDomain : refusal[f] \in RU!CallDomain[f]
      BY DEF RU!RulesInit, RU!NoCall, RU!CallDomain
<1>3. ends \in [Stacked -> [head : Branches \cup {RU!NoBranch}, base : Branches \cup {RU!NoBranch}]]
      BY DEF RU!RulesInit, RU!Flat
<1>4. BotsAreAsked
      BY DEF RU!RulesInit, RU!Plain, BotsAreAsked
<1> QED BY <1>1, <1>2, <1>3, <1>4 DEF RowsInv, RU!RulesTypeOK

LEMMA RowsStep == RowsInv /\ RU!RulesNext => RowsInv'
<1> SUFFICES ASSUME RowsInv, RU!RulesNext PROVE RowsInv'
    OBVIOUS
<1>1. CASE RU!RowChanges
  <2>1. PICK f \in DOMAIN RU!Domain : \E v \in RU!Domain[f] \ {row[f]} : row' = [row EXCEPT ![f] = v]
        BY <1>1 DEF RU!RowChanges
  <2>2. PICK v \in RU!Domain[f] : row' = [row EXCEPT ![f] = v]
        BY <2>1
  <2>3. DOMAIN row' = DOMAIN RU!Domain /\ \A g \in DOMAIN RU!Domain : row'[g] \in RU!Domain[g]
        BY <2>2 DEF RowsInv, RU!RulesTypeOK
  <2>4. RU!RulesTypeOK'
        BY <1>1, <2>3 DEF RowsInv, RU!RulesTypeOK, RU!RowChanges, RU!Domain, RU!CallDomain, RU!NoBranch
  <2> QED BY <1>1, <2>4 DEF RU!RowChanges, RowsInv, BotsAreAsked, RU!IsDependabot, RU!IsRenovate
<1>2. CASE RU!CallRefused
  <2>1. PICK f \in DOMAIN RU!CallDomain : \E v \in RU!CallDomain[f] \ {refusal[f]} :
                                            refusal' = [refusal EXCEPT ![f] = v]
        BY <1>2 DEF RU!CallRefused
  <2>2. PICK v \in RU!CallDomain[f] : refusal' = [refusal EXCEPT ![f] = v]
        BY <2>1
  <2>3. /\ DOMAIN refusal' = DOMAIN RU!CallDomain
        /\ \A g \in DOMAIN RU!CallDomain : refusal'[g] \in RU!CallDomain[g]
        BY <2>2 DEF RowsInv, RU!RulesTypeOK
  <2> QED BY <1>2, <2>3 DEF RowsInv, RU!RulesTypeOK, RU!CallRefused, BotsAreAsked,
                            RU!IsDependabot, RU!IsRenovate
<1>3. CASE RU!Retargeted
  <2>1. PICK n \in Stacked, b \in Branches \cup {RU!NoBranch}, f \in {"head", "base"} :
               ends' = [ends EXCEPT ![n][f] = b]
        BY <1>3 DEF RU!Retargeted
  <2>2. ends' \in [Stacked -> [head : Branches \cup {RU!NoBranch}, base : Branches \cup {RU!NoBranch}]]
        BY <2>1 DEF RowsInv, RU!RulesTypeOK
  <2> QED BY <1>3, <2>2 DEF RowsInv, RU!RulesTypeOK, RU!Retargeted, BotsAreAsked,
                            RU!IsDependabot, RU!IsRenovate
<1> QED BY <1>1, <1>2, <1>3 DEF RU!RulesNext

\* The reason given for an action a row does not offer is true of the row.
LEMMA ReasonsAreTrue == RowsInv => RU!RefusalsTellTheTruth
<1> SUFFICES ASSUME RowsInv, NEW a \in {"merge", "update", "auto_merge", "dependabot_rebase",
                                "dependabot_recreate", "renovate_rebase", "cancel_renovate", "rerun"},
                    a \notin RU!Offered(row)
             PROVE  RU!Holds(RU!NotOffered(a, row), a, row)
    BY DEF RU!RefusalsTellTheTruth
<1> USE RowFields DEF RowsInv, BotsAreAsked
<1>1. CASE a = "auto_merge"
  <2>1. ~RU!AutoMergeOffered(row)
        BY <1>1 DEF RU!Offered
  <2>2. RU!NotOffered(a, row) = RU!AutoMergeNotOffered(row)
        BY <1>1 DEF RU!NotOffered
  <2>3. \/ row.forge = "forgejo" /\ row.draft
        \/ row.auto # "off" \/ row.empty \/ row.merge = "conflicting" \/ row.stacked
        \/ row.merge = "mergeable" /\ row.ci = "success" /\ ~row.behind
        BY <2>1 DEF RU!AutoMergeOffered
  <2>4. /\ row.draft => RU!Holds("draft", a, row)
        /\ row.auto = "on" => RU!Holds("already_on", a, row)
        /\ row.auto = "not_allowed" => RU!Holds("not_allowed", a, row)
        /\ row.empty => RU!Holds("empty", a, row)
        /\ row.merge = "conflicting" => RU!Holds("conflict", a, row)
        /\ row.stacked => RU!Holds("stacked", a, row)
        /\ (row.merge = "mergeable" /\ row.ci = "success" /\ ~row.behind)
             => RU!Holds("ready_to_merge", a, row)
        BY DEF RU!Holds
  <2> QED BY <2>2, <2>3, <2>4, AutoMergeReason
<1>2. CASE a = "update"
  <2>1. ~RU!UpdateOffered(row)
        BY <1>2 DEF RU!Offered
  <2> QED BY <1>2, <2>1 DEF RU!UpdateOffered, RU!NotOffered, RU!Holds
<1>3. CASE a = "merge"
  <2>1. row.empty
        BY <1>3 DEF RU!Offered
  <2> QED BY <1>3, <2>1 DEF RU!NotOffered, RU!Holds
<1>4. CASE a \in {"dependabot_rebase", "dependabot_recreate"}
  <2>1. ~(row.forge = "github" /\ RU!IsDependabot(row) /\ ~RU!Asked(row))
        BY <1>4 DEF RU!Offered
  <2>2. CASE RU!IsDependabot(row) /\ row.request \notin {"none", "expired"}
    <3>1. RU!Asked(row)
          BY <2>2 DEF RU!Asked
    <3>2. RU!NotOffered(a, row) \in {"already_requested", "another_command_pending"}
          BY <1>4, <2>2 DEF RU!NotOffered
    <3> QED BY <3>1, <3>2 DEF RU!Holds
  <2>3. CASE ~(RU!IsDependabot(row) /\ row.request \notin {"none", "expired"})
    <3>1. RU!NotOffered(a, row) = "not_dependabot"
          BY <1>4, <2>3 DEF RU!NotOffered
    <3>2. ~(RU!IsDependabot(row) /\ row.forge = "github")
          BY <2>1, <2>3 DEF RU!Asked
    <3> QED BY <3>1, <3>2 DEF RU!Holds
  <2> QED BY <2>2, <2>3
<1>5. CASE a = "renovate_rebase"
  <2>1. ~RU!IsRenovate(row) \/ row.request = "rebasing" \/ row.box \/ RU!Asked(row)
        BY <1>5 DEF RU!Offered
  <2> QED BY <1>5, <2>1 DEF RU!NotOffered, RU!Holds, RU!Asked, RU!IsRenovate, RU!IsDependabot
<1>6. CASE a = "cancel_renovate"
  <2>1. ~RU!IsRenovate(row) \/ row.request = "rebasing" \/ ~row.box
        BY <1>6 DEF RU!Offered
  <2> QED BY <1>6, <2>1 DEF RU!NotOffered, RU!Holds
<1>7. CASE a = "rerun"
  <2>1. ~RU!IsFailingCI(row)
        BY <1>7 DEF RU!Offered
  <2> QED BY <1>7, <2>1 DEF RU!NotOffered, RU!Holds
<1> QED BY <1>1, <1>2, <1>3, <1>4, <1>5, <1>6, <1>7

\* The first candidate that can be done is one: Primary is offered and not blocked.
LEMMA PrimaryCanBeDone ==
  ASSUME NEW pr, RU!Primary(pr) # "none"
  PROVE  RU!Primary(pr) \in RU!Offered(pr) /\ RU!BlockOf(pr, RU!Primary(pr)) = "no"
<1> DEFINE able == {i \in DOMAIN RU!Candidates(pr) :
             RU!Candidates(pr)[i] \in RU!Offered(pr) /\ RU!BlockOf(pr, RU!Candidates(pr)[i]) = "no"}
           i == CHOOSE i \in able : \A j \in able : i <= j
<1>1. able # {} /\ RU!Primary(pr) = RU!Candidates(pr)[i]
      BY DEF RU!Primary
<1>2. DOMAIN RU!Candidates(pr) \subseteq Nat
      BY CandidatesAre DEF RU!BotRebases
<1>3. \E k \in able : \A j \in able : k <= j
      BY <1>1, <1>2, LeastNatural
<1>4. i \in able
  <2> HIDE DEF able
  <2> QED BY <1>3, Zenon
<1> QED BY <1>1, <1>4

\* The fix a row's status names can be done, and the badge says what the pass does.
LEMMA AdviceIsGood == RowsInv => RU!AdviceCanBeFollowed
<1> SUFFICES ASSUME RowsInv PROVE RU!AdviceCanBeFollowed
    OBVIOUS
<1>1. ASSUME NEW repoAuto \in BOOLEAN, RU!StatusOf(row, repoAuto).fix # "none"
      PROVE  /\ RU!StatusOf(row, repoAuto).fix \in RU!OnBoard(row, repoAuto)
             /\ RU!BlockOf(row, RU!StatusOf(row, repoAuto).fix) = "no"
  <2>1. RU!StatusOf(row, repoAuto).fix = RU!FixFor(row, repoAuto)
        BY <1>1, StatusFix
  <2>2. /\ RU!FixFor(row, repoAuto) = RU!Primary(row)
        /\ RU!Primary(row) \in RU!OnBoard(row, repoAuto) /\ RU!Primary(row) # "none"
        BY <1>1, <2>1 DEF RU!FixFor
  <2> QED BY <2>1, <2>2, PrimaryCanBeDone
<1>2. (RU!AutoMergeStatusOf(row) = "merges_next") <=> RU!ReadyForAutoMerge(row)
      BY BadgeIs, RowFields DEF RowsInv, RU!ReadyForAutoMerge
<1>3. (RU!AutoMergeStatusOf(row) = "merges_next") = RU!ReadyForAutoMerge(row)
      BY <1>2 DEF RU!ReadyForAutoMerge
<1> QED BY <1>1, <1>3, Zenon DEF RU!AdviceCanBeFollowed

\* What a call's own rules say is never that the forge limits or forbids.
LEMMA ByActionSays ==
  ASSUME NEW told
  PROVE  RU!ByAction(told) \notin {"rate_limited", "permission"}
BY MergeRefusalIs, UpdateRefusalIs DEF RU!ByAction, RU!AutoMergeRefusal

LEMMA RefusalsAreCertain == RowsInv => RU!RefusalsNeedNoMoreThanTheyRead
<1> SUFFICES ASSUME RowsInv PROVE RU!RefusalsNeedNoMoreThanTheyRead
    OBVIOUS
<1>1. \A told : RU!FromKind(told) = "rate_limited" <=> told.kind = "rate"
      BY DEF RU!FromKind
<1>2. \A told : told.kind = "rate" => RU!Classify(told) = "rate_limited"
      BY <1>1, ClassifyIs
<1>3. \A told : RU!Classify(told) = "rate_limited" => told.kind = "rate"
      BY ClassifyIs, ByActionSays DEF RU!FromKind, RU!FromFinishedState
<1>4. \A told : RU!Classify(told) = "permission" => told.kind = "unauthorized"
      BY ClassifyIs, ByActionSays DEF RU!FromKind, RU!FromFinishedState
<1>5. [refusal EXCEPT !.state = "unread"].kind = refusal.kind
      BY DEF RowsInv, RU!RulesTypeOK, RU!CallDomain
<1>6. RU!NeedsNoReRead(refusal) =>
        RU!Classify(refusal) = RU!Classify([refusal EXCEPT !.state = "unread"])
      BY <1>2, <1>5 DEF RU!NeedsNoReRead
<1>7. (RU!Classify(refusal) = "rate_limited") <=> (RU!HttpStatus(refusal) = 429)
      BY <1>2, <1>3, HttpStatusIs
<1>8. RU!Classify(refusal) = "permission" => RU!HttpStatus(refusal) = 403
      BY <1>4, HttpStatusIs
<1> QED BY <1>6, <1>7, <1>8 DEF RU!RefusalsNeedNoMoreThanTheyRead

-----------------------------------------------------------------------------
(* How pull requests stack *)

Pulls == Cardinality(Stacked)
Up == [Stacked -> Stacked \cup {0}]

LEMMA SameCardinality == \A S : RU!Cardinality(S) = Cardinality(S)
BY DEF RU!Cardinality, Cardinality

LEMMA PullsIsNat == Pulls \in Nat
BY StackedAssumption, FS_CardinalityType DEF Pulls

\* The way up from a pull request, step by step.
Walk(up, n, at) ==
  /\ at \in [0..Pulls -> Stacked \cup {0}] /\ at[0] = n
  /\ \A k \in 1..Pulls : at[k] = IF at[k - 1] = 0 THEN 0 ELSE up[at[k - 1]]

LEMMA WalkExists ==
  ASSUME NEW up \in Up, NEW n \in Stacked
  PROVE  \E at : Walk(up, n, at) /\ RU!Walked(up, n) = {at[k] : k \in 0..Pulls} \ {0}
<1> DEFINE at[k \in 0..Pulls] == IF k = 0 THEN n ELSE IF at[k - 1] = 0 THEN 0 ELSE up[at[k - 1]]
           X == Stacked \cup {0}
           step == [i \in 1..Pulls |-> [m \in X |-> IF m = 0 THEN 0 ELSE up[m]]]
<1>1. Pulls \in Nat
      BY PullsIsNat
<1>2. step \in [1..Pulls -> [X -> X]] /\ n \in X
      BY DEF Up
<1>3. PICK f \in [0..Pulls -> X] : f[0] = n /\ \A i \in 1..Pulls : f[i] = step[i][f[i - 1]]
  <2> HIDE DEF step, X, at
  <2> QED BY <1>1, <1>2, NatRecursion
<1>4. ASSUME NEW i \in 1..Pulls
      PROVE  f[i] = IF f[i - 1] = 0 THEN 0 ELSE up[f[i - 1]]
  <2>1. i - 1 \in 0..Pulls /\ f[i - 1] \in X
        BY <1>1, <1>3
  <2> QED BY <1>3, <2>1
<1>5. \A k \in 0..Pulls : f[k] = IF k = 0 THEN n ELSE IF f[k - 1] = 0 THEN 0 ELSE up[f[k - 1]]
      BY <1>1, <1>3, <1>4
<1>6. f = [k \in 0..Pulls |-> IF k = 0 THEN n ELSE IF f[k - 1] = 0 THEN 0 ELSE up[f[k - 1]]]
      BY <1>5
<1>7. at = [k \in 0..Pulls |-> IF k = 0 THEN n ELSE IF at[k - 1] = 0 THEN 0 ELSE up[at[k - 1]]]
      BY <1>6
<1>8. RU!Walked(up, n) = {at[k] : k \in 0..Pulls} \ {0}
      BY SameCardinality DEF RU!Walked, RU!None, Pulls
<1> HIDE DEF at, step, X
<1>9. at[0] = n /\ \A k \in 1..Pulls : at[k] = IF at[k - 1] = 0 THEN 0 ELSE up[at[k - 1]]
      BY <1>1, <1>7
<1>10. \A k \in 0..Pulls : at[k] \in Stacked \cup {0}
  <2> DEFINE S == {k \in 0..Pulls : at[k] \in Stacked \cup {0}}
  <2>1. 0 \in S
        BY <1>1, <1>9
  <2>2. ASSUME NEW k \in 1..Pulls, k - 1 \in S PROVE k \in S
        BY <1>9, <2>2 DEF Up
  <2>3. \A k \in 0..Pulls : k \in S
    <3> HIDE DEF S
    <3> QED BY <1>1, <2>1, <2>2, UpToBound
  <2> QED BY <2>3
<1>11. at \in [0..Pulls -> Stacked \cup {0}]
       BY <1>7, <1>10
<1>12. Walk(up, n, at)
       BY <1>9, <1>11 DEF Walk
<1> QED BY <1>8, <1>12

WalkOf(up, n) ==
  CHOOSE at : Walk(up, n, at) /\ RU!Walked(up, n) = {at[k] : k \in 0..Pulls} \ {0}

LEMMA WalkOfIs ==
  ASSUME NEW up \in Up, NEW n \in Stacked
  PROVE  Walk(up, n, WalkOf(up, n)) /\
         RU!Walked(up, n) = {WalkOf(up, n)[k] : k \in 0..Pulls} \ {0}
BY WalkExists DEF WalkOf

\* Once a walk is over it stays over.
LEMMA WalkIsOver ==
  ASSUME NEW up \in Up, NEW n \in Stacked, NEW at, Walk(up, n, at),
         NEW i \in 0..Pulls, at[i] = 0, NEW j \in i..Pulls
  PROVE  at[j] = 0
<1> DEFINE S == {k \in 0..Pulls : k >= i => at[k] = 0}
<1>1. 0 \in S
      BY PullsIsNat
<1>2. ASSUME NEW k \in 1..Pulls, k - 1 \in S PROVE k \in S
      BY <1>2, PullsIsNat DEF Walk
<1>3. \A k \in 0..Pulls : k \in S
  <2> HIDE DEF S
  <2> QED BY <1>1, <1>2, UpToBound, PullsIsNat
<1> QED BY <1>3, PullsIsNat

\* The walk from the parent is the rest of the walk.
LEMMA WalkGoesOn ==
  ASSUME NEW up \in Up, NEW n \in Stacked, up[n] # 0
  PROVE  /\ up[n] \in Stacked
         /\ \A k \in 1..Pulls : WalkOf(up, n)[k] = WalkOf(up, up[n])[k - 1]
<1>1. up[n] \in Stacked
      BY DEF Up
<1> DEFINE at == WalkOf(up, n)
           bt == WalkOf(up, up[n])
           S == {k \in 0..Pulls : k > 0 => at[k] = bt[k - 1]}
<1>2. Walk(up, n, at) /\ Walk(up, up[n], bt)
      BY <1>1, WalkOfIs
<1>3. n # 0
      BY StackedAssumption
<1> HIDE DEF at, bt
<1>4. 0 \in S
      BY PullsIsNat
<1>5. ASSUME NEW k \in 1..Pulls, k - 1 \in S PROVE k \in S
  <2>1. CASE k = 1
        BY <1>2, <1>3, <2>1, PullsIsNat DEF Walk
  <2>2. CASE k # 1
    <3>1. k - 1 \in 1..Pulls /\ at[k - 1] = bt[k - 2] /\ k - 1 - 1 = k - 2
          BY <1>5, <2>2, PullsIsNat
    <3>2. bt[k - 1] = IF bt[k - 2] = 0 THEN 0 ELSE up[bt[k - 2]]
          BY <1>2, <3>1 DEF Walk
    <3>3. at[k] = IF at[k - 1] = 0 THEN 0 ELSE up[at[k - 1]]
          BY <1>2 DEF Walk
    <3> QED BY <3>1, <3>2, <3>3
  <2> QED BY <2>1, <2>2
<1>6. \A k \in 0..Pulls : k \in S
  <2> HIDE DEF S
  <2> QED BY <1>4, <1>5, UpToBound, PullsIsNat
<1> QED BY <1>1, <1>6, PullsIsNat DEF at, bt


\* How many steps the root is above a pull request.
DepthOf(up, n) ==
  CHOOSE k \in 0..Pulls : WalkOf(up, n)[k] # 0 /\ up[WalkOf(up, n)[k]] = 0

\* A walk that is no circle climbs to the root and is over after it.
LEMMA WalkClimbs ==
  ASSUME NEW up \in Up, NEW n \in Stacked, ~RU!Circles(up, n)
  PROVE  LET at == WalkOf(up, n)  deep == DepthOf(up, n)
         IN /\ deep \in 0..Pulls /\ at[0] = n
            /\ \A k \in 0..Pulls : (at[k] # 0) <=> (k <= deep)
            /\ \A k \in 0..deep : at[k] \in Stacked /\ (up[at[k]] = 0 <=> k = deep)
            /\ \A k \in 1..deep : at[k] = up[at[k - 1]]
            /\ RU!Walked(up, n) = {at[k] : k \in 0..deep}
<1> DEFINE at == WalkOf(up, n)
           deep == DepthOf(up, n)
<1>1. Walk(up, n, at) /\ RU!Walked(up, n) = {at[k] : k \in 0..Pulls} \ {0}
      BY WalkOfIs
<1>2. \E k \in 0..Pulls : at[k] # 0 /\ up[at[k]] = 0
      BY <1>1 DEF RU!Circles, RU!None
<1>3. deep \in 0..Pulls /\ at[deep] # 0 /\ up[at[deep]] = 0
      BY <1>2 DEF DepthOf
<1> HIDE DEF at, deep
<1>4. /\ at \in [0..Pulls -> Stacked \cup {0}] /\ at[0] = n
      /\ \A k \in 1..Pulls : at[k] = IF at[k - 1] = 0 THEN 0 ELSE up[at[k - 1]]
      BY <1>1 DEF Walk
<1>5. ASSUME NEW k \in 0..deep PROVE at[k] # 0 /\ at[k] \in Stacked
  <2>1. at[k] # 0
        BY <1>1, <1>3, WalkIsOver, PullsIsNat
  <2> QED BY <1>3, <1>4, <2>1, PullsIsNat
<1>6. ASSUME NEW k \in deep + 1..Pulls PROVE at[k] = 0
  <2>1. deep + 1 \in 1..Pulls /\ deep + 1 - 1 = deep
        BY <1>3, PullsIsNat
  <2>2. at[deep + 1] = 0
        BY <1>3, <1>4, <2>1
  <2> QED BY <1>1, <2>1, <2>2, WalkIsOver, PullsIsNat
<1>7. \A k \in 1..deep : at[k] = up[at[k - 1]]
      BY <1>3, <1>4, <1>5, PullsIsNat
<1>8. ASSUME NEW k \in 0..deep, k # deep PROVE up[at[k]] # 0
  <2>1. k + 1 \in 1..deep /\ k + 1 \in 0..deep /\ k + 1 - 1 = k
        BY <1>3, <1>8, PullsIsNat
  <2> QED BY <1>5, <1>7, <2>1
<1>9. \A k \in 0..Pulls : (at[k] # 0) <=> (k <= deep)
      BY <1>3, <1>5, <1>6, PullsIsNat
<1>10. \A k \in 0..deep : at[k] \in Stacked /\ (up[at[k]] = 0 <=> k = deep)
       BY <1>3, <1>5, <1>8
<1>11. RU!Walked(up, n) = {at[k] : k \in 0..deep}
       BY <1>1, <1>3, <1>5, <1>9, PullsIsNat
<1> QED BY <1>3, <1>4, <1>7, <1>9, <1>10, <1>11 DEF at, deep

\* No pull request stacks on itself, however far one climbs.
Climbs(up) == \A n \in Stacked : ~RU!Circles(up, n)

\* The depth is the position of the root on a walk.
LEMMA DepthIs ==
  ASSUME NEW up \in Up, Climbs(up), NEW n \in Stacked, NEW k \in 0..Pulls,
         WalkOf(up, n)[k] # 0, up[WalkOf(up, n)[k]] = 0
  PROVE  k = DepthOf(up, n)
<1>1. ~RU!Circles(up, n)
      BY DEF Climbs
<1> DEFINE at == WalkOf(up, n)
           deep == DepthOf(up, n)
<1>2. /\ deep \in 0..Pulls
      /\ (at[k] # 0) <=> (k <= deep)
      /\ \A j \in 0..deep : up[at[j]] = 0 <=> j = deep
      BY <1>1, WalkClimbs
<1> HIDE DEF at, deep
<1> QED BY <1>2, PullsIsNat DEF at, deep

\* A pull request is one step deeper than its parent, under the same root.
LEMMA ParentIsHigher ==
  ASSUME NEW up \in Up, Climbs(up), NEW n \in Stacked, up[n] # 0
  PROVE  /\ up[n] \in Stacked /\ DepthOf(up, n) \in 1..Pulls
         /\ DepthOf(up, up[n]) = DepthOf(up, n) - 1
         /\ WalkOf(up, up[n])[DepthOf(up, up[n])] = WalkOf(up, n)[DepthOf(up, n)]
<1> DEFINE at == WalkOf(up, n)
           bt == WalkOf(up, up[n])
           deep == DepthOf(up, n)
<1>1. ~RU!Circles(up, n)
      BY DEF Climbs
<1>2. /\ deep \in 0..Pulls /\ at[0] = n /\ at[deep] \in Stacked
      /\ \A k \in 0..deep : up[at[k]] = 0 <=> k = deep
      BY <1>1, WalkClimbs
<1>3. up[n] \in Stacked /\ \A k \in 1..Pulls : at[k] = bt[k - 1]
      BY WalkGoesOn
<1>4. deep \in 1..Pulls
  <2>1. 0 \in 0..deep
        BY <1>2, PullsIsNat
  <2> QED BY <1>2, <2>1, PullsIsNat
<1>5. bt[deep - 1] = at[deep] /\ deep - 1 \in 0..Pulls
      BY <1>3, <1>4, PullsIsNat
<1>6. bt[deep - 1] # 0 /\ up[bt[deep - 1]] = 0
  <2>1. deep \in 0..deep
        BY <1>2
  <2> QED BY <1>2, <1>5, <2>1, StackedAssumption
<1>7. deep - 1 = DepthOf(up, up[n])
      BY <1>3, <1>5, <1>6, DepthIs
<1> QED BY <1>3, <1>4, <1>5, <1>7

\* So along a walk the depth falls by one with every step, and the root stays.
LEMMA DepthFalls ==
  ASSUME NEW up \in Up, Climbs(up), NEW n \in Stacked, NEW k \in 0..DepthOf(up, n)
  PROVE  LET at == WalkOf(up, n)  deep == DepthOf(up, n)
         IN /\ deep \in 0..Pulls /\ at[k] \in Stacked
            /\ DepthOf(up, at[k]) = deep - k
            /\ WalkOf(up, at[k])[deep - k] = at[deep]
<1> DEFINE at == WalkOf(up, n)
           deep == DepthOf(up, n)
           S == {j \in 0..deep : DepthOf(up, at[j]) = deep - j /\ WalkOf(up, at[j])[deep - j] = at[deep]}
<1>1. ~RU!Circles(up, n)
      BY DEF Climbs
<1>2. /\ deep \in 0..Pulls /\ at[0] = n
      /\ \A j \in 0..deep : at[j] \in Stacked /\ (up[at[j]] = 0 <=> j = deep)
      /\ \A j \in 1..deep : at[j] = up[at[j - 1]]
      BY <1>1, WalkClimbs
<1>3. deep \in Nat
      BY <1>2, PullsIsNat
<1>4. 0 \in S
      BY <1>2, <1>3
<1>5. ASSUME NEW j \in 1..deep, j - 1 \in S PROVE j \in S
  <2> DEFINE m == at[j - 1]
  <2>1. j - 1 \in 0..deep /\ j - 1 # deep
        BY <1>3
  <2>2. m \in Stacked /\ up[m] # 0 /\ at[j] = up[m]
        BY <1>2, <2>1
  <2>3. DepthOf(up, m) = deep - (j - 1) /\ WalkOf(up, m)[deep - (j - 1)] = at[deep]
        BY <1>5
  <2> HIDE DEF m, deep, at
  <2>4. /\ DepthOf(up, up[m]) = DepthOf(up, m) - 1
        /\ WalkOf(up, up[m])[DepthOf(up, up[m])] = WalkOf(up, m)[DepthOf(up, m)]
        BY <2>2, ParentIsHigher
  <2>5. DepthOf(up, m) - 1 = deep - j /\ j \in 0..deep
        BY <1>3, <2>3
  <2> QED BY <2>2, <2>3, <2>4, <2>5
<1>6. \A j \in 0..deep : j \in S
  <2> HIDE DEF S, deep
  <2> QED BY <1>3, <1>4, <1>5, UpToBound
<1> QED BY <1>2, <1>6


\* The position of a pull request counts the steps to the root and itself.
LEMMA PositionIs ==
  ASSUME NEW up \in Up, Climbs(up), NEW n \in Stacked
  PROVE  RU!Position(up, n) = DepthOf(up, n) + 1
<1> DEFINE at == WalkOf(up, n)
           deep == DepthOf(up, n)
           f == [k \in 0..deep |-> at[k]]
<1>1. deep \in 0..Pulls /\ RU!Walked(up, n) = {at[k] : k \in 0..deep}
      BY WalkClimbs DEF Climbs
<1>2. deep \in Nat
      BY <1>1, PullsIsNat
<1>3. \A k \in 0..deep : DepthOf(up, at[k]) = deep - k
      BY DepthFalls
<1> HIDE DEF at, deep
<1>4. f \in Bijection(0..deep, RU!Walked(up, n))
  <2>1. f \in [0..deep -> RU!Walked(up, n)]
        BY <1>1
  <2>2. \A i, j \in 0..deep : f[i] = f[j] => i = j
        BY <1>2, <1>3
  <2>3. \A m \in RU!Walked(up, n) : \E i \in 0..deep : f[i] = m
        BY <1>1
  <2> HIDE DEF f
  <2> QED BY <2>1, <2>2, <2>3 DEF Bijection, Injection, Surjection, IsInjective
<1>5. IsFiniteSet(0..deep) /\ Cardinality(0..deep) = deep + 1
      BY <1>2, FS_Interval
<1>6. Cardinality(RU!Walked(up, n)) = deep + 1
  <2> HIDE DEF f
  <2> QED BY <1>4, <1>5, FS_Bijection DEF ExistsBijection
<1> QED BY <1>6, SameCardinality DEF RU!Position, deep

LEMMA RootIs ==
  ASSUME NEW up \in Up, Climbs(up), NEW n \in Stacked
  PROVE  RU!Root(up, n) = WalkOf(up, n)[DepthOf(up, n)]
<1> DEFINE at == WalkOf(up, n)
           deep == DepthOf(up, n)
<1>1. /\ deep \in 0..Pulls /\ RU!Walked(up, n) = {at[k] : k \in 0..deep}
      /\ \A k \in 0..deep : up[at[k]] = 0 <=> k = deep
      BY WalkClimbs DEF Climbs
<1> HIDE DEF at, deep
<1>2. deep \in 0..deep
      BY <1>1, PullsIsNat
<1>3. at[deep] \in RU!Walked(up, n) /\ up[at[deep]] = 0
      BY <1>1, <1>2
<1>4. \A m \in RU!Walked(up, n) : up[m] = 0 => m = at[deep]
      BY <1>1
<1> QED BY <1>3, <1>4 DEF RU!Root, RU!None, at, deep

\* Everything on the way up is of the same stack, so no position exceeds its size.
LEMMA PositionFits ==
  ASSUME NEW up \in Up, Climbs(up), NEW n \in Stacked
  PROVE  RU!Position(up, n) <= RU!Size(up, n)
<1> DEFINE Tree == {m \in Stacked : RU!Root(up, m) = RU!Root(up, n)}
<1>1. \A k \in 0..DepthOf(up, n) :
        /\ WalkOf(up, n)[k] \in Stacked
        /\ RU!Root(up, WalkOf(up, n)[k]) = RU!Root(up, n)
      BY DepthFalls, RootIs
<1>2. RU!Walked(up, n) \subseteq Tree
      BY <1>1, WalkClimbs DEF Climbs
<1>3. IsFiniteSet(Tree)
      BY FS_Subset, StackedAssumption
<1> HIDE DEF Tree
<1>4. Cardinality(RU!Walked(up, n)) <= Cardinality(Tree)
      BY <1>2, <1>3, FS_Subset
<1> QED BY <1>4, SameCardinality DEF RU!Position, RU!Size, Tree

\* What leads into a circle leads into one from below too.
LEMMA CirclesReachDown ==
  ASSUME NEW up \in Up, NEW n \in Stacked, up[n] # 0, RU!Circles(up, up[n])
  PROVE  RU!Circles(up, n)
<1> SUFFICES ASSUME NEW k \in 0..Pulls, WalkOf(up, n)[k] # 0
             PROVE  up[WalkOf(up, n)[k]] # 0
    BY WalkOfIs DEF RU!Circles, RU!None
<1>1. up[n] \in Stacked /\ \A j \in 1..Pulls : WalkOf(up, n)[j] = WalkOf(up, up[n])[j - 1]
      BY WalkGoesOn
<1>2. CASE k = 0
      BY <1>2, WalkOfIs DEF Walk
<1>3. CASE k # 0
  <2>1. k \in 1..Pulls /\ k - 1 \in 0..Pulls
        BY <1>3, PullsIsNat
  <2>2. WalkOf(up, n)[k] \in RU!Walked(up, up[n])
        BY <1>1, <2>1, WalkOfIs
  <2> QED BY <2>2 DEF RU!Circles, RU!None
<1> QED BY <1>2, <1>3

\* Without what leads into a circle every walk climbs.
LEMMA CirclesAreDropped ==
  ASSUME NEW up \in Up
  PROVE  RU!DropCycles(up) \in Up /\ Climbs(RU!DropCycles(up))
<1> DEFINE bad == {n \in Stacked : RU!Circles(up, n)}
           cut == RU!DropCycles(up)
<1>1. cut = [n \in Stacked |-> IF n \in bad \/ (up[n] # 0 /\ up[n] \in bad) THEN 0 ELSE up[n]]
      BY DEF RU!DropCycles, RU!None
<1>2. cut \in Up
      BY <1>1 DEF Up
<1>3. ASSUME NEW n \in Stacked, n \notin bad
      PROVE  cut[n] = up[n] /\ (up[n] # 0 => up[n] \in Stacked /\ up[n] \notin bad)
      BY <1>1, <1>3, CirclesReachDown DEF Up
<1> HIDE DEF cut
<1>4. ASSUME NEW n \in Stacked PROVE ~RU!Circles(cut, n)
  <2> DEFINE at == WalkOf(up, n)
             bt == WalkOf(cut, n)
  <2>1. /\ Walk(up, n, at) /\ RU!Walked(up, n) = {at[k] : k \in 0..Pulls} \ {0}
        /\ Walk(cut, n, bt) /\ RU!Walked(cut, n) = {bt[k] : k \in 0..Pulls} \ {0}
        BY <1>2, WalkOfIs
  <2> HIDE DEF at, bt
  <2>2. SUFFICES \E k \in 0..Pulls : bt[k] # 0 /\ cut[bt[k]] = 0
        BY <2>1 DEF RU!Circles, RU!None
  <2>3. CASE n \in bad
    <3>1. cut[n] = 0 /\ bt[0] = n /\ n # 0
          BY <1>1, <2>1, <2>3, StackedAssumption DEF Walk
    <3> QED BY <3>1, PullsIsNat
  <2>4. CASE n \notin bad
    <3> DEFINE S == {k \in 0..Pulls : bt[k] = at[k] /\ (at[k] # 0 => at[k] \in Stacked \ bad)}
    <3>1. 0 \in S
          BY <2>1, <2>4, PullsIsNat DEF Walk
    <3>2. ASSUME NEW k \in 1..Pulls, k - 1 \in S PROVE k \in S
      <4>1. /\ at[k] = IF at[k - 1] = 0 THEN 0 ELSE up[at[k - 1]]
            /\ bt[k] = IF bt[k - 1] = 0 THEN 0 ELSE cut[bt[k - 1]]
            BY <2>1 DEF Walk
      <4> QED BY <1>3, <3>2, <4>1
    <3>3. \A k \in 0..Pulls : k \in S
      <4> HIDE DEF S
      <4> QED BY <3>1, <3>2, UpToBound, PullsIsNat
    <3>4. PICK k \in 0..Pulls : at[k] # 0 /\ up[at[k]] = 0
          BY <2>1, <2>4 DEF RU!Circles, RU!None
    <3> QED BY <1>3, <3>3, <3>4
  <2> QED BY <2>3, <2>4
<1> QED BY <1>2, <1>4 DEF Climbs, cut

\* The parent is another pull request, or none.
LEMMA ParentIsOne ==
  ASSUME NEW e, NEW n \in Stacked
  PROVE  RU!Parent(e, n) \in Stacked \cup {0}
<1> DEFINE owners == {m \in Stacked : e[m].head # RU!NoBranch /\ e[m].head = e[n].base}
           owner == CHOOSE m \in owners : \A k \in owners : m <= k
<1>1. CASE owners = {}
      BY <1>1 DEF RU!Parent, RU!None
<1>2. CASE owners # {}
  <2>1. owners \subseteq Nat /\ owners \subseteq Stacked
        BY StackedAssumption
  <2>2. \E m \in owners : \A k \in owners : m <= k
    <3> HIDE DEF owners
    <3> QED BY <1>2, <2>1, LeastNatural
  <2>3. owner \in owners
    <3> HIDE DEF owners
    <3> QED BY <2>2
  <2> QED BY <2>1, <2>3 DEF RU!Parent, RU!None
<1> QED BY <1>1, <1>2

LEMMA StacksClimb == RU!StacksAreTrees
<1> DEFINE up == RU!ParentOf(ends)
<1>1. [n \in Stacked |-> RU!Parent(ends, n)] \in Up
      BY ParentIsOne DEF Up
<1>2. up \in Up /\ Climbs(up)
      BY <1>1, CirclesAreDropped DEF RU!ParentOf
<1> HIDE DEF up
<1>3. ASSUME NEW n \in Stacked
      PROVE  /\ ~RU!Circles(up, n)
             /\ up[n] # RU!None => RU!Position(up, n) = RU!Position(up, up[n]) + 1
             /\ RU!Position(up, n) <= RU!Size(up, n)
  <2>1. ~RU!Circles(up, n)
        BY <1>2 DEF Climbs
  <2>2. ASSUME up[n] # 0 PROVE RU!Position(up, n) = RU!Position(up, up[n]) + 1
    <3>1. up[n] \in Stacked /\ DepthOf(up, n) \in 1..Pulls /\ DepthOf(up, up[n]) = DepthOf(up, n) - 1
          BY <1>2, <2>2, ParentIsHigher
    <3>2. RU!Position(up, n) = DepthOf(up, n) + 1 /\ RU!Position(up, up[n]) = DepthOf(up, up[n]) + 1
          BY <1>2, <3>1, PositionIs
    <3> QED BY <3>1, <3>2
  <2> QED BY <1>2, <2>1, <2>2, PositionFits DEF RU!None
<1> QED BY <1>3 DEF RU!StacksAreTrees, up

\* MCSpec => []RowsInv.  However a row's fields change, one at a time, a request or
\* a ticked box is on the row of a bot that takes it (allowed_actions.go).
THEOREM RowsInvariant == MCSpec => []RowsInv
<1>1. MCInit => RowsInv
      BY RowsInitInv DEF MCInit
<1>2. RowsInv /\ [MCNext]_<<part, formVars, keyVars, upgradeVars, ruleVars, branchVars,
                            cacheVars, etagVars>> => RowsInv'
  <2> SUFFICES ASSUME RowsInv,
                      [MCNext]_<<part, formVars, keyVars, upgradeVars, ruleVars, branchVars,
                                 cacheVars, etagVars>>
               PROVE  RowsInv'
      OBVIOUS
  <2>1. RU!RulesNext \/ UNCHANGED ruleVars
        BY DEF MCNext
  <2>2. CASE UNCHANGED ruleVars
    <3>1. row' = row /\ refusal' = refusal /\ ends' = ends
          BY <2>2 DEF ruleVars
    <3> QED BY <3>1 DEF RowsInv, RU!RulesTypeOK, BotsAreAsked, RU!IsDependabot, RU!IsRenovate
  <2> QED BY <2>1, <2>2, RowsStep
<1> QED BY <1>1, <1>2, PTL DEF MCSpec

\* MCSpec => []RowsTellTheTruth.  For any row, any refused call and any finite set of
\* pull requests with any branches: the reason given is one the row has, the fix named
\* can be done, a refusal reads only what the call said, and pull requests stack in trees
\* (allowed_actions.go, action_refusal.go, stack.go).
THEOREM RowsTellTheTruthHolds == MCSpec => []RowsTellTheTruth
<1>1. RowsInv => RowsTellTheTruth
      BY ReasonsAreTrue, AdviceIsGood, RefusalsAreCertain, StacksClimb DEF RowsInv, RowsTellTheTruth
<1> QED BY <1>1, RowsInvariant, PTL

-----------------------------------------------------------------------------
(* The copies of the forge's answers *)

Copies == Seq(EC!Pair)

LEMMA PairsHaveASize ==
  /\ \A o \in EC!Contents : EC!Size(o) \in 1..MaxContent + 1
  /\ \A cp \in EC!Pair : cp.url \in Urls /\ cp.etag \in EC!Contents /\ cp.body \in EC!Contents
BY CopiesAssumption DEF EC!Pair, EC!Contents, EC!Size

\* A list of copies takes one cell for every unit of length of every body.
Cells(s, t) == {ik \in t \X (1..MaxContent + 1) : ik[2] <= EC!Size(s[ik[1]].body)}

LEMMA CellsOfOne ==
  ASSUME NEW i, NEW n \in 0..MaxContent + 1
  PROVE  LET S == {ik \in {i} \X (1..MaxContent + 1) : ik[2] <= n}
         IN IsFiniteSet(S) /\ Cardinality(S) = n
<1> DEFINE S == {ik \in {i} \X (1..MaxContent + 1) : ik[2] <= n}
           f == [k \in 1..n |-> <<i, k>>]
<1>1. n \in Nat /\ 1..n \subseteq 1..MaxContent + 1
      BY CopiesAssumption
<1>2. f \in [1..n -> S]
      BY <1>1
<1>3. \A ik \in S : \E k \in 1..n : f[k] = ik
  <2> TAKE ik \in S
  <2>1. ik[1] = i /\ ik[2] \in 1..n /\ ik = <<ik[1], ik[2]>>
        BY <1>1, CopiesAssumption
  <2> QED BY <2>1
<1>4. \A j, k \in 1..n : f[j] = f[k] => j = k
      OBVIOUS
<1>5. f \in Bijection(1..n, S)
  <2> HIDE DEF f, S
  <2> QED BY <1>2, <1>3, <1>4 DEF Bijection, Injection, Surjection, IsInjective
<1>6. IsFiniteSet(1..n) /\ Cardinality(1..n) = n
      BY <1>1, FS_Interval
<1> HIDE DEF f, S
<1>7. IsFiniteSet(S) /\ Cardinality(S) = n
      BY <1>5, <1>6, FS_Bijection DEF ExistsBijection
<1> QED BY <1>7 DEF S

LEMMA CellsAreFinite ==
  ASSUME NEW s, NEW t, IsFiniteSet(t)
  PROVE  IsFiniteSet(Cells(s, t)) /\ Cardinality(Cells(s, t)) \in Nat
<1>1. IsFiniteSet(1..MaxContent + 1)
      BY CopiesAssumption, FS_Interval
<1>2. IsFiniteSet(t \X (1..MaxContent + 1))
      BY <1>1, FS_Product
<1>3. Cells(s, t) \subseteq t \X (1..MaxContent + 1)
      BY DEF Cells
<1> QED BY <1>2, <1>3, FS_Subset, FS_CardinalityType

LEMMA OneMoreBody ==
  ASSUME NEW s, NEW t, IsFiniteSet(t), NEW i \in t, s[i].body \in EC!Contents
  PROVE  Cardinality(Cells(s, t)) = EC!Size(s[i].body) + Cardinality(Cells(s, t \ {i}))
<1> DEFINE n == EC!Size(s[i].body)
           S == {ik \in {i} \X (1..MaxContent + 1) : ik[2] <= n}
           T == Cells(s, t \ {i})
<1>1. n \in 0..MaxContent + 1
      BY PairsHaveASize, CopiesAssumption
<1>2. IsFiniteSet(S) /\ Cardinality(S) = n
  <2> HIDE DEF n
  <2> QED BY <1>1, CellsOfOne
<1>3. IsFiniteSet(T) /\ Cardinality(T) \in Nat
      BY FS_RemoveElement, CellsAreFinite
<1>4. Cells(s, t) = S \cup T /\ S \cap T = {}
      BY DEF Cells
<1> HIDE DEF S, T
<1>5. Cardinality(S \cap T) = 0
      BY <1>4, FS_EmptySet
<1>6. Cardinality(S \cup T) = Cardinality(S) + Cardinality(T) - Cardinality(S \cap T)
      BY <1>2, <1>3, FS_Union
<1>7. Cardinality(Cells(s, t)) = n + Cardinality(T)
      BY <1>1, <1>2, <1>3, <1>4, <1>5, <1>6
<1> QED BY <1>7 DEF T

\* The fold that adds up the bodies counts the cells.
LEMMA BytesAreCells ==
  ASSUME NEW s \in Copies
  PROVE  EC!Bytes(s) = Cardinality(Cells(s, DOMAIN s))
<1> DEFINE D == DOMAIN s
           iter[t \in SUBSET D] ==
             IF t = {} THEN 0
             ELSE LET i == CHOOSE i \in t : TRUE IN EC!Size(s[i].body) + iter[t \ {i}]
           g == [t \in SUBSET D |-> Cardinality(Cells(s, t))]
           last(t) == CHOOSE i \in t : TRUE
<1>1. EC!Bytes(s) = iter[D]
      BY DEF EC!Bytes, EC!FoldSeq, EC!FoldFunction, EC!FoldFunctionOnSet, EC!MapThenFoldSet
<1>2. D = 1..Len(s) /\ Len(s) \in Nat /\ \A i \in D : s[i] \in EC!Pair
      BY DEF Copies
<1>3. IsFiniteSet(D) /\ \A t \in SUBSET D : IsFiniteSet(t)
  <2>1. IsFiniteSet(D)
        BY <1>2, FS_Interval
  <2> HIDE DEF D
  <2> QED BY <2>1, FS_Subset
<1>4. Cells(s, {}) = {} /\ Cardinality({}) = 0
      BY FS_EmptySet DEF Cells
<1>5. ASSUME NEW t \in SUBSET D, t # {}
      PROVE  /\ last(t) \in t
             /\ g[t] = EC!Size(s[last(t)].body) + g[t \ {last(t)}]
  <2>1. last(t) \in t
        BY <1>5
  <2>2. s[last(t)].body \in EC!Contents
        BY <1>2, <2>1, PairsHaveASize
  <2> DEFINE i == last(t)
  <2>3. i \in t /\ s[i].body \in EC!Contents
        BY <2>1, <2>2
  <2> HIDE DEF i
  <2>4. g[t] = EC!Size(s[i].body) + g[t \ {i}]
        BY <1>3, <2>3, OneMoreBody
  <2> QED BY <2>1, <2>4 DEF i
<1>6. \A t \in SUBSET D : g[t] = IF t = {} THEN 0 ELSE EC!Size(s[last(t)].body) + g[t \ {last(t)}]
      BY <1>4, <1>5
<1>7. g = [t \in SUBSET D |-> IF t = {} THEN 0 ELSE EC!Size(s[last(t)].body) + g[t \ {last(t)}]]
  <2> DEFINE R(t) == IF t = {} THEN 0 ELSE EC!Size(s[last(t)].body) + g[t \ {last(t)}]
  <2>1. g = [t \in SUBSET D |-> g[t]]
        OBVIOUS
  <2>2. \A t \in SUBSET D : g[t] = R(t)
        BY <1>6
  <2> HIDE DEF g, R
  <2>3. g = [t \in SUBSET D |-> R(t)]
        BY <2>1, <2>2
  <2> QED BY <2>3 DEF R
<1>8. iter = [t \in SUBSET D |-> IF t = {} THEN 0 ELSE EC!Size(s[last(t)].body) + iter[t \ {last(t)}]]
  <2> HIDE DEF g
  <2> QED BY <1>7
<1> HIDE DEF iter
<1>9. \A t \in SUBSET D : iter[t] = IF t = {} THEN 0 ELSE EC!Size(s[last(t)].body) + iter[t \ {last(t)}]
      BY <1>8
<1> DEFINE S == {n \in Nat : \A t \in SUBSET D : Cardinality(t) = n => iter[t] = g[t]}
           N == Cardinality(D)
<1>10. N \in Nat /\ \A t \in SUBSET D : Cardinality(t) \in 0..N
  <2> HIDE DEF D
  <2>1. N \in Nat
        BY <1>3, FS_CardinalityType
  <2>2. \A t \in SUBSET D : Cardinality(t) \in Nat /\ Cardinality(t) <= N
        BY <1>3, FS_Subset, FS_CardinalityType
  <2> QED BY <2>1, <2>2
<1>11. 0 \in S
  <2> SUFFICES ASSUME NEW t \in SUBSET D, Cardinality(t) = 0 PROVE iter[t] = g[t]
      OBVIOUS
  <2>1. t = {}
        BY <1>3, FS_EmptySet
  <2> QED BY <1>6, <1>9, <2>1
<1>12. ASSUME NEW k \in 1..N, k - 1 \in S PROVE k \in S
  <2>1. ASSUME NEW t \in SUBSET D, Cardinality(t) = k PROVE iter[t] = g[t]
    <3>1. t # {}
          BY <1>4, <1>12, <2>1
    <3>2. last(t) \in t
          BY <1>5, <3>1
    <3>3. Cardinality(t \ {last(t)}) = k - 1
          BY <1>3, <2>1, <3>2, FS_RemoveElement
    <3>4. iter[t \ {last(t)}] = g[t \ {last(t)}]
          BY <1>12, <3>3
    <3> QED BY <1>6, <1>9, <3>1, <3>4
  <2>2. k \in Nat
        BY <1>10
  <2> HIDE DEF N, g
  <2> QED BY <2>1, <2>2
<1>13. \A k \in 0..N : k \in S
  <2> HIDE DEF S, N
  <2> QED BY <1>10, <1>11, <1>12, UpToBound
<1>14. iter[D] = g[D]
       BY <1>10, <1>13
<1> QED BY <1>1, <1>14

LEMMA BytesIsNat ==
  ASSUME NEW s \in Copies
  PROVE  EC!Bytes(s) \in Nat
<1>1. DOMAIN s = 1..Len(s) /\ Len(s) \in Nat
      BY DEF Copies
<1>2. IsFiniteSet(DOMAIN s)
      BY <1>1, FS_Interval
<1> QED BY <1>2, BytesAreCells, CellsAreFinite

LEMMA BytesOfNone == EC!Bytes(<<>>) = 0
<1>1. <<>> \in Copies /\ Cells(<<>>, DOMAIN <<>>) = {}
      BY DEF Copies, Cells
<1> QED BY <1>1, BytesAreCells, FS_EmptySet

LEMMA BytesOfOne ==
  ASSUME NEW cp \in EC!Pair
  PROVE  EC!Bytes(<<cp>>) = EC!Size(cp.body)
<1> DEFINE s == <<cp>>
<1>1. s \in Copies /\ DOMAIN s = {1} /\ s[1] = cp
      BY DEF Copies
<1> HIDE DEF s
<1>2. s[1].body \in EC!Contents
      BY <1>1, PairsHaveASize
<1>3. IsFiniteSet({1}) /\ {1} \ {1} = {}
      BY FS_Singleton
<1>4. Cardinality(Cells(s, {1})) = EC!Size(s[1].body) + Cardinality(Cells(s, {1} \ {1}))
      BY <1>2, <1>3, OneMoreBody
<1>5. Cardinality(Cells(s, {})) = 0
      BY FS_EmptySet DEF Cells
<1>6. EC!Size(cp.body) \in Nat
      BY PairsHaveASize, CopiesAssumption
<1>7. EC!Bytes(s) = EC!Size(cp.body)
  <2>1. EC!Bytes(s) = Cardinality(Cells(s, {1}))
        BY <1>1, BytesAreCells
  <2>2. Cardinality(Cells(s, {1})) = EC!Size(cp.body) + 0
        BY <1>1, <1>3, <1>4, <1>5, Zenon
  <2> QED BY <1>6, <2>1, <2>2
<1> QED BY <1>7 DEF s

LEMMA BytesOfBoth ==
  ASSUME NEW s \in Copies, NEW t \in Copies
  PROVE  s \o t \in Copies /\ EC!Bytes(s \o t) = EC!Bytes(s) + EC!Bytes(t)
<1> DEFINE m == Len(s)
           n == Len(t)
           K == 1..MaxContent + 1
           all == s \o t
           front == Cells(s, 1..m)
           back == Cells(t, 1..n)
           moved == {ik \in (m + 1..m + n) \X K : ik[2] <= EC!Size(t[ik[1] - m].body)}
           f == [ik \in back |-> <<ik[1] + m, ik[2]>>]
<1>1. /\ m \in Nat /\ n \in Nat /\ DOMAIN s = 1..m /\ DOMAIN t = 1..n
      /\ all \in Copies /\ DOMAIN all = 1..m + n
      /\ \A i \in 1..m : all[i] = s[i]
      /\ \A i \in m + 1..m + n : all[i] = t[i - m]
      BY DEF Copies
<1>2. Cells(all, 1..m + n) = front \cup moved /\ front \cap moved = {}
  <2> HIDE DEF all
  <2>1. \A i \in 1..m + n : i \in 1..m \/ i \in m + 1..m + n
        BY <1>1
  <2>2. 1..m \subseteq 1..m + n /\ m + 1..m + n \subseteq 1..m + n /\ (1..m) \cap (m + 1..m + n) = {}
        BY <1>1
  <2> QED BY <1>1, <2>1, <2>2 DEF Cells
<1>3. \A ik \in back : f[ik] \in moved
  <2> TAKE ik \in back
  <2>1. ik[1] \in 1..n /\ ik[2] \in K /\ ik[2] <= EC!Size(t[ik[1]].body)
        BY DEF Cells
  <2>2. ik[1] + m \in m + 1..m + n /\ (ik[1] + m) - m = ik[1]
        BY <1>1, <2>1
  <2> QED BY <2>1, <2>2
<1>4. \A jk \in moved : \E ik \in back : f[ik] = jk
  <2> TAKE jk \in moved
  <2>1. jk[1] \in m + 1..m + n /\ jk[2] \in K /\ jk[2] <= EC!Size(t[jk[1] - m].body)
        /\ jk = <<jk[1], jk[2]>>
        OBVIOUS
  <2>2. jk[1] - m \in 1..n /\ (jk[1] - m) + m = jk[1]
        BY <1>1, <2>1
  <2>3. <<jk[1] - m, jk[2]>> \in back
        BY <2>1, <2>2 DEF Cells
  <2> QED BY <2>1, <2>2, <2>3
<1>5. \A ik, jk \in back : f[ik] = f[jk] => ik = jk
  <2> TAKE ik \in back, jk \in back
  <2>1. /\ ik[1] \in 1..n /\ jk[1] \in 1..n /\ ik = <<ik[1], ik[2]>> /\ jk = <<jk[1], jk[2]>>
        BY DEF Cells
  <2>2. ik[1] + m = jk[1] + m => ik[1] = jk[1]
        BY <1>1, <2>1
  <2> QED BY <2>1, <2>2
<1>6. f \in [back -> moved]
  <2>1. f = [ik \in back |-> f[ik]]
        OBVIOUS
  <2> HIDE DEF f, moved, back
  <2> QED BY <1>3, <2>1
<1>7. f \in Bijection(back, moved)
  <2> HIDE DEF f, back, moved
  <2> QED BY <1>4, <1>5, <1>6 DEF Bijection, Injection, Surjection, IsInjective
<1>8. /\ IsFiniteSet(front) /\ Cardinality(front) \in Nat /\ EC!Bytes(s) = Cardinality(front)
      /\ IsFiniteSet(back) /\ Cardinality(back) \in Nat /\ EC!Bytes(t) = Cardinality(back)
      /\ EC!Bytes(all) = Cardinality(Cells(all, 1..m + n))
  <2>1. IsFiniteSet(1..m) /\ IsFiniteSet(1..n)
        BY <1>1, FS_Interval
  <2> HIDE DEF all
  <2> QED BY <1>1, <2>1, CellsAreFinite, BytesAreCells
<1> HIDE DEF f, front, back, moved
<1>9. IsFiniteSet(moved) /\ Cardinality(moved) = Cardinality(back)
      BY <1>7, <1>8, FS_Bijection DEF ExistsBijection
<1>10. Cardinality(front \cap moved) = 0
       BY <1>2, FS_EmptySet
<1>11. Cardinality(front \cup moved) = Cardinality(front) + Cardinality(moved) - Cardinality(front \cap moved)
       BY <1>8, <1>9, FS_Union
<1>12. EC!Bytes(all) = EC!Bytes(s) + EC!Bytes(t)
  <2> HIDE DEF all
  <2>1. Cardinality(front \cup moved) = Cardinality(front) + Cardinality(back)
        BY <1>8, <1>9, <1>10, <1>11
  <2>2. EC!Bytes(all) = Cardinality(front \cup moved)
        BY <1>2, <1>8, Zenon
  <2> QED BY <1>8, <2>1, <2>2, Zenon
<1> QED BY <1>1, <1>12

LEMMA BytesOfMore ==
  ASSUME NEW s \in Copies, NEW cp \in EC!Pair
  PROVE  Append(s, cp) \in Copies /\ EC!Bytes(Append(s, cp)) = EC!Bytes(s) + EC!Size(cp.body)
<1>1. Append(s, cp) = s \o <<cp>> /\ <<cp>> \in Copies
      BY DEF Copies
<1> QED BY <1>1, BytesOfBoth, BytesOfOne

LEMMA BytesOfParts ==
  ASSUME NEW s \in Copies, NEW n \in 0..Len(s)
  PROVE  /\ SubSeq(s, 1, n) \in Copies /\ SubSeq(s, n + 1, Len(s)) \in Copies
         /\ EC!Bytes(s) = EC!Bytes(SubSeq(s, 1, n)) + EC!Bytes(SubSeq(s, n + 1, Len(s)))
<1> DEFINE front == SubSeq(s, 1, n)
           back == SubSeq(s, n + 1, Len(s))
<1>1. /\ front \in Copies /\ Len(front) = n /\ \A i \in 1..n : front[i] = s[i]
      /\ back \in Copies /\ Len(back) = Len(s) - n /\ \A i \in 1..Len(s) - n : back[i] = s[n + i]
      BY DEF Copies
<1>2. Len(s) \in Nat /\ s \in Seq(EC!Pair)
      BY DEF Copies
<1> HIDE DEF front, back
<1>3. Len(front \o back) = Len(s) /\ front \o back \in Seq(EC!Pair)
  <2>1. front \o back \in Seq(EC!Pair) /\ Len(front \o back) = Len(front) + Len(back)
    <3>1. front \in Seq(EC!Pair) /\ back \in Seq(EC!Pair)
          BY <1>1 DEF Copies
    <3> QED BY <3>1
  <2>2. n + (Len(s) - n) = Len(s)
        BY <1>2
  <2> QED BY <1>1, <2>1, <2>2
<1>4. \A i \in 1..Len(s) : (front \o back)[i] = s[i]
  <2> TAKE i \in 1..Len(s)
  <2>1. CASE i \in 1..n
        BY <1>1, <1>2, <2>1 DEF Copies
  <2>2. CASE i \notin 1..n
    <3>1. i - n \in 1..Len(s) - n /\ n + (i - n) = i
          BY <1>2, <2>2
    <3>2. (front \o back)[i] = back[i - n]
          BY <1>1, <1>2, <2>2 DEF Copies
    <3> QED BY <1>1, <3>1, <3>2
  <2> QED BY <2>1, <2>2
<1>5. front \o back = s
      BY <1>2, <1>3, <1>4, SeqEqual
<1> QED BY <1>1, <1>5, BytesOfBoth DEF front, back

\* A list keeps one copy for a URL, and a copy's ETag is the one of its body.
OneEach(s) == \A i, j \in 1..Len(s) : s[i].url = s[j].url => i = j
Sound(s) == s \in Copies /\ OneEach(s) /\ \A i \in 1..Len(s) : s[i].etag = s[i].body

\* Selecting goes through the list once.
LEMMA OfGoesThrough ==
  ASSUME NEW s \in Copies, NEW u
  PROVE  \E F \in [0..Len(s) -> Copies] :
            /\ F[0] = <<>> /\ EC!Of(s, u) = F[Len(s)]
            /\ \A i \in 1..Len(s) :
                 F[i] = IF s[i].url = u THEN Append(F[i - 1], s[i]) ELSE F[i - 1]
<1> DEFINE N == Len(s)
           step == [i \in 1..N |-> [t \in Copies |-> IF s[i].url = u THEN Append(t, s[i]) ELSE t]]
           F[i \in 0..N] ==
             IF i = 0 THEN <<>> ELSE IF s[i].url = u THEN Append(F[i - 1], s[i]) ELSE F[i - 1]
<1>1. N \in Nat /\ <<>> \in Copies /\ \A i \in 1..N : s[i] \in EC!Pair
      BY DEF Copies
<1>2. step \in [1..N -> [Copies -> Copies]]
      BY <1>1, BytesOfMore
<1>3. PICK f \in [0..N -> Copies] : f[0] = <<>> /\ \A i \in 1..N : f[i] = step[i][f[i - 1]]
  <2> HIDE DEF step, N, F
  <2> QED BY <1>1, <1>2, NatRecursion
<1>4. ASSUME NEW i \in 1..N
      PROVE  f[i] = IF s[i].url = u THEN Append(f[i - 1], s[i]) ELSE f[i - 1]
  <2>1. i - 1 \in 0..N /\ f[i - 1] \in Copies
        BY <1>1, <1>3
  <2> QED BY <1>3, <2>1
<1>5. \A i \in 0..N : f[i] = IF i = 0 THEN <<>>
                             ELSE IF s[i].url = u THEN Append(f[i - 1], s[i]) ELSE f[i - 1]
  <2> TAKE i \in 0..N
  <2>1. i = 0 \/ (i \in 1..N /\ i # 0)
        BY <1>1
  <2> HIDE DEF N
  <2> QED BY <1>3, <1>4, <2>1
<1>6. f = [i \in 0..N |-> IF i = 0 THEN <<>>
                          ELSE IF s[i].url = u THEN Append(f[i - 1], s[i]) ELSE f[i - 1]]
  <2> HIDE DEF N
  <2> QED BY <1>5
<1>7. F = [i \in 0..N |-> IF i = 0 THEN <<>>
                          ELSE IF s[i].url = u THEN Append(F[i - 1], s[i]) ELSE F[i - 1]]
      BY <1>6
<1>8. EC!Of(s, u) = F[N]
      BY DEF EC!Of
<1> HIDE DEF F, step, N
<1>9. F[0] = <<>> /\ \A i \in 1..N : F[i] = IF s[i].url = u THEN Append(F[i - 1], s[i]) ELSE F[i - 1]
  <2>1. 0 \in 0..N /\ \A i \in 1..N : i \in 0..N /\ i # 0
        BY <1>1
  <2> QED BY <1>7, <2>1
<1>10. \A i \in 0..N : F[i] \in Copies
  <2> DEFINE S == {i \in 0..N : F[i] \in Copies}
  <2>1. 0 \in S
        BY <1>1, <1>9
  <2>2. ASSUME NEW k \in 1..N, k - 1 \in S PROVE k \in S
        BY <1>1, <1>9, <2>2, BytesOfMore
  <2>3. \A k \in 0..N : k \in S
    <3> HIDE DEF S, N
    <3> QED BY <1>1, <2>1, <2>2, UpToBound
  <2> QED BY <2>3
<1>11. F \in [0..N -> Copies]
       BY <1>7, <1>10
<1> QED BY <1>8, <1>9, <1>11 DEF N

LEMMA WithoutGoesThrough ==
  ASSUME NEW s \in Copies, NEW u
  PROVE  \E F \in [0..Len(s) -> Copies] :
            /\ F[0] = <<>> /\ EC!Without(s, u) = F[Len(s)]
            /\ \A i \in 1..Len(s) :
                 F[i] = IF s[i].url # u THEN Append(F[i - 1], s[i]) ELSE F[i - 1]
<1> DEFINE N == Len(s)
           step == [i \in 1..N |-> [t \in Copies |-> IF s[i].url # u THEN Append(t, s[i]) ELSE t]]
           F[i \in 0..N] ==
             IF i = 0 THEN <<>> ELSE IF s[i].url # u THEN Append(F[i - 1], s[i]) ELSE F[i - 1]
<1>1. N \in Nat /\ <<>> \in Copies /\ \A i \in 1..N : s[i] \in EC!Pair
      BY DEF Copies
<1>2. step \in [1..N -> [Copies -> Copies]]
      BY <1>1, BytesOfMore
<1>3. PICK f \in [0..N -> Copies] : f[0] = <<>> /\ \A i \in 1..N : f[i] = step[i][f[i - 1]]
  <2> HIDE DEF step, N, F
  <2> QED BY <1>1, <1>2, NatRecursion
<1>4. ASSUME NEW i \in 1..N
      PROVE  f[i] = IF s[i].url # u THEN Append(f[i - 1], s[i]) ELSE f[i - 1]
  <2>1. i - 1 \in 0..N /\ f[i - 1] \in Copies
        BY <1>1, <1>3
  <2> QED BY <1>3, <2>1
<1>5. \A i \in 0..N : f[i] = IF i = 0 THEN <<>>
                             ELSE IF s[i].url # u THEN Append(f[i - 1], s[i]) ELSE f[i - 1]
  <2> TAKE i \in 0..N
  <2>1. i = 0 \/ (i \in 1..N /\ i # 0)
        BY <1>1
  <2> HIDE DEF N
  <2> QED BY <1>3, <1>4, <2>1
<1>6. f = [i \in 0..N |-> IF i = 0 THEN <<>>
                          ELSE IF s[i].url # u THEN Append(f[i - 1], s[i]) ELSE f[i - 1]]
  <2> HIDE DEF N
  <2> QED BY <1>5
<1>7. F = [i \in 0..N |-> IF i = 0 THEN <<>>
                          ELSE IF s[i].url # u THEN Append(F[i - 1], s[i]) ELSE F[i - 1]]
      BY <1>6
<1>8. EC!Without(s, u) = F[N]
      BY DEF EC!Without
<1> HIDE DEF F, step, N
<1>9. F[0] = <<>> /\ \A i \in 1..N : F[i] = IF s[i].url # u THEN Append(F[i - 1], s[i]) ELSE F[i - 1]
  <2>1. 0 \in 0..N /\ \A i \in 1..N : i \in 0..N /\ i # 0
        BY <1>1
  <2> QED BY <1>7, <2>1
<1>10. \A i \in 0..N : F[i] \in Copies
  <2> DEFINE S == {i \in 0..N : F[i] \in Copies}
  <2>1. 0 \in S
        BY <1>1, <1>9
  <2>2. ASSUME NEW k \in 1..N, k - 1 \in S PROVE k \in S
        BY <1>1, <1>9, <2>2, BytesOfMore
  <2>3. \A k \in 0..N : k \in S
    <3> HIDE DEF S, N
    <3> QED BY <1>1, <2>1, <2>2, UpToBound
  <2> QED BY <2>3
<1>11. F \in [0..N -> Copies]
       BY <1>7, <1>10
<1> QED BY <1>8, <1>9, <1>11 DEF N

\* What is selected and what is left are the list.
LEMMA OfAndWithout ==
  ASSUME NEW s, Sound(s), NEW u
  PROVE  LET on == EC!Of(s, u)
             off == EC!Without(s, u) IN
         /\ on \in Copies /\ Len(on) <= 1 /\ off \in Copies
         /\ EC!Bytes(on) + EC!Bytes(off) = EC!Bytes(s) /\ Len(on) + Len(off) = Len(s)
         /\ \A k \in 1..Len(on) : on[k].url = u /\ on[k].etag = on[k].body
         /\ \A k \in 1..Len(off) : off[k].url # u /\ off[k].etag = off[k].body
         /\ OneEach(off)
<1> DEFINE N == Len(s)
<1>1. /\ N \in Nat /\ s \in Copies /\ OneEach(s) /\ s \in Seq(EC!Pair)
      /\ \A i \in 1..N : s[i] \in EC!Pair /\ s[i].etag = s[i].body
      BY DEF Sound, Copies
<1>2. PICK F \in [0..N -> Copies] :
            /\ F[0] = <<>> /\ EC!Of(s, u) = F[N]
            /\ \A i \in 1..N : F[i] = IF s[i].url = u THEN Append(F[i - 1], s[i]) ELSE F[i - 1]
      BY <1>1, OfGoesThrough
<1>3. PICK G \in [0..N -> Copies] :
            /\ G[0] = <<>> /\ EC!Without(s, u) = G[N]
            /\ \A i \in 1..N : G[i] = IF s[i].url # u THEN Append(G[i - 1], s[i]) ELSE G[i - 1]
      BY <1>1, WithoutGoesThrough
<1> DEFINE Front(i) == SubSeq(s, 1, i)
           Kept(t, i) == \A k \in 1..Len(t) : \E j \in 1..i : t[k] = s[j]
           Right(i) ==
             /\ EC!Bytes(F[i]) + EC!Bytes(G[i]) = EC!Bytes(Front(i))
             /\ Len(F[i]) + Len(G[i]) = i
             /\ Len(F[i]) <= 1 /\ Kept(F[i], i) /\ Kept(G[i], i) /\ OneEach(G[i])
             /\ \A k \in 1..Len(F[i]) : F[i][k].url = u
             /\ \A k \in 1..Len(G[i]) : G[i][k].url # u
           S == {i \in 0..N : Right(i)}
<1>4. Right(0)
  <2>1. Front(0) = <<>>
        BY <1>1
  <2>2. F[0] = <<>> /\ G[0] = <<>> /\ Len(<<>>) = 0 /\ 1..0 = {}
        BY <1>2, <1>3
  <2> HIDE DEF Front
  <2> QED BY <2>1, <2>2, BytesOfNone DEF OneEach
<1>5. ASSUME NEW i \in 1..N, Right(i - 1) PROVE Right(i)
  <2> DEFINE fo == F[i - 1]
             go == G[i - 1]
             cp == s[i]
  <2>1. /\ i - 1 \in 0..N /\ i \in 0..N /\ fo \in Copies /\ go \in Copies /\ cp \in EC!Pair
        /\ fo \in Seq(EC!Pair) /\ go \in Seq(EC!Pair) /\ 1..i - 1 \subseteq 1..i /\ i \in 1..i
    <3>1. i - 1 \in 0..N /\ i \in 0..N /\ 1..i - 1 \subseteq 1..i /\ i \in 1..i
          BY <1>1
    <3> HIDE DEF N
    <3> QED BY <1>1, <1>2, <1>3, <3>1 DEF Copies
  <2>2. Front(i) = Append(Front(i - 1), cp) /\ Front(i - 1) \in Copies
    <3>1. \A m \in 1..N : SubSeq(s, 1, m) = Append(SubSeq(s, 1, m - 1), s[m])
          BY <1>1, SubSeqRecursiveSecond
    <3> QED BY <1>1, <2>1, <3>1, BytesOfParts
  <2>3. EC!Bytes(Front(i)) = EC!Bytes(Front(i - 1)) + EC!Size(cp.body)
    <3> HIDE DEF cp, Front
    <3> QED BY <2>1, <2>2, BytesOfMore
  <2>4. /\ EC!Bytes(fo) \in Nat /\ EC!Bytes(go) \in Nat /\ EC!Size(cp.body) \in Nat
        /\ EC!Bytes(Append(fo, cp)) = EC!Bytes(fo) + EC!Size(cp.body)
        /\ EC!Bytes(Append(go, cp)) = EC!Bytes(go) + EC!Size(cp.body)
    <3> HIDE DEF fo, go, cp
    <3>1. EC!Bytes(fo) \in Nat /\ EC!Bytes(go) \in Nat
          BY <2>1, BytesIsNat
    <3>2. /\ EC!Bytes(Append(fo, cp)) = EC!Bytes(fo) + EC!Size(cp.body)
          /\ EC!Bytes(Append(go, cp)) = EC!Bytes(go) + EC!Size(cp.body)
          BY <2>1, BytesOfMore
    <3>3. EC!Size(cp.body) \in Nat
          BY <2>1, PairsHaveASize, CopiesAssumption
    <3> QED BY <3>1, <3>2, <3>3
  <2>5. \A j \in 1..i - 1 : s[j].url # cp.url
        BY <1>1 DEF OneEach
  <2>6. /\ EC!Bytes(fo) + EC!Bytes(go) = EC!Bytes(Front(i - 1))
        /\ Len(fo) + Len(go) = i - 1
        /\ Len(fo) <= 1 /\ Kept(fo, i - 1) /\ Kept(go, i - 1) /\ OneEach(go)
        /\ \A k \in 1..Len(fo) : fo[k].url = u
        /\ \A k \in 1..Len(go) : go[k].url # u
        BY <1>5
  <2>7. F[i] = (IF cp.url = u THEN Append(fo, cp) ELSE fo) /\ G[i] = (IF cp.url # u THEN Append(go, cp) ELSE go)
        BY <1>2, <1>3
  <2> HIDE DEF fo, go, Front
  <2>8. ASSUME NEW t \in Seq(EC!Pair), Kept(t, i - 1) PROVE Kept(t, i)
        BY <2>1, <2>8
  <2>9. ASSUME NEW t \in Seq(EC!Pair), Kept(t, i - 1) PROVE Kept(Append(t, cp), i)
    <3> SUFFICES ASSUME NEW k \in 1..Len(Append(t, cp)) PROVE \E j \in 1..i : Append(t, cp)[k] = s[j]
        OBVIOUS
    <3>1. Len(Append(t, cp)) = Len(t) + 1 /\ Len(t) \in Nat
          OBVIOUS
    <3>2. CASE k = Len(t) + 1
          BY <2>1, <3>2
    <3>3. CASE k \in 1..Len(t)
          BY <2>1, <2>9, <3>3
    <3> QED BY <3>1, <3>2, <3>3
  <2>10. CASE cp.url = u
    <3>1. Len(fo) = 0
      <4> SUFFICES ASSUME 1 \in 1..Len(fo) PROVE FALSE
          BY <2>1
      <4> QED BY <2>5, <2>6, <2>10
    <3>2. Len(F[i]) = 1 /\ F[i][1] = cp /\ F[i] = Append(fo, cp) /\ G[i] = go
          BY <2>1, <2>7, <2>10, <3>1
    <3>3. EC!Bytes(F[i]) + EC!Bytes(G[i]) = EC!Bytes(Front(i))
          BY <2>3, <2>4, <2>6, <3>2
    <3>4. Len(F[i]) + Len(G[i]) = i
          BY <2>1, <2>6, <3>1, <3>2
    <3>5. Kept(F[i], i) /\ Kept(G[i], i)
          BY <2>1, <2>6, <2>8, <2>9, <3>2
    <3> HIDE DEF cp, Kept
    <3> QED BY <2>6, <2>10, <3>2, <3>3, <3>4, <3>5
  <2>11. CASE cp.url # u
    <3>1. F[i] = fo /\ G[i] = Append(go, cp) /\ Len(G[i]) = Len(go) + 1 /\ Len(go) \in Nat
          /\ \A k \in 1..Len(go) : G[i][k] = go[k]
          /\ G[i][Len(go) + 1] = cp
          BY <2>1, <2>7, <2>11
    <3>2. EC!Bytes(F[i]) + EC!Bytes(G[i]) = EC!Bytes(Front(i))
          BY <2>3, <2>4, <2>6, <3>1
    <3>3. Len(F[i]) + Len(G[i]) = i
          BY <2>1, <2>6, <3>1
    <3>4. Kept(F[i], i) /\ Kept(G[i], i)
          BY <2>1, <2>6, <2>8, <2>9, <3>1
    <3>5. \A k \in 1..Len(go) : go[k].url # cp.url
          BY <2>5, <2>6
    <3> HIDE DEF cp, Kept
    <3>6. \A k \in 1..Len(G[i]) : k \in 1..Len(go) \/ k = Len(go) + 1
          BY <3>1
    <3>7. OneEach(G[i])
          BY <2>6, <3>1, <3>5, <3>6 DEF OneEach
    <3>8. \A k \in 1..Len(G[i]) : G[i][k].url # u
          BY <2>6, <2>11, <3>1, <3>6
    <3> QED BY <2>6, <3>1, <3>2, <3>3, <3>4, <3>7, <3>8
  <2> QED BY <2>10, <2>11
<1>6. \A i \in 0..N : i \in S
  <2> HIDE DEF Right, N
  <2>1. 0 \in S /\ \A i \in 1..N : i - 1 \in S => i \in S
        BY <1>1, <1>4, <1>5
  <2> HIDE DEF S
  <2> QED BY <1>1, <2>1, UpToBound
<1>7. Right(N)
  <2>1. N \in S
    <3> HIDE DEF S, N
    <3> QED BY <1>1, <1>6
  <2> HIDE DEF Right
  <2> QED BY <2>1
<1>8. Front(N) = s
      BY <1>1
<1>9. /\ \A k \in 1..Len(F[N]) : F[N][k].etag = F[N][k].body
      /\ \A k \in 1..Len(G[N]) : G[N][k].etag = G[N][k].body
      BY <1>1, <1>7
<1>10. F[N] \in Copies /\ G[N] \in Copies
       BY <1>1, <1>2, <1>3
<1> HIDE DEF Front
<1> QED BY <1>2, <1>3, <1>7, <1>8, <1>9, <1>10

LEMMA SoundTogether ==
  ASSUME NEW s, NEW t, Sound(s), Sound(t),
         \A i \in 1..Len(s), j \in 1..Len(t) : s[i].url # t[j].url
  PROVE  /\ Sound(s \o t) /\ Len(s \o t) = Len(s) + Len(t)
         /\ EC!Bytes(s \o t) = EC!Bytes(s) + EC!Bytes(t)
<1> DEFINE m == Len(s)
           n == Len(t)
           all == s \o t
<1>1. /\ s \in Seq(EC!Pair) /\ t \in Seq(EC!Pair) /\ s \in Copies /\ t \in Copies
      BY DEF Sound, Copies
<1>2. /\ m \in Nat /\ n \in Nat /\ Len(all) = m + n
      /\ \A i \in 1..m : all[i] = s[i]
      /\ \A i \in 1..m + n : i \notin 1..m => i - m \in 1..n /\ all[i] = t[i - m]
      BY <1>1
<1>3. all \in Copies /\ EC!Bytes(all) = EC!Bytes(s) + EC!Bytes(t)
      BY <1>1, BytesOfBoth
<1> HIDE DEF all
<1>4. \A i \in 1..m + n : all[i].etag = all[i].body
      BY <1>2 DEF Sound
<1>5. ASSUME NEW i \in 1..m + n, NEW j \in 1..m + n, all[i].url = all[j].url PROVE i = j
  <2>1. CASE i \in 1..m /\ j \in 1..m
        BY <1>2, <1>5, <2>1 DEF Sound, OneEach
  <2>2. CASE i \notin 1..m /\ j \notin 1..m
    <3>1. i - m = j - m
          BY <1>2, <1>5, <2>2 DEF Sound, OneEach
    <3> QED BY <1>2, <3>1
  <2>3. CASE i \in 1..m /\ j \notin 1..m
        BY <1>2, <1>5, <2>3
  <2>4. CASE i \notin 1..m /\ j \in 1..m
        BY <1>2, <1>5, <2>4
  <2> QED BY <2>1, <2>2, <2>3, <2>4
<1>6. OneEach(all)
      BY <1>2, <1>5 DEF OneEach
<1>7. Sound(all)
      BY <1>2, <1>3, <1>4, <1>6 DEF Sound
<1> QED BY <1>2, <1>3, <1>7 DEF all

LEMMA SoundPart ==
  ASSUME NEW s, Sound(s), NEW m \in 1..Len(s) + 1, NEW n \in 0..Len(s), m = 1 \/ n = Len(s)
  PROVE  Sound(SubSeq(s, m, n))
<1> DEFINE t == SubSeq(s, m, n)
<1>1. s \in Seq(EC!Pair) /\ Len(s) \in Nat /\ \A i \in 1..Len(s) : s[i] \in EC!Pair
      BY DEF Sound, Copies
<1>2. \A i \in m..n : i \in 1..Len(s) /\ s[i] \in EC!Pair
      BY <1>1
<1>3. /\ t \in Seq(EC!Pair) /\ Len(t) = (IF m <= n THEN n - m + 1 ELSE 0)
      /\ \A i \in 1..n - m + 1 : t[i] = s[m + i - 1]
      BY <1>1, <1>2, SubSeqProperties
<1> HIDE DEF t
<1>4. \A i \in 1..Len(t) : i \in 1..n - m + 1 /\ m + i - 1 \in 1..Len(s)
      BY <1>1, <1>3
<1>5. \A i \in 1..Len(t) : t[i].etag = t[i].body
      BY <1>3, <1>4 DEF Sound
<1>6. \A i, j \in 1..Len(t) : t[i].url = t[j].url => i = j
  <2> SUFFICES ASSUME NEW i \in 1..Len(t), NEW j \in 1..Len(t), t[i].url = t[j].url PROVE i = j
      OBVIOUS
  <2>1. m + i - 1 = m + j - 1
        BY <1>3, <1>4 DEF Sound, OneEach
  <2> QED BY <1>3, <1>4, <2>1
<1> QED BY <1>3, <1>5, <1>6 DEF Sound, OneEach, Copies, t

\* A list of at most one copy, for the URL.
CopyFor(s, u) == Sound(s) /\ Len(s) <= 1 /\ \A k \in 1..Len(s) : s[k].url = u

LEMMA SoundSplit ==
  ASSUME NEW s, Sound(s), NEW u
  PROVE  /\ CopyFor(EC!Of(s, u), u) /\ Sound(EC!Without(s, u))
         /\ \A k \in 1..Len(EC!Without(s, u)) : EC!Without(s, u)[k].url # u
         /\ EC!Bytes(EC!Of(s, u)) + EC!Bytes(EC!Without(s, u)) = EC!Bytes(s)
         /\ EC!Bytes(EC!Of(s, u)) \in Nat /\ EC!Bytes(EC!Without(s, u)) \in Nat
         /\ Len(EC!Of(s, u)) + Len(EC!Without(s, u)) = Len(s)
<1> DEFINE on == EC!Of(s, u)
           off == EC!Without(s, u)
<1>1. /\ on \in Copies /\ Len(on) <= 1 /\ off \in Copies
      /\ EC!Bytes(on) + EC!Bytes(off) = EC!Bytes(s) /\ Len(on) + Len(off) = Len(s)
      /\ \A k \in 1..Len(on) : on[k].url = u /\ on[k].etag = on[k].body
      /\ \A k \in 1..Len(off) : off[k].url # u /\ off[k].etag = off[k].body
      /\ OneEach(off)
      BY OfAndWithout
<1> HIDE DEF on, off
<1>2. Len(on) \in Nat
      BY <1>1 DEF Copies
<1>3. OneEach(on)
      BY <1>1, <1>2 DEF OneEach
<1>4. EC!Bytes(on) \in Nat /\ EC!Bytes(off) \in Nat
      BY <1>1, BytesIsNat
<1> QED BY <1>1, <1>3, <1>4 DEF CopyFor, Sound, on, off

\* Using a copy reorders the list.
LEMMA SoundReordered ==
  ASSUME NEW s, Sound(s), NEW u, NEW t \in {EC!Of(s, u) \o EC!Without(s, u),
                                            EC!Without(s, u) \o EC!Of(s, u)}
  PROVE  Sound(t) /\ Len(t) = Len(s) /\ EC!Bytes(t) = EC!Bytes(s)
<1> DEFINE on == EC!Of(s, u)
           off == EC!Without(s, u)
<1>1. /\ Sound(on) /\ Sound(off) /\ EC!Bytes(on) + EC!Bytes(off) = EC!Bytes(s)
      /\ EC!Bytes(on) \in Nat /\ EC!Bytes(off) \in Nat /\ Len(on) + Len(off) = Len(s)
      /\ \A i \in 1..Len(on), j \in 1..Len(off) : on[i].url # off[j].url
      BY SoundSplit DEF CopyFor
<1> HIDE DEF on, off
<1>2. Len(on) \in Nat /\ Len(off) \in Nat
      BY <1>1 DEF Sound, Copies
<1>3. CASE t = on \o off
      BY <1>1, <1>3, SoundTogether
<1>4. CASE t = off \o on
  <2>1. \A i \in 1..Len(off), j \in 1..Len(on) : off[i].url # on[j].url
        BY <1>1
  <2>2. /\ Sound(off \o on) /\ Len(off \o on) = Len(off) + Len(on)
        /\ EC!Bytes(off \o on) = EC!Bytes(off) + EC!Bytes(on)
        BY <1>1, <2>1, SoundTogether
  <2> QED BY <1>1, <1>2, <1>4, <2>2
<1> QED BY <1>3, <1>4 DEF on, off

LEMMA SoundOne ==
  ASSUME NEW cp \in EC!Pair, cp.etag = cp.body
  PROVE  Sound(<<cp>>) /\ Len(<<cp>>) = 1 /\ <<cp>>[1] = cp
BY DEF Sound, OneEach, Copies

LEMMA PutMemoryKeeps ==
  ASSUME Sound(memory), NEW cp \in EC!Pair, cp.etag = cp.body, EC!PutMemory(cp)
  PROVE  Sound(memory') /\ Len(memory') <= MaxEntries /\ EC!Bytes(memory') <= MaxBytes
<1> DEFINE all == <<cp>> \o EC!Without(memory, cp.url)
           fits == {n \in 0..Len(all) : n <= MaxEntries /\ EC!Bytes(SubSeq(all, 1, n)) <= MaxBytes}
<1>1. /\ Sound(EC!Without(memory, cp.url))
      /\ \A k \in 1..Len(EC!Without(memory, cp.url)) : EC!Without(memory, cp.url)[k].url # cp.url
      BY SoundSplit
<1>2. Sound(all)
  <2> DEFINE one == <<cp>>
             off == EC!Without(memory, cp.url)
  <2>1. Sound(one) /\ \A i \in 1..Len(one) : one[i] = cp
        BY SoundOne
  <2>2. Sound(off) /\ \A k \in 1..Len(off) : off[k].url # cp.url
        BY <1>1
  <2> HIDE DEF one, off
  <2>3. Sound(one \o off)
        BY <2>1, <2>2, SoundTogether
  <2> QED BY <2>3 DEF one, off
<1>3. memory' = SubSeq(all, 1, EC!Max(fits))
      BY DEF EC!PutMemory
<1> HIDE DEF all
<1>4. Len(all) \in Nat
      BY <1>2 DEF Sound, Copies
<1>5. 0 \in fits
  <2>1. SubSeq(all, 1, 0) = <<>>
        BY SubSeqEmpty
  <2>2. EC!Bytes(SubSeq(all, 1, 0)) = 0
        BY <2>1, BytesOfNone
  <2> QED BY <1>4, <2>2, CopiesAssumption
<1>6. \E n \in fits : \A k \in fits : n >= k
  <2> DEFINE left == {Len(all) - n : n \in fits}
  <2>1. fits \subseteq 0..Len(all)
        OBVIOUS
  <2> HIDE DEF fits
  <2>2. left \in SUBSET Nat /\ left # {}
        BY <1>4, <1>5, <2>1
  <2>3. PICK m \in left : \A k \in left : m <= k
    <3> HIDE DEF left
    <3> QED BY <2>2, LeastNatural
  <2>4. PICK n \in fits : m = Len(all) - n
        BY <2>3
  <2>5. \A k \in fits : Len(all) - n <= Len(all) - k
        BY <2>3, <2>4
  <2> QED BY <1>4, <2>1, <2>5
<1>7. EC!Max(fits) \in fits
  <2> HIDE DEF fits
  <2> QED BY <1>6 DEF EC!Max
<1> DEFINE n == EC!Max(fits)
<1>8. n \in 0..Len(all) /\ n <= MaxEntries /\ EC!Bytes(SubSeq(all, 1, n)) <= MaxBytes
      BY <1>7
<1> HIDE DEF n
<1>9. memory' = SubSeq(all, 1, n)
      BY <1>3 DEF n
<1>10. Sound(SubSeq(all, 1, n))
       BY <1>2, <1>4, <1>8, SoundPart
<1>11. Len(SubSeq(all, 1, n)) = n
       BY <1>2, <1>4, <1>8 DEF Sound, Copies
<1> QED BY <1>8, <1>9, <1>10, <1>11

\* Where a request is, and what it holds there.  What was answered 304 is what the
\* copy whose ETag was sent holds.
HoldsWhatItSays(r) ==
  \/ r.at = "idle"
  \/ r.at = "load" /\ r.url \in Urls
  \/ r.at = "adopt" /\ r.url \in Urls /\ CopyFor(r.cached, r.url) /\ Len(r.cached) = 1
       /\ r = [at |-> "adopt", url |-> r.url, cached |-> r.cached]
  \/ r.at = "send" /\ r.url \in Urls /\ CopyFor(r.cached, r.url)
  \/ r.at = "unchanged" /\ r.url \in Urls /\ Len(r.cached) = 1 /\ r.cached[1].body = r.now
  \/ r.at = "fresh" /\ r.url \in Urls /\ r.now \in EC!Contents
  \/ r.at = "save" /\ r.pair \in EC!Pair /\ r.pair.etag = r.pair.body
  \/ r.at = "served"

CopiesInv ==
  /\ content \in [Urls -> EC!Contents]
  /\ Sound(memory) /\ Sound(table) /\ tableBytes \in Nat
  /\ DOMAIN request = Requests /\ \A q \in Requests : HoldsWhatItSays(request[q])
  /\ turns \in 0..MaxTurns /\ torn \in {"no", "figure", "size"}
  /\ EC!CachesFit

LEMMA CopiesGoal == CopiesInv => EC!EtagTypeOK /\ EC!CachesFit
<1> SUFFICES ASSUME CopiesInv PROVE EC!EtagTypeOK /\ EC!CachesFit
    OBVIOUS
<1>1. EC!Range(memory) \cup EC!Range(table) \subseteq EC!Pair
  <2>1. ASSUME NEW s, Sound(s) PROVE EC!Range(s) \subseteq EC!Pair
        BY <2>1 DEF Sound, Copies, EC!Range
  <2> QED BY <2>1 DEF CopiesInv
<1>2. \A s \in {memory, table} : \A u \in Urls : Len(EC!Of(s, u)) <= 1
      BY SoundSplit DEF CopiesInv, CopyFor
<1> QED BY <1>1, <1>2 DEF CopiesInv, EC!EtagTypeOK

LEMMA CopiesInitInv == EC!EtagInit => CopiesInv
<1> SUFFICES ASSUME EC!EtagInit PROVE CopiesInv
    OBVIOUS
<1>1. Sound(<<>>) /\ Len(<<>>) = 0
      BY DEF Sound, OneEach, Copies
<1>2. /\ memory = <<>> /\ table = <<>> /\ tableBytes = 0 /\ torn = "no" /\ turns = 0
      /\ content = [u \in Urls |-> 0] /\ request = [q \in Requests |-> EC!Resting]
      BY DEF EC!EtagInit
<1>3. content \in [Urls -> EC!Contents] /\ turns \in 0..MaxTurns
      BY <1>2, CopiesAssumption DEF EC!Contents
<1>4. DOMAIN request = Requests /\ \A q \in Requests : HoldsWhatItSays(request[q])
      BY <1>2 DEF HoldsWhatItSays, EC!Resting
<1>5. EC!CachesFit
      BY <1>1, <1>2, BytesOfNone, CopiesAssumption DEF EC!CachesFit
<1> QED BY <1>1, <1>2, <1>3, <1>4, <1>5 DEF CopiesInv

\* A request moves on, and nothing else does.
LEMMA RequestMoves ==
  ASSUME CopiesInv, NEW q \in Requests, NEW r, EC!To(q, r), HoldsWhatItSays(r)
  PROVE  DOMAIN request' = Requests /\ \A o \in Requests : HoldsWhatItSays(request'[o])
BY DEF CopiesInv, EC!To

LEMMA OnlyTheRequest ==
  ASSUME CopiesInv, NEW q \in Requests, NEW r, EC!To(q, r), HoldsWhatItSays(r),
         UNCHANGED <<content, memory, table, tableBytes, torn, turns>>
  PROVE  CopiesInv'
<1>1. DOMAIN request' = Requests /\ \A o \in Requests : HoldsWhatItSays(request'[o])
      BY RequestMoves
<1> QED BY <1>1 DEF CopiesInv, EC!CachesFit

\* A list of copies in memory that is sound and fits.
LEMMA OnlyTheMemory ==
  ASSUME CopiesInv, NEW q \in Requests, NEW r, EC!To(q, r), HoldsWhatItSays(r),
         Sound(memory'), Len(memory') <= MaxEntries, EC!Bytes(memory') <= MaxBytes,
         UNCHANGED <<content, table, tableBytes, torn, turns>>
  PROVE  CopiesInv'
<1>1. DOMAIN request' = Requests /\ \A o \in Requests : HoldsWhatItSays(request'[o])
      BY RequestMoves
<1> QED BY <1>1 DEF CopiesInv, EC!CachesFit

LEMMA OnlyCopyIs ==
  ASSUME NEW s, NEW u, CopyFor(s, u), s # <<>>
  PROVE  /\ Len(s) = 1 /\ s[1] \in EC!Pair /\ s[1].url = u /\ s[1].etag = s[1].body
         /\ s[1].body \in EC!Contents
<1>1. s \in Seq(EC!Pair) /\ Len(s) <= 1
      BY DEF CopyFor, Sound, Copies
<1>2. Len(s) = 1 /\ s[1] \in EC!Pair
  <2>1. s # <<>> => Len(s) # 0
        BY <1>1, EmptySeq
  <2>2. Len(s) \in Nat
        BY <1>1
  <2>3. Len(s) = 1
    <3> DEFINE n == Len(s)
    <3>1. n \in Nat /\ n <= 1 /\ n # 0
          BY <1>1, <2>1, <2>2, Zenon
    <3> HIDE DEF n
    <3>2. n = 1
          BY <3>1
    <3> QED BY <3>2 DEF n
  <2> QED BY <1>1, <2>3
<1> QED BY <1>2, PairsHaveASize DEF CopyFor, Sound

LEMMA LooksKeepCopies ==
  ASSUME CopiesInv, NEW q \in Requests,
         (\E u \in Urls : EC!GetMemory(q, u)) \/ EC!Load(q) \/ EC!Adopt(q)
  PROVE  CopiesInv'
<1>1. ASSUME NEW u \in Urls, EC!GetMemory(q, u) PROVE CopiesInv'
  <2>1. CASE EC!Of(memory, u) # <<>>
    <3> DEFINE r == [at |-> "send", url |-> u, cached |-> EC!Of(memory, u)]
    <3>1. /\ memory' = EC!Of(memory, u) \o EC!Without(memory, u) /\ EC!To(q, r)
          /\ UNCHANGED <<content, table, tableBytes, torn, turns>>
          BY <1>1, <2>1 DEF EC!GetMemory, EC!stored
    <3>2. HoldsWhatItSays(r)
          BY SoundSplit DEF HoldsWhatItSays, CopiesInv
    <3>3. Sound(memory') /\ Len(memory') = Len(memory) /\ EC!Bytes(memory') = EC!Bytes(memory)
          BY <3>1, SoundReordered DEF CopiesInv
    <3>4. Len(memory') <= MaxEntries /\ EC!Bytes(memory') <= MaxBytes
          BY <3>3 DEF CopiesInv, EC!CachesFit
    <3> HIDE DEF r
    <3> QED BY <3>1, <3>2, <3>3, <3>4, OnlyTheMemory
  <2>2. CASE EC!Of(memory, u) = <<>>
    <3> DEFINE r == [at |-> "load", url |-> u]
    <3>1. EC!To(q, r) /\ UNCHANGED <<content, memory, table, tableBytes, torn, turns>>
          BY <1>1, <2>2 DEF EC!GetMemory, EC!stored
    <3>2. HoldsWhatItSays(r)
          BY DEF HoldsWhatItSays
    <3> HIDE DEF r
    <3> QED BY <3>1, <3>2, OnlyTheRequest
  <2> QED BY <2>1, <2>2
<1>2. CASE EC!Load(q)
  <2> DEFINE u == request[q].url
             adopted == [at |-> "adopt", url |-> u, cached |-> EC!Of(table, u)]
             sent == [at |-> "send", url |-> u, cached |-> <<>>]
  <2>1. /\ request[q].at = "load" /\ UNCHANGED <<content, memory, table, tableBytes, torn, turns>>
        /\ (EC!Of(table, u) # <<>> /\ EC!To(q, adopted)) \/ EC!To(q, sent)
        BY <1>2 DEF EC!Load, EC!stored
  <2>2. u \in Urls
        BY <2>1 DEF CopiesInv, HoldsWhatItSays
  <2> HIDE DEF u
  <2>3. CopyFor(EC!Of(table, u), u)
        BY SoundSplit DEF CopiesInv
  <2>4. EC!Of(table, u) # <<>> => HoldsWhatItSays(adopted)
        BY <2>2, <2>3, OnlyCopyIs DEF HoldsWhatItSays
  <2>5. HoldsWhatItSays(sent)
    <3>1. CopyFor(<<>>, u)
          BY DEF CopyFor, Sound, OneEach, Copies
    <3> QED BY <2>2, <3>1 DEF HoldsWhatItSays
  <2> HIDE DEF adopted, sent
  <2> QED BY <2>1, <2>4, <2>5, OnlyTheRequest
<1>3. CASE EC!Adopt(q)
  <2> DEFINE r == request[q]
             cp == r.cached[1]
             sent == [r EXCEPT !.at = "send"]
  <2>1. /\ r.at = "adopt" /\ EC!PutMemory(cp) /\ EC!To(q, sent)
        /\ UNCHANGED <<content, table, tableBytes, torn, turns>>
        BY <1>3 DEF EC!Adopt, EC!stored
  <2>2. /\ r.url \in Urls /\ CopyFor(r.cached, r.url) /\ Len(r.cached) = 1
        /\ r = [at |-> "adopt", url |-> r.url, cached |-> r.cached]
        BY <2>1 DEF CopiesInv, HoldsWhatItSays
  <2>3. cp \in EC!Pair /\ cp.etag = cp.body
        BY <2>2, OnlyCopyIs
  <2>4. sent.at = "send" /\ sent.url = r.url /\ sent.cached = r.cached
        BY <2>2
  <2>5. HoldsWhatItSays(sent)
        BY <2>2, <2>4 DEF HoldsWhatItSays
  <2> HIDE DEF sent, cp
  <2>6. Sound(memory') /\ Len(memory') <= MaxEntries /\ EC!Bytes(memory') <= MaxBytes
        BY <2>1, <2>3, PutMemoryKeeps DEF CopiesInv
  <2> QED BY <2>1, <2>5, <2>6, OnlyTheMemory
<1> QED BY <1>1, <1>2, <1>3

LEMMA AnswersKeepCopies ==
  ASSUME CopiesInv, NEW q \in Requests,
         \/ EC!ForgeAnswers(q) \/ EC!RoundTripFails(q) \/ EC!ServedFromCache(q)
         \/ EC!MaybeCache(q) \/ EC!Done(q)
  PROVE  CopiesInv'
<1> DEFINE r == request[q]
<1>0. HoldsWhatItSays(r)
      BY DEF CopiesInv
<1>1. CASE EC!ForgeAnswers(q)
  <2> DEFINE now == content[r.url]
             same == [at |-> "unchanged", url |-> r.url, cached |-> r.cached, now |-> now]
             new(tagged) == [at |-> "fresh", url |-> r.url, tagged |-> tagged, now |-> now]
  <2>1. r.at = "send" /\ UNCHANGED <<content, memory, table, tableBytes, torn, turns>>
        BY <1>1 DEF EC!ForgeAnswers, EC!stored
  <2>2. r.url \in Urls /\ CopyFor(r.cached, r.url) /\ now \in EC!Contents
        BY <1>0, <2>1 DEF HoldsWhatItSays, CopiesInv
  <2>3. CASE r.cached # <<>> /\ r.cached[1].etag = now
    <3>1. EC!To(q, same)
          BY <1>1, <2>3 DEF EC!ForgeAnswers
    <3>2. Len(r.cached) = 1 /\ r.cached[1].body = now
          BY <2>2, <2>3, OnlyCopyIs
    <3>3. HoldsWhatItSays(same)
          BY <2>2, <3>2 DEF HoldsWhatItSays
    <3> HIDE DEF same
    <3> QED BY <2>1, <3>1, <3>3, OnlyTheRequest
  <2>4. CASE ~(r.cached # <<>> /\ r.cached[1].etag = now)
    <3>1. PICK tagged \in BOOLEAN : EC!To(q, new(tagged))
          BY <1>1, <2>4 DEF EC!ForgeAnswers
    <3>2. HoldsWhatItSays(new(tagged))
          BY <2>2 DEF HoldsWhatItSays
    <3> DEFINE fresh == new(tagged)
    <3>3. EC!To(q, fresh) /\ HoldsWhatItSays(fresh)
          BY <3>1, <3>2
    <3> HIDE DEF fresh
    <3> QED BY <2>1, <3>3, OnlyTheRequest
  <2> QED BY <2>3, <2>4
<1>2. CASE EC!RoundTripFails(q) \/ EC!Done(q)
  <2>1. EC!To(q, EC!Resting) /\ UNCHANGED <<content, memory, table, tableBytes, torn, turns>>
        BY <1>2 DEF EC!RoundTripFails, EC!Done, EC!stored
  <2>2. HoldsWhatItSays(EC!Resting)
        BY DEF HoldsWhatItSays, EC!Resting
  <2> QED BY <2>1, <2>2, OnlyTheRequest
<1>3. CASE EC!ServedFromCache(q)
  <2> DEFINE given == [at |-> "served", body |-> EC!Served(r)]
  <2>1. /\ r.at = "unchanged" /\ EC!To(q, given)
        /\ table' \in {table, EC!Without(table, r.url) \o EC!Of(table, r.url)}
        /\ UNCHANGED <<content, memory, tableBytes, torn, turns>>
        BY <1>3 DEF EC!ServedFromCache
  <2>2. HoldsWhatItSays(given)
        BY <1>0, <2>1 DEF HoldsWhatItSays, EC!Served
  <2> HIDE DEF given
  <2>3. DOMAIN request' = Requests /\ \A o \in Requests : HoldsWhatItSays(request'[o])
        BY <2>1, <2>2, RequestMoves
  <2>4. Sound(table') /\ EC!Bytes(table') = EC!Bytes(table)
        BY <2>1, SoundReordered DEF CopiesInv
  <2> QED BY <2>1, <2>3, <2>4 DEF CopiesInv, EC!CachesFit
<1>4. CASE EC!MaybeCache(q)
  <2> DEFINE cp == [url |-> r.url, etag |-> r.now, body |-> r.now]
             kept == [at |-> "save", pair |-> cp]
             passed == [at |-> "served", body |-> r.now]
  <2>1. /\ r.at = "fresh" /\ UNCHANGED <<content, table, tableBytes, torn, turns>>
        /\ (EC!PutMemory(cp) /\ EC!To(q, kept)) \/ (EC!To(q, passed) /\ memory' = memory)
        BY <1>4 DEF EC!MaybeCache, EC!stored
  <2>2. r.url \in Urls /\ r.now \in EC!Contents
        BY <1>0, <2>1 DEF HoldsWhatItSays
  <2>3. cp \in EC!Pair /\ cp.etag = cp.body
        BY <2>2 DEF EC!Pair
  <2>4. HoldsWhatItSays(kept) /\ HoldsWhatItSays(passed)
        BY <2>3 DEF HoldsWhatItSays
  <2> HIDE DEF cp, kept, passed
  <2>5. CASE EC!PutMemory(cp) /\ EC!To(q, kept)
    <3>1. Sound(memory') /\ Len(memory') <= MaxEntries /\ EC!Bytes(memory') <= MaxBytes
          BY <2>3, <2>5, PutMemoryKeeps DEF CopiesInv
    <3> QED BY <2>1, <2>4, <2>5, <3>1, OnlyTheMemory
  <2>6. CASE EC!To(q, passed) /\ memory' = memory
        BY <2>1, <2>4, <2>6, OnlyTheRequest
  <2> QED BY <2>1, <2>5, <2>6
<1> QED BY <1>1, <1>2, <1>3, <1>4

\* How many rows go: all of them, or enough for the figure to fit.
LEMMA EvictedFits ==
  ASSUME NEW rows, Sound(rows), NEW figure
  PROVE  /\ EC!Evicted(rows, figure) \in 0..Len(rows)
         /\ \/ EC!Evicted(rows, figure) = Len(rows)
            \/ EC!Bytes(SubSeq(rows, 1, EC!Evicted(rows, figure))) + TableCap >= figure
<1> DEFINE enough == {n \in 0..Len(rows) :
              n = Len(rows) \/ EC!Bytes(SubSeq(rows, 1, n)) + TableCap >= figure}
<1>1. Len(rows) \in Nat
      BY DEF Sound, Copies
<1>2. Len(rows) \in enough /\ enough \in SUBSET Nat
      BY <1>1
<1>3. \E m \in enough : \A n \in enough : m <= n
  <2> HIDE DEF enough
  <2> QED BY <1>2, LeastNatural
<1>4. EC!Min(enough) \in enough
  <2> HIDE DEF enough
  <2> QED BY <1>3 DEF EC!Min
<1> QED BY <1>4 DEF EC!Evicted

LEMMA SavesKeepCopies ==
  ASSUME CopiesInv, NEW q \in Requests, EC!SaveETag(q) \/ EC!SaveFails(q)
  PROVE  CopiesInv'
<1> DEFINE cp == request[q].pair
           given == [at |-> "served", body |-> cp.body]
           old == EC!Of(table, cp.url)
           rest == EC!Without(table, cp.url)
           rows == Append(rest, cp)
           sum == EC!Figure(old, cp)
           out == EC!Evicted(rows, sum)
<1>1. /\ request[q].at = "save" /\ EC!To(q, given) /\ UNCHANGED <<content, memory, turns>>
      BY DEF EC!SaveETag, EC!SaveFails, EC!stored
<1>2. cp \in EC!Pair /\ cp.etag = cp.body /\ EC!Size(cp.body) \in Nat
  <2>1. cp \in EC!Pair /\ cp.etag = cp.body
        BY <1>1 DEF CopiesInv, HoldsWhatItSays
  <2> HIDE DEF cp
  <2> QED BY <2>1, PairsHaveASize, CopiesAssumption
<1>3. HoldsWhatItSays(given)
      BY DEF HoldsWhatItSays
<1>4. CASE EC!SaveFails(q)
  <2>1. UNCHANGED <<table, tableBytes, torn>>
        BY <1>4 DEF EC!SaveFails, EC!stored
  <2> HIDE DEF given
  <2> QED BY <1>1, <1>3, <2>1, OnlyTheRequest
<1>5. CASE EC!SaveETag(q)
  <2>1. DOMAIN request' = Requests /\ \A o \in Requests : HoldsWhatItSays(request'[o])
    <3> HIDE DEF given
    <3> QED BY <1>1, <1>3, RequestMoves
  <2>2. /\ Sound(rest) /\ \A k \in 1..Len(rest) : rest[k].url # cp.url
        /\ EC!Bytes(old) + EC!Bytes(rest) = EC!Bytes(table)
        /\ EC!Bytes(old) \in Nat /\ EC!Bytes(rest) \in Nat
        BY SoundSplit DEF CopiesInv
  <2>3. CASE EC!Size(cp.body) > TableCap
    <3>1. table' = rest /\ tableBytes' = tableBytes - EC!Bytes(old) /\ torn' = torn
          BY <1>5, <2>3 DEF EC!SaveETag
    <3>2. /\ tableBytes \in Nat /\ EC!Bytes(table) <= tableBytes
          /\ torn # "figure" => EC!Bytes(table) = tableBytes
          /\ torn = "no" => tableBytes <= TableCap
          BY DEF CopiesInv, EC!CachesFit
    <3> HIDE DEF old, rest
    <3>3. /\ tableBytes' \in Nat /\ EC!Bytes(table') <= tableBytes'
          /\ torn' # "figure" => EC!Bytes(table') = tableBytes'
          /\ torn' = "no" => tableBytes' <= TableCap
          BY <2>2, <3>1, <3>2, CopiesAssumption
    <3> QED BY <1>1, <2>1, <2>2, <3>1, <3>3 DEF CopiesInv, EC!CachesFit
  <2>4. CASE ~(EC!Size(cp.body) > TableCap)
    <3>1. PICK n \in 0..out :
             /\ table' = SubSeq(rows, n + 1, Len(rows))
             /\ tableBytes' = IF n = out THEN sum - EC!Bytes(SubSeq(rows, 1, n)) ELSE sum
             /\ torn' = IF n < out THEN "figure" ELSE IF torn = "size" THEN "no" ELSE torn
          BY <1>5, <2>4 DEF EC!SaveETag
    <3>2. Sound(rows) /\ EC!Bytes(rows) = EC!Bytes(rest) + EC!Size(cp.body)
      <4> HIDE DEF cp, rest, rows
      <4>1. Sound(<<cp>>) /\ Len(<<cp>>) = 1 /\ <<cp>>[1] = cp /\ EC!Bytes(<<cp>>) = EC!Size(cp.body)
            BY <1>2, SoundOne, BytesOfOne
      <4>2. Sound(rest \o <<cp>>) /\ EC!Bytes(rest \o <<cp>>) = EC!Bytes(rest) + EC!Bytes(<<cp>>)
        <5> DEFINE one == <<cp>>
        <5>1. Sound(one) /\ \A j \in 1..Len(one) : one[j] = cp
              BY <4>1
        <5> HIDE DEF one
        <5>2. \A i \in 1..Len(rest), j \in 1..Len(one) : rest[i].url # one[j].url
              BY <2>2, <5>1
        <5>3. Sound(rest \o one) /\ EC!Bytes(rest \o one) = EC!Bytes(rest) + EC!Bytes(one)
              BY <2>2, <5>1, <5>2, SoundTogether
        <5> QED BY <5>3 DEF one
      <4>3. rows = rest \o <<cp>>
        <5>1. rest \in Seq(EC!Pair)
              BY <2>2 DEF Sound, Copies
        <5> QED BY <1>2, <5>1 DEF rows
      <4> QED BY <4>1, <4>2, <4>3
    <3>3. out \in 0..Len(rows) /\ (out = Len(rows) \/ EC!Bytes(SubSeq(rows, 1, out)) + TableCap >= sum)
      <4> HIDE DEF rows, sum
      <4> QED BY <3>2, EvictedFits
    <3>4. sum = tableBytes + EC!Size(cp.body) - EC!Bytes(old)
          BY DEF EC!Figure
    <3>5. /\ tableBytes \in Nat /\ EC!Bytes(table) <= tableBytes
          /\ torn # "figure" => EC!Bytes(table) = tableBytes
          /\ torn = "no" => tableBytes <= TableCap
          BY DEF CopiesInv, EC!CachesFit
    <3> HIDE DEF cp, old, rest, rows, sum, out
    <3>6. /\ sum \in Nat /\ EC!Bytes(rows) <= sum /\ EC!Bytes(rows) \in Nat
          /\ torn # "figure" => EC!Bytes(rows) = sum
          BY <1>2, <2>2, <3>2, <3>4, <3>5
    <3>7. rows \in Copies /\ Len(rows) \in Nat
          BY <3>2 DEF Sound, Copies
    <3>8. n \in 0..Len(rows) /\ n \in Nat /\ n + 1 \in 1..Len(rows) + 1
          BY <3>1, <3>3, <3>7
    <3>9. Sound(table')
          BY <3>1, <3>2, <3>7, <3>8, SoundPart
    <3> DEFINE front == SubSeq(rows, 1, n)
    <3>10. /\ EC!Bytes(front) \in Nat /\ EC!Bytes(table') \in Nat
           /\ EC!Bytes(rows) = EC!Bytes(front) + EC!Bytes(table')
           BY <3>1, <3>7, <3>8, BytesOfParts, BytesIsNat
    <3>11. /\ tableBytes' = IF n = out THEN sum - EC!Bytes(front) ELSE sum
           /\ torn' = IF n < out THEN "figure" ELSE IF torn = "size" THEN "no" ELSE torn
           /\ n <= out /\ out \in Nat
           BY <3>1, <3>3
    <3>12. CASE n = out
      <4>1. out = Len(rows) => EC!Bytes(front) = EC!Bytes(rows)
        <5>1. SubSeq(rows, 1, Len(rows)) = rows
              BY <3>7, SubSeqFull DEF Copies
        <5> QED BY <3>12, <5>1
      <4>2. out = Len(rows) \/ EC!Bytes(front) + TableCap >= sum
            BY <3>3, <3>12
      <4> HIDE DEF front
      <4>3. tableBytes' = sum - EC!Bytes(front) /\ torn' = IF torn = "size" THEN "no" ELSE torn
            BY <3>11, <3>12
      <4>4. tableBytes' \in Nat /\ EC!Bytes(table') <= tableBytes'
            BY <3>6, <3>10, <4>3
      <4>5. torn' # "figure" => torn # "figure" /\ EC!Bytes(table') = tableBytes'
            BY <3>6, <3>10, <4>3
      <4>6. torn' = "no" => tableBytes' <= TableCap
            BY <3>6, <3>10, <4>1, <4>2, <4>3, <4>5, CopiesAssumption
      <4>7. torn' \in {"no", "figure", "size"}
            BY <4>3 DEF CopiesInv
      <4> QED BY <1>1, <2>1, <3>9, <4>4, <4>5, <4>6, <4>7 DEF CopiesInv, EC!CachesFit
    <3>13. CASE n # out
      <4> HIDE DEF front
      <4>1. n < out /\ tableBytes' = sum /\ torn' = "figure"
            BY <3>8, <3>11, <3>13
      <4>2. tableBytes' \in Nat /\ EC!Bytes(table') <= tableBytes'
            BY <3>6, <3>10, <4>1
      <4> QED BY <1>1, <2>1, <3>9, <4>1, <4>2 DEF CopiesInv, EC!CachesFit
    <3> QED BY <3>12, <3>13
  <2> QED BY <2>3, <2>4
<1> QED BY <1>4, <1>5

LEMMA CopiesStep == CopiesInv /\ EC!EtagNext => CopiesInv'
<1> SUFFICES ASSUME CopiesInv, EC!EtagNext PROVE CopiesInv'
    OBVIOUS
<1>1. ASSUME NEW q \in Requests, EC!RoundTrip(q) PROVE CopiesInv'
      BY <1>1, LooksKeepCopies, AnswersKeepCopies, SavesKeepCopies DEF EC!RoundTrip
<1>2. ASSUME NEW u \in Urls, EC!ContentMoves(u) PROVE CopiesInv'
  <2>1. /\ turns < MaxTurns /\ turns' = turns + 1
        /\ UNCHANGED <<memory, table, tableBytes, torn, request>>
        /\ \E o \in EC!Contents : content' = [content EXCEPT ![u] = o]
        BY <1>2 DEF EC!ContentMoves, EC!stored
  <2>2. content' \in [Urls -> EC!Contents]
        BY <2>1 DEF CopiesInv
  <2>3. turns' \in 0..MaxTurns
        BY <2>1, CopiesAssumption DEF CopiesInv
  <2> QED BY <2>1, <2>2, <2>3 DEF CopiesInv, EC!CachesFit
<1>3. CASE EC!EtagRestart
  <2>1. /\ turns < MaxTurns /\ turns' = turns + 1 /\ memory' = <<>>
        /\ request' = [q \in Requests |-> EC!Resting]
        /\ tableBytes' = EC!Bytes(table)
        /\ torn' = IF EC!Bytes(table) > TableCap THEN "size" ELSE "no"
        /\ content' = content /\ table' = table
        BY <1>3 DEF EC!EtagRestart
  <2>2. Sound(<<>>) /\ Len(<<>>) = 0 /\ EC!Bytes(<<>>) = 0
        BY BytesOfNone DEF Sound, OneEach, Copies
  <2>3. EC!Bytes(table) \in Nat
        BY BytesIsNat DEF CopiesInv, Sound
  <2>4. turns' \in 0..MaxTurns
        BY <2>1, CopiesAssumption DEF CopiesInv
  <2>5. DOMAIN request' = Requests /\ \A q \in Requests : HoldsWhatItSays(request'[q])
        BY <2>1 DEF HoldsWhatItSays, EC!Resting
  <2>6. EC!CachesFit'
        BY <2>1, <2>2, <2>3, CopiesAssumption DEF EC!CachesFit
  <2>7. Sound(memory')
        BY <2>1, <2>2
  <2> QED BY <2>1, <2>3, <2>4, <2>5, <2>6, <2>7 DEF CopiesInv
<1> QED BY <1>1, <1>2, <1>3 DEF EC!EtagNext

\* A request that moves on changes what its own caller sees, if anything.
LEMMA CallersSee ==
  ASSUME DOMAIN request = Requests, NEW q \in Requests, NEW r, EC!To(q, r)
  PROVE  LET seen == [o \in Requests |-> EC!Asked(request[o])]
             seen2 == [o \in Requests |-> EC!Asked(request'[o])] IN
         /\ seen2 = [seen EXCEPT ![q] = EC!Asked(r)]
         /\ EC!Asked(r) = EC!Asked(request[q]) => seen2 = seen
<1>1. \A o \in Requests : request'[o] = IF o = q THEN r ELSE request[o]
      BY DEF EC!To
<1> QED BY <1>1

LEMMA SeenAsIs ==
  ASSUME DOMAIN request = Requests, NEW q \in Requests, NEW r, EC!To(q, r),
         EC!Asked(r) = EC!Asked(request[q]), content' = content
  PROVE  UNCHANGED UN!uncachedVars
BY CallersSee DEF UN!uncachedVars

\* Every step of the copies is one of a client without them, or is not seen.
LEMMA CopiesAreNotSeen ==
  CopiesInv /\ EC!EtagNext => [UN!UncachedNext]_(UN!uncachedVars)
<1> SUFFICES ASSUME CopiesInv, EC!EtagNext PROVE UN!UncachedNext \/ UNCHANGED UN!uncachedVars
    OBVIOUS
<1> DEFINE seen == [o \in Requests |-> EC!Asked(request[o])]
           seen2 == [o \in Requests |-> EC!Asked(request'[o])]
<1>0. DOMAIN request = Requests /\ \A q \in Requests : HoldsWhatItSays(request[q])
      BY DEF CopiesInv
<1>1. ASSUME NEW q \in Requests, EC!RoundTrip(q)
      PROVE  UN!UncachedNext \/ UNCHANGED UN!uncachedVars
  <2> DEFINE r == request[q]
  <2>0. HoldsWhatItSays(r) /\ seen[q] = EC!Asked(r)
        BY <1>0
  <2>1. ASSUME NEW u \in Urls, EC!GetMemory(q, u) PROVE UN!Ask(q, u)
    <3>1. PICK new : /\ EC!To(q, new) /\ new.at \in {"send", "load"} /\ new.url = u
                     /\ r.at = "idle" /\ content' = content
          BY <2>1 DEF EC!GetMemory
    <3>2. EC!Asked(new) = [at |-> "asked", url |-> u] /\ EC!Asked(r).at = "idle"
          BY <3>1 DEF EC!Asked
    <3>3. seen2 = [seen EXCEPT ![q] = EC!Asked(new)]
          BY <1>0, <3>1, CallersSee
    <3> HIDE DEF r
    <3> QED BY <2>0, <3>1, <3>2, <3>3 DEF UN!Ask
  <2>2. CASE EC!Load(q)
    <3>1. PICK new : /\ EC!To(q, new) /\ new.at \in {"adopt", "send"} /\ new.url = r.url
                     /\ r.at = "load" /\ content' = content
          BY <2>2 DEF EC!Load
    <3>2. EC!Asked(new) = EC!Asked(r)
          BY <3>1 DEF EC!Asked
    <3> QED BY <1>0, <3>1, <3>2, SeenAsIs
  <2>3. CASE EC!Adopt(q)
    <3> DEFINE new == [r EXCEPT !.at = "send"]
    <3>1. EC!To(q, new) /\ r.at = "adopt" /\ content' = content
          BY <2>3 DEF EC!Adopt
    <3>2. new.at = "send" /\ new.url = r.url
          BY <2>0, <3>1 DEF HoldsWhatItSays
    <3> HIDE DEF new
    <3>3. EC!Asked(new) = EC!Asked(r)
          BY <3>1, <3>2 DEF EC!Asked
    <3> QED BY <1>0, <3>1, <3>3, SeenAsIs
  <2>4. CASE EC!ForgeAnswers(q)
    <3>1. PICK new : /\ EC!To(q, new) /\ new.at \in {"unchanged", "fresh"}
                     /\ new.now = content[r.url] /\ r.at = "send" /\ content' = content
          BY <2>4 DEF EC!ForgeAnswers
    <3>2. EC!Asked(new) = [at |-> "answered", body |-> content[r.url]]
          BY <3>1 DEF EC!Asked
    <3>3. EC!Asked(r).at = "asked" /\ EC!Asked(r).url = r.url
          BY <3>1 DEF EC!Asked
    <3>4. seen2 = [seen EXCEPT ![q] = EC!Asked(new)]
          BY <1>0, <3>1, CallersSee
    <3> HIDE DEF r
    <3>5. UN!Answer(q)
          BY <2>0, <3>1, <3>2, <3>3, <3>4 DEF UN!Answer
    <3> QED BY <3>5 DEF UN!UncachedNext
  <2>5. CASE EC!RoundTripFails(q) \/ EC!Done(q)
    <3>1. EC!To(q, EC!Resting) /\ r.at \in {"send", "served"} /\ content' = content
          BY <2>5 DEF EC!RoundTripFails, EC!Done
    <3>2. EC!Asked(EC!Resting) = UN!NotThere
          BY DEF EC!Asked, EC!Resting, UN!NotThere
    <3>3. EC!Asked(r).at \in {"asked", "answered"}
          BY <3>1 DEF EC!Asked
    <3>4. seen2 = [seen EXCEPT ![q] = UN!NotThere]
          BY <1>0, <3>1, <3>2, CallersSee
    <3> HIDE DEF r
    <3>5. UN!Leave(q)
          BY <2>0, <3>1, <3>3, <3>4 DEF UN!Leave
    <3> QED BY <3>5 DEF UN!UncachedNext
  <2>6. CASE EC!ServedFromCache(q)
    <3> DEFINE new == [at |-> "served", body |-> EC!Served(r)]
    <3>1. EC!To(q, new) /\ r.at = "unchanged" /\ content' = content
          BY <2>6 DEF EC!ServedFromCache
    <3>2. EC!Served(r) = r.now
          BY <2>0, <3>1 DEF HoldsWhatItSays, EC!Served
    <3>3. EC!Asked(new) = EC!Asked(r)
          BY <3>1, <3>2 DEF EC!Asked
    <3> HIDE DEF new
    <3> QED BY <1>0, <3>1, <3>3, SeenAsIs
  <2>7. CASE EC!MaybeCache(q)
    <3> DEFINE cp == [url |-> r.url, etag |-> r.now, body |-> r.now]
               kept == [at |-> "save", pair |-> cp]
               passed == [at |-> "served", body |-> r.now]
    <3>1. (EC!To(q, kept) \/ EC!To(q, passed)) /\ r.at = "fresh" /\ content' = content
          BY <2>7 DEF EC!MaybeCache
    <3>2. EC!Asked(kept) = EC!Asked(r) /\ EC!Asked(passed) = EC!Asked(r)
          BY <3>1 DEF EC!Asked
    <3> HIDE DEF kept, passed
    <3> QED BY <1>0, <3>1, <3>2, SeenAsIs
  <2>8. CASE EC!SaveETag(q) \/ EC!SaveFails(q)
    <3> DEFINE new == [at |-> "served", body |-> r.pair.body]
    <3>1. EC!To(q, new) /\ r.at = "save" /\ content' = content
          BY <2>8 DEF EC!SaveETag, EC!SaveFails
    <3>2. EC!Asked(new) = EC!Asked(r)
          BY <3>1 DEF EC!Asked
    <3> HIDE DEF new
    <3> QED BY <1>0, <3>1, <3>2, SeenAsIs
  <2>9. CASE \E u \in Urls : EC!GetMemory(q, u)
        BY <2>1, <2>9 DEF UN!UncachedNext
  <2> QED BY <1>1, <2>2, <2>3, <2>4, <2>5, <2>6, <2>7, <2>8, <2>9 DEF EC!RoundTrip
<1>2. ASSUME NEW u \in Urls, EC!ContentMoves(u) PROVE UN!UncachedNext
  <2>1. request' = request /\ \E o \in EC!Contents \ {content[u]} : content' = [content EXCEPT ![u] = o]
        BY <1>2 DEF EC!ContentMoves
  <2>2. UN!ForgeChanges(u)
        BY <2>1 DEF UN!ForgeChanges
  <2> QED BY <2>2 DEF UN!UncachedNext
<1>3. CASE EC!EtagRestart
  <2>1. content' = content /\ request' = [q \in Requests |-> EC!Resting]
        BY <1>3 DEF EC!EtagRestart
  <2>2. EC!Asked(EC!Resting) = UN!NotThere
        BY DEF EC!Asked, EC!Resting, UN!NotThere
  <2>3. UN!Stop
        BY <2>1, <2>2 DEF UN!Stop
  <2> QED BY <2>3 DEF UN!UncachedNext
<1> QED BY <1>1, <1>2, <1>3 DEF EC!EtagNext

\* MCSpec => []CopiesInv.  However requests overlap and whatever is evicted, lost or
\* saved meanwhile: a list keeps one copy for a URL, a copy's ETag is its body's, what a
\* request was answered with 304 is what it holds, and the figure of the table is its
\* size or too high (etag_transport.go, etag_store.go, cache.go).
THEOREM CopiesInvariant == MCSpec => []CopiesInv
<1>1. MCInit => CopiesInv
      BY CopiesInitInv DEF MCInit
<1>2. CopiesInv /\ [MCNext]_<<part, formVars, keyVars, upgradeVars, ruleVars, branchVars,
                              cacheVars, etagVars>> => CopiesInv'
  <2> SUFFICES ASSUME CopiesInv,
                      [MCNext]_<<part, formVars, keyVars, upgradeVars, ruleVars, branchVars,
                                 cacheVars, etagVars>>
               PROVE  CopiesInv'
      OBVIOUS
  <2>1. EC!EtagNext \/ UNCHANGED etagVars
        BY DEF MCNext
  <2>2. CASE UNCHANGED etagVars
    <3>1. /\ content' = content /\ memory' = memory /\ table' = table /\ turns' = turns
          /\ tableBytes' = tableBytes /\ request' = request /\ torn' = torn
          BY <2>2 DEF etagVars
    <3> QED BY <3>1 DEF CopiesInv, EC!CachesFit
  <2> QED BY <2>1, <2>2, CopiesStep
<1> QED BY <1>1, <1>2, PTL DEF MCSpec

\* MCSpec => UN!UncachedSpec.  The transport with its copies implements a client that
\* keeps none: each look-up, load, store, eviction and save is a step its callers do not
\* see, a 304 served from a copy is the answer the forge would have sent, and a restart
\* only stops the requests under way (RoundTrip, etag_transport.go:79-113).
THEOREM UncachedImplemented == MCSpec => UN!UncachedSpec
<1>1. MCInit => UN!UncachedInit
  <2> SUFFICES ASSUME EC!EtagInit PROVE UN!UncachedInit
      BY DEF MCInit
  <2>1. content \in [Urls -> EC!Contents]
        BY CopiesInitInv DEF CopiesInv
  <2>2. \A q \in Requests : EC!Asked(request[q]) = UN!NotThere
        BY DEF EC!EtagInit, EC!Asked, EC!Resting, UN!NotThere
  <2> QED BY <2>1, <2>2 DEF UN!UncachedInit
<1>2. CopiesInv /\ [MCNext]_<<part, formVars, keyVars, upgradeVars, ruleVars, branchVars,
                              cacheVars, etagVars>>
        => [UN!UncachedNext]_(UN!uncachedVars)
  <2> SUFFICES ASSUME CopiesInv,
                      [MCNext]_<<part, formVars, keyVars, upgradeVars, ruleVars, branchVars,
                                 cacheVars, etagVars>>
               PROVE  [UN!UncachedNext]_(UN!uncachedVars)
      OBVIOUS
  <2>1. EC!EtagNext \/ UNCHANGED etagVars
        BY DEF MCNext
  <2>2. CASE UNCHANGED etagVars
    <3>1. content' = content /\ request' = request
          BY <2>2 DEF etagVars
    <3> QED BY <3>1 DEF UN!uncachedVars
  <2> QED BY <2>1, <2>2, CopiesAreNotSeen
<1> QED BY <1>1, <1>2, CopiesInvariant, PTL DEF MCSpec, UN!UncachedSpec

\* MCSpec => CopiesAreTrue.  The saved snapshot is the board unless saves crossed or
\* failed, the copies of answers stay within their limits, and no caller can tell that
\* they are there, for any limits and any number of requests, URLs and restarts.
THEOREM CopiesAreTrueHolds == MCSpec => CopiesAreTrue
<1>1. /\ CopiesInv => (part = "answers" => EC!EtagTypeOK /\ EC!CachesFit)
      /\ (SC!CacheTypeOK /\ SC!OnlyCrossedSavesLeaveTheTableBehind)
           => (part = "snapshot" => SC!CacheTypeOK /\ SC!OnlyCrossedSavesLeaveTheTableBehind)
      BY CopiesGoal
<1> QED BY <1>1, CopiesInvariant, SavedSnapshotHolds, UncachedImplemented, PTL DEF CopiesAreTrue
=============================================================================
