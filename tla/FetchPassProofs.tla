---------------------------- MODULE FetchPassProofs ----------------------------
(***************************************************************************)
(* For any set of repositories and of people who click, and any            *)
(* fullPassEvery: a click shortens the pass it waits for and is served by  *)
(* a pass that skips nothing, and only an answer dropped at the deadline   *)
(* can make a skip hide a change.                                          *)
(***************************************************************************)
EXTENDS FetchPass, TLAPS

\* joinPass and beginPass: a pass is visible before its deadline is chosen, and
\* the click that joined it armed the short one.
JoinedIsShort ==
  /\ pass.user => pass.short
  /\ pc \in {"visible", "armed", "wait"} => pass.visible

\* A run that may skip serves no click.
IncrementalServesNobody == incr => \A u \in Users : user[u] # "served"

\* Who listens to which fetch: a fetch that is heard is the current pass's, and
\* an answer that reached the forge has no fetch behind it any more.
OneFetchIsHeard ==
  /\ heard => pc = "wait" /\ fetch.phase # "none" /\ fetch.incr = incr
  /\ answer.reachable => pc = "collected" /\ fetch.phase = "none"
  /\ ~answer.reachable => answer.kept = Repos

\* The order within a fetch: the probe comes before the read, and a fetch that
\* may not skip does not.
ProbeBeforeRead ==
  /\ fetch.phase \in {"none", "probe"} \/ ~fetch.incr => fetch.skipped = {}
  /\ fetch.phase \in {"probe", "read"} => \A r \in Repos : fetch.probed[r] <= forge[r]
  /\ fetch.phase \in {"record", "recorded"} => \A r \in Repos : fetch.probed[r] <= fetch.rows[r]

\* What a fetch brings is at least as new as its stamp, and a full pass stamps
\* nothing else.
StampsFollowTheRead ==
  /\ fetch.phase = "recorded" =>
       \A r \in Repos : IF r \in fetch.whole THEN stamps[r] <= fetch.rows[r]
                       ELSE fetch.incr \/ stamps[r] = 0
  /\ answer.reachable =>
       \A r \in Repos : IF r \in answer.kept THEN incr \/ stamps[r] = 0
                       ELSE stamps[r] <= answer.rows[r]

\* Unless an answer was lost, a stamp is on the board or on its way there.
StampedComes ==
  ~lost => \A r \in Repos :
    \/ stamps[r] <= board[r]
    \/ fetch.phase = "recorded" /\ heard /\ r \in fetch.whole
    \/ answer.reachable /\ r \notin answer.kept

-----------------------------------------------------------------------------
(* Types *)

Fetches ==
  [phase : {"none", "probe", "read", "record", "recorded"}, incr : BOOLEAN, plan : BOOLEAN,
   probed : [Repos -> Versions], skipped : SUBSET Repos, whole : SUBSET Repos,
   rows : [Repos -> Versions]]

AnswersOf ==
  [reachable : BOOLEAN, asked : BOOLEAN, kept : SUBSET Repos, rows : [Repos -> Versions]]

PassesOf == [visible : BOOLEAN, user : BOOLEAN, short : BOOLEAN]

\* The empty fetch, answer and pass.
LEMMA NoneType ==
  /\ NoStamps \in [Repos -> Versions] /\ NoFetch \in Fetches
  /\ NoAnswer \in AnswersOf /\ NoPass \in PassesOf
<1>1. NoStamps \in [Repos -> Versions]
      BY FetchAssumption DEF NoStamps, Versions
<1> QED BY <1>1 DEF NoFetch, NoAnswer, NoPass, Fetches, AnswersOf, PassesOf

\* The counter of passes stays within its cycle.
LEMMA NotePassType == TypeOK /\ NotePass => passes' \in 0..(FullPassEvery - 1)
<1> SUFFICES ASSUME TypeOK, NotePass PROVE passes' \in 0..(FullPassEvery - 1)
    OBVIOUS
<1>1. FullPassEvery \in Nat \ {0} /\ passes \in 0..(FullPassEvery - 1)
      BY FetchAssumption DEF TypeOK
<1>2. \A n \in Nat : n % FullPassEvery \in 0..(FullPassEvery - 1)
      BY <1>1
<1>3. passes + 1 \in Nat /\ 1 \in Nat
      BY <1>1
<1>4. passes' \in {passes, (passes + 1) % FullPassEvery, 1 % FullPassEvery}
      BY DEF NotePass, TypeOK
<1> QED BY <1>1, <1>2, <1>3, <1>4

\* Every step keeps the types.
LEMMA NextType == TypeOK /\ [Next]_vars => TypeOK'
<1> SUFFICES ASSUME TypeOK, [Next]_vars PROVE TypeOK'
    OBVIOUS
<1>0. /\ fetch \in Fetches /\ answer \in AnswersOf /\ pass \in PassesOf
      /\ forge \in [Repos -> Versions] /\ stamps \in [Repos -> Versions]
      /\ incr \in BOOLEAN /\ led \in {"background", "user"}
      BY DEF TypeOK, Fetches, AnswersOf, PassesOf
<1>1. CASE UNCHANGED vars
      BY <1>1 DEF vars, TypeOK
<1>2. ASSUME NEW r \in Repos, ForgeChanges(r)
      PROVE  TypeOK'
      BY <1>2, FetchAssumption DEF ForgeChanges, TypeOK, passVars, fetchVars, Versions
<1>3. ASSUME NEW u \in Users, Click(u)
      PROVE  TypeOK'
      BY <1>3 DEF Click, TypeOK, fetchVars
<1>4. ASSUME NEW u \in Users, JoinPass(u)
      PROVE  TypeOK'
  <2>1. pass' \in PassesOf
        BY <1>0, <1>4 DEF JoinPass, PassesOf
  <2> QED BY <1>4, <2>1 DEF JoinPass, TypeOK, fetchVars, PassesOf
<1>5. CASE StartRun
  <2>1. led' \in {"background", "user"}
        BY <1>5 DEF StartRun
  <2>2. incr' \in BOOLEAN
        BY <1>5 DEF StartRun, IncrementalAllowed
  <2>3. user' \in [Users -> {"idle", "counted", "queued", "served"}]
        BY <1>5 DEF StartRun, TypeOK
  <2> QED BY <1>5, <2>1, <2>2, <2>3 DEF StartRun, TypeOK, fetchVars
<1>6. CASE BeginPass
      BY <1>6, ZenonT(60) DEF BeginPass, TypeOK, fetchVars, NoPass
<1>7. CASE ArmDeadline
  <2>1. pass' \in PassesOf
        BY <1>0, <1>7 DEF ArmDeadline, PassesOf
  <2> QED BY <1>7, <2>1 DEF ArmDeadline, TypeOK, fetchVars, PassesOf
<1>8. CASE Hold \/ SkipFetch
      BY <1>8, NoneType DEF Hold, SkipFetch, TypeOK, fetchVars, AnswersOf
<1>9. CASE StartFetch
  <2>1. fetch' \in Fetches
        BY <1>0, <1>9, NoneType DEF StartFetch, Fetches
  <2> QED BY <1>9, <2>1 DEF StartFetch, TypeOK, Fetches
<1>10. CASE Deadline
  <2>1. answer' \in AnswersOf
        BY <1>10, NoneType DEF Deadline, AnswersOf
  <2> QED BY <1>10, <2>1 DEF Deadline, TypeOK, AnswersOf
<1>11. CASE Publish
  <2>1. board' \in [Repos -> Versions]
        BY <1>11 DEF Publish, TypeOK
  <2>2. passes' \in 0..(FullPassEvery - 1)
        BY <1>11, NotePassType DEF Publish
  <2>3. user' \in [Users -> {"idle", "counted", "queued", "served"}]
        BY <1>11 DEF Publish, TypeOK
  <2>4. answer' \in AnswersOf /\ pass' \in PassesOf
        BY <1>11, NoneType DEF Publish
  <2>5. lost' \in BOOLEAN
        BY <1>11 DEF Publish
  <2> QED BY <1>11, <2>1, <2>2, <2>3, <2>4, <2>5 DEF Publish, TypeOK, AnswersOf, PassesOf
<1>12. CASE Probe
  <2>1. PICK vouched \in SUBSET Repos :
          fetch' = [fetch EXCEPT !.phase = "read", !.plan = TRUE, !.probed = forge,
                      !.skipped = {r \in vouched : fetch.incr /\ stamps[r] = forge[r]}]
        BY <1>12 DEF Probe
  <2>2. fetch' \in Fetches
        BY <1>0, <2>1 DEF Fetches
  <2>3. UNCHANGED <<forge, board, passVars, fetching, heard, stamps, lost>>
        BY <1>12 DEF Probe
  <2> QED BY <2>2, <2>3 DEF TypeOK, passVars, Fetches
<1>13. CASE ProbeFails
  <2>1. fetch' \in Fetches
        BY <1>0, <1>13 DEF ProbeFails, Fetches
  <2> QED BY <1>13, <2>1, NoneType DEF ProbeFails, TypeOK, passVars, Fetches
<1>14. CASE Read
  <2>1. PICK whole \in SUBSET (Repos \ fetch.skipped) :
          fetch' = [fetch EXCEPT !.phase = "record", !.whole = whole, !.rows = forge]
        BY <1>14 DEF Read
  <2>2. fetch' \in Fetches
        BY <1>0, <2>1 DEF Fetches
  <2>3. UNCHANGED <<forge, board, passVars, fetching, heard, stamps, lost>>
        BY <1>14 DEF Read
  <2> QED BY <2>2, <2>3 DEF TypeOK, passVars, Fetches
<1>15. CASE RecordStamps
  <2>1. fetch' \in Fetches
        BY <1>0, <1>15 DEF RecordStamps, Fetches
  <2>2. stamps' \in [Repos -> Versions]
        BY <1>0, <1>15, FetchAssumption DEF RecordStamps, Fetches, Versions
  <2> QED BY <1>15, <2>1, <2>2 DEF RecordStamps, TypeOK, passVars, Fetches
<1>16. CASE Return \/ FetchFails
  <2>1. answer' \in AnswersOf /\ pc' \in {pc, "collected"}
    <3>1. CASE Return
      <4>1. [reachable |-> TRUE, asked |-> TRUE, kept |-> Repos \ fetch.whole, rows |-> fetch.rows]
              \in AnswersOf
            BY <1>0 DEF AnswersOf, Fetches
      <4> QED BY <1>0, <3>1, <4>1 DEF Return
    <3>2. CASE FetchFails
      <4>1. [NoAnswer EXCEPT !.asked = TRUE] \in AnswersOf
            BY NoneType DEF AnswersOf
      <4> QED BY <1>0, <3>2, <4>1 DEF FetchFails
    <3> QED BY <1>16, <3>1, <3>2
  <2>2. fetch' \in Fetches /\ fetching' \in BOOLEAN /\ heard' \in BOOLEAN
        BY <1>16, NoneType DEF Return, FetchFails
  <2>3. UNCHANGED <<forge, board, passes, led, incr, pass, user, stamps, lost>>
        BY <1>16 DEF Return, FetchFails
  <2> QED BY <2>1, <2>2, <2>3 DEF TypeOK, AnswersOf, Fetches
<1> QED BY <1>1, <1>2, <1>3, <1>4, <1>5, <1>6, <1>7, <1>8, <1>9, <1>10, <1>11, <1>12,
           <1>13, <1>14, <1>15, <1>16 DEF Next, Refresher, Fetcher

\* Nothing is fetched, read or clicked at start.
LEMMA InitType == Init => TypeOK
<1> SUFFICES ASSUME Init PROVE TypeOK
    OBVIOUS
<1>1. forge \in [Repos -> Versions] /\ passes \in 0..(FullPassEvery - 1)
      BY FetchAssumption DEF Init, Versions
<1> QED BY <1>1, NoneType DEF Init, TypeOK, Fetches, AnswersOf, PassesOf

\* Every variable keeps its type; the counter of passes stays within its cycle.
THEOREM TypeOKHolds == Spec => []TypeOK
BY InitType, NextType, PTL DEF Spec

-----------------------------------------------------------------------------
(* Clicks *)

ClickInv == JoinedIsShort /\ ClickShortensPass /\ IncrementalServesNobody

\* However a click and the start of a pass interleave, one of them sees the other.
LEMMA ClickStep == TypeOK /\ ClickInv /\ [Next]_vars => ClickInv'
<1> SUFFICES ASSUME TypeOK, ClickInv, [Next]_vars PROVE ClickInv'
    OBVIOUS
<1> USE DEF ClickInv, JoinedIsShort, ClickShortensPass, IncrementalServesNobody
<1>0. pass \in PassesOf /\ user \in [Users -> {"idle", "counted", "queued", "served"}]
      BY DEF TypeOK, PassesOf
<1>1. CASE UNCHANGED <<pc, incr, pass, user>>
      BY <1>1
<1>2. ASSUME NEW u \in Users, Click(u)
      PROVE  ClickInv'
      BY <1>0, <1>2 DEF Click
<1>3. ASSUME NEW u \in Users, JoinPass(u)
      PROVE  ClickInv'
  <2>1. /\ user'[u] = "queued" /\ \A v \in Users : v # u => user'[v] = user[v]
        /\ UNCHANGED <<pc, incr>>
        BY <1>0, <1>3 DEF JoinPass
  <2>2. /\ pass'.visible = pass.visible
        /\ pass'.short = (pass.short \/ (pass.visible /\ ~pass.user))
        /\ pass'.user = (pass.user \/ pass.visible)
        BY <1>0, <1>3 DEF JoinPass, PassesOf
  <2>3. JoinedIsShort'
        BY <2>1, <2>2
  <2>4. ClickShortensPass'
        BY <2>1, <2>2
  <2>5. IncrementalServesNobody'
        BY <2>1
  <2> QED BY <2>3, <2>4, <2>5
<1>4. CASE StartRun
  <2>1. pc' = "decided" /\ pass' = pass
        BY <1>4 DEF StartRun
  <2>2. incr' => \A u \in Users : user[u] = "idle"
        BY <1>4 DEF StartRun, IncrementalAllowed, UserRefreshes
  <2>3. \A u \in Users : user[u] = "idle" => user'[u] = "idle"
        BY <1>4 DEF StartRun
  <2> QED BY <2>1, <2>2, <2>3
<1>5. CASE BeginPass
      BY <1>5 DEF BeginPass, NoPass
<1>6. CASE ArmDeadline
  <2>1. /\ pc = "visible" /\ pc' = "armed" /\ UNCHANGED <<incr, user>>
        /\ pass'.visible = pass.visible /\ pass'.user = pass.user
        /\ pass'.short = (pass.short \/ led = "user" \/ UserRefreshes # {})
        BY <1>0, <1>6 DEF ArmDeadline, PassesOf
  <2> QED BY <2>1 DEF UserRefreshes
<1>7. CASE Hold \/ SkipFetch \/ Deadline
      BY <1>7 DEF Hold, SkipFetch, Deadline
<1>8. CASE StartFetch
      BY <1>8 DEF StartFetch
<1>9. CASE Publish
      BY <1>9 DEF Publish, NoPass
<1>10. CASE Return \/ FetchFails
  <2>1. UNCHANGED <<incr, pass, user>> /\ (pc' = pc \/ pc' = "collected")
        BY <1>10 DEF Return, FetchFails
  <2> QED BY <2>1
<1>11. CASE UNCHANGED vars
      BY <1>1, <1>11 DEF vars
<1>12. CASE (\E r \in Repos : ForgeChanges(r)) \/ Probe \/ ProbeFails \/ Read \/ RecordStamps
      BY <1>1, <1>12 DEF ForgeChanges, Probe, ProbeFails, Read, RecordStamps, passVars
<1> QED BY <1>2, <1>3, <1>4, <1>5, <1>6, <1>7, <1>8, <1>9, <1>10, <1>11, <1>12
        DEF Next, Refresher, Fetcher

\* Nobody has clicked at start.
LEMMA InitClick == Init => ClickInv
BY DEF Init, ClickInv, JoinedIsShort, ClickShortensPass, IncrementalServesNobody, NoPass

\* A click and the pass it waits for see each other.
THEOREM ClickInvariant == Spec => []ClickInv
BY InitClick, ClickStep, TypeOKHolds, PTL DEF Spec

\* Whoever waits for a pass waits no longer than the short deadline.
THEOREM ClickShortensPassHolds == Spec => []ClickShortensPass
<1>1. ClickInv => ClickShortensPass
      BY DEF ClickInv
<1> QED BY <1>1, ClickInvariant, PTL

\* No click returns from a pass that skipped repositories.
THEOREM UserRefreshIsFullHolds == Spec => UserRefreshIsFull
<1> DEFINE Full == \A u \in Users : user[u] = "served" /\ user'[u] = "idle" => ~incr
<1>1. ClickInv /\ [Next]_vars => [Full]_vars
      BY DEF ClickInv, IncrementalServesNobody
<1>2. Spec => [][Full]_vars
      BY <1>1, ClickInvariant, PTL DEF Spec
<1> QED BY <1>2 DEF UserRefreshIsFull

-----------------------------------------------------------------------------
(* Skips *)

SkipInv ==
  /\ OneFetchIsHeard /\ ProbeBeforeRead /\ StampsFollowTheRead
  /\ StampedComes /\ OnlyALostAnswerHidesAChange

\* Versions are numbers.
LEMMA Numbers ==
  ASSUME TypeOK
  PROVE  \A r \in Repos : /\ forge[r] \in Nat /\ board[r] \in Nat /\ stamps[r] \in Nat
                          /\ fetch.probed[r] \in Nat /\ fetch.rows[r] \in Nat
                          /\ answer.rows[r] \in Nat
BY DEF TypeOK, Versions

\* Steps of the pass before it has an answer, and of the people: stamps, board
\* and fetch stay, and no answer that reached the forge comes or goes.
LEMMA SkipPass ==
  ASSUME TypeOK, SkipInv,
         \/ UNCHANGED vars \/ StartRun \/ BeginPass \/ ArmDeadline \/ Hold \/ SkipFetch
         \/ \E u \in Users : Click(u) \/ JoinPass(u)
  PROVE  SkipInv'
<1> USE DEF SkipInv, OneFetchIsHeard
<1>1. UNCHANGED <<forge, board, stamps, fetching, fetch, heard, lost>>
      BY DEF vars, fetchVars, StartRun, BeginPass, ArmDeadline, Hold, SkipFetch, Click, JoinPass
<1>2. CASE UNCHANGED <<pc, incr, answer>>
      BY <1>1, <1>2 DEF ProbeBeforeRead, StampsFollowTheRead, StampedComes,
                        OnlyALostAnswerHidesAChange, SkippedIsOnTheBoard
<1>3. ASSUME pc \notin {"wait", "collected"}, ~answer'.reachable, answer'.kept = Repos
      PROVE  SkipInv'
  <2>1. ~answer.reachable /\ ~heard
        BY <1>3
  <2> QED BY <1>1, <1>3, <2>1
          DEF ProbeBeforeRead, StampsFollowTheRead, StampedComes,
              OnlyALostAnswerHidesAChange, SkippedIsOnTheBoard
<1>4. CASE StartRun \/ BeginPass \/ ArmDeadline
      BY <1>3, <1>4 DEF StartRun, BeginPass, ArmDeadline
<1>5. CASE Hold \/ SkipFetch
  <2>1. pc = "armed" /\ ~answer'.reachable /\ answer'.kept = Repos
        BY <1>5 DEF Hold, SkipFetch, NoAnswer
  <2> QED BY <1>3, <2>1
<1>6. CASE UNCHANGED vars
      BY <1>2, <1>6 DEF vars
<1>7. ASSUME NEW u \in Users, Click(u) \/ JoinPass(u)
      PROVE  SkipInv'
      BY <1>2, <1>7 DEF Click, JoinPass
<1> QED BY <1>4, <1>5, <1>6, <1>7

\* A change of the forge only widens the distance to an earlier probe.
LEMMA SkipForge ==
  ASSUME TypeOK, SkipInv, NEW r \in Repos, ForgeChanges(r)
  PROVE  SkipInv'
<1>1. UNCHANGED <<board, stamps, fetch, heard, lost, pc, incr, answer>>
      BY DEF ForgeChanges, passVars, fetchVars
<1>2. \A q \in Repos : forge'[q] = forge[q] \/ forge'[q] = forge[q] + 1
      BY DEF ForgeChanges, TypeOK
<1>3. ProbeBeforeRead'
      BY <1>1, <1>2, Numbers DEF SkipInv, ProbeBeforeRead
<1> QED BY <1>1, <1>3 DEF SkipInv, OneFetchIsHeard, StampsFollowTheRead, StampedComes,
                          OnlyALostAnswerHidesAChange, SkippedIsOnTheBoard

\* A pass asks its source.
LEMMA SkipStart ==
  ASSUME TypeOK, SkipInv, StartFetch
  PROVE  SkipInv'
<1>1. /\ pc = "armed" /\ pc' = "wait" /\ heard'
      /\ fetch'.phase = "probe" /\ fetch'.incr = incr /\ fetch'.skipped = {}
      /\ \A r \in Repos : fetch'.probed[r] = 0
      /\ UNCHANGED <<forge, board, incr, answer, stamps, lost>>
      BY DEF StartFetch, NoFetch, NoStamps
<1>2. ~answer.reachable /\ ~heard
      BY <1>1 DEF SkipInv, OneFetchIsHeard
<1> QED BY <1>1, <1>2, Numbers
        DEF SkipInv, OneFetchIsHeard, ProbeBeforeRead, StampsFollowTheRead, StampedComes,
            OnlyALostAnswerHidesAChange, SkippedIsOnTheBoard

\* A deadline drops the answer: from then on it counts as lost if its stamps are in.
LEMMA SkipDeadline ==
  ASSUME TypeOK, SkipInv, Deadline
  PROVE  SkipInv'
<1>1. /\ pc = "wait" /\ heard /\ ~heard' /\ pc' = "collected"
      /\ ~answer'.reachable /\ answer'.kept = Repos
      /\ lost' = (lost \/ fetch.phase = "recorded")
      /\ UNCHANGED <<forge, board, incr, fetch, stamps>>
      BY DEF Deadline, NoAnswer
<1>2. ~answer.reachable
      BY <1>1 DEF SkipInv, OneFetchIsHeard
<1> QED BY <1>1, <1>2
        DEF SkipInv, OneFetchIsHeard, ProbeBeforeRead, StampsFollowTheRead, StampedComes,
            OnlyALostAnswerHidesAChange, SkippedIsOnTheBoard

\* The probe skips what carries the stamp it finds, and the stamp is on the board.
LEMMA SkipProbe ==
  ASSUME TypeOK, SkipInv, Probe \/ ProbeFails
  PROVE  SkipInv'
<1>0. fetch \in Fetches
      BY DEF TypeOK, Fetches
<1>1. /\ fetch.phase = "probe" /\ fetch'.phase = "read" /\ fetch'.incr = fetch.incr
      /\ UNCHANGED <<forge, board, pc, incr, answer, heard, lost>>
      BY <1>0 DEF Probe, ProbeFails, passVars, Fetches
<1>2. ~answer.reachable /\ fetch.skipped = {}
      BY <1>1 DEF SkipInv, OneFetchIsHeard, ProbeBeforeRead
<1>3. CASE Probe
  <2>0. PICK vouched \in SUBSET Repos :
          fetch' = [fetch EXCEPT !.phase = "read", !.plan = TRUE, !.probed = forge,
                      !.skipped = {r \in vouched : fetch.incr /\ stamps[r] = forge[r]}]
        BY <1>3 DEF Probe
  <2>1. /\ \A r \in fetch'.skipped : r \in Repos /\ fetch.incr /\ stamps[r] = forge[r]
        /\ fetch'.probed = forge /\ stamps' = stamps
        BY <1>0, <1>3, <2>0 DEF Probe, Fetches
  <2>2. ProbeBeforeRead'
        BY <1>1, <2>1, Numbers DEF ProbeBeforeRead
  <2>3. ~lost => \A r \in Repos : stamps[r] <= board[r]
        BY <1>1, <1>2 DEF SkipInv, StampedComes
  <2>4. OnlyALostAnswerHidesAChange'
        BY <1>1, <2>1, <2>3, Numbers DEF OnlyALostAnswerHidesAChange, SkippedIsOnTheBoard
  <2> QED BY <1>1, <1>2, <2>1, <2>2, <2>3, <2>4
          DEF SkipInv, OneFetchIsHeard, StampsFollowTheRead, StampedComes
<1>4. CASE ProbeFails
  <2>1. /\ fetch'.skipped = {} /\ fetch'.probed = fetch.probed
        /\ \A r \in Repos : stamps'[r] = 0
        BY <1>0, <1>2, <1>4 DEF ProbeFails, Fetches, NoStamps
  <2> QED BY <1>1, <1>2, <2>1, Numbers
          DEF SkipInv, OneFetchIsHeard, ProbeBeforeRead, StampsFollowTheRead, StampedComes,
              OnlyALostAnswerHidesAChange, SkippedIsOnTheBoard
<1> QED BY <1>3, <1>4

\* What is read after the probe is at least as new as what the probe saw.
LEMMA SkipRead ==
  ASSUME TypeOK, SkipInv, Read
  PROVE  SkipInv'
<1>0. fetch \in Fetches
      BY DEF TypeOK, Fetches
<1>1. /\ fetch.phase = "read" /\ fetch'.phase = "record" /\ fetch'.incr = fetch.incr
      /\ fetch'.skipped = fetch.skipped /\ fetch'.probed = fetch.probed /\ fetch'.rows = forge
      /\ UNCHANGED <<forge, board, pc, incr, answer, heard, stamps, lost>>
      BY <1>0 DEF Read, passVars, Fetches
<1> QED BY <1>1
        DEF SkipInv, OneFetchIsHeard, ProbeBeforeRead, StampsFollowTheRead, StampedComes,
            OnlyALostAnswerHidesAChange, SkippedIsOnTheBoard

\* A stamp is what the probe saw: of a skipped repository, which the board has, or
\* of one read whole, which a pass that listens will bring.
LEMMA SkipRecord ==
  ASSUME TypeOK, SkipInv, RecordStamps
  PROVE  SkipInv'
<1>0. fetch \in Fetches
      BY DEF TypeOK, Fetches
<1>1. /\ fetch.phase = "record" /\ fetch'.phase = "recorded" /\ fetch'.incr = fetch.incr
      /\ fetch'.skipped = fetch.skipped /\ fetch'.probed = fetch.probed
      /\ fetch'.rows = fetch.rows /\ fetch'.whole = fetch.whole
      /\ lost' = (lost \/ ~heard)
      /\ UNCHANGED <<forge, board, pc, incr, answer, heard>>
      BY <1>0 DEF RecordStamps, passVars, Fetches
<1>2. \A r \in Repos : \/ stamps'[r] = 0
                       \/ stamps'[r] = fetch.probed[r] /\ r \in fetch.skipped \union fetch.whole
      BY DEF RecordStamps
<1>3. ~answer.reachable
      BY <1>1 DEF SkipInv, OneFetchIsHeard
<1>4. StampsFollowTheRead'
      BY <1>1, <1>2, <1>3, Numbers DEF SkipInv, StampsFollowTheRead, ProbeBeforeRead
<1>5. StampedComes'
  <2> SUFFICES ASSUME ~lost', NEW r \in Repos
               PROVE  stamps'[r] <= board[r] \/ (heard /\ r \in fetch.whole)
      BY <1>1 DEF StampedComes
  <2>1. ~lost /\ heard
        BY <1>1
  <2>2. CASE stamps'[r] = 0
        BY <2>2, Numbers
  <2>3. CASE stamps'[r] = fetch.probed[r] /\ r \in fetch.skipped
        BY <2>1, <2>3, Numbers DEF SkipInv, OnlyALostAnswerHidesAChange, SkippedIsOnTheBoard
  <2> QED BY <1>2, <2>1, <2>2, <2>3
<1> QED BY <1>1, <1>4, <1>5
        DEF SkipInv, OneFetchIsHeard, ProbeBeforeRead, OnlyALostAnswerHidesAChange,
            SkippedIsOnTheBoard

\* A fetch ends, heard or not.
LEMMA SkipReturn ==
  ASSUME TypeOK, SkipInv, Return \/ FetchFails
  PROVE  SkipInv'
<1>1. /\ fetch'.phase = "none" /\ fetch'.skipped = {} /\ ~heard'
      /\ UNCHANGED <<forge, board, incr, stamps, lost>>
      /\ fetch.phase # "none"
      BY DEF Return, FetchFails, NoFetch
<1>2. ~answer.reachable
      BY <1>1 DEF SkipInv, OneFetchIsHeard
<1>3. ProbeBeforeRead' /\ OnlyALostAnswerHidesAChange'
      BY <1>1 DEF ProbeBeforeRead, OnlyALostAnswerHidesAChange, SkippedIsOnTheBoard
<1>4. CASE Return /\ heard
  <2>1. /\ fetch.phase = "recorded" /\ fetch.incr = incr /\ pc' = "collected"
        /\ answer'.reachable /\ answer'.kept = Repos \ fetch.whole /\ answer'.rows = fetch.rows
        BY <1>4 DEF Return, SkipInv, OneFetchIsHeard
  <2> QED BY <1>1, <1>2, <1>3, <2>1
          DEF SkipInv, OneFetchIsHeard, StampsFollowTheRead, StampedComes
<1>5. CASE FetchFails \/ ~heard
  <2>1. ~answer'.reachable /\ answer'.kept = Repos
        BY <1>2, <1>5 DEF Return, FetchFails, NoAnswer, SkipInv, OneFetchIsHeard
  <2>2. fetch.phase # "recorded" \/ ~heard
        BY <1>5 DEF FetchFails
  <2> QED BY <1>1, <1>2, <1>3, <2>1, <2>2
          DEF SkipInv, OneFetchIsHeard, StampsFollowTheRead, StampedComes
<1> QED BY <1>4, <1>5

\* What was on its way is on the board; a full pass that reached the forge makes
\* up for whatever was lost before it.
LEMMA SkipPublish ==
  ASSUME TypeOK, SkipInv, Publish
  PROVE  SkipInv'
<1>1. /\ pc = "collected" /\ pc' = "idle" /\ ~answer'.reachable /\ answer'.kept = Repos
      /\ lost' = (lost /\ (incr \/ ~answer.reachable))
      /\ UNCHANGED <<forge, stamps, fetch, heard>>
      BY DEF Publish, NoAnswer
<1>2. \A r \in Repos : board'[r] = IF r \in answer.kept THEN board[r] ELSE answer.rows[r]
      BY DEF Publish
<1>3. ~heard
      BY <1>1 DEF SkipInv, OneFetchIsHeard
<1>4. OneFetchIsHeard' /\ ProbeBeforeRead' /\ StampsFollowTheRead'
      BY <1>1, <1>3 DEF SkipInv, OneFetchIsHeard, ProbeBeforeRead, StampsFollowTheRead
<1>5. CASE answer.reachable
  <2>1. fetch.skipped = {} /\ fetch.phase = "none"
        BY <1>5 DEF SkipInv, OneFetchIsHeard, ProbeBeforeRead
  <2>2. OnlyALostAnswerHidesAChange'
        BY <1>1, <2>1 DEF OnlyALostAnswerHidesAChange, SkippedIsOnTheBoard
  <2>3. CASE lost
    <3>1. lost' \/ ~incr
          BY <1>1, <1>5, <2>3
    <3>2. ~incr => \A r \in Repos : stamps[r] <= board'[r]
          BY <1>2, <1>5, Numbers DEF SkipInv, StampsFollowTheRead
    <3>3. StampedComes'
          BY <1>1, <3>1, <3>2 DEF StampedComes
    <3> QED BY <1>4, <2>2, <3>3 DEF SkipInv
  <2>4. CASE ~lost
    <3>1. \A r \in Repos : stamps[r] <= board'[r]
          BY <1>2, <1>3, <1>5, <2>4 DEF SkipInv, StampsFollowTheRead, StampedComes
    <3>2. StampedComes'
          BY <1>1, <3>1 DEF StampedComes
    <3> QED BY <1>4, <2>2, <3>2 DEF SkipInv
  <2> QED BY <2>3, <2>4
<1>6. CASE ~answer.reachable
  <2>1. \A r \in Repos : board'[r] = board[r]
        BY <1>2, <1>6 DEF SkipInv, OneFetchIsHeard
  <2>2. fetch.skipped \subseteq Repos
        BY DEF TypeOK
  <2> QED BY <1>1, <1>3, <1>4, <1>6, <2>1, <2>2
          DEF SkipInv, StampedComes, OnlyALostAnswerHidesAChange, SkippedIsOnTheBoard
<1> QED BY <1>5, <1>6

\* Nothing is stamped at start.
LEMMA InitSkip == Init => SkipInv
BY DEF Init, SkipInv, OneFetchIsHeard, ProbeBeforeRead, StampsFollowTheRead, StampedComes,
       OnlyALostAnswerHidesAChange, SkippedIsOnTheBoard, NoFetch, NoAnswer, NoStamps

\* Every step keeps the order of stamps and rows.
LEMMA SkipStep == TypeOK /\ SkipInv /\ [Next]_vars => SkipInv'
BY SkipPass, SkipForge, SkipStart, SkipDeadline, SkipProbe, SkipRead, SkipRecord, SkipReturn,
   SkipPublish DEF Next, Refresher, Fetcher

\* Stamps, rows and the board keep their order.
THEOREM SkipInvariant == Spec => []SkipInv
BY InitSkip, SkipStep, TypeOKHolds, PTL DEF Spec

\* A skip hides a change only after an answer was dropped whose stamps were in.
THEOREM OnlyALostAnswerHidesAChangeHolds == Spec => []OnlyALostAnswerHidesAChange
<1>1. SkipInv => OnlyALostAnswerHidesAChange
      BY DEF SkipInv
<1> QED BY <1>1, SkipInvariant, PTL
=============================================================================
