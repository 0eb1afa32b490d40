---------------------------- MODULE BoardProofs ----------------------------
(***************************************************************************)
(* For any set of repositories, pull requests and readers and any bounds:  *)
(* what a refresh publishes, what an answer hides and counts, when a row   *)
(* is green, and how long a request to a bot is shown.  Each part has an   *)
(* inductive invariant of its own.                                         *)
(***************************************************************************)
EXTENDS MCBoard, FiniteSetTheorems, TLAPS

\* What a full refresh is about to publish leaves out what was marked settled
\* before its filter.
BuiltWithoutSettled ==
  full.pc = "built" => \A r \in (settled \cap window) \ late : ~full.board[r].on

\* A repository's number is never older than its newest scoped refresh.
NumberCoversMerge == \A r \in Repos : merged[r] <= scopedSeq[r]

\* What a full refresh has read of a repository is at least as new as its start.
FullReadsAfterItBegan ==
  \A r \in Repos :
    /\ full.began[r] <= forge[r].ver
    /\ full.pc = "reading" =>
         /\ r \in full.asked => "rows" \notin full.got[r].read
         /\ "rows" \in full.got[r].read => full.began[r] <= full.got[r].rest
    /\ full.pc \in {"taken", "built"} /\ "rows" \in full.got[r].read =>
         full.began[r] <= full.board[r].rest

\* So is what a scoped refresh with a later number has read, and what it merged.
LaterScopedReadsAreNewer ==
  full.pc # "idle" => \A r \in Repos :
    /\ scoped[r].pc \in {"branch", "merge"} /\ scoped[r].seq > full.seq =>
         full.began[r] <= scoped[r].got.rest
    /\ merged[r] > full.seq => full.began[r] <= snap[r].rest

BoardInv ==
  /\ TypeOK
  /\ OnlyALateMarkIsUndone /\ BuiltWithoutSettled
  /\ NumberCoversMerge
  /\ FullReadsAfterItBegan /\ LaterScopedReadsAreNewer

-----------------------------------------------------------------------------
(* Types *)

\* The three kinds of fetch, with numbers up to n.
Fulls(n) ==
  [pc : {"idle", "reading", "taken", "built"}, seq : 0..n, asked : SUBSET Repos,
   reached : BOOLEAN, got : [Repos -> Answers], board : [Repos -> Rows],
   began : [Repos -> Versions]]

Scopeds(n) == [pc : {"idle", "rows", "branch", "merge"}, seq : 0..n, got : Answers]

Polls(n) ==
  [pc : {"idle", "reading"}, seq : 0..n, due : SUBSET Repos, got : [Repos -> Answers]]

\* A read of a repository is an answer, dated with the forge's version.
LEMMA ReadType ==
  ASSUME TypeOK, NEW r \in Repos, NEW got \in Answers
  PROVE  ReadRows(r, got) \in Answers /\ ReadBranch(r, got) \in Answers
<1>1. forge[r].ver \in Versions /\ forge[r].listed \in BOOLEAN
      BY DEF TypeOK
<1> QED BY <1>1 DEF ReadRows, ReadBranch, Answers

\* The filter keeps the form of the rows.
LEMMA WithoutSettledType ==
  ASSUME NEW rows \in [Repos -> Rows], NEW keys
  PROVE  /\ WithoutSettled(rows, keys) \in [Repos -> Rows]
         /\ \A r \in Repos : WithoutSettled(rows, keys)[r] =
              [rows[r] EXCEPT !.on = rows[r].on /\ r \notin keys]
BY DEF WithoutSettled, Rows

\* Nothing has been read.
LEMMA IdleType ==
  /\ Unread \in Answers /\ NoRows \in Rows
  /\ \A n \in Nat : IdleFull \in Fulls(n) /\ IdleFetch \in Scopeds(n) /\ IdlePoll \in Polls(n)
<1>1. Unread \in Answers /\ NoRows \in Rows /\ 0 \in Versions
      BY BoundsAssumption DEF Unread, Answers, NoRows, Rows, Versions
<1> QED BY <1>1 DEF IdleFull, IdleFetch, IdlePoll, Fulls, Scopeds, Polls

\* The forge, the marks and the clock.
LEMMA MarksType ==
  ASSUME TypeOK, NEW r \in Repos,
         \/ ForgeChanges(r) \/ ForgeStopsListing(r)
         \/ MarkSettled(r) \/ MarkSettledBoard(r) \/ Unsettle(r) \/ WindowPasses(r)
  PROVE  TypeOK'
<1> USE BoundsAssumption
<1>1. CASE ForgeChanges(r)
      BY <1>1 DEF ForgeChanges, TypeOK, Versions
<1>2. CASE ForgeStopsListing(r)
      BY <1>2, ZenonT(60) DEF ForgeStopsListing, TypeOK
<1>3. CASE MarkSettled(r)
      BY <1>3 DEF MarkSettled, TypeOK
<1>4. CASE MarkSettledBoard(r)
      BY <1>4, ZenonT(60) DEF MarkSettledBoard, TypeOK, Rows
<1>5. CASE Unsettle(r)
      BY <1>5, ZenonT(60) DEF Unsettle, TypeOK
<1>6. CASE WindowPasses(r)
      BY <1>6 DEF WindowPasses, TypeOK
<1> QED BY <1>1, <1>2, <1>3, <1>4, <1>5, <1>6

\* Numbers stay numbers when fetchSeq grows.
LEMMA NumbersGrow ==
  ASSUME TypeOK, fetchSeq' = fetchSeq + 1
  PROVE  /\ 0..fetchSeq \subseteq 0..fetchSeq' /\ fetchSeq' \in 0..fetchSeq' /\ fetchSeq' \in Nat
         /\ scopedSeq \in [Repos -> 0..fetchSeq'] /\ merged \in [Repos -> 0..fetchSeq']
         /\ full \in Fulls(fetchSeq') /\ scoped \in [Repos -> Scopeds(fetchSeq')]
         /\ poll \in Polls(fetchSeq')
<1>1. fetchSeq \in Nat /\ 0..fetchSeq \subseteq 0..fetchSeq'
      BY BoundsAssumption DEF TypeOK
<1>2. full \in Fulls(fetchSeq) /\ scoped \in [Repos -> Scopeds(fetchSeq)] /\ poll \in Polls(fetchSeq)
      BY DEF TypeOK, Fulls, Scopeds, Polls
<1>3. /\ Fulls(fetchSeq) \subseteq Fulls(fetchSeq') /\ Scopeds(fetchSeq) \subseteq Scopeds(fetchSeq')
      /\ Polls(fetchSeq) \subseteq Polls(fetchSeq')
      BY <1>1 DEF Fulls, Scopeds, Polls
<1> QED BY <1>1, <1>2, <1>3 DEF TypeOK

\* The full refresh.
LEMMA FullType ==
  ASSUME TypeOK,
         \/ FullBegin \/ FullTake \/ FullHeld \/ FullUnreachable \/ FullDropSettled \/ FullPublish
         \/ \E r \in Repos : \E parts \in SUBSET {"rows", "branch"} : FullRead(r, parts)
  PROVE  TypeOK'
<1> USE BoundsAssumption
<1>0. fetchSeq \in Nat /\ fetchSeq <= MaxSeq
      BY DEF TypeOK
<1>1. CASE FullBegin
  <2>1. fetchSeq' = fetchSeq + 1 /\ fetchSeq' \in 0..MaxSeq
        BY <1>0, <1>1 DEF FullBegin
  <2>2. [r \in Repos |-> forge[r].ver] \in [Repos -> Versions] /\ snap \in [Repos -> Rows]
        BY DEF TypeOK
  <2>3. full' \in Fulls(fetchSeq')
        BY <1>1, <2>1, <2>2, IdleType, NumbersGrow DEF FullBegin, Fulls
  <2>4. UNCHANGED <<forge, closed, snap, settled, window, marking, lastGood, scopedSeq,
                    scoped, poll, merged, late>>
        BY <1>1 DEF FullBegin
  <2>5. scopedSeq' \in [Repos -> 0..fetchSeq'] /\ merged' \in [Repos -> 0..fetchSeq']
        BY <2>1, <2>4, NumbersGrow
  <2>6. scoped' \in [Repos -> Scopeds(fetchSeq')] /\ poll' \in Polls(fetchSeq')
        BY <2>1, <2>4, NumbersGrow
  <2> QED BY <2>1, <2>3, <2>4, <2>5, <2>6 DEF TypeOK, Fulls, Scopeds, Polls
<1>2. CASE FullTake
  <2>1. Assembled \in [Repos -> Rows]
        BY DEF TypeOK, Assembled, Rows, Answers
  <2> QED BY <1>2, <2>1 DEF FullTake, TypeOK
<1>3. CASE FullHeld
      BY <1>3 DEF FullHeld, TypeOK
<1>4. CASE FullUnreachable
      BY <1>4, IdleType DEF FullUnreachable, TypeOK
<1>5. CASE FullDropSettled
  <2>1. full.board \in [Repos -> Rows]
        BY DEF TypeOK
  <2>2. WithoutSettled(full.board, StillSettled(full.board, Repos)) \in [Repos -> Rows]
        BY <2>1, WithoutSettledType
  <2>3. StillSettled(full.board, Repos) \subseteq Repos
        BY DEF StillSettled, TypeOK
  <2> QED BY <1>5, <2>2, <2>3 DEF FullDropSettled, TypeOK
<1>6. CASE FullPublish
  <2>1. KeepNewerScopedRepos(full.board) \in [Repos -> Rows]
    <3>1. \A r \in Repos : snap[r] \in Rows /\ full.board[r] \in Rows
          BY DEF TypeOK
    <3>2. \A r \in Repos : [snap[r] EXCEPT !.branch = full.board[r].branch] \in Rows
          BY <3>1 DEF Rows
    <3> QED BY <3>1, <3>2 DEF TypeOK, KeepNewerScopedRepos
  <2> QED BY <1>0, <1>6, <2>1, IdleType DEF FullPublish, TypeOK, Fulls
<1>7. CASE \E r \in Repos : \E parts \in SUBSET {"rows", "branch"} : FullRead(r, parts)
  <2>1. PICK r \in Repos, parts \in SUBSET {"rows", "branch"} : FullRead(r, parts)
        BY <1>7
  <2> DEFINE rows == IF "rows" \in parts THEN ReadRows(r, full.got[r]) ELSE full.got[r]
             all  == IF "branch" \in parts THEN ReadBranch(r, rows) ELSE rows
  <2>2. full.got[r] \in Answers
        BY DEF TypeOK
  <2>3. rows \in Answers
        BY <2>2, ReadType
  <2>4. all \in Answers
        BY <2>3, ReadType
  <2>5. full' = [full EXCEPT !.asked = @ \ {r}, !.got[r] = all]
        BY <2>1 DEF FullRead
  <2> HIDE DEF all
  <2>6. full' = [full EXCEPT !.asked = full.asked \ {r}, !.got = [full.got EXCEPT ![r] = all]]
        BY <2>5
  <2>7. [full.got EXCEPT ![r] = all] \in [Repos -> Answers]
        BY <2>4 DEF TypeOK
  <2>8. full' \in Fulls(fetchSeq)
        BY <2>6, <2>7 DEF TypeOK, Fulls
  <2> QED BY <2>1, <2>8 DEF FullRead, TypeOK, Fulls
<1> QED BY <1>1, <1>2, <1>3, <1>4, <1>5, <1>6, <1>7

\* A merge of rows into the snapshot, by whichever fetch.
LEMMA MergeType ==
  ASSUME TypeOK, NEW rows \in [Repos -> Rows], NEW scope \in SUBSET Repos,
         NEW seq \in 0..fetchSeq, MergeRepos(rows, scope, seq)
  PROVE  /\ settled' \subseteq Repos /\ snap' \in [Repos -> Rows]
         /\ scopedSeq' \in [Repos -> 0..fetchSeq]
<1>1. settled' \subseteq Repos
      BY DEF MergeRepos, StillSettled, TypeOK
<1>2. snap' \in [Repos -> Rows]
  <2> DEFINE keys == StillSettled(rows, scope)
  <2>1. WithoutSettled(rows, keys) \in [Repos -> Rows]
        BY WithoutSettledType
  <2>2. snap' = [r \in Repos |-> IF r \in scope THEN WithoutSettled(rows, keys)[r] ELSE snap[r]]
        BY DEF MergeRepos
  <2> HIDE DEF keys
  <2> QED BY <2>1, <2>2 DEF TypeOK
<1>3. scopedSeq' \in [Repos -> 0..fetchSeq]
      BY DEF MergeRepos, TypeOK
<1> QED BY <1>1, <1>2, <1>3

\* What a scoped refresh merges: its own rows in the place of the snapshot's.
ScopedRowsOf(r) ==
  [snap EXCEPT ![r] =
     [rest |-> scoped[r].got.rest, pull |-> scoped[r].got.pull, on |-> scoped[r].got.on,
      branch |-> IF "branch" \in scoped[r].got.read THEN scoped[r].got.branch ELSE @.branch]]

\* A scoped refresh.
LEMMA ScopedType ==
  ASSUME TypeOK, NEW r \in Repos,
         ScopedBegin(r) \/ ScopedRows(r) \/ ScopedBranch(r) \/ ScopedMerge(r)
  PROVE  TypeOK'
<1> USE BoundsAssumption
<1>0. fetchSeq \in Nat /\ fetchSeq <= MaxSeq
      BY DEF TypeOK
<1>1. /\ scoped[r].got \in Answers /\ scoped[r].seq \in 0..fetchSeq
      /\ scoped[r] \in Scopeds(fetchSeq) /\ scoped \in [Repos -> Scopeds(fetchSeq)]
      BY DEF TypeOK, Scopeds
<1>2. CASE ScopedBegin(r)
  <2>1. fetchSeq' = fetchSeq + 1 /\ fetchSeq' \in 0..MaxSeq
        BY <1>0, <1>2 DEF ScopedBegin
  <2>2. [IdleFetch EXCEPT !.pc = "rows", !.seq = fetchSeq + 1] \in Scopeds(fetchSeq')
        BY <2>1, IdleType, NumbersGrow DEF Scopeds
  <2>3. /\ scoped' = [scoped EXCEPT ![r] = [IdleFetch EXCEPT !.pc = "rows", !.seq = fetchSeq + 1]]
        /\ UNCHANGED <<forge, closed, snap, settled, window, marking, lastGood, scopedSeq,
                       full, poll, merged, late>>
        BY <1>2 DEF ScopedBegin
  <2>4. scoped' \in [Repos -> Scopeds(fetchSeq')]
        BY <2>1, <2>2, <2>3, NumbersGrow
  <2>5. scopedSeq' \in [Repos -> 0..fetchSeq'] /\ merged' \in [Repos -> 0..fetchSeq']
        BY <2>1, <2>3, NumbersGrow
  <2>6. full' \in Fulls(fetchSeq') /\ poll' \in Polls(fetchSeq')
        BY <2>1, <2>3, NumbersGrow
  <2> QED BY <2>1, <2>3, <2>4, <2>5, <2>6 DEF TypeOK, Fulls, Scopeds, Polls
<1>3. CASE ScopedRows(r)
  <2>1. [scoped[r] EXCEPT !.pc = "branch", !.got = ReadRows(r, scoped[r].got)] \in Scopeds(fetchSeq)
    <3>1. ReadRows(r, scoped[r].got) \in Answers
          BY <1>1, ReadType
    <3> QED BY <1>1, <3>1 DEF Scopeds
  <2>2. \/ scoped' = [scoped EXCEPT ![r] = [scoped[r] EXCEPT !.pc = "branch",
                                                          !.got = ReadRows(r, scoped[r].got)]]
        \/ scoped' = [scoped EXCEPT ![r] = IdleFetch]
        BY <1>3 DEF ScopedRows, TypeOK
  <2>3. scoped' \in [Repos -> Scopeds(fetchSeq)]
        BY <1>0, <1>1, <2>1, <2>2, IdleType
  <2> QED BY <1>3, <2>3 DEF ScopedRows, TypeOK, Scopeds
<1>4. CASE ScopedBranch(r)
  <2>1. /\ [scoped[r] EXCEPT !.pc = "merge", !.got = ReadBranch(r, scoped[r].got)] \in Scopeds(fetchSeq)
        /\ [scoped[r] EXCEPT !.pc = "merge"] \in Scopeds(fetchSeq)
    <3>1. ReadBranch(r, scoped[r].got) \in Answers
          BY <1>1, ReadType
    <3> QED BY <1>1, <3>1 DEF Scopeds
  <2>2. \/ scoped' = [scoped EXCEPT ![r] = [scoped[r] EXCEPT !.pc = "merge",
                                                          !.got = ReadBranch(r, scoped[r].got)]]
        \/ scoped' = [scoped EXCEPT ![r] = [scoped[r] EXCEPT !.pc = "merge"]]
        BY <1>4 DEF ScopedBranch, TypeOK
  <2>3. scoped' \in [Repos -> Scopeds(fetchSeq)]
        BY <1>1, <2>1, <2>2
  <2> QED BY <1>4, <2>3 DEF ScopedBranch, TypeOK, Scopeds
<1>5. CASE ScopedMerge(r)
  <2>1. ScopedRowsOf(r) \in [Repos -> Rows]
        BY <1>1 DEF ScopedRowsOf, TypeOK, Rows, Answers
  <2>2. MergeRepos(ScopedRowsOf(r), {r}, scoped[r].seq)
        BY <1>5 DEF ScopedMerge, ScopedRowsOf
  <2>3. /\ settled' \subseteq Repos /\ snap' \in [Repos -> Rows]
        /\ scopedSeq' \in [Repos -> 0..fetchSeq]
        BY <1>1, <2>1, <2>2, MergeType
  <2> QED BY <1>0, <1>1, <1>5, <2>3, IdleType DEF ScopedMerge, TypeOK, Scopeds
<1> QED BY <1>2, <1>3, <1>4, <1>5

\* A CI poll.
LEMMA PollType ==
  ASSUME TypeOK, PollBegin \/ PollMerge \/ \E r \in Repos : PollRead(r)
  PROVE  TypeOK'
<1> USE BoundsAssumption
<1>0. fetchSeq \in Nat /\ fetchSeq <= MaxSeq
      BY DEF TypeOK
<1>1. CASE PollBegin
  <2>1. fetchSeq' = fetchSeq + 1 /\ fetchSeq' \in 0..MaxSeq
        BY <1>0, <1>1 DEF PollBegin
  <2>2. poll' \in Polls(fetchSeq')
        BY <1>1, <2>1, IdleType, NumbersGrow DEF PollBegin, Polls
  <2>3. UNCHANGED <<forge, closed, snap, settled, window, marking, lastGood, scopedSeq,
                    full, scoped, merged, late>>
        BY <1>1 DEF PollBegin
  <2>4. scopedSeq' \in [Repos -> 0..fetchSeq'] /\ merged' \in [Repos -> 0..fetchSeq']
        BY <2>1, <2>3, NumbersGrow
  <2>5. full' \in Fulls(fetchSeq') /\ scoped' \in [Repos -> Scopeds(fetchSeq')]
        BY <2>1, <2>3, NumbersGrow
  <2> QED BY <2>1, <2>2, <2>3, <2>4, <2>5 DEF TypeOK, Fulls, Scopeds, Polls
<1>2. CASE \E r \in Repos : PollRead(r)
  <2>1. PICK r \in Repos : PollRead(r)
        BY <1>2
  <2>2. ReadRows(r, poll.got[r]) \in Answers
        BY ReadType DEF TypeOK
  <2>3. [poll.got EXCEPT ![r] = ReadRows(r, poll.got[r])] \in [Repos -> Answers]
        BY <2>2 DEF TypeOK
  <2>4. \/ poll' = [poll EXCEPT !.due = poll.due \ {r},
                                !.got = [poll.got EXCEPT ![r] = ReadRows(r, poll.got[r])]]
        \/ poll' = [poll EXCEPT !.due = poll.due \ {r}]
        BY <2>1 DEF PollRead
  <2>5. poll' \in Polls(fetchSeq)
    <3>1. poll \in Polls(fetchSeq)
          BY DEF TypeOK, Polls
    <3> QED BY <2>3, <2>4, <3>1 DEF Polls
  <2> QED BY <2>1, <2>5 DEF PollRead, TypeOK, Polls
<1>3. CASE PollMerge
  <2>1. [r \in Repos |-> PollRows(r)] \in [Repos -> Rows]
    <3>1. \A r \in Repos : snap[r] \in Rows /\ poll.got[r] \in Answers
          BY DEF TypeOK
    <3>2. \A r \in Repos : PollRows(r) \in Rows
          BY <3>1 DEF PollRows, Rows, Answers
    <3> QED BY <3>2
  <2>2. poll.seq \in 0..fetchSeq
        BY DEF TypeOK
  <2>3. MergeRepos([r \in Repos |-> PollRows(r)], {r \in Repos : PollWrites(r)}, poll.seq)
        BY <1>3 DEF PollMerge
  <2>4. /\ settled' \subseteq Repos /\ snap' \in [Repos -> Rows]
        /\ scopedSeq' \in [Repos -> 0..fetchSeq]
        BY <2>1, <2>2, <2>3, MergeType
  <2> QED BY <1>0, <1>3, <2>4, IdleType DEF PollMerge, TypeOK, Polls
<1> QED BY <1>1, <1>2, <1>3

\* Every step keeps the types.
LEMMA NextType == TypeOK /\ [Next]_vars => TypeOK'
<1> SUFFICES ASSUME TypeOK, [Next]_vars PROVE TypeOK'
    OBVIOUS
<1>1. CASE UNCHANGED vars
      BY <1>1 DEF vars, TypeOK
<1>2. CASE Next
      BY <1>2, MarksType, FullType, ScopedType, PollType DEF Next
<1> QED BY <1>1, <1>2

\* Nothing has been read at start.
LEMMA InitType == Init => TypeOK
<1>1. 1 \in Versions /\ 0 \in Nat /\ 0 \in 0..0 /\ 0 \in 0..MaxSeq
      BY BoundsAssumption DEF Versions
<1> SUFFICES ASSUME Init PROVE TypeOK
    OBVIOUS
<1>2. /\ full \in Fulls(fetchSeq) /\ poll \in Polls(fetchSeq)
      /\ scoped \in [Repos -> Scopeds(fetchSeq)] /\ snap \in [Repos -> Rows]
      BY <1>1, IdleType DEF Init
<1>3. forge \in [Repos -> [ver : Versions, listed : BOOLEAN]]
      BY <1>1 DEF Init
<1>4. scopedSeq \in [Repos -> 0..fetchSeq] /\ merged \in [Repos -> 0..fetchSeq]
      BY <1>1 DEF Init
<1> QED BY <1>1, <1>2, <1>3, <1>4 DEF Init, TypeOK, Fulls, Scopeds, Polls

\* Every variable keeps the type its declaration in the aggregator gives it, and
\* no fetch ever carries a number that fetchSeq has not given out.
THEOREM TypeOKHolds == Spec => []TypeOK
BY InitType, NextType, PTL DEF Spec

-----------------------------------------------------------------------------
(* Settled pull requests *)

\* What a merge does to a repository in its scope and to one outside it.
LEMMA MergeEffect ==
  ASSUME TypeOK, NEW rows \in [Repos -> Rows], NEW scope \in SUBSET Repos, NEW seq,
         MergeRepos(rows, scope, seq)
  PROVE  /\ settled' \subseteq settled
         /\ \A r \in Repos \ scope : snap'[r] = snap[r] /\ scopedSeq'[r] = scopedSeq[r]
         /\ \A r \in scope : /\ snap'[r].rest = rows[r].rest /\ snap'[r].pull = rows[r].pull
                             /\ r \in settled' => ~snap'[r].on
                             /\ scopedSeq'[r] = seq
<1> DEFINE keys == StillSettled(rows, scope)
<1>1. \A r \in Repos : rows[r] \in Rows /\ WithoutSettled(rows, keys)[r] =
                          [rows[r] EXCEPT !.on = rows[r].on /\ r \notin keys]
      BY WithoutSettledType
<1>2. settled' = keys /\ keys \subseteq settled
      BY DEF MergeRepos, StillSettled
<1>3. /\ snap' = [r \in Repos |-> IF r \in scope THEN WithoutSettled(rows, keys)[r] ELSE snap[r]]
      /\ scopedSeq' = [r \in Repos |-> IF r \in scope THEN seq ELSE scopedSeq[r]]
      BY DEF MergeRepos
<1> HIDE DEF keys
<1> QED BY <1>1, <1>2, <1>3, ZenonT(60) DEF Rows

\* A scoped refresh merges its own repository.
LEMMA ScopedMergeEffect ==
  ASSUME TypeOK, NEW r \in Repos, ScopedMerge(r)
  PROVE  /\ settled' \subseteq settled
         /\ \A q \in Repos \ {r} : snap'[q] = snap[q] /\ scopedSeq'[q] = scopedSeq[q]
         /\ snap'[r].rest = scoped[r].got.rest
         /\ r \in settled' => ~snap'[r].on
         /\ scopedSeq'[r] = scoped[r].seq
<1> DEFINE rows == ScopedRowsOf(r)
<1>1. scoped[r].got \in Answers /\ snap \in [Repos -> Rows]
      BY DEF TypeOK
<1>2. rows \in [Repos -> Rows] /\ rows[r].rest = scoped[r].got.rest
      BY <1>1 DEF ScopedRowsOf, Rows, Answers
<1>3. MergeRepos(rows, {r}, scoped[r].seq)
      BY DEF ScopedMerge, ScopedRowsOf
<1> HIDE DEF rows
<1>4. /\ settled' \subseteq settled
      /\ \A q \in Repos \ {r} : snap'[q] = snap[q] /\ scopedSeq'[q] = scopedSeq[q]
      /\ \A q \in {r} : /\ snap'[q].rest = rows[q].rest
                        /\ q \in settled' => ~snap'[q].on
                        /\ scopedSeq'[q] = scoped[r].seq
  <2>1. {r} \in SUBSET Repos
        OBVIOUS
  <2> QED BY <1>2, <1>3, <2>1, MergeEffect
<1> QED BY <1>2, <1>4

\* A CI poll merges the repositories that no later number has written, and one
\* row of each.
LEMMA PollMergeEffect ==
  ASSUME TypeOK, PollMerge
  PROVE  /\ settled' \subseteq settled
         /\ \A r \in Repos : snap'[r].rest = snap[r].rest
         /\ \A r \in Repos : ~PollWrites(r) => snap'[r] = snap[r] /\ scopedSeq'[r] = scopedSeq[r]
         /\ \A r \in Repos : PollWrites(r) =>
              (r \in settled' => ~snap'[r].on) /\ scopedSeq'[r] = poll.seq
<1> DEFINE rows == [r \in Repos |-> PollRows(r)]
           scope == {r \in Repos : PollWrites(r)}
<1>1. \A r \in Repos : snap[r] \in Rows /\ poll.got[r] \in Answers
      BY DEF TypeOK
<1>2. \A r \in Repos : PollRows(r) \in Rows /\ PollRows(r).rest = snap[r].rest
      BY <1>1 DEF PollRows, Rows, Answers
<1>3. rows \in [Repos -> Rows] /\ \A r \in Repos : rows[r].rest = snap[r].rest
      BY <1>2
<1>4. MergeRepos(rows, scope, poll.seq) /\ scope \in SUBSET Repos
      BY DEF PollMerge
<1>5. \A r \in Repos : r \in scope <=> PollWrites(r)
      OBVIOUS
<1> HIDE DEF rows, scope
<1>6. /\ settled' \subseteq settled
      /\ \A q \in Repos \ scope : snap'[q] = snap[q] /\ scopedSeq'[q] = scopedSeq[q]
      /\ \A q \in scope : /\ snap'[q].rest = rows[q].rest
                          /\ q \in settled' => ~snap'[q].on
                          /\ scopedSeq'[q] = poll.seq
  <2>1. TypeOK /\ rows \in [Repos -> Rows] /\ scope \in SUBSET Repos
          /\ MergeRepos(rows, scope, poll.seq)
        BY <1>3, <1>4
  <2> QED BY ONLY <2>1, MergeEffect
<1> QED BY <1>3, <1>4, <1>5, <1>6

\* A full refresh publishes either the repository's current rows or its own.
LEMMA PublishEffect ==
  ASSUME TypeOK, FullPublish
  PROVE  \A r \in Repos :
           /\ scopedSeq[r] > full.seq =>
                snap'[r].rest = snap[r].rest /\ snap'[r].pull = snap[r].pull
                  /\ snap'[r].on = snap[r].on
           /\ ~(scopedSeq[r] > full.seq) => snap'[r] = full.board[r]
<1>1. \A r \in Repos : snap[r] \in Rows /\ full.board[r] \in Rows
      BY DEF TypeOK
<1>2. \A r \in Repos : snap'[r] = IF scopedSeq[r] > full.seq
                                  THEN [snap[r] EXCEPT !.branch = full.board[r].branch]
                                  ELSE full.board[r]
      BY DEF FullPublish, KeepNewerScopedRepos
<1> QED BY <1>1, <1>2 DEF Rows

\* A settled pull request comes back by no step but a publish that was filtered
\* before the mark.
LEMMA SettledStep ==
  TypeOK /\ OnlyALateMarkIsUndone /\ BuiltWithoutSettled /\ [Next]_vars
    => (OnlyALateMarkIsUndone /\ BuiltWithoutSettled)'
<1> SUFFICES ASSUME TypeOK, OnlyALateMarkIsUndone, BuiltWithoutSettled, [Next]_vars
             PROVE  (OnlyALateMarkIsUndone /\ BuiltWithoutSettled)'
    OBVIOUS
<1> USE DEF OnlyALateMarkIsUndone, BuiltWithoutSettled
<1>0. settled \subseteq Repos /\ settled' \subseteq Repos
      BY NextType DEF TypeOK
<1>1. CASE UNCHANGED vars
      BY <1>1 DEF vars
<1>2. ASSUME NEW r \in Repos, ForgeChanges(r) \/ ForgeStopsListing(r)
      PROVE  (OnlyALateMarkIsUndone /\ BuiltWithoutSettled)'
      BY <1>2 DEF ForgeChanges, ForgeStopsListing
<1>3. ASSUME NEW r \in Repos, MarkSettled(r)
      PROVE  (OnlyALateMarkIsUndone /\ BuiltWithoutSettled)'
      BY <1>3 DEF MarkSettled
<1>4. ASSUME NEW r \in Repos, MarkSettledBoard(r)
      PROVE  (OnlyALateMarkIsUndone /\ BuiltWithoutSettled)'
  <2>1. snap \in [Repos -> Rows]
        BY DEF TypeOK
  <2>2. ~snap'[r].on /\ \A q \in Repos : q # r => snap'[q] = snap[q]
        BY <1>4, <2>1 DEF MarkSettledBoard, Rows
  <2> QED BY <1>0, <1>4, <2>2 DEF MarkSettledBoard
<1>5. ASSUME NEW r \in Repos, Unsettle(r) \/ WindowPasses(r)
      PROVE  (OnlyALateMarkIsUndone /\ BuiltWithoutSettled)'
      BY <1>5 DEF Unsettle, WindowPasses
<1>6. ASSUME NEW r \in Repos, NEW parts, FullRead(r, parts)
      PROVE  (OnlyALateMarkIsUndone /\ BuiltWithoutSettled)'
  <2>1. full'.pc = "reading"
        BY <1>6 DEF FullRead, TypeOK
  <2> QED BY <1>6, <2>1 DEF FullRead
<1>7. ASSUME FullBegin \/ FullTake \/ FullHeld \/ FullUnreachable
      PROVE  (OnlyALateMarkIsUndone /\ BuiltWithoutSettled)'
  <2>1. full'.pc # "built"
        BY <1>7 DEF FullBegin, FullTake, FullHeld, FullUnreachable, TypeOK, IdleFull
  <2> QED BY <1>7, <2>1 DEF FullBegin, FullTake, FullHeld, FullUnreachable
<1>8. ASSUME FullDropSettled
      PROVE  (OnlyALateMarkIsUndone /\ BuiltWithoutSettled)'
  <2> DEFINE keys == StillSettled(full.board, Repos)
  <2>1. full.board \in [Repos -> Rows]
        BY DEF TypeOK
  <2>2. \A r \in keys : r \in Repos /\ ~WithoutSettled(full.board, keys)[r].on
    <3>1. keys \subseteq Repos
          BY DEF TypeOK, StillSettled
    <3>2. \A r \in Repos : full.board[r] \in Rows /\ WithoutSettled(full.board, keys)[r] =
                              [full.board[r] EXCEPT !.on = full.board[r].on /\ r \notin keys]
          BY <2>1, WithoutSettledType
    <3> HIDE DEF keys
    <3> QED BY <3>1, <3>2 DEF Rows
  <2>3. /\ settled' = keys /\ keys \subseteq settled
        /\ full'.board = WithoutSettled(full.board, keys)
        /\ UNCHANGED <<snap, window, marking, late>>
        BY <1>8 DEF FullDropSettled, StillSettled, TypeOK
  <2> HIDE DEF keys
  <2> QED BY <2>2, <2>3
<1>9. ASSUME FullPublish
      PROVE  (OnlyALateMarkIsUndone /\ BuiltWithoutSettled)'
  <2>1. full'.pc # "built"
        BY <1>9 DEF FullPublish, IdleFull
  <2>2. full.pc = "built" /\ UNCHANGED <<settled, window, marking, late>>
        BY <1>9 DEF FullPublish
  <2> QED BY <1>0, <1>9, <2>1, <2>2, PublishEffect
<1>10. ASSUME NEW r \in Repos, ScopedBegin(r) \/ ScopedRows(r) \/ ScopedBranch(r) \/ PollRead(r)
       PROVE  (OnlyALateMarkIsUndone /\ BuiltWithoutSettled)'
       BY <1>10 DEF ScopedBegin, ScopedRows, ScopedBranch, PollRead
<1>11. ASSUME NEW r \in Repos, ScopedMerge(r)
       PROVE  (OnlyALateMarkIsUndone /\ BuiltWithoutSettled)'
  <2>1. UNCHANGED <<window, marking, full, late>>
        BY <1>11 DEF ScopedMerge
  <2> QED BY <1>0, <1>11, <2>1, ScopedMergeEffect
<1>12. CASE PollBegin
       BY <1>12 DEF PollBegin
<1>13. CASE PollMerge
  <2>1. UNCHANGED <<window, marking, full, late>>
        BY <1>13 DEF PollMerge
  <2> QED BY <1>0, <1>13, <2>1, PollMergeEffect
<1> QED BY <1>1, <1>2, <1>3, <1>4, <1>5, <1>6, <1>7, <1>8, <1>9, <1>10, <1>11, <1>12, <1>13
        DEF Next

-----------------------------------------------------------------------------
(* Newer reads *)

\* A scoped refresh gives its own number to the repository, and a CI poll never
\* writes over a later one.
LEMMA NumberStep == TypeOK /\ NumberCoversMerge /\ [Next]_vars => NumberCoversMerge'
<1> SUFFICES ASSUME TypeOK, NumberCoversMerge, [Next]_vars PROVE NumberCoversMerge'
    OBVIOUS
<1>1. CASE UNCHANGED <<scopedSeq, merged>>
      BY <1>1 DEF NumberCoversMerge
<1>2. ASSUME NEW r \in Repos, ScopedMerge(r)
      PROVE  NumberCoversMerge'
  <2>1. merged' = [merged EXCEPT ![r] = scoped[r].seq] /\ scoped[r].seq \in Nat
        BY <1>2 DEF ScopedMerge, TypeOK
  <2> QED BY <1>2, <2>1, ScopedMergeEffect DEF NumberCoversMerge, TypeOK
<1>3. CASE PollMerge
  <2>1. poll.seq \in Nat /\ \A q \in Repos : scopedSeq[q] \in Nat /\ merged[q] \in Nat
        BY DEF TypeOK
  <2>2. \A q \in Repos : PollWrites(q) => ~(scopedSeq[q] > poll.seq)
        BY DEF PollWrites
  <2>3. merged' = merged
        BY <1>3 DEF PollMerge
  <2> QED BY <1>3, <2>1, <2>2, <2>3, PollMergeEffect DEF NumberCoversMerge
<1>4. CASE UNCHANGED vars
      BY <1>1, <1>4 DEF vars
<1>5. CASE Next
      BY <1>1, <1>2, <1>3, <1>5
      DEF Next, ForgeChanges, ForgeStopsListing, MarkSettled, MarkSettledBoard, Unsettle,
          WindowPasses, FullRead, ScopedBegin, ScopedRows, ScopedBranch, PollRead, FullBegin,
          FullTake, FullHeld, FullUnreachable, FullDropSettled, FullPublish, PollBegin
<1> QED BY <1>4, <1>5

\* A read that happens after the refresh began finds the forge no older.
LEMMA ReadVersion ==
  ASSUME TypeOK, NEW r \in Repos, NEW got \in Answers
  PROVE  /\ ReadRows(r, got).rest = forge[r].ver /\ ReadBranch(r, got).rest = got.rest
         /\ ReadBranch(r, got).read = got.read \cup {"branch"}
BY DEF ReadRows, ReadBranch, Answers

\* Steps of the forge, the marks and the CI poll: no fetch of rows moves.
LEMMA FreshOutside ==
  ASSUME TypeOK, FullReadsAfterItBegan, LaterScopedReadsAreNewer,
         \/ UNCHANGED vars \/ PollBegin \/ PollMerge
         \/ \E r \in Repos : ForgeChanges(r) \/ ForgeStopsListing(r) \/ MarkSettled(r)
                               \/ MarkSettledBoard(r) \/ Unsettle(r) \/ WindowPasses(r) \/ PollRead(r)
  PROVE  (FullReadsAfterItBegan /\ LaterScopedReadsAreNewer)'
<1>1. UNCHANGED <<full, scoped, merged>>
      BY DEF vars, PollBegin, PollMerge, ForgeChanges, ForgeStopsListing, MarkSettled,
             MarkSettledBoard, Unsettle, WindowPasses, PollRead
<1>2. \A r \in Repos : forge[r].ver <= forge'[r].ver
  <2>1. \A r \in Repos : forge[r].ver \in Nat
        BY DEF TypeOK, Versions
  <2>2. CASE forge' = forge
        BY <2>1, <2>2
  <2>3. ASSUME NEW r \in Repos, ForgeChanges(r) \/ ForgeStopsListing(r) \/ Unsettle(r)
        PROVE  \A q \in Repos : forge[q].ver <= forge'[q].ver
    <3>1. \/ forge' = [forge EXCEPT ![r].ver = forge[r].ver + 1]
          \/ \E b \in BOOLEAN : forge' = [forge EXCEPT ![r].listed = b]
          BY <2>3 DEF ForgeChanges, ForgeStopsListing, Unsettle
    <3>2. forge \in [Repos -> [ver : Versions, listed : BOOLEAN]]
          BY DEF TypeOK
    <3>3. \A q \in Repos : forge'[q].ver = forge[q].ver \/ forge'[q].ver = forge[q].ver + 1
          BY <3>1, <3>2
    <3> QED BY <2>1, <3>3
  <2> QED BY <2>2, <2>3 DEF vars, PollBegin, PollMerge, MarkSettled, MarkSettledBoard,
                            WindowPasses, PollRead
<1>3. \A r \in Repos : snap'[r].rest = snap[r].rest
  <2>1. CASE PollMerge
        BY <2>1, PollMergeEffect
  <2>2. ASSUME NEW r \in Repos, MarkSettledBoard(r)
        PROVE  \A q \in Repos : snap'[q].rest = snap[q].rest
        BY <2>2 DEF MarkSettledBoard, TypeOK, Rows
  <2>3. CASE snap' = snap
        BY <2>3
  <2> QED BY <2>1, <2>2, <2>3 DEF vars, PollBegin, ForgeChanges, ForgeStopsListing, MarkSettled,
                                  Unsettle, WindowPasses, PollRead
<1>4. \A r \in Repos : full.began[r] \in Nat /\ forge[r].ver \in Nat /\ forge'[r].ver \in Nat
  <2>1. TypeOK'
        BY NextType DEF Next
  <2> QED BY <2>1 DEF TypeOK, Versions
<1>5. \A r \in Repos : full.began[r] <= forge'[r].ver
      BY <1>2, <1>4 DEF FullReadsAfterItBegan
<1>6. FullReadsAfterItBegan'
      BY <1>1, <1>5 DEF FullReadsAfterItBegan
<1>7. LaterScopedReadsAreNewer'
      BY <1>1, <1>3 DEF LaterScopedReadsAreNewer
<1> QED BY <1>6, <1>7

\* Steps of the full refresh.
LEMMA FreshFull ==
  ASSUME TypeOK, FullReadsAfterItBegan, LaterScopedReadsAreNewer,
         \/ FullBegin \/ FullTake \/ FullHeld \/ FullUnreachable \/ FullDropSettled \/ FullPublish
         \/ \E r \in Repos : \E parts \in SUBSET {"rows", "branch"} : FullRead(r, parts)
  PROVE  (FullReadsAfterItBegan /\ LaterScopedReadsAreNewer)'
<1> DEFINE Goal == (FullReadsAfterItBegan /\ LaterScopedReadsAreNewer)'
<1>0. full \in Fulls(fetchSeq) /\ \A r \in Repos : forge[r].ver \in Nat
      BY DEF TypeOK, Fulls, Versions
<1>1. CASE FullBegin
  <2>1. /\ full'.pc = "reading" /\ full'.seq = fetchSeq + 1
        /\ \A r \in Repos : full'.began[r] = forge[r].ver /\ full'.got[r].read = {}
        /\ UNCHANGED <<forge, snap, scoped, merged>>
        BY <1>1 DEF FullBegin, IdleFull, Unread
  <2>2. fetchSeq \in Nat /\ \A r \in Repos : scoped[r].seq <= fetchSeq /\ scoped[r].seq \in Nat
          /\ merged[r] <= fetchSeq /\ merged[r] \in Nat
        BY BoundsAssumption DEF TypeOK
  <2>3. FullReadsAfterItBegan'
        BY <1>0, <2>1 DEF FullReadsAfterItBegan
  <2>4. LaterScopedReadsAreNewer'
        BY <2>1, <2>2 DEF LaterScopedReadsAreNewer
  <2> QED BY <2>3, <2>4
<1>2. CASE FullTake
  <2>1. /\ full.pc = "reading" /\ full'.pc = "taken" /\ full'.board = Assembled
        /\ full'.seq = full.seq /\ full'.began = full.began /\ full'.got = full.got
        /\ UNCHANGED <<forge, snap, scoped, merged>>
        BY <1>0, <1>2 DEF FullTake, Fulls
  <2>2. \A r \in Repos : "rows" \in full.got[r].read => Assembled[r].rest = full.got[r].rest
        BY DEF Assembled
  <2>3. FullReadsAfterItBegan'
        BY <2>1, <2>2 DEF FullReadsAfterItBegan
  <2>4. LaterScopedReadsAreNewer'
        BY <2>1 DEF LaterScopedReadsAreNewer
  <2> QED BY <2>3, <2>4
<1>3. CASE FullHeld
  <2>1. /\ full.pc = "reading" /\ full.asked = Repos /\ full'.pc = "taken"
        /\ full'.seq = full.seq /\ full'.began = full.began /\ full'.got = full.got
        /\ UNCHANGED <<forge, snap, scoped, merged>>
        BY <1>0, <1>3 DEF FullHeld, Fulls
  <2>2. FullReadsAfterItBegan'
        BY <2>1 DEF FullReadsAfterItBegan
  <2>3. LaterScopedReadsAreNewer'
        BY <2>1 DEF LaterScopedReadsAreNewer
  <2> QED BY <2>2, <2>3
<1>4. CASE FullUnreachable
  <2>1. /\ full.pc = "reading" /\ full'.pc = "taken"
        /\ full'.seq = full.seq /\ full'.began = full.began
        /\ \A r \in Repos : full'.got[r].read = {}
        /\ UNCHANGED <<forge, snap, scoped, merged>>
        BY <1>0, <1>4 DEF FullUnreachable, Fulls, Unread
  <2>2. FullReadsAfterItBegan'
        BY <2>1 DEF FullReadsAfterItBegan
  <2>3. LaterScopedReadsAreNewer'
        BY <2>1 DEF LaterScopedReadsAreNewer
  <2> QED BY <2>2, <2>3
<1>5. CASE FullDropSettled
  <2> DEFINE keys == StillSettled(full.board, Repos)
  <2>1. /\ full.pc = "taken" /\ full'.pc = "built" /\ full'.board = WithoutSettled(full.board, keys)
        /\ full'.seq = full.seq /\ full'.began = full.began /\ full'.got = full.got
        /\ UNCHANGED <<forge, snap, scoped, merged>>
        BY <1>0, <1>5 DEF FullDropSettled, Fulls
  <2> HIDE DEF keys
  <2>2. full.board \in [Repos -> Rows]
        BY <1>0 DEF Fulls
  <2>3. \A r \in Repos : full'.board[r].rest = full.board[r].rest
        BY <2>1, <2>2 DEF WithoutSettled, Rows
  <2>4. FullReadsAfterItBegan'
        BY <2>1, <2>3 DEF FullReadsAfterItBegan
  <2>5. LaterScopedReadsAreNewer'
        BY <2>1 DEF LaterScopedReadsAreNewer
  <2> QED BY <2>4, <2>5
<1>6. CASE FullPublish
  <2>1. full'.pc = "idle" /\ \A r \in Repos : full'.began[r] = 0
        BY <1>6 DEF FullPublish, IdleFull
  <2>2. UNCHANGED forge
        BY <1>6 DEF FullPublish
  <2> QED BY <1>0, <2>1, <2>2 DEF FullReadsAfterItBegan, LaterScopedReadsAreNewer
<1>7. CASE \E r \in Repos : \E parts \in SUBSET {"rows", "branch"} : FullRead(r, parts)
  <2>1. PICK r \in Repos, parts \in SUBSET {"rows", "branch"} : FullRead(r, parts)
        BY <1>7
  <2> DEFINE rows == IF "rows" \in parts THEN ReadRows(r, full.got[r]) ELSE full.got[r]
             all  == IF "branch" \in parts THEN ReadBranch(r, rows) ELSE rows
  <2>2. full.got[r] \in Answers /\ "rows" \notin full.got[r].read
        BY <2>1 DEF TypeOK, FullRead, FullReadsAfterItBegan
  <2>3. rows \in Answers /\ ("rows" \in rows.read => rows.rest = forge[r].ver)
        BY <2>2, ReadType, ReadVersion
  <2>4. "rows" \in all.read => all.rest = forge[r].ver
        BY <2>3, ReadVersion
  <2>5. /\ full.pc = "reading" /\ full'.pc = "reading" /\ full'.asked = full.asked \ {r}
        /\ full'.seq = full.seq /\ full'.began = full.began
        /\ full'.got = [full.got EXCEPT ![r] = all]
        /\ UNCHANGED <<forge, snap, scoped, merged>>
        BY <1>0, <2>1 DEF FullRead, Fulls
  <2> HIDE DEF rows, all
  <2>6. full'.got[r] = all /\ \A q \in Repos : q # r => full'.got[q] = full.got[q]
        BY <1>0, <2>5 DEF Fulls
  <2>7. FullReadsAfterItBegan'
        BY <2>4, <2>5, <2>6 DEF FullReadsAfterItBegan
  <2>8. LaterScopedReadsAreNewer'
        BY <2>5 DEF LaterScopedReadsAreNewer
  <2> QED BY <2>7, <2>8
<1> QED BY <1>1, <1>2, <1>3, <1>4, <1>5, <1>6, <1>7

\* Steps of a scoped refresh.
LEMMA FreshScoped ==
  ASSUME TypeOK, FullReadsAfterItBegan, LaterScopedReadsAreNewer, NEW r \in Repos,
         ScopedBegin(r) \/ ScopedRows(r) \/ ScopedBranch(r) \/ ScopedMerge(r)
  PROVE  (FullReadsAfterItBegan /\ LaterScopedReadsAreNewer)'
<1>0. UNCHANGED <<forge, full>>
      BY DEF ScopedBegin, ScopedRows, ScopedBranch, ScopedMerge
<1>1. FullReadsAfterItBegan'
      BY <1>0 DEF FullReadsAfterItBegan
<1>2. scoped[r] \in Scopeds(fetchSeq) /\ scoped \in [Repos -> Scopeds(fetchSeq)]
      BY DEF TypeOK, Scopeds
<1>3. CASE ScopedBegin(r)
  <2>1. scoped'[r].pc = "rows" /\ \A q \in Repos : q # r => scoped'[q] = scoped[q]
        BY <1>2, <1>3 DEF ScopedBegin, IdleFetch
  <2> QED BY <1>0, <1>1, <1>3, <2>1 DEF ScopedBegin, LaterScopedReadsAreNewer
<1>4. CASE ScopedRows(r)
  <2>1. scoped'[r].pc = "idle" \/ scoped'[r].got.rest = forge[r].ver
    <3>1. ReadRows(r, scoped[r].got).rest = forge[r].ver
          BY <1>2, ReadVersion DEF Scopeds
    <3> QED BY <1>2, <1>4, <3>1 DEF ScopedRows, IdleFetch, Scopeds
  <2>2. \A q \in Repos : q # r => scoped'[q] = scoped[q]
        BY <1>2, <1>4 DEF ScopedRows
  <2> QED BY <1>0, <1>1, <1>4, <2>1, <2>2
          DEF ScopedRows, LaterScopedReadsAreNewer, FullReadsAfterItBegan
<1>5. CASE ScopedBranch(r)
  <2>1. scoped'[r].got.rest = scoped[r].got.rest /\ scoped'[r].seq = scoped[r].seq
    <3>1. ReadBranch(r, scoped[r].got).rest = scoped[r].got.rest
          BY <1>2, ReadVersion DEF Scopeds
    <3> QED BY <1>2, <1>5, <3>1 DEF ScopedBranch, Scopeds
  <2>2. scoped[r].pc = "branch" /\ \A q \in Repos : q # r => scoped'[q] = scoped[q]
        BY <1>2, <1>5 DEF ScopedBranch
  <2> QED BY <1>0, <1>1, <1>5, <2>1, <2>2 DEF ScopedBranch, LaterScopedReadsAreNewer
<1>6. CASE ScopedMerge(r)
  <2>1. /\ scoped[r].pc = "merge"
        /\ scoped'[r].pc = "idle" /\ \A q \in Repos : q # r => scoped'[q] = scoped[q]
        /\ merged'[r] = scoped[r].seq /\ \A q \in Repos : q # r => merged'[q] = merged[q]
        BY <1>2, <1>6 DEF ScopedMerge, IdleFetch, TypeOK
  <2> QED BY <1>0, <1>1, <1>6, <2>1, ScopedMergeEffect DEF LaterScopedReadsAreNewer
<1> QED BY <1>3, <1>4, <1>5, <1>6

-----------------------------------------------------------------------------
(* The theorems *)

\* Nothing is fetched, merged or marked.
LEMMA InitBoard ==
  Init => OnlyALateMarkIsUndone /\ BuiltWithoutSettled /\ NumberCoversMerge
            /\ FullReadsAfterItBegan /\ LaterScopedReadsAreNewer
BY DEF Init, OnlyALateMarkIsUndone, BuiltWithoutSettled, NumberCoversMerge,
       FullReadsAfterItBegan, LaterScopedReadsAreNewer, IdleFull

\* Every step keeps the invariant.
LEMMA NextBoard == BoardInv /\ [Next]_vars => BoardInv'
<1> SUFFICES ASSUME BoardInv, [Next]_vars PROVE BoardInv'
    OBVIOUS
<1>1. TypeOK' /\ NumberCoversMerge' /\ (OnlyALateMarkIsUndone /\ BuiltWithoutSettled)'
      BY NextType, NumberStep, SettledStep DEF BoardInv
<1>2. (FullReadsAfterItBegan /\ LaterScopedReadsAreNewer)'
      BY FreshOutside, FreshFull, FreshScoped DEF BoardInv, Next
<1> QED BY <1>1, <1>2 DEF BoardInv

\* The inductive invariant of the board.
THEOREM BoardInvariant == Spec => []BoardInv
<1>1. Init => BoardInv
  <2>1. Init => TypeOK
        BY InitType
  <2> QED BY <2>1, InitBoard DEF BoardInv
<1> QED BY <1>1, NextBoard, PTL DEF Spec

\* A pull request marked settled stays off the board, except for a publish that
\* had been filtered before the mark.
THEOREM OnlyALateMarkIsUndoneHolds == Spec => []OnlyALateMarkIsUndone
<1>1. BoardInv => OnlyALateMarkIsUndone
      BY DEF BoardInv
<1> QED BY <1>1, BoardInvariant, PTL

\* No slower fetch takes back what a newer scoped refresh merged.
THEOREM NewerReadIsNotUndoneHolds == Spec => NewerReadIsNotUndone
<1> DEFINE Undone == \A r \in Repos :
        \/ FullPublish /\ merged[r] > full.seq
        \/ PollMerge /\ merged[r] > poll.seq
        => snap'[r].rest >= snap[r].rest /\ snap'[r].pull >= snap[r].pull
<1>1. BoardInv /\ [Next]_vars => [Undone]_vars
  <2> SUFFICES ASSUME BoardInv, NEW r \in Repos,
                      \/ FullPublish /\ merged[r] > full.seq
                      \/ PollMerge /\ merged[r] > poll.seq
               PROVE  snap'[r].rest >= snap[r].rest /\ snap'[r].pull >= snap[r].pull
      OBVIOUS
  <2>1. /\ merged[r] \in Nat /\ scopedSeq[r] \in Nat /\ full.seq \in Nat /\ poll.seq \in Nat
        /\ snap[r].rest \in Nat /\ snap[r].pull \in Nat
        BY DEF BoardInv, TypeOK, Rows, Versions
  <2>2. merged[r] <= scopedSeq[r]
        BY DEF BoardInv, NumberCoversMerge
  <2>3. CASE FullPublish /\ merged[r] > full.seq
    <3>1. scopedSeq[r] > full.seq
          BY <2>1, <2>2, <2>3
    <3>2. snap'[r].rest = snap[r].rest /\ snap'[r].pull = snap[r].pull
          BY <2>3, <3>1, PublishEffect DEF BoardInv
    <3> QED BY <2>1, <3>2
  <2>4. CASE PollMerge /\ merged[r] > poll.seq
    <3>1. ~PollWrites(r)
          BY <2>1, <2>2, <2>4 DEF PollWrites
    <3>2. snap'[r] = snap[r]
          BY <2>4, <3>1, PollMergeEffect DEF BoardInv
    <3> QED BY <2>1, <3>2
  <2> QED BY <2>3, <2>4
<1>2. Spec => [][Undone]_vars
      BY <1>1, BoardInvariant, PTL DEF Spec
<1> QED BY <1>2 DEF NewerReadIsNotUndone

\* What was on the forge when a full refresh began is on the board when it has
\* read the repository and publishes, but for the mark of a later CI poll.
THEOREM OnlyAPollHidesARefreshHolds == Spec => OnlyAPollHidesARefresh
<1> DEFINE Hidden == \A r \in Repos :
        FullPublish /\ "rows" \in full.got[r].read /\ snap'[r].rest < full.began[r]
          => scopedSeq[r] > full.seq /\ scopedSeq[r] # merged[r]
<1>1. BoardInv /\ [Next]_vars => [Hidden]_vars
  <2> SUFFICES ASSUME BoardInv, NEW r \in Repos, FullPublish, "rows" \in full.got[r].read,
                      snap'[r].rest < full.began[r]
               PROVE  scopedSeq[r] > full.seq /\ scopedSeq[r] # merged[r]
      OBVIOUS
  <2>1. /\ merged[r] \in Nat /\ scopedSeq[r] \in Nat /\ full.seq \in Nat
        /\ snap[r].rest \in Nat /\ full.began[r] \in Nat /\ full.board[r].rest \in Nat
        BY DEF BoardInv, TypeOK, Rows, Versions
  <2>2. full.pc = "built"
        BY DEF FullPublish
  <2>3. full.began[r] <= full.board[r].rest
        BY <2>2 DEF BoardInv, FullReadsAfterItBegan
  <2>4. scopedSeq[r] > full.seq
    <3>1. ~(scopedSeq[r] > full.seq) => snap'[r] = full.board[r]
          BY PublishEffect DEF BoardInv
    <3> QED BY <2>1, <2>3, <3>1
  <2>5. snap'[r].rest = snap[r].rest
        BY <2>4, PublishEffect DEF BoardInv
  <2>6. merged[r] > full.seq => full.began[r] <= snap[r].rest
        BY <2>2 DEF BoardInv, LaterScopedReadsAreNewer
  <2> QED BY <2>1, <2>4, <2>5, <2>6
<1>2. Spec => [][Hidden]_vars
      BY <1>1, BoardInvariant, PTL DEF Spec
<1> QED BY <1>2 DEF OnlyAPollHidesARefresh
-----------------------------------------------------------------------------
(* The request to a bot and the box its row shows *)

\* The number of a fetch dates the row it read.
InHand(f) == f.row.sinceReq = f.afterReq /\ f.row.sinceBox = f.afterBox

ReadsAreDated ==
  /\ fullRead.at = "asking" => ~fullRead.read
  /\ fullRead.at \in {"copied", "applied"} /\ fullRead.read => InHand(fullRead)
  /\ scopedRead.at = "answered" /\ scopedRead.of = "own" => InHand(scopedRead)

\* A full refresh older than the last tick finds its override, unless a scoped
\* one with a later number has replaced the row.
OverrideWaits ==
  (fullRead.at # "idle" /\ ~fullRead.beaten /\ ~fullRead.afterBox /\ wanted # "none")
    => box # "none"

\* A scoped refresh that could drop the override has a later number than a full
\* refresh that needs it; and once one has merged, so has every next one.
ScopedIsLater ==
  /\ (scopedRead.at # "idle" /\ scopedRead.afterBox /\ fullRead.at # "idle" /\ ~fullRead.afterBox)
       => scopedRead.later
  /\ fullRead.beaten => fullRead.at # "idle" /\ (scopedRead.at # "idle" => scopedRead.later)

\* Only Renovate is asked by a box.
BoxesAreRenovates == acting \in {"ticked", "already", "cleared"} => bkind = "renovate"

BotInv ==
  /\ BR!TypeOK /\ BoxesAreRenovates
  /\ ReadsAreDated /\ OverrideWaits /\ ScopedIsLater
  /\ BR!TickStays /\ BR!RequestIsShown

BotReqs == [phase : BR!Phases \cup {"none"}, head : 0..MaxPush, behind : BOOLEAN,
            clock : {"runs", "due", "old"}, acked : BOOLEAN]
BotFulls == [at : {"idle", "asking", "copied", "applied"}, row : BR!BRow,
             read : BOOLEAN, afterReq : BOOLEAN, afterBox : BOOLEAN, beaten : BOOLEAN]
BotScopeds == [at : {"idle", "asking", "answered"}, of : {"own", "other", "poll"},
               row : BR!BRow, afterReq : BOOLEAN, afterBox : BOOLEAN, later : BOOLEAN]

\* The types of BotRequests, with its records named.
LEMMA BotTypes ==
  ASSUME BR!TypeOK
  PROVE  /\ bkind \in {"dependabot", "renovate", "update"}
         /\ truth \in BR!Truth /\ brow \in BR!BRow /\ req \in BotReqs
         /\ box \in {"none", "on", "off"} /\ wanted \in {"none", "on", "off"}
         /\ fullRead \in BotFulls /\ scopedRead \in BotScopeds
         /\ acting \in {"idle", "asked", "ticked", "already", "cleared"}
         /\ fetches \in 0..MaxFetches /\ askings \in 0..MaxAsks
         /\ acks \in {"none", "current", "stale"} /\ slipped \in BOOLEAN
         /\ (box # "none") => (bkind = "renovate" /\ box = wanted)
BY DEF BR!TypeOK, BotReqs, BotFulls, BotScopeds

\* The records that stand for nothing have the types.
LEMMA NoneTypes ==
  /\ BR!NoBRow \in BR!BRow /\ BR!NoReq \in BotReqs
  /\ BR!NoFetch \in BotFulls /\ BR!NoScoped \in BotScopeds
<1>0. 0 \in 0..MaxPush
      BY BotsAssumption
<1>1. BR!NoBRow \in BR!BRow
      BY <1>0 DEF BR!NoBRow, BR!BRow, BR!Phases
<1>2. BR!NoReq \in BotReqs
      BY <1>0 DEF BR!NoReq, BotReqs, BR!Phases
<1>3. BR!NoFetch \in BotFulls /\ BR!NoScoped \in BotScopeds
      BY <1>1 DEF BR!NoFetch, BR!NoScoped, BotFulls, BotScopeds
<1> QED BY <1>1, <1>2, <1>3

\* A fetch reads a row dated with its number.
LEMMA ReadRowType ==
  ASSUME BR!TypeOK, NEW f, f.afterReq \in BOOLEAN, f.afterBox \in BOOLEAN
  PROVE  /\ BR!ReadRow(f) \in BR!BRow
         /\ BR!ReadRow(f).sinceReq = f.afterReq /\ BR!ReadRow(f).sinceBox = f.afterBox
<1>1. truth.open \in BOOLEAN /\ truth.head \in 0..MaxPush /\ truth.behind \in BOOLEAN
      /\ truth.pending \in BOOLEAN
      BY BotTypes DEF BR!Truth
<1> QED BY <1>1 DEF BR!ReadRow, BR!BRow, BR!Phases

\* settleBoxOverrides changes a row's box only, shows the override on a row read
\* before it, and drops it only for a fetch that began after it.
LEMMA BoxedFacts ==
  ASSUME BR!TypeOK, NEW row \in BR!BRow,
         NEW after \in BOOLEAN, NEW covers \in BOOLEAN, NEW read \in BOOLEAN
  PROVE  LET b == BR!Boxed(row, after, covers, read)
         IN /\ b.row \in BR!BRow
            /\ b.row.listed = row.listed /\ b.row.behind = row.behind
            /\ b.row.sinceReq = row.sinceReq /\ b.row.sinceBox = row.sinceBox
            /\ b.box = box \/ (b.box = "none" /\ after /\ covers /\ (row.listed => read))
            /\ b.row.box = row.box \/ (box # "none" /\ b.row.box = (box = "on"))
            /\ box # "none" /\ ~after /\ covers /\ row.listed /\ read
                 => b.row.box = (box = "on")
<1>1. box \in {"none", "on", "off"}
      BY BotTypes
<1>2. [row EXCEPT !.box = (box = "on")] \in BR!BRow
      BY <1>1 DEF BR!BRow
<1>3. LET q == [row EXCEPT !.box = (box = "on")]
      IN q.listed = row.listed /\ q.behind = row.behind /\ q.sinceReq = row.sinceReq
         /\ q.sinceBox = row.sinceBox /\ q.box = (box = "on")
      BY DEF BR!BRow
<1> QED BY <1>1, <1>2, <1>3 DEF BR!Boxed

\* Annotating a row changes what it shows, and nothing else.
LEMMA AnnotateFacts ==
  ASSUME NEW row \in BR!BRow, NEW r \in BotReqs
  PROVE  LET n == BR!Annotate(row, r)
         IN /\ n \in BR!BRow /\ n.shown = r.phase
            /\ n.listed = row.listed /\ n.box = row.box
            /\ n.sinceReq = row.sinceReq /\ n.sinceBox = row.sinceBox
<1>1. r.phase \in BR!Phases \cup {"none"}
      BY DEF BotReqs
<1> QED BY <1>1 DEF BR!Annotate, BR!Shown, BR!BRow

\* applyBotRequests ends a waiting request for a row that is gone, or that a
\* fetch begun after the request stands behind.
LEMMA ApplyFacts ==
  ASSUME BR!TypeOK, NEW r \in BotReqs, NEW row \in BR!BRow,
         NEW after \in BOOLEAN, NEW covers \in BOOLEAN
  PROVE  LET n == BR!Apply(r, row, after, covers)
         IN /\ n \in BotReqs
            /\ r.phase = "none" => n.phase = "none"
            /\ r.phase = "queued" /\ n.phase \in {"none", "rebasing"}
                 => ~row.listed \/ after
<1>0. r.phase \in BR!Phases \cup {"none"}
      BY DEF BotReqs
<1>1. /\ [r EXCEPT !.phase = "expired"] \in BotReqs
      /\ [r EXCEPT !.phase = "rebasing", !.clock = "runs"] \in BotReqs
      /\ [r EXCEPT !.phase = "expired"].phase = "expired"
      BY DEF BotReqs, BR!Phases
<1>2. BR!NoReq \in BotReqs /\ BR!NoReq.phase = "none"
      BY NoneTypes DEF BR!NoReq
<1>3. BR!Advance(r, row, after) \in BotReqs
      BY <1>1, <1>2 DEF BR!Advance
<1>4. r.phase = "none" => BR!Advance(r, row, after) = r
      BY DEF BR!Advance
<1>5. r.phase = "queued" /\ ~after => BR!Advance(r, row, after).phase \in {"queued", "expired"}
      BY <1>1 DEF BR!Advance, BR!Landed
<1> QED BY <1>2, <1>3, <1>4, <1>5 DEF BR!Apply

\* What a step leaves alone keeps what depends on it alone.
LEMMA BotFrame ==
  ASSUME BotInv, UNCHANGED <<brow, box, fullRead, scopedRead, wanted, slipped>>
  PROVE  /\ ReadsAreDated' /\ OverrideWaits' /\ ScopedIsLater' /\ BR!TickStays'
         /\ UNCHANGED req => BR!RequestIsShown'
         /\ UNCHANGED <<acting, bkind>> => BoxesAreRenovates'
BY DEF BotInv, BoxesAreRenovates, ReadsAreDated, InHand, OverrideWaits, ScopedIsLater, BR!TickStays, BR!RequestIsShown

\* A waiting request does not end in this step but by its handler.
NotSettled ==
  ~(req.phase = "queued" /\ req'.phase \in {"none", "rebasing"} /\ acting' = acting)

\* The forge, the clock and the handlers up to the forge's answer.
LEMMA ForgeKeepsBotInv ==
  ASSUME BotInv,
         BR!TruthMoves \/ BR!DeadlinePasses \/ BR!AskForge \/ BR!CancelOnForge
  PROVE  BotInv' /\ NotSettled
<1>0. BR!TypeOK
      BY DEF BotInv
<1>1. CASE BR!TruthMoves
  <2>1. truth' \in BR!Truth
    <3>1. /\ truth.head \in 0..MaxPush
          /\ truth.box \in BR!Boxes
          BY <1>0, BotTypes DEF BR!Truth
    <3>2. ASSUME truth.head < MaxPush PROVE truth.head + 1 \in 0..MaxPush
          BY <3>1, <3>2, BotsAssumption
    <3>3. (IF truth.box = "on" THEN "off" ELSE truth.box) \in BR!Boxes
          BY <3>1 DEF BR!Boxes
    <3>4. truth \in BR!Truth
          BY <1>0, BotTypes
    <3>5. CASE truth.head < MaxPush /\ \E b, p \in BOOLEAN :
             truth' = [truth EXCEPT !.head = @ + 1, !.behind = b, !.pending = p,
                                    !.box = IF @ = "on" THEN "off" ELSE @]
          BY <3>2, <3>3, <3>4, <3>5 DEF BR!Truth
    <3> QED BY <1>1, <3>4, <3>5 DEF BR!TruthMoves, BR!Truth
  <2>2. UNCHANGED <<bkind, brow, req, box, fullRead, scopedRead, acting, acks, fetches, askings,
                    wanted, slipped>>
        BY <1>1 DEF BR!TruthMoves, BR!counts
  <2>3. BR!TypeOK'
        BY <1>0, <2>1, <2>2 DEF BR!TypeOK
  <2> QED BY <2>2, <2>3, BotFrame DEF BotInv, NotSettled
<1>2. CASE BR!DeadlinePasses
  <2>1. req' \in BotReqs /\ req'.phase = req.phase
        BY <1>0, <1>2, BotTypes DEF BR!DeadlinePasses, BotReqs
  <2>2. UNCHANGED <<bkind, truth, brow, box, fullRead, scopedRead, acting, acks, fetches, askings,
                    wanted, slipped>>
        BY <1>2 DEF BR!DeadlinePasses, BR!counts
  <2>3. BR!TypeOK'
        BY <1>0, <2>1, <2>2 DEF BR!TypeOK, BotReqs
  <2>4. BR!RequestIsShown'
        BY <2>1, <2>2 DEF BotInv, BR!RequestIsShown
  <2> QED BY <2>1, <2>2, <2>3, <2>4, BotFrame DEF BotInv, NotSettled
<1>3. CASE BR!AskForge \/ BR!CancelOnForge
  <2>1. truth' \in BR!Truth
    <3>1. truth \in BR!Truth /\ truth.head \in 0..MaxPush /\ truth.box \in BR!Boxes
          BY <1>0, BotTypes DEF BR!Truth
    <3>2. ASSUME truth.head < MaxPush PROVE truth.head + 1 \in 0..MaxPush
          BY <3>1, <3>2, BotsAssumption
    <3>3. CASE BR!CancelOnForge
          BY <3>1, <3>3 DEF BR!CancelOnForge, BR!UntickBox, BR!Truth, BR!Boxes
    <3>4. CASE BR!AskForge
          BY <3>1, <3>2, <3>4 DEF BR!AskForge, BR!TickBox, BR!Truth, BR!Boxes
    <3> QED BY <1>3, <3>3, <3>4
  <2>2. acting' \in {"asked", "ticked", "already", "cleared"} /\ acting = "idle"
        BY <1>3 DEF BR!CancelOnForge, BR!AskForge, BR!TickBox
  <2>3. askings' \in 0..MaxAsks
    <3>1. askings \in 0..MaxAsks /\ askings < MaxAsks /\ askings' = askings + 1
          BY <1>0, <1>3, BotTypes DEF BR!CancelOnForge, BR!AskForge
    <3> QED BY <3>1, BotsAssumption
  <2>4. UNCHANGED <<bkind, brow, req, box, fullRead, scopedRead, acks, fetches, wanted, slipped>>
        BY <1>3 DEF BR!CancelOnForge, BR!AskForge
  <2>5. BR!TypeOK'
        BY <1>0, <2>1, <2>2, <2>3, <2>4 DEF BR!TypeOK
  <2>6. BoxesAreRenovates'
        BY <1>3, <2>4 DEF BoxesAreRenovates, BR!CancelOnForge, BR!AskForge, BR!TickBox
  <2> QED BY <2>2, <2>4, <2>5, <2>6, BotFrame DEF BotInv, NotSettled
<1> QED BY <1>1, <1>2, <1>3

\* Dependabot's thumbs-up: looked for, and recorded.
LEMMA AcksKeepBotInv ==
  ASSUME BotInv, BR!LookUpAck \/ BR!RecordAck
  PROVE  BotInv' /\ NotSettled
<1>0. BR!TypeOK
      BY DEF BotInv
<1>1. req' \in BotReqs /\ (req'.phase = "none" <=> req.phase = "none")
      /\ (req.phase = "queued" => req'.phase = "queued")
  <2>1. CASE BR!LookUpAck
        BY <1>0, <2>1, BotTypes DEF BR!LookUpAck
  <2>2. CASE BR!RecordAck
    <3>1. req \in BotReqs
          BY <1>0, BotTypes
    <3>2. /\ [req EXCEPT !.acked = TRUE] \in BotReqs
          /\ [req EXCEPT !.acked = TRUE].phase = req.phase
          /\ [req EXCEPT !.acked = TRUE, !.phase = "queued", !.clock = "runs"] \in BotReqs
          /\ [req EXCEPT !.acked = TRUE, !.phase = "queued", !.clock = "runs"].phase = "queued"
          BY <3>1 DEF BotReqs, BR!Phases
    <3>3. \/ req' = req
          \/ /\ req.phase # "none"
             /\ req' = IF req.phase = "rebasing" THEN [req EXCEPT !.acked = TRUE]
                       ELSE [req EXCEPT !.acked = TRUE, !.phase = "queued", !.clock = "runs"]
          BY <2>2, Zenon DEF BR!RecordAck
    <3> QED BY <3>1, <3>2, <3>3
  <2> QED BY <2>1, <2>2
<1>2. UNCHANGED <<bkind, truth, brow, box, fullRead, scopedRead, acting, fetches, askings,
                  wanted, slipped>>
      BY DEF BR!LookUpAck, BR!RecordAck, BR!counts
<1>3. acks' \in {"none", "current", "stale"}
      BY DEF BR!LookUpAck, BR!RecordAck
<1>4. BR!TypeOK'
      BY <1>0, <1>1, <1>2, <1>3 DEF BR!TypeOK, BotReqs
<1>5. BR!RequestIsShown'
      BY <1>1, <1>2 DEF BotInv, BR!RequestIsShown
<1> QED BY <1>1, <1>2, <1>4, <1>5, BotFrame DEF BotInv, NotSettled

\* A handler's record: it dates every row anew, and a tick leaves its override.
LEMMA RecordKeepsBotInv ==
  ASSUME BotInv, BR!Record
  PROVE  BotInv' /\ NotSettled
<1>0. BR!TypeOK
      BY DEF BotInv
<1>1. acting # "idle" /\ acting' = "idle" /\ UNCHANGED <<bkind, truth, fetches, askings>>
      BY DEF BR!Record, BR!counts
<1>2. NotSettled
      BY <1>1 DEF NotSettled
<1>3. BoxesAreRenovates'
      BY <1>1 DEF BoxesAreRenovates
<1>4. CASE ~brow.listed
  <2>1. UNCHANGED <<brow, req, box, fullRead, scopedRead, acks, wanted, slipped>>
        BY <1>4 DEF BR!Record
  <2>2. BR!TypeOK'
        BY <1>0, <1>1, <2>1 DEF BR!TypeOK
  <2> QED BY <1>2, <1>3, <2>1, <2>2, BotFrame DEF BotInv
<1>5. CASE brow.listed
  <2> DEFINE asks  == acting \in {"asked", "ticked"}
             boxes == acting \in {"ticked", "already", "cleared"}
             on    == acting # "cleared"
  <2>1. /\ req' = BR!ReqAfterBox(IF asks THEN BR!Queued ELSE req, on)
        /\ box' = IF boxes THEN (IF on THEN "on" ELSE "off") ELSE box
        /\ wanted' = IF boxes THEN box' ELSE wanted
        /\ brow' = [BR!Aged(brow, asks, boxes) EXCEPT !.box = IF boxes THEN on ELSE @,
                                                      !.shown = BR!Shown(req')]
        /\ fullRead' = [fullRead EXCEPT !.row = BR!Aged(@, asks, boxes),
                                        !.afterReq = @ /\ ~asks, !.afterBox = @ /\ ~boxes]
        /\ scopedRead' = [scopedRead EXCEPT !.row = BR!Aged(@, asks, boxes),
                                            !.afterReq = @ /\ ~asks, !.afterBox = @ /\ ~boxes]
        /\ acks' = IF asks /\ acks = "current" THEN "stale" ELSE acks
        /\ slipped' = (slipped /\ ~boxes)
        BY <1>5, Zenon DEF BR!Record
  <2>2. asks \in BOOLEAN /\ boxes \in BOOLEAN /\ on \in BOOLEAN
        OBVIOUS
  <2>3. boxes => bkind = "renovate"
        BY DEF BotInv, BoxesAreRenovates
  <2> HIDE DEF asks, boxes, on
  <2>4. ASSUME NEW row \in BR!BRow
        PROVE  /\ BR!Aged(row, asks, boxes) \in BR!BRow
               /\ BR!Aged(row, asks, boxes).listed = row.listed
               /\ BR!Aged(row, asks, boxes).box = row.box
               /\ BR!Aged(row, asks, boxes).sinceReq = (row.sinceReq /\ ~asks)
               /\ BR!Aged(row, asks, boxes).sinceBox = (row.sinceBox /\ ~boxes)
        BY <2>2 DEF BR!Aged, BR!BRow
  <2>5. brow \in BR!BRow /\ fullRead \in BotFulls /\ scopedRead \in BotScopeds /\ req \in BotReqs
        /\ box \in {"none", "on", "off"} /\ wanted \in {"none", "on", "off"} /\ slipped \in BOOLEAN
        /\ acks \in {"none", "current", "stale"} /\ ((box # "none") => (bkind = "renovate" /\ box = wanted))
        BY <1>0, BotTypes
  <2>6. req' \in BotReqs
    <3>1. BR!Queued \in BotReqs
          BY <2>5 DEF BR!Queued, BotReqs, BR!BRow, BR!Phases
    <3> QED BY <2>1, <2>5, <3>1, NoneTypes DEF BR!ReqAfterBox
  <2>7. /\ brow' \in BR!BRow /\ brow'.listed
        /\ brow'.shown = req'.phase
        /\ brow'.box = (IF boxes THEN on ELSE brow.box)
        /\ brow'.sinceBox = (brow.sinceBox /\ ~boxes)
    <3>1. req'.phase \in BR!Phases \cup {"none"}
          BY <2>6 DEF BotReqs
    <3>2. brow.box \in BOOLEAN
          BY <2>5 DEF BR!BRow
    <3> DEFINE aged == BR!Aged(brow, asks, boxes)
    <3>3. aged \in BR!BRow /\ aged.listed /\ aged.box = brow.box
          /\ aged.sinceBox = (brow.sinceBox /\ ~boxes)
          BY <1>5, <2>4, <2>5
    <3>4. brow' = [aged EXCEPT !.box = IF boxes THEN on ELSE @, !.shown = req'.phase]
          BY <2>1 DEF BR!Shown
    <3> HIDE DEF aged
    <3> QED BY <2>2, <3>1, <3>2, <3>3, <3>4 DEF BR!BRow
  <2>8. /\ fullRead' \in BotFulls
        /\ fullRead'.at = fullRead.at /\ fullRead'.read = fullRead.read
        /\ fullRead'.beaten = fullRead.beaten
        /\ fullRead'.row = BR!Aged(fullRead.row, asks, boxes)
        /\ fullRead'.afterReq = (fullRead.afterReq /\ ~asks)
        /\ fullRead'.afterBox = (fullRead.afterBox /\ ~boxes)
    <3>1. fullRead.row \in BR!BRow
          BY <2>5 DEF BotFulls
    <3>2. BR!Aged(fullRead.row, asks, boxes) \in BR!BRow
          BY <2>4, <3>1
    <3> QED BY <2>1, <2>2, <2>5, <3>2 DEF BotFulls
  <2>9. /\ scopedRead' \in BotScopeds
        /\ scopedRead'.at = scopedRead.at /\ scopedRead'.of = scopedRead.of
        /\ scopedRead'.later = scopedRead.later
        /\ scopedRead'.row = BR!Aged(scopedRead.row, asks, boxes)
        /\ scopedRead'.afterReq = (scopedRead.afterReq /\ ~asks)
        /\ scopedRead'.afterBox = (scopedRead.afterBox /\ ~boxes)
    <3>1. scopedRead.row \in BR!BRow
          BY <2>5 DEF BotScopeds
    <3>2. BR!Aged(scopedRead.row, asks, boxes) \in BR!BRow
          BY <2>4, <3>1
    <3> QED BY <2>1, <2>2, <2>5, <3>2 DEF BotScopeds
  <2>10. /\ box' \in {"none", "on", "off"} /\ wanted' \in {"none", "on", "off"}
         /\ slipped' \in BOOLEAN /\ acks' \in {"none", "current", "stale"}
         /\ (box' # "none") => (bkind' = "renovate" /\ box' = wanted')
         BY <1>1, <2>1, <2>2, <2>3, <2>5
  <2>11. BR!TypeOK'
         BY <1>0, <1>1, <2>6, <2>7, <2>8, <2>9, <2>10
         DEF BR!TypeOK, BotReqs, BotFulls, BotScopeds
  <2>12. ReadsAreDated'
    <3>1. fullRead.row \in BR!BRow /\ scopedRead.row \in BR!BRow
          BY <2>5 DEF BotFulls, BotScopeds
    <3>2. /\ fullRead'.row.sinceReq = (fullRead.row.sinceReq /\ ~asks)
          /\ fullRead'.row.sinceBox = (fullRead.row.sinceBox /\ ~boxes)
          /\ scopedRead'.row.sinceReq = (scopedRead.row.sinceReq /\ ~asks)
          /\ scopedRead'.row.sinceBox = (scopedRead.row.sinceBox /\ ~boxes)
          BY <2>4, <2>8, <2>9, <3>1
    <3> QED BY <2>8, <2>9, <3>2 DEF BotInv, ReadsAreDated, InHand
  <2>13. OverrideWaits'
         BY <2>1, <2>2, <2>8 DEF BotInv, OverrideWaits
  <2>14. ScopedIsLater'
    <3>1. fullRead.afterBox \in BOOLEAN /\ scopedRead.afterBox \in BOOLEAN
          BY <2>5 DEF BotFulls, BotScopeds
    <3> QED BY <2>2, <2>8, <2>9, <3>1 DEF BotInv, ScopedIsLater
  <2>15. BR!TickStays'
    <3>1. boxes => brow'.box = (wanted' = "on")
          BY <2>1, <2>2, <2>7
    <3>2. brow.sinceBox \in BOOLEAN /\ slipped \in BOOLEAN
          BY <2>5 DEF BR!BRow
    <3>3. ~boxes => (wanted' = wanted /\ brow'.box = brow.box
                     /\ brow'.sinceBox = brow.sinceBox /\ slipped' = slipped)
          BY <2>1, <2>7, <3>2
    <3> QED BY <1>5, <3>1, <3>3 DEF BotInv, BR!TickStays
  <2>16. BR!RequestIsShown'
         BY <2>7 DEF BR!RequestIsShown
  <2> QED BY <1>2, <1>3, <2>11, <2>12, <2>13, <2>14, <2>15, <2>16 DEF BotInv
<1> QED BY <1>4, <1>5

\* A full refresh up to its swap.
LEMMA FullKeepsBotInv ==
  ASSUME BotInv, BR!BeginFull \/ BR!FullAnswers \/ BR!FullApplies
  PROVE  /\ BotInv'
         /\ \/ NotSettled
            \/ /\ fullRead.at = "copied" /\ fullRead'.at = "applied"
               /\ ~fullRead.row.listed \/ fullRead.row.sinceReq \/ ~fullRead.read
<1>0. BR!TypeOK
      BY DEF BotInv
<1>1. fullRead \in BotFulls /\ scopedRead \in BotScopeds /\ brow \in BR!BRow /\ req \in BotReqs
      BY <1>0, BotTypes
<1>2. /\ fullRead.row \in BR!BRow /\ fullRead.afterReq \in BOOLEAN
      /\ fullRead.afterBox \in BOOLEAN /\ fullRead.read \in BOOLEAN
      BY <1>1 DEF BotFulls
<1>3. UNCHANGED <<bkind, truth, brow, box, acting, acks, wanted, slipped, askings>>
      BY DEF BR!BeginFull, BR!FullAnswers, BR!FullApplies, BR!counts
<1>4. BoxesAreRenovates' /\ BR!TickStays'
      BY <1>3 DEF BotInv, BoxesAreRenovates, BR!TickStays
<1>5. CASE BR!BeginFull
  <2>1. /\ fullRead' \in BotFulls /\ fullRead'.at = "asking" /\ fullRead'.afterBox
        /\ ~fullRead'.beaten /\ ~fullRead'.read
        BY <1>5, NoneTypes DEF BR!BeginFull, BotFulls, BR!NoFetch
  <2>2. /\ scopedRead' \in BotScopeds /\ UNCHANGED req
        /\ scopedRead'.at = scopedRead.at /\ scopedRead'.of = scopedRead.of
        /\ scopedRead'.row = scopedRead.row
        /\ scopedRead'.afterReq = scopedRead.afterReq /\ scopedRead'.afterBox = scopedRead.afterBox
        BY <1>1, <1>5 DEF BR!BeginFull, BotScopeds
  <2>3. fetches' \in 0..MaxFetches
    <3>1. fetches \in 0..MaxFetches /\ fetches < MaxFetches /\ fetches' = fetches + 1
          BY <1>0, <1>5, BotTypes DEF BR!BeginFull
    <3> QED BY <3>1, BotsAssumption
  <2>4. BR!TypeOK'
        BY <1>0, <1>3, <2>1, <2>2, <2>3 DEF BR!TypeOK, BotFulls, BotScopeds
  <2>5. ReadsAreDated'
        BY <2>1, <2>2 DEF BotInv, ReadsAreDated, InHand
  <2>6. OverrideWaits' /\ ScopedIsLater'
        BY <2>1 DEF OverrideWaits, ScopedIsLater
  <2>7. BR!RequestIsShown'
        BY <1>3, <2>2 DEF BotInv, BR!RequestIsShown
  <2> QED BY <1>4, <2>2, <2>4, <2>5, <2>6, <2>7 DEF BotInv, NotSettled
<1>6. CASE BR!FullAnswers
  <2>1. UNCHANGED <<req, scopedRead, fetches>>
        BY <1>6 DEF BR!FullAnswers, BR!counts
  <2>2. /\ BR!ReadRow(fullRead) \in BR!BRow
        /\ BR!ReadRow(fullRead).sinceReq = fullRead.afterReq
        /\ BR!ReadRow(fullRead).sinceBox = fullRead.afterBox
        BY <1>0, <1>2, ReadRowType
  <2>3. /\ fullRead.at = "asking"
        /\ fullRead' = [fullRead EXCEPT !.at = "copied", !.row = BR!ReadRow(fullRead), !.read = TRUE]
           \/ fullRead' = [fullRead EXCEPT !.at = "copied", !.row = brow]
        BY <1>6 DEF BR!FullAnswers
  <2>4. /\ fullRead' \in BotFulls /\ fullRead'.at = "copied"
        /\ fullRead'.beaten = fullRead.beaten /\ fullRead'.afterBox = fullRead.afterBox
        /\ fullRead'.afterReq = fullRead.afterReq
        BY <1>1, <2>2, <2>3 DEF BotFulls
  <2>5. BR!TypeOK'
        BY <1>0, <1>3, <2>1, <2>4 DEF BR!TypeOK, BotFulls
  <2>6. fullRead'.read => InHand(fullRead)'
        BY <1>1, <1>3, <2>2, <2>3 DEF BotInv, ReadsAreDated, InHand, BotFulls
  <2>7. ReadsAreDated'
        BY <2>1, <2>4, <2>6 DEF BotInv, ReadsAreDated, InHand
  <2>8. OverrideWaits' /\ ScopedIsLater'
        BY <1>3, <2>1, <2>3, <2>4 DEF BotInv, OverrideWaits, ScopedIsLater
  <2>9. BR!RequestIsShown'
        BY <1>3, <2>1 DEF BotInv, BR!RequestIsShown
  <2> QED BY <1>4, <2>1, <2>5, <2>7, <2>8, <2>9 DEF BotInv, NotSettled
<1>7. CASE BR!FullApplies
  <2>1. UNCHANGED <<scopedRead, fetches>> /\ fullRead.at = "copied"
        /\ req' = BR!Apply(req, fullRead.row, fullRead.afterReq, fullRead.read)
        BY <1>7 DEF BR!FullApplies, BR!counts
  <2>2. /\ fullRead' \in BotFulls /\ fullRead'.at = "applied"
        /\ fullRead'.beaten = fullRead.beaten /\ fullRead'.afterBox = fullRead.afterBox
        /\ fullRead'.afterReq = fullRead.afterReq /\ fullRead'.row = fullRead.row
        /\ fullRead'.read = fullRead.read
        BY <1>1, <1>7 DEF BR!FullApplies, BotFulls
  <2>3. /\ req' \in BotReqs /\ (req.phase = "none" => req'.phase = "none")
        /\ (req.phase = "queued" /\ req'.phase \in {"none", "rebasing"}
              => ~fullRead.row.listed \/ fullRead.afterReq)
        BY <1>0, <1>1, <1>2, <2>1, ApplyFacts
  <2>4. BR!TypeOK'
        BY <1>0, <1>3, <2>1, <2>2, <2>3 DEF BR!TypeOK, BotFulls, BotReqs
  <2>5. ReadsAreDated'
        BY <2>1, <2>2 DEF BotInv, ReadsAreDated, InHand
  <2>6. OverrideWaits' /\ ScopedIsLater'
        BY <1>3, <2>1, <2>2 DEF BotInv, OverrideWaits, ScopedIsLater
  <2>7. BR!RequestIsShown'
        BY <1>3, <2>3 DEF BotInv, BR!RequestIsShown
  <2>8. fullRead.read => fullRead.row.sinceReq = fullRead.afterReq
        BY <2>1 DEF BotInv, ReadsAreDated, InHand
  <2> QED BY <1>4, <2>1, <2>2, <2>3, <2>4, <2>5, <2>6, <2>7, <2>8 DEF BotInv, NotSettled
<1> QED BY <1>5, <1>6, <1>7

\* The swap: an override that a full refresh older than it meets is shown.
LEMMA SwapKeepsBotInv ==
  ASSUME BotInv, BR!SwapFull
  PROVE  BotInv' /\ NotSettled
<1>0. BR!TypeOK
      BY DEF BotInv
<1>1. fullRead \in BotFulls /\ scopedRead \in BotScopeds /\ brow \in BR!BRow /\ req \in BotReqs
      /\ box \in {"none", "on", "off"} /\ wanted \in {"none", "on", "off"} /\ slipped \in BOOLEAN
      /\ ((box # "none") => (bkind = "renovate" /\ box = wanted))
      BY <1>0, BotTypes
<1>2. /\ fullRead.row \in BR!BRow /\ fullRead.beaten \in BOOLEAN
      /\ fullRead.afterBox \in BOOLEAN /\ fullRead.read \in BOOLEAN
      BY <1>1 DEF BotFulls
<1>3. /\ UNCHANGED <<bkind, truth, req, scopedRead, acting, acks, fetches, askings, wanted>>
      /\ fullRead.at = "applied" /\ fullRead' = BR!NoFetch
      BY DEF BR!SwapFull, BR!counts
<1> DEFINE kept == IF fullRead.beaten THEN brow ELSE fullRead.row
           b == BR!Boxed(kept, fullRead.afterBox, fullRead.read, fullRead.read)
<1>4. /\ brow' = BR!Annotate(b.row, req) /\ box' = b.box
      /\ slipped' = IF fullRead.beaten THEN slipped
                    ELSE fullRead.row.listed /\ ~fullRead.read /\ wanted # "none"
                         /\ fullRead.row.box # (wanted = "on")
      BY DEF BR!SwapFull
<1>5. kept \in BR!BRow
      BY <1>1, <1>2
<1> HIDE DEF kept
<1>6. /\ b.row \in BR!BRow /\ b.row.listed = kept.listed /\ b.row.sinceBox = kept.sinceBox
      /\ b.box = box \/ b.box = "none"
      /\ b.row.box = kept.box \/ (box # "none" /\ b.row.box = (box = "on"))
      /\ box # "none" /\ ~fullRead.afterBox /\ fullRead.read /\ kept.listed
           => b.row.box = (box = "on")
      BY <1>0, <1>2, <1>5, BoxedFacts
<1> HIDE DEF b
<1>7. /\ brow' \in BR!BRow /\ brow'.shown = req.phase /\ brow'.listed = kept.listed
      /\ brow'.box = b.row.box /\ brow'.sinceBox = kept.sinceBox
      BY <1>1, <1>4, <1>6, AnnotateFacts
<1>8. BR!NoFetch \in BotFulls /\ BR!NoFetch.at = "idle" /\ ~BR!NoFetch.beaten
      BY NoneTypes DEF BR!NoFetch
<1>9. slipped' \in BOOLEAN
      BY <1>1, <1>2, <1>4 DEF BR!BRow
<1>10. BR!TypeOK'
       BY <1>0, <1>1, <1>3, <1>4, <1>6, <1>7, <1>8, <1>9 DEF BR!TypeOK, BotFulls
<1>11. BR!TickStays'
  <2>1. SUFFICES ASSUME kept.listed, wanted # "none", ~kept.sinceBox, ~slipped'
                 PROVE  b.row.box = (wanted = "on")
        BY <1>3, <1>7 DEF BR!TickStays
  <2>2. box # "none" /\ b.row.box = (box = "on") => b.row.box = (wanted = "on")
        BY <1>1
  <2>3. CASE fullRead.beaten
        BY <1>4, <1>6, <2>1, <2>2, <2>3 DEF kept, BotInv, BR!TickStays
  <2>4. CASE ~fullRead.beaten /\ fullRead.read
        BY <1>3, <1>6, <2>1, <2>2, <2>4
        DEF kept, BotInv, ReadsAreDated, InHand, OverrideWaits
  <2>5. CASE ~fullRead.beaten /\ ~fullRead.read
        BY <1>4, <1>6, <2>1, <2>2, <2>5 DEF kept
  <2> QED BY <1>2, <2>3, <2>4, <2>5
<1>12. BR!RequestIsShown'
       BY <1>3, <1>7 DEF BR!RequestIsShown
<1>13. ReadsAreDated' /\ OverrideWaits' /\ ScopedIsLater' /\ BoxesAreRenovates'
       BY <1>3, <1>8 DEF BotInv, ReadsAreDated, InHand, OverrideWaits, ScopedIsLater, BoxesAreRenovates
<1> QED BY <1>3, <1>10, <1>11, <1>12, <1>13 DEF BotInv, NotSettled

\* A scoped refresh or a CI poll up to its merge.
LEMMA ScopedKeepsBotInv ==
  ASSUME BotInv, BR!BeginScoped \/ BR!ScopedAnswers
  PROVE  BotInv' /\ NotSettled
<1>0. BR!TypeOK
      BY DEF BotInv
<1>1. fullRead \in BotFulls /\ scopedRead \in BotScopeds
      BY <1>0, BotTypes
<1>2. UNCHANGED <<bkind, truth, brow, req, box, fullRead, acting, acks, wanted, slipped, askings>>
      BY DEF BR!BeginScoped, BR!ScopedAnswers, BR!counts
<1>3. BoxesAreRenovates' /\ BR!TickStays' /\ BR!RequestIsShown' /\ OverrideWaits'
      BY <1>2 DEF BotInv, BoxesAreRenovates, BR!TickStays, BR!RequestIsShown, OverrideWaits
<1>4. CASE BR!BeginScoped
  <2>1. PICK of \in {"own", "other", "poll"} :
          scopedRead' = [BR!NoScoped EXCEPT !.at = IF of = "own" THEN "asking" ELSE "answered",
                                            !.of = of, !.afterReq = TRUE, !.afterBox = TRUE,
                                            !.later = fullRead.at # "idle"]
        BY <1>4 DEF BR!BeginScoped
  <2>2. /\ scopedRead' \in BotScopeds
        /\ scopedRead'.at = "answered" => scopedRead'.of # "own"
        /\ scopedRead'.later = (fullRead.at # "idle")
        BY <2>1, NoneTypes DEF BotScopeds, BR!NoScoped
  <2>3. fetches' \in 0..MaxFetches
    <3>1. fetches \in 0..MaxFetches /\ fetches < MaxFetches /\ fetches' = fetches + 1
          BY <1>0, <1>4, BotTypes DEF BR!BeginScoped
    <3> QED BY <3>1, BotsAssumption
  <2>4. BR!TypeOK'
        BY <1>0, <1>2, <2>2, <2>3 DEF BR!TypeOK, BotScopeds
  <2>5. ReadsAreDated'
        BY <1>2, <2>2 DEF BotInv, ReadsAreDated, InHand
  <2>6. ScopedIsLater'
        BY <1>2, <2>2 DEF BotInv, ScopedIsLater
  <2> QED BY <1>2, <1>3, <2>4, <2>5, <2>6 DEF BotInv, NotSettled
<1>5. CASE BR!ScopedAnswers
  <2>1. scopedRead.afterReq \in BOOLEAN /\ scopedRead.afterBox \in BOOLEAN
        BY <1>1 DEF BotScopeds
  <2>2. /\ BR!ReadRow(scopedRead) \in BR!BRow
        /\ BR!ReadRow(scopedRead).sinceReq = scopedRead.afterReq
        /\ BR!ReadRow(scopedRead).sinceBox = scopedRead.afterBox
        BY <1>0, <2>1, ReadRowType
  <2>3. /\ scopedRead' = [scopedRead EXCEPT !.at = "answered", !.row = BR!ReadRow(scopedRead)]
        /\ scopedRead.at = "asking" /\ UNCHANGED fetches
        BY <1>5 DEF BR!ScopedAnswers, BR!counts
  <2>4. /\ scopedRead' \in BotScopeds /\ scopedRead'.row = BR!ReadRow(scopedRead)
        /\ scopedRead'.afterReq = scopedRead.afterReq /\ scopedRead'.afterBox = scopedRead.afterBox
        /\ scopedRead'.later = scopedRead.later
        BY <1>1, <2>2, <2>3 DEF BotScopeds
  <2>5. BR!TypeOK'
        BY <1>0, <1>2, <2>3, <2>4 DEF BR!TypeOK, BotScopeds
  <2>6. ReadsAreDated'
        BY <1>2, <2>2, <2>4 DEF BotInv, ReadsAreDated, InHand
  <2>7. ScopedIsLater'
        BY <1>2, <2>3, <2>4 DEF BotInv, ScopedIsLater
  <2> QED BY <1>2, <1>3, <2>5, <2>6, <2>7 DEF BotInv, NotSettled
<1> QED BY <1>4, <1>5

\* The merge: it drops an override only for a row it has read since, and then a
\* full refresh older than the tick knows that it is beaten.
LEMMA MergeKeepsBotInv ==
  ASSUME BotInv, BR!MergeScoped
  PROVE  /\ BotInv'
         /\ \/ NotSettled
            \/ /\ scopedRead.at = "answered" /\ scopedRead'.at = "idle"
               /\ ~brow'.listed \/ brow'.sinceReq \/ scopedRead.of # "own"
<1>0. BR!TypeOK
      BY DEF BotInv
<1>1. fullRead \in BotFulls /\ scopedRead \in BotScopeds /\ brow \in BR!BRow /\ req \in BotReqs
      /\ box \in {"none", "on", "off"} /\ wanted \in {"none", "on", "off"} /\ slipped \in BOOLEAN
      /\ ((box # "none") => (bkind = "renovate" /\ box = wanted))
      BY <1>0, BotTypes
<1>2. /\ scopedRead.row \in BR!BRow /\ scopedRead.afterReq \in BOOLEAN
      /\ scopedRead.afterBox \in BOOLEAN /\ scopedRead.later \in BOOLEAN
      BY <1>1 DEF BotScopeds
<1>3. /\ UNCHANGED <<bkind, truth, acting, acks, fetches, askings, wanted>>
      /\ scopedRead.at = "answered" /\ scopedRead' = BR!NoScoped
      BY DEF BR!MergeScoped, BR!counts
<1> DEFINE own == scopedRead.of = "own"
           covers == scopedRead.of # "other"
           row == IF own THEN scopedRead.row ELSE brow
           b == BR!Boxed(row, scopedRead.afterBox, covers, own)
           r == BR!Apply(req, b.row, scopedRead.afterReq, covers)
<1>4. /\ req' = r /\ box' = b.box /\ brow' = BR!Annotate(b.row, r)
      /\ slipped' = IF own THEN ~scopedRead.afterBox /\ box = "none" /\ wanted # "none" ELSE slipped
      /\ fullRead' = [fullRead EXCEPT !.beaten = IF scopedRead.of = "other" THEN @
                                                 ELSE scopedRead.later /\ fullRead.at # "idle"]
      BY DEF BR!MergeScoped
<1>5. row \in BR!BRow /\ own \in BOOLEAN /\ covers \in BOOLEAN /\ (own => covers)
      /\ (own => row = scopedRead.row) /\ (~own => row = brow)
      /\ (covers <=> scopedRead.of # "other")
      BY <1>1, <1>2
<1> HIDE DEF own, covers, row
<1>6. /\ b.row \in BR!BRow /\ b.row.listed = row.listed /\ b.row.sinceBox = row.sinceBox
      /\ b.row.sinceReq = row.sinceReq
      /\ b.box = box \/ (b.box = "none" /\ scopedRead.afterBox /\ covers)
      /\ b.row.box = row.box \/ (box # "none" /\ b.row.box = (box = "on"))
      /\ box # "none" /\ ~scopedRead.afterBox /\ own /\ row.listed
           => b.row.box = (box = "on")
      BY <1>0, <1>2, <1>5, BoxedFacts
<1> HIDE DEF b
<1>7. /\ r \in BotReqs /\ (req.phase = "queued" /\ r.phase \in {"none", "rebasing"}
                             => ~b.row.listed \/ scopedRead.afterReq)
      BY <1>0, <1>1, <1>2, <1>5, <1>6, ApplyFacts
<1> HIDE DEF r
<1>8. /\ brow' \in BR!BRow /\ brow'.shown = r.phase /\ brow'.listed = row.listed
      /\ brow'.box = b.row.box /\ brow'.sinceBox = row.sinceBox /\ brow'.sinceReq = row.sinceReq
      BY <1>4, <1>6, <1>7, AnnotateFacts
<1>9. BR!NoScoped \in BotScopeds /\ BR!NoScoped.at = "idle"
      BY NoneTypes DEF BR!NoScoped
<1>10. /\ fullRead' \in BotFulls /\ fullRead'.at = fullRead.at /\ fullRead'.read = fullRead.read
       /\ fullRead'.row = fullRead.row /\ fullRead'.afterReq = fullRead.afterReq
       /\ fullRead'.afterBox = fullRead.afterBox
       /\ covers => fullRead'.beaten = (scopedRead.later /\ fullRead.at # "idle")
       /\ ~covers => fullRead'.beaten = fullRead.beaten
       BY <1>1, <1>2, <1>4, <1>5 DEF BotFulls
<1>11. BR!TypeOK'
  <2>1. slipped' \in BOOLEAN
        BY <1>1, <1>4, <1>5
  <2>2. /\ box' \in {"none", "on", "off"} /\ req' \in BotReqs
        /\ (box' # "none") => (bkind' = "renovate" /\ box' = wanted')
        BY <1>1, <1>3, <1>4, <1>6, <1>7
  <2> QED BY <1>0, <1>3, <1>8, <1>9, <1>10, <2>1, <2>2
          DEF BR!TypeOK, BotFulls, BotScopeds, BotReqs
<1>12. own => row.sinceReq = scopedRead.afterReq /\ row.sinceBox = scopedRead.afterBox
       BY <1>3, <1>5 DEF own, BotInv, ReadsAreDated, InHand
<1>13. BR!TickStays'
  <2>1. SUFFICES ASSUME row.listed, wanted # "none", ~row.sinceBox, ~slipped'
                 PROVE  b.row.box = (wanted = "on")
        BY <1>3, <1>8 DEF BR!TickStays
  <2>2. box # "none" /\ b.row.box = (box = "on") => b.row.box = (wanted = "on")
        BY <1>1
  <2>3. CASE own
        BY <1>4, <1>6, <1>12, <2>1, <2>2, <2>3
  <2>4. CASE ~own
        BY <1>4, <1>5, <1>6, <2>1, <2>2, <2>4 DEF BotInv, BR!TickStays
  <2> QED BY <1>5, <2>3, <2>4
<1>14. BR!RequestIsShown'
       BY <1>4, <1>8 DEF BR!RequestIsShown
<1>15. OverrideWaits'
  <2>1. CASE box' = box /\ ~covers
        BY <1>3, <1>10, <2>1 DEF BotInv, OverrideWaits
  <2>2. CASE box' = box /\ covers
        BY <1>3, <1>10, <2>2 DEF BotInv, OverrideWaits, ScopedIsLater
  <2>3. CASE scopedRead.afterBox /\ covers
        BY <1>3, <1>10, <2>3 DEF BotInv, OverrideWaits, ScopedIsLater
  <2> QED BY <1>4, <1>5, <1>6, <2>1, <2>2, <2>3
<1>16. ReadsAreDated' /\ ScopedIsLater' /\ BoxesAreRenovates'
       BY <1>3, <1>9, <1>10 DEF BotInv, ReadsAreDated, InHand, ScopedIsLater, BoxesAreRenovates
<1>17. NotSettled \/ ~brow'.listed \/ brow'.sinceReq \/ scopedRead.of # "own"
       BY <1>4, <1>6, <1>7, <1>8, <1>12 DEF NotSettled, own
<1> QED BY <1>3, <1>9, <1>11, <1>13, <1>14, <1>15, <1>16, <1>17 DEF BotInv

runVars == <<part, vars, answerVars, forgejoVars, githubVars, botVars>>

\* The part of a run that is not the bots' leaves them alone.
LEMMA BotsRest ==
  ASSUME BotInv, UNCHANGED botVars
  PROVE  BotInv' /\ UNCHANGED BR!vars
<1>1. UNCHANGED <<bkind, truth, brow, req, box, fullRead, scopedRead, acting, acks, fetches,
                  askings, wanted, slipped>>
      BY DEF botVars
<1>2. BR!TypeOK'
      BY <1>1 DEF BotInv, BR!TypeOK
<1>3. UNCHANGED BR!vars
      BY <1>1 DEF BR!vars
<1> QED BY <1>1, <1>2, <1>3, BotFrame DEF BotInv

\* What OnlyAnUnreadRowSettlesEarly says of one step.
SettledByAReadRow ==
  (req.phase = "queued" /\ req'.phase \in {"none", "rebasing"} /\ acting' = acting)
    => \/ /\ fullRead.at = "copied" /\ fullRead'.at = "applied"
          /\ ~fullRead.row.listed \/ fullRead.row.sinceReq \/ ~fullRead.read
       \/ /\ scopedRead.at = "answered" /\ scopedRead'.at = "idle"
          /\ ~brow'.listed \/ brow'.sinceReq \/ scopedRead.of # "own"

\* Every step of the run keeps the invariant and settles a request rightly.
LEMMA BotStep ==
  ASSUME BotInv, [MCNext]_runVars
  PROVE  BotInv' /\ (SettledByAReadRow \/ UNCHANGED BR!vars)
<1>1. CASE BR!Next
  <2>1. CASE BR!TruthMoves \/ BR!DeadlinePasses \/ BR!AskForge \/ BR!CancelOnForge
        BY <2>1, ForgeKeepsBotInv DEF NotSettled, SettledByAReadRow
  <2>2. CASE BR!Record
        BY <2>2, RecordKeepsBotInv DEF NotSettled, SettledByAReadRow
  <2>3. CASE BR!LookUpAck \/ BR!RecordAck
        BY <2>3, AcksKeepBotInv DEF NotSettled, SettledByAReadRow
  <2>4. CASE BR!BeginFull \/ BR!FullAnswers \/ BR!FullApplies
        BY <2>4, FullKeepsBotInv DEF NotSettled, SettledByAReadRow
  <2>5. CASE BR!SwapFull
        BY <2>5, SwapKeepsBotInv DEF NotSettled, SettledByAReadRow
  <2>6. CASE BR!BeginScoped \/ BR!ScopedAnswers
        BY <2>6, ScopedKeepsBotInv DEF NotSettled, SettledByAReadRow
  <2>7. CASE BR!MergeScoped
        BY <2>7, MergeKeepsBotInv DEF NotSettled, SettledByAReadRow
  <2> QED BY <1>1, <2>1, <2>2, <2>3, <2>4, <2>5, <2>6, <2>7
          DEF BR!Next, BR!Asking, BR!Refresh
<1>2. CASE UNCHANGED botVars
      BY <1>2, BotsRest
<1> QED BY <1>1, <1>2 DEF MCNext, runVars

\* What a row says of a request and of its box holds whatever fetches, handlers
\* and deadlines interleave (bot_request.go, settleBoxOverrides).
THEOREM BotInvariant == MCSpec => []BotInv
<1>1. MCInit => BotInv
  <2>1. SUFFICES ASSUME MCInit PROVE BotInv
        OBVIOUS
  <2>2. /\ bkind \in {"dependabot", "renovate", "update"}
        /\ truth \in [open : {TRUE}, head : {0}, behind : {TRUE},
                      box : IF bkind = "renovate" THEN {"absent", "off"} ELSE {"absent"},
                      pending : {FALSE}]
        /\ brow = BR!NoBRow /\ req = BR!NoReq /\ box = "none"
        /\ fullRead = BR!NoFetch /\ scopedRead = BR!NoScoped
        /\ acting = "idle" /\ acks = "none" /\ wanted = "none" /\ slipped = FALSE
        /\ fetches = 0 /\ askings = 0
        BY <2>1 DEF MCInit, BR!Init
  <2>3. 0 \in 0..MaxPush /\ 0 \in 0..MaxFetches /\ 0 \in 0..MaxAsks
        BY BotsAssumption
  <2>4. truth \in BR!Truth
        BY <2>2, <2>3 DEF BR!Truth, BR!Boxes
  <2>5. BR!TypeOK
    <3>1. brow \in BR!BRow /\ req \in BotReqs /\ fullRead \in BotFulls /\ scopedRead \in BotScopeds
          BY <2>2, NoneTypes
    <3>2. fetches \in 0..MaxFetches /\ askings \in 0..MaxAsks
          BY <2>2, <2>3
    <3>3. /\ box \in {"none", "on", "off"} /\ wanted \in {"none", "on", "off"}
          /\ acting \in {"idle", "asked", "ticked", "already", "cleared"}
          /\ acks \in {"none", "current", "stale"} /\ slipped \in BOOLEAN
          /\ (box # "none") => (bkind = "renovate" /\ box = wanted)
          BY <2>2
    <3> QED BY <2>2, <2>4, <3>1, <3>2, <3>3, Zenon DEF BR!TypeOK, BotReqs, BotFulls, BotScopeds
  <2>6. BoxesAreRenovates /\ ReadsAreDated /\ OverrideWaits /\ ScopedIsLater
        BY <2>2 DEF BoxesAreRenovates, ReadsAreDated, OverrideWaits, ScopedIsLater,
                    BR!NoFetch, BR!NoScoped
  <2>7. BR!TickStays /\ BR!RequestIsShown
        BY <2>2 DEF BR!TickStays, BR!RequestIsShown, BR!NoBRow
  <2> QED BY <2>5, <2>6, <2>7 DEF BotInv
<1>2. BotInv /\ [MCNext]_runVars => BotInv'
      BY BotStep
<1> QED BY <1>1, <1>2, PTL DEF MCSpec, runVars

\* A tick is not shown undone by an older fetch, a request is on its row until
\* it ends, and ends early only on a row its fetch did not read.
THEOREM RequestsAreShownHolds == MCSpec => RequestsAreShown
<1>1. BotInv => (part = "bots" => BR!TypeOK /\ BR!TickStays /\ BR!RequestIsShown)
      BY DEF BotInv
<1>2. BotInv /\ [MCNext]_runVars => [SettledByAReadRow]_BR!vars
      BY BotStep
<1> QED BY <1>1, <1>2, BotInvariant, PTL
        DEF MCSpec, runVars, RequestsAreShown, BR!OnlyAnUnreadRowSettlesEarly, SettledByAReadRow
-----------------------------------------------------------------------------
(* The answer built from a board *)

Snaps == [rows : SUBSET Pulls, reachable : BOOLEAN, tracked : BOOLEAN]
Handlers == [at : {"idle", "load", "forget", "answer"}, snap : Snaps,
             taken : 0..MaxBoards, marks : SUBSET Pulls, ignored : BOOLEAN]

\* A handler that has taken the shown board's number has taken that board.
TakenIsTheBoard ==
  \A r \in Readers : /\ reader[r].taken <= boards
                     /\ (reader[r].at # "idle" /\ reader[r].taken = boards) => reader[r].snap = board

\* A pull request hidden while open is on a board that tracks its repository and
\* whose forge answered.
SteadyIsOnTheBoard ==
  \A p \in steady : /\ p \in openPulls
                    /\ board.reachable /\ board.tracked => p \in board.rows

ViewInv ==
  /\ BV!ViewTypeOK
  /\ TakenIsTheBoard /\ SteadyIsOnTheBoard
  /\ BV!OnlyAnOldBoardForgetsAHide

\* The types of BoardView, with its records named.
LEMMA ViewTypes ==
  ASSUME BV!ViewTypeOK
  PROVE  /\ openPulls \subseteq Pulls /\ drafts \subseteq Pulls
         /\ steady \subseteq Pulls /\ lost \subseteq Pulls
         /\ board \in Snaps /\ boards \in 0..MaxBoards
         /\ hidden \in [Pulls -> BV!Hides] /\ ignoredPRs \in BOOLEAN
         /\ reader \in [Readers -> Handlers]
BY DEF BV!ViewTypeOK, Snaps, Handlers

\* And back, for the next state.
LEMMA ViewTypesNext ==
  ASSUME openPulls' \subseteq Pulls, drafts' \subseteq Pulls,
         steady' \subseteq Pulls, lost' \subseteq Pulls,
         board' \in Snaps, boards' \in 0..MaxBoards,
         hidden' \in [Pulls -> BV!Hides], ignoredPRs' \in BOOLEAN,
         reader' \in [Readers -> Handlers]
  PROVE  BV!ViewTypeOK'
BY DEF BV!ViewTypeOK, Snaps, Handlers

\* No snapshot and no handler have the types.
LEMMA AwayType == BV!NoBoard \in Snaps /\ BV!Away \in Handlers
<1>1. 0 \in 0..MaxBoards
      BY ViewAssumption
<1>2. BV!NoBoard \in Snaps
      BY DEF BV!NoBoard, Snaps
<1> QED BY <1>1, <1>2 DEF BV!Away, Handlers

\* The forge, the refreshes and the user.
LEMMA WorldKeepsViewInv ==
  ASSUME ViewInv,
         \/ BV!ForgeTurns \/ BV!PublishBoard \/ BV!ToggleIgnore
         \/ \E p \in Pulls : BV!Hide(p) \/ BV!Unhide(p)
  PROVE  ViewInv'
<1>0. BV!ViewTypeOK
      BY DEF ViewInv
<1>1. /\ openPulls \subseteq Pulls /\ drafts \subseteq Pulls
      /\ steady \subseteq Pulls /\ lost \subseteq Pulls
      /\ board \in Snaps /\ boards \in 0..MaxBoards
      /\ hidden \in [Pulls -> BV!Hides] /\ ignoredPRs \in BOOLEAN
      /\ reader \in [Readers -> Handlers]
      BY <1>0, ViewTypes
<1>2. CASE BV!ForgeTurns
  <2>1. PICK p \in Pulls : /\ openPulls' = (openPulls \ {p}) \cup ({p} \ openPulls)
                           /\ steady' = steady \ {p}
        BY <1>2 DEF BV!ForgeTurns
  <2>2. UNCHANGED <<drafts, board, boards, hidden, ignoredPRs, reader, lost>>
        BY <1>2 DEF BV!ForgeTurns
  <2>3. openPulls' \subseteq Pulls /\ steady' \subseteq Pulls
        BY <1>1, <2>1
  <2>4. BV!ViewTypeOK'
        BY <1>1, <2>2, <2>3, ViewTypesNext
  <2>5. SteadyIsOnTheBoard'
        BY <2>1, <2>2 DEF ViewInv, SteadyIsOnTheBoard
  <2> QED BY <2>2, <2>4, <2>5 DEF ViewInv, TakenIsTheBoard, BV!OnlyAnOldBoardForgetsAHide
<1>3. CASE BV!PublishBoard
  <2>1. /\ boards < MaxBoards /\ boards' = boards + 1
        /\ UNCHANGED <<openPulls, drafts, hidden, ignoredPRs, reader, steady, lost>>
        /\ \/ board' = [rows |-> openPulls, reachable |-> TRUE, tracked |-> TRUE]
           \/ board' = [board EXCEPT !.reachable = FALSE]
           \/ board' = [rows |-> {}, reachable |-> TRUE, tracked |-> FALSE]
           \/ board' = BV!NoBoard
        BY <1>3 DEF BV!PublishBoard
  <2>2. board' \in Snaps
        /\ (board'.reachable /\ board'.tracked => board'.rows = openPulls)
    <3>1. openPulls \in SUBSET Pulls /\ {} \in SUBSET Pulls
          BY <1>1
    <3>2. CASE board' = [rows |-> openPulls, reachable |-> TRUE, tracked |-> TRUE]
          BY <3>1, <3>2 DEF Snaps
    <3>3. CASE board' = [board EXCEPT !.reachable = FALSE]
          BY <1>1, <3>3 DEF Snaps
    <3>4. CASE board' = [rows |-> {}, reachable |-> TRUE, tracked |-> FALSE]
          BY <3>1, <3>4 DEF Snaps
    <3>5. CASE board' = BV!NoBoard
          BY <3>5, AwayType DEF BV!NoBoard
    <3> QED BY <2>1, <3>2, <3>3, <3>4, <3>5
  <2>3. boards' \in 0..MaxBoards
        BY <1>1, <2>1, ViewAssumption
  <2>4. BV!ViewTypeOK'
        BY <1>1, <2>1, <2>2, <2>3, ViewTypesNext
  <2>5. TakenIsTheBoard'
    <3>1. ASSUME NEW r \in Readers PROVE reader[r].taken \in 0..MaxBoards /\ reader[r].taken <= boards
          BY <1>1 DEF Handlers, ViewInv, TakenIsTheBoard
    <3>2. ASSUME NEW r \in Readers PROVE reader[r].taken < boards + 1
          BY <1>1, <3>1, ViewAssumption
    <3> QED BY <1>1, <2>1, <3>1, <3>2, ViewAssumption DEF TakenIsTheBoard
  <2>6. SteadyIsOnTheBoard'
        BY <2>1, <2>2 DEF ViewInv, SteadyIsOnTheBoard
  <2> QED BY <2>1, <2>4, <2>5, <2>6 DEF ViewInv, BV!OnlyAnOldBoardForgetsAHide
<1>4. CASE BV!ToggleIgnore
  <2>1. /\ ignoredPRs' \in BOOLEAN
        /\ UNCHANGED <<openPulls, drafts, board, boards, hidden, reader, steady, lost>>
        BY <1>1, <1>4 DEF BV!ToggleIgnore
  <2>2. BV!ViewTypeOK'
        BY <1>1, <2>1, ViewTypesNext
  <2> QED BY <2>1, <2>2
          DEF ViewInv, TakenIsTheBoard, SteadyIsOnTheBoard, BV!OnlyAnOldBoardForgetsAHide
<1>5. ASSUME NEW p \in Pulls, BV!Hide(p) PROVE ViewInv'
  <2>1. /\ p \in board.rows /\ steady' = steady \cup ({p} \cap openPulls) /\ lost' = lost \ {p}
        /\ UNCHANGED <<openPulls, drafts, board, boards, ignoredPRs, reader>>
        BY <1>5 DEF BV!Hide
  <2>2. PICK h \in {"forever", "until"} : hidden' = [hidden EXCEPT ![p] = h]
        BY <1>5 DEF BV!Hide
  <2>3. hidden' \in [Pulls -> BV!Hides]
        BY <1>1, <2>2 DEF BV!Hides
  <2>4. steady' \subseteq Pulls /\ lost' \subseteq Pulls
        BY <1>1, <2>1
  <2>5. BV!ViewTypeOK'
        BY <1>1, <2>1, <2>3, <2>4, ViewTypesNext
  <2>6. SteadyIsOnTheBoard'
        BY <2>1 DEF ViewInv, SteadyIsOnTheBoard
  <2>7. BV!OnlyAnOldBoardForgetsAHide'
        BY <2>1 DEF ViewInv, BV!OnlyAnOldBoardForgetsAHide
  <2> QED BY <2>1, <2>5, <2>6, <2>7 DEF ViewInv, TakenIsTheBoard
<1>6. ASSUME NEW p \in Pulls, BV!Unhide(p) PROVE ViewInv'
  <2>1. /\ hidden' = [hidden EXCEPT ![p] = "no"] /\ steady' = steady \ {p}
        /\ UNCHANGED <<openPulls, drafts, board, boards, ignoredPRs, reader, lost>>
        BY <1>6 DEF BV!Unhide
  <2>2. hidden' \in [Pulls -> BV!Hides] /\ steady' \subseteq Pulls
        BY <1>1, <2>1 DEF BV!Hides
  <2>3. BV!ViewTypeOK'
        BY <1>1, <2>1, <2>2, ViewTypesNext
  <2> QED BY <2>1, <2>3
          DEF ViewInv, TakenIsTheBoard, SteadyIsOnTheBoard, BV!OnlyAnOldBoardForgetsAHide
<1> QED BY <1>2, <1>3, <1>4, <1>5, <1>6

\* A handler, from the snapshot to the answer.
LEMMA HandlerKeepsViewInv ==
  ASSUME ViewInv, NEW r \in Readers,
         BV!TakeSnapshot(r) \/ BV!LoadBoardSettings(r) \/ BV!ForgetClosedHides(r) \/ BV!Answer(r)
  PROVE  ViewInv'
<1>0. BV!ViewTypeOK
      BY DEF ViewInv
<1>1. /\ openPulls \subseteq Pulls /\ drafts \subseteq Pulls
      /\ steady \subseteq Pulls /\ lost \subseteq Pulls
      /\ board \in Snaps /\ boards \in 0..MaxBoards
      /\ hidden \in [Pulls -> BV!Hides] /\ ignoredPRs \in BOOLEAN
      /\ reader \in [Readers -> Handlers]
      BY <1>0, ViewTypes
<1>2. reader[r] \in Handlers
      BY <1>1
<1>3. CASE BV!TakeSnapshot(r)
  <2> DEFINE rd == [BV!Away EXCEPT !.at = "load", !.snap = board, !.taken = boards]
  <2>1. /\ reader' = [reader EXCEPT ![r] = rd]
        /\ UNCHANGED <<openPulls, drafts, board, boards, hidden, ignoredPRs, steady, lost>>
        BY <1>3 DEF BV!TakeSnapshot
  <2>2. rd \in Handlers /\ rd.taken = boards /\ rd.snap = board
        BY <1>1, AwayType DEF Handlers, BV!Away
  <2> HIDE DEF rd
  <2>3. reader' \in [Readers -> Handlers]
        BY <1>1, <2>1, <2>2
  <2>4. BV!ViewTypeOK'
        BY <1>1, <2>1, <2>3, ViewTypesNext
  <2>5. TakenIsTheBoard'
        BY <1>1, <2>1, <2>2, ViewAssumption DEF ViewInv, TakenIsTheBoard
  <2> QED BY <2>1, <2>4, <2>5 DEF ViewInv, SteadyIsOnTheBoard, BV!OnlyAnOldBoardForgetsAHide
<1>4. CASE BV!LoadBoardSettings(r)
  <2>1. PICK over \in SUBSET {p \in Pulls : hidden[p] = "until"}, readable \in BOOLEAN,
             ign \in {ignoredPRs, FALSE} :
          LET left == {p \in Pulls \ over : hidden[p] # "no"}
          IN /\ hidden' = [p \in Pulls |-> IF p \in over THEN "no" ELSE hidden[p]]
             /\ steady' = steady \ over
             /\ reader' = [reader EXCEPT ![r] = [@ EXCEPT !.at = "forget", !.ignored = ign,
                                                          !.marks = IF readable THEN left ELSE {}]]
        BY <1>4, Zenon DEF BV!LoadBoardSettings
  <2>2. UNCHANGED <<openPulls, drafts, board, boards, ignoredPRs, lost>>
        /\ reader[r].at = "load"
        BY <1>4 DEF BV!LoadBoardSettings
  <2> DEFINE marks == IF readable THEN {p \in Pulls \ over : hidden[p] # "no"} ELSE {}
             rd == [reader[r] EXCEPT !.at = "forget", !.ignored = ign, !.marks = marks]
  <2>3. marks \subseteq Pulls /\ ign \in BOOLEAN
        BY <1>1
  <2>4. reader' = [reader EXCEPT ![r] = rd]
        BY <2>1
  <2> HIDE DEF marks
  <2>5. rd \in Handlers /\ rd.taken = reader[r].taken /\ rd.snap = reader[r].snap
        BY <1>2, <2>3 DEF Handlers
  <2> HIDE DEF rd
  <2>6. reader' \in [Readers -> Handlers]
        BY <1>1, <2>4, <2>5
  <2>7. hidden' \in [Pulls -> BV!Hides] /\ steady' \subseteq Pulls
        BY <1>1, <2>1 DEF BV!Hides
  <2>8. BV!ViewTypeOK'
        BY <1>1, <2>2, <2>6, <2>7, ViewTypesNext
  <2>9. TakenIsTheBoard'
        BY <1>1, <2>2, <2>4, <2>5 DEF ViewInv, TakenIsTheBoard
  <2> QED BY <2>1, <2>2, <2>8, <2>9 DEF ViewInv, SteadyIsOnTheBoard, BV!OnlyAnOldBoardForgetsAHide
<1>5. CASE BV!ForgetClosedHides(r)
  <2> DEFINE gone == {p \in reader[r].marks : BV!Closed(reader[r].snap, p)}
  <2>1. PICK deleted \in SUBSET gone :
          /\ hidden' = [p \in Pulls |-> IF p \in deleted THEN "no" ELSE hidden[p]]
          /\ lost' = lost \cup {p \in deleted \cap steady : reader[r].taken = boards}
          /\ steady' = steady \ deleted
          /\ reader' = [reader EXCEPT ![r].at = "answer",
                                      ![r].marks = IF deleted = gone THEN @ \ gone ELSE @]
        BY <1>5 DEF BV!ForgetClosedHides
  <2>2. UNCHANGED <<openPulls, drafts, board, boards, ignoredPRs>> /\ reader[r].at = "forget"
        BY <1>5 DEF BV!ForgetClosedHides
  <2> DEFINE marks == IF deleted = gone THEN reader[r].marks \ gone ELSE reader[r].marks
             rd == [reader[r] EXCEPT !.at = "answer", !.marks = marks]
  <2>3. marks \subseteq Pulls
        BY <1>2 DEF Handlers
  <2>4. reader' = [reader EXCEPT ![r] = rd]
        BY <1>1, <2>1
  <2> HIDE DEF marks
  <2>5. rd \in Handlers /\ rd.taken = reader[r].taken /\ rd.snap = reader[r].snap
        BY <1>2, <2>3 DEF Handlers
  <2> HIDE DEF rd
  <2>6. reader' \in [Readers -> Handlers]
        BY <1>1, <2>4, <2>5
  <2>7. hidden' \in [Pulls -> BV!Hides] /\ steady' \subseteq Pulls
        BY <1>1, <2>1 DEF BV!Hides
  <2>8. \A p \in deleted \cap steady : reader[r].taken # boards
    <3>1. SUFFICES ASSUME NEW p \in deleted, p \in steady, reader[r].taken = boards PROVE FALSE
          OBVIOUS
    <3>2. p \notin board.rows /\ board.reachable /\ board.tracked
          BY <2>2, <3>1 DEF ViewInv, TakenIsTheBoard, BV!Closed
    <3> QED BY <3>1, <3>2 DEF ViewInv, SteadyIsOnTheBoard
  <2>9. lost' = {}
        BY <2>1, <2>8 DEF ViewInv, BV!OnlyAnOldBoardForgetsAHide
  <2>10. BV!ViewTypeOK'
         BY <1>1, <2>2, <2>6, <2>7, <2>9, ViewTypesNext
  <2>11. TakenIsTheBoard'
         BY <1>1, <2>2, <2>4, <2>5 DEF ViewInv, TakenIsTheBoard
  <2> QED BY <2>1, <2>2, <2>9, <2>10, <2>11
          DEF ViewInv, SteadyIsOnTheBoard, BV!OnlyAnOldBoardForgetsAHide
<1>6. CASE BV!Answer(r)
  <2>1. /\ reader' = [reader EXCEPT ![r] = BV!Away]
        /\ UNCHANGED <<openPulls, drafts, board, boards, hidden, ignoredPRs, steady, lost>>
        BY <1>6 DEF BV!Answer
  <2>2. reader' \in [Readers -> Handlers]
        BY <1>1, <2>1, AwayType
  <2>3. BV!ViewTypeOK'
        BY <1>1, <2>1, <2>2, ViewTypesNext
  <2>4. BV!Away.at = "idle" /\ BV!Away.taken = 0
        BY DEF BV!Away
  <2>5. TakenIsTheBoard'
        BY <1>1, <2>1, <2>4, ViewAssumption DEF ViewInv, TakenIsTheBoard
  <2> QED BY <2>1, <2>3, <2>5 DEF ViewInv, SteadyIsOnTheBoard, BV!OnlyAnOldBoardForgetsAHide
<1> QED BY <1>3, <1>4, <1>5, <1>6

\* An instance's Cardinality is Cardinality.
LEMMA CardinalityOfInstances ==
  ASSUME NEW S
  PROVE  /\ BV!Cardinality(S) = Cardinality(S)
         /\ RC!Cardinality(S) = Cardinality(S)
         /\ FC!Cardinality(S) = Cardinality(S)
<1>1. BV!Cardinality(S) = Cardinality(S)
      BY Zenon DEF BV!Cardinality, Cardinality
<1>2. RC!Cardinality(S) = Cardinality(S)
      BY Zenon DEF RC!Cardinality, Cardinality
<1>3. FC!Cardinality(S) = Cardinality(S)
      BY Zenon DEF FC!Cardinality, Cardinality
<1> QED BY <1>1, <1>2, <1>3

\* An answer's rows and counts, whatever its handler has read.
LEMMA CountsOfAnAnswer ==
  ASSUME BV!ViewTypeOK
  PROVE  BV!CountsAgree
<1> SUFFICES ASSUME NEW r \in Readers
    PROVE  /\ \A d, h \in BOOLEAN :
                BV!Cardinality(BV!Counted(BV!ShownRows(reader[r], d, h), reader[r].marks))
                  = BV!Cardinality(BV!Counted(BV!ShownRows(reader[r], FALSE, FALSE), reader[r].marks))
           /\ ~reader[r].ignored => \A d \in BOOLEAN :
                BV!Cardinality(BV!ShownRows(reader[r], d, FALSE))
                  + BV!Cardinality(BV!HiddenDrafts(reader[r], d))
                  + BV!Cardinality(BV!HiddenPullRequests(reader[r])) = BV!Cardinality(reader[r].snap.rows)
    BY Zenon DEF BV!CountsAgree
<1> DEFINE rd == reader[r]
<1>1. rd.snap.rows \subseteq Pulls
  <2>1. rd \in Handlers
        BY ViewTypes
  <2>2. rd.snap \in Snaps
        BY <2>1 DEF Handlers
  <2> QED BY <2>2 DEF Snaps
<1> HIDE DEF rd
<1>2. ASSUME NEW d \in BOOLEAN, NEW h \in BOOLEAN
      PROVE  BV!Counted(BV!ShownRows(rd, d, h), rd.marks)
               = BV!Counted(BV!ShownRows(rd, FALSE, FALSE), rd.marks)
      BY DEF BV!Counted, BV!ShownRows
<1>3. ASSUME ~rd.ignored, NEW d \in BOOLEAN
      PROVE  BV!Cardinality(BV!ShownRows(rd, d, FALSE)) + BV!Cardinality(BV!HiddenDrafts(rd, d))
               + BV!Cardinality(BV!HiddenPullRequests(rd)) = BV!Cardinality(rd.snap.rows)
  <2> DEFINE A == BV!ShownRows(rd, d, FALSE)
             B == BV!HiddenDrafts(rd, d)
             C == BV!HiddenPullRequests(rd)
             R == rd.snap.rows
  <2>1. IsFiniteSet(R)
        BY <1>1, ViewAssumption, FS_Subset
  <2>2. /\ A \in SUBSET R /\ B \in SUBSET R /\ C \in SUBSET R
        /\ A \cap B = {} /\ (A \cup B) \cap C = {}
        BY DEF BV!ShownRows, BV!HiddenDrafts, BV!HiddenPullRequests
  <2>3. (A \cup B) \cup C = R
        BY <1>3 DEF BV!ShownRows, BV!HiddenDrafts, BV!HiddenPullRequests
  <2> HIDE DEF A, B, C, R
  <2>4. IsFiniteSet(A) /\ IsFiniteSet(B) /\ IsFiniteSet(C)
        BY <2>1, <2>2, FS_Subset
  <2>5. /\ IsFiniteSet(A \cup B)
        /\ Cardinality(A \cup B) = Cardinality(A) + Cardinality(B) - Cardinality(A \cap B)
        BY <2>4, FS_Union
  <2>6. Cardinality((A \cup B) \cup C)
          = Cardinality(A \cup B) + Cardinality(C) - Cardinality((A \cup B) \cap C)
        BY <2>4, <2>5, FS_Union
  <2>7. Cardinality(A) \in Nat /\ Cardinality(B) \in Nat /\ Cardinality(C) \in Nat
        BY <2>4, FS_CardinalityType
  <2>8. Cardinality({}) = 0
        BY FS_EmptySet
  <2>9. /\ Cardinality(A \cap B) = 0 /\ Cardinality((A \cup B) \cap C) = 0
        /\ Cardinality((A \cup B) \cup C) = Cardinality(R)
        BY <2>2, <2>3, <2>8, Zenon
  <2>10. Cardinality(A) + Cardinality(B) + Cardinality(C) = Cardinality(R)
         BY <2>5, <2>6, <2>7, <2>9
  <2>11. BV!Cardinality(A) + BV!Cardinality(B) + BV!Cardinality(C) = BV!Cardinality(R)
         BY <2>10, CardinalityOfInstances
  <2> QED BY <2>11 DEF A, B, C, R
<1> QED BY <1>2, <1>3 DEF rd

\* Every step of the run keeps the answers' invariant.
LEMMA ViewStep ==
  ASSUME ViewInv, [MCNext]_runVars
  PROVE  ViewInv'
<1>1. CASE BV!ViewNext
      BY <1>1, WorldKeepsViewInv, HandlerKeepsViewInv DEF BV!ViewNext
<1>2. CASE UNCHANGED answerVars
  <2>1. UNCHANGED <<openPulls, drafts, board, boards, hidden, ignoredPRs, reader, steady, lost>>
        BY <1>2 DEF answerVars
  <2>2. BV!ViewTypeOK'
        BY <2>1 DEF ViewInv, BV!ViewTypeOK
  <2> QED BY <2>1, <2>2
          DEF ViewInv, TakenIsTheBoard, SteadyIsOnTheBoard, BV!OnlyAnOldBoardForgetsAHide
<1> QED BY <1>1, <1>2 DEF MCNext, runVars

\* A handler forgets a hide without cause only from a board that was replaced
\* while it answered, for any pull requests, handlers and boards.
THEOREM ViewInvariant == MCSpec => []ViewInv
<1>1. MCInit => ViewInv
  <2>1. SUFFICES ASSUME MCInit PROVE ViewInv
        OBVIOUS
  <2>2. /\ openPulls = Pulls /\ drafts \subseteq Pulls
        /\ board = BV!NoBoard /\ boards = 0
        /\ hidden = [p \in Pulls |-> "no"] /\ ignoredPRs = FALSE
        /\ reader = [r \in Readers |-> BV!Away] /\ steady = {} /\ lost = {}
        BY <2>1 DEF MCInit, BV!ViewInit
  <2>3. 0 \in 0..MaxBoards
        BY ViewAssumption
  <2>4. hidden \in [Pulls -> BV!Hides] /\ reader \in [Readers -> Handlers] /\ board \in Snaps
        BY <2>2, AwayType DEF BV!Hides
  <2>5. BV!ViewTypeOK
        BY <2>2, <2>3, <2>4 DEF BV!ViewTypeOK, Snaps, Handlers
  <2>6. BV!Away.at = "idle" /\ BV!Away.taken = 0
        BY DEF BV!Away
  <2> QED BY <2>2, <2>5, <2>6
          DEF ViewInv, TakenIsTheBoard, SteadyIsOnTheBoard, BV!OnlyAnOldBoardForgetsAHide
<1>2. ViewInv /\ [MCNext]_runVars => ViewInv'
      BY ViewStep
<1> QED BY <1>1, <1>2, PTL DEF MCSpec, runVars

\* A hide holds while its pull request is open, and the navigation counts the
\* rows the answer has (forgetClosedHides, buildNavCounts).
THEOREM HidesAndCountsHoldHolds == MCSpec => []HidesAndCountsHold
<1>1. ViewInv => HidesAndCountsHold
      BY CountsOfAnAnswer DEF ViewInv, HidesAndCountsHold
<1> QED BY <1>1, ViewInvariant, PTL
-----------------------------------------------------------------------------
(* The colour of a GitHub row *)

\* A row's word and counts.
RowAgrees(row) ==
  /\ row.ci = "pending" => row.counts.failed = 0
  /\ row.ci = "success" => row.counts.failed = 0 /\ row.counts.waiting = 0
  /\ row.ci = "failure" => row.counts.failed > 0 \/ row.awaiting

CheckRows == {row \in [ci : {"none", "success", "failure", "pending"},
                       counts : [passed : Nat, waiting : Nat, failed : Nat],
                       awaiting : BOOLEAN] : RowAgrees(row)}
OpenLooks == [at : {"names", "reported", "held"}, row : CheckRows, sha : 0..MaxHeads, only : BOOLEAN]
Looks == {RC!Rest} \cup OpenLooks
ContextAnswers == [names : SUBSET RC!Contexts, answered : BOOLEAN, age : Nat]
HeldAnswers == [held : BOOLEAN, age : Nat]

RequiredTypes ==
  /\ headSha \in 0..MaxHeads /\ runOf \in [RC!Contexts -> RC!RunStates]
  /\ heldRuns \in BOOLEAN /\ mayRead \in BOOLEAN /\ review \in BOOLEAN
  /\ protects \subseteq RC!Contexts /\ ruled \subseteq RC!Contexts
  /\ complete \subseteq 0..headSha
  /\ contexts \in {RC!NoAnswer} \cup ContextAnswers
  /\ heldBy \in {RC!NoAnswer} \cup HeldAnswers
  /\ look \in Looks /\ shownRow \in CheckRows
  /\ missing \in BOOLEAN /\ changed \in BOOLEAN
  /\ excuse \subseteq {"failed read", "stale rules", "review", "complete"}

\* Only a green row is looked into, and the verdict has contexts to go by.
LookIsAtGreen ==
  /\ look.at # "idle" => look.row.ci = "success"
  /\ look.at = "reported" => contexts \in ContextAnswers

\* A commit found complete is, until the rules or the runs change.
CompleteIsComplete == (headSha \in complete /\ ~changed) => RC!Unreported = {}

\* What was missing all along is missing now.
MissingIsUnreported == missing => RC!Unreported # {}

RequiredInv ==
  /\ RequiredTypes /\ LookIsAtGreen
  /\ CompleteIsComplete /\ MissingIsUnreported
  /\ RC!GreenHasReported

\* How many runs are in a state.
LEMMA InStateFacts ==
  ASSUME NEW W
  PROVE  /\ RC!InState(W) \in Nat
         /\ RC!InState(W) = 0 <=> \A c \in RC!Contexts : runOf[c] \notin W
<1> DEFINE S == {c \in RC!Contexts : runOf[c] \in W}
<1>1. IsFiniteSet(RC!Contexts)
  <2>1. IsFiniteSet({}) /\ IsFiniteSet({} \cup {"a"}) /\ IsFiniteSet(({} \cup {"a"}) \cup {"b"})
        BY FS_EmptySet, FS_AddElement
  <2>2. RC!Contexts = ({} \cup {"a"}) \cup {"b"}
        BY DEF RC!Contexts
  <2> QED BY <2>1, <2>2
<1>2. S \in SUBSET RC!Contexts
      OBVIOUS
<1> HIDE DEF S
<1>3. IsFiniteSet(S)
      BY <1>1, <1>2, FS_Subset
<1>4. Cardinality(S) \in Nat /\ (Cardinality(S) = 0 <=> S = {})
      BY <1>3, FS_CardinalityType, FS_EmptySet
<1>5. RC!InState(W) = Cardinality(S)
      BY CardinalityOfInstances DEF RC!InState, S
<1> QED BY <1>4, <1>5 DEF S

\* mapPullRequest: the word of the rollup, and its counts.
LEMMA MappedType ==
  ASSUME RequiredTypes
  PROVE  RC!Mapped \in CheckRows
<1>1. RC!Contexts = {"a", "b"} /\ runOf["a"] \in RC!RunStates /\ runOf["b"] \in RC!RunStates
      BY DEF RequiredTypes, RC!Contexts
<1> DEFINE n(W) == RC!InState(W)
<1>2. /\ n({"success"}) \in Nat /\ n({"queued"}) \in Nat /\ n({"failure"}) \in Nat
      /\ n({"cancelled"}) \in Nat /\ n({"held"}) \in Nat /\ n({"failure", "held"}) \in Nat
      BY InStateFacts
<1>3. /\ n({"queued"}) = 0 <=> runOf["a"] # "queued" /\ runOf["b"] # "queued"
      /\ n({"failure"}) = 0 <=> runOf["a"] # "failure" /\ runOf["b"] # "failure"
      /\ n({"cancelled"}) = 0 <=> runOf["a"] # "cancelled" /\ runOf["b"] # "cancelled"
      /\ n({"held"}) = 0 <=> runOf["a"] # "held" /\ runOf["b"] # "held"
      /\ n({"failure", "held"}) = 0 <=> n({"failure"}) = 0 /\ n({"held"}) = 0
      BY <1>1, InStateFacts
<1>4. RC!Rollup \in {"NONE", "FAILURE", "PENDING", "SUCCESS"}
      /\ (RC!Rollup = "FAILURE" => n({"failure"}) # 0 \/ n({"cancelled"}) # 0 \/ n({"held"}) # 0)
      /\ (RC!Rollup = "PENDING" => n({"failure"}) = 0)
      /\ (RC!Rollup = "SUCCESS" => n({"failure"}) = 0 /\ n({"queued"}) = 0)
  <2>1. {runOf[c] : c \in RC!Contexts} = {runOf["a"], runOf["b"]}
        BY <1>1
  <2> HIDE DEF n
  <2> QED BY <1>1, <1>3, <2>1 DEF RC!Rollup, RC!RunStates
<1>5. RC!Ci \in {"none", "success", "failure", "pending"}
      /\ (RC!Ci = "success" => RC!Rollup = "SUCCESS")
      /\ (RC!Ci = "failure" => RC!Rollup = "FAILURE" /\ ~(n({"queued"}) > 0 /\ n({"failure", "held"}) = 0))
      /\ (RC!Ci = "pending" => RC!Rollup = "PENDING" \/ n({"failure", "held"}) = 0)
      BY <1>4 DEF RC!Ci, RC!SettleFailedRollup
<1>6. /\ RC!CheckCounts \in [passed : Nat, waiting : Nat, failed : Nat]
      /\ RC!CheckCounts.waiting = n({"queued"})
      /\ RC!CheckCounts.failed = IF n({"failure"}) = 0 /\ RC!Ci = "failure" THEN n({"cancelled"})
                                 ELSE n({"failure"})
      BY <1>2 DEF RC!CheckCounts
<1>7. RC!AwaitingApproval \in BOOLEAN /\ (RC!AwaitingApproval <=> n({"held"}) # 0)
      BY <1>2 DEF RC!AwaitingApproval
<1> HIDE DEF n
<1>8. RC!Row(RC!Ci, RC!CheckCounts, RC!AwaitingApproval) \in CheckRows
      BY <1>2, <1>3, <1>4, <1>5, <1>6, <1>7 DEF RC!Row, CheckRows, RowAgrees
<1>9. RC!Row("pending", RC!Zero, FALSE) \in CheckRows
      BY DEF RC!Row, RC!Zero, CheckRows, RowAgrees
<1> QED BY <1>8, <1>9 DEF RC!Mapped

\* GitHub: runs, pushes, held runs, rules.
LEMMA GitHubKeepsRequiredInv ==
  ASSUME RequiredInv, RC!GitHubMoves
  PROVE  RequiredInv'
<1>0. RequiredTypes
      BY DEF RequiredInv
<1>1. /\ UNCHANGED <<mayRead, review, complete, contexts, look, shownRow, excuse>>
      /\ heldBy' = IF headSha' # headSha THEN RC!NoAnswer ELSE heldBy
      /\ missing' = (missing /\ RC!Unreported' # {})
      BY DEF RC!GitHubMoves
<1>2. /\ headSha \in 0..MaxHeads /\ runOf \in [RC!Contexts -> RC!RunStates]
      /\ protects \subseteq RC!Contexts /\ ruled \subseteq RC!Contexts
      /\ heldRuns \in BOOLEAN /\ changed \in BOOLEAN /\ complete \subseteq 0..headSha
      BY <1>0 DEF RequiredTypes
<1> DEFINE typed == /\ headSha' \in 0..MaxHeads /\ runOf' \in [RC!Contexts -> RC!RunStates]
                    /\ protects' \subseteq RC!Contexts /\ ruled' \subseteq RC!Contexts
                    /\ heldRuns' \in BOOLEAN /\ changed' \in BOOLEAN
                    /\ complete \subseteq 0..headSha'
<1>3. ASSUME typed PROVE RequiredTypes'
      BY <1>0, <1>1, <1>3 DEF RequiredTypes
<1>4. typed /\ CompleteIsComplete'
  <2>1. ASSUME NEW c \in RC!Contexts,
               \/ runOf[c] = "absent" /\ runOf' = [runOf EXCEPT ![c] = "queued"] /\ UNCHANGED changed
               \/ /\ runOf[c] = "queued" /\ UNCHANGED changed
                  /\ \E end \in {"success", "failure", "cancelled", "held"} :
                        runOf' = [runOf EXCEPT ![c] = end]
               \/ /\ runOf[c] \in {"success", "failure", "cancelled", "held"}
                  /\ runOf' = [runOf EXCEPT ![c] = "queued"] /\ changed' = TRUE,
               UNCHANGED <<headSha, lagging, heldRuns, protects, ruled>>
        PROVE  typed /\ CompleteIsComplete'
    <3>1. runOf' \in [RC!Contexts -> RC!RunStates] /\ changed' \in BOOLEAN
          BY <1>2, <2>1 DEF RC!RunStates
    <3>2. CompleteIsComplete'
      <4>1. CASE changed'
            BY <4>1 DEF CompleteIsComplete
      <4>2. CASE ~changed' /\ ~changed
        <5>1. SUFFICES ASSUME RC!Unreported = {} PROVE RC!Unreported' = {}
              BY <1>1, <2>1, <4>2 DEF RequiredInv, CompleteIsComplete
        <5>2. ASSUME NEW d \in RC!Required PROVE runOf[d] \notin {"absent", "queued"}
              BY <5>1 DEF RC!Unreported
        <5>3. RC!Required' = RC!Required /\ RC!Required \subseteq RC!Contexts
              BY <1>2, <2>1 DEF RC!Required
        <5>4. ASSUME NEW d \in RC!Required PROVE runOf'[d] = runOf[d]
              BY <1>2, <2>1, <4>2, <5>2, <5>3
        <5> QED BY <5>2, <5>3, <5>4 DEF RC!Unreported
      <4> QED BY <1>2, <2>1, <3>1, <4>1, <4>2
    <3> QED BY <1>2, <2>1, <3>1, <3>2
  <2>2. ASSUME headSha < MaxHeads, headSha' = headSha + 1,
               runOf' = [c \in RC!Contexts |-> "absent"], heldRuns' \in BOOLEAN, changed' = FALSE,
               UNCHANGED <<protects, ruled>>
        PROVE  typed /\ CompleteIsComplete'
    <3>1. headSha' \in 0..MaxHeads /\ complete \subseteq 0..headSha' /\ headSha' \notin complete
          BY <1>2, <2>2, ChecksAssumption
    <3>2. runOf' \in [RC!Contexts -> RC!RunStates]
          BY <2>2 DEF RC!RunStates
    <3> QED BY <1>1, <1>2, <2>2, <3>1, <3>2 DEF CompleteIsComplete
  <2>3. ASSUME UNCHANGED <<headSha, runOf, protects, ruled, changed>>, heldRuns' \in BOOLEAN
        PROVE  typed /\ CompleteIsComplete'
    <3>1. RC!Unreported' = RC!Unreported
          BY <2>3 DEF RC!Unreported, RC!Required
    <3> QED BY <1>1, <1>2, <2>3, <3>1 DEF RequiredInv, CompleteIsComplete
  <2>4. ASSUME protects' \in {{}, {"a"}}, ruled' \in {{}, {"b"}}, changed' = TRUE,
               UNCHANGED <<headSha, runOf, lagging, heldRuns>>
        PROVE  typed /\ CompleteIsComplete'
    <3>1. protects' \subseteq RC!Contexts /\ ruled' \subseteq RC!Contexts
          BY <2>4 DEF RC!Contexts
    <3> QED BY <1>2, <2>4, <3>1 DEF CompleteIsComplete
  <2> HIDE DEF typed
  <2> QED BY <1>2, <2>1, <2>2, <2>3, <2>4 DEF RC!GitHubMoves
<1>5. LookIsAtGreen' /\ MissingIsUnreported'
      BY <1>1 DEF RequiredInv, LookIsAtGreen, MissingIsUnreported
<1>6. RC!GreenHasReported'
      BY <1>0, <1>1 DEF RequiredTypes, RequiredInv, RC!GreenHasReported
<1> QED BY <1>3, <1>4, <1>5, <1>6 DEF RequiredInv

\* Time, and the reading of the rules.
LEMMA RulesKeepRequiredInv ==
  ASSUME RequiredInv, RC!TickPasses \/ RC!RequiredContextNames
  PROVE  RequiredInv'
<1>0. RequiredTypes
      BY DEF RequiredInv
<1>1. /\ UNCHANGED <<headSha, runOf, lagging, heldRuns, protects, ruled, mayRead, review>>
      /\ UNCHANGED <<complete, shownRow, missing, excuse, changed>>
      BY DEF RC!TickPasses, RC!RequiredContextNames, RC!onGitHub
<1>2. /\ contexts \in {RC!NoAnswer} \cup ContextAnswers
      /\ heldBy \in {RC!NoAnswer} \cup HeldAnswers
      /\ look \in Looks /\ mayRead \in BOOLEAN
      /\ protects \subseteq RC!Contexts /\ ruled \subseteq RC!Contexts
      BY <1>0 DEF RequiredTypes
<1>3. RC!Unreported' = RC!Unreported
      BY <1>1 DEF RC!Unreported, RC!Required
<1>4. /\ contexts' \in {RC!NoAnswer} \cup ContextAnswers
      /\ heldBy' \in {RC!NoAnswer} \cup HeldAnswers
      /\ look' \in Looks /\ LookIsAtGreen' /\ (look' = RC!Rest => look = RC!Rest)
  <2>1. CASE RC!TickPasses
    <3>1. look = RC!Rest /\ look' = look /\ contexts' = RC!Older(contexts) /\ heldBy' = RC!Older(heldBy)
          BY <2>1 DEF RC!TickPasses
    <3>2. RC!Older(contexts) \in {RC!NoAnswer} \cup ContextAnswers
          BY <1>2 DEF RC!Older, ContextAnswers
    <3>3. RC!Older(heldBy) \in {RC!NoAnswer} \cup HeldAnswers
          BY <1>2 DEF RC!Older, HeldAnswers
    <3> QED BY <1>2, <3>1, <3>2, <3>3 DEF LookIsAtGreen, RC!Rest
  <2>2. CASE RC!RequiredContextNames
    <3>1. look.at = "names" /\ look' = [look EXCEPT !.at = "reported"] /\ UNCHANGED heldBy
          BY <2>2 DEF RC!RequiredContextNames
    <3>2. look.at # "idle" /\ look.row.ci = "success"
          BY <3>1 DEF RequiredInv, LookIsAtGreen
    <3>3. look \in OpenLooks
          BY <1>2, <3>2 DEF Looks, RC!Rest
    <3>4. look' \in OpenLooks
          /\ look'.row = look.row /\ look'.at = "reported"
          BY <3>1, <3>3 DEF OpenLooks
    <3>5. contexts' \in ContextAnswers
      <4>1. CASE RC!Cached /\ UNCHANGED contexts
            BY <1>2, <4>1 DEF RC!Cached
      <4>2. ASSUME NEW prot \in {mayRead, FALSE}, NEW rules \in BOOLEAN,
                   contexts' = [names |-> (IF prot THEN protects ELSE {})
                                            \cup (IF rules THEN ruled ELSE {}),
                                answered |-> prot /\ rules, age |-> 0]
            PROVE  contexts' \in ContextAnswers
            BY <1>2, <4>2 DEF ContextAnswers
      <4> QED BY <2>2, <4>1, <4>2 DEF RC!RequiredContextNames
    <3>6. look' # RC!Rest
          BY <3>4 DEF RC!Rest
    <3> QED BY <1>2, <3>1, <3>2, <3>4, <3>5, <3>6 DEF Looks, LookIsAtGreen
  <2> QED BY <2>1, <2>2
<1>5. RequiredTypes'
      BY <1>0, <1>1, <1>4 DEF RequiredTypes
<1>6. CompleteIsComplete' /\ MissingIsUnreported' /\ RC!GreenHasReported'
      BY <1>1, <1>3, <1>4
      DEF RequiredInv, CompleteIsComplete, MissingIsUnreported, RC!GreenHasReported
<1> QED BY <1>4, <1>5, <1>6 DEF RequiredInv

\* What a mapping leaves alone.
LEMMA MappingFrame ==
  ASSUME RequiredInv,
         UNCHANGED <<headSha, runOf, lagging, heldRuns, protects, ruled, mayRead, review>>,
         UNCHANGED contexts,
         heldBy' \in {RC!NoAnswer} \cup HeldAnswers,
         look' \in Looks, shownRow' \in CheckRows,
         missing' \in BOOLEAN, changed' \in BOOLEAN, complete' \subseteq 0..headSha,
         excuse' \subseteq {"failed read", "stale rules", "review", "complete"}
  PROVE  RequiredTypes' /\ RC!Unreported' = RC!Unreported
<1>1. RequiredTypes
      BY DEF RequiredInv
<1>2. RequiredTypes'
      BY <1>1 DEF RequiredTypes
<1>3. RC!Unreported' = RC!Unreported
      BY DEF RC!Unreported, RC!Required
<1> QED BY <1>2, <1>3

\* appendUnreported: a green row that is not looked into has reported, or its
\* commit was found complete.
LEMMA MapKeepsRequiredInv ==
  ASSUME RequiredInv, RC!MapPullRequest
  PROVE  RequiredInv'
<1>0. RequiredTypes
      BY DEF RequiredInv
<1>1. /\ UNCHANGED <<headSha, runOf, lagging, heldRuns, protects, ruled, mayRead, review>>
      /\ UNCHANGED <<complete, contexts, heldBy, changed>>
      /\ missing' = (RC!Unreported # {})
      /\ excuse' = IF headSha \in complete /\ changed THEN {"complete"} ELSE {}
      BY DEF RC!MapPullRequest, RC!onGitHub, RC!learnt
<1> DEFINE lk == [at |-> "names", row |-> RC!Mapped, sha |-> headSha, only |-> ~review]
<1>2. \/ /\ RC!Mapped.ci = "success" /\ look' = lk /\ UNCHANGED shownRow
      \/ /\ ~(RC!Mapped.ci = "success" /\ RC!Blocked /\ headSha \notin complete)
         /\ look' = RC!Rest /\ shownRow' = RC!Mapped
      BY DEF RC!MapPullRequest
<1>3. /\ headSha \in 0..MaxHeads /\ review \in BOOLEAN /\ shownRow \in CheckRows
      /\ changed \in BOOLEAN /\ complete \subseteq 0..headSha
      /\ heldBy \in {RC!NoAnswer} \cup HeldAnswers
      BY <1>0 DEF RequiredTypes
<1>4. RC!Mapped \in CheckRows
      BY <1>0, MappedType
<1>5. lk \in Looks /\ lk.at = "names" /\ lk.row = RC!Mapped /\ lk # RC!Rest
      BY <1>3, <1>4 DEF Looks, OpenLooks, RC!Rest
<1>6. RC!Rest \in Looks /\ RC!Rest.at = "idle"
      BY DEF Looks, RC!Rest
<1> HIDE DEF lk
<1>7. RequiredTypes' /\ RC!Unreported' = RC!Unreported
  <2>1. look' \in Looks /\ shownRow' \in CheckRows
        BY <1>2, <1>3, <1>4, <1>5, <1>6
  <2>2. excuse' \subseteq {"failed read", "stale rules", "review", "complete"}
        BY <1>1
  <2> QED BY <1>1, <1>3, <2>1, <2>2, MappingFrame
<1>8. LookIsAtGreen'
      BY <1>2, <1>5, <1>6 DEF LookIsAtGreen
<1>9. CompleteIsComplete' /\ MissingIsUnreported'
      BY <1>1, <1>7 DEF RequiredInv, CompleteIsComplete, MissingIsUnreported
<1>10. RC!GreenHasReported'
  <2>1. SUFFICES ASSUME look' = RC!Rest, shownRow'.ci = "success", RC!Unreported # {}
                 PROVE  excuse' # {}
        BY <1>1 DEF RC!GreenHasReported
  <2>2. RC!Mapped.ci = "success" /\ ~(RC!Blocked /\ headSha \notin complete)
        BY <1>2, <1>5, <2>1
  <2>3. RC!Blocked
        BY <2>1 DEF RC!Blocked, RC!Unreported
  <2>4. headSha \in complete /\ changed
        BY <2>1, <2>2, <2>3 DEF RequiredInv, CompleteIsComplete
  <2> QED BY <1>1, <2>4
<1> QED BY <1>7, <1>8, <1>9, <1>10 DEF RequiredInv

\* hasUnreportedRequired: a verdict that leaves the row green has a reason.
LEMMA VerdictKeepsRequiredInv ==
  ASSUME RequiredInv, RC!HasUnreportedRequired
  PROVE  RequiredInv'
<1>0. RequiredTypes
      BY DEF RequiredInv
<1>1. /\ UNCHANGED <<headSha, runOf, lagging, heldRuns, protects, ruled, mayRead, review>>
      /\ UNCHANGED <<contexts, heldBy, missing>> /\ look.at = "reported"
      BY DEF RC!HasUnreportedRequired, RC!onGitHub
<1>2. /\ headSha \in 0..MaxHeads /\ shownRow \in CheckRows /\ look \in Looks
      /\ changed \in BOOLEAN /\ complete \subseteq 0..headSha /\ missing \in BOOLEAN
      /\ heldBy \in {RC!NoAnswer} \cup HeldAnswers
      /\ excuse \subseteq {"failed read", "stale rules", "review", "complete"}
      /\ protects \subseteq RC!Contexts /\ ruled \subseteq RC!Contexts
      BY <1>0 DEF RequiredTypes
<1>3. look.row.ci = "success" /\ contexts \in ContextAnswers
      BY <1>1 DEF RequiredInv, LookIsAtGreen
<1>4. look \in OpenLooks /\ look.row \in CheckRows /\ look.sha \in 0..MaxHeads
  <2>1. look # RC!Rest
        BY <1>1 DEF RC!Rest
  <2> QED BY <1>2, <2>1 DEF Looks, OpenLooks
<1>5. contexts.answered \in BOOLEAN
      BY <1>3 DEF ContextAnswers
<1>6. RC!Rest \in Looks /\ RC!Rest.at = "idle"
      BY DEF Looks, RC!Rest
<1> DEFINE verdict == RC!Verdict(contexts.names, contexts.answered)
<1>7. CASE look' = RC!Rest /\ shownRow' = look.row /\ excuse' = excuse \cup {"failed read"}
           /\ UNCHANGED <<complete, changed>>
  <2>1. RequiredTypes' /\ RC!Unreported' = RC!Unreported
    <3>1. shownRow' \in CheckRows
          BY <1>4, <1>7
    <3>2. excuse' \subseteq {"failed read", "stale rules", "review", "complete"}
          BY <1>2, <1>7
    <3> QED BY <1>1, <1>2, <1>6, <1>7, <3>1, <3>2, MappingFrame
  <2>2. LookIsAtGreen' /\ RC!GreenHasReported'
        BY <1>6, <1>7 DEF LookIsAtGreen, RC!GreenHasReported
  <2>3. CompleteIsComplete' /\ MissingIsUnreported'
        BY <1>1, <1>7, <2>1 DEF RequiredInv, CompleteIsComplete, MissingIsUnreported
  <2> QED BY <2>1, <2>2, <2>3 DEF RequiredInv
<1>8. CASE /\ look.sha = headSha
           /\ complete' = IF verdict = "complete" THEN complete \cup {look.sha} ELSE complete
           /\ changed' = IF verdict = "complete" THEN contexts.names # RC!Required ELSE changed
           /\ IF verdict = "missing" \/ (verdict = "unreadable" /\ look.only)
              THEN look' = [look EXCEPT !.at = "held"] /\ UNCHANGED shownRow
              ELSE RC!Shows(look.row)
           /\ excuse' = excuse \cup (IF verdict = "unreadable" /\ ~look.only THEN {"review"} ELSE {})
                               \cup (IF contexts.answered /\ contexts.names # RC!Required
                                     THEN {"stale rules"} ELSE {})
  <2>1. verdict = "complete" /\ contexts.names = RC!Required => RC!Unreported = {}
        BY <1>2 DEF RC!Verdict, RC!Unreported, RC!Required, RC!Reported
  <2>2. verdict \in {"keep rollup", "unreadable", "missing", "complete"}
        /\ (verdict = "complete" => contexts.answered)
        /\ (verdict = "keep rollup" => contexts.answered /\ contexts.names = {})
        BY <1>5 DEF RC!Verdict
  <2> HIDE DEF verdict
  <2>3. \/ look' = [look EXCEPT !.at = "held"] /\ shownRow' = shownRow
        \/ /\ ~(verdict = "missing" \/ (verdict = "unreadable" /\ look.only))
           /\ look' = RC!Rest /\ shownRow' = look.row
        BY <1>8 DEF RC!Shows
  <2>4. LET held == [look EXCEPT !.at = "held"]
        IN held \in Looks /\ held.at = "held" /\ held.row = look.row /\ held # RC!Rest
        BY <1>4 DEF Looks, OpenLooks, RC!Rest
  <2>5. RequiredTypes' /\ RC!Unreported' = RC!Unreported
    <3>1. shownRow' \in CheckRows /\ look' \in Looks
          BY <1>2, <1>4, <1>6, <2>3, <2>4
    <3>2. excuse' \subseteq {"failed read", "stale rules", "review", "complete"}
          BY <1>2, <1>8
    <3>3. complete' \subseteq 0..headSha /\ changed' \in BOOLEAN
      <4>1. headSha \in 0..headSha
        <5>1. headSha \in 0..MaxHeads
              BY <1>2
        <5>2. headSha \in Nat /\ headSha <= headSha
              BY <5>1
        <5> QED BY <5>2
      <4> QED BY <1>2, <1>8, <4>1
    <3> QED BY <1>1, <1>2, <3>1, <3>2, <3>3, MappingFrame
  <2>6. LookIsAtGreen'
        BY <1>3, <1>6, <2>3, <2>4 DEF LookIsAtGreen
  <2>7. CompleteIsComplete' /\ MissingIsUnreported'
        BY <1>1, <1>8, <2>1, <2>5 DEF RequiredInv, CompleteIsComplete, MissingIsUnreported
  <2>8. RC!GreenHasReported'
    <3>1. SUFFICES ASSUME look' = RC!Rest, missing PROVE excuse' # {}
          BY <1>1 DEF RC!GreenHasReported
    <3>2. RC!Unreported # {}
          BY <3>1 DEF RequiredInv, MissingIsUnreported
    <3>3. ~(verdict = "missing" \/ (verdict = "unreadable" /\ look.only))
          BY <2>3, <2>4, <3>1
    <3>4. contexts.names = {} /\ contexts.names = RC!Required => RC!Unreported = {}
          BY DEF RC!Unreported
    <3> QED BY <1>8, <2>1, <2>2, <3>2, <3>3, <3>4
  <2> QED BY <2>5, <2>6, <2>7, <2>8 DEF RequiredInv
<1> QED BY <1>7, <1>8 DEF RC!HasUnreportedRequired, RC!Shows

\* settleUnreported: pending, or failed for runs that are held.
LEMMA SettleKeepsRequiredInv ==
  ASSUME RequiredInv, RC!SettleUnreported
  PROVE  RequiredInv'
<1>0. RequiredTypes
      BY DEF RequiredInv
<1>1. /\ UNCHANGED <<headSha, runOf, lagging, heldRuns, protects, ruled, mayRead, review>>
      /\ UNCHANGED <<complete, contexts, missing, excuse, changed>> /\ look.at = "held"
      BY DEF RC!SettleUnreported, RC!onGitHub
<1>2. /\ look \in Looks /\ heldRuns \in BOOLEAN
      /\ changed \in BOOLEAN /\ complete \subseteq 0..headSha /\ missing \in BOOLEAN
      /\ heldBy \in {RC!NoAnswer} \cup HeldAnswers
      /\ excuse \subseteq {"failed read", "stale rules", "review", "complete"}
      BY <1>0 DEF RequiredTypes
<1>3. look.row \in CheckRows /\ look.row.ci = "success"
  <2>1. look # RC!Rest
        BY <1>1 DEF RC!Rest
  <2> QED BY <1>1, <1>2, <2>1 DEF Looks, OpenLooks, RequiredInv, LookIsAtGreen
<1>4. PICK held \in (IF heldBy # RC!NoAnswer /\ heldBy.age = 0 THEN {heldBy.held}
                     ELSE {heldRuns, FALSE}) :
        /\ heldBy' = IF heldBy # RC!NoAnswer /\ heldBy.age = 0 THEN heldBy
                     ELSE [held |-> held, age |-> 0]
        /\ look' = RC!Rest
        /\ shownRow' = RC!Row(IF held THEN "failure" ELSE "pending", look.row.counts, held)
      BY DEF RC!SettleUnreported, RC!Shows
<1>5. held \in BOOLEAN /\ heldBy' \in {RC!NoAnswer} \cup HeldAnswers
      BY <1>2, <1>4 DEF HeldAnswers
<1>6. shownRow' \in CheckRows /\ shownRow'.ci # "success"
  <2>1. look.row.counts.failed = 0 /\ look.row.counts \in [passed : Nat, waiting : Nat, failed : Nat]
        BY <1>3 DEF CheckRows, RowAgrees
  <2> QED BY <1>4, <1>5, <2>1 DEF RC!Row, CheckRows, RowAgrees
<1>7. RC!Rest \in Looks /\ RC!Rest.at = "idle"
      BY DEF Looks, RC!Rest
<1>8. RequiredTypes' /\ RC!Unreported' = RC!Unreported
      BY <1>1, <1>2, <1>4, <1>5, <1>6, <1>7, MappingFrame
<1>9. LookIsAtGreen' /\ CompleteIsComplete' /\ MissingIsUnreported' /\ RC!GreenHasReported'
      BY <1>1, <1>4, <1>6, <1>7, <1>8
      DEF RequiredInv, LookIsAtGreen, CompleteIsComplete, MissingIsUnreported, RC!GreenHasReported
<1> QED BY <1>8, <1>9 DEF RequiredInv

\* Every step of the run keeps the invariant of the required checks.
LEMMA RequiredStep ==
  ASSUME RequiredInv, [MCNext]_runVars
  PROVE  RequiredInv'
<1>1. CASE RC!RequiredNext
      BY <1>1, GitHubKeepsRequiredInv, RulesKeepRequiredInv, MapKeepsRequiredInv,
         VerdictKeepsRequiredInv, SettleKeepsRequiredInv DEF RC!RequiredNext
<1>2. CASE UNCHANGED githubVars
  <2>1. /\ UNCHANGED <<headSha, runOf, lagging, heldRuns, protects, ruled, mayRead, review>>
        /\ UNCHANGED <<complete, contexts, heldBy, look, shownRow, missing, excuse, changed>>
        BY <1>2 DEF githubVars
  <2>2. RC!Unreported' = RC!Unreported
        BY <2>1 DEF RC!Unreported, RC!Required
  <2>3. RequiredTypes'
        BY <2>1 DEF RequiredInv, RequiredTypes
  <2> QED BY <2>1, <2>2, <2>3
          DEF RequiredInv, LookIsAtGreen, CompleteIsComplete, MissingIsUnreported, RC!GreenHasReported
<1> QED BY <1>1, <1>2 DEF MCNext, runVars

\* However GitHub moves between the reads of one mapping: a green row with a
\* required check missing all along has one of the reasons the code knows of.
THEOREM RequiredInvariant == MCSpec => []RequiredInv
<1>1. MCInit => RequiredInv
  <2>1. SUFFICES ASSUME MCInit PROVE RequiredInv
        OBVIOUS
  <2>2. /\ headSha = 0 /\ runOf = [c \in RC!Contexts |-> "absent"] /\ heldRuns = FALSE
        /\ protects \in {{}, {"a"}} /\ ruled \in {{}, {"b"}}
        /\ mayRead \in BOOLEAN /\ review \in BOOLEAN
        /\ complete = {} /\ contexts = RC!NoAnswer /\ heldBy = RC!NoAnswer
        /\ look = RC!Rest /\ shownRow = RC!Row("none", RC!Zero, FALSE)
        /\ missing = FALSE /\ excuse = {} /\ changed = FALSE
        BY <2>1 DEF MCInit, RC!RequiredInit
  <2>3. headSha \in 0..MaxHeads
        BY <2>2, ChecksAssumption
  <2>4. runOf \in [RC!Contexts -> RC!RunStates]
        BY <2>2 DEF RC!RunStates
  <2>5. protects \subseteq RC!Contexts /\ ruled \subseteq RC!Contexts
        BY <2>2 DEF RC!Contexts
  <2>6. shownRow \in CheckRows
        BY <2>2 DEF RC!Row, RC!Zero, CheckRows, RowAgrees
  <2>7. look \in Looks /\ look.at = "idle"
        BY <2>2 DEF Looks, RC!Rest
  <2>8. RequiredTypes
        BY <2>2, <2>3, <2>4, <2>5, <2>6, <2>7 DEF RequiredTypes
  <2> QED BY <2>2, <2>7, <2>8
          DEF RequiredInv, LookIsAtGreen, CompleteIsComplete, MissingIsUnreported, RC!GreenHasReported
<1>2. RequiredInv /\ [MCNext]_runVars => RequiredInv'
      BY RequiredStep
<1> QED BY <1>1, <1>2, PTL DEF MCSpec, runVars
-----------------------------------------------------------------------------
(* The colour of a Forgejo row *)

JobWords == {"waiting", "running", "success", "failure", "cancelled", "blocked", "skipped"}
StatusWords == {"success", "skipped", "failure", "pending", "warning"}
StatusLists == [1..3 -> StatusWords] \cup [1..4 -> StatusWords]
CallCounts == [passed : 0..4, failed : 0..4, waiting : 0..4, running : {0}]
EarlyCalls == [at : {"runs"}, s : StatusLists, state : FC!States, counts : CallCounts]
LaterCalls == [at : {"cancelled", "split"}, s : StatusLists, state : FC!States,
               counts : CallCounts, run : {"running", "cancelled", "failure", "success"}]

ForgejoTypes ==
  /\ job \in [1..3 -> JobWords]
  /\ external \in {"none", "success", "pending", "warning", "failure"}
  /\ ci \in {FC!Resting} \cup EarlyCalls \cup LaterCalls
  /\ shown \in [state : FC!States, counts : FC!Counts, whole : BOOLEAN]
  /\ jobSteps \in 0..MaxJobSteps /\ clean \in BOOLEAN /\ lateFailure \in BOOLEAN

\* The third job waits for the second.
ThirdNeedsSecond == job[3] # "blocked" => job[2] = "success"

\* The word and the counts of a call that goes on.
CallAgrees(state, counts) ==
  /\ state = "success" => counts.failed = 0 /\ counts.waiting = 0
  /\ state = "pending" => counts.failed = 0
  /\ state = "failure" => counts.failed > 0

Failing(s) == {j \in DOMAIN s : s[j] = "failure"}

\* What a call has read and made of it.
CallIsHonest ==
  ci.at # "idle" =>
    /\ CallAgrees(ci.state, ci.counts)
    /\ ci.counts.waiting = 0 <=> \A j \in DOMAIN ci.s : ci.s[j] # "pending"
    /\ ci.state = "pending" => ci.counts.waiting > 0 \/ \E j \in DOMAIN ci.s : ci.s[j] = "warning"
    /\ ci.at \in {"runs", "cancelled"} => ci.counts.failed = Cardinality(Failing(ci.s))
    /\ ci.at = "cancelled" => ci.counts.failed > 0

\* What has ended well stays so, and a call misses no instant with all well.
ReadsAreLasting ==
  ci.at # "idle" =>
    /\ \A j \in 1..3 : ci.s[j] \in {"success", "skipped"} => job[j] = ci.s[j]
    /\ FC!Good(job) \/ ci.state = "success" => clean

\* Unless a job failed or was run again since, a run read as failed has a failed
\* job that the statuses showed, which no cancelled job excuses.
FailuresAreSeen ==
  (ci.at # "idle" /\ ~lateFailure) =>
    /\ \A j \in 1..3 : job[j] = "failure" => ci.s[j] = "failure"
    /\ ci.at \in {"cancelled", "split"} /\ ci.run = "failure" =>
         \E j \in 1..3 : ci.s[j] = "failure" /\ job[j] = "failure"
    /\ ci.at = "split" /\ ci.counts.failed = 0 =>
         \A j \in 1..3 : ci.s[j] = "failure" => job[j] # "failure"

ForgejoInv ==
  /\ ForgejoTypes /\ ThirdNeedsSecond
  /\ CallIsHonest /\ ReadsAreLasting /\ FailuresAreSeen
  /\ FC!ForgejoCountsAgree /\ FC!OnlyAMovingRunReadsGreen

\* The jobs, one by one.
LEMMA JobsAre == FC!Jobs = 1..3 /\ FC!Ext = 4 /\ FC!Needs(1) = {} /\ FC!Needs(2) = {} /\ FC!Needs(3) = {2}
BY DEF FC!Jobs, FC!Ext, FC!Needs

\* The statuses of the jobs as they are.
LEMMA StatusesFacts ==
  ASSUME ForgejoTypes
  PROVE  /\ FC!Statuses \in StatusLists
         /\ 1..3 \subseteq DOMAIN FC!Statuses
         /\ \A j \in 1..3 :
              /\ FC!Statuses[j] \in {"success", "skipped"} <=> job[j] \in {"success", "skipped"}
              /\ FC!Statuses[j] \in {"success", "skipped"} => FC!Statuses[j] = job[j]
              /\ FC!Statuses[j] = "failure" <=> job[j] \in {"failure", "cancelled"}
              /\ FC!Statuses[j] # "warning"
<1>1. \A j \in 1..3 : FC!StatusOf(j) \in StatusWords
      BY JobsAre DEF ForgejoTypes, FC!StatusOf, StatusWords
<1>2. external # "none" => FC!StatusOf(4) \in StatusWords
      BY JobsAre DEF ForgejoTypes, FC!StatusOf, StatusWords
<1>3. FC!Statuses = [j \in (IF external = "none" THEN 1..3 ELSE 1..4) |-> FC!StatusOf(j)]
  <2>1. 1..3 \cup {4} = 1..4 /\ 1..3 \cup {} = 1..3
        OBVIOUS
  <2> QED BY <2>1, JobsAre DEF FC!Statuses
<1>4. 1..3 \subseteq 1..4 /\ \A j \in 1..4 : j \in 1..3 \/ j = 4
      OBVIOUS
<1>5. FC!Statuses \in StatusLists
  <2>1. CASE external = "none"
        BY <1>1, <1>3, <2>1 DEF StatusLists
  <2>2. CASE external # "none"
        BY <1>1, <1>2, <1>3, <1>4, <2>2 DEF StatusLists
  <2> QED BY <2>1, <2>2
<1>6. \A j \in 1..3 : FC!Statuses[j] = FC!StatusOf(j)
      BY <1>3, <1>4
<1>7. \A j \in 1..3 : j # 4 /\ job[j] \in JobWords
      BY DEF ForgejoTypes
<1> QED BY <1>3, <1>4, <1>5, <1>6, <1>7, JobsAre DEF FC!StatusOf, JobWords

\* The list of statuses a call reads, and the jobs among them.
LEMMA ListDomain ==
  ASSUME NEW s \in StatusLists
  PROVE  /\ 1..3 \subseteq DOMAIN s /\ DOMAIN s \subseteq 1..4
         /\ \A j \in DOMAIN s : s[j] \in StatusWords
BY DEF StatusLists

\* How many statuses have a word.
With(s, W) == {j \in DOMAIN s : s[j] \in W}

LEMMA CountFacts ==
  ASSUME NEW s \in StatusLists, NEW W
  PROVE  /\ IsFiniteSet(With(s, W)) /\ Cardinality(With(s, W)) \in 0..4
         /\ Cardinality(With(s, W)) = 0 <=> \A j \in DOMAIN s : s[j] \notin W
<1>1. With(s, W) \in SUBSET (1..4)
      BY ListDomain DEF With
<1>2. IsFiniteSet(1..4) /\ Cardinality(1..4) = 4
  <2>1. 1 \in Int /\ 4 \in Int
        OBVIOUS
  <2>2. IsFiniteSet(1..4) /\ Cardinality(1..4) = IF 1 > 4 THEN 0 ELSE 4 - 1 + 1
        BY <2>1, FS_Interval, Zenon
  <2> QED BY <2>2
<1>3. IsFiniteSet(With(s, W)) /\ Cardinality(With(s, W)) <= 4
      BY <1>1, <1>2, FS_Subset
<1>4. Cardinality(With(s, W)) \in Nat /\ (Cardinality(With(s, W)) = 0 <=> With(s, W) = {})
      BY <1>3, FS_CardinalityType, FS_EmptySet
<1>5. With(s, W) = {} <=> \A j \in DOMAIN s : s[j] \notin W
      BY DEF With
<1> QED BY <1>3, <1>4, <1>5

\* The counts and the word that the statuses give.
LEMMA CheckCountsFacts ==
  ASSUME NEW s \in StatusLists
  PROVE  /\ FC!CheckCountsOf(s) \in CallCounts
         /\ FC!CheckCountsOf(s).failed = Cardinality(Failing(s))
         /\ FC!CheckCountsOf(s).failed = 0 <=> \A j \in DOMAIN s : s[j] # "failure"
         /\ FC!CheckCountsOf(s).waiting = 0 <=> \A j \in DOMAIN s : s[j] # "pending"
<1> DEFINE p == Cardinality(With(s, {"success", "warning", "skipped"}))
           f == Cardinality(With(s, {"failure"}))
           w == Cardinality(With(s, {"pending"}))
<1>1. p \in 0..4 /\ f \in 0..4 /\ w \in 0..4
      BY CountFacts
<1>2. (f = 0 <=> \A j \in DOMAIN s : s[j] \notin {"failure"})
      /\ (w = 0 <=> \A j \in DOMAIN s : s[j] \notin {"pending"})
      BY CountFacts
<1>3. FC!CheckCountsOf(s) = [passed |-> p, failed |-> f, waiting |-> w, running |-> 0]
      BY CardinalityOfInstances DEF FC!CheckCountsOf, With
<1>4. Failing(s) = With(s, {"failure"})
      BY DEF Failing, With
<1>5. Cardinality(Failing(s)) = f
      BY <1>4
<1> HIDE DEF p, f, w
<1> QED BY <1>1, <1>2, <1>3, <1>5 DEF CallCounts

\* The word of the combined status.
LEMMA CombinedFacts ==
  ASSUME NEW s \in StatusLists
  PROVE  LET state == FC!StatusFromCombinedState(FC!CombinedState(s))
         IN /\ state \in {"success", "failure", "pending"}
            /\ state = "failure" <=> \E j \in DOMAIN s : s[j] = "failure"
            /\ state = "success" => \A j \in DOMAIN s : s[j] \notin {"failure", "pending", "warning"}
            /\ state = "pending" => \E j \in DOMAIN s : s[j] \in {"pending", "warning"}
BY ListDomain DEF FC!StatusFromCombinedState, FC!CombinedState, StatusWords

\* A call in progress, with the types of what it holds.
LEMMA CallTypes ==
  ASSUME ForgejoTypes, ci.at # "idle"
  PROVE  /\ ci # FC!Resting /\ ci.at \in {"runs", "cancelled", "split"}
         /\ ci.s \in StatusLists /\ ci.state \in FC!States /\ ci.counts \in CallCounts
         /\ ci.at = "runs" => ci \in EarlyCalls
         /\ ci.at # "runs" => ci \in LaterCalls
<1>1. ci # FC!Resting
      BY DEF FC!Resting
<1>2. ci \in EarlyCalls \/ ci \in LaterCalls
      BY <1>1 DEF ForgejoTypes
<1>3. CASE ci \in EarlyCalls
      BY <1>1, <1>3 DEF EarlyCalls
<1>4. CASE ci \in LaterCalls
      BY <1>1, <1>4 DEF LaterCalls
<1> QED BY <1>2, <1>3, <1>4

\* The jobs go on: what has ended well stays.
LEMMA JobsKeepForgejoInv ==
  ASSUME ForgejoInv, FC!JobMoves
  PROVE  ForgejoInv'
<1>0. ForgejoTypes
      BY DEF ForgejoInv
<1>1. /\ UNCHANGED <<external, ci, shown>>
      /\ clean' = (clean \/ FC!Good(job'))
      /\ lateFailure' = (lateFailure \/ \E j \in FC!Jobs : (job'[j] = "failure") # (job[j] = "failure"))
      BY DEF FC!JobMoves
<1>2. job \in [1..3 -> JobWords]
      BY <1>0 DEF ForgejoTypes
<1>3. /\ job' \in [1..3 -> JobWords] /\ ThirdNeedsSecond'
      /\ \A k \in 1..3 : job[k] \in {"success", "skipped"} => job'[k] = job[k]
  <2>1. PICK j \in 1..3 :
          \/ job[j] = "waiting" /\ job' = [job EXCEPT ![j] = "running"]
          \/ /\ job[j] = "running"
             /\ \E end \in {"success", "failure"} :
                   job' = [k \in 1..3 |-> IF k = j THEN end
                                          ELSE IF j \in FC!Needs(k) /\ end = "success" THEN "waiting"
                                          ELSE job[k]]
          \/ /\ job[j] = "waiting" /\ \A k \in 1..3 : j \notin FC!Needs(k)
             /\ job' = [job EXCEPT ![j] = "skipped"]
          \/ job[j] \in {"waiting", "running"} /\ job' = [job EXCEPT ![j] = "cancelled"]
          \/ /\ job[j] = "failure"
             /\ job' = [k \in 1..3 |-> IF job[k] = "failure" THEN "waiting" ELSE job[k]]
        BY JobsAre DEF FC!JobMoves
  <2>2. ThirdNeedsSecond /\ 2 \in 1..3 /\ 3 \in 1..3
        BY DEF ForgejoInv
  <2>3. CASE job[j] = "waiting" /\ job' = [job EXCEPT ![j] = "running"]
        BY <1>2, <2>2, <2>3 DEF JobWords, ThirdNeedsSecond
  <2>4. ASSUME job[j] = "running", NEW end \in {"success", "failure"},
               job' = [k \in 1..3 |-> IF k = j THEN end
                                      ELSE IF j \in FC!Needs(k) /\ end = "success" THEN "waiting"
                                      ELSE job[k]]
        PROVE  /\ job' \in [1..3 -> JobWords] /\ ThirdNeedsSecond'
               /\ \A k \in 1..3 : job[k] \in {"success", "skipped"} => job'[k] = job[k]
    <3>1. \A k \in 1..3 : j \in FC!Needs(k) <=> (j = 2 /\ k = 3)
          BY JobsAre DEF FC!Needs
    <3>2. \A k \in 1..3 : job'[k] = IF k = j THEN end
                                    ELSE IF j = 2 /\ k = 3 /\ end = "success" THEN "waiting" ELSE job[k]
          BY <2>4, <3>1
    <3>3. job' \in [1..3 -> JobWords]
          BY <1>2, <2>4 DEF JobWords
    <3>4. ThirdNeedsSecond'
          BY <1>2, <2>2, <2>4, <3>2 DEF ThirdNeedsSecond
    <3> QED BY <1>2, <2>2, <2>4, <3>2, <3>3, <3>4 DEF ThirdNeedsSecond
  <2>5. CASE /\ job[j] = "waiting" /\ \A k \in 1..3 : j \notin FC!Needs(k)
             /\ job' = [job EXCEPT ![j] = "skipped"]
        BY <1>2, <2>2, <2>5, JobsAre DEF JobWords, ThirdNeedsSecond
  <2>6. CASE job[j] \in {"waiting", "running"} /\ job' = [job EXCEPT ![j] = "cancelled"]
        BY <1>2, <2>2, <2>6 DEF JobWords, ThirdNeedsSecond
  <2>7. CASE job' = [k \in 1..3 |-> IF job[k] = "failure" THEN "waiting" ELSE job[k]]
        BY <1>2, <2>2, <2>7 DEF JobWords, ThirdNeedsSecond
  <2> QED BY <2>1, <2>3, <2>4, <2>5, <2>6, <2>7
<1>4. jobSteps' \in 0..MaxJobSteps
  <2>1. jobSteps < MaxJobSteps /\ jobSteps' = jobSteps + 1 /\ jobSteps \in 0..MaxJobSteps
        BY <1>0 DEF FC!JobMoves, ForgejoTypes
  <2> QED BY <2>1, ChecksAssumption
<1>5. clean' \in BOOLEAN /\ lateFailure' \in BOOLEAN
      /\ (clean => clean') /\ (FC!Good(job') => clean') /\ (lateFailure => lateFailure')
      /\ (~lateFailure' => \A j \in 1..3 : job'[j] = "failure" <=> job[j] = "failure")
  <2>1. clean \in BOOLEAN /\ lateFailure \in BOOLEAN
        BY <1>0 DEF ForgejoTypes
  <2> QED BY <1>1, <2>1, JobsAre
<1>6. ForgejoTypes'
      BY <1>0, <1>1, <1>3, <1>4, <1>5 DEF ForgejoTypes
<1>7. CallIsHonest' /\ FC!ForgejoCountsAgree'
      BY <1>1 DEF ForgejoInv, CallIsHonest, FC!ForgejoCountsAgree
<1>8. ReadsAreLasting'
      BY <1>1, <1>3, <1>5 DEF ForgejoInv, ReadsAreLasting, FC!Good
<1>9. FailuresAreSeen'
      BY <1>1, <1>5 DEF ForgejoInv, FailuresAreSeen
<1>10. FC!OnlyAMovingRunReadsGreen'
       BY <1>1, <1>5 DEF ForgejoInv, FC!OnlyAMovingRunReadsGreen
<1> QED BY <1>3, <1>6, <1>7, <1>8, <1>9, <1>10 DEF ForgejoInv

\* A call returns a word and counts that agree, green only after all was well.
LEMMA ReturnKeepsForgejoInv ==
  ASSUME ForgejoInv, UNCHANGED <<job, external, jobSteps>>,
         NEW state \in FC!States, NEW counts \in FC!Counts, NEW whole \in BOOLEAN,
         FC!Returns(state, counts, whole),
         clean' \in BOOLEAN, lateFailure' \in BOOLEAN,
         counts.failed >= 0, counts.waiting >= 0,
         state = "success" => /\ counts.failed = 0 /\ counts.waiting = 0 /\ counts.running = 0
                              /\ clean' \/ lateFailure',
         state = "pending" => counts.failed = 0,
         state = "failure" => counts.failed > 0 \/ counts = FC!NoCounts
  PROVE  ForgejoInv'
<1>0. ForgejoTypes
      BY DEF ForgejoInv
<1>1. ci' = FC!Resting /\ FC!Resting.at = "idle"
      BY DEF FC!Returns, FC!Resting
<1>2. /\ shown' \in [state : FC!States, counts : FC!Counts, whole : BOOLEAN]
      /\ shown'.state = state /\ shown'.counts = counts
      BY DEF FC!Returns
<1>3. ForgejoTypes'
      BY <1>0, <1>1, <1>2 DEF ForgejoTypes
<1>4. ThirdNeedsSecond'
      BY DEF ForgejoInv, ThirdNeedsSecond
<1>5. CallIsHonest' /\ ReadsAreLasting' /\ FailuresAreSeen'
      BY <1>1 DEF CallIsHonest, ReadsAreLasting, FailuresAreSeen
<1>6. FC!ForgejoCountsAgree'
      BY <1>2 DEF FC!ForgejoCountsAgree, FC!NoCounts
<1>7. FC!OnlyAMovingRunReadsGreen'
      BY <1>2 DEF FC!OnlyAMovingRunReadsGreen
<1> QED BY <1>3, <1>4, <1>5, <1>6, <1>7 DEF ForgejoInv

\* The first read.
LEMMA CiStatusKeepsForgejoInv ==
  ASSUME ForgejoInv, FC!CiStatus
  PROVE  ForgejoInv'
<1>0. ForgejoTypes
      BY DEF ForgejoInv
<1>1. /\ UNCHANGED <<job, external, jobSteps>>
      /\ clean' = FC!Good(job) /\ lateFailure' = FALSE
      BY DEF FC!CiStatus
<1> DEFINE s == FC!Statuses
           state == FC!StatusFromCombinedState(FC!CombinedState(s))
<1>2. PICK capped \in BOOLEAN :
        LET counts == IF capped THEN FC!NoCounts ELSE FC!CheckCountsOf(s)
        IN IF counts.waiting = 0 /\ ~(counts.failed > 0 /\ FC!MaybeCancelled(s))
           THEN FC!Returns(state, counts, ~capped)
           ELSE /\ ci' = [at |-> "runs", s |-> s, state |-> state, counts |-> counts]
                /\ UNCHANGED shown
      BY DEF FC!CiStatus
<1> DEFINE counts == IF capped THEN FC!NoCounts ELSE FC!CheckCountsOf(s)
<1>3. /\ s \in StatusLists /\ 1..3 \subseteq DOMAIN s
      /\ \A j \in 1..3 :
           /\ s[j] \in {"success", "skipped"} <=> job[j] \in {"success", "skipped"}
           /\ s[j] \in {"success", "skipped"} => s[j] = job[j]
           /\ s[j] = "failure" <=> job[j] \in {"failure", "cancelled"}
           /\ s[j] # "warning"
      BY <1>0, StatusesFacts
<1> HIDE DEF s
<1>4. /\ FC!CheckCountsOf(s) \in CallCounts
      /\ FC!CheckCountsOf(s).failed = Cardinality(Failing(s))
      /\ FC!CheckCountsOf(s).failed = 0 <=> \A j \in DOMAIN s : s[j] # "failure"
      /\ FC!CheckCountsOf(s).waiting = 0 <=> \A j \in DOMAIN s : s[j] # "pending"
      BY <1>3, CheckCountsFacts
<1>5. /\ state \in {"success", "failure", "pending"}
      /\ state = "failure" <=> \E j \in DOMAIN s : s[j] = "failure"
      /\ state = "success" => \A j \in DOMAIN s : s[j] \notin {"failure", "pending", "warning"}
      /\ state = "pending" => \E j \in DOMAIN s : s[j] \in {"pending", "warning"}
      BY <1>3, CombinedFacts
<1>6. state = "success" => FC!Good(job)
  <2>1. \A j \in DOMAIN s : s[j] \in StatusWords
        BY <1>3, ListDomain
  <2>2. ASSUME state = "success" PROVE \A j \in 1..3 : job[j] \in {"success", "skipped"}
        BY <1>3, <1>5, <2>1, <2>2 DEF StatusWords
  <2> QED BY <2>2, JobsAre DEF FC!Good
<1>7. FC!Good(job) \in BOOLEAN
      BY DEF FC!Good
<1> HIDE DEF state
<1>8. CASE FC!Returns(state, counts, ~capped)
  <2>1. state \in FC!States
        BY <1>5 DEF FC!States
  <2>2. /\ counts \in FC!Counts /\ counts.failed >= 0 /\ counts.waiting >= 0
        /\ state = "success" => counts.failed = 0 /\ counts.waiting = 0 /\ counts.running = 0
        /\ state = "pending" => counts.failed = 0
        /\ state = "failure" => counts.failed > 0 \/ counts = FC!NoCounts
    <3>1. CASE capped
          BY <3>1 DEF FC!NoCounts, FC!Counts
    <3>2. CASE ~capped
      <4>1. counts = FC!CheckCountsOf(s)
            BY <3>2
      <4> HIDE DEF counts
      <4>2. counts \in FC!Counts /\ counts.failed \in 0..4 /\ counts.waiting \in 0..4
            /\ counts.running = 0
            BY <1>4, <4>1 DEF CallCounts, FC!Counts
      <4> QED BY <1>4, <1>5, <4>1, <4>2
    <3> QED BY <3>1, <3>2
  <2> HIDE DEF counts
  <2> QED BY <1>1, <1>6, <1>7, <1>8, <2>1, <2>2, ReturnKeepsForgejoInv
<1>9. CASE /\ ~(counts.waiting = 0 /\ ~(counts.failed > 0 /\ FC!MaybeCancelled(s)))
           /\ ci' = [at |-> "runs", s |-> s, state |-> state, counts |-> counts]
           /\ UNCHANGED shown
  <2>1. counts = FC!CheckCountsOf(s)
        BY <1>9 DEF FC!NoCounts
  <2>2. state \in FC!States
        BY <1>5 DEF FC!States
  <2> HIDE DEF counts
  <2>3. ci' \in EarlyCalls /\ ci'.at = "runs" /\ ci'.s = s /\ ci'.state = state /\ ci'.counts = counts
        /\ ci' # FC!Resting
        BY <1>3, <1>4, <1>9, <2>1, <2>2 DEF EarlyCalls, FC!Resting
  <2>4. counts.failed \in 0..4 /\ counts.waiting \in 0..4
        BY <1>4, <2>1 DEF CallCounts
  <2>5. ForgejoTypes'
        BY <1>0, <1>1, <1>7, <1>9, <2>3 DEF ForgejoTypes
  <2>6. CallIsHonest'
        BY <1>4, <1>5, <2>1, <2>3, <2>4 DEF CallIsHonest, CallAgrees
  <2>7. ReadsAreLasting'
        BY <1>1, <1>3, <1>6, <2>3 DEF ReadsAreLasting
  <2>8. FailuresAreSeen'
        BY <1>1, <1>3, <2>3 DEF FailuresAreSeen
  <2>9. FC!ForgejoCountsAgree' /\ FC!OnlyAMovingRunReadsGreen' /\ ThirdNeedsSecond'
        BY <1>1, <1>9, <2>3
        DEF ForgejoInv, FC!ForgejoCountsAgree, FC!OnlyAMovingRunReadsGreen, ThirdNeedsSecond
  <2> QED BY <2>5, <2>6, <2>7, <2>8, <2>9 DEF ForgejoInv
<1> QED BY <1>2, <1>8, <1>9

\* A call that goes on, from counts and a word that agree.
LEMMA CallGoesOn ==
  ASSUME ForgejoInv, ci.at # "idle", UNCHANGED <<job, external, shown, jobSteps, clean, lateFailure>>,
         ci' \in LaterCalls, ci'.s = ci.s,
         CallIsHonest', FailuresAreSeen',
         ci'.state = "success" => clean
  PROVE  ForgejoInv'
<1>0. ForgejoTypes
      BY DEF ForgejoInv
<1>1. ForgejoTypes'
      BY <1>0 DEF ForgejoTypes
<1>2. ReadsAreLasting'
      BY DEF ForgejoInv, ReadsAreLasting
<1>3. ci' # FC!Resting
      BY DEF LaterCalls, FC!Resting
<1>4. FC!ForgejoCountsAgree' /\ FC!OnlyAMovingRunReadsGreen' /\ ThirdNeedsSecond'
      BY <1>3 DEF ForgejoInv, FC!ForgejoCountsAgree, FC!OnlyAMovingRunReadsGreen, ThirdNeedsSecond
<1> QED BY <1>1, <1>2, <1>4 DEF ForgejoInv

\* The runs: without them the statuses stand.
LEMMA CommitRunsKeepsForgejoInv ==
  ASSUME ForgejoInv, FC!CommitRuns
  PROVE  ForgejoInv'
<1>0. ForgejoTypes
      BY DEF ForgejoInv
<1>1. ci.at = "runs" /\ UNCHANGED <<job, external, jobSteps, clean, lateFailure>>
      BY DEF FC!CommitRuns
<1>2. /\ ci.s \in StatusLists /\ ci.state \in FC!States /\ ci.counts \in CallCounts
      /\ clean \in BOOLEAN /\ lateFailure \in BOOLEAN
      BY <1>0, <1>1, CallTypes DEF ForgejoTypes
<1>3. /\ CallAgrees(ci.state, ci.counts)
      /\ ci.counts.waiting = 0 <=> \A j \in DOMAIN ci.s : ci.s[j] # "pending"
      /\ ci.state = "pending" => ci.counts.waiting > 0 \/ \E j \in DOMAIN ci.s : ci.s[j] = "warning"
      /\ ci.counts.failed = Cardinality(Failing(ci.s))
      BY <1>1 DEF ForgejoInv, CallIsHonest
<1>4. ci.state = "success" => clean
      BY <1>1 DEF ForgejoInv, ReadsAreLasting
<1>5. /\ ci.counts \in FC!Counts /\ ci.counts.failed \in 0..4 /\ ci.counts.waiting \in 0..4
      /\ ci.counts.running = 0
      BY <1>2 DEF CallCounts, FC!Counts
<1>6. CASE FC!Returns(ci.state, ci.counts, FALSE)
  <2>1. ci.counts.failed >= 0 /\ ci.counts.waiting >= 0
        BY <1>5
  <2>2. /\ ci.state = "success" => /\ ci.counts.failed = 0 /\ ci.counts.waiting = 0
                                   /\ ci.counts.running = 0 /\ (clean' \/ lateFailure')
        /\ ci.state = "pending" => ci.counts.failed = 0
        /\ ci.state = "failure" => ci.counts.failed > 0 \/ ci.counts = FC!NoCounts
        BY <1>1, <1>3, <1>4, <1>5 DEF CallAgrees
  <2>3. clean' \in BOOLEAN /\ lateFailure' \in BOOLEAN /\ FALSE \in BOOLEAN
        BY <1>1, <1>2
  <2> QED BY <1>1, <1>2, <1>5, <1>6, <2>1, <2>2, <2>3, ReturnKeepsForgejoInv
<1>7. CASE /\ ci' = [at |-> IF ci.counts.failed > 0 /\ FC!MaybeCancelled(ci.s) THEN "cancelled"
                            ELSE "split",
                     s |-> ci.s, state |-> ci.state, counts |-> ci.counts, run |-> FC!RunStatus]
           /\ UNCHANGED shown
  <2>1. FC!RunStatus \in {"running", "cancelled", "failure", "success"}
        /\ (FC!RunStatus = "failure" => \E j \in 1..3 : job[j] = "failure")
        BY JobsAre DEF FC!RunStatus
  <2>2. /\ ci' \in LaterCalls /\ ci'.s = ci.s /\ ci'.state = ci.state /\ ci'.counts = ci.counts
        /\ ci'.run = FC!RunStatus
        /\ ci'.at = IF ci.counts.failed > 0 /\ FC!MaybeCancelled(ci.s) THEN "cancelled" ELSE "split"
        BY <1>2, <1>7, <2>1 DEF LaterCalls
  <2>3. CallIsHonest'
        BY <1>3, <2>2 DEF CallIsHonest
  <2>4. FailuresAreSeen'
    <3>1. SUFFICES ASSUME ~lateFailure
          PROVE  /\ \A j \in 1..3 : job[j] = "failure" => ci.s[j] = "failure"
                 /\ FC!RunStatus = "failure" =>
                      \E j \in 1..3 : ci.s[j] = "failure" /\ job[j] = "failure"
                 /\ ci.counts.failed = 0 => \A j \in 1..3 : ci.s[j] # "failure"
          BY <1>1, <2>2 DEF FailuresAreSeen
    <3>2. \A j \in 1..3 : job[j] = "failure" => ci.s[j] = "failure"
          BY <1>1, <3>1 DEF ForgejoInv, FailuresAreSeen
    <3>3. ci.counts.failed = 0 => \A j \in 1..3 : ci.s[j] # "failure"
      <4>1. ci.counts.failed = FC!CheckCountsOf(ci.s).failed
            BY <1>2, <1>3, CheckCountsFacts
      <4> QED BY <1>2, <4>1, CheckCountsFacts, ListDomain
    <3> QED BY <2>1, <3>2, <3>3
  <2> QED BY <1>1, <1>4, <1>7, <2>2, <2>3, <2>4, CallGoesOn
<1> QED BY <1>6, <1>7 DEF FC!CommitRuns

\* stateWithoutFailures, of a list of statuses.
LEMMA WithoutFailures ==
  ASSUME NEW s, NEW counts
  PROVE  LET state == FC!StateWithoutFailures(counts, s)
         IN /\ state \in {"pending", "success", "none"}
            /\ state = "success" => ~(counts.waiting > 0) /\ ~\E j \in DOMAIN s : s[j] = "warning"
            /\ state = "pending" => counts.waiting > 0 \/ \E j \in DOMAIN s : s[j] = "warning"
BY DEF FC!StateWithoutFailures

\* The failures that were cancelled jobs are taken off.
LEMMA CancelledKeepsForgejoInv ==
  ASSUME ForgejoInv, FC!CancelledFailures
  PROVE  ForgejoInv'
<1>0. ForgejoTypes
      BY DEF ForgejoInv
<1>1. ci.at = "cancelled" /\ UNCHANGED <<job, external, shown, jobSteps, clean, lateFailure>>
      BY DEF FC!CancelledFailures
<1>2. /\ ci.s \in StatusLists /\ ci.state \in FC!States /\ ci.counts \in CallCounts
      /\ ci \in LaterCalls
      BY <1>0, <1>1, CallTypes
<1>3. /\ CallAgrees(ci.state, ci.counts)
      /\ ci.counts.waiting = 0 <=> \A j \in DOMAIN ci.s : ci.s[j] # "pending"
      /\ ci.state = "pending" => ci.counts.waiting > 0 \/ \E j \in DOMAIN ci.s : ci.s[j] = "warning"
      /\ ci.counts.failed = Cardinality(Failing(ci.s)) /\ ci.counts.failed > 0
      BY <1>1 DEF ForgejoInv, CallIsHonest
<1>4. PICK n \in {0, FC!Cardinality(FC!Cancelled(ci.s))} :
        LET counts == [ci.counts EXCEPT !.failed = @ - n]
        IN ci' = [ci EXCEPT !.at = "split", !.counts = counts,
                            !.state = IF n > 0 /\ counts.failed = 0
                                      THEN FC!StateWithoutFailures(counts, ci.s) ELSE @]
      BY DEF FC!CancelledFailures
<1> DEFINE excused == FC!Cancelled(ci.s)
           counts == [ci.counts EXCEPT !.failed = @ - n]
           state == IF n > 0 /\ counts.failed = 0
                    THEN FC!StateWithoutFailures(counts, ci.s) ELSE ci.state
<1>5. excused \in SUBSET Failing(ci.s) /\ \A j \in excused : j \in 1..3 /\ job[j] = "cancelled"
      BY JobsAre DEF FC!Cancelled, Failing
<1>6. IsFiniteSet(Failing(ci.s)) /\ Cardinality(Failing(ci.s)) \in 0..4
  <2>1. Failing(ci.s) = With(ci.s, {"failure"})
        BY DEF Failing, With
  <2> QED BY <1>2, <2>1, CountFacts
<1>7. n = 0 \/ n = Cardinality(excused)
      BY <1>4, CardinalityOfInstances
<1>8. /\ IsFiniteSet(excused) /\ Cardinality(excused) <= Cardinality(Failing(ci.s))
      /\ Cardinality(Failing(ci.s)) = Cardinality(excused) => Failing(ci.s) = excused
      BY <1>5, <1>6, FS_Subset
<1>9. Cardinality(excused) \in Nat
      BY <1>8, FS_CardinalityType
<1> HIDE DEF excused
<1>10. /\ n \in Nat /\ ci.counts.failed \in 0..4 /\ ci.counts.failed - n \in 0..4
       /\ ci.counts.failed - n = 0 => n > 0 /\ Failing(ci.s) = excused
       BY <1>3, <1>6, <1>7, <1>8, <1>9
<1>11. /\ counts \in CallCounts /\ counts.failed = ci.counts.failed - n
       /\ counts.waiting = ci.counts.waiting /\ counts.waiting \in 0..4
       BY <1>2, <1>10 DEF CallCounts
<1>12. ci' = [ci EXCEPT !.at = "split", !.counts = counts, !.state = state]
       BY <1>4
<1> HIDE DEF counts
<1>13. /\ state \in FC!States /\ CallAgrees(state, counts)
       /\ state = "pending" => counts.waiting > 0 \/ \E j \in DOMAIN ci.s : ci.s[j] = "warning"
       /\ state = "success" => counts.failed = 0 /\ counts.waiting = 0
  <2>1. CASE n > 0 /\ counts.failed = 0
        BY <1>11, <2>1, WithoutFailures DEF FC!States, CallAgrees
  <2>2. CASE ~(n > 0 /\ counts.failed = 0)
        BY <1>2, <1>3, <1>10, <1>11, <2>2 DEF CallAgrees
  <2> QED BY <2>1, <2>2
<1> HIDE DEF state
<1>14. /\ ci' \in LaterCalls /\ ci'.at = "split" /\ ci'.s = ci.s /\ ci'.state = state
       /\ ci'.counts = counts /\ ci'.run = ci.run
       BY <1>2, <1>11, <1>12, <1>13 DEF LaterCalls
<1>15. CallIsHonest'
       BY <1>3, <1>11, <1>13, <1>14 DEF CallIsHonest
<1>16. counts.failed = 0 => \A j \in 1..3 : ci.s[j] = "failure" => job[j] = "cancelled"
       BY <1>2, <1>5, <1>10, <1>11, ListDomain DEF Failing
<1>17. FailuresAreSeen'
       BY <1>1, <1>14, <1>16 DEF ForgejoInv, FailuresAreSeen
<1>18. state = "success" => clean
  <2>1. SUFFICES ASSUME state = "success" PROVE FC!Good(job)
        BY <1>1 DEF ForgejoInv, ReadsAreLasting
  <2>2. counts.failed = 0 /\ \A j \in DOMAIN ci.s : ci.s[j] # "pending"
        BY <1>3, <1>11, <1>13, <2>1
  <2>3. \A j \in DOMAIN ci.s : ci.s[j] # "warning"
        BY <1>10, <1>11, <2>1, <2>2, WithoutFailures DEF state
  <2>4. \A j \in 1..3 : ci.s[j] \in {"success", "skipped", "failure"}
        BY <1>2, <2>2, <2>3, ListDomain DEF StatusWords
  <2>5. \A j \in 1..3 : job[j] \in {"success", "skipped", "cancelled"}
        BY <1>1, <1>16, <2>2, <2>4 DEF ForgejoInv, ReadsAreLasting
  <2> QED BY <2>5, JobsAre DEF FC!Good
<1> QED BY <1>1, <1>14, <1>15, <1>17, <1>18, CallGoesOn

\* The smaller of two numbers.
LEMMA MinOfTwo ==
  ASSUME NEW a \in Int, NEW b \in Int
  PROVE  FC!Min({a, b}) \in {a, b} /\ FC!Min({a, b}) <= a /\ FC!Min({a, b}) <= b
<1>1. \E x \in {a, b} : \A y \in {a, b} : x <= y
  <2>1. CASE a <= b
        BY <2>1
  <2>2. CASE b <= a
        BY <2>2
  <2> QED BY <2>1, <2>2
<1> QED BY <1>1 DEF FC!Min

\* How many jobs there can be of a kind.
LEMMA JobCount ==
  ASSUME NEW S \in SUBSET (1..3)
  PROVE  FC!Cardinality(S) \in 0..3 /\ (FC!Cardinality(S) = 0 <=> S = {})
<1>1. 1 \in Int /\ 3 \in Int
      OBVIOUS
<1>2. IsFiniteSet(1..3) /\ Cardinality(1..3) = IF 1 > 3 THEN 0 ELSE 3 - 1 + 1
      BY <1>1, FS_Interval, Zenon
<1>3. IsFiniteSet(S) /\ Cardinality(S) <= Cardinality(1..3)
      BY <1>2, FS_Subset
<1>4. Cardinality(S) \in Nat /\ (Cardinality(S) = 0 <=> S = {})
      BY <1>3, FS_CardinalityType, FS_EmptySet
<1> QED BY <1>2, <1>3, <1>4, CardinalityOfInstances

\* What waits is split, and with nothing left to run the counts decide: green
\* then stands for a run that failed after its statuses were read.
LEMMA SplitKeepsForgejoInv ==
  ASSUME ForgejoInv, FC!SplitWaiting
  PROVE  ForgejoInv'
<1>0. ForgejoTypes
      BY DEF ForgejoInv
<1>1. ci.at = "split" /\ UNCHANGED <<job, external, jobSteps, clean, lateFailure>>
      BY DEF FC!SplitWaiting
<1>2. /\ ci.s \in StatusLists /\ ci.state \in FC!States /\ ci.counts \in CallCounts
      /\ clean \in BOOLEAN /\ lateFailure \in BOOLEAN
      BY <1>0, <1>1, CallTypes DEF ForgejoTypes
<1>3. /\ CallAgrees(ci.state, ci.counts)
      /\ ci.state = "pending" => ci.counts.waiting > 0 \/ \E j \in DOMAIN ci.s : ci.s[j] = "warning"
      BY <1>1 DEF ForgejoInv, CallIsHonest
<1> DEFINE w0 == ci.counts.waiting
           blocked == FC!BlockedInFailedRuns(ci.s, ci.run)
           waiting == w0 - FC!Min({blocked, w0})
<1>4. PICK running \in {0, FC!CountRunningJobs(ci.run)} :
        LET moved  == FC!Min({running, waiting})
            counts == IF waiting > 0
                      THEN [ci.counts EXCEPT !.waiting = waiting - moved, !.running = @ + moved]
                      ELSE [ci.counts EXCEPT !.waiting = waiting]
        IN FC!Returns(FC!SettledState(ci.state, counts, ci.s), counts, TRUE)
      BY DEF FC!SplitWaiting
<1> DEFINE moved  == FC!Min({running, waiting})
           counts == IF waiting > 0
                     THEN [ci.counts EXCEPT !.waiting = waiting - moved, !.running = @ + moved]
                     ELSE [ci.counts EXCEPT !.waiting = waiting]
           state == FC!SettledState(ci.state, counts, ci.s)
<1>5. w0 \in 0..4 /\ ci.counts.passed \in 0..4 /\ ci.counts.failed \in 0..4 /\ ci.counts.running = 0
      BY <1>2 DEF CallCounts
<1>6. blocked \in 0..3 /\ (blocked # 0 => ci.run = "failure")
  <2>1. {j \in FC!Jobs \cap DOMAIN ci.s : ci.s[j] = "pending"} \in SUBSET (1..3)
        BY JobsAre
  <2>2. FC!Cardinality({j \in FC!Jobs \cap DOMAIN ci.s : ci.s[j] = "pending"}) \in 0..3
        BY <2>1, JobCount
  <2> QED BY <2>2 DEF FC!BlockedInFailedRuns
<1>7. running \in 0..3
  <2>1. {j \in FC!Jobs : job[j] = "running"} \in SUBSET (1..3)
        BY JobsAre
  <2>2. FC!Cardinality({j \in FC!Jobs : job[j] = "running"}) \in 0..3
        BY <2>1, JobCount
  <2> QED BY <1>4, <2>2 DEF FC!CountRunningJobs
<1> HIDE DEF blocked, w0
<1>8. waiting \in 0..4 /\ waiting <= w0 /\ (waiting # w0 => blocked # 0)
  <2>1. /\ FC!Min({blocked, w0}) \in {blocked, w0}
        /\ FC!Min({blocked, w0}) <= blocked /\ FC!Min({blocked, w0}) <= w0
    <3>1. blocked \in Int /\ w0 \in Int
          BY <1>5, <1>6
    <3> QED BY <3>1, MinOfTwo
  <2> QED BY <1>5, <1>6, <2>1
<1> HIDE DEF waiting
<1>9. moved \in 0..4 /\ moved <= waiting
  <2>1. moved \in {running, waiting} /\ moved <= running /\ moved <= waiting
        BY <1>7, <1>8, MinOfTwo
  <2> QED BY <1>7, <1>8, <2>1
<1> HIDE DEF moved
<1>10. /\ counts \in FC!Counts /\ counts.failed = ci.counts.failed
       /\ counts.waiting \in 0..4 /\ counts.running \in 0..4
       /\ w0 = 0 => counts.waiting = 0 /\ counts.running = 0
       /\ counts.waiting = 0 /\ counts.running = 0 => waiting = 0
  <2>1. CASE waiting > 0
    <3>1. waiting - moved \in 0..4 /\ (waiting - moved = 0 /\ moved = 0 => waiting = 0)
          BY <1>8, <1>9
    <3>2. counts = [ci.counts EXCEPT !.waiting = waiting - moved, !.running = moved]
      <4>1. 0 + moved = moved
            BY <1>9
      <4> QED BY <1>2, <1>5, <2>1, <4>1 DEF CallCounts
    <3>3. /\ counts \in FC!Counts /\ counts.failed = ci.counts.failed
          /\ counts.waiting = waiting - moved /\ counts.running = moved
      <4>1. waiting - moved \in -3..4 /\ moved \in 0..4
            BY <1>9, <3>1
      <4>2. ci.counts \in FC!Counts
            BY <1>2 DEF CallCounts, FC!Counts
      <4> HIDE DEF counts
      <4> QED BY <3>2, <4>1, <4>2 DEF FC!Counts
    <3>4. w0 # 0
          BY <1>5, <1>8, <2>1
    <3> QED BY <1>9, <3>1, <3>3, <3>4
  <2>2. CASE ~(waiting > 0)
    <3>1. waiting = 0
          BY <1>8, <2>2
    <3> QED BY <1>2, <1>5, <2>2, <3>1 DEF CallCounts, FC!Counts
  <2> QED BY <2>1, <2>2
<1>11. FC!Returns(state, counts, TRUE)
       BY <1>4 DEF moved
<1> HIDE DEF counts
<1>12. \/ state = ci.state
       \/ /\ state \in {"pending", "success", "none"}
          /\ ci.state = "pending" /\ counts.failed = 0 /\ counts.waiting = 0 /\ counts.running = 0
          /\ state = "success" => ~\E j \in DOMAIN ci.s : ci.s[j] = "warning"
       BY WithoutFailures DEF FC!SettledState
<1> HIDE DEF state
<1>13. state \in FC!States
       BY <1>2, <1>12 DEF FC!States
<1>14. state = "success" => counts.failed = 0 /\ counts.waiting = 0 /\ counts.running = 0
       BY <1>3, <1>10, <1>12 DEF CallAgrees, w0
<1>15. /\ state = "pending" => counts.failed = 0
       /\ state = "failure" => counts.failed > 0
       BY <1>3, <1>10, <1>12 DEF CallAgrees
<1>16. state = "success" => clean \/ lateFailure
  <2>1. CASE ci.state = "success"
        BY <1>1, <2>1 DEF ForgejoInv, ReadsAreLasting
  <2>2. CASE state = "success" /\ ci.state # "success"
    <3>1. w0 > 0 /\ ci.counts.failed = 0 /\ waiting = 0
          BY <1>3, <1>10, <1>12, <2>2 DEF w0
    <3>2. ci.run = "failure"
          BY <1>5, <1>6, <1>8, <3>1
    <3> QED BY <1>1, <3>1, <3>2 DEF ForgejoInv, FailuresAreSeen
  <2> QED BY <2>1, <2>2
<1>17. counts.failed >= 0 /\ counts.waiting >= 0 /\ TRUE \in BOOLEAN
       BY <1>5, <1>10
<1>18. counts \in FC!Counts
       BY <1>10
<1> QED BY <1>1, <1>2, <1>11, <1>13, <1>14, <1>15, <1>16, <1>17, <1>18, ReturnKeepsForgejoInv

\* Every step of the run keeps the invariant of the Forgejo checks.
LEMMA ForgejoStep ==
  ASSUME ForgejoInv, [MCNext]_runVars
  PROVE  ForgejoInv'
<1>1. CASE FC!ForgejoNext
      BY <1>1, JobsKeepForgejoInv, CiStatusKeepsForgejoInv, CommitRunsKeepsForgejoInv,
         CancelledKeepsForgejoInv, SplitKeepsForgejoInv DEF FC!ForgejoNext
<1>2. CASE UNCHANGED forgejoVars
  <2>1. UNCHANGED <<job, external, ci, shown, jobSteps, clean, lateFailure>>
        BY <1>2 DEF forgejoVars
  <2>2. ForgejoTypes'
        BY <2>1 DEF ForgejoInv, ForgejoTypes
  <2>3. ThirdNeedsSecond' /\ CallIsHonest' /\ ReadsAreLasting' /\ FailuresAreSeen'
        BY <2>1 DEF ForgejoInv, ThirdNeedsSecond, CallIsHonest, ReadsAreLasting, FC!Good, FailuresAreSeen
  <2>4. FC!ForgejoCountsAgree' /\ FC!OnlyAMovingRunReadsGreen'
        BY <2>1 DEF ForgejoInv, FC!ForgejoCountsAgree, FC!OnlyAMovingRunReadsGreen
  <2> QED BY <2>2, <2>3, <2>4 DEF ForgejoInv
<1> QED BY <1>1, <1>2 DEF MCNext, runVars

\* However the jobs move between the reads of one call: its word and its counts
\* agree, and green with a job failed or left stands for a run that moved.
THEOREM ForgejoInvariant == MCSpec => []ForgejoInv
<1>1. MCInit => ForgejoInv
  <2>1. SUFFICES ASSUME MCInit PROVE ForgejoInv
        OBVIOUS
  <2>2. /\ job = [j \in 1..3 |-> IF FC!Needs(j) = {} THEN "waiting" ELSE "blocked"]
        /\ external \in {"none", "success", "pending", "warning"}
        /\ ci = FC!Resting /\ shown = FC!NotYet /\ jobSteps = 0 /\ clean = FALSE
        /\ lateFailure = FALSE
        BY <2>1, JobsAre DEF MCInit, FC!ForgejoInit
  <2>3. job \in [1..3 -> JobWords] /\ job[3] = "blocked"
    <3>1. 3 \in 1..3
          OBVIOUS
    <3> QED BY <2>2, <3>1, JobsAre DEF JobWords
  <2>4. /\ shown \in [state : FC!States, counts : FC!Counts, whole : BOOLEAN]
        /\ shown.state = "none" /\ shown.counts.failed = 0 /\ shown.counts.waiting = 0
        BY <2>2 DEF FC!NotYet, FC!States, FC!Counts
  <2>5. jobSteps \in 0..MaxJobSteps
        BY <2>2, ChecksAssumption
  <2>6. ForgejoTypes
        BY <2>2, <2>3, <2>4, <2>5 DEF ForgejoTypes
  <2>7. ci.at = "idle"
        BY <2>2 DEF FC!Resting
  <2>8. ThirdNeedsSecond /\ CallIsHonest /\ ReadsAreLasting /\ FailuresAreSeen
        BY <2>3, <2>7 DEF ThirdNeedsSecond, CallIsHonest, ReadsAreLasting, FailuresAreSeen
  <2>9. FC!ForgejoCountsAgree /\ FC!OnlyAMovingRunReadsGreen
        BY <2>4 DEF FC!ForgejoCountsAgree, FC!OnlyAMovingRunReadsGreen
  <2> QED BY <2>6, <2>8, <2>9 DEF ForgejoInv
<1>2. ForgejoInv /\ [MCNext]_runVars => ForgejoInv'
      BY ForgejoStep
<1> QED BY <1>1, <1>2, PTL DEF MCSpec, runVars

\* The colour of a row follows its counts, and green is earned on both forges
\* (ciStatus, requiredChecks).
THEOREM ColoursAreEarnedHolds == MCSpec => []ColoursAreEarned
<1>1. ForgejoInv => FC!ForgejoTypeOK /\ FC!ForgejoCountsAgree /\ FC!OnlyAMovingRunReadsGreen
  <2>1. SUFFICES ASSUME ForgejoInv PROVE FC!ForgejoTypeOK
        BY DEF ForgejoInv
  <2>2. ForgejoTypes
        BY <2>1 DEF ForgejoInv
  <2>3. ci.at \in {"idle", "runs", "cancelled", "split"}
        BY <2>2, CallTypes
  <2> QED BY <2>2, <2>3, JobsAre DEF ForgejoTypes, FC!ForgejoTypeOK, JobWords
<1>2. RequiredInv => RC!RequiredTypeOK /\ RC!RollupCountsAgree /\ RC!GreenHasReported
  <2>1. SUFFICES ASSUME RequiredInv PROVE RC!RequiredTypeOK /\ RC!RollupCountsAgree
        BY DEF RequiredInv
  <2>2. RequiredTypes
        BY <2>1 DEF RequiredInv
  <2>3. look.at \in {"idle", "names", "reported", "held"}
    <3>1. look = RC!Rest \/ look \in OpenLooks
          BY <2>2 DEF RequiredTypes, Looks
    <3>2. RC!Rest.at = "idle"
          BY DEF RC!Rest
    <3>3. look \in OpenLooks => look.at \in {"names", "reported", "held"}
          BY DEF OpenLooks
    <3> QED BY <3>1, <3>2, <3>3
  <2>4. shownRow.ci \in {"none", "success", "failure", "pending"} /\ RowAgrees(shownRow)
        BY <2>2 DEF RequiredTypes, CheckRows
  <2>5. complete \subseteq 0..MaxHeads
    <3>1. headSha \in 0..MaxHeads /\ complete \subseteq 0..headSha
          BY <2>2 DEF RequiredTypes
    <3> QED BY <3>1, ChecksAssumption
  <2>6. RC!RequiredTypeOK
        BY <2>2, <2>3, <2>4, <2>5 DEF RequiredTypes, RC!RequiredTypeOK
  <2> QED BY <2>4, <2>6 DEF RowAgrees, RC!RollupCountsAgree
<1> QED BY <1>1, <1>2, ForgejoInvariant, RequiredInvariant, PTL DEF ColoursAreEarned
=============================================================================
