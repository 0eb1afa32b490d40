------------------------------ MODULE Uncached ------------------------------
(***************************************************************************)
(* What conditional requests promise their callers                         *)
(* (internal/github/etag_transport.go, the comment on etagTransport): a    *)
(* client that sends every request to the forge and keeps nothing.  Who    *)
(* asked is given what the URL answered with between the call and the      *)
(* return, or an error; a miss is harmless, and no answer is wrong.        *)
(***************************************************************************)
EXTENDS Naturals

CONSTANTS Urls, Requests, Contents

VARIABLES
  content,   \* URL -> what the forge answers with
  asked      \* request -> not there, asked for a URL, or answered

uncachedVars == <<content, asked>>

NotThere == [at |-> "idle"]

UncachedInit ==
  /\ content \in [Urls -> Contents]
  /\ asked = [q \in Requests |-> NotThere]

Ask(q, u) ==
  /\ asked[q].at = "idle"
  /\ asked' = [asked EXCEPT ![q] = [at |-> "asked", url |-> u]]
  /\ UNCHANGED content

\* The answer is what the forge has at one moment after the call.
Answer(q) ==
  /\ asked[q].at = "asked"
  /\ asked' = [asked EXCEPT ![q] = [at |-> "answered", body |-> content[asked[q].url]]]
  /\ UNCHANGED content

Leave(q) ==
  /\ asked[q].at \in {"asked", "answered"}
  /\ asked' = [asked EXCEPT ![q] = NotThere]
  /\ UNCHANGED content

ForgeChanges(u) ==
  /\ \E new \in Contents \ {content[u]} : content' = [content EXCEPT ![u] = new]
  /\ UNCHANGED asked

Stop ==
  /\ asked' = [q \in Requests |-> NotThere]
  /\ UNCHANGED content

UncachedNext ==
  \/ Stop
  \/ \E q \in Requests : Answer(q) \/ Leave(q) \/ \E u \in Urls : Ask(q, u)
  \/ \E u \in Urls : ForgeChanges(u)

UncachedSpec == UncachedInit /\ [][UncachedNext]_uncachedVars
=============================================================================
