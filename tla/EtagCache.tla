----------------------------- MODULE EtagCache -----------------------------
(***************************************************************************)
(* Conditional requests to GitHub: the transport that sends If-None-Match  *)
(* and serves a 304 from its own copy (github/etag_transport.go), the      *)
(* copies in memory, least recently used out first (etag_store.go), and    *)
(* the table that keeps them across restarts (settings/cache.go).          *)
(* Requests run concurrently; the lock is only held for one look-up or one *)
(* store, so others come between a request's steps.                        *)
(*                                                                         *)
(* A URL's content is a number, which is also its ETag; Size gives its     *)
(* length.  The touch interval, the age of a row and the headers, which    *)
(* travel with the body, are left out.                                     *)
(***************************************************************************)
EXTENDS Naturals, SequencesExt, FiniteSetsExt

CONSTANTS Urls, Requests,
          MaxContent,   \* contents a URL can have
          MaxBody,      \* maxETagBodyBytes: the transport keeps no larger body
          MaxEntries, MaxBytes,  \* of the copies in memory
          TableCap,     \* etagCapBytes
          MaxTurns      \* changes on the forge, and restarts

VARIABLES content,    \* URL -> its content on the forge
          memory,     \* etagStore.order: copies, the most recently used first
          table,      \* http_etags, the least recently used first
          tableBytes, \* Store.etagBytes
          request,    \* request -> where it is, what it holds
          torn,       \* history: what a delete that failed left wrong: the figure, or only the size
          turns

etagVars == <<content, memory, table, tableBytes, request, torn, turns>>

Contents == 0..MaxContent
Size(c)  == c + 1
Pair     == [url : Urls, etag : Contents, body : Contents]
Bytes(s) == FoldSeq(LAMBDA p, n : Size(p.body) + n, 0, s)
Of(s, u) == SelectSeq(s, LAMBDA p : p.url = u)
Without(s, u) == SelectSeq(s, LAMBDA p : p.url # u)
Resting  == [at |-> "idle"]

EtagTypeOK ==
    /\ content \in [Urls -> Contents]
    /\ Range(memory) \cup Range(table) \subseteq Pair
    /\ \A s \in {memory, table} : \A u \in Urls : Len(Of(s, u)) <= 1
    /\ DOMAIN request = Requests /\ turns \in 0..MaxTurns /\ torn \in {"no", "figure", "size"}

EtagInit ==
    /\ content = [u \in Urls |-> 0]
    /\ memory = <<>> /\ table = <<>> /\ tableBytes = 0
    /\ request = [q \in Requests |-> Resting] /\ torn = "no" /\ turns = 0

To(q, r) == request' = [request EXCEPT ![q] = r]
stored == <<table, tableBytes, torn>>

-----------------------------------------------------------------------------
(* putMemory: to the front, then the last ones out until both limits hold. *)
PutMemory(p) ==
    LET all  == <<p>> \o Without(memory, p.url)
        fits == {n \in 0..Len(all) : n <= MaxEntries /\ Bytes(SubSeq(all, 1, n)) <= MaxBytes}
    IN memory' = SubSeq(all, 1, Max(fits))

(* getMemory: a hit is used, a miss asks the table.                        *)
GetMemory(q, u) ==
    /\ request[q].at = "idle"
    /\ IF Of(memory, u) # <<>>
       THEN /\ memory' = Of(memory, u) \o Without(memory, u)
            /\ To(q, [at |-> "send", url |-> u, cached |-> Of(memory, u)])
       ELSE To(q, [at |-> "load", url |-> u]) /\ UNCHANGED memory
    /\ UNCHANGED <<content, stored, turns>>

(* load, which counts an unreadable row as none.                           *)
Load(q) ==
    /\ request[q].at = "load"
    /\ LET u == request[q].url
       IN \/ Of(table, u) # <<>> /\ To(q, [at |-> "adopt", url |-> u, cached |-> Of(table, u)])
          \/ To(q, [at |-> "send", url |-> u, cached |-> <<>>])
    /\ UNCHANGED <<content, memory, stored, turns>>

(* A row from the table becomes a copy in memory.                          *)
Adopt(q) ==
    /\ request[q].at = "adopt"
    /\ PutMemory(request[q].cached[1])
    /\ To(q, [request[q] EXCEPT !.at = "send"])
    /\ UNCHANGED <<content, stored, turns>>

(* The forge answers (external): 304 when the ETag sent is still right,    *)
(* else 200 with an ETag or without; or it does not answer.                *)
ForgeAnswers(q) ==
    /\ request[q].at = "send"
    /\ LET r == request[q]
           now == content[r.url]
       IN IF r.cached # <<>> /\ r.cached[1].etag = now
          THEN To(q, [at |-> "unchanged", url |-> r.url, cached |-> r.cached, now |-> now])
          ELSE \E tagged \in BOOLEAN :
                  To(q, [at |-> "fresh", url |-> r.url, tagged |-> tagged, now |-> now])
    /\ UNCHANGED <<content, memory, stored, turns>>

RoundTripFails(q) ==
    /\ request[q].at = "send"
    /\ To(q, Resting)
    /\ UNCHANGED <<content, memory, stored, turns>>

\* Slip: the copy is looked up again when the answer is there.
Served_Again(r) == IF Of(memory, r.url) = <<>> THEN MaxContent + 1 ELSE Of(memory, r.url)[1].body

\* servedFromCache: the copy whose ETag was sent.
Served(r) == r.cached[1].body

(* A 304: used touches the row (unless it did so lately, or fails), which  *)
(* makes it the last to go.                                                *)
ServedFromCache(q) ==
    /\ request[q].at = "unchanged"
    /\ LET r == request[q]
       IN /\ To(q, [at |-> "served", body |-> Served(r)])
          /\ table' \in {table, Without(table, r.url) \o Of(table, r.url)}
    /\ UNCHANGED <<content, memory, tableBytes, torn, turns>>

(* maybeCache: without an ETag, or too long, the body is only passed on.   *)
MaybeCache(q) ==
    /\ request[q].at = "fresh"
    /\ LET r == request[q]
           p == [url |-> r.url, etag |-> r.now, body |-> r.now]
       IN IF r.tagged /\ Size(r.now) <= MaxBody
          THEN PutMemory(p) /\ To(q, [at |-> "save", pair |-> p])
          ELSE To(q, [at |-> "served", body |-> r.now]) /\ UNCHANGED memory
    /\ UNCHANGED <<content, stored, turns>>

-----------------------------------------------------------------------------
(* The table: SaveETag and evictETags, under etagMu.                       *)

\* Rows to delete: from the least recently used on, until the figure fits.
Evicted(rows, figure) ==
    Min({n \in 0..Len(rows) :
           n = Len(rows) \/ Bytes(SubSeq(rows, 1, n)) + TableCap >= figure})

\* Slip: the row that was there is not taken off the figure.
Figure_Added(old, p) == tableBytes + Size(p.body)

Figure(old, p) == tableBytes + Size(p.body) - Bytes(old)

(* A body over the cap only removes the row it outdates.  Otherwise the    *)
(* row is written and what no longer fits is deleted, row by row: a delete *)
(* that fails leaves the figure as it was before them.                     *)
SaveETag(q) ==
    /\ request[q].at = "save"
    /\ LET p    == request[q].pair
           old  == Of(table, p.url)
           rows == Append(Without(table, p.url), p)
           sum  == Figure(old, p)
           out  == Evicted(rows, sum)
       IN IF Size(p.body) > TableCap
          THEN /\ table' = Without(table, p.url)
               /\ tableBytes' = tableBytes - Bytes(old) /\ UNCHANGED torn
          ELSE \E n \in 0..out :
                 /\ table' = SubSeq(rows, n + 1, Len(rows))
                 /\ tableBytes' = IF n = out THEN sum - Bytes(SubSeq(rows, 1, n)) ELSE sum
                 /\ torn' = IF n < out THEN "figure" ELSE IF torn = "size" THEN "no" ELSE torn
    /\ To(q, [at |-> "served", body |-> request[q].pair.body])
    /\ UNCHANGED <<content, memory, turns>>

(* An unreadable row, or a write that fails, leaves the table alone.       *)
SaveFails(q) ==
    /\ request[q].at = "save"
    /\ To(q, [at |-> "served", body |-> request[q].pair.body])
    /\ UNCHANGED <<content, memory, stored, turns>>

Done(q) == request[q].at = "served" /\ To(q, Resting) /\ UNCHANGED <<content, memory, stored, turns>>

-----------------------------------------------------------------------------
ContentMoves(u) ==
    /\ turns < MaxTurns /\ turns' = turns + 1
    /\ \E c \in Contents \ {content[u]} : content' = [content EXCEPT ![u] = c]
    /\ UNCHANGED <<memory, stored, request>>

(* A new process: the memory is empty, the figure measured (loadETagBytes). *)
EtagRestart ==
    /\ turns < MaxTurns /\ turns' = turns + 1
    /\ memory' = <<>> /\ request' = [q \in Requests |-> Resting]
    /\ tableBytes' = Bytes(table) /\ torn' = IF Bytes(table) > TableCap THEN "size" ELSE "no"
    /\ UNCHANGED <<content, table>>

RoundTrip(q) ==
    \/ \E u \in Urls : GetMemory(q, u)
    \/ Load(q) \/ Adopt(q) \/ ForgeAnswers(q) \/ RoundTripFails(q)
    \/ ServedFromCache(q) \/ MaybeCache(q) \/ SaveETag(q) \/ SaveFails(q) \/ Done(q)

EtagNext ==
    \/ \E q \in Requests : RoundTrip(q)
    \/ \E u \in Urls : ContentMoves(u)
    \/ EtagRestart

EtagSpec == EtagInit /\ [][EtagNext]_etagVars

-----------------------------------------------------------------------------
(* What a request is for its caller, who knows no copies: it waits until   *)
(* the forge answered, and is then given what the forge had.               *)
Asked(r) ==
    CASE r.at = "idle" -> [at |-> "idle"]
      [] r.at \in {"load", "adopt", "send"} -> [at |-> "asked", url |-> r.url]
      [] r.at \in {"unchanged", "fresh"} -> [at |-> "answered", body |-> r.now]
      [] r.at = "save" -> [at |-> "answered", body |-> r.pair.body]
      [] r.at = "served" -> [at |-> "answered", body |-> r.body]

(* Both stores stay within their limits, and the running figure of the     *)
(* table is its size.  Only a delete that failed during an eviction breaks *)
(* that: the figure is too high, never too low, until the next start, so   *)
(* the table is trimmed more than it needs to be; and the table may be too *)
(* large until an eviction after that start (evictETags,                   *)
(* cache.go:233-269).                                                      *)
CachesFit ==
    /\ Len(memory) <= MaxEntries /\ Bytes(memory) <= MaxBytes
    /\ Bytes(table) <= tableBytes
    /\ torn # "figure" => Bytes(table) = tableBytes
    /\ torn = "no" => tableBytes <= TableCap
=============================================================================
