------------------------------ MODULE DenoBuffers ------------------------------
(***************************************************************************)
(* Results that do not fit the buffer JavaScript offers (iroh-http-deno       *)
(* lib.rs, adapter.ts).  The library answers with the size it needs, and      *)
(* JavaScript asks again with a buffer of that size.  A response of           *)
(* iroh_http_call waits in the overflow cache, a finished fetch in the        *)
(* results, a stream error in its cache; body chunks are read by the helper   *)
(* readChunk, first by iroh_http_try_next_chunk, then by                      *)
(* iroh_http_next_chunk.                                                     *)
(***************************************************************************)
EXTENDS Naturals, Sequences, FiniteSets, TLC

CONSTANTS BCall,          \* calls
          BufPlans,       \* plans: each call's kind and size, and the sizes of the chunks
          MaxOverflow,    \* OVERFLOW_MAX_ENTRIES
          Hint,           \* the size JavaScript offers first (outBufHint, chunkBufHint)
          MaxChunkBuf     \* MAX_CHUNK_BUF, up to which chunkBufHint grows

ASSUME BufferAssumption == MaxOverflow \in Nat

VARIABLES bcall,      \* bcall[b]: [kind, size, buf, at] of a call
          overflow,   \* the overflow cache, oldest entry first
          evicted,    \* history: the calls whose entry was evicted
          tasks,      \* fetch_registry
          results,    \* fetch_results
          errors,     \* stream_errors
          chunks,     \* the chunks in the body channel: [id, size]
          rd          \* readChunk: where it is, its buffer, chunkBufHint, the chunk whose
                      \* size it was told, and the ids it has returned

bufferVars == <<bcall, overflow, evicted, tasks, results, errors, chunks, rd>>

BufferInit ==
    \E p \in BufPlans :
        /\ bcall = [b \in BCall |-> [kind |-> p.calls[b][1], size |-> p.calls[b][2],
                                     buf |-> Hint, at |-> "idle"]]
        /\ overflow = <<>> /\ evicted = {} /\ tasks = {} /\ results = {} /\ errors = {}
        /\ chunks = [i \in DOMAIN p.chunks |-> [id |-> i, size |-> p.chunks[i]]]
        /\ rd = [at |-> "try", buf |-> Hint, hint |-> Hint, told |-> 0, out |-> <<>>]

BAt(b, l) == bcall[b].at = l

BTo(b, l) == bcall' = [bcall EXCEPT ![b].at = l]

Fits(b) == bcall[b].size <= bcall[b].buf

\* The answer is the size; the next attempt brings a buffer of that size.
Told(b) == bcall' = [bcall EXCEPT ![b].at = "told", ![b].buf = bcall[b].size]

---------------------------------------------------------------------------
(* iroh_http_call.                                                         *)

\* What is left of the cache when its n oldest entries have expired.
evict_overflow(n) ==
    LET live == SubSeq(overflow, n + 1, Len(overflow))
    IN  IF Len(live) > MaxOverflow THEN SubSeq(live, Len(live) - MaxOverflow + 1, Len(live)) ELSE live

InSeq(q) == {q[i] : i \in DOMAIN q}

\* The command runs; a response that is too large is cached under a token.
iroh_http_call(b) ==
    /\ BAt(b, "idle") /\ bcall[b].kind = "call"
    /\ IF Fits(b) THEN BTo(b, "got") /\ UNCHANGED <<overflow, evicted>>
       ELSE /\ Told(b)
            /\ \E n \in 0..Len(overflow) :
                 LET kept == evict_overflow(n)
                 IN  /\ overflow' = Append(kept, b)
                     /\ evicted' = evicted \cup (InSeq(overflow) \ InSeq(kept))
    /\ UNCHANGED <<tasks, results, errors, chunks, rd>>

\* The method "__cached": the entry is removed and returned, or was evicted.
Cached(b) ==
    /\ BAt(b, "told") /\ bcall[b].kind = "call"
    /\ \/ \E i \in DOMAIN overflow :
            /\ overflow[i] = b
            /\ overflow' = SubSeq(overflow, 1, i - 1) \o SubSeq(overflow, i + 1, Len(overflow))
            /\ BTo(b, "got")
       \/ b \notin InSeq(overflow) /\ BTo(b, "failed") /\ UNCHANGED overflow
    /\ UNCHANGED <<evicted, tasks, results, errors, chunks, rd>>

---------------------------------------------------------------------------
(* Fetches: iroh_http_start_fetch_cb stores the result before it calls back;  *)
(* iroh_http_start_fetch leaves the task for iroh_http_poll_fetch.            *)

start_fetch(b) ==
    /\ BAt(b, "idle") /\ bcall[b].kind \in {"callback", "polled"} /\ BTo(b, "running")
    /\ tasks' = IF bcall[b].kind = "polled" THEN tasks \cup {b} ELSE tasks
    /\ UNCHANGED <<overflow, evicted, results, errors, chunks, rd>>

FetchFinishes(b) ==
    /\ BAt(b, "running") /\ BTo(b, "ready")
    /\ results' = IF bcall[b].kind = "callback" THEN results \cup {b} ELSE results
    /\ UNCHANGED <<overflow, evicted, tasks, errors, chunks, rd>>

\* Fault: a result that does not fit is not put back.
poll_fetch_drops(b) ==
    /\ BAt(b, "ready") \/ (BAt(b, "told") /\ bcall[b].kind \in {"callback", "polled"})
    /\ CASE b \notin results \cup tasks -> BTo(b, "failed") /\ UNCHANGED <<results, tasks>>
         [] b \in results \cup tasks ->
              /\ tasks' = tasks \ {b} /\ results' = results \ {b}
              /\ IF Fits(b) THEN BTo(b, "got") ELSE Told(b)
    /\ UNCHANGED <<overflow, evicted, errors, chunks, rd>>

\* A result that does not fit is kept, whether it came from the map or the task.
poll_fetch(b) ==
    /\ BAt(b, "ready") \/ (BAt(b, "told") /\ bcall[b].kind \in {"callback", "polled"})
    /\ CASE b \notin results \cup tasks -> BTo(b, "failed") /\ UNCHANGED <<results, tasks>>
         [] b \in results \cup tasks ->
              /\ tasks' = tasks \ {b}
              /\ IF Fits(b) THEN BTo(b, "got") /\ results' = results \ {b}
                 ELSE Told(b) /\ results' = results \cup {b}
    /\ UNCHANGED <<overflow, evicted, errors, chunks, rd>>

---------------------------------------------------------------------------
(* Stream errors.                                                          *)

record_stream_error(b) ==
    /\ BAt(b, "idle") /\ bcall[b].kind = "error" /\ BTo(b, "failing")
    /\ errors' = errors \cup {b}
    /\ UNCHANGED <<overflow, evicted, tasks, results, chunks, rd>>

take_last_stream_error(b) ==
    /\ BAt(b, "failing") \/ (BAt(b, "told") /\ bcall[b].kind = "error")
    /\ CASE b \notin errors -> BTo(b, "failed") /\ UNCHANGED errors
         [] b \in errors /\ Fits(b) -> BTo(b, "got") /\ errors' = errors \ {b}
         [] b \in errors /\ ~Fits(b) -> Told(b) /\ UNCHANGED errors
    /\ UNCHANGED <<overflow, evicted, tasks, results, chunks, rd>>

---------------------------------------------------------------------------
(* Body chunks.  The chunk has left the channel when its size is looked at.  *)

Larger(m, n) == IF m > n THEN m ELSE n
Smaller(m, n) == IF m < n THEN m ELSE n

\* One read with rd.buf: next is where a chunk that does not fit leads.
TakeChunk(next) ==
    LET c == Head(chunks)
        fits == c.size <= rd.buf
        grown == Smaller(Larger(rd.hint, c.size), MaxChunkBuf)
    IN  /\ chunks' = Tail(chunks)
        /\ rd' = IF fits
                 THEN [at |-> "try", buf |-> grown, hint |-> grown, told |-> 0, out |-> Append(rd.out, c.id)]
                 ELSE [rd EXCEPT !.at = next, !.told = IF rd.told = 0 THEN c.id ELSE @,
                                 !.buf = IF next = "async" THEN rd.hint ELSE c.size]

EndOfBody == rd' = [rd EXCEPT !.at = "eof"] /\ UNCHANGED chunks

\* The synchronous read, and once more with a larger buffer.  It may come before
\* the next chunk has arrived.
try_next_chunk ==
    /\ rd.at \in {"try", "retry"}
    /\ \/ chunks # <<>> /\ TakeChunk(IF rd.at = "try" THEN "retry" ELSE "async")
       \/ chunks = <<>> /\ EndOfBody
       \/ rd' = [rd EXCEPT !.at = "async", !.buf = rd.hint] /\ UNCHANGED chunks
    /\ UNCHANGED <<bcall, overflow, evicted, tasks, results, errors>>

\* The asynchronous read, likewise.  A second chunk that is too large makes readChunk
\* return what is in the buffer, which is nobody's data.
next_chunk ==
    /\ rd.at \in {"async", "again"}
    /\ IF chunks # <<>> THEN TakeChunk(IF rd.at = "async" THEN "again" ELSE "garbage") ELSE EndOfBody
    /\ UNCHANGED <<bcall, overflow, evicted, tasks, results, errors>>

---------------------------------------------------------------------------

BufferStep(b) ==
    \/ iroh_http_call(b) \/ Cached(b) \/ start_fetch(b) \/ FetchFinishes(b) \/ poll_fetch(b)
    \/ record_stream_error(b) \/ take_last_stream_error(b)

BufferNext == (\E b \in BCall : BufferStep(b)) \/ try_next_chunk \/ next_chunk

---------------------------------------------------------------------------
(* Properties.                                                             *)

\* A result whose size JavaScript was told is still there when it asks again; only
\* the overflow cache gives entries up, and it holds at most one more than its
\* limit (poll_fetch, take_last_stream_error, iroh_http_call, evict_overflow).
ToldIsKept ==
    /\ \A b \in BCall : BAt(b, "told") =>
         CASE bcall[b].kind = "call"  -> b \in InSeq(overflow) \cup evicted
           [] bcall[b].kind = "error" -> b \in errors
           [] OTHER                   -> b \in results
    /\ Len(overflow) <= MaxOverflow + 1

\* The chunk whose size JavaScript was told is the one the next read returns:
\* "|n| bytes required; caller must retry with a larger buffer"
\* (iroh_http_next_chunk, iroh_http_try_next_chunk).
RetryGetsChunk == [][rd.told # 0 /\ Len(rd'.out) > Len(rd.out) => rd'.out[Len(rd'.out)] = rd.told]_bufferVars
=============================================================================
