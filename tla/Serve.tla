------------------------------- MODULE Serve -------------------------------
(***************************************************************************)
(* GET requests for one file of one version (internal/server/              *)
(* handler_get.go), over the block cache and the read-ahead                *)
(* (internal/preloader/preloader.go) that the requests start.  A response  *)
(* is made from the cache when every block of its range is there, and      *)
(* otherwise by a fetch, which stores the blocks as it goes.  The fetch is *)
(* the one of module Fetcher with what it does between blocks left out:    *)
(* a block is looked up or asked for, stored, and the reader hands over    *)
(* the bytes up to the first one missing.  Pins and the evictor's order    *)
(* are in module Cache; here a block may go at any time.                   *)
(***************************************************************************)
EXTENDS Integers, Sequences, FiniteSets

CONSTANTS BlockSize, FileSize,
          Headers,     \* Range headers, as <<first, last>> numbers, and NoHeader
          NoHeader,
          Absent,      \* a number that is left out of a Range header
          Handlers,    \* goroutines serving requests
          Ahead,       \* the read-ahead's goroutine
          MaxRequests  \* bound on requests

ASSUME SizeAssumption == BlockSize \in Nat \ {0} /\ FileSize \in Nat \ {0}
ASSUME HeadersAssumption ==
  Headers \subseteq {NoHeader} \cup (Nat \cup {Absent}) \X (Nat \cup {Absent})
ASSUME JobAssumption == IsFiniteSet(Handlers) /\ Ahead \notin Handlers /\ MaxRequests \in Nat

Jobs == Handlers \cup {Ahead}
Offsets == 0..(FileSize - 1)
Aligned == {o \in Offsets : o % BlockSize = 0}

VARIABLES cache,    \* bytes stored of each block, from its start; 0 when not cached
          pc,       \* "idle", "check", "flush", "fetch", "done"
          rng,      \* the job's start and end
          todo,     \* blocks it has yet to look up
          got,      \* bytes it holds of each block
          unput,    \* blocks it holds and has not stored yet
          status,   \* the code of the response's header, 0 before; 206 stands for the
                    \* 200 of a request without a Range header too
          body,     \* offsets of the bytes of the response
          written,  \* bytes a response from the cache has handed to net/http
          source,   \* what made the response: "none", "cache", "fetch", "error",
                    \* "panic", "unsized"
          alive,    \* the process is
          requests, asked  \* bound, and history: the ends of ranges fetched

vars == <<cache, pc, rng, todo, got, unput, status, body, written, source, alive, requests,
          asked>>
jobVars == <<pc, rng, todo, got, unput>>
responseVars == <<status, body, written, source>>

KeyFor(off) == off - (off % BlockSize)
Bytes(a, n) == [i \in 1..n |-> a + i - 1]
Least(a, b) == IF a <= b THEN a ELSE b
OnFile(o) == Least(BlockSize, FileSize - o)
Start(j) == rng[j][1]
End(j) == rng[j][2]
Want_OneShort(j, o) == Least(BlockSize, End(j) - o)
\* What a request for block o asks for: the block, up to the end of the range.
Want(j, o) == Least(BlockSize, End(j) - o + 1)
BlocksOf(r) == {o \in Aligned : KeyFor(r[1]) <= o /\ o <= r[2]}
ErrorText == << -1 >>       \* "fetch failed" in a body
noRange == <<0, 0>>
nothing == [o \in Aligned |-> 0]

Init ==
  /\ cache = nothing
  /\ pc = [j \in Jobs |-> "idle"]
  /\ rng = [j \in Jobs |-> noRange]
  /\ todo = [j \in Jobs |-> {}] /\ unput = [j \in Jobs |-> {}]
  /\ got = [j \in Jobs |-> nothing]
  /\ status = [h \in Handlers |-> 0] /\ body = [h \in Handlers |-> << >>]
  /\ written = [h \in Handlers |-> 0] /\ source = [h \in Handlers |-> "none"]
  /\ alive = TRUE /\ requests = 0 /\ asked = {}

-----------------------------------------------------------------------------
(* Writing the response (net/http): a header is sent once, and a write that *)
(* would take the body past its Content-Length is refused whole.            *)

writeHeader(h, code) == IF status[h] = 0 THEN code ELSE status[h]

\* A header with a negative Content-Length is dropped: no limit then.
ContentLength(h) == End(h) - Start(h) + 1
Write(h, seg) ==
  LET n == written[h] + Len(seg)
      refused == ContentLength(h) >= 0 /\ n > ContentLength(h)
  IN  /\ written' = [written EXCEPT ![h] = n]
      /\ body' = [body EXCEPT ![h] = IF refused THEN @ ELSE @ \o seg]

\* flushCachedBlocks: where in block o the range starts, and what it writes of it.
SegStart_Zero(h, o) == 0
SegStart(h, o) == IF o < Start(h) THEN Start(h) - o ELSE 0
Seg_Unclipped(h, o) == Bytes(o + SegStart(h, o), got[h][o] - SegStart(h, o))
Seg(h, o) ==
  LET s == SegStart(h, o)
      n == got[h][o] - s
  IN  Bytes(o + s, IF o + n - 1 > End(h) THEN End(h) - o + 1 ELSE n)

\* orderedReader: the bytes up to the first one that its block does not have.
Reach(j) ==
  CHOOSE x \in Start(j)..(End(j) + 1) :
    /\ x = End(j) + 1 \/ x - KeyFor(x) >= got[j][KeyFor(x)]
    /\ \A y \in Start(j)..(x - 1) : y - KeyFor(y) < got[j][KeyFor(y)]
Streamed(j) == IF Start(j) > End(j) THEN << >> ELSE Bytes(Start(j), Reach(j) - Start(j))
\* The slice of a block that ends before the position in it.
ReadPanics(j) ==
  Start(j) <= End(j) /\ got[j][KeyFor(Start(j))] \in 1..(Start(j) - KeyFor(Start(j)) - 1)

-----------------------------------------------------------------------------
(* handleGet.                                                              *)

\* What a Range header asks for: no start is 0, no end is the last byte, and so is an end
\* past it.  (A header with an end only counts from the start of the file.  Text that is
\* not a number is read as 0.)
RangeOf(header) ==
  <<IF header = NoHeader \/ header[1] = Absent THEN 0 ELSE header[1],
    IF header = NoHeader \/ header[2] = Absent THEN FileSize - 1
    ELSE Least(header[2], FileSize - 1)>>

\* A request; the file's version and size are known.
Request(h, header) ==
  /\ pc[h] = "idle" /\ requests < MaxRequests /\ requests' = requests + 1
  /\ pc' = [pc EXCEPT ![h] = "check"]
  /\ rng' = [rng EXCEPT ![h] = RangeOf(header)]
  /\ todo' = [todo EXCEPT ![h] = BlocksOf(RangeOf(header))]
  /\ UNCHANGED <<cache, got, unput, responseVars, alive, asked>>

\* HEAD failed and no size is known: the header, and nothing else.
RequestUnsized(h) ==
  /\ pc[h] = "idle" /\ requests < MaxRequests /\ requests' = requests + 1
  /\ pc' = [pc EXCEPT ![h] = "done"]
  /\ status' = [status EXCEPT ![h] = writeHeader(h, 200)]
  /\ source' = [source EXCEPT ![h] = "unsized"]
  /\ UNCHANGED <<cache, rng, todo, got, unput, body, written, alive, asked>>

\* Blocks are gone through in the file's order.
IsNext(h, o) == \A p \in todo[h] : o <= p

\* One Get of the all-hit loop; the first miss makes it a fetch, which looks the
\* blocks up anew.  The header goes out before either.
CheckBlock(h) ==
  /\ pc[h] = "check"
  /\ \E o \in todo[h] :
       /\ IsNext(h, o)
       /\ \/ /\ cache[o] > 0
             /\ got' = [got EXCEPT ![h][o] = cache[o]]
             /\ todo' = [todo EXCEPT ![h] = @ \ {o}]
             /\ UNCHANGED <<pc, status, asked>>
          \/ /\ cache[o] = 0
             /\ got' = [got EXCEPT ![h] = nothing]
             /\ todo' = [todo EXCEPT ![h] = BlocksOf(rng[h])]
             /\ pc' = [pc EXCEPT ![h] = "fetch"]
             /\ status' = [status EXCEPT ![h] = writeHeader(h, 206)]
             /\ asked' = asked \cup {End(h)}
  /\ UNCHANGED <<cache, rng, unput, body, written, source, alive, requests>>

\* The read-ahead: from a block past the end of the response, two blocks on and one
\* byte; not when it is still at work for this file, and only if it gets a slot.
AheadFrom(pos) == pos + BlockSize
AheadTo_Unclamped(pos) == AheadFrom(pos) + 2 * BlockSize
AheadTo(pos) == Least(AheadFrom(pos) + 2 * BlockSize, FileSize - 1)
OnRead(h, pos) ==
  \/ /\ pc' = [pc EXCEPT ![h] = "done"]
     /\ UNCHANGED <<rng, todo, asked>>
  \/ /\ pc[Ahead] = "idle" /\ AheadFrom(pos) < FileSize
     /\ pc' = [pc EXCEPT ![h] = "done", ![Ahead] = "fetch"]
     /\ rng' = [rng EXCEPT ![Ahead] = <<AheadFrom(pos), AheadTo(pos)>>]
     /\ todo' = [todo EXCEPT ![Ahead] = BlocksOf(<<AheadFrom(pos), AheadTo(pos)>>)]
     /\ asked' = asked \cup {AheadTo(pos)}

\* Every block was there (or the range has none): flushCachedBlocks writes them from
\* memory, a block at a time.
StartFlush(h) ==
  /\ pc[h] = "check" /\ todo[h] = {}
  /\ pc' = [pc EXCEPT ![h] = "flush"]
  /\ todo' = [todo EXCEPT ![h] = BlocksOf(rng[h])]
  /\ status' = [status EXCEPT ![h] = writeHeader(h, 206)]
  /\ source' = [source EXCEPT ![h] = "cache"]
  /\ UNCHANGED <<cache, rng, got, unput, body, written, alive, requests, asked>>

FlushBlock(h) ==
  /\ pc[h] = "flush"
  /\ \E o \in todo[h] :
       /\ IsNext(h, o)
       /\ \/ /\ SegStart(h, o) > got[h][o]
             /\ source' = [source EXCEPT ![h] = "panic"]
             /\ pc' = [pc EXCEPT ![h] = "done"] /\ todo' = [todo EXCEPT ![h] = {}]
             /\ UNCHANGED <<body, written>>
          \/ /\ SegStart(h, o) <= got[h][o]
             /\ Write(h, Seg(h, o))
             /\ todo' = [todo EXCEPT ![h] = @ \ {o}]
             /\ UNCHANGED <<pc, source>>
  /\ UNCHANGED <<cache, rng, got, unput, status, alive, requests, asked>>

FlushEnds(h) ==
  /\ pc[h] = "flush" /\ todo[h] = {}
  /\ OnRead(h, End(h))
  /\ UNCHANGED <<cache, got, unput, responseVars, alive, requests>>

-----------------------------------------------------------------------------
(* Fetch, for a response or for the read-ahead.                            *)

IsFirst(j, o) == o = KeyFor(Start(j))
Probed(j) == KeyFor(Start(j)) \notin todo[j]

\* fetchBlock: from the cache, or from an upstream that gives what is asked for.
Obtain(j, o) ==
  /\ pc[j] = "fetch" /\ o \in todo[j]
  /\ IsFirst(j, o) \/ Probed(j)
  /\ got' = [got EXCEPT ![j][o] = IF cache[o] > 0 THEN cache[o]
                                  ELSE Least(Want(j, o), OnFile(o))]
  /\ todo' = [todo EXCEPT ![j] = @ \ {o}]
  /\ unput' = [unput EXCEPT ![j] = @ \cup {o}]
  /\ UNCHANGED <<cache, pc, rng, responseVars, alive, requests, asked>>

\* cache.Put, which may skip the block, after whatever others did meanwhile.
Store(j, o) ==
  /\ pc[j] = "fetch" /\ o \in unput[j]
  /\ cache' \in {cache, [cache EXCEPT ![o] = got[j][o]]}
  /\ unput' = [unput EXCEPT ![j] = @ \ {o}]
  /\ UNCHANGED <<pc, rng, todo, got, responseVars, alive, requests, asked>>

\* Every attempt at a block failed.  After the probe the reader fails where the
\* block is missing; the probe itself makes Fetch return an error.
FetchFails(j) ==
  /\ pc[j] = "fetch" /\ unput[j] = {} /\ todo[j] # {}
  /\ \/ /\ Probed(j)
        /\ todo' = [todo EXCEPT ![j] = {}]
        /\ UNCHANGED <<pc, rng, responseVars>>
     \/ /\ ~Probed(j) /\ j = Ahead
        /\ pc' = [pc EXCEPT ![j] = "idle"] /\ todo' = [todo EXCEPT ![j] = {}]
        /\ rng' = [rng EXCEPT ![j] = noRange]
        /\ UNCHANGED responseVars
     \/ /\ ~Probed(j) /\ j # Ahead
        /\ pc' = [pc EXCEPT ![j] = "done"] /\ todo' = [todo EXCEPT ![j] = {}]
        /\ status' = [status EXCEPT ![j] = writeHeader(j, 502)]
        /\ body' = [body EXCEPT ![j] = @ \o ErrorText]
        /\ source' = [source EXCEPT ![j] = "error"] /\ UNCHANGED <<rng, written>>
  /\ UNCHANGED <<cache, got, unput, alive, requests, asked>>

\* io.Copy to the client; a panic of the reader is the handler's, and net/http ends
\* the connection.
Copied(h) ==
  /\ h # Ahead /\ pc[h] = "fetch" /\ todo[h] = {} /\ unput[h] = {}
  /\ \/ /\ ReadPanics(h)
        /\ source' = [source EXCEPT ![h] = "panic"] /\ body' = body
        /\ pc' = [pc EXCEPT ![h] = "done"] /\ UNCHANGED <<rng, todo, asked>>
     \/ /\ ~ReadPanics(h)
        /\ source' = [source EXCEPT ![h] = "fetch"]
        /\ body' = [body EXCEPT ![h] = Streamed(h)]
        /\ OnRead(h, End(h))
  /\ UNCHANGED <<cache, got, unput, status, written, alive, requests>>

\* A job that is over leaves nothing behind.
Forget(j) ==
  /\ pc' = [pc EXCEPT ![j] = "idle"]
  /\ rng' = [rng EXCEPT ![j] = noRange] /\ got' = [got EXCEPT ![j] = nothing]

\* The read-ahead's goroutine reads to the end; a panic in it ends the process.
AheadEnds ==
  /\ pc[Ahead] = "fetch" /\ todo[Ahead] = {} /\ unput[Ahead] = {}
  /\ alive' = ~ReadPanics(Ahead)
  /\ Forget(Ahead)
  /\ UNCHANGED <<cache, todo, unput, responseVars, requests, asked>>

\* The response is out, and the goroutine ends; its name is free for another.
Done(h) ==
  /\ pc[h] = "done"
  /\ Forget(h)
  /\ status' = [status EXCEPT ![h] = 0]
  /\ body' = [body EXCEPT ![h] = << >>] /\ written' = [written EXCEPT ![h] = 0]
  /\ source' = [source EXCEPT ![h] = "none"]
  /\ UNCHANGED <<cache, todo, unput, alive, requests, asked>>

Evict(o) ==
  /\ cache[o] > 0 /\ cache' = [cache EXCEPT ![o] = 0]
  /\ UNCHANGED <<jobVars, responseVars, alive, requests, asked>>

Handler(h) ==
  \/ \E header \in Headers : Request(h, header)
  \/ RequestUnsized(h) \/ CheckBlock(h)
  \/ StartFlush(h) \/ FlushBlock(h) \/ FlushEnds(h) \/ Copied(h) \/ Done(h)
Job(j) == \E o \in Aligned : Obtain(j, o) \/ Store(j, o)

Next ==
  /\ alive
  /\ \/ \E h \in Handlers : Handler(h)
     \/ \E j \in Jobs : Job(j) \/ FetchFails(j)
     \/ AheadEnds
     \/ \E o \in Aligned : Evict(o)

Spec == Init /\ [][Next]_vars

-----------------------------------------------------------------------------
(* Properties.                                                             *)

\* Every variable keeps its type.
TypeOK ==
  /\ cache \in [Aligned -> 0..BlockSize]
  /\ pc \in [Jobs -> {"idle", "check", "flush", "fetch", "done"}]
  /\ rng \in [Jobs -> Nat \X Offsets]
  /\ todo \in [Jobs -> SUBSET Aligned] /\ unput \in [Jobs -> SUBSET Aligned]
  /\ got \in [Jobs -> [Aligned -> 0..BlockSize]]
  /\ status \in [Handlers -> {0, 200, 206, 502}]
  /\ body \in [Handlers -> Seq(Offsets \cup {-1})]
  /\ written \in [Handlers -> Nat]
  /\ source \in [Handlers -> {"none", "cache", "fetch", "error", "panic", "unsized"}]
  /\ alive \in BOOLEAN /\ requests \in Nat /\ asked \subseteq Offsets

\* A cached block is whole, or it is the tail of some range that was fetched: races
\* of stores, evictions and read-aheads cut no block anywhere else.
PartialIsATail ==
  \A o \in Aligned : cache[o] \in {0, OnFile(o)} \/ o + cache[o] - 1 \in asked

\* A response made of file bytes has them in order, each once and of its range,
\* even when it was made from partial blocks (flushCachedBlocks, orderedReader).
BodyInOrder ==
  \A h \in Handlers : source[h] \in {"cache", "fetch"} /\ Start(h) <= End(h) =>
    /\ \A i \in DOMAIN body[h] : body[h][i] \in Start(h)..End(h)
    /\ \A i \in 2..Len(body[h]) : body[h][i - 1] < body[h][i]

\* Whole blocks give a whole response, unless the range begins and ends inside one
\* block (see HitSendsAll).
WholeHitIsExact ==
  \A h \in Handlers :
    /\ pc[h] = "done" /\ source[h] = "cache" /\ Start(h) <= End(h)
    /\ \A o \in BlocksOf(rng[h]) : got[h][o] = OnFile(o)
    /\ Start(h) = KeyFor(Start(h)) \/ End(h) >= KeyFor(Start(h)) + BlockSize - 1
    => body[h] = Bytes(Start(h), ContentLength(h))

\* docs: a cache hit never sends fewer bytes than its Content-Length.
HitSendsAll ==
  \A h \in Handlers : pc[h] = "done" /\ source[h] = "cache" /\ Start(h) <= End(h)
                       => Len(body[h]) = ContentLength(h)

\* docs: a failure of the read-ahead leaves the responses alone.
SidePathHarmless == alive
=============================================================================
