------------------------------ MODULE Fetcher ------------------------------
(***************************************************************************)
(* One call of Fetcher.Fetch and the orderedReader it returns              *)
(* (internal/fetcher/fetcher.go, seekable.go): the caller probes the first *)
(* block, then either workers pull the other blocks in parallel or one     *)
(* goroutine streams the whole file, while the client reads the blocks in  *)
(* file order.  A block is keyed by the file offset it is stored under,    *)
(* and its data is the interval of file offsets it holds.                  *)
(*                                                                         *)
(* The cache starts with whatever earlier fetches, other fetches and the   *)
(* evictor may have left: a fetch looks each block up once, so later       *)
(* changes made by others cannot be told from an initial difference.       *)
(***************************************************************************)
EXTENDS Integers, Sequences, FiniteSets

CONSTANTS BlockSize,   \* bytes of a block (CacheBlockSize)
          MaxOff,      \* bound on file offsets
          FileSize,    \* bytes of the upstream file
          Ranges,      \* the <<first, last>> byte ranges asked for
          MaxWorkers,  \* bound on the planned concurrency
          BufSize,     \* bytes the client reads at a time
          Retries,     \* further attempts of fetchBlock
          CachedLens,  \* lengths of blocks that earlier fetches left
          NoBlock      \* no data

Offsets == 0..MaxOff
Data == [from : Offsets, len : 0..BlockSize]

ASSUME SizesAssumption ==
  /\ BlockSize \in Nat \ {0} /\ MaxOff \in Nat /\ BufSize \in Nat \ {0}
  /\ FileSize \in 0..(MaxOff + 1)
  /\ MaxWorkers \in Nat \ {0} /\ Retries \in Nat
ASSUME RangesAssumption == Ranges \subseteq Offsets \X Offsets
ASSUME CachedAssumption == CachedLens \subseteq 1..BlockSize
ASSUME NoBlockAssumption == NoBlock \notin Data

Aligned == {o \in Offsets : o % BlockSize = 0}
Caller == 0                      \* the goroutine that calls Fetch
Workers == 1..MaxWorkers
Threads == {Caller} \cup Workers

VARIABLES range,      \* plan.Start, plan.End
          planN,      \* plan.N
          profile,    \* what decideN tells apart in the sub-source's profile
          cancelled,  \* ctx.Err() != nil
          cache,      \* the file's cached blocks
          pc, todo,   \* each goroutine's place, and the blocks it has left
          tries,      \* failed attempts at the current block
          waiter,     \* the goroutine in wg.Wait: "off", "wait", "done"
          total,      \* totalBytes
          nextOff, blocks, closed, err,   \* the orderedReader
          rpc,        \* the client: "none", "call", "wait", "woken", "stopped", "closed"
          timer,      \* its timer: "off", "armed", "fired" (broadcast), "done" (closed)
          out,        \* history: offsets of the bytes read so far
          result,     \* how the reading ended
          cut         \* history: a source gave fewer bytes than the range wants

planVars == <<range, planN>>
threadVars == <<pc, todo, tries>>
clientVars == <<timer, out, result>>
vars == <<range, planN, profile, cancelled, cache, pc, todo, tries, waiter, total,
          nextOff, blocks, closed, err, rpc, timer, out, result, cut>>

Start == range[1]
End == range[2]

Least(a, b) == IF a <= b THEN a ELSE b
KeyFor(off) == off - (off % BlockSize)
Bytes(a, n) == [i \in 1..n |-> a + i - 1]

\* The block offsets of a fetch.
Offs == {o \in Aligned : KeyFor(Start) <= o /\ o <= End}
\* Bytes of block o that a request asks for: never past the end of the range.
Want(o) == Least(BlockSize, End - o + 1)
\* Bytes of block o that the file has.
OnFile(o) == Least(BlockSize, FileSize - o)
Piece(o, k) == [from |-> o, len |-> k]

\* Worker w's share of the blocks after the first one, dealt round-robin to n.
Assigned(w, n) ==
  {o \in Offs \ {KeyFor(Start)} :
     ((o - KeyFor(Start)) \div BlockSize - 1) % n = w - 1}

\* The number of workers once the first block is in.
decideN == LET n == IF planN > 1 /\ profile = "throttled" THEN 1 ELSE planN
           IN  Least(n, Cardinality(Offs))

IsNext(t, o) == o \in todo[t] /\ \A x \in todo[t] : o <= x

Init ==
  /\ range \in Ranges
  /\ planN \in Workers
  /\ profile \in {"open", "throttled"}
  /\ cancelled = FALSE
  /\ cache \in [Aligned -> {NoBlock} \cup {Piece(o, k) : o \in Aligned, k \in CachedLens}]
  /\ \A o \in Aligned : cache[o] # NoBlock => cache[o].from = o /\ cache[o].len <= OnFile(o)
  /\ pc = [t \in Threads |-> IF t = Caller THEN "lookup" ELSE "idle"]
  /\ todo = [t \in Threads |-> IF t = Caller THEN {KeyFor(Start)} ELSE {}]
  /\ tries = [t \in Threads |-> 0]
  /\ waiter = "off" /\ total = 0
  /\ nextOff = Start
  /\ blocks = [o \in Aligned |-> NoBlock]
  /\ closed = FALSE /\ err = FALSE
  /\ rpc = "none" /\ timer = "off"
  /\ out = << >> /\ result = "none"
  /\ cut = (FileSize <= End)

-----------------------------------------------------------------------------
(* The ways a goroutine touches the reader: each broadcasts under its lock. *)

Woken_Lost == rpc
Woken == IF rpc = "wait" THEN "woken" ELSE rpc

put(o, d) == blocks' = [blocks EXCEPT ![o] = d] /\ rpc' = Woken
close_NoFlag == closed' = closed /\ rpc' = Woken
close == closed' = TRUE /\ rpc' = Woken
fail_StaysOpen(t) ==
  /\ pc[t] = "fail"
  /\ closed' = closed /\ rpc' = Woken /\ err' = TRUE
  /\ pc' = [pc EXCEPT ![t] = "done"]
  /\ UNCHANGED <<planVars, profile, cancelled, cache, todo, tries, waiter, total,
                 nextOff, blocks, clientVars, cut>>
fail(t) ==
  /\ pc[t] = "fail"
  /\ close /\ err' = TRUE
  /\ pc' = [pc EXCEPT ![t] = "done"]
  /\ UNCHANGED <<planVars, profile, cancelled, cache, todo, tries, waiter, total,
                 nextOff, blocks, clientVars, cut>>

\* cache.Put skips the block when the cache is too full.
CachePut_Advanced(o, d) ==
  cache' \in {cache, [x \in Aligned |-> IF x = o + BlockSize THEN d ELSE cache[x]]}
CachePut(o, d) == cache' \in {cache, [cache EXCEPT ![o] = d]}

\* The first block is in: put it into a new reader and start the workers.
Launch(o, d) ==
  /\ CachePut(o, d)
  /\ blocks' = [blocks EXCEPT ![o] = d] /\ rpc' = "call"
  /\ LET n == decideN IN
       /\ todo' = [t \in Threads |-> IF t \in 1..n THEN Assigned(t, n) ELSE {}]
       /\ pc' = [t \in Threads |->
                   IF t \in 1..n /\ Assigned(t, n) # {} THEN "lookup" ELSE "done"]
  /\ waiter' = "wait"
  /\ UNCHANGED <<planVars, profile, cancelled, tries, total, nextOff, closed, err,
                 clientVars>>

\* A worker has its block: cache it, hand it to the reader, go on.
Deliver(t, o, d) ==
  /\ CachePut(o, d)
  /\ put(o, d)
  /\ total' = total + d.len
  /\ todo' = [todo EXCEPT ![t] = @ \ {o}]
  /\ pc' = [pc EXCEPT ![t] = IF todo[t] = {o} THEN "done" ELSE "lookup"]
  /\ UNCHANGED <<planVars, profile, cancelled, tries, waiter, nextOff, closed, err,
                 clientVars>>

Obtained(t, o, d) ==
  /\ cut' = (cut \/ d.len < Want(o))
  /\ \/ t = Caller /\ Launch(o, d)
     \/ t # Caller /\ Deliver(t, o, d)

\* fetchBlock returns an error: the probe makes Fetch fail, a worker goes on to
\* fail the reader.
GiveUp(t) ==
  /\ pc' = [pc EXCEPT ![t] = IF t = Caller THEN "done" ELSE "fail"]
  /\ result' = IF t = Caller THEN "refused" ELSE result
  /\ UNCHANGED <<planVars, cancelled, cache, todo, waiter, total, nextOff, blocks,
                 closed, err, rpc, timer, out, cut>>

-----------------------------------------------------------------------------
(* Goroutines of the fetch.                                                *)

\* A range with no block in it: an empty body.
EmptyFetch ==
  /\ pc[Caller] = "lookup" /\ Offs = {}
  /\ pc' = [pc EXCEPT ![Caller] = "done"]
  /\ result' = "eof" /\ rpc' = "closed"
  /\ UNCHANGED <<planVars, profile, cancelled, cache, todo, tries, waiter, total,
                 nextOff, blocks, closed, err, timer, out, cut>>

\* fetchBlock looks the cache up; a worker first looks at the context.
Lookup(t, o) ==
  /\ pc[t] = "lookup" /\ Offs # {} /\ IsNext(t, o)
  /\ t = Caller \/ ~cancelled
  /\ \/ cache[o] # NoBlock /\ Obtained(t, o, cache[o])
     \/ /\ cache[o] = NoBlock
        /\ pc' = [pc EXCEPT ![t] = "try"]
        /\ tries' = [tries EXCEPT ![t] = 0]
        /\ UNCHANGED <<planVars, profile, cancelled, cache, todo, waiter, total,
                       nextOff, blocks, closed, err, rpc, clientVars, cut>>

WorkerCancelled(t) ==
  /\ t # Caller /\ pc[t] = "lookup" /\ cancelled
  /\ GiveUp(t) /\ UNCHANGED <<profile, tries>>

\* The head of the retry loop.  The request itself does not carry the context.
Attempt(t) ==
  /\ pc[t] = "try" /\ UNCHANGED <<profile, tries>>
  /\ \/ cancelled /\ GiveUp(t)
     \/ /\ ~cancelled /\ pc' = [pc EXCEPT ![t] = "asked"]
        /\ UNCHANGED <<planVars, cancelled, cache, todo, waiter, total, nextOff,
                       blocks, closed, err, rpc, clientVars, cut>>

\* A 206 whose body has k bytes of the block; fewer than the file has when the
\* upstream stopped early, which fetchBlock accepts.
Answer206(t, o, k) ==
  /\ pc[t] = "asked" /\ IsNext(t, o)
  /\ k <= Want(o) /\ k <= OnFile(o)
  /\ Obtained(t, o, Piece(o, k))

AnswerError_OneMore(t) ==
  /\ pc[t] = "asked"
  /\ profile' \in {profile, "throttled"}
  /\ tries' = [tries EXCEPT ![t] = @ + 1]
  /\ \/ tries[t] > Retries /\ GiveUp(t)
     \/ /\ tries[t] <= Retries /\ pc' = [pc EXCEPT ![t] = "try"]
        /\ UNCHANGED <<planVars, cancelled, cache, todo, waiter, total, nextOff,
                       blocks, closed, err, rpc, clientVars, cut>>

\* Any other answer, or none; 429 and 503 mark the source throttled.
AnswerError(t) ==
  /\ pc[t] = "asked"
  /\ profile' \in {profile, "throttled"}
  /\ tries' = [tries EXCEPT ![t] = @ + 1]
  /\ \/ tries[t] = Retries /\ GiveUp(t)
     \/ /\ tries[t] < Retries /\ pc' = [pc EXCEPT ![t] = "try"]
        /\ UNCHANGED <<planVars, cancelled, cache, todo, waiter, total, nextOff,
                       blocks, closed, err, rpc, clientVars, cut>>

\* A 200: no Range support.  The probe falls back to the whole file, a worker fails.
Answer200(t) ==
  /\ pc[t] = "asked" /\ UNCHANGED <<profile, tries>>
  /\ \/ t # Caller /\ GiveUp(t)
     \/ /\ t = Caller
        /\ pc' = [u \in Threads |-> IF u = 1 THEN "get" ELSE "done"]
        /\ todo' = [u \in Threads |->
                      IF u = 1 THEN {o \in Aligned : o < FileSize} ELSE {}]
        /\ rpc' = "call"
        /\ UNCHANGED <<planVars, cancelled, cache, waiter, total, nextOff, blocks,
                       closed, err, clientVars, cut>>

WaitDone_AnyWorker ==
  /\ waiter = "wait" /\ \E w \in Workers : pc[w] = "done"
  /\ waiter' = "done"
  /\ close
  /\ UNCHANGED <<planVars, profile, cancelled, cache, threadVars, total, nextOff,
                 blocks, err, clientVars, cut>>

\* wg.Wait returns, the sample is recorded (see total), the reader closed.
WaitDone ==
  /\ waiter = "wait" /\ \A w \in Workers : pc[w] = "done"
  /\ waiter' = "done"
  /\ close
  /\ UNCHANGED <<planVars, profile, cancelled, cache, threadVars, total, nextOff,
                 blocks, err, clientVars, cut>>
-----------------------------------------------------------------------------
(* fetchWholeFile: goroutine 1 streams the whole file.                     *)

wholeRest == <<planVars, profile, cancelled, tries, waiter, total, nextOff, err, clientVars>>

WholeGet ==
  /\ pc[1] = "get"
  /\ \E next \in {"stream", "fail"} : pc' = [pc EXCEPT ![1] = next]
  /\ UNCHANGED <<wholeRest, cache, todo, blocks, closed, rpc, cut>>

WholeCancelled ==
  /\ pc[1] = "stream" /\ cancelled
  /\ pc' = [pc EXCEPT ![1] = "fail"]
  /\ UNCHANGED <<wholeRest, cache, todo, blocks, closed, rpc, cut>>

\* ReadFull brings k bytes: a full buffer goes on, a shorter one is the end of
\* the body or an error.
WholeChunk(o, k) ==
  /\ pc[1] = "stream" /\ ~cancelled /\ IsNext(1, o) /\ k <= OnFile(o)
  /\ \/ k = BlockSize /\ todo' = [todo EXCEPT ![1] = @ \ {o}] /\ pc' = pc
     \/ k < BlockSize /\ todo' = [todo EXCEPT ![1] = {}] /\ pc' = [pc EXCEPT ![1] = "close"]
     \/ k < BlockSize /\ todo' = todo /\ pc' = [pc EXCEPT ![1] = "fail"]
  /\ cut' = (cut \/ k < Want(o))
  /\ \/ k > 0 /\ CachePut(o, Piece(o, k)) /\ put(o, Piece(o, k))
     \/ k = 0 /\ UNCHANGED <<cache, blocks, rpc>>
  /\ UNCHANGED <<wholeRest, closed>>

WholeEnd ==
  /\ pc[1] = "stream" /\ ~cancelled /\ todo[1] = {}
  /\ \E next \in {"close", "fail"} : pc' = [pc EXCEPT ![1] = next]
  /\ UNCHANGED <<wholeRest, cache, todo, blocks, closed, rpc, cut>>

WholeClose ==
  /\ pc[1] = "close"
  /\ close
  /\ pc' = [pc EXCEPT ![1] = "done"]
  /\ UNCHANGED <<wholeRest, cache, todo, blocks, cut>>

-----------------------------------------------------------------------------
(* The client: Read under the reader's lock, waitForBlock, its timer, Close. *)

fetchRest == <<planVars, profile, cancelled, cache, threadVars, waiter, total, cut>>

\* A woken reader goes on unless it sees done closed.
CanRead == rpc = "call" \/ (rpc = "woken" /\ timer # "done")
Waited == blocks[KeyFor(nextOff)]
inBlockOff == nextOff - KeyFor(nextOff)
\* How many bytes a Read copies: what its buffer, the block and the range have left.
Copied == Least(BufSize, Least(Waited.len - inBlockOff, End - nextOff + 1))

\* The blocks left once block key has been read up to upto.
Unread_OffByOne(key, upto) ==
  IF upto > blocks[key].len THEN [blocks EXCEPT ![key] = NoBlock] ELSE blocks
Unread(key, upto) ==
  IF upto >= blocks[key].len THEN [blocks EXCEPT ![key] = NoBlock] ELSE blocks

\* A Read that returns r: the caller does not read again.
Return(r) == rpc' = "stopped" /\ result' = r /\ timer' = "off"

ReadEOF_OneShort ==
  /\ CanRead /\ nextOff >= End
  /\ Return("eof")
  /\ UNCHANGED <<fetchRest, nextOff, blocks, closed, err, out>>

ReadEOF ==
  /\ CanRead /\ nextOff > End
  /\ Return("eof")
  /\ UNCHANGED <<fetchRest, nextOff, blocks, closed, err, out>>

ReadBlock ==
  /\ CanRead /\ nextOff <= End /\ Waited # NoBlock /\ inBlockOff <= Waited.len
  /\ out' = out \o Bytes(Waited.from + inBlockOff, Copied)
  /\ nextOff' = nextOff + Copied
  /\ blocks' = Unread(KeyFor(nextOff), inBlockOff + Copied)
  /\ rpc' = "call" /\ timer' = "off"
  /\ UNCHANGED <<fetchRest, closed, err, result>>

\* data[inBlockOff:] with fewer bytes in the block.
ReadPanic ==
  /\ CanRead /\ nextOff <= End /\ Waited # NoBlock
  /\ inBlockOff > Waited.len
  /\ Return("panic")
  /\ UNCHANGED <<fetchRest, nextOff, blocks, closed, err, out>>

ReadClosed ==
  /\ CanRead /\ nextOff <= End /\ Waited = NoBlock /\ closed
  /\ Return(IF err THEN "failed" ELSE "truncated")
  /\ UNCHANGED <<fetchRest, nextOff, blocks, closed, err, out>>

ReadWait ==
  /\ CanRead /\ nextOff <= End /\ Waited = NoBlock /\ ~closed
  /\ rpc' = "wait" /\ timer' = "armed"
  /\ UNCHANGED <<fetchRest, nextOff, blocks, closed, err, out, result>>

\* waitForBlock saw done closed.
ReadTimeout ==
  /\ rpc = "woken" /\ timer = "done"
  /\ err' = TRUE
  /\ Return("timeout")
  /\ UNCHANGED <<fetchRest, nextOff, blocks, closed, out>>

\* The timer's callback: broadcast under the lock, then close(done) without it.
TimerFire ==
  /\ timer = "armed"
  /\ timer' = "fired" /\ rpc' = "woken"
  /\ UNCHANGED <<fetchRest, nextOff, blocks, closed, err, out, result>>

TimerDone ==
  /\ timer = "fired"
  /\ timer' = "done"
  /\ UNCHANGED <<fetchRest, nextOff, blocks, closed, err, rpc, out, result>>

\* io.Copy cannot write to a client that has gone.
Abandon ==
  /\ rpc = "call"
  /\ Return("abandoned")
  /\ UNCHANGED <<fetchRest, nextOff, blocks, closed, err, out>>

CloseReader ==
  /\ rpc = "stopped"
  /\ rpc' = "closed" /\ closed' = TRUE
  /\ UNCHANGED <<fetchRest, nextOff, blocks, err, clientVars>>

\* The request's context ends, or the preloader's 30 s are over.
Cancel ==
  /\ ~cancelled /\ cancelled' = TRUE
  /\ UNCHANGED <<planVars, profile, cache, threadVars, waiter, total, nextOff,
                 blocks, closed, err, rpc, clientVars, cut>>

-----------------------------------------------------------------------------
Thread(t) ==
  \/ \E o \in Aligned : Lookup(t, o)
  \/ \E o \in Aligned, k \in 0..BlockSize : Answer206(t, o, k)
  \/ WorkerCancelled(t) \/ Attempt(t) \/ AnswerError(t) \/ Answer200(t) \/ fail(t)

WholeFile ==
  \/ WholeGet \/ WholeCancelled \/ WholeEnd \/ WholeClose
  \/ \E o \in Aligned, k \in 0..BlockSize : WholeChunk(o, k)

Client ==
  \/ ReadEOF \/ ReadBlock \/ ReadPanic \/ ReadClosed \/ ReadWait \/ ReadTimeout
  \/ CloseReader

Finished ==
  /\ result # "none" /\ rpc \in {"none", "closed"} /\ waiter # "wait"
  /\ \A t \in Threads : pc[t] \in {"idle", "done"}
Terminating == Finished /\ cancelled /\ UNCHANGED vars

Next ==
  \/ EmptyFetch \/ WaitDone \/ WholeFile \/ Client
  \/ \E t \in Threads : Thread(t)
  \/ TimerFire \/ TimerDone \/ Abandon \/ Cancel \/ Terminating

Spec == Init /\ [][Next]_vars

\* Every upstream request ends (the HTTP client's 120 s limit), so every
\* goroutine of the fetch goes on, and so does a client that has not gone.
Fairness ==
  /\ WF_vars(EmptyFetch) /\ WF_vars(WaitDone) /\ WF_vars(WholeFile) /\ WF_vars(Client)
  /\ \A t \in Threads : WF_vars(Thread(t))
FairSpec == Spec /\ Fairness

-----------------------------------------------------------------------------
(* Properties.                                                             *)

PlanType ==
  /\ range \in Ranges /\ planN \in Workers
  /\ profile \in {"open", "throttled"} /\ cancelled \in BOOLEAN
  /\ cache \in [Aligned -> Data \cup {NoBlock}]
  /\ waiter \in {"off", "wait", "done"} /\ total \in Nat /\ cut \in BOOLEAN
ThreadType ==
  /\ pc \in [Threads -> {"idle", "lookup", "try", "asked", "get", "stream", "close",
                        "fail", "done"}]
  /\ todo \in [Threads -> SUBSET Aligned]
  /\ tries \in [Threads -> 0..(Retries + 1)]
ReaderType ==
  /\ nextOff \in Nat
  /\ blocks \in [Aligned -> Data \cup {NoBlock}]
  /\ closed \in BOOLEAN /\ err \in BOOLEAN
ClientType ==
  /\ rpc \in {"none", "call", "wait", "woken", "stopped", "closed"}
  /\ timer \in {"off", "armed", "fired", "done"}
  /\ out \in Seq(Nat)
  /\ result \in {"none", "eof", "failed", "truncated", "timeout", "panic", "abandoned",
                 "refused"}

\* Every variable keeps its type.
TypeOK == PlanType /\ ThreadType /\ ReaderType /\ ClientType

\* What the client sees of the reader is a ByteStream: the bytes of the range in
\* order, whatever the order in which workers hand in their blocks, and EOF only
\* after the last one (orderedReader.Read).
Stream == INSTANCE ByteStream WITH
            sent <- out,
            status <- IF result = "none" THEN "open"
                      ELSE IF result = "eof" THEN "eof" ELSE "broken"
StreamSpec == Stream!StreamSpec

\* The reader runs dry without an error, or indexes past a block, only when the
\* cache or the upstream gave a block shorter than the range wants: no
\* interleaving of workers, wg.Wait and Close loses a block on its own.
TruncationHasCause == result \in {"truncated", "panic"} => cut

\* A cached block holds the bytes of the file from its own offset on, whichever
\* path stored it (worker, probe, or the slices of a whole-file stream).
CacheHoldsPrefixes ==
  \A o \in Aligned : cache[o] # NoBlock => cache[o].from = o /\ cache[o].len <= BlockSize

\* In a parallel fetch the reader keeps no block that has been read to its end.
ReaderDropsConsumed ==
  waiter # "off" =>
    \A o \in Aligned : blocks[o] # NoBlock => o + BlockSize > nextOff

\* No wakeup is lost: a reader sleeps on the condition only while the block it
\* needs is missing and the reader is still open.
SleepsOnlyWhenDry == rpc = "wait" => Waited = NoBlock /\ ~closed

\* Goroutine t of the fetch has a step to take, whatever the others do.
CanGo(t) ==
  \/ pc[t] \in {"try", "asked", "fail"}
  \/ pc[t] = "lookup" /\ t = Caller /\ Offs = {}
  \/ pc[t] = "lookup" /\ t # Caller /\ cancelled
  \/ pc[t] = "lookup" /\ Offs # {} /\ \E o \in Aligned : IsNext(t, o)
  \/ pc[t] \in {"get", "close"} /\ t = 1
  \/ pc[t] = "stream" /\ t = 1 /\ (todo[t] = {} \/ cancelled \/ \E o \in Aligned : IsNext(t, o))

\* The reader, the workers and wg.Wait never all wait for each other: until a fetch is
\* over one of them can go on, without the reader's timer, without a cancellation and
\* without the client's leaving.
NeverStuck ==
  Finished \/ (\E t \in Threads : CanGo(t)) \/ rpc \in {"call", "woken", "stopped"}
           \/ (waiter = "wait" /\ \A w \in Workers : pc[w] = "done")

\* Every fetch ends: the client gets its result and closes, the goroutines stop.
Termination == <>Finished
=============================================================================
