# A formal model of webdav-video-proxy

webdav-video-proxy is a Go process between media players and one WebDAV upstream.
It cuts files into blocks, fetches the blocks of a requested range in parallel,
keeps them in an SQLite table and reads ahead of the player. This directory holds
TLA+ modules translated from that code (`src/`), TLC configurations that check them
on small instances, and TLAPS proofs of what holds for every value of the constants.

    tlasany Fetcher.tla                          # parse
    tlc -config MCFetcher.cfg MCFetcher.tla      # check one instance
    tlapm FetcherLossProofs.tla                  # check the proofs

`PROJECT.json` lists the components, the runs, which source lines each definition
stands for, the hazards and the theorems.

## 1. The system

| Component | State | Operations | Modelled |
|---|---|---|---|
| fetcher and ordered reader (`internal/fetcher`) | per fetch: workers' shares, the reader's `nextOff`, `blocks`, `closed`, `err`, a condition variable, a 30 s timer per wait | `Fetch`, `fetchBlock`, `fetchWholeFile`, `put`, `close`, `fail`, `Read`, `waitForBlock`, `Close`; `Planner.Plan`, `decideN` | `Fetcher`; `Plan` in `Assessor` |
| block cache and evictor (`internal/cache`, `blocks` table of `internal/store`) | the table with `last_used`, reference counts under `refsMu`, the one-token channel `evictCh` | `Put`, `Get`, `Acquire` and its release, `evictOnce`, `evictExpired`, `tryEvict` | `Cache` |
| GET handler (`server/handler_get.go`) | per request: range, blocks found, header sent, bytes written | Range header, cache hit, fetch, failed fetch, unknown size | `Serve` |
| preloader and scheduler (`internal/preloader`) | `pendingTasks`, two levels of semaphores | `OnRead`, `NextPrefetch`, `tryAcquire`, `release`, `NextEpisode` | `Preloader`; the range read ahead in `Serve`; `Episodes` |
| server: versions, directories, lifecycle (`server/server.go`, `cmd/proxy`) | `metaMap`, `dirMap`, the background context | `resolveVersion`, `pruneMeta`, `pruneDir`, `prefetchNextEpisode`, `tryPrefetch`, `Close` | `Server` |
| assessor (`internal/assessor`, `profiles` and `samples` tables) | a profile and samples per sub-source | `RecordSample`, `MarkThrottled`, `GetProfile` | `Assessor` |
| marker, PROPFIND handler, sub-source paths | none of their own: the client's path | `MarkFolderName`, `IsVideoFolder`, `StripMarker`, `RestPath` | `Listing` |
| WebDAV client | none | `GetRange`, `Head`, `PropFind` | its outcomes, as choices of the callers |
| configuration | environment | `Load` | its values are the CONSTANTS |

How they interact. A GET takes the mark off its path, resolves the file's version, looks
every block of its range up in the cache under that version and, if all are there, pins
and writes them. Otherwise it has the planner choose a concurrency from the sub-source's
profile and calls `Fetch`, which probes the first block itself, starts workers for the
others and returns a reader; the handler copies from the reader while workers store
blocks in the cache and put them into the reader under its lock. A `Put` into the cache
signals the evictor. When the response is out, the handler starts a read-ahead in a
goroutine of its own, which calls the same `Fetch`; from 70% of the file on, also a
prefetch of the next episode, which lists the directory and resolves a version of its
own. Fetches record a throughput sample and workers report 429 and 503 to the assessor,
whose profile the next plan and the next PROPFIND answer read.

What is hard here. The reader is shared by its client, by the workers, by the
goroutine in `wg.Wait` and by timers, and blocks come in any order, late, short or
never. The cache is shared by all requests, by read-aheads and by the evictor, with
one SQL statement as the unit of atomicity, and outlives the process. A block is
cached by whichever request first wanted it, with as many of its bytes as *that*
request wanted. Versions are resolved before the bytes are fetched, by requests that
overlap. Profiles are read and saved in separate statements. What makes each part
correct:

- reader: the bytes of the range in order; no EOF early; no lost wakeup; no silent
  truncation unless a source really was short; every fetch ends;
- cache: a pinned block stays; counts equal holders; the size stays bounded; no
  signal is lost and eviction keeps up;
- handler: a body has exactly the bytes its header promises, in order; side paths never
  hurt a response;
- preloader: no slot leaks, one task per key, every task ends; the episode that is warmed
  is the one that comes next;
- server: what a GET returns is no older than `HeadRevalidateSec` allows, blocks are not
  labelled with a version newer than they are, maps stay at their cap, prefetching
  dies out after `Close`;
- assessor: slow means slow, whatever updates are lost; a source whose mark of throttling has
  stuck does not become friendly again (a mark saved between another call's read and save is
  lost);
- listing: a marked path leads where the unmarked one leads.

The hazards, each with its line and the properties that would catch it, are in
`PROJECT.json`.

## 2. The modules

### `ByteStream` (abstract)

What a body promises to its client: `Emit` hands over the next bytes of the range,
`Finish` is possible only after the last one, `Break` is an end the client can see.

### `Fetcher`: one call of `Fetch` and its reader

`Fetcher` implements `ByteStream` (`StreamSpec`, the mapping takes `out` for `sent` and
reads the status off `result`).

| In the model | In the code |
|---|---|
| `pc[Caller]`, `Lookup(Caller, ..)`, `Launch` | the probe at the head of `Fetch`, then the creation of reader and workers |
| `pc[w]`, `todo[w]`, `Assigned` | a worker and its round-robin share of the blocks |
| `Lookup`, `Attempt`, `Answer206`, `Answer200`, `AnswerError` | `fetchBlock`: cache, retry loop, and the upstream's answers |
| `WorkerCancelled`, `fail` | a worker's context check; the failure it hands to the reader |
| `WholeGet`, `WholeChunk`, `WholeEnd`, ... | `fetchWholeFile`, when the probe meets a 200 |
| `WaitDone` | the goroutine in `wg.Wait`, which closes the reader |
| `put`, `close`, `Woken` | a change of the reader under its lock and the broadcast |
| `ReadEOF`, `ReadBlock`, `ReadPanic`, `ReadClosed`, `ReadWait`, `ReadTimeout` | the branches of `Read` and `waitForBlock` |
| `TimerFire`, `TimerDone` | the callback: broadcast under the lock, then `close(done)` without it |

A block of data is the interval of file offsets it holds, so that "the right bytes"
can be said without bytes. The cache starts with anything that earlier or concurrent
fetches and the evictor may have left, because a fetch looks each block up once.
Cancellation can come at any time, also between the lookup and the request.

### `Cache`: the block table, its users and the evictor

Each SQL statement is a step: `PutCheck`, `PutInsert`, `PutSignal`; `Select`, `Touch`;
and for the evictor `Start`, `Measure`, `List`, `TryEvict`, `Delete`, `Enough`,
`Exhausted`. `mu` is `refsMu`, which `tryEvict` holds over check and delete. `Crash`
keeps the table and the clock and loses the rest. `gaveUp` is a history variable: why
the last watermark sweep ended. Blocks have unit size.

### `Serve`: responses of one file

`RangeOf` is what `handleGet` makes of a Range header. `Request` and `CheckBlock`, then
`StartFlush`, `FlushBlock` and `FlushEnds` (the header, a block at a time, the read-ahead)
are its cache-hit path; a miss leads to a fetch, whose bookkeeping is
reduced to `Obtain`, `Store` and `FetchFails` (the interleavings inside a fetch are
`Fetcher`'s, the pins `Cache`'s). The cache maps each block to the *number of bytes*
stored of it: this is where partial blocks show. `Write` and `writeHeader` model what
net/http does (a header is sent once; a write past Content-Length is refused whole);
`written` counts the bytes the code tried to write, accepted or not.
The read-ahead is a job like the others, with the range `OnRead` computes, and may be
refused a slot.

### `Preloader`: tasks and slots

A goroutine per task: `BeginTask` (the key becomes pending), `TakeGlobal`, `TakeSub`,
`GiveBack` (the second slot was refused), `Fetched`, `FreeSub`, `FreeGlobal`, `EndTask`.
Receiving from an empty channel blocks, so that a leaked or doubly returned slot shows
as a wrong count or a task that never ends.

### `Episodes` and `Server`: versions, listings, prefetches

`Episodes` is pure. A name is a sequence of code points. `natLess` is a recursive function
of two places, one in each name, that compares runs of digits by value (`readNum`). The
stable sort is the order `SortsBefore` of a listing's places, `FirstOf` the least of some
of them, and `NextEpisode` the name behind the first place of the current one.

`Server` has a thread per GET or prefetch. `Resolve` reads `metaMap` and the clock;
`HeadAnswers`, `StoreMeta` and `HeadFails` are the rest of `resolveVersion`, so that two
HEADs can be answered in one order and stored in the other. `Lookup` is the look of
`handleGet` into the cache, `LookupAgain` that of the fetch, `Answered` and `PutBlock` the rest
of the fetch: one block per file, with the version of its bytes (`content`) beside the version
it is stored under (`label`). `Kept` is what `pruneMeta` leaves, with any choice among
entries of the same second; `pruneDir` has nothing to do for one directory.
`StartPrefetch`, `LookupDir`, `StoreDir` and `tryPrefetch` are `prefetchNextEpisode`, in the
place of the GET's thread, which has ended. The upstream changes files (`Change`), the
evictor takes blocks (`Evict`), and `Close` cancels the context and closes the store
(statements on it then fail, which the code ignores: for a response it is as if the block
had been evicted, which the model allows at any time).

### `Assessor`: the profile of a sub-source

Statement by statement: `AppendSample`, `GetSamples`, `ReadProfile`, `SaveSample` are
`RecordSample`; `ReadForMark`, `SaveMark` are `MarkThrottled`. `covers` is not stored by the
code: how many samples there were when the bandwidth was computed. `median` picks the
upper middle element, as index `n/2` of the sorted list does. `GetProfile` forgets a row
past its age, and `PlanN` is `Planner.Plan`. `Restart` loses the goroutines and keeps the
tables.

### `Listing`: how a path travels

`Listing` extends `Assessor`, whose profile changes while a client walks through the
folders: `Lists` is a PROPFIND (depth 0 or 1) and the client's taking over of a displayed
name, mark and all; `Upstream` is the path that `handleGet` and `handlePropFind` send on. A
segment of a path is a name and its mark, so that the mark's text plays no part.

## 3. What is checked

| Run | Instance | States | Shows |
|---|---|---|---|
| `fetcher` | blocks of 2 bytes, file of 6, four ranges, 2 workers, 1 retry, cached blocks of 1 byte | 0.87 M | `StreamSpec`, `TruncationHasCause`, `CacheHoldsPrefixes`, `ReaderDropsConsumed`, `SleepsOnlyWhenDry`, `NeverStuck`, `Termination` |
| `cache_safety` | 3 blocks, 2 writers, 2 readers, limit 1, 1 crash, 3 puts | 0.9 M | `RefsMatchHolders`, `Bounded`, `NoLostSignal`, `PinnedStays` |
| `cache_live` | 3 blocks, 1 writer, 1 reader, watermarks 2 and 1 | 0.76 M | `KeepsUp` |
| `serve_safety` | 3 blocks, 2 handlers, 3 requests with six headers, the read-ahead, evictions | 1.7 M | `PartialIsATail`, `BodyInOrder`, `WholeHitIsExact` |
| `preloader` | 4 goroutines, 4 keys of 2 sub-sources, 3 global slots, 2 each | 86 k | `SlotsMatch`, `OneTaskPerKey`, `TasksEnd` |
| `server_safety` | 2 threads, 2 episodes, a map of one entry, one change upstream, entries fresh for 1 s | 2.5 M | `EntriesAreHonest`, `BytesAreRecent`, `LabelsAreFloors`, `MapBounded`, `NextIsNext`, `NextIsNearest` |
| `server_live` | the same without changes, one file without an ETag, `Close` at any time | 27 k | `PrefetchesDieOut` |
| `listing` | 2 threads, windows of two of up to three samples, a folder in a folder, depth 0 and 1 | 0.87 M | `SlowIsMeasured`, `StaysSettled`, `MarksComeOff` |

Four runs expect a violation: the code does not do what a document says.

| Run | What TLC shows |
|---|---|
| `serve_hit` | a range that begins past a block's start and ends inside the same cached block is clipped at the wrong place; net/http refuses the write: an empty body |
| `serve_ahead` | a block cached only up to some range's end is taken for whole; a read-ahead that starts behind its last byte panics in a goroutine without recover and ends the process |
| `listing_upstream` | `RestPath` cuts off the first segment and only the rest is sent to the endpoint, which is the root of all sub-sources: `/ali/film` is asked for as `/film` |
| `profile_judged` | `EnsureProfile` and `ProbeMultiConnection` have no caller, and nothing else saves "friendly": with a full window of samples the friendliness is still unknown, and a new database is planned one connection for ever, where the documents promise an active probe |

Other disagreements met while modelling. The models contain the behaviour, and no run is
spent on it:

- `seekable.go:64`: the timer broadcasts before it closes `done`, so the woken read can
  miss the timeout and wait another 30 s;
- `evict.go:51`: a sweep that finds only pinned rows stops above the high watermark;
  releasing the pins starts no other, and above the limit no `Put` signals any more. The
  same holds for a table that is full when the process starts;
- `handler_get.go:108`: the header is out before `Fetch` is called, so a failed probe puts
  its error text into a 200 or 206;
- `handler_get.go:80`: HEAD failed: an empty 200 where streaming is promised;
- `handler_get.go:43`: `bytes=-N` is read as the first bytes instead of the last;
- `assessor.go:79`: `RecordSample` reads the profile and saves it again, so a mark of
  throttling saved in between is lost, where `features.md:52`, `degradation.md:13` and
  `src/README.md:43` say that N is 1 from then on. It shows only with a profile that says
  friendly, which (see `profile_judged`) only an earlier program can have left. `StaysSettled`
  begins after this;
- `assessor.go:77`: `features.md:16` bounds the age of the samples, too; the median takes the
  newest ones however old, only the profile's own age is looked at, and `MarkThrottled`
  renews that;
- `handler_propfind.go:27`: a folder is judged by files in the same answer, and with depth
  1 only the requested folder's files are in it: its sub-folders never get a mark;
- `server.go:196`: for a file directly below its sub-source the next path begins with two
  slashes, so its prefetched blocks have another key than the GET's.

### Bounds

- `Fetcher`: blocks of 2 bytes have a first and a last byte, which a read buffer of 1 takes
  in two reads. Ranges: three blocks with both ends inside one, past the end of the file, and
  end before start with and without a block. The file is three whole blocks, so a stream can
  end on a block boundary; a short last block gives nothing new, because any answer and any
  stream may be short of a block. Offsets enter the properties only through block arithmetic,
  and the safety properties are proved for every block size, file, buffer and range. Two
  workers suffice for every order of two arrivals; one retry for "failed, then answered". A
  cached block of 1 byte is short for the first two blocks of the long range and all that is
  wanted of the third; a whole one is what an answer may bring. Nothing counts up except
  `total`, which the range bounds.
- `Cache`: `MaxPuts`, `MaxClock` and `MaxCrashes` bound the histories. The limits are
  as low as they can be, so that the cache overshoots, fills and empties within three
  puts. One row per listing makes "all rows of a listing are pinned" and "the listing
  is used up and there are more rows" both happen.
- `Serve`: `MaxRequests` is 3: a request that leaves a partial block, and two more that
  meet it while they race. Its headers ask for the whole file and for ranges that end
  inside a block, begin inside one, lie inside one, are past the file's end and end before
  they begin. `Preloader`: `MaxTasks` is 4: three tasks of one sub-source exceed its
  slots, four exceed the global ones.
- `Server`: `MaxChanges` is 1: bytes before and after it are all that a label can mix
  up. With `HeadRevalidateSec` 1 an entry is fresh until the clock ticks, and `MaxClock`
  is 1. A cap of 1 and two files make every second entry prune the first. "E2" and "E10" are in
  the opposite order by code point.
- `Assessor` and `Listing`: two threads, a window of two so that a third sample pushes one out,
  rates below, at and above the threshold's sides (0, 1, 9 against 2), and two ticks with
  a maximal age of 1, so that a row is young, at its limit and too old.
- Deadlock is checked for `Fetcher`, `Preloader`, `Server` and `Listing`. `Cache` and `Serve`
  stop when their bounds are used up.
- Symmetry (blocks, writers, readers, handlers, threads) is used in safety runs only.

### Fairness

- `Fetcher`: every goroutine and a client that has not gone take their next step (weak
  fairness): upstream requests end by the HTTP client's 120 s limit, and the lock is
  never held across a wait. Nothing is assumed of timers, of cancellation or of the
  client's going away.
- `Cache`: weak fairness of the evictor, of a begun `Put` and of a begun `Get` and
  response; strong fairness of `TakeSignal`, because `select` picks among ready
  channels at random and so does not pass over the token for the ticker for ever.
- `Preloader`: weak fairness of each running task; that its fetch ends is what
  `Termination` shows.
- `Server`: weak fairness of each thread's next step, for the reasons of `Fetcher`; that
  requests come, files change or `Close` is called is not assumed.

## 4. What is proved

The proofs assume only the named ASSUMEs of their modules: positive block size, file size,
buffer and worker bound, ranges of file offsets, finite sets of writers, handlers,
goroutines and names, names that are sequences of code points, listings of names, and the
like. `Lemmas` holds what several components need: blocks, least elements, and when a
recursive definition has a solution.

| Theorem | Module | Statement |
|---|---|---|
| `TypeCorrect` | `FetcherProofs` | `Spec => []TypeOK` |
| `CachedBlocksInPlace` | `FetcherProofs` | `Spec => []CacheHoldsPrefixes` |
| `NoLostWakeup` | `FetcherProofs` | `Spec => []SleepsOnlyWhenDry` |
| `ReaderIsAByteStream` | `FetcherProofs` | `Spec => StreamSpec`: the reader implements `ByteStream` |
| `NoBlockLost` | `FetcherLossProofs` | `Spec => []TruncationHasCause` |
| `ConsumedDropped` | `FetcherLossProofs` | `Spec => []ReaderDropsConsumed` |
| `NobodyStuck` | `FetcherLossProofs` | `Spec => []NeverStuck` |
| `TypeCorrect` | `CacheProofs` | `Spec => []TypeOK` |
| `CountsAreHolders` | `CacheProofs` | `Spec => []RefsMatchHolders` |
| `PinsProtect` | `CacheProofs` | `Spec => PinnedStays` |
| `SizeBounded` | `CacheProofs` | `Spec => []Bounded` |
| `SignalsSuffice` | `CacheProofs` | `Spec => []NoLostSignal`, if `Low <= High` and `High > 0` |
| `TypeCorrect` | `ServeProofs` | `Spec => []TypeOK` |
| `BlocksCutWell` | `ServeProofs` | `Spec => []PartialIsATail` |
| `BodiesInOrder` | `ServeProofs` | `Spec => []BodyInOrder` |
| `WholeHits` | `ServeProofs` | `Spec => []WholeHitIsExact` |
| `TypeCorrect` | `PreloaderProofs` | `Spec => []TypeOK` |
| `SlotsCounted` | `PreloaderProofs` | `Spec => []SlotsMatch` |
| `Deduplicated` | `PreloaderProofs` | `Spec => []OneTaskPerKey` |
| `TypeCorrect` | `ServerProofs` | `Spec => []TypeOK` |
| `HonestEntries` | `ServerProofs` | `Spec => []EntriesAreHonest` |
| `FloorLabels` | `ServerProofs` | `Spec => []LabelsAreFloors` |
| `RecentBytes` | `ServerProofs` | `Spec => []BytesAreRecent` |
| `BoundedMap` | `ServerProofs` | `Spec => []MapBounded` |
| `NatLessOrders` | `ServerProofs` | `natLess` is a strict weak order of all sequences of code points |
| `NextFollows` | `ServerProofs` | `Spec => NextIsNearest` |
| `TypeCorrect` | `AssessorProofs` | `Spec => []TypeOK` |
| `SlowMeansSlow` | `AssessorProofs` | `Spec => []SlowIsMeasured` |
| `ThrottledStays` | `AssessorProofs` | `Spec => StaysSettled` |
| `ListingIsAssessor` | `AssessorProofs` | `ListSpec => Spec` |
| `ListedProfiles` | `AssessorProofs` | what is proved of `Assessor`, under `ListSpec` |
| `MarkedPathsLead` | `AssessorProofs` | `ListSpec => []MarksComeOff` |

**Fetcher.** `TypeCorrect` needs block arithmetic: the block of an offset is a block
offset (`KeyForMultiple`), it covers the offset (`KeyForBounds`), and so what `Read`
copies is never negative (`ReadBlockStep`). These lemmas rest on quotient and remainder
(`Division`, `DivisionUnique`).

The refinement needs more than types. `Control` says that nothing has started while
the first block is probed (`ProbeInv`) and that a client that reads has no result yet,
with the timer belonging to its current wait (`ClientInv`): without it a failing probe
could break a body that has already ended. `DataInv` says that a block in the cache or in
the reader holds the bytes of its own offset, and that `out` is as long as the reader
has advanced; from it `ReadBlock` emits the bytes that come next, and `ReadEOF` only
after the last. `DataInv` contains `CacheHoldsPrefixes`, which alone would not be
inductive for the reader's copies. An empty range is the one case of EOF without a
read: `WaitedInOffs` shows that it has no block only if its start is past its end.
`NoLostWakeup` is inductive by itself: every action that puts a block or closes the
reader wakes the client in the same step.

`NoBlockLost` follows each block of the range. `GoneInv`: it is pending with some worker,
or in the reader, or read, or a source was short. `ShortInv`: a block shorter than wanted
has left its trace in `cut`. `DoneInv`: a reader that was closed without an error has no
pending block, because a worker ends with an empty share or with a failure, and
`wg.Wait` waits for all. `AheadInv`: in a parallel fetch the shares are disjoint and ahead
of the reader; it gives `ReaderDropsConsumed`. These five are inductive together with the
invariants above (`LosslessStep`). That every block is dealt to exactly one worker (`Dealt`,
`DealtOnce`) starts it; that block offsets are a block apart (`AlignedApart`) lets a short
read of the whole-file stream account for all blocks behind it. A `Read` that runs dry then
contradicts every case of `GoneInv` but `cut`.

`NobodyStuck` says who has the next step. `MotionInv`: a worker that looks for or fetches a
block still has one; only goroutine 1 streams a whole file; `wg.Wait` waits only for
workers that were started; a client whose reader is open has `wg.Wait` or goroutine 1
left to close it, and one whose reader never came has been refused. So if no goroutine can
go on, the reader is closed, and a client that still sleeps would contradict
`NoLostWakeup`. It is the safety half of `Termination`, for every number of workers; that
the steps are taken, and only finitely many, is left to TLC.

**Serve.** `Typed` adds to the types that a job has only blocks of its own range left and
that the end of every running fetch is in `asked` (`JobsInv`), and it constrains blocks in
hand as `PartialIsATail` does those in the cache (`CutsInv`): a block is stored from what
was in hand and taken in hand from what was stored, so neither alone is inductive.
`Answer` is about one response. `Flushing`: the blocks still to be written are the last
ones of the range, and all bytes written so far lie before them, which makes `Ordered`
inductive (`BodyInOrder`, also from partial blocks). `Sound`: as long as every block is
whole, the body is the range up to the next block to be written and nothing was refused.
The range that begins and ends inside one block is excluded there as in
`WholeHitIsExact`; `serve_hit` shows why. How far a stream of blocks from a fetch reaches
(`Reach`) is a least element, not a recursion.

**Cache.** `RefsInv` adds to `RefsMatchHolders` that a reader that holds has a block and
that the evictor is between check and delete only with `mu` held and a count of zero: so
no `Acquire` falls in between. `Bounded` is not inductive, because a writer that has passed
the check will still insert; `SizeInv` bounds stored blocks and inserting writers
together. `SignalInv` lets the evictor be inside a watermark sweep. The code reads the
watermarks from the environment unchecked, so their order is a hypothesis of the theorem.

**Preloader.** `Inv` is the three properties and `KeyInv` (a goroutine has a key exactly
while it works); the slots are sums of cardinalities, so the proof is about adding one
goroutine to, and taking one from, the sets of holders.

**Server.** The invariant says of every version on its way (in a call, in `metaMap`, as a
label in the cache) since when it has been current, in terms of the time it was asked
for; changes are stamped in order of time (`ChangesInv`), which makes "current since s"
monotone in s. `BoundedMap` needs that what `Kept` may leave of n entries, over the cap, is at
most the cap.

**Names.** `natLess` and `readNum` are recursive functions, that is, a CHOOSE of a solution
of the recursive equation, and the prover cannot do the induction that shows there is one.
`RecursionExists` does it by a least counterexample: if the calls go down in a bounded
natural measure, the equation has a solution, by approximations that solve it below k.
`LessSolves` and `ReadInt` are its two uses; the measure of `natLess` is what is left of
the two names. `NatLessOrders` follows by two more least counterexamples: two places that
are both less than each other, or three that break transitivity, lead to later ones of the
same kind (`BothGoesOn`, `BetweenGoesOn`), the second because the digits are one interval
of code points (`CharactersAgree`). It uses of `readNum` only that it is some integer, so
it holds for numbers that overflow, too. Then `SortsBefore` is a strict total order of
places (`SortsStrictly`), `FirstOf` is the first (`FirstExists`), and `NextFollows` says of
every listing that a prefetch turns to the name that follows, with nothing in between.

**Assessor and Listing.** `SlowIsMeasured` rests on what a median is: a least element with
more than half of the list at or below it exists (least natural numbers, counting), and it
is below the threshold exactly if more than half of the list is. The half that `MarkThrottled`
copies and the half that `RecordSample` computes stay of one computation (`MeasuredInv`).
`ListingIsAssessor` is a refinement by simulation, so the theorems of `Assessor` carry over;
`MarksComeOff` needs that displayed and real path have the same names (`PathInv`).

Only model-checked: `NextIsNext`, which compares with the numbers of one instance's names,
and, out of the prover's reach, liveness under fairness: `Termination`, `KeepsUp`,
`TasksEnd` and `PrefetchesDieOut`.

## 5. What the models leave out

- `Fetcher`: SQL errors; an upstream that sends more than it was asked for; blocks cached
  with no bytes; a timer's callback that was already running when `Stop` was called (it
  only wakes the next wait once more). The throughput sample has no effect on the fetch
  that records it.
- `Cache`: byte sizes (the limits are counts of equal blocks); `InvalidateFile` and `Has`,
  which nothing calls; SQL errors, which the code treats as a miss or ignores; a second call
  of a release (its `sync.Once` makes it do nothing), and pins left behind when
  `flushCachedBlocks` panics between `Acquire` and release.
- `Serve`: several files and versions; short upstream bodies; a client that leaves in the
  middle. 206 stands for the 200 of a request without a Range header as well.
- `Preloader`: the 70% threshold (a prefetch may begin at any time).
- `Server`: one directory and one block per file; the steps inside a fetch; `main`, whose
  `ListenAndServe` returns when `Shutdown` begins, so that the process can end under a
  running response. The value of numbers of nineteen digits or more, where the
  code's `int` overflows.
- `Assessor`: the active probes of `probe.go` (`EnsureProfile`, `ProbeMultiConnection`), which
  nothing calls, against the documents (run `profile_judged`); the samples' time stamps, which
  nothing reads; SQL errors.
- `Listing`: names that contain the text of a mark; the display of the root; a PROPFIND
  that fails upstream (a 502, no state).
- XML of PROPFIND, logging, configuration parsing.

## 6. Plan

Done: `ByteStream`, `Fetcher`, `Cache`, `Serve`, `Preloader`, `Episodes`, `Server`, `Assessor`,
`Listing`, and proofs of every safety property that is checked except `NextIsNext`. Next:

1. The end of the process: `Shutdown`, `Close` and responses that still run.
2. `Serve` with upstream bodies that end early, where partial blocks arise in a second way.
3. Abstract specifications for more components (a cache that may forget; a counting
   semaphore for the scheduler), with the refinements proved.
