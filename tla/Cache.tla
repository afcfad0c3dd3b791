------------------------------- MODULE Cache -------------------------------
(***************************************************************************)
(* The block cache (internal/cache/cache.go, evict.go) over the SQLite     *)
(* blocks table (internal/store/store.go): writers that Put, readers that  *)
(* Get and pin, the evictor with its two sweeps, and process crashes.      *)
(* Every SQL statement is atomic and the store has one connection, so a    *)
(* statement is a step.  Blocks have unit size: a size is a count.         *)
(***************************************************************************)
EXTENDS Integers, Sequences, FiniteSets

CONSTANTS Blocks,           \* block keys
          Writers, Readers, \* goroutines in Put, and holders of one block
          MaxSize,          \* CacheMaxSize
          High, Low,        \* the watermarks, in blocks
          ListLimit,        \* rows per listing (16 and 32 in the code)
          TTL,              \* CacheTTL, 0 when blocks do not expire
          MaxClock, MaxPuts, MaxCrashes, \* bounds of the model
          NoBlock

ASSUME BlocksAssumption == IsFiniteSet(Blocks) /\ NoBlock \notin Blocks
ASSUME ActorsAssumption == IsFiniteSet(Writers) /\ IsFiniteSet(Readers)
ASSUME LimitsAssumption ==
  /\ MaxSize \in Nat \ {0} /\ High \in Nat /\ Low \in Nat
  /\ ListLimit \in Nat \ {0} /\ TTL \in Nat
  /\ MaxClock \in Nat /\ MaxPuts \in Nat /\ MaxCrashes \in Nat

VARIABLES
  stored, lastUsed,   \* the blocks table and its last_used column
  clock,              \* store.clock
  refs,               \* reference counts
  mu,                 \* refsMu is held by the evictor, between check and delete
  signal,             \* evictCh holds a token
  wpc, wblk,          \* writers: "idle", "insert", "signal"
  rpc, rblk,          \* readers: "idle", "touch", "got", "held"
  epc,                \* evictor: "idle", "start", "measure", "list", "try", "delete", "enough"
  sweep,              \* the sweep it runs: "water", "ttl"
  rows, deleted,      \* rows left of the listing; whether one was deleted
  cutoff,             \* of the running ttl sweep
  gaveUp,             \* history: why the last water sweep ended
  puts, crashes       \* bounded events

storeVars == <<stored, lastUsed, clock>>
writerVars == <<wpc, wblk, puts>>
readerVars == <<rpc, rblk>>
evictorVars == <<epc, sweep, rows, deleted, cutoff, gaveUp>>
vars == <<stored, lastUsed, clock, refs, mu, signal, wpc, wblk, rpc, rblk,
          epc, sweep, rows, deleted, cutoff, gaveUp, puts, crashes>>

TotalSize == Cardinality(stored)
\* Put stops writing here: the hard limit and half of it again.
Limit == (MaxSize * 3) \div 2
Least(a, b) == IF a <= b THEN a ELSE b

\* ORDER BY last_used ASC LIMIT ListLimit; ties in any order.
Listings(S) ==
  {s \in [1..Least(ListLimit, Cardinality(S)) -> S] :
     /\ \A i, j \in DOMAIN s : i < j => s[i] # s[j] /\ lastUsed[s[i]] <= lastUsed[s[j]]
     /\ \A b \in S : \/ \E i \in DOMAIN s : s[i] = b
                     \/ \A i \in DOMAIN s : lastUsed[s[i]] <= lastUsed[b]}

Expired == {b \in stored : lastUsed[b] < cutoff}

Init ==
  /\ stored = {} /\ lastUsed = [b \in Blocks |-> 0] /\ clock = 0
  /\ refs = [b \in Blocks |-> 0] /\ mu = FALSE /\ signal = FALSE
  /\ wpc = [w \in Writers |-> "idle"] /\ wblk = [w \in Writers |-> NoBlock]
  /\ rpc = [r \in Readers |-> "idle"] /\ rblk = [r \in Readers |-> NoBlock]
  /\ epc = "idle" /\ sweep = "water" /\ rows = << >> /\ deleted = FALSE
  /\ cutoff = 0 /\ gaveUp = "boot"
  /\ puts = 0 /\ crashes = 0

Tick ==
  /\ clock < MaxClock /\ clock' = clock + 1
  /\ UNCHANGED <<stored, lastUsed, refs, mu, signal, writerVars, readerVars,
                 evictorVars, crashes>>

-----------------------------------------------------------------------------
(* Put: the size check, the upsert and the signal are three steps.         *)

PutCheck_AtLimit(w, b) ==
  /\ wpc[w] = "idle" /\ puts < MaxPuts
  /\ TotalSize <= Limit
  /\ wpc' = [wpc EXCEPT ![w] = "insert"] /\ wblk' = [wblk EXCEPT ![w] = b]
  /\ puts' = puts + 1
  /\ UNCHANGED <<storeVars, refs, mu, signal, readerVars, evictorVars, crashes>>

PutCheck(w, b) ==
  /\ wpc[w] = "idle" /\ puts < MaxPuts
  /\ TotalSize < Limit
  /\ wpc' = [wpc EXCEPT ![w] = "insert"] /\ wblk' = [wblk EXCEPT ![w] = b]
  /\ puts' = puts + 1
  /\ UNCHANGED <<storeVars, refs, mu, signal, readerVars, evictorVars, crashes>>

PutInsert(w) ==
  /\ wpc[w] = "insert"
  /\ stored' = stored \cup {wblk[w]}
  /\ lastUsed' = [lastUsed EXCEPT ![wblk[w]] = clock]
  /\ wpc' = [wpc EXCEPT ![w] = "signal"]
  /\ UNCHANGED <<clock, refs, mu, signal, wblk, puts, readerVars, evictorVars, crashes>>

PutSignal_Dropped(w) ==
  /\ wpc[w] = "signal"
  /\ signal' \in {signal, TRUE}
  /\ wpc' = [wpc EXCEPT ![w] = "idle"] /\ wblk' = [wblk EXCEPT ![w] = NoBlock]
  /\ UNCHANGED <<storeVars, refs, mu, puts, readerVars, evictorVars, crashes>>

\* evictCh has room for one token: a second signal is dropped.
PutSignal(w) ==
  /\ wpc[w] = "signal"
  /\ signal' = TRUE
  /\ wpc' = [wpc EXCEPT ![w] = "idle"] /\ wblk' = [wblk EXCEPT ![w] = NoBlock]
  /\ UNCHANGED <<storeVars, refs, mu, puts, readerVars, evictorVars, crashes>>

-----------------------------------------------------------------------------
(* Get selects the row, then updates last_used; only a response made from  *)
(* the cache alone goes on to pin the block while it is written out.       *)

Select(r, b) ==
  /\ rpc[r] = "idle" /\ b \in stored
  /\ rpc' = [rpc EXCEPT ![r] = "touch"] /\ rblk' = [rblk EXCEPT ![r] = b]
  /\ UNCHANGED <<storeVars, refs, mu, signal, writerVars, evictorVars, crashes>>

Touch(r) ==
  /\ rpc[r] = "touch"
  /\ lastUsed' = IF rblk[r] \in stored
                   THEN [lastUsed EXCEPT ![rblk[r]] = clock] ELSE lastUsed
  /\ rpc' = [rpc EXCEPT ![r] = "got"]
  /\ UNCHANGED <<stored, clock, refs, mu, signal, rblk, writerVars, evictorVars, crashes>>

\* A fetch takes the data and leaves.
Leave(r) ==
  /\ rpc[r] = "got"
  /\ rpc' = [rpc EXCEPT ![r] = "idle"] /\ rblk' = [rblk EXCEPT ![r] = NoBlock]
  /\ UNCHANGED <<storeVars, refs, mu, signal, writerVars, evictorVars, crashes>>

Acquire(r) ==
  /\ rpc[r] = "got" /\ ~mu
  /\ refs' = [refs EXCEPT ![rblk[r]] = @ + 1]
  /\ rpc' = [rpc EXCEPT ![r] = "held"]
  /\ UNCHANGED <<storeVars, mu, signal, rblk, writerVars, evictorVars, crashes>>

Release_Twice(r) ==
  /\ rpc[r] = "held" /\ ~mu
  /\ refs' = [refs EXCEPT ![rblk[r]] = @ - 2]
  /\ rpc' = [rpc EXCEPT ![r] = "idle"] /\ rblk' = [rblk EXCEPT ![r] = NoBlock]
  /\ UNCHANGED <<storeVars, mu, signal, writerVars, evictorVars, crashes>>

Release_Delete(r) ==
  /\ rpc[r] = "held" /\ ~mu
  /\ refs' = [refs EXCEPT ![rblk[r]] = 0]
  /\ rpc' = [rpc EXCEPT ![r] = "idle"] /\ rblk' = [rblk EXCEPT ![r] = NoBlock]
  /\ UNCHANGED <<storeVars, mu, signal, writerVars, evictorVars, crashes>>

\* The closure's sync.Once makes a second call do nothing.
Release(r) ==
  /\ rpc[r] = "held" /\ ~mu
  /\ refs' = [refs EXCEPT ![rblk[r]] = @ - 1]
  /\ rpc' = [rpc EXCEPT ![r] = "idle"] /\ rblk' = [rblk EXCEPT ![r] = NoBlock]
  /\ UNCHANGED <<storeVars, mu, signal, writerVars, evictorVars, crashes>>

-----------------------------------------------------------------------------
(* The evictor.  "measure" is the head of a sweep's loop.                  *)

evictorRest == <<storeVars, refs, writerVars, readerVars, crashes>>

Enter(p) == epc' = p /\ rows' = << >> /\ deleted' = FALSE

\* The end of a sweep: evictOnce is followed by evictExpired, which sets its
\* cutoff once, and that by the select.
EndSweep(why) ==
  /\ Enter(IF sweep = "water" /\ TTL > 0 THEN "measure" ELSE "idle")
  /\ sweep' = "ttl" /\ cutoff' = clock - TTL
  /\ gaveUp' = IF sweep = "water" THEN why ELSE gaveUp

\* evictOnce after a token; it returns at once below the high watermark.
TakeSignal ==
  /\ epc = "idle" /\ signal
  /\ signal' = FALSE
  /\ Enter("start") /\ sweep' = "water" /\ cutoff' = 0
  /\ UNCHANGED <<evictorRest, mu, gaveUp>>

Start ==
  /\ epc = "start" /\ UNCHANGED <<evictorRest, mu, signal>>
  /\ \/ TotalSize < High /\ EndSweep("drained")
     \/ TotalSize >= High /\ Enter("measure") /\ UNCHANGED <<sweep, cutoff, gaveUp>>

\* The 60 s ticker runs the ttl sweep alone.
TickerFires ==
  /\ epc = "idle" /\ TTL > 0
  /\ Enter("measure") /\ sweep' = "ttl" /\ cutoff' = clock - TTL
  /\ UNCHANGED <<evictorRest, mu, signal, gaveUp>>

\* The loop condition of a sweep; the ttl sweep has none.
Measure ==
  /\ epc = "measure" /\ UNCHANGED <<evictorRest, mu, signal>>
  /\ \/ sweep = "water" /\ TotalSize < Low /\ EndSweep("drained")
     \/ /\ sweep = "ttl" \/ TotalSize >= Low
        /\ Enter("list") /\ UNCHANGED <<sweep, cutoff, gaveUp>>

\* Both sweeps list their rows, evictOnce all blocks and evictExpired the old ones, and
\* end when there are none.
List ==
  /\ epc = "list" /\ UNCHANGED <<evictorRest, mu, signal>>
  /\ LET S == IF sweep = "water" THEN stored ELSE Expired IN
       \/ S = {} /\ EndSweep("drained")
       \/ /\ S # {}
          /\ rows' \in Listings(S) /\ epc' = "try"
          /\ UNCHANGED <<sweep, deleted, cutoff, gaveUp>>

\* tryEvict takes refsMu and checks the count; a pinned row is passed over.
TryEvict_Unlocked ==
  /\ epc = "try" /\ rows # << >>
  /\ UNCHANGED <<evictorRest, mu, signal, sweep, deleted, cutoff, gaveUp>>
  /\ \/ refs[Head(rows)] > 0 /\ rows' = Tail(rows) /\ epc' = epc
     \/ refs[Head(rows)] = 0 /\ epc' = "delete" /\ rows' = rows

TryEvict ==
  /\ epc = "try" /\ rows # << >>
  /\ UNCHANGED <<evictorRest, signal, sweep, deleted, cutoff, gaveUp>>
  /\ \/ refs[Head(rows)] > 0 /\ rows' = Tail(rows) /\ UNCHANGED <<epc, mu>>
     \/ refs[Head(rows)] = 0 /\ epc' = "delete" /\ mu' = TRUE /\ rows' = rows

\* Still under refsMu, the row is deleted, whatever has happened to it since
\* it was listed; a water sweep then looks whether it is done.
Delete ==
  /\ epc = "delete"
  /\ stored' = stored \ {Head(rows)}
  /\ mu' = FALSE /\ deleted' = TRUE
  /\ epc' = IF sweep = "water" THEN "enough" ELSE "try"
  /\ rows' = Tail(rows)
  /\ UNCHANGED <<lastUsed, clock, refs, signal, writerVars, readerVars, sweep, cutoff,
                 gaveUp, crashes>>

Enough ==
  /\ epc = "enough" /\ UNCHANGED <<evictorRest, mu, signal, sweep, cutoff, gaveUp>>
  /\ \/ TotalSize < Low /\ Enter("measure")
     \/ TotalSize >= Low /\ epc' = "try" /\ UNCHANGED <<rows, deleted>>

Exhausted_OneListing ==
  /\ epc = "try" /\ rows = << >> /\ UNCHANGED <<evictorRest, mu, signal>>
  /\ EndSweep("drained")

\* The listing is used up: go on only if a row of it could be deleted.
Exhausted ==
  /\ epc = "try" /\ rows = << >> /\ UNCHANGED <<evictorRest, mu, signal>>
  /\ \/ deleted /\ Enter("measure") /\ UNCHANGED <<sweep, cutoff, gaveUp>>
     \/ ~deleted /\ EndSweep("pinned")

\* The process dies and starts again: the table is all that is left.
Crash ==
  /\ crashes < MaxCrashes /\ crashes' = crashes + 1
  /\ refs' = [b \in Blocks |-> 0] /\ mu' = FALSE /\ signal' = FALSE
  /\ wpc' = [w \in Writers |-> "idle"] /\ wblk' = [w \in Writers |-> NoBlock]
  /\ rpc' = [r \in Readers |-> "idle"] /\ rblk' = [r \in Readers |-> NoBlock]
  /\ Enter("idle") /\ sweep' = "water" /\ cutoff' = 0 /\ gaveUp' = "boot"
  /\ UNCHANGED <<storeVars, puts>>

Writer(w) == (\E b \in Blocks : PutCheck(w, b)) \/ PutInsert(w) \/ PutSignal(w)
Reader(r) ==
  (\E b \in Blocks : Select(r, b)) \/ Touch(r) \/ Leave(r) \/ Acquire(r) \/ Release(r)
Evictor ==
  TakeSignal \/ Start \/ Measure \/ List \/ TryEvict \/ Delete \/ Enough \/ Exhausted

Next ==
  \/ Tick \/ TickerFires \/ Crash \/ Evictor
  \/ \E w \in Writers : Writer(w)
  \/ \E r \in Readers : Reader(r)

Spec == Init /\ [][Next]_vars

\* A Put that has begun ends, a pin is released when the response is out, the
\* evictor's goroutine runs, and select does not pass over a waiting token for the
\* ticker for ever: it picks among ready channels at random.
FairSpec ==
  /\ Spec /\ WF_vars(Evictor) /\ SF_vars(TakeSignal)
  /\ \A w \in Writers : WF_vars(PutInsert(w) \/ PutSignal(w))
  /\ \A r \in Readers : WF_vars(Touch(r)) /\ WF_vars(Leave(r) \/ Acquire(r))
                        /\ WF_vars(Release(r))

-----------------------------------------------------------------------------
(* Properties.                                                             *)

\* Every variable keeps its type.
TypeOK ==
  /\ stored \in SUBSET Blocks /\ lastUsed \in [Blocks -> Nat] /\ clock \in Nat
  /\ refs \in [Blocks -> Nat] /\ mu \in BOOLEAN /\ signal \in BOOLEAN
  /\ wpc \in [Writers -> {"idle", "insert", "signal"}]
  /\ wblk \in [Writers -> Blocks \cup {NoBlock}]
  /\ rpc \in [Readers -> {"idle", "touch", "got", "held"}]
  /\ rblk \in [Readers -> Blocks \cup {NoBlock}]
  /\ epc \in {"idle", "start", "measure", "list", "try", "delete", "enough"}
  /\ sweep \in {"water", "ttl"} /\ rows \in Seq(Blocks) /\ deleted \in BOOLEAN
  /\ cutoff \in Int /\ gaveUp \in {"boot", "drained", "pinned"}
  /\ puts \in Nat /\ crashes \in Nat

Holders(b) == {r \in Readers : rpc[r] = "held" /\ rblk[r] = b}

\* A block's reference count is the number of responses holding it, so it is never
\* dropped while one is still writing (Acquire, its ReleaseFunc).
RefsMatchHolders == \A b \in Blocks : refs[b] = Cardinality(Holders(b))

\* No step takes away a block that a response has pinned, although the evictor
\* checked the count in an earlier step (tryEvict holds refsMu over both).
PinnedStays == [][\A b \in stored : Holders(b) # {} /\ crashes' = crashes => b \in stored']_vars

\* Puts that have passed the size check but not yet inserted can overshoot the stop
\* limit, by at most one block per concurrent writer.
Bounded == TotalSize <= Limit - 1 + Cardinality(Writers)

\* An idle evictor has not missed the high watermark: the cache is below it, or a
\* signal is waiting or about to be sent, or the last sweep stopped at pinned
\* rows, or nothing was put since the process started.
NoLostSignal ==
  epc = "idle" /\ TotalSize >= High =>
    \/ signal \/ gaveUp \in {"pinned", "boot"}
    \/ \E w \in Writers : wpc[w] = "signal"

\* Eviction keeps up: the cache is again and again below the high watermark, or the
\* evictor has given up on pinned rows, or nothing was put since the start.
KeepsUp == []<>(TotalSize < High \/ gaveUp \in {"pinned", "boot"})
=============================================================================
