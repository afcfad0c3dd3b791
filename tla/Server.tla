------------------------------- MODULE Server -------------------------------
(***************************************************************************)
(* Versions of files, listings of directories and the life of the server   *)
(* (internal/server/server.go).  A GET and a prefetch of the next episode  *)
(* each resolve the version of their file, from metaMap while its entry is *)
(* fresh and by a HEAD otherwise, and label with it the block they look up *)
(* or fetch.  The upstream changes files at any time.  One block stands    *)
(* for the cached blocks of a file; the names are those of one directory.  *)
(***************************************************************************)
EXTENDS Episodes, FiniteSets

CONSTANTS Names,              \* the names of the directory's files, in code points
          Listings,           \* what PROPFIND may say of the directory
          Tagged,             \* the files whose HEAD answers carry an ETag
          Threads,            \* handlers and prefetch goroutines
          HeadRevalidateSec,
          Cap,                \* MetaCacheMaxEntries; 0 is no limit
          MaxClock, MaxChanges,
          Closes,             \* bound: whether Close is called
          NoEntry

ASSUME TimesAssumption ==
  HeadRevalidateSec \in Nat /\ Cap \in Nat /\ MaxClock \in Nat /\ MaxChanges \in Nat /\ Closes \in BOOLEAN
ASSUME NamesAssumption == IsFiniteSet(Names) /\ NoName \notin Names /\ Tagged \subseteq Names
ASSUME CodePointsAssumption == Names \subseteq Seq(Nat)
ASSUME ListingsAssumption == Listings \subseteq Seq(Names)

\* The greatest age of an entry that still counts as fresh.
MaxAge == IF HeadRevalidateSec = 0 THEN 0 ELSE HeadRevalidateSec - 1

\* The version of a file whose HEAD carries no ETag, and of one never resolved.
Unknown == 0

VARIABLES clock,
          changes,    \* per file: when it was changed upstream
          metaMap,    \* per file: its version and when it was asked for
          dirMap,     \* the directory's listing and when it was asked for
          cache,      \* the blocks: under which label, with bytes of which version
          closed,     \* Close has cancelled the background context
          call        \* what each thread does

vars == <<clock, changes, metaMap, dirMap, cache, closed, call>>

Idle == [pc |-> "idle", file |-> NoName, kind |-> "get", asked |-> 0, label |-> Unknown,
         current |-> TRUE, body |-> 0]

Content(f) == Len(changes[f]) + 1
\* What a HEAD answers: the ETag, or nothing (the Last-Modified date is dropped).
Version(f) == IF f \in Tagged THEN Content(f) ELSE Unknown

Init ==
  /\ clock = 0 /\ changes = [f \in Names |-> <<>>]
  /\ metaMap = [f \in Names |-> NoEntry] /\ dirMap = NoEntry
  /\ cache = {} /\ closed = FALSE
  /\ call = [t \in Threads |-> Idle]

At(t, p) == call[t].pc = p
Ends(t) == call' = [call EXCEPT ![t] = Idle]
Fresh_Inclusive(entry) == entry # NoEntry /\ clock - entry.at <= HeadRevalidateSec
Fresh(entry) == entry # NoEntry /\ clock - entry.at < HeadRevalidateSec

-----------------------------------------------------------------------------
(* The upstream, the clock, the evictor and Close.                         *)

Tick ==
  /\ clock < MaxClock /\ clock' = clock + 1
  /\ UNCHANGED <<changes, metaMap, dirMap, cache, closed, call>>

Change(f) ==
  /\ MapThenSumSet(LAMBDA g : Len(changes[g]), Names) < MaxChanges
  /\ changes' = [changes EXCEPT ![f] = Append(@, clock)]
  /\ UNCHANGED <<clock, metaMap, dirMap, cache, closed, call>>

Evict ==
  /\ \E b \in cache : cache' = cache \ {b}
  /\ UNCHANGED <<clock, changes, metaMap, dirMap, closed, call>>

Close ==
  /\ Closes /\ ~closed /\ closed' = TRUE
  /\ UNCHANGED <<clock, changes, metaMap, dirMap, cache, call>>

-----------------------------------------------------------------------------
(* resolveVersion.                                                         *)

\* pruneMeta: over the limit the oldest go, those of the same second in any order, until
\* the limit and a quarter of it are free.  (pruneDir does the same to dirMap, which one
\* directory does not fill.)
Kept_OneMore(entries, map) ==
  LET n == Cardinality(entries)
      drop == n - Cap + Cap \div 4
  IN IF Cap = 0 \/ n <= Cap THEN {entries}
     ELSE {K \in SUBSET entries : Cardinality(K) = n - drop + 1}
Kept(entries, map) ==
  LET n == Cardinality(entries)
      drop == n - Cap + Cap \div 4
  IN IF Cap = 0 \/ n <= Cap THEN {entries}
     ELSE {K \in SUBSET entries :
             /\ Cardinality(K) = n - drop
             /\ \A k \in K, d \in entries \ K : map[d].at <= map[k].at}
Prune(map) ==
  {[k \in DOMAIN map |-> IF k \in K THEN map[k] ELSE NoEntry] :
     K \in Kept({k \in DOMAIN map : map[k] # NoEntry}, map)}

\* The clock is read before the HEAD is sent.
Resolve(t, c) ==
  LET entry == metaMap[c.file]
  IN call' = [call EXCEPT ![t] =
                IF Fresh(entry)
                THEN [c EXCEPT !.pc = "lookup", !.asked = clock, !.label = entry.version]
                ELSE [c EXCEPT !.pc = "head", !.asked = clock]]

Get(t, f) ==
  /\ At(t, "idle") /\ Resolve(t, [Idle EXCEPT !.file = f])
  /\ UNCHANGED <<clock, changes, metaMap, dirMap, cache, closed>>

ResolveNext(t) ==
  /\ At(t, "resolve") /\ Resolve(t, call[t])
  /\ UNCHANGED <<clock, changes, metaMap, dirMap, cache, closed>>

HeadAnswers(t) ==
  /\ At(t, "head")
  /\ call' = [call EXCEPT ![t].pc = "store", ![t].label = Version(call[t].file)]
  /\ UNCHANGED <<clock, changes, metaMap, dirMap, cache, closed>>

StoreMeta_Now(t) ==
  /\ At(t, "store")
  /\ call' = [call EXCEPT ![t].pc = "lookup"]
  /\ metaMap' \in Prune([metaMap EXCEPT ![call[t].file] =
                           [version |-> call[t].label, at |-> clock]])
  /\ UNCHANGED <<clock, changes, dirMap, cache, closed>>
StoreMeta(t) ==
  /\ At(t, "store")
  /\ call' = [call EXCEPT ![t].pc = "lookup"]
  /\ metaMap' \in Prune([metaMap EXCEPT ![call[t].file] =
                           [version |-> call[t].label, at |-> call[t].asked]])
  /\ UNCHANGED <<clock, changes, dirMap, cache, closed>>

\* HEAD failed: any entry serves, however old.  Without one the size is unknown too: a
\* GET is answered with an empty body, a prefetch goes on.
HeadFails(t) ==
  /\ At(t, "head")
  /\ LET entry == metaMap[call[t].file]
     IN \/ /\ entry # NoEntry
           /\ call' = [call EXCEPT ![t].pc = "lookup", ![t].label = entry.version,
                                   ![t].current = FALSE]
        \/ entry = NoEntry /\ call[t].kind = "get" /\ Ends(t)
        \/ /\ entry = NoEntry /\ call[t].kind = "next"
           /\ call' = [call EXCEPT ![t].pc = "lookup", ![t].current = FALSE]
  /\ UNCHANGED <<clock, changes, metaMap, dirMap, cache, closed>>

-----------------------------------------------------------------------------
(* The bytes: from the cache under the label, or from the upstream as it   *)
(* is by then, stored under the label.                                     *)

CachedAs(f, v) == {b \in cache : b.file = f /\ b.label = v}

\* A GET has its bytes; a prefetch is at its end.
Responds(t, response) ==
  call' = [call EXCEPT ![t] = IF @.kind = "get" THEN response ELSE Idle]

Lookup(t) ==
  /\ At(t, "lookup")
  /\ LET found == CachedAs(call[t].file, call[t].label)
     IN \/ \E b \in found :
             Responds(t, [call[t] EXCEPT !.pc = "sent", !.label = Unknown, !.body = b.content])
        \/ found = {} /\ call' = [call EXCEPT ![t].pc = "fetch"]
  /\ UNCHANGED <<clock, changes, metaMap, dirMap, cache, closed>>

\* fetchBlock looks its block up once more (for a prefetch, Lookup is that look).
LookupAgain(t) ==
  /\ At(t, "fetch") /\ call[t].kind = "get"
  /\ \E b \in CachedAs(call[t].file, call[t].label) :
       call' = [call EXCEPT ![t].pc = "copied", ![t].label = Unknown, ![t].body = b.content]
  /\ UNCHANGED <<clock, changes, metaMap, dirMap, cache, closed>>

Answered(t) ==
  /\ At(t, "fetch")
  /\ call' = [call EXCEPT ![t].pc = "put", ![t].body = Content(call[t].file)]
  /\ UNCHANGED <<clock, changes, metaMap, dirMap, cache, closed>>

PutBlock(t) ==
  /\ At(t, "put")
  /\ Responds(t, [call[t] EXCEPT !.pc = "copied", !.label = Unknown])
  /\ cache' = (cache \ CachedAs(call[t].file, call[t].label)) \cup
                {[file |-> call[t].file, label |-> call[t].label, content |-> call[t].body]}
  /\ UNCHANGED <<clock, changes, metaMap, dirMap, closed>>

\* The end of a response or of a prefetch, also when its fetch or its listing failed or
\* the preloader refused it.
Done(t) ==
  /\ call[t].pc \in {"sent", "fetch", "copied", "list"} /\ Ends(t)
  /\ UNCHANGED <<clock, changes, metaMap, dirMap, cache, closed>>

-----------------------------------------------------------------------------
(* prefetchNextEpisode: started by a GET that was fetched and had come to  *)
(* 70% of its file; it runs on in the place of the GET's thread.           *)

StartPrefetch_Unchecked(t) ==
  /\ At(t, "copied") /\ call[t].kind = "get"
  /\ call' = [call EXCEPT ![t] = [Idle EXCEPT !.pc = "dir", !.file = call[t].file]]
  /\ UNCHANGED <<clock, changes, metaMap, dirMap, cache, closed>>
StartPrefetch(t) ==
  /\ At(t, "copied") /\ call[t].kind = "get"
  /\ ~closed
  /\ call' = [call EXCEPT ![t] = [Idle EXCEPT !.pc = "dir", !.file = call[t].file]]
  /\ UNCHANGED <<clock, changes, metaMap, dirMap, cache, closed>>

\* tryPrefetch: the next episode, with a version of its own.
tryPrefetch_SameVersion(t, files) ==
  LET next == NextEpisode(files, call[t].file)
  IN call' = [call EXCEPT ![t] =
                IF next = NoName THEN Idle
                ELSE [Idle EXCEPT !.pc = "lookup", !.file = next, !.kind = "next",
                                  !.label = Version(call[t].file)]]
tryPrefetch_Unchecked(t, files) ==
  call' = [call EXCEPT ![t] = [Idle EXCEPT !.pc = "resolve", !.kind = "next",
                                           !.file = NextEpisode(files, call[t].file)]]
tryPrefetch(t, files) ==
  LET next == NextEpisode(files, call[t].file)
  IN call' = [call EXCEPT ![t] =
                IF next = NoName THEN Idle
                ELSE [Idle EXCEPT !.pc = "resolve", !.file = next, !.kind = "next"]]

LookupDir(t) ==
  /\ At(t, "dir")
  /\ LET usable == Fresh(dirMap) /\ dirMap.files # <<>>
     IN \/ usable /\ tryPrefetch(t, dirMap.files)
        \/ ~usable /\ call' = [call EXCEPT ![t].pc = "list", ![t].asked = clock]
  /\ UNCHANGED <<clock, changes, metaMap, dirMap, cache, closed>>

\* PROPFIND, depth 1, answers.  The pruneDir that follows finds one directory.
StoreDir(t) ==
  /\ At(t, "list")
  /\ \E files \in Listings :
       /\ dirMap' = [files |-> files, at |-> call[t].asked]
       /\ tryPrefetch(t, files)
  /\ UNCHANGED <<clock, changes, metaMap, cache, closed>>

Prefetching(t) ==
  call[t].pc \in {"dir", "list"} \/ (call[t].kind = "next" /\ ~At(t, "idle"))

Step(t) ==
  \/ ResolveNext(t) \/ HeadAnswers(t) \/ StoreMeta(t) \/ HeadFails(t)
  \/ Lookup(t) \/ LookupAgain(t) \/ Answered(t) \/ PutBlock(t) \/ Done(t)
  \/ StartPrefetch(t) \/ LookupDir(t) \/ StoreDir(t)

Next ==
  \/ Tick \/ Evict \/ Close \/ \E f \in Names : Change(f)
  \/ \E t \in Threads : Step(t) \/ (\E f \in Names : Get(t, f))

Spec == Init /\ [][Next]_vars

\* Goroutines are scheduled, and every upstream request ends.
FairSpec == Spec /\ \A t \in Threads : WF_vars(Step(t))

-----------------------------------------------------------------------------
(* Properties.                                                             *)

Entry == [version : Nat, at : Nat]
Call == [pc : {"idle", "resolve", "head", "store", "lookup", "fetch", "put", "sent",
               "copied", "dir", "list"},
         file : Names \cup {NoName}, kind : {"get", "next"}, asked : Nat, label : Nat,
         current : BOOLEAN, body : Nat]

\* Every variable keeps its type, and a thread at work has a file.
TypeOK ==
  /\ clock \in Nat /\ changes \in [Names -> Seq(Nat)]
  /\ metaMap \in [Names -> Entry \cup {NoEntry}]
  /\ dirMap \in [files : Listings, at : Nat] \cup {NoEntry}
  /\ cache \subseteq [file : Names, label : Nat, content : Nat]
  /\ closed \in BOOLEAN
  /\ call \in [Threads -> Call]
  /\ \A t \in Threads : call[t].file = NoName => call[t] = Idle

\* Version v of f was the upstream's at some moment from time s on.
CurrentSince(f, v, s) ==
  v = Content(f) \/ (v < Content(f) /\ v > 0 /\ s <= changes[f][v])

\* An entry of metaMap names a version that was the upstream's when it was asked for or
\* later, also when two HEADs were answered in one order and stored in the other
\* (resolveVersion takes the time before it sends the HEAD).
EntriesAreHonest ==
  \A f \in Tagged : metaMap[f] # NoEntry => CurrentSince(f, metaMap[f].version, metaMap[f].at)

\* A response to a GET of a file with an ETag holds bytes that were the upstream's at
\* most HeadRevalidateSec before the request resolved its version, whoever fetched or
\* prefetched them and under whichever label, unless HEAD failed and an old entry had to
\* serve (resolveVersion, the cache key of handleGet, tryPrefetch).
BytesAreRecent ==
  \A t \in Threads :
    call[t].kind = "get" /\ call[t].pc \in {"sent", "put", "copied"} /\ call[t].current
      /\ call[t].file \in Tagged
      => CurrentSince(call[t].file, call[t].body, call[t].asked - MaxAge)

\* A block cached under a version is of that version or a later one, never an older one:
\* the label is resolved before the bytes are fetched.
LabelsAreFloors ==
  \A b \in cache : b.label <= b.content /\ b.content <= Content(b.file)

\* metaMap never has more entries than MetaCacheMaxEntries (pruneMeta).
MapBounded == Cap > 0 => Cardinality({f \in Names : metaMap[f] # NoEntry}) <= Cap

\* Listing files has n behind f, and nothing that sorts between the two.
Follows(files, f, n) ==
  /\ n \in Range(files) /\ ~natLess(n, f)
  /\ \A g \in Range(files) : natLess(f, g) => ~natLess(g, n)

\* What a step makes of thread t's listing.
Nearest(t) ==
  LET f == call[t].file
      next == call'[t].file
  IN /\ At(t, "dir") /\ call'[t].kind = "next" => Follows(dirMap.files, f, next)
     /\ At(t, "list") /\ call'[t].kind = "next" => Follows(dirMap'.files, f, next)
     /\ At(t, "dir") /\ call'[t].pc = "idle" /\ f \in Range(dirMap.files) =>
          \A g \in Range(dirMap.files) : ~natLess(f, g)

\* The episode a prefetch turns to is the next of the listing it works from, whatever
\* the order PROPFIND gave it in and however many names are equal to natLess; and a
\* prefetch that stops at a listing it had was at the last (NextEpisode, tryPrefetch).
NextIsNearest == [][\A t \in Threads : Nearest(t)]_vars

\* Once Close has cancelled the context, prefetching dies out: those under way end and no
\* other begins, although requests still come (the check of s.ctx).
PrefetchesDieOut == closed ~> [](\A t \in Threads : ~Prefetching(t))
=============================================================================
