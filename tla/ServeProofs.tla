---------------------------- MODULE ServeProofs ----------------------------
(***************************************************************************)
(* Proofs about Serve, for every block size, file, set of headers and      *)
(* number of handlers the assumptions allow: which bytes a cached block    *)
(* may have, and which bytes a response is made of.                        *)
(***************************************************************************)
EXTENDS Serve, Lemmas

(* The inductive invariant, in parts. *)

\* Where n bytes of block o may end: at the block's end, or where a range ended.
CutWell(o, n) == n \in {0, OnFile(o)} \/ o + n - 1 \in asked

\* A job at work has blocks of its range left, and a fetch ends where it was asked to.
JobsInv ==
  /\ pc[Ahead] \in {"idle", "fetch"}
  /\ \A j \in Jobs : pc[j] \in {"check", "flush", "fetch"} => todo[j] \subseteq BlocksOf(rng[j])
  /\ \A j \in Jobs : pc[j] = "fetch" => End(j) \in asked

\* Blocks in the cache and in hand are cut well.
CutsInv ==
  /\ PartialIsATail
  /\ \A j \in Jobs, o \in Aligned : CutWell(o, got[j][o])

\* Nothing is written before the response is made.
NotBegun(h) ==
  pc[h] \in {"idle", "check", "fetch"} =>
    source[h] = "none" /\ body[h] = << >> /\ written[h] = 0
\* A flush has what is left of its range before it, and a block in the middle of which
\* the range begins comes first.
Flushing(h) ==
  pc[h] = "flush" =>
    /\ source[h] = "cache"
    /\ \A o \in todo[h], p \in BlocksOf(rng[h]) : o < p => p \in todo[h]
    /\ \A o \in todo[h] : o < Start(h) => body[h] = << >> /\ written[h] = 0
    /\ Start(h) <= End(h) => \A o \in todo[h] : \A i \in DOMAIN body[h] : body[h][i] < o
\* BodyInOrder, of one response.
Ordered(h) ==
  source[h] \in {"cache", "fetch"} /\ Start(h) <= End(h) =>
    /\ \A i \in DOMAIN body[h] : body[h][i] \in Start(h)..End(h)
    /\ \A i \in 2..Len(body[h]) : body[h][i - 1] < body[h][i]

\* A response from whole blocks: the bytes up to the next block, all accepted.
Whole(h) ==
  /\ \A o \in BlocksOf(rng[h]) : got[h][o] = OnFile(o)
  /\ Start(h) = KeyFor(Start(h)) \/ End(h) >= KeyFor(Start(h)) + BlockSize - 1
Sound(h) ==
  pc[h] \in {"flush", "done"} /\ source[h] = "cache" /\ Start(h) <= End(h) =>
    /\ pc[h] = "done" => todo[h] = {}
    /\ Whole(h) =>
         /\ written[h] = Len(body[h]) /\ body[h] = Bytes(Start(h), Len(body[h]))
         /\ todo[h] = {} => Len(body[h]) = ContentLength(h)
         /\ \A o \in todo[h] : IsNext(h, o) =>
              Start(h) + Len(body[h]) = IF o < Start(h) THEN Start(h) ELSE o

Answer(h) == NotBegun(h) /\ Flushing(h) /\ Ordered(h) /\ Sound(h)
AnswersInv == \A h \in Handlers : Answer(h)

-----------------------------------------------------------------------------
(* Blocks.                                                                 *)

USE SizeAssumption

LEMMA AlignedNat ==
  ASSUME NEW o \in Aligned
  PROVE  o \in Nat /\ o \in Offsets /\ o < FileSize
  BY DEF Aligned, Offsets

LEMMA KeyForBounds ==
  ASSUME NEW x \in Nat
  PROVE  KeyFor(x) \in Nat /\ KeyFor(x) <= x /\ x < KeyFor(x) + BlockSize
  BY BlockCovers DEF KeyFor

LEMMA KeyForAligned ==
  ASSUME NEW x \in Offsets
  PROVE  KeyFor(x) \in Aligned
  <1>1. x \in Nat BY DEF Offsets
  <1>2. KeyFor(x) % BlockSize = 0 BY <1>1, BlockAligned DEF KeyFor
  <1>3. KeyFor(x) \in Nat /\ KeyFor(x) <= x BY <1>1, KeyForBounds
  <1>4. KeyFor(x) \in Offsets BY <1>3 DEF Offsets
  <1>5. QED BY <1>2, <1>4 DEF Aligned

\* Two block offsets are equal or at least a block apart.
LEMMA AlignedApart ==
  ASSUME NEW a \in Aligned, NEW b \in Aligned, a < b
  PROVE  a + BlockSize <= b
  <1>1. /\ a \in Nat /\ b \in Nat /\ a % BlockSize = 0 /\ b % BlockSize = 0
        /\ BlockSize \in Nat \ {0}
    BY DEF Aligned, Offsets
  <1>2. QED BY <1>1, BlocksApart

LEMMA AlignedNext ==
  ASSUME NEW o \in Aligned, o + BlockSize < FileSize
  PROVE  o + BlockSize \in Aligned
  <1>1. o \in Nat /\ o % BlockSize = 0 /\ BlockSize \in Nat \ {0} BY DEF Aligned, Offsets
  <1>2. (o + BlockSize) % BlockSize = 0 BY <1>1, BlockAfter
  <1>3. QED BY <1>1, <1>2 DEF Aligned, Offsets

\* The bytes a block has in the file.
LEMMA OnFileBounds ==
  ASSUME NEW o \in Aligned
  PROVE  /\ OnFile(o) \in 1..BlockSize /\ o + OnFile(o) <= FileSize
         /\ o + BlockSize <= FileSize => OnFile(o) = BlockSize
         /\ o + BlockSize > FileSize => OnFile(o) = FileSize - o
  BY AlignedNat DEF OnFile, Least

LEMMA BlocksOfAligned ==
  ASSUME NEW r
  PROVE  BlocksOf(r) \in SUBSET Aligned
  BY DEF BlocksOf

LEMMA BytesAre ==
  ASSUME NEW a \in Int, NEW n \in Nat, NEW S, \A i \in 1..n : a + i - 1 \in S
  PROVE  /\ Bytes(a, n) \in Seq(S) /\ Len(Bytes(a, n)) = n
         /\ DOMAIN Bytes(a, n) = 1..n
         /\ \A i \in 1..n : Bytes(a, n)[i] = a + i - 1
  BY DEF Bytes

-----------------------------------------------------------------------------
(* Types, and where blocks are cut.                                        *)

Typed == TypeOK /\ JobsInv /\ CutsInv

\* A job is a handler or the read-ahead, and not both.
LEMMA JobsAre ==
  /\ Ahead \in Jobs /\ Ahead \notin Handlers
  /\ \A h \in Handlers : h \in Jobs /\ h # Ahead
  BY JobAssumption DEF Jobs

LEMMA JobTyped ==
  ASSUME Typed, NEW j \in Jobs
  PROVE  /\ rng[j] \in Nat \X Offsets /\ Start(j) \in Nat /\ End(j) \in Offsets
         /\ todo[j] \in SUBSET Aligned /\ unput[j] \in SUBSET Aligned
         /\ got[j] \in [Aligned -> 0..BlockSize]
  BY DEF Typed, TypeOK, Start, End

\* A block cut well ends in the file.
LEMMA CutInFile ==
  ASSUME asked \subseteq Offsets, NEW o \in Aligned, NEW n \in 0..BlockSize, CutWell(o, n)
  PROVE  o + n <= FileSize
  <1>1. o \in Nat /\ o < FileSize BY AlignedNat
  <1>2. CASE n = 0 BY <1>1, <1>2
  <1>3. CASE n = OnFile(o) BY <1>3, OnFileBounds
  <1>4. CASE o + n - 1 \in asked
    <2>1. o + n - 1 \in Offsets BY <1>4
    <2>2. QED BY <1>1, <2>1 DEF Offsets
  <1>5. QED BY <1>2, <1>3, <1>4 DEF CutWell

LEMMA InitTyped == Init => Typed
  <1> SUFFICES ASSUME Init PROVE Typed OBVIOUS
  <1> USE DEF Init, nothing, noRange
  <1>1. 0 \in Offsets /\ 0 \in Nat /\ 0 \in 0..BlockSize BY DEF Offsets
  <1>2. TypeOK BY <1>1, JobsAre DEF TypeOK
  <1>3. JobsInv BY JobsAre DEF JobsInv
  <1>4. CutsInv BY <1>1 DEF CutsInv, PartialIsATail, CutWell
  <1>5. QED BY <1>2, <1>3, <1>4 DEF Typed

\* More may be asked for; blocks stay.
LEMMA CutsStay ==
  ASSUME CutsInv, UNCHANGED <<cache, got>>, asked \subseteq asked'
  PROVE  CutsInv'
  BY DEF CutsInv, PartialIsATail, CutWell, OnFile

\* What a header asks for ends in the file.
LEMMA RangeOfTyped ==
  ASSUME NEW header \in Headers
  PROVE  RangeOf(header) \in Nat \X Offsets
  <1>1. header = NoHeader \/ header \in (Nat \cup {Absent}) \X (Nat \cup {Absent})
    BY HeadersAssumption
  <1>2. FileSize - 1 \in Offsets BY DEF Offsets
  <1>3. \A n \in Nat : Least(n, FileSize - 1) \in Offsets BY DEF Offsets, Least
  <1>4. QED BY <1>1, <1>2, <1>3 DEF RangeOf

LEMMA RequestTyped ==
  ASSUME Typed, NEW h \in Handlers, NEW header \in Headers, Request(h, header)
  PROVE  Typed'
  <1> USE JobsAre DEF Typed
  <1> DEFINE r == RangeOf(header)
  <1>1. r \in Nat \X Offsets BY RangeOfTyped
  <1>2. BlocksOf(r) \in SUBSET Aligned BY BlocksOfAligned
  <1>3. /\ pc' = [pc EXCEPT ![h] = "check"] /\ rng' = [rng EXCEPT ![h] = r]
        /\ todo' = [todo EXCEPT ![h] = BlocksOf(r)] /\ requests' = requests + 1
        /\ UNCHANGED <<cache, got, unput, status, body, written, source, alive, asked>>
    BY DEF Request, responseVars
  <1> HIDE DEF r
  <1>4. TypeOK' BY <1>1, <1>2, <1>3 DEF TypeOK
  <1>5. JobsInv' BY <1>3 DEF JobsInv, TypeOK, End
  <1>6. CutsInv' BY <1>3, CutsStay
  <1>7. QED BY <1>4, <1>5, <1>6

LEMMA RequestUnsizedTyped ==
  ASSUME Typed, NEW h \in Handlers, RequestUnsized(h)
  PROVE  Typed'
  <1> USE JobsAre DEF Typed
  <1>1. writeHeader(h, 200) \in {0, 200, 206, 502} BY DEF writeHeader, TypeOK
  <1>2. TypeOK' BY <1>1 DEF RequestUnsized, TypeOK
  <1>3. JobsInv' BY DEF RequestUnsized, JobsInv, TypeOK, End
  <1>4. CutsInv' BY CutsStay DEF RequestUnsized
  <1>5. QED BY <1>2, <1>3, <1>4

\* Jobs that only drop blocks keep the rest of their invariant.
LEMMA FewerBlocks ==
  ASSUME JobsInv, UNCHANGED <<pc, rng, asked>>, \A j \in Jobs : todo'[j] \subseteq todo[j]
  PROVE  JobsInv'
  BY DEF JobsInv, End

LEMMA CheckBlockTyped ==
  ASSUME Typed, NEW h \in Handlers, CheckBlock(h)
  PROVE  Typed'
  <1> USE JobsAre DEF Typed
  <1>1. PICK o \in todo[h] :
          \/ /\ cache[o] > 0
             /\ got' = [got EXCEPT ![h][o] = cache[o]]
             /\ todo' = [todo EXCEPT ![h] = @ \ {o}]
             /\ UNCHANGED <<pc, status, asked>>
          \/ /\ cache[o] = 0
             /\ got' = [got EXCEPT ![h] = nothing]
             /\ todo' = [todo EXCEPT ![h] = BlocksOf(rng[h])]
             /\ pc' = [pc EXCEPT ![h] = "fetch"]
             /\ status' = [status EXCEPT ![h] = writeHeader(h, 206)]
             /\ asked' = asked \cup {End(h)}
    BY DEF CheckBlock
  <1>2. /\ pc[h] = "check" /\ UNCHANGED <<cache, rng, unput, body, written, source, alive, requests>>
    BY DEF CheckBlock
  <1>3. o \in Aligned /\ cache[o] \in 0..BlockSize BY JobTyped DEF TypeOK
  <1>4. CASE got' = [got EXCEPT ![h][o] = cache[o]]
             /\ todo' = [todo EXCEPT ![h] = @ \ {o}] /\ UNCHANGED <<pc, status, asked>>
    <2>1. TypeOK'
      <3>1. got[h] \in [Aligned -> 0..BlockSize] BY DEF TypeOK
      <3>2. [got[h] EXCEPT ![o] = cache[o]] \in [Aligned -> 0..BlockSize] BY <1>3, <3>1
      <3>3. got' \in [Jobs -> [Aligned -> 0..BlockSize]] BY <1>4, <3>2 DEF TypeOK
      <3>4. todo' \in [Jobs -> SUBSET Aligned] BY <1>4 DEF TypeOK
      <3>5. QED BY <1>2, <1>4, <3>3, <3>4 DEF TypeOK
    <2>2. JobsInv'
      <3>1. \A j \in Jobs : todo'[j] \subseteq todo[j] BY <1>4 DEF TypeOK
      <3>2. QED BY <1>2, <1>4, <3>1, FewerBlocks
    <2>3. \A j \in Jobs, p \in Aligned :
            got'[j][p] = IF j = h /\ p = o THEN cache[o] ELSE got[j][p]
      BY <1>3, <1>4 DEF TypeOK
    <2>4. CutsInv' BY <1>2, <1>3, <1>4, <2>3 DEF CutsInv, PartialIsATail, CutWell, OnFile
    <2>5. QED BY <2>1, <2>2, <2>4
  <1>5. CASE /\ got' = [got EXCEPT ![h] = nothing]
             /\ todo' = [todo EXCEPT ![h] = BlocksOf(rng[h])]
             /\ pc' = [pc EXCEPT ![h] = "fetch"]
             /\ status' = [status EXCEPT ![h] = writeHeader(h, 206)]
             /\ asked' = asked \cup {End(h)}
    <2>1. writeHeader(h, 206) \in {0, 200, 206, 502} BY DEF writeHeader, TypeOK
    <2>2. BlocksOf(rng[h]) \in SUBSET Aligned BY BlocksOfAligned
    <2>3. nothing \in [Aligned -> 0..BlockSize] BY DEF nothing
    <2>9. End(h) \in Offsets BY JobTyped
    <2>4. TypeOK'
      <3>1. got' \in [Jobs -> [Aligned -> 0..BlockSize]] BY <1>5, <2>3 DEF TypeOK
      <3>2. todo' \in [Jobs -> SUBSET Aligned] BY <1>5, <2>2 DEF TypeOK
      <3>3. pc' \in [Jobs -> {"idle", "check", "flush", "fetch", "done"}]
        BY <1>5 DEF TypeOK
      <3>4. status' \in [Handlers -> {0, 200, 206, 502}] BY <1>5, <2>1 DEF TypeOK
      <3>5. asked' \subseteq Offsets BY <1>5, <2>9 DEF TypeOK
      <3>6. QED BY <1>2, <3>1, <3>2, <3>3, <3>4, <3>5 DEF TypeOK
    <2>5. JobsInv'
      <3>1. /\ pc'[h] = "fetch" /\ todo'[h] = BlocksOf(rng'[h]) /\ End(h)' \in asked'
            /\ UNCHANGED rng /\ asked \subseteq asked'
        BY <1>2, <1>5 DEF TypeOK, End
      <3>2. \A j \in Jobs \ {h} : pc'[j] = pc[j] /\ todo'[j] = todo[j]
        BY <1>5 DEF TypeOK
      <3>3. QED BY <3>1, <3>2 DEF JobsInv, End
    <2>6. \A j \in Jobs, p \in Aligned : got'[j][p] = IF j = h THEN 0 ELSE got[j][p]
      BY <1>5 DEF TypeOK, nothing
    <2>7. CutsInv' BY <1>2, <1>5, <2>6 DEF CutsInv, PartialIsATail, CutWell, OnFile
    <2>8. QED BY <2>4, <2>5, <2>7
  <1>6. QED BY <1>1, <1>4, <1>5

LEMMA StartFlushTyped ==
  ASSUME Typed, NEW h \in Handlers, StartFlush(h)
  PROVE  Typed'
  <1> USE JobsAre DEF Typed
  <1>1. writeHeader(h, 206) \in {0, 200, 206, 502} BY DEF writeHeader, TypeOK
  <1>2. BlocksOf(rng[h]) \in SUBSET Aligned BY BlocksOfAligned
  <1>3. TypeOK' BY <1>1, <1>2 DEF StartFlush, TypeOK
  <1>4. JobsInv' BY DEF StartFlush, JobsInv, TypeOK, End
  <1>5. CutsInv' BY CutsStay DEF StartFlush
  <1>6. QED BY <1>3, <1>4, <1>5

\* What a flush writes of a block are bytes of it.
LEMMA SegIs ==
  ASSUME Typed, NEW h \in Handlers, NEW o \in BlocksOf(rng[h]), SegStart(h, o) <= got[h][o]
  PROVE  LET a == o + SegStart(h, o)
             k == got[h][o] - SegStart(h, o)
             n == IF o + k - 1 > End(h) THEN End(h) - o + 1 ELSE k
         IN  /\ Seg(h, o) = Bytes(a, n) /\ n \in 0..k /\ a \in Nat
             /\ SegStart(h, o) \in Nat /\ a = IF o < Start(h) THEN Start(h) ELSE o
             /\ Seg(h, o) \in Seq(Offsets) /\ Len(Seg(h, o)) = n
             /\ \A i \in 1..n : Seg(h, o)[i] = a + i - 1
  <1> DEFINE s == SegStart(h, o)  a == o + s  k == got[h][o] - s
             n == IF o + k - 1 > End(h) THEN End(h) - o + 1 ELSE k
  <1>1. o \in Aligned /\ o \in Nat /\ o <= End(h) BY AlignedNat DEF BlocksOf, End
  <1>2. Start(h) \in Nat /\ End(h) \in Nat /\ got[h][o] \in 0..BlockSize
    BY <1>1, JobsAre, JobTyped DEF Offsets
  <1>3. s \in Nat /\ a = IF o < Start(h) THEN Start(h) ELSE o
    BY <1>1, <1>2 DEF SegStart
  <1>4. k \in Nat /\ n \in 0..k BY <1>1, <1>2, <1>3
  <1>5. o + got[h][o] <= FileSize
    <2>1. CutWell(o, got[h][o]) BY <1>1, JobsAre DEF Typed, CutsInv
    <2>2. asked \subseteq Offsets BY DEF Typed, TypeOK
    <2>3. QED BY <1>1, <1>2, <2>1, <2>2, CutInFile
  <1>6. Seg(h, o) = Bytes(a, n) BY DEF Seg
  <1> HIDE DEF s, n
  <1>7. \A i \in 1..n : a + i - 1 \in Offsets BY <1>1, <1>2, <1>3, <1>4, <1>5 DEF Offsets
  <1>8. a \in Nat /\ n \in Nat BY <1>1, <1>3, <1>4
  <1> HIDE DEF a
  <1>9. Bytes(a, n) \in Seq(Offsets) /\ Len(Bytes(a, n)) = n
        /\ \A i \in 1..n : Bytes(a, n)[i] = a + i - 1
    BY <1>7, <1>8 DEF Bytes
  <1>10. QED BY <1>3, <1>4, <1>6, <1>8, <1>9 DEF a, s, n

\* A block is written, or the slice of it panics.
LEMMA FlushBlockIs ==
  ASSUME Typed, NEW h \in Handlers, FlushBlock(h)
  PROVE  /\ pc[h] = "flush"
         /\ UNCHANGED <<cache, rng, got, unput, status, alive, requests, asked>>
         /\ \/ /\ source' = [source EXCEPT ![h] = "panic"]
               /\ pc' = [pc EXCEPT ![h] = "done"] /\ todo' = [todo EXCEPT ![h] = {}]
               /\ UNCHANGED <<body, written>>
            \/ \E o \in todo[h] :
                 /\ IsNext(h, o) /\ SegStart(h, o) <= got[h][o]
                 /\ o \in BlocksOf(rng[h])
                 /\ written' = [written EXCEPT ![h] = @ + Len(Seg(h, o))]
                 /\ body' = [body EXCEPT ![h] =
                      IF ContentLength(h) >= 0 /\ written[h] + Len(Seg(h, o)) > ContentLength(h)
                      THEN @ ELSE @ \o Seg(h, o)]
                 /\ todo' = [todo EXCEPT ![h] = @ \ {o}]
                 /\ UNCHANGED <<pc, source>>
  <1>1. pc[h] = "flush" BY DEF FlushBlock
  <1>2. todo[h] \subseteq BlocksOf(rng[h]) BY <1>1, JobsAre DEF Typed, JobsInv
  <1>3. QED BY <1>1, <1>2 DEF FlushBlock, Write, Typed, TypeOK

LEMMA FlushBlockTyped ==
  ASSUME Typed, NEW h \in Handlers, FlushBlock(h)
  PROVE  Typed'
  <1> USE JobsAre DEF Typed
  <1>1. /\ pc[h] = "flush"
        /\ UNCHANGED <<cache, rng, got, unput, status, alive, requests, asked>>
    BY FlushBlockIs
  <1>2. CutsInv' BY <1>1, CutsStay
  <1>3. CASE /\ source' = [source EXCEPT ![h] = "panic"]
             /\ pc' = [pc EXCEPT ![h] = "done"] /\ todo' = [todo EXCEPT ![h] = {}]
             /\ UNCHANGED <<body, written>>
    <2>1. TypeOK' BY <1>1, <1>3 DEF TypeOK
    <2>2. JobsInv' BY <1>1, <1>3 DEF JobsInv, TypeOK, End
    <2>3. QED BY <1>2, <2>1, <2>2
  <1>4. ASSUME NEW o \in todo[h],
               IsNext(h, o), SegStart(h, o) <= got[h][o], o \in BlocksOf(rng[h]),
               written' = [written EXCEPT ![h] = @ + Len(Seg(h, o))],
               body' = [body EXCEPT ![h] =
                 IF ContentLength(h) >= 0 /\ written[h] + Len(Seg(h, o)) > ContentLength(h)
                 THEN @ ELSE @ \o Seg(h, o)],
               todo' = [todo EXCEPT ![h] = @ \ {o}],
               UNCHANGED <<pc, source>>
        PROVE  Typed'
    <2>1. Seg(h, o) \in Seq(Offsets) BY <1>4, SegIs
    <2>2. Seg(h, o) \in Seq(Offsets \cup {-1}) /\ Len(Seg(h, o)) \in Nat BY <2>1
    <2>3. body[h] \in Seq(Offsets \cup {-1}) BY DEF TypeOK
    <2>4. body[h] \o Seg(h, o) \in Seq(Offsets \cup {-1}) BY <2>2, <2>3
    <2>5. body' \in [Handlers -> Seq(Offsets \cup {-1})] BY <1>4, <2>3, <2>4 DEF TypeOK
    <2>6. written' \in [Handlers -> Nat] BY <1>4, <2>2 DEF TypeOK
    <2>7. todo' \in [Jobs -> SUBSET Aligned] BY <1>4 DEF TypeOK
    <2>8. UNCHANGED <<cache, rng, got, unput, status, alive, requests, asked, pc, source>>
      BY <1>1, <1>4
    <2>9. TypeOK' BY <2>5, <2>6, <2>7, <2>8 DEF TypeOK
    <2>10. JobsInv'
      <3>1. \A j \in Jobs : todo'[j] \subseteq todo[j] BY <1>4 DEF TypeOK
      <3>2. QED BY <2>8, <3>1, FewerBlocks
    <2>11. QED BY <1>2, <2>9, <2>10
  <1>5. QED BY <1>3, <1>4, FlushBlockIs

\* The response is over; the read-ahead may begin.
LEMMA OnReadIs ==
  ASSUME Typed, NEW h \in Handlers, OnRead(h, End(h))
  PROVE  /\ asked \subseteq asked' /\ asked' \in SUBSET Offsets
         /\ rng' \in [Jobs -> Nat \X Offsets] /\ todo' \in [Jobs -> SUBSET Aligned]
         /\ \/ pc' = [pc EXCEPT ![h] = "done"] /\ UNCHANGED <<rng, todo>>
            \/ /\ pc' = [pc EXCEPT ![h] = "done", ![Ahead] = "fetch"]
               /\ todo' = [todo EXCEPT ![Ahead] = BlocksOf(rng'[Ahead])]
               /\ rng'[Ahead][2] \in asked'
         /\ \A j \in Jobs \ {Ahead} : rng'[j] = rng[j] /\ todo'[j] = todo[j]
  <1> USE JobsAre DEF Typed
  <1>1. CASE pc' = [pc EXCEPT ![h] = "done"] /\ UNCHANGED <<rng, todo, asked>>
    BY <1>1 DEF TypeOK
  <1>2. CASE ~(pc' = [pc EXCEPT ![h] = "done"] /\ UNCHANGED <<rng, todo, asked>>)
    <2> DEFINE a == AheadFrom(End(h))  b == AheadTo(End(h))
    <2>1. /\ a < FileSize
          /\ pc' = [pc EXCEPT ![h] = "done", ![Ahead] = "fetch"]
          /\ rng' = [rng EXCEPT ![Ahead] = <<a, b>>]
          /\ todo' = [todo EXCEPT ![Ahead] = BlocksOf(<<a, b>>)]
          /\ asked' = asked \cup {b}
      BY <1>2 DEF OnRead
    <2>2. End(h) \in Nat BY JobTyped DEF Offsets
    <2>3. a \in Nat /\ b \in Offsets
      BY <2>1, <2>2 DEF AheadFrom, AheadTo, Least, Offsets
    <2>4. BlocksOf(<<a, b>>) \in SUBSET Aligned BY BlocksOfAligned
    <2> HIDE DEF a, b
    <2>5. asked' \in SUBSET Offsets /\ asked \subseteq asked' /\ b \in asked'
      BY <2>1, <2>3 DEF TypeOK
    <2>6. /\ rng' \in [Jobs -> Nat \X Offsets] /\ rng'[Ahead] = <<a, b>>
          /\ \A j \in Jobs \ {Ahead} : rng'[j] = rng[j]
      BY <2>1, <2>3 DEF TypeOK
    <2>7. /\ todo' \in [Jobs -> SUBSET Aligned]
          /\ \A j \in Jobs \ {Ahead} : todo'[j] = todo[j]
      <3> DEFINE B == BlocksOf(<<a, b>>)
      <3>1. todo' = [todo EXCEPT ![Ahead] = B] /\ B \in SUBSET Aligned BY <2>1, <2>4
      <3> HIDE DEF B
      <3>2. todo \in [Jobs -> SUBSET Aligned] BY DEF TypeOK
      <3>3. QED BY <3>1, <3>2
    <2>8. todo' = [todo EXCEPT ![Ahead] = BlocksOf(rng'[Ahead])] /\ rng'[Ahead][2] \in asked'
      BY <2>1, <2>5, <2>6
    <2>9. QED BY <2>1, <2>5, <2>6, <2>7, <2>8
  <1>3. QED BY <1>1, <1>2

LEMMA OnReadTyped ==
  ASSUME Typed, NEW h \in Handlers, OnRead(h, End(h)),
         UNCHANGED <<cache, got, unput, status, written, alive, requests>>,
         body' \in [Handlers -> Seq(Offsets \cup {-1})],
         source' \in [Handlers -> {"none", "cache", "fetch", "error", "panic", "unsized"}]
  PROVE  Typed'
  <1> USE JobsAre DEF Typed
  <1>1. /\ asked \subseteq asked' /\ asked' \in SUBSET Offsets
        /\ rng' \in [Jobs -> Nat \X Offsets] /\ todo' \in [Jobs -> SUBSET Aligned]
        /\ \/ pc' = [pc EXCEPT ![h] = "done"] /\ UNCHANGED <<rng, todo>>
           \/ /\ pc' = [pc EXCEPT ![h] = "done", ![Ahead] = "fetch"]
              /\ todo' = [todo EXCEPT ![Ahead] = BlocksOf(rng'[Ahead])]
              /\ rng'[Ahead][2] \in asked'
        /\ \A j \in Jobs \ {Ahead} : rng'[j] = rng[j] /\ todo'[j] = todo[j]
    BY OnReadIs
  <1>2. TypeOK'
    <2> DEFINE Places == {"idle", "check", "flush", "fetch", "done"}
    <2>1. pc \in [Jobs -> Places] /\ {"done", "fetch"} \subseteq Places BY DEF TypeOK
    <2>2. \/ pc' = [pc EXCEPT ![h] = "done"]
          \/ pc' = [pc EXCEPT ![h] = "done", ![Ahead] = "fetch"]
      BY <1>1
    <2> HIDE DEF Places
    <2>3. pc' \in [Jobs -> Places] BY <2>1, <2>2
    <2>4. QED BY <1>1, <2>3 DEF TypeOK, Places
  <1>3. CutsInv' BY <1>1, CutsStay
  <1>4. JobsInv'
    <2>1. CASE pc' = [pc EXCEPT ![h] = "done"] /\ UNCHANGED <<rng, todo>>
      BY <1>1, <2>1 DEF JobsInv, TypeOK, End
    <2>2. CASE /\ pc' = [pc EXCEPT ![h] = "done", ![Ahead] = "fetch"]
               /\ todo' = [todo EXCEPT ![Ahead] = BlocksOf(rng'[Ahead])]
               /\ rng'[Ahead][2] \in asked'
      <3>1. pc'[Ahead] = "fetch" /\ todo'[Ahead] = BlocksOf(rng'[Ahead]) BY <2>2 DEF TypeOK
      <3>2. \A j \in Jobs \ {Ahead} : pc'[j] = "done" \/ pc'[j] = pc[j] BY <2>2 DEF TypeOK
      <3>3. QED BY <1>1, <2>2, <3>1, <3>2 DEF JobsInv, End
    <2>3. QED BY <1>1, <2>1, <2>2
  <1>5. QED BY <1>2, <1>3, <1>4

LEMMA FlushEndsTyped ==
  ASSUME Typed, NEW h \in Handlers, FlushEnds(h)
  PROVE  Typed'
  <1>1. /\ body' \in [Handlers -> Seq(Offsets \cup {-1})]
        /\ source' \in [Handlers -> {"none", "cache", "fetch", "error", "panic", "unsized"}]
    BY DEF FlushEnds, responseVars, Typed, TypeOK
  <1>2. QED BY <1>1, OnReadTyped DEF FlushEnds, responseVars

-----------------------------------------------------------------------------
(* A fetch.                                                                *)

LEMMA ObtainTyped ==
  ASSUME Typed, NEW j \in Jobs, NEW o \in Aligned, Obtain(j, o)
  PROVE  Typed'
  <1> USE DEF Typed
  <1> DEFINE n == IF cache[o] > 0 THEN cache[o] ELSE Least(Want(j, o), OnFile(o))
  <1>1. /\ pc[j] = "fetch" /\ o \in todo[j]
        /\ got' = [got EXCEPT ![j][o] = n]
        /\ todo' = [todo EXCEPT ![j] = @ \ {o}]
        /\ unput' = [unput EXCEPT ![j] = @ \cup {o}]
        /\ UNCHANGED <<cache, pc, rng, status, body, written, source, alive, requests, asked>>
    BY DEF Obtain, responseVars
  <1>2. End(j) \in asked /\ End(j) \in Nat /\ o <= End(j) /\ o \in Nat
    BY <1>1, JobTyped, AlignedNat DEF JobsInv, BlocksOf, End, Offsets
  <1>3. cache[o] \in 0..BlockSize BY DEF TypeOK
  <1>4. OnFile(o) \in 1..BlockSize BY OnFileBounds
  <1>5. n \in 0..BlockSize /\ CutWell(o, n)
    <2>1. CASE cache[o] > 0 BY <1>3, <2>1 DEF CutsInv, PartialIsATail, CutWell
    <2>2. CASE ~(cache[o] > 0)
      <3>1. n \in {OnFile(o), End(j) - o + 1} /\ n \in 1..BlockSize
        BY <1>2, <1>4, <2>2 DEF Want, Least
      <3>2. CASE n = OnFile(o) BY <3>1, <3>2 DEF CutWell
      <3>3. CASE n = End(j) - o + 1
        <4>1. o + n - 1 = End(j) BY <1>2, <3>3
        <4>2. QED BY <1>2, <3>1, <4>1 DEF CutWell
      <3>4. QED BY <3>1, <3>2, <3>3
    <2>3. QED BY <2>1, <2>2
  <1> HIDE DEF n
  <1>6. TypeOK' BY <1>1, <1>5 DEF TypeOK
  <1>7. JobsInv' BY <1>1 DEF JobsInv, TypeOK, End
  <1>8. \A k \in Jobs, p \in Aligned :
          got'[k][p] = IF k = j /\ p = o THEN n ELSE got[k][p]
    BY <1>1 DEF TypeOK
  <1>9. CutsInv' BY <1>1, <1>5, <1>8 DEF CutsInv, PartialIsATail, CutWell, OnFile
  <1>10. QED BY <1>6, <1>7, <1>9

LEMMA StoreTyped ==
  ASSUME Typed, NEW j \in Jobs, NEW o \in Aligned, Store(j, o)
  PROVE  Typed'
  <1> USE DEF Typed
  <1>1. /\ cache' \in {cache, [cache EXCEPT ![o] = got[j][o]]}
        /\ unput' = [unput EXCEPT ![j] = @ \ {o}]
        /\ UNCHANGED <<pc, rng, todo, got, status, body, written, source, alive, requests, asked>>
    BY DEF Store, responseVars
  <1>2. got[j][o] \in 0..BlockSize BY DEF TypeOK
  <1>3. TypeOK'
    <2>1. cache' \in [Aligned -> 0..BlockSize]
      <3>1. [cache EXCEPT ![o] = got[j][o]] \in [Aligned -> 0..BlockSize] BY <1>2 DEF TypeOK
      <3>2. cache \in [Aligned -> 0..BlockSize] BY DEF TypeOK
      <3>3. QED BY <1>1, <3>1, <3>2
    <2>2. unput' \in [Jobs -> SUBSET Aligned] BY <1>1 DEF TypeOK
    <2>3. QED BY <1>1, <2>1, <2>2 DEF TypeOK
  <1>4. JobsInv' BY <1>1 DEF JobsInv, TypeOK, End
  <1>5. \A p \in Aligned : cache'[p] \in {cache[p], IF p = o THEN got[j][o] ELSE cache[p]}
    BY <1>1 DEF TypeOK
  <1>6. CutsInv' BY <1>1, <1>5 DEF CutsInv, PartialIsATail, CutWell, OnFile
  <1>7. QED BY <1>3, <1>4, <1>6

LEMMA FetchFailsTyped ==
  ASSUME Typed, NEW j \in Jobs, FetchFails(j)
  PROVE  Typed'
  <1> USE JobsAre DEF Typed
  <1>1. /\ todo' = [todo EXCEPT ![j] = {}]
        /\ UNCHANGED <<cache, got, unput, alive, requests, asked>>
    BY DEF FetchFails
  <1>2. CutsInv' BY <1>1, CutsStay
  <1>3. noRange \in Nat \X Offsets BY DEF noRange, Offsets
  <1>4. CASE UNCHANGED <<pc, rng, responseVars>>
    <2>1. TypeOK' BY <1>1, <1>4 DEF TypeOK, responseVars
    <2>2. JobsInv' BY <1>1, <1>4 DEF JobsInv, TypeOK, End
    <2>3. QED BY <1>2, <2>1, <2>2
  <1>5. CASE /\ pc' = [pc EXCEPT ![j] = "idle"] /\ rng' = [rng EXCEPT ![j] = noRange]
             /\ UNCHANGED responseVars
    <2>1. TypeOK' BY <1>1, <1>3, <1>5 DEF TypeOK, responseVars
    <2>2. JobsInv' BY <1>1, <1>5 DEF JobsInv, TypeOK, End
    <2>3. QED BY <1>2, <2>1, <2>2
  <1>6. CASE /\ j # Ahead /\ pc' = [pc EXCEPT ![j] = "done"]
             /\ status' = [status EXCEPT ![j] = writeHeader(j, 502)]
             /\ body' = [body EXCEPT ![j] = @ \o ErrorText]
             /\ source' = [source EXCEPT ![j] = "error"] /\ UNCHANGED <<rng, written>>
    <2>1. j \in Handlers BY <1>6 DEF Jobs
    <2>2. writeHeader(j, 502) \in {0, 200, 206, 502} BY <2>1 DEF writeHeader, TypeOK
    <2>3. body[j] \o ErrorText \in Seq(Offsets \cup {-1})
      <3>1. body[j] \in Seq(Offsets \cup {-1}) BY <2>1 DEF TypeOK
      <3>2. ErrorText \in Seq(Offsets \cup {-1}) BY DEF ErrorText
      <3>3. QED BY <3>1, <3>2
    <2>4. TypeOK' BY <1>1, <1>6, <2>1, <2>2, <2>3 DEF TypeOK
    <2>5. JobsInv' BY <1>1, <1>6 DEF JobsInv, TypeOK, End
    <2>6. QED BY <1>2, <2>4, <2>5
  <1>7. QED BY <1>4, <1>5, <1>6 DEF FetchFails

\* Where the reader stops exists: the first byte that its block does not have.
LEMMA ReachIs ==
  ASSUME Typed, NEW j \in Jobs, Start(j) <= End(j)
  PROVE  /\ Reach(j) \in Start(j)..(End(j) + 1)
         /\ Reach(j) = End(j) + 1 \/ Reach(j) - KeyFor(Reach(j)) >= got[j][KeyFor(Reach(j))]
         /\ \A y \in Start(j)..(Reach(j) - 1) : y - KeyFor(y) < got[j][KeyFor(y)]
  <1> DEFINE S == {x \in Start(j)..(End(j) + 1) :
                     x = End(j) + 1 \/ ~(x - KeyFor(x) < got[j][KeyFor(x)])}
  <1>1. Start(j) \in Nat /\ End(j) \in Nat BY JobTyped DEF Offsets
  <1>2. \A x \in Start(j)..End(j) : x - KeyFor(x) \in Int /\ got[j][KeyFor(x)] \in Int
    <2> SUFFICES ASSUME NEW x \in Start(j)..End(j)
                 PROVE  x - KeyFor(x) \in Int /\ got[j][KeyFor(x)] \in Int
      OBVIOUS
    <2>1. x \in Nat /\ x \in Offsets BY <1>1, JobTyped DEF Offsets
    <2>2. QED BY <2>1, KeyForBounds, KeyForAligned, JobTyped
  <1>3. End(j) + 1 \in S /\ S \in SUBSET Nat BY <1>1
  <1> HIDE DEF S
  <1>4. PICK m \in S : \A n \in S : m <= n BY <1>3, LeastNatural
  <1> USE DEF S
  <1>5. m \in Start(j)..(End(j) + 1) /\ m \in Nat BY <1>1
  <1>6. m = End(j) + 1 \/ m - KeyFor(m) >= got[j][KeyFor(m)] BY <1>1, <1>2, <1>5
  <1>7. \A y \in Start(j)..(m - 1) : y - KeyFor(y) < got[j][KeyFor(y)] BY <1>1, <1>4, <1>5
  <1> HIDE DEF S
  <1>8. QED BY <1>5, <1>6, <1>7 DEF Reach

LEMMA StreamedIs ==
  ASSUME Typed, NEW j \in Jobs
  PROVE  /\ Streamed(j) \in Seq(Offsets)
         /\ Start(j) <= End(j) =>
              \A i \in DOMAIN Streamed(j) :
                Streamed(j)[i] = Start(j) + i - 1 /\ Streamed(j)[i] \in Start(j)..End(j)
  <1>1. Start(j) \in Nat /\ End(j) \in Nat /\ End(j) < FileSize BY JobTyped DEF Offsets
  <1>2. CASE Start(j) <= End(j)
    <2> DEFINE n == Reach(j) - Start(j)
    <2>1. n \in Nat /\ Start(j) + n <= End(j) + 1 BY <1>1, <1>2, ReachIs
    <2>2. Streamed(j) = Bytes(Start(j), n) BY <1>1, <1>2 DEF Streamed
    <2> HIDE DEF n
    <2>3. \A i \in 1..n : Start(j) + i - 1 \in Start(j)..End(j) BY <1>1, <2>1
    <2>4. Start(j)..End(j) \subseteq Offsets BY <1>1 DEF Offsets
    <2>5. Streamed(j) = [i \in 1..n |-> Start(j) + i - 1] BY <2>2 DEF Bytes
    <2>6. QED BY <1>2, <2>1, <2>3, <2>4, <2>5
  <1>3. CASE ~(Start(j) <= End(j)) BY <1>1, <1>3 DEF Streamed
  <1>4. QED BY <1>2, <1>3

LEMMA CopiedTyped ==
  ASSUME Typed, NEW h \in Handlers, Copied(h)
  PROVE  Typed'
  <1> USE JobsAre DEF Typed
  <1>1. UNCHANGED <<cache, got, unput, status, written, alive, requests>> BY DEF Copied
  <1>2. CASE /\ source' = [source EXCEPT ![h] = "panic"] /\ body' = body
             /\ pc' = [pc EXCEPT ![h] = "done"] /\ UNCHANGED <<rng, todo, asked>>
    <2>1. TypeOK' BY <1>1, <1>2 DEF TypeOK
    <2>2. JobsInv' BY <1>1, <1>2 DEF JobsInv, TypeOK, End
    <2>3. CutsInv' BY <1>1, <1>2, CutsStay
    <2>4. QED BY <2>1, <2>2, <2>3
  <1>3. CASE /\ source' = [source EXCEPT ![h] = "fetch"]
             /\ body' = [body EXCEPT ![h] = Streamed(h)] /\ OnRead(h, End(h))
    <2>1. Streamed(h) \in Seq(Offsets \cup {-1}) BY StreamedIs
    <2>2. body' \in [Handlers -> Seq(Offsets \cup {-1})] BY <1>3, <2>1 DEF TypeOK
    <2>3. source' \in [Handlers -> {"none", "cache", "fetch", "error", "panic", "unsized"}]
      BY <1>3 DEF TypeOK
    <2>4. QED BY <1>1, <1>3, <2>2, <2>3, OnReadTyped
  <1>4. QED BY <1>2, <1>3 DEF Copied

LEMMA ForgetTyped ==
  ASSUME Typed, NEW j \in Jobs, Forget(j), UNCHANGED <<cache, todo, unput, requests, asked>>,
         alive' \in BOOLEAN, status' \in [Handlers -> {0, 200, 206, 502}],
         body' \in [Handlers -> Seq(Offsets \cup {-1})], written' \in [Handlers -> Nat],
         source' \in [Handlers -> {"none", "cache", "fetch", "error", "panic", "unsized"}]
  PROVE  Typed'
  <1> USE DEF Typed
  <1>1. noRange \in Nat \X Offsets BY DEF noRange, Offsets
  <1>2. nothing \in [Aligned -> 0..BlockSize] BY DEF nothing
  <1>3. TypeOK' BY <1>1, <1>2 DEF Forget, TypeOK
  <1>4. JobsInv' BY DEF Forget, JobsInv, TypeOK, End
  <1>5. \A k \in Jobs, p \in Aligned : got'[k][p] = IF k = j THEN 0 ELSE got[k][p]
    BY DEF Forget, TypeOK, nothing
  <1>6. CutsInv' BY <1>5 DEF CutsInv, PartialIsATail, CutWell, OnFile
  <1>7. QED BY <1>3, <1>4, <1>6

LEMMA AheadEndsTyped ==
  ASSUME Typed, AheadEnds
  PROVE  Typed'
  <1>1. alive' \in BOOLEAN BY DEF AheadEnds, ReadPanics
  <1>2. QED BY <1>1, JobsAre, ForgetTyped DEF AheadEnds, responseVars, Typed, TypeOK

LEMMA DoneTyped ==
  ASSUME Typed, NEW h \in Handlers, Done(h)
  PROVE  Typed'
  <1>1. /\ status' \in [Handlers -> {0, 200, 206, 502}] /\ written' \in [Handlers -> Nat]
        /\ body' \in [Handlers -> Seq(Offsets \cup {-1})]
        /\ source' \in [Handlers -> {"none", "cache", "fetch", "error", "panic", "unsized"}]
    BY DEF Done, Typed, TypeOK
  <1>2. QED BY <1>1, JobsAre, ForgetTyped DEF Done, Typed, TypeOK

LEMMA EvictTyped ==
  ASSUME Typed, NEW o \in Aligned, Evict(o)
  PROVE  Typed'
  <1> USE DEF Typed
  <1>1. /\ cache' = [cache EXCEPT ![o] = 0]
        /\ UNCHANGED <<pc, rng, todo, got, unput, status, body, written, source, alive,
                       requests, asked>>
    BY DEF Evict, jobVars, responseVars
  <1>2. TypeOK' BY <1>1 DEF TypeOK
  <1>3. JobsInv' BY <1>1 DEF JobsInv, TypeOK, End
  <1>4. CutsInv' BY <1>1 DEF CutsInv, PartialIsATail, CutWell, OnFile, TypeOK
  <1>5. QED BY <1>2, <1>3, <1>4

LEMMA NextTyped ==
  ASSUME Typed, [Next]_vars
  PROVE  Typed'
  <1>1. ASSUME NEW h \in Handlers, Handler(h) PROVE Typed'
    BY <1>1, RequestTyped, RequestUnsizedTyped, CheckBlockTyped, StartFlushTyped,
       FlushBlockTyped, FlushEndsTyped, CopiedTyped, DoneTyped DEF Handler
  <1>2. ASSUME NEW j \in Jobs, Job(j) \/ FetchFails(j) PROVE Typed'
    BY <1>2, ObtainTyped, StoreTyped, FetchFailsTyped DEF Job
  <1>3. CASE UNCHANGED vars
    <2>1. TypeOK' BY <1>3 DEF vars, Typed, TypeOK
    <2>2. JobsInv' BY <1>3 DEF vars, Typed, JobsInv, End
    <2>3. CutsInv' BY <1>3, CutsStay DEF vars, Typed
    <2>4. QED BY <2>1, <2>2, <2>3 DEF Typed
  <1>4. QED BY <1>1, <1>2, <1>3, AheadEndsTyped, EvictTyped DEF Next

LEMMA TypedCorrect == Spec => []Typed
  BY InitTyped, NextTyped, PTL DEF Spec

\* Every variable keeps its type.
THEOREM TypeCorrect == Spec => []TypeOK
  <1>1. Typed => TypeOK BY DEF Typed
  <1>2. QED BY <1>1, TypedCorrect, PTL

\* Whoever fetched, stored, evicted and fetched again, and whichever bytes a request
\* happened to find: a cached block is whole, or it ends where some fetch's range ended.
THEOREM BlocksCutWell == Spec => []PartialIsATail
  <1>1. Typed => PartialIsATail BY DEF Typed, CutsInv
  <1>2. QED BY <1>1, TypedCorrect, PTL

-----------------------------------------------------------------------------
(* Responses.                                                              *)

\* A step that is not a handler's leaves its response alone.
SameFor(h) ==
  /\ pc'[h] = pc[h] /\ rng'[h] = rng[h] /\ todo'[h] = todo[h] /\ got'[h] = got[h]
  /\ body'[h] = body[h] /\ written'[h] = written[h] /\ source'[h] = source[h]

LEMMA SameAnswer ==
  ASSUME NEW h \in Handlers, Answer(h), SameFor(h)
  PROVE  Answer(h)'
  BY DEF Answer, NotBegun, Flushing, Ordered, Sound, Whole, SameFor, Start, End,
         ContentLength, IsNext, BlocksOf, OnFile

LEMMA OnReadLeaves ==
  ASSUME Typed, NEW h \in Handlers, NEW k \in Handlers, k # h, OnRead(h, End(h))
  PROVE  pc'[k] = pc[k] /\ rng'[k] = rng[k] /\ todo'[k] = todo[k]
  <1>1. k \in Jobs /\ k # Ahead BY JobsAre
  <1>2. rng'[k] = rng[k] /\ todo'[k] = todo[k] BY <1>1, OnReadIs
  <1>3. pc'[k] = pc[k] BY <1>1 DEF OnRead, Typed, TypeOK
  <1>4. QED BY <1>2, <1>3

LEMMA HandlerLeaves ==
  ASSUME Typed, NEW h \in Handlers, NEW k \in Handlers, k # h, Handler(h)
  PROVE  SameFor(k)
  <1> USE JobsAre DEF Typed, TypeOK, SameFor
  <1>1. ASSUME NEW header \in Headers, Request(h, header) PROVE SameFor(k)
    BY <1>1 DEF Request, responseVars
  <1>2. CASE RequestUnsized(h) BY <1>2 DEF RequestUnsized
  <1>3. CASE CheckBlock(h)
    <2>1. pc'[k] = pc[k] /\ todo'[k] = todo[k] /\ got'[k] = got[k] BY <1>3 DEF CheckBlock
    <2>2. QED BY <1>3, <2>1 DEF CheckBlock
  <1>4. CASE StartFlush(h) BY <1>4 DEF StartFlush
  <1>5. CASE FlushBlock(h)
    <2>1. UNCHANGED <<rng, got>> BY <1>5 DEF FlushBlock
    <2>2. pc'[k] = pc[k] /\ todo'[k] = todo[k] /\ source'[k] = source[k]
      BY <1>5 DEF FlushBlock
    <2>3. body'[k] = body[k] /\ written'[k] = written[k] BY <1>5 DEF FlushBlock, Write
    <2>4. QED BY <2>1, <2>2, <2>3
  <1>6. CASE FlushEnds(h) BY <1>6, OnReadLeaves DEF FlushEnds, responseVars
  <1>7. CASE Copied(h)
    <2>1. UNCHANGED <<got, written>> BY <1>7 DEF Copied
    <2>2. source'[k] = source[k] /\ body'[k] = body[k] BY <1>7 DEF Copied
    <2>3. pc'[k] = pc[k] /\ rng'[k] = rng[k] /\ todo'[k] = todo[k]
      BY <1>7, OnReadLeaves DEF Copied
    <2>4. QED BY <2>1, <2>2, <2>3
  <1>8. CASE Done(h) BY <1>8 DEF Done, Forget
  <1>9. QED BY <1>1, <1>2, <1>3, <1>4, <1>5, <1>6, <1>7, <1>8 DEF Handler

LEMMA JobLeaves ==
  ASSUME Typed, NEW j \in Jobs, NEW k \in Handlers, k # j, Job(j) \/ FetchFails(j)
  PROVE  SameFor(k)
  <1> USE JobsAre DEF Typed, TypeOK, SameFor
  <1>1. ASSUME NEW o \in Aligned, Obtain(j, o) PROVE SameFor(k)
    BY <1>1 DEF Obtain, responseVars
  <1>2. ASSUME NEW o \in Aligned, Store(j, o) PROVE SameFor(k)
    BY <1>2 DEF Store, responseVars
  <1>3. CASE FetchFails(j)
    <2>1. UNCHANGED got /\ todo'[k] = todo[k] BY <1>3 DEF FetchFails
    <2>2. pc'[k] = pc[k] /\ rng'[k] = rng[k] BY <1>3 DEF FetchFails
    <2>3. body'[k] = body[k] /\ written'[k] = written[k] /\ source'[k] = source[k]
      BY <1>3 DEF FetchFails, responseVars
    <2>4. QED BY <2>1, <2>2, <2>3
  <1>4. QED BY <1>1, <1>2, <1>3 DEF Job

LEMMA AheadEndsLeaves ==
  ASSUME Typed, NEW k \in Handlers, AheadEnds
  PROVE  SameFor(k)
  BY JobsAre DEF Typed, TypeOK, SameFor, AheadEnds, Forget, responseVars

-----------------------------------------------------------------------------
(* A handler's own steps, all but the writing of a block.                  *)

\* A response that is not made from the cache, or not yet.
LEMMA PlainAnswer ==
  ASSUME NEW h \in Handlers, source'[h] # "cache", pc'[h] # "flush",
         source'[h] # "fetch" \/ Ordered(h)',
         pc'[h] \in {"idle", "check", "fetch"} =>
           source'[h] = "none" /\ body'[h] = << >> /\ written'[h] = 0
  PROVE  Answer(h)'
  BY DEF Answer, NotBegun, Flushing, Ordered, Sound

LEMMA RequestAnswer ==
  ASSUME Typed, NEW h \in Handlers, Answer(h), NEW header \in Headers, Request(h, header)
  PROVE  Answer(h)'
  <1>1. /\ pc[h] = "idle" /\ pc'[h] = "check" /\ UNCHANGED <<source, body, written>>
    BY JobsAre DEF Request, responseVars, Typed, TypeOK
  <1>2. QED BY <1>1, PlainAnswer DEF Answer, NotBegun

LEMMA UnsizedAnswer ==
  ASSUME Typed, NEW h \in Handlers, RequestUnsized(h)
  PROVE  Answer(h)'
  <1>1. pc'[h] = "done" /\ source'[h] = "unsized"
    BY JobsAre DEF RequestUnsized, Typed, TypeOK
  <1>2. QED BY <1>1, PlainAnswer

LEMMA CheckBlockAnswer ==
  ASSUME Typed, NEW h \in Handlers, Answer(h), CheckBlock(h)
  PROVE  Answer(h)'
  <1>1. pc[h] = "check" /\ pc'[h] \in {"check", "fetch"} /\ UNCHANGED <<source, body, written>>
    BY JobsAre DEF CheckBlock, Typed, TypeOK
  <1>2. QED BY <1>1, PlainAnswer DEF Answer, NotBegun

LEMMA FlushEndsAnswer ==
  ASSUME Typed, NEW h \in Handlers, Answer(h), FlushEnds(h)
  PROVE  Answer(h)'
  <1>1. pc[h] = "flush" /\ todo[h] = {} /\ UNCHANGED <<got, source, body, written>>
    BY DEF FlushEnds, responseVars
  <1>2. pc'[h] = "done" BY JobsAre DEF FlushEnds, OnRead, Typed, TypeOK
  <1>3. rng'[h] = rng[h] /\ todo'[h] = todo[h] BY JobsAre, OnReadIs DEF FlushEnds
  <1>4. source[h] = "cache" BY <1>1 DEF Answer, Flushing
  <1>5. Ordered(h)' BY <1>1, <1>3 DEF Answer, Ordered, Start, End
  <1>6. Sound(h)'
    BY <1>1, <1>2, <1>3, <1>4 DEF Answer, Sound, Whole, Start, End, ContentLength, IsNext,
                                  BlocksOf, OnFile
  <1>7. QED BY <1>2, <1>5, <1>6 DEF Answer, NotBegun, Flushing

LEMMA CopiedAnswer ==
  ASSUME Typed, NEW h \in Handlers, Copied(h)
  PROVE  Answer(h)'
  <1> USE JobsAre DEF Typed, TypeOK
  <1>1. CASE source' = [source EXCEPT ![h] = "panic"] /\ pc' = [pc EXCEPT ![h] = "done"]
    BY <1>1, PlainAnswer
  <1>2. CASE /\ source' = [source EXCEPT ![h] = "fetch"]
             /\ body' = [body EXCEPT ![h] = Streamed(h)] /\ OnRead(h, End(h))
    <2>1. pc'[h] = "done" /\ source'[h] = "fetch" /\ body'[h] = Streamed(h)
      BY <1>2 DEF OnRead
    <2>2. rng'[h] = rng[h] BY <1>2, OnReadIs
    <2>3. Start(h) <= End(h) =>
            /\ \A i \in DOMAIN body'[h] : body'[h][i] \in Start(h)..End(h)
            /\ \A i \in 2..Len(body'[h]) : body'[h][i - 1] < body'[h][i]
      <3> SUFFICES ASSUME Start(h) <= End(h)
                   PROVE  /\ \A i \in DOMAIN body'[h] : body'[h][i] \in Start(h)..End(h)
                          /\ \A i \in 2..Len(body'[h]) : body'[h][i - 1] < body'[h][i]
        OBVIOUS
      <3>1. \A i \in DOMAIN body'[h] :
              body'[h][i] = Start(h) + i - 1 /\ body'[h][i] \in Start(h)..End(h)
        BY <2>1, StreamedIs
      <3>2. body'[h] \in Seq(Offsets) BY <2>1, StreamedIs
      <3>3. \A i \in 2..Len(body'[h]) : i \in DOMAIN body'[h] /\ i - 1 \in DOMAIN body'[h]
        BY <3>2
      <3>4. Start(h) \in Nat BY JobTyped
      <3>5. ASSUME NEW i \in 2..Len(body'[h]) PROVE body'[h][i - 1] < body'[h][i]
        <4>1. body'[h][i] = Start(h) + i - 1 BY <3>1, <3>3
        <4>2. body'[h][i - 1] = Start(h) + (i - 1) - 1 BY <3>1, <3>3
        <4>3. i \in Int BY <3>2
        <4>4. QED BY <3>4, <4>1, <4>2, <4>3
      <3>6. QED BY <3>1, <3>5
    <2>4. Ordered(h)' BY <2>2, <2>3 DEF Ordered, Start, End
    <2>5. QED BY <2>1, <2>4, PlainAnswer
  <1>3. QED BY <1>1, <1>2 DEF Copied

LEMMA DoneAnswer ==
  ASSUME Typed, NEW h \in Handlers, Done(h)
  PROVE  Answer(h)'
  <1>1. pc'[h] = "idle" /\ source'[h] = "none" /\ body'[h] = << >> /\ written'[h] = 0
    BY JobsAre DEF Done, Forget, Typed, TypeOK
  <1>2. QED BY <1>1, PlainAnswer

LEMMA JobAnswer ==
  ASSUME Typed, NEW h \in Handlers, Answer(h), Job(h) \/ FetchFails(h)
  PROVE  Answer(h)'
  <1> USE JobsAre DEF Typed, TypeOK
  <1>1. pc[h] = "fetch" BY DEF Job, Obtain, Store, FetchFails
  <1>2. source[h] = "none" /\ body[h] = << >> /\ written[h] = 0 BY <1>1 DEF Answer, NotBegun
  <1>3. CASE UNCHANGED <<pc, source, body, written>> BY <1>1, <1>2, <1>3, PlainAnswer
  <1>4. CASE pc' = [pc EXCEPT ![h] = "done"] /\ source' = [source EXCEPT ![h] = "error"]
    BY <1>4, PlainAnswer
  <1>5. QED BY <1>3, <1>4 DEF Job, Obtain, Store, FetchFails, responseVars

\* The first block of a range that has bytes.
LEMMA FirstBlock ==
  ASSUME Typed, NEW h \in Handlers, Start(h) <= End(h)
  PROVE  /\ KeyFor(Start(h)) \in BlocksOf(rng[h])
         /\ \A o \in BlocksOf(rng[h]) : KeyFor(Start(h)) <= o /\ o \in Aligned /\ o <= End(h)
  <1>1. Start(h) \in Nat /\ End(h) \in Nat /\ Start(h) \in Offsets
    BY JobsAre, JobTyped DEF Offsets
  <1>2. KeyFor(Start(h)) \in Aligned BY <1>1, KeyForAligned
  <1>3. KeyFor(Start(h)) \in Nat /\ KeyFor(Start(h)) <= End(h) BY <1>1, KeyForBounds
  <1>4. QED BY <1>2, <1>3 DEF BlocksOf, Start, End

LEMMA StartFlushAnswer ==
  ASSUME Typed, NEW h \in Handlers, Answer(h), StartFlush(h)
  PROVE  Answer(h)'
  <1>1. /\ pc[h] = "check" /\ pc'[h] = "flush" /\ todo'[h] = BlocksOf(rng[h])
        /\ source'[h] = "cache" /\ UNCHANGED <<rng, got, body, written>>
    BY JobsAre DEF StartFlush, Typed, TypeOK
  <1>2. body[h] = << >> /\ written[h] = 0 BY <1>1 DEF Answer, NotBegun
  <1>3. NotBegun(h)' /\ Ordered(h)' BY <1>1, <1>2 DEF NotBegun, Ordered
  <1>4. Flushing(h)' BY <1>1, <1>2 DEF Flushing
  <1>5. Sound(h)'
    <2> SUFFICES ASSUME Start(h) <= End(h)
                 PROVE  /\ 0 = Len(<< >>) /\ << >> = Bytes(Start(h), 0)
                        /\ BlocksOf(rng[h]) # {}
                        /\ \A o \in BlocksOf(rng[h]) :
                             (\A p \in BlocksOf(rng[h]) : o <= p) =>
                               Start(h) + 0 = IF o < Start(h) THEN Start(h) ELSE o
      BY <1>1, <1>2 DEF Sound, Start, End, IsNext
    <2>1. Start(h) \in Nat BY JobsAre, JobTyped
    <2>2. KeyFor(Start(h)) \in Nat /\ KeyFor(Start(h)) <= Start(h) BY <2>1, KeyForBounds
    <2>3. \A o \in Aligned : o \in Nat BY AlignedNat
    <2>4. Bytes(Start(h), 0) = << >> BY DEF Bytes
    <2>5. /\ KeyFor(Start(h)) \in BlocksOf(rng[h])
          /\ \A o \in BlocksOf(rng[h]) : KeyFor(Start(h)) <= o /\ o \in Nat
      BY <2>3, FirstBlock
    <2>6. ASSUME NEW o \in BlocksOf(rng[h]), \A p \in BlocksOf(rng[h]) : o <= p
          PROVE  Start(h) + 0 = IF o < Start(h) THEN Start(h) ELSE o
      <3>1. o = KeyFor(Start(h)) BY <2>2, <2>5, <2>6
      <3>2. QED BY <2>1, <2>2, <3>1
    <2>7. QED BY <2>4, <2>5, <2>6
  <1>6. QED BY <1>3, <1>4, <1>5 DEF Answer

-----------------------------------------------------------------------------
(* The writing of a block.                                                 *)

LEMMA SequenceOver ==
  ASSUME NEW S, NEW T, S \subseteq T, NEW s \in Seq(S)
  PROVE  s \in Seq(T)
  OBVIOUS

\* Ascending numbers, and a run of consecutive ones behind them.
LEMMA Growing ==
  ASSUME NEW s \in Seq(Int), NEW t \in Seq(Int), NEW a \in Int, NEW lo \in Int, NEW hi \in Int,
         \A i \in DOMAIN s : s[i] \in lo..hi /\ s[i] < a,
         \A i \in 2..Len(s) : s[i - 1] < s[i],
         \A i \in 1..Len(t) : t[i] = a + i - 1,
         lo <= a, a + Len(t) <= hi + 1
  PROVE  /\ \A i \in DOMAIN (s \o t) : (s \o t)[i] \in lo..hi /\ (s \o t)[i] < a + Len(t)
         /\ \A i \in 2..Len(s \o t) : (s \o t)[i - 1] < (s \o t)[i]
  <1> DEFINE u == s \o t
             m == Len(s)
             n == Len(t)
  <1>1. m \in Nat /\ n \in Nat /\ DOMAIN s = 1..m /\ DOMAIN t = 1..n OBVIOUS
  <1>2. u \in Seq(Int) /\ Len(u) = m + n /\ DOMAIN u = 1..(m + n) OBVIOUS
  <1>3. \A i \in 1..m : u[i] = s[i] OBVIOUS
  <1>4. \A i \in (m + 1)..(m + n) : u[i] = t[i - m] OBVIOUS
  <1> HIDE DEF u, m, n
  <1>5. ASSUME NEW i \in (m + 1)..(m + n) PROVE u[i] = a + (i - m) - 1
    <2>1. i - m \in 1..n BY <1>1
    <2>2. t[i - m] = a + (i - m) - 1 BY <2>1 DEF n
    <2>3. QED BY <1>4, <2>2
  <1>6. ASSUME NEW i \in 1..m PROVE u[i] \in lo..hi /\ u[i] < a
    BY <1>1, <1>3
  <1>7. a + n <= hi + 1 BY DEF n
  <1>8. ASSUME NEW i \in DOMAIN u PROVE u[i] \in lo..hi /\ u[i] < a + n
    <2>1. CASE i \in 1..m BY <1>1, <1>6, <2>1
    <2>2. CASE i \in (m + 1)..(m + n) BY <1>1, <1>5, <1>7, <2>2
    <2>3. QED BY <1>1, <1>2, <2>1, <2>2
  <1>9. ASSUME NEW i \in 2..Len(u) PROVE u[i - 1] < u[i]
    <2>1. i \in 2..(m + n) BY <1>2
    <2>2. CASE i \in 2..m
      <3>1. s[i - 1] < s[i] BY <2>2 DEF m
      <3>2. i \in 1..m /\ i - 1 \in 1..m BY <1>1, <2>2
      <3>3. QED BY <1>3, <3>1, <3>2
    <2>3. CASE i = m + 1
      <3>1. i - 1 \in 1..m /\ i \in (m + 1)..(m + n) BY <1>1, <2>1, <2>3
      <3>2. u[i] = a BY <1>1, <1>5, <2>3, <3>1
      <3>3. QED BY <1>6, <3>1, <3>2
    <2>4. CASE i \in (m + 2)..(m + n)
      <3>1. i - 1 \in (m + 1)..(m + n) /\ i \in (m + 1)..(m + n) BY <1>1, <2>4
      <3>2. u[i - 1] = a + (i - 1 - m) - 1 /\ u[i] = a + (i - m) - 1 BY <1>5, <3>1
      <3>3. QED BY <1>1, <2>1, <3>2
    <2>5. QED BY <1>1, <2>1, <2>2, <2>3, <2>4
  <1>10. QED BY <1>8, <1>9 DEF u, n

\* The first byte of a block that a range has.
From(h, o) == IF o < Start(h) THEN Start(h) ELSE o

\* What a flush knows of the block it writes.
LEMMA BlockInFlush ==
  ASSUME Typed, NEW h \in Handlers, NEW o \in BlocksOf(rng[h]), SegStart(h, o) <= got[h][o]
  PROVE  /\ o \in Aligned /\ o \in Nat /\ o <= End(h) /\ Start(h) \in Nat /\ End(h) \in Nat
         /\ End(h) < FileSize /\ Start(h) < o + BlockSize /\ From(h, o) \in Nat
         /\ Len(Seg(h, o)) \in Nat /\ got[h][o] \in 0..BlockSize
         /\ From(h, o) + Len(Seg(h, o)) <= o + got[h][o]
         /\ o >= Start(h) => From(h, o) + Len(Seg(h, o)) <= End(h) + 1
         /\ Seg(h, o) \in Seq(Offsets)
         /\ \A i \in 1..Len(Seg(h, o)) : Seg(h, o)[i] = From(h, o) + i - 1
  <1> DEFINE s == SegStart(h, o)
             g == got[h][o]
             n == Len(Seg(h, o))
  <1>1. /\ o \in Aligned /\ o \in Nat /\ o <= End(h) /\ KeyFor(Start(h)) <= o
    BY AlignedNat DEF BlocksOf, Start, End
  <1>2. /\ Start(h) \in Nat /\ End(h) \in Nat /\ End(h) < FileSize
        /\ g \in 0..BlockSize
    BY <1>1, JobsAre, JobTyped DEF Offsets
  <1>3. KeyFor(Start(h)) \in Nat /\ Start(h) < KeyFor(Start(h)) + BlockSize
    BY <1>2, KeyForBounds
  <1>4. /\ n = IF o + (g - s) - 1 > End(h) THEN End(h) - o + 1 ELSE g - s
        /\ n \in 0..(g - s) /\ s \in Nat /\ o + s = From(h, o)
        /\ Seg(h, o) \in Seq(Offsets)
        /\ \A i \in 1..n : Seg(h, o)[i] = From(h, o) + i - 1
    BY SegIs DEF From
  <1>5. s = IF o < Start(h) THEN Start(h) - o ELSE 0 BY DEF SegStart
  <1> HIDE DEF s, g, n
  <1>6. n \in Nat /\ From(h, o) \in Nat BY <1>1, <1>2, <1>4
  <1>7. From(h, o) + n <= o + g BY <1>1, <1>2, <1>4
  <1>8. o >= Start(h) => From(h, o) + n <= End(h) + 1 BY <1>1, <1>2, <1>4, <1>5
  <1>9. Start(h) < o + BlockSize BY <1>1, <1>2, <1>3
  <1>10. QED BY <1>1, <1>2, <1>4, <1>6, <1>7, <1>8, <1>9 DEF g, n

\* Of a block that is written while the range goes on, the blocks behind it are all to come.
Writing(h, o) ==
  /\ pc[h] = "flush" /\ o \in todo[h] /\ IsNext(h, o) /\ SegStart(h, o) <= got[h][o]
  /\ o \in BlocksOf(rng[h]) /\ Write(h, Seg(h, o))
  /\ todo' = [todo EXCEPT ![h] = @ \ {o}]
  /\ UNCHANGED <<pc, rng, got, source>>

LEMMA WritingKeeps ==
  ASSUME Typed, NEW h \in Handlers, NEW o, Writing(h, o)
  PROVE  /\ todo'[h] = todo[h] \ {o} /\ pc'[h] = "flush" /\ source'[h] = source[h]
         /\ rng'[h] = rng[h] /\ got'[h] = got[h]
         /\ Start(h)' = Start(h) /\ End(h)' = End(h) /\ ContentLength(h)' = ContentLength(h)
         /\ BlocksOf(rng[h])' = BlocksOf(rng[h])
         /\ written'[h] = written[h] + Len(Seg(h, o))
         /\ body'[h] = IF /\ ContentLength(h) >= 0
                          /\ written[h] + Len(Seg(h, o)) > ContentLength(h)
                       THEN body[h] ELSE body[h] \o Seg(h, o)
         /\ body[h] \in Seq(Offsets \cup {-1}) /\ written[h] \in Nat
         /\ \A q \in todo'[h] : q \in Aligned /\ q \in Nat /\ o + BlockSize <= q
  <1> USE JobsAre
  <1>1. \A q \in todo[h] \ {o} : q \in Aligned /\ q \in Nat /\ o + BlockSize <= q
    <2> SUFFICES ASSUME NEW q \in todo[h] \ {o}
                 PROVE  q \in Aligned /\ q \in Nat /\ o + BlockSize <= q
      OBVIOUS
    <2>1. q \in Aligned /\ q \in Nat BY JobTyped, AlignedNat
    <2>2. o \in Aligned /\ o \in Nat BY AlignedNat DEF Writing, BlocksOf
    <2>3. o < q BY <2>1, <2>2 DEF Writing, IsNext
    <2>4. QED BY <2>1, <2>2, <2>3, AlignedApart
  <1>2. todo'[h] = todo[h] \ {o} /\ pc'[h] = "flush" BY DEF Writing, Typed, TypeOK
  <1>3. /\ written'[h] = written[h] + Len(Seg(h, o))
        /\ body'[h] = IF /\ ContentLength(h) >= 0
                         /\ written[h] + Len(Seg(h, o)) > ContentLength(h)
                      THEN body[h] ELSE body[h] \o Seg(h, o)
        /\ body[h] \in Seq(Offsets \cup {-1}) /\ written[h] \in Nat
    BY DEF Writing, Write, Typed, TypeOK
  <1>4. UNCHANGED <<rng, got, source>> BY DEF Writing
  <1>5. QED BY <1>1, <1>2, <1>3, <1>4 DEF Start, End, ContentLength, BlocksOf

LEMMA WritingOrdered ==
  ASSUME Typed, NEW h \in Handlers, Answer(h), NEW o, Writing(h, o)
  PROVE  NotBegun(h)' /\ Flushing(h)' /\ Ordered(h)'
  <1> DEFINE a == From(h, o)
             n == Len(Seg(h, o))
             b == body[h]
             c == body'[h]
  <1>1. pc[h] = "flush" /\ o \in todo[h] BY DEF Writing
  <1>2. /\ o \in Nat /\ o <= End(h) /\ Start(h) \in Nat /\ End(h) \in Nat
        /\ Start(h) < o + BlockSize /\ a \in Nat
        /\ n \in Nat /\ got[h][o] \in 0..BlockSize /\ a + n <= o + got[h][o]
        /\ o >= Start(h) => a + n <= End(h) + 1
        /\ Seg(h, o) \in Seq(Offsets) /\ \A i \in 1..n : Seg(h, o)[i] = a + i - 1
    BY BlockInFlush DEF Writing
  <1>3. /\ source[h] = "cache"
        /\ \A q \in todo[h], p \in BlocksOf(rng[h]) : q < p => p \in todo[h]
        /\ o < Start(h) => b = << >> /\ written[h] = 0
        /\ Start(h) <= End(h) => \A q \in todo[h] : \A i \in DOMAIN b : b[i] < q
    BY <1>1 DEF Answer, Flushing
  <1>4. /\ todo'[h] = todo[h] \ {o} /\ pc'[h] = "flush" /\ source'[h] = source[h]
        /\ Start(h)' = Start(h) /\ End(h)' = End(h) /\ BlocksOf(rng[h])' = BlocksOf(rng[h])
        /\ b \in Seq(Offsets \cup {-1}) /\ written[h] \in Nat
        /\ \A q \in todo'[h] : q \in Aligned /\ q \in Nat /\ o + BlockSize <= q
    BY WritingKeeps
  <1>5. c = IF ContentLength(h) >= 0 /\ written[h] + n > ContentLength(h)
            THEN b ELSE b \o Seg(h, o)
    BY WritingKeeps
  <1>6. ContentLength(h) = End(h) - Start(h) + 1 BY DEF ContentLength
  <1>7. \/ c = b
        \/ c = b \o Seg(h, o) /\ (Start(h) <= End(h) => a + n <= End(h) + 1)
    <2>1. CASE ContentLength(h) >= 0 /\ written[h] + n > ContentLength(h) BY <1>5, <2>1
    <2>2. CASE ~(ContentLength(h) >= 0 /\ written[h] + n > ContentLength(h))
      <3>1. c = b \o Seg(h, o) BY <1>5, <2>2
      <3> HIDE DEF n
      <3>2. CASE o < Start(h)
        <4>1. written[h] = 0 /\ a = Start(h) BY <1>3, <3>2 DEF From
        <4>2. Start(h) <= End(h) => n <= ContentLength(h) BY <1>2, <1>6, <2>2, <4>1
        <4>3. QED BY <1>2, <1>6, <3>1, <4>1, <4>2
      <3>3. QED BY <1>2, <3>1, <3>2
    <2>3. QED BY <2>1, <2>2
  <1>8. Start(h) <= End(h) =>
          /\ \A i \in DOMAIN b : b[i] \in Start(h)..End(h) /\ b[i] < o
          /\ \A i \in 2..Len(b) : b[i - 1] < b[i]
    BY <1>1, <1>3 DEF Answer, Ordered
  <1>9. Offsets \cup {-1} \subseteq Int BY DEF Offsets
  <1>10. ASSUME Start(h) <= End(h)
         PROVE  /\ \A i \in DOMAIN c : c[i] \in Start(h)..End(h) /\ c[i] < o + BlockSize
                /\ \A i \in 2..Len(c) : c[i - 1] < c[i]
    <2>1. o <= a /\ Start(h) <= a BY <1>2 DEF From
    <2>2. CASE c = b
      <3>1. \A i \in DOMAIN b : b[i] \in Start(h)..End(h) /\ b[i] < o BY <1>8, <1>10
      <3>2. \A i \in 2..Len(b) : b[i - 1] < b[i] BY <1>8, <1>10
      <3> HIDE DEF c, b
      <3>3. \A i \in DOMAIN b : b[i] < o + BlockSize BY <1>2, <3>1
      <3>4. QED BY <2>2, <3>1, <3>2, <3>3
    <2>3. CASE c = b \o Seg(h, o) /\ a + n <= End(h) + 1
      <3>1. b \in Seq(Int) /\ Seg(h, o) \in Seq(Int)
        <4>1. Offsets \subseteq Int BY <1>9
        <4>2. b \in Seq(Int) BY <1>4, <1>9, SequenceOver
        <4>3. QED BY <1>2, <4>1, <4>2, SequenceOver
      <3>2. \A i \in DOMAIN b : b[i] \in Start(h)..End(h) /\ b[i] < a
        BY <1>2, <1>8, <1>10, <2>1
      <3>3. /\ \A i \in DOMAIN c : c[i] \in Start(h)..End(h) /\ c[i] < a + n
            /\ \A i \in 2..Len(c) : c[i - 1] < c[i]
        <4>1. \A i \in 2..Len(b) : b[i - 1] < b[i] BY <1>8, <1>10
        <4>2. a \in Int /\ Start(h) \in Int /\ End(h) \in Int BY <1>2
        <4>3. \A i \in 1..Len(Seg(h, o)) : Seg(h, o)[i] = a + i - 1 BY <1>2
        <4>4. a + Len(Seg(h, o)) <= End(h) + 1 /\ Start(h) <= a BY <2>1, <2>3
        <4> HIDE DEF a, n, c, b
        <4>5. QED BY <2>3, <3>1, <3>2, <4>1, <4>2, <4>3, <4>4, Growing DEF n
      <3> HIDE DEF a, n, c, b
      <3>4. a + n <= o + BlockSize BY <1>2
      <3>5. QED BY <1>2, <3>3, <3>4
    <2>4. QED BY <1>7, <1>10, <2>2, <2>3
  <1> HIDE DEF a, n, c, b
  <1>11. Flushing(h)'
    <2>1. \A q \in todo'[h], p \in BlocksOf(rng[h]) : q < p => p \in todo'[h]
      <3> SUFFICES ASSUME NEW q \in todo'[h], NEW p \in BlocksOf(rng[h]), q < p
                   PROVE  p \in todo[h] \ {o}
        BY <1>4
      <3>1. p \in todo[h] BY <1>3, <1>4
      <3>2. o + BlockSize <= q /\ q \in Nat BY <1>4
      <3>3. QED BY <1>2, <3>1, <3>2
    <2>2. \A q \in todo'[h] : ~(q < Start(h)) BY <1>2, <1>4
    <2>3. ASSUME Start(h) <= End(h), NEW q \in todo'[h], NEW i \in DOMAIN c
          PROVE  c[i] < q
      <3>1. q \in Nat /\ o + BlockSize <= q BY <1>4
      <3>2. c[i] \in Start(h)..End(h) /\ c[i] < o + BlockSize BY <1>10, <2>3
      <3>3. QED BY <1>2, <3>1, <3>2
    <2>4. source'[h] = "cache" BY <1>3, <1>4
    <2>5. QED BY <1>4, <2>1, <2>2, <2>3, <2>4 DEF Flushing, c
  <1>12. Ordered(h)' BY <1>4, <1>10 DEF Ordered, c
  <1>13. NotBegun(h)' BY <1>4 DEF NotBegun
  <1>14. QED BY <1>11, <1>12, <1>13

LEMMA BytesJoin ==
  ASSUME NEW a \in Nat, NEW m \in Nat, NEW t \in Seq(Int),
         \A i \in 1..Len(t) : t[i] = a + m + i - 1
  PROVE  /\ Bytes(a, m) \o t = Bytes(a, m + Len(t))
         /\ Len(Bytes(a, m) \o t) = m + Len(t)
  <1> DEFINE n == Len(t)
             b == Bytes(a, m)
             c == Bytes(a, m + n)
  <1>1. n \in Nat /\ m + n \in Nat OBVIOUS
  <1>2. b \in Seq(Int) /\ Len(b) = m /\ \A i \in 1..m : b[i] = a + i - 1 BY BytesAre
  <1>3. /\ c \in Seq(Int) /\ Len(c) = m + n
        /\ \A i \in 1..(m + n) : c[i] = a + i - 1
    BY <1>1, BytesAre
  <1> HIDE DEF b, c
  <1>4. /\ b \o t \in Seq(Int) /\ Len(b \o t) = m + n
        /\ \A i \in 1..m : (b \o t)[i] = b[i]
        /\ \A i \in (m + 1)..(m + n) : (b \o t)[i] = t[i - m]
    <2>1. b \in Seq(Int) /\ Len(b) = m BY <1>2
    <2>2. b \o t \in Seq(Int) /\ Len(b \o t) = Len(b) + Len(t) BY <2>1
    <2>3. \A i \in 1..Len(b) : (b \o t)[i] = b[i] BY <2>1
    <2>4. \A i \in (Len(b) + 1)..(Len(b) + Len(t)) : (b \o t)[i] = t[i - Len(b)] BY <2>1
    <2>5. QED BY <2>1, <2>2, <2>3, <2>4
  <1> DEFINE d == b \o t
  <1> HIDE DEF d, n
  <1>5. ASSUME NEW i \in 1..(m + n) PROVE d[i] = c[i]
    <2>1. CASE i \in 1..m
      <3>1. d[i] = b[i] BY <1>4, <2>1 DEF d
      <3>2. QED BY <1>2, <1>3, <1>5, <2>1, <3>1
    <2>2. CASE i \in (m + 1)..(m + n)
      <3>1. d[i] = t[i - m] BY <1>4, <2>2 DEF d
      <3>2. i - m \in 1..n BY <1>1, <2>2
      <3>3. t[i - m] = a + m + (i - m) - 1 BY <3>2 DEF n
      <3>4. c[i] = a + i - 1 BY <1>3, <1>5
      <3>5. a + m + (i - m) - 1 = a + i - 1 BY <1>1, <2>2
      <3>6. QED BY <3>1, <3>3, <3>4, <3>5
    <2>3. QED BY <1>1, <1>5, <2>1, <2>2
  <1>6. d = c
    <2>1. d \in Seq(Int) /\ Len(d) = m + n BY <1>4 DEF d
    <2>2. QED BY <1>1, <1>3, <1>5, <2>1
  <1>7. QED BY <1>4, <1>6 DEF b, c, d, n

\* What is written of a whole block reaches to the next block, or to the range's end.
LEMMA WholeBlock ==
  ASSUME Typed, NEW h \in Handlers, NEW o \in BlocksOf(rng[h]), Start(h) <= End(h), Whole(h)
  PROVE  /\ SegStart(h, o) <= got[h][o]
         /\ From(h, o) + Len(Seg(h, o)) = IF o + BlockSize <= End(h) THEN o + BlockSize
                                          ELSE End(h) + 1
  <1> DEFINE s == SegStart(h, o)
             g == got[h][o]
  <1>1. /\ o \in Aligned /\ o \in Nat /\ o <= End(h) /\ KeyFor(Start(h)) <= o
    BY AlignedNat DEF BlocksOf, Start, End
  <1>2. /\ Start(h) \in Nat /\ End(h) \in Nat /\ End(h) < FileSize
        /\ Start(h) \in Offsets /\ Start(h) < KeyFor(Start(h)) + BlockSize
        /\ KeyFor(Start(h)) \in Nat /\ KeyFor(Start(h)) \in Aligned
    <2>1. /\ Start(h) \in Nat /\ End(h) \in Nat /\ End(h) < FileSize
          /\ Start(h) \in Offsets
      BY JobsAre, JobTyped DEF Offsets
    <2>2. QED BY <2>1, KeyForBounds, KeyForAligned
  <1>3. g = OnFile(o) BY DEF Whole
  <1>4. /\ g \in 1..BlockSize
        /\ o + BlockSize <= FileSize => g = BlockSize
        /\ o + BlockSize > FileSize => g = FileSize - o
    BY <1>1, <1>3, OnFileBounds
  <1>5. s = IF o < Start(h) THEN Start(h) - o ELSE 0 BY DEF SegStart
  <1>6. o < Start(h) => o + BlockSize <= End(h) + 1 /\ Start(h) < o + BlockSize
    <2> SUFFICES ASSUME o < Start(h)
                 PROVE  o + BlockSize <= End(h) + 1 /\ Start(h) < o + BlockSize
      OBVIOUS
    <2>1. o = KeyFor(Start(h))
      <3>1. ASSUME KeyFor(Start(h)) < o PROVE FALSE
        <4>1. KeyFor(Start(h)) + BlockSize <= o BY <1>1, <1>2, <3>1, AlignedApart
        <4>2. QED BY <1>1, <1>2, <4>1
      <3>2. QED BY <1>1, <1>2, <3>1
    <2>2. End(h) >= o + BlockSize - 1 BY <1>1, <1>2, <2>1 DEF Whole
    <2>3. QED BY <1>1, <1>2, <2>1, <2>2
  <1> HIDE DEF s, g
  <1>7. s <= g BY <1>1, <1>2, <1>4, <1>5, <1>6
  <1>8. Len(Seg(h, o)) = IF o + (g - s) - 1 > End(h) THEN End(h) - o + 1 ELSE g - s
    BY <1>7, SegIs DEF s, g
  <1>9. From(h, o) = o + s BY <1>1, <1>2, <1>5 DEF From
  <1>10. CASE o < Start(h)
    <2>1. g = BlockSize /\ s = Start(h) - o BY <1>1, <1>2, <1>4, <1>5, <1>6, <1>10
    <2>2. Len(Seg(h, o)) = g - s
      <3>1. ~(o + (g - s) - 1 > End(h)) BY <1>1, <1>2, <1>6, <1>10, <2>1
      <3>2. QED BY <1>8, <3>1
    <2>3. From(h, o) + Len(Seg(h, o)) = o + BlockSize BY <1>1, <1>2, <1>9, <2>1, <2>2
    <2>4. QED BY <1>1, <1>2, <1>6, <1>7, <1>10, <2>3 DEF s, g
  <1>11. CASE ~(o < Start(h))
    <2>1. s = 0 /\ From(h, o) = o BY <1>1, <1>5, <1>9, <1>11
    <2>2. CASE o + BlockSize <= End(h)
      <3>1. g = BlockSize BY <1>1, <1>2, <1>4, <2>2
      <3>2. Len(Seg(h, o)) = BlockSize BY <1>1, <1>2, <1>8, <2>1, <2>2, <3>1
      <3>3. QED BY <1>7, <2>1, <2>2, <3>2 DEF s, g
    <2>3. CASE ~(o + BlockSize <= End(h))
      <3>1. o + g >= End(h) + 1 BY <1>1, <1>2, <1>4, <2>3
      <3>2. Len(Seg(h, o)) = End(h) - o + 1 BY <1>1, <1>2, <1>4, <1>8, <2>1, <3>1
      <3>3. o + (End(h) - o + 1) = End(h) + 1 BY <1>1, <1>2
      <3>4. QED BY <1>7, <2>1, <2>3, <3>2, <3>3 DEF s, g
    <2>4. QED BY <2>2, <2>3
  <1>12. QED BY <1>10, <1>11

LEMMA WritingSound ==
  ASSUME Typed, NEW h \in Handlers, Answer(h), NEW o, Writing(h, o)
  PROVE  Sound(h)'
  <1> DEFINE m == Len(body[h])
             n == Len(Seg(h, o))
  <1>1. /\ pc[h] = "flush" /\ o \in todo[h] /\ IsNext(h, o) /\ o \in BlocksOf(rng[h])
    BY DEF Writing
  <1>2. /\ todo'[h] = todo[h] \ {o} /\ pc'[h] = "flush" /\ source'[h] = source[h]
        /\ rng'[h] = rng[h] /\ got'[h] = got[h]
        /\ Start(h)' = Start(h) /\ End(h)' = End(h) /\ ContentLength(h)' = ContentLength(h)
        /\ BlocksOf(rng[h])' = BlocksOf(rng[h])
        /\ written'[h] = written[h] + n
        /\ body'[h] = IF ContentLength(h) >= 0 /\ written[h] + n > ContentLength(h)
                      THEN body[h] ELSE body[h] \o Seg(h, o)
        /\ body[h] \in Seq(Offsets \cup {-1}) /\ written[h] \in Nat
        /\ \A q \in todo'[h] : q \in Aligned /\ q \in Nat /\ o + BlockSize <= q
    BY WritingKeeps
  <1>3. /\ o \in Aligned /\ o \in Nat /\ o <= End(h) /\ Start(h) \in Nat /\ End(h) \in Nat
        /\ End(h) < FileSize /\ Start(h) < o + BlockSize /\ From(h, o) \in Nat /\ n \in Nat
        /\ Seg(h, o) \in Seq(Offsets) /\ \A i \in 1..n : Seg(h, o)[i] = From(h, o) + i - 1
    BY <1>1, BlockInFlush DEF Writing
  <1>4. Whole(h)' <=> Whole(h) BY <1>2 DEF Whole, OnFile, KeyFor
  <1> SUFFICES ASSUME Start(h) <= End(h), source[h] = "cache", Whole(h)
               PROVE  /\ written'[h] = Len(body'[h])
                      /\ body'[h] = Bytes(Start(h), Len(body'[h]))
                      /\ todo'[h] = {} => Len(body'[h]) = ContentLength(h)
                      /\ \A q \in todo'[h] : (\A p \in todo'[h] : q <= p) =>
                           Start(h) + Len(body'[h]) = IF q < Start(h) THEN Start(h) ELSE q
    BY <1>2, <1>4 DEF Sound, IsNext
  <1>5. /\ written[h] = m /\ body[h] = Bytes(Start(h), m) /\ Start(h) + m = From(h, o)
    BY <1>1 DEF Answer, Sound, From
  <1>6. From(h, o) + n = IF o + BlockSize <= End(h) THEN o + BlockSize ELSE End(h) + 1
    BY <1>1, WholeBlock
  <1>7. m \in Nat BY <1>2
  <1>8. ContentLength(h) = End(h) - Start(h) + 1 BY DEF ContentLength
  <1>9. Seg(h, o) \in Seq(Int)
    <2>1. Offsets \subseteq Int BY DEF Offsets
    <2>2. QED BY <1>3, <2>1, SequenceOver
  <1>10. /\ Bytes(Start(h), m) \o Seg(h, o) = Bytes(Start(h), m + n)
         /\ Len(Bytes(Start(h), m) \o Seg(h, o)) = m + n
    <2>1. \A i \in 1..Len(Seg(h, o)) : Seg(h, o)[i] = Start(h) + m + i - 1
      BY <1>3, <1>5
    <2>2. Start(h) \in Nat /\ m \in Nat /\ Seg(h, o) \in Seq(Int) BY <1>3, <1>7, <1>9
    <2> HIDE DEF m
    <2>3. QED BY <2>1, <2>2, BytesJoin
  <1> HIDE DEF m, n
  <1>11. m + n <= ContentLength(h)
    <2>1. /\ m \in Nat /\ n \in Nat /\ o \in Nat /\ Start(h) \in Nat /\ End(h) \in Nat
          /\ BlockSize \in Nat
      BY <1>3, <1>7
    <2>2. Start(h) + m + n = IF o + BlockSize <= End(h) THEN o + BlockSize ELSE End(h) + 1
      BY <1>5, <1>6, <2>1
    <2>3. QED BY <1>8, <2>1, <2>2
  <1>12. body'[h] = body[h] \o Seg(h, o)
    <2>1. ContentLength(h) \in Int BY <1>3, <1>8
    <2>2. ~(written[h] + n > ContentLength(h)) BY <1>3, <1>5, <1>7, <1>11, <2>1
    <2>3. QED BY <1>2, <2>2
  <1>13. Len(body'[h]) = m + n /\ body'[h] = Bytes(Start(h), m + n) BY <1>5, <1>10, <1>12
  \* The block behind o is the next one.
  <1>14. o + BlockSize <= End(h) => o + BlockSize \in todo'[h]
    <2> SUFFICES ASSUME o + BlockSize <= End(h) PROVE o + BlockSize \in todo[h] \ {o}
      BY <1>2
    <2>1. o + BlockSize \in Aligned
      <3>1. o + BlockSize < FileSize BY <1>3
      <3>2. QED BY <1>3, <3>1, AlignedNext
    <2>2. o + BlockSize \in BlocksOf(rng[h])
      <3>1. KeyFor(Start(h)) <= o BY <1>1 DEF BlocksOf, Start
      <3>2. KeyFor(Start(h)) \in Nat BY <1>3, KeyForBounds
      <3>3. KeyFor(Start(h)) <= o + BlockSize BY <1>3, <3>1, <3>2
      <3>4. QED BY <2>1, <3>3 DEF BlocksOf, Start, End
    <2>3. o < o + BlockSize BY <1>3
    <2>4. QED BY <1>1, <1>3, <2>2, <2>3 DEF Answer, Flushing
  <1>15. todo'[h] = {} => m + n = ContentLength(h)
    <2> SUFFICES ASSUME todo'[h] = {} PROVE m + n = ContentLength(h)
      OBVIOUS
    <2>1. ~(o + BlockSize <= End(h)) BY <1>14
    <2>2. Start(h) + m + n = End(h) + 1 BY <1>5, <1>6, <2>1
    <2>3. Start(h) \in Int /\ End(h) \in Int /\ m \in Int /\ n \in Int BY <1>3, <1>7
    <2>4. QED BY <1>8, <2>2, <2>3
  <1>16. ASSUME NEW q \in todo'[h], \A p \in todo'[h] : q <= p
         PROVE  Start(h) + (m + n) = IF q < Start(h) THEN Start(h) ELSE q
    <2>1. q \in Nat /\ o + BlockSize <= q BY <1>2
    <2>2. q <= End(h) /\ o + BlockSize <= End(h)
      <3>1. q \in BlocksOf(rng[h]) BY <1>1, <1>2, JobsAre DEF Typed, JobsInv
      <3>2. q <= End(h) BY <3>1 DEF BlocksOf, End
      <3>3. QED BY <1>3, <2>1, <3>2
    <2>3. q = o + BlockSize
      <3>1. q <= o + BlockSize BY <1>14, <1>16, <2>2
      <3>2. QED BY <1>3, <2>1, <3>1
    <2>4. Start(h) + (m + n) = q BY <1>3, <1>5, <1>6, <1>7, <2>2, <2>3
    <2>5. ~(q < Start(h)) BY <1>3, <2>3
    <2>6. QED BY <2>4, <2>5
  <1>17. written'[h] = m + n BY <1>2, <1>5
  <1>18. QED BY <1>13, <1>15, <1>16, <1>17

LEMMA FlushBlockAnswer ==
  ASSUME Typed, NEW h \in Handlers, Answer(h), FlushBlock(h)
  PROVE  Answer(h)'
  <1>1. CASE /\ source' = [source EXCEPT ![h] = "panic"]
             /\ pc' = [pc EXCEPT ![h] = "done"]
    <2>1. source'[h] = "panic" /\ pc'[h] = "done" BY <1>1, JobsAre DEF Typed, TypeOK
    <2>2. QED BY <2>1, PlainAnswer
  <1>2. ASSUME NEW o \in todo[h], Writing(h, o) PROVE Answer(h)'
    BY <1>2, WritingOrdered, WritingSound DEF Answer
  <1>3. pc[h] = "flush" /\ todo[h] \subseteq BlocksOf(rng[h])
    BY JobsAre DEF FlushBlock, Typed, JobsInv
  <1>4. QED BY <1>1, <1>2, <1>3 DEF FlushBlock, Writing

-----------------------------------------------------------------------------
(* Every response.                                                         *)

LEMMA InitAnswers ==
  ASSUME Init
  PROVE  AnswersInv
  <1> SUFFICES ASSUME NEW h \in Handlers PROVE Answer(h)
    BY DEF AnswersInv
  <1>1. pc[h] = "idle" /\ source[h] = "none" /\ body[h] = << >> /\ written[h] = 0
    BY JobsAre DEF Init
  <1>2. QED BY <1>1 DEF Answer, NotBegun, Flushing, Ordered, Sound

LEMMA NextAnswers ==
  ASSUME Typed, AnswersInv, [Next]_vars
  PROVE  AnswersInv'
  <1> SUFFICES ASSUME NEW k \in Handlers PROVE Answer(k)'
    BY DEF AnswersInv
  <1>1. Answer(k) BY DEF AnswersInv
  <1>2. ASSUME NEW h \in Handlers, Handler(h) PROVE Answer(k)'
    <2>1. CASE h = k
      BY <1>1, <1>2, <2>1, RequestAnswer, UnsizedAnswer, CheckBlockAnswer, StartFlushAnswer,
         FlushBlockAnswer, FlushEndsAnswer, CopiedAnswer, DoneAnswer DEF Handler
    <2>2. CASE h # k BY <1>1, <1>2, <2>2, HandlerLeaves, SameAnswer
    <2>3. QED BY <2>1, <2>2
  <1>3. ASSUME NEW j \in Jobs, Job(j) \/ FetchFails(j) PROVE Answer(k)'
    <2>1. CASE j = k BY <1>1, <1>3, <2>1, JobAnswer
    <2>2. CASE j # k BY <1>1, <1>3, <2>2, JobLeaves, SameAnswer
    <2>3. QED BY <2>1, <2>2
  <1>4. CASE AheadEnds BY <1>1, <1>4, AheadEndsLeaves, SameAnswer
  <1>5. ASSUME NEW o \in Aligned, Evict(o) PROVE Answer(k)'
    <2>1. SameFor(k) BY <1>5 DEF SameFor, Evict, jobVars, responseVars
    <2>2. QED BY <1>1, <2>1, SameAnswer
  <1>6. CASE UNCHANGED vars
    <2>1. SameFor(k) BY <1>6 DEF SameFor, vars
    <2>2. QED BY <1>1, <2>1, SameAnswer
  <1>7. QED BY <1>2, <1>3, <1>4, <1>5, <1>6 DEF Next

LEMMA AnswersCorrect == Spec => [](Typed /\ AnswersInv)
  BY InitTyped, NextTyped, InitAnswers, NextAnswers, PTL DEF Spec

\* Whatever the blocks in the cache are worth when a request finds them, and whatever
\* other handlers, the read-ahead and the evictor do meanwhile: a body made of file bytes,
\* by flushCachedBlocks or through the reader, has bytes of its range, ascending, so none
\* of them twice and none out of order.
THEOREM BodiesInOrder == Spec => []BodyInOrder
  <1>1. AnswersInv => BodyInOrder
    BY DEF AnswersInv, Answer, Ordered, BodyInOrder
  <1>2. QED BY <1>1, AnswersCorrect, PTL

\* A response made of whole cached blocks is the range it was asked for, to the byte:
\* net/http refuses none of flushCachedBlocks' writes, and none is missing.  The exception
\* is a range that begins inside a block and ends before that block does.
THEOREM WholeHits == Spec => []WholeHitIsExact
  <1>1. ASSUME AnswersInv PROVE WholeHitIsExact
    <2> SUFFICES ASSUME NEW h \in Handlers, pc[h] = "done", source[h] = "cache",
                        Start(h) <= End(h), Whole(h)
                 PROVE  body[h] = Bytes(Start(h), ContentLength(h))
      BY DEF WholeHitIsExact, Whole
    <2>1. QED BY <1>1 DEF AnswersInv, Answer, Sound
  <1>2. QED BY <1>1, AnswersCorrect, PTL
=============================================================================
