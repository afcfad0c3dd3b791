--------------------------- MODULE FetcherProofs ---------------------------
(***************************************************************************)
(* Proofs about Fetcher, for every block size, file, range, number of      *)
(* workers, buffer and cache content the assumptions allow: types, the     *)
(* stages a fetch goes through, and what it hands to its client.           *)
(***************************************************************************)
EXTENDS Fetcher, Lemmas, FiniteSetTheorems

(* The inductive invariant, in parts. *)

\* While the first block is being probed nothing else has started.
Probing == pc[Caller] # "done"
ProbeInv ==
  Probing =>
    /\ pc[Caller] \in {"lookup", "try", "asked"} /\ todo[Caller] = {KeyFor(Start)}
    /\ \A w \in Workers : pc[w] = "idle"
    /\ rpc = "none" /\ timer = "off" /\ waiter = "off" /\ result = "none"
    /\ out = << >> /\ nextOff = Start /\ ~closed /\ ~err
    /\ blocks = [o \in Aligned |-> NoBlock]

\* The client's side: while it reads it has no result, and the timer belongs to
\* its current wait.
ClientInv ==
  /\ rpc \in {"call", "wait", "woken"} => result = "none"
  /\ rpc \in {"wait", "woken"} => nextOff <= End
  /\ rpc = "wait" => timer = "armed"
  /\ timer = "armed" => rpc \in {"wait", "woken"}
  /\ timer \in {"fired", "done"} => rpc = "woken"
  /\ rpc = "none" => waiter = "off" /\ \A w \in Workers : pc[w] = "idle"

\* Blocks hold the bytes of their own offset, and out counts the bytes read.
DataInv ==
  /\ CacheHoldsPrefixes
  /\ \A o \in Aligned : blocks[o] # NoBlock => blocks[o].from = o
  /\ Len(out) = nextOff - Start

\* No block of the range gets lost: it is pending, or in the reader, or read, or
\* some source was short.
GoneInv ==
  rpc # "none" =>
    \A o \in Offs : \/ \E w \in Workers : o \in todo[w]
                    \/ blocks[o] # NoBlock
                    \/ cut
                    \/ nextOff > Least(o + BlockSize - 1, End)
ShortInv ==
  /\ \A o \in Aligned : blocks[o] # NoBlock => cut \/ blocks[o].len >= Want(o)
  /\ FileSize <= End => cut
\* The reader is closed without an error only once no block is pending.
DoneInv ==
  /\ \A w \in Workers : pc[w] = "done" => todo[w] = {} \/ err
  /\ pc[1] = "close" => todo[1] = {}
  /\ pc[1] \in {"get", "stream", "close"} => \A w \in Workers \ {1} : pc[w] = "done"
  /\ closed /\ ~err /\ rpc # "closed" => \A w \in Workers : todo[w] = {}

\* In a parallel fetch a pending block belongs to one worker and is still ahead.
AheadInv ==
  waiter # "off" =>
    /\ \A w \in Workers : \A o \in todo[w] : blocks[o] = NoBlock /\ o + BlockSize > nextOff
    /\ \A v, w \in Workers : v # w => todo[v] \cap todo[w] = {}
    /\ pc[1] \notin {"get", "stream", "close"}

-----------------------------------------------------------------------------
(* Block offsets. *)

USE SizesAssumption

LEMMA KeyForBounds ==
  ASSUME NEW x \in Nat
  PROVE  KeyFor(x) \in Nat /\ KeyFor(x) <= x /\ x < KeyFor(x) + BlockSize
  BY BlockCovers DEF KeyFor

LEMMA KeyForMultiple ==
  ASSUME NEW x \in Nat
  PROVE  KeyFor(x) % BlockSize = 0
  BY BlockAligned DEF KeyFor

LEMMA KeyForMonotone ==
  ASSUME NEW x \in Nat, NEW y \in Nat, x <= y
  PROVE  KeyFor(x) <= KeyFor(y)
  BY BlockMonotone DEF KeyFor

\* Two block offsets are equal or at least a block apart.
LEMMA AlignedApart ==
  ASSUME NEW a \in Aligned, NEW b \in Aligned, a < b
  PROVE  a + BlockSize <= b
  <1>1. /\ a \in Nat /\ b \in Nat /\ a % BlockSize = 0 /\ b % BlockSize = 0
        /\ BlockSize \in Nat \ {0}
    BY DEF Aligned, Offsets
  <1>2. QED BY <1>1, BlocksApart

\* The ends of a range are file offsets.
LEMMA RangeEnds ==
  ASSUME range \in Ranges
  PROVE  Start \in 0..MaxOff /\ End \in 0..MaxOff
  BY RangesAssumption DEF Start, End, Offsets

LEMMA WaitedAligned ==
  ASSUME range \in Ranges, nextOff \in Nat, nextOff <= End
  PROVE  KeyFor(nextOff) \in Aligned
  <1>1. End \in 0..MaxOff BY RangeEnds
  <1>2. KeyFor(nextOff) \in Nat /\ KeyFor(nextOff) <= nextOff
    BY KeyForBounds
  <1>3. KeyFor(nextOff) \in Offsets BY <1>1, <1>2 DEF Offsets
  <1>4. QED BY <1>3, KeyForMultiple DEF Aligned

\* The block the reader waits for is one of the fetch.
LEMMA WaitedInOffs ==
  ASSUME range \in Ranges, nextOff \in Nat, Start <= nextOff, nextOff <= End
  PROVE  KeyFor(nextOff) \in Offs
  <1>1. Start \in Nat /\ End \in Nat BY RangeEnds
  <1>2. KeyFor(Start) <= KeyFor(nextOff) BY <1>1, KeyForMonotone
  <1>3. KeyFor(nextOff) \in Nat /\ KeyFor(nextOff) <= End BY <1>1, KeyForBounds
  <1>4. QED BY <1>2, <1>3, WaitedAligned DEF Offs

-----------------------------------------------------------------------------
(* Types. *)

LEMMA InitTypes == Init => TypeOK
  <1> SUFFICES ASSUME Init PROVE TypeOK OBVIOUS
  <1>0. Caller \in Threads /\ 1 \in Workers BY DEF Threads, Workers, Caller
  <1>1. /\ range \in Ranges /\ planN \in Workers /\ profile \in {"open", "throttled"}
        /\ cancelled = FALSE /\ waiter = "off" /\ total = 0 /\ nextOff = Start
        /\ blocks = [o \in Aligned |-> NoBlock] /\ closed = FALSE /\ err = FALSE
        /\ cut = (FileSize <= End)
    BY DEF Init
  <1>2. Start \in 0..MaxOff BY <1>1, RangeEnds
  <1>3. KeyFor(Start) \in Aligned
    <2>1. KeyFor(Start) \in 0..MaxOff BY <1>2, KeyForBounds
    <2>2. QED BY <1>2, <2>1, KeyForMultiple DEF Aligned, Offsets
  <1>4. cache \in [Aligned -> Data \cup {NoBlock}]
    <2>1. \A o \in Aligned, k \in CachedLens : Piece(o, k) \in Data
      BY CachedAssumption DEF Piece, Data, Aligned
    <2>2. cache \in [Aligned -> {NoBlock} \cup {Piece(o, k) : o \in Aligned, k \in CachedLens}]
      BY DEF Init
    <2>3. QED BY <2>1, <2>2
  <1>5. PlanType
    <2>1. cancelled \in BOOLEAN BY <1>1, Zenon
    <2>2. FileSize \in Int /\ End \in Int BY <1>1, RangeEnds
    <2>3. (FileSize <= End) \in BOOLEAN BY <2>2
    <2>4. cut \in BOOLEAN BY <1>1, <2>3, Zenon
    <2>5. QED BY <1>1, <1>4, <2>1, <2>4 DEF PlanType
  <1>6. ThreadType BY <1>3 DEF Init, ThreadType
  <1>7. ReaderType
    <2>1. closed \in BOOLEAN /\ err \in BOOLEAN BY <1>1, Zenon
    <2>2. blocks \in [Aligned -> Data \cup {NoBlock}] BY <1>1
    <2>3. QED BY <1>1, <1>2, <2>1, <2>2 DEF ReaderType
  <1>8. ClientType BY DEF Init, ClientType
  <1>9. QED BY <1>5, <1>6, <1>7, <1>8 DEF TypeOK

\* A block in hand is data, and so is a piece of the file.
LEMMA PieceType ==
  ASSUME NEW o \in Aligned, NEW k \in 0..BlockSize
  PROVE  Piece(o, k) \in Data
  BY DEF Piece, Data, Aligned

LEMMA ObtainedTypes ==
  ASSUME TypeOK, NEW t \in Threads, NEW o \in Aligned, NEW d \in Data, Obtained(t, o, d)
  PROVE  TypeOK'
  <1> USE DEF TypeOK
  <1>1. cut' \in BOOLEAN BY DEF Obtained
  <1>2. CASE Launch(o, d)
    <2>1. PlanType' BY <1>1, <1>2 DEF Launch, CachePut, PlanType, planVars
    <2>2. ThreadType'
      <3>1. \A w, n : Assigned(w, n) \subseteq Aligned BY DEF Assigned, Offs
      <3>2. QED BY <1>2, <3>1 DEF Launch, ThreadType
    <2>3. ReaderType' BY <1>2 DEF Launch, ReaderType
    <2>4. ClientType' BY <1>2 DEF Launch, ClientType, clientVars
    <2>5. QED BY <2>1, <2>2, <2>3, <2>4
  <1>3. CASE Deliver(t, o, d)
    <2>1. PlanType' BY <1>1, <1>3 DEF Deliver, CachePut, PlanType, planVars, Data
    <2>2. ThreadType' BY <1>3 DEF Deliver, ThreadType
    <2>3. ReaderType' BY <1>3 DEF Deliver, put, ReaderType
    <2>4. ClientType' BY <1>3 DEF Deliver, put, Woken, ClientType, clientVars
    <2>5. QED BY <2>1, <2>2, <2>3, <2>4
  <1>4. QED BY <1>2, <1>3 DEF Obtained

LEMMA ThreadTypes ==
  ASSUME TypeOK, NEW t \in Threads, Thread(t)
  PROVE  TypeOK'
  <1> USE DEF TypeOK
  <1>0. 1 \in Threads BY DEF Threads, Workers
  <1>1. ASSUME NEW o \in Aligned, Lookup(t, o) PROVE TypeOK'
    <2>1. CASE cache[o] # NoBlock
      <3>1. cache[o] \in Data BY <2>1 DEF PlanType
      <3>2. Obtained(t, o, cache[o]) BY <1>1, <2>1 DEF Lookup
      <3>3. QED BY <3>1, <3>2, ObtainedTypes
    <2>2. CASE cache[o] = NoBlock
      <3>1. PlanType' BY <1>1, <2>2 DEF Lookup, PlanType, planVars, clientVars
      <3>2. ThreadType' BY <1>1, <2>2 DEF Lookup, ThreadType, planVars, clientVars
      <3>3. ReaderType' BY <1>1, <2>2 DEF Lookup, ReaderType, planVars, clientVars
      <3>4. ClientType' BY <1>1, <2>2 DEF Lookup, ClientType, planVars, clientVars
      <3>5. QED BY <3>1, <3>2, <3>3, <3>4
    <2>3. QED BY <2>1, <2>2
  <1>2. ASSUME NEW o \in Aligned, NEW k \in 0..BlockSize, Answer206(t, o, k) PROVE TypeOK'
    BY <1>2, PieceType, ObtainedTypes DEF Answer206
  <1>3. CASE WorkerCancelled(t)
    <2>1. PlanType' BY <1>3 DEF WorkerCancelled, GiveUp, PlanType, planVars, clientVars
    <2>2. ThreadType' BY <1>3 DEF WorkerCancelled, GiveUp, ThreadType, planVars, clientVars
    <2>3. ReaderType' BY <1>3 DEF WorkerCancelled, GiveUp, ReaderType, planVars, clientVars
    <2>4. ClientType' BY <1>3 DEF WorkerCancelled, GiveUp, ClientType, planVars, clientVars
    <2>5. QED BY <2>1, <2>2, <2>3, <2>4
  <1>4. CASE Attempt(t)
    <2>1. PlanType' BY <1>4 DEF Attempt, GiveUp, PlanType, planVars, clientVars
    <2>2. ThreadType' BY <1>4 DEF Attempt, GiveUp, ThreadType, planVars, clientVars
    <2>3. ReaderType' BY <1>4 DEF Attempt, GiveUp, ReaderType, planVars, clientVars
    <2>4. ClientType' BY <1>4 DEF Attempt, GiveUp, ClientType, planVars, clientVars
    <2>5. QED BY <2>1, <2>2, <2>3, <2>4
  <1>5. CASE AnswerError(t)
    <2>1. PlanType' BY <1>5 DEF AnswerError, GiveUp, PlanType, planVars, clientVars
    <2>2. ThreadType' BY <1>5 DEF AnswerError, GiveUp, ThreadType, planVars, clientVars
    <2>3. ReaderType' BY <1>5 DEF AnswerError, GiveUp, ReaderType, planVars, clientVars
    <2>4. ClientType' BY <1>5 DEF AnswerError, GiveUp, ClientType, planVars, clientVars
    <2>5. QED BY <2>1, <2>2, <2>3, <2>4
  <1>6. CASE Answer200(t)
    <2>1. PlanType' BY <1>6, <1>0 DEF Answer200, GiveUp, PlanType, planVars, clientVars
    <2>2. ThreadType' BY <1>6, <1>0 DEF Answer200, GiveUp, ThreadType, planVars, clientVars
    <2>3. ReaderType' BY <1>6, <1>0 DEF Answer200, GiveUp, ReaderType, planVars, clientVars
    <2>4. ClientType' BY <1>6, <1>0 DEF Answer200, GiveUp, ClientType, planVars, clientVars
    <2>5. QED BY <2>1, <2>2, <2>3, <2>4
  <1>7. CASE fail(t)
    <2>1. PlanType' BY <1>7 DEF fail, close, Woken, PlanType, planVars, clientVars
    <2>2. ThreadType' BY <1>7 DEF fail, close, Woken, ThreadType, planVars, clientVars
    <2>3. ReaderType' BY <1>7 DEF fail, close, Woken, ReaderType, planVars, clientVars
    <2>4. ClientType' BY <1>7 DEF fail, close, Woken, ClientType, planVars, clientVars
    <2>5. QED BY <2>1, <2>2, <2>3, <2>4
  <1>8. QED BY <1>1, <1>2, <1>3, <1>4, <1>5, <1>6, <1>7 DEF Thread

LEMMA WholeFileTypes ==
  ASSUME TypeOK, WholeFile
  PROVE  TypeOK'
  <1> USE DEF TypeOK, wholeRest
  <1>0. 1 \in Threads BY DEF Threads, Workers
  <1>1. CASE WholeGet
    <2>1. PlanType' BY <1>0, <1>1 DEF WholeGet, PlanType, planVars, clientVars
    <2>2. ThreadType' BY <1>0, <1>1 DEF WholeGet, ThreadType, planVars, clientVars
    <2>3. ReaderType' BY <1>0, <1>1 DEF WholeGet, ReaderType, planVars, clientVars
    <2>4. ClientType' BY <1>0, <1>1 DEF WholeGet, ClientType, planVars, clientVars
    <2>5. QED BY <2>1, <2>2, <2>3, <2>4
  <1>2. CASE WholeCancelled
    <2>1. PlanType' BY <1>0, <1>2 DEF WholeCancelled, PlanType, planVars, clientVars
    <2>2. ThreadType' BY <1>0, <1>2 DEF WholeCancelled, ThreadType, planVars, clientVars
    <2>3. ReaderType' BY <1>0, <1>2 DEF WholeCancelled, ReaderType, planVars, clientVars
    <2>4. ClientType' BY <1>0, <1>2 DEF WholeCancelled, ClientType, planVars, clientVars
    <2>5. QED BY <2>1, <2>2, <2>3, <2>4
  <1>3. CASE WholeEnd
    <2>1. PlanType' BY <1>0, <1>3 DEF WholeEnd, PlanType, planVars, clientVars
    <2>2. ThreadType' BY <1>0, <1>3 DEF WholeEnd, ThreadType, planVars, clientVars
    <2>3. ReaderType' BY <1>0, <1>3 DEF WholeEnd, ReaderType, planVars, clientVars
    <2>4. ClientType' BY <1>0, <1>3 DEF WholeEnd, ClientType, planVars, clientVars
    <2>5. QED BY <2>1, <2>2, <2>3, <2>4
  <1>4. CASE WholeClose
    <2>1. PlanType' BY <1>0, <1>4 DEF WholeClose, close, Woken, PlanType, planVars, clientVars
    <2>2. ThreadType' BY <1>0, <1>4 DEF WholeClose, close, Woken, ThreadType, planVars, clientVars
    <2>3. ReaderType' BY <1>0, <1>4 DEF WholeClose, close, Woken, ReaderType, planVars, clientVars
    <2>4. ClientType' BY <1>0, <1>4 DEF WholeClose, close, Woken, ClientType, planVars, clientVars
    <2>5. QED BY <2>1, <2>2, <2>3, <2>4
  <1>5. ASSUME NEW o \in Aligned, NEW k \in 0..BlockSize, WholeChunk(o, k) PROVE TypeOK'
    <2>0. Piece(o, k) \in Data BY PieceType
    <2>1. PlanType' BY <1>0, <1>5, <2>0 DEF WholeChunk, CachePut, PlanType, planVars, clientVars
    <2>2. ThreadType' BY <1>0, <1>5, <2>0 DEF WholeChunk, ThreadType, planVars, clientVars
    <2>3. ReaderType' BY <1>0, <1>5, <2>0 DEF WholeChunk, put, ReaderType, planVars, clientVars
    <2>4. ClientType' BY <1>0, <1>5, <2>0 DEF WholeChunk, put, Woken, ClientType, planVars, clientVars
    <2>5. QED BY <2>1, <2>2, <2>3, <2>4
  <1>6. QED BY <1>1, <1>2, <1>3, <1>4, <1>5 DEF WholeFile

\* What ReadBlock adds to the position is a natural number.
LEMMA ReadBlockStep ==
  ASSUME TypeOK, ReadBlock
  PROVE  /\ nextOff \in Nat /\ nextOff <= End /\ Waited # NoBlock /\ End \in Nat
         /\ KeyFor(nextOff) \in Aligned /\ Waited \in Data /\ inBlockOff \in Nat /\ inBlockOff <= Waited.len
         /\ inBlockOff < BlockSize
         /\ Copied \in Nat /\ Copied <= Waited.len - inBlockOff /\ Copied <= End - nextOff + 1
         /\ Bytes(Waited.from + inBlockOff, Copied) \in Seq(Nat)
         /\ Len(Bytes(Waited.from + inBlockOff, Copied)) = Copied
         /\ out' = out \o Bytes(Waited.from + inBlockOff, Copied)
         /\ nextOff' = nextOff + Copied
         /\ blocks' = Unread(KeyFor(nextOff), inBlockOff + Copied)
  <1>1. nextOff \in Nat /\ nextOff <= End /\ Waited # NoBlock
    BY DEF ReadBlock, TypeOK, ReaderType
  <1>2. range \in Ranges BY DEF TypeOK, PlanType
  <1>3. End \in Nat BY <1>2, RangeEnds
  <1>4. KeyFor(nextOff) \in Aligned BY <1>1, <1>2, WaitedAligned
  <1>5. Waited \in Data BY <1>1, <1>4 DEF TypeOK, ReaderType, Waited
  <1>6. inBlockOff \in Nat /\ inBlockOff < BlockSize BY <1>1, KeyForBounds DEF inBlockOff
  <1>7. inBlockOff <= Waited.len BY DEF ReadBlock
  <1>8. Copied \in Nat /\ Copied <= Waited.len - inBlockOff /\ Copied <= End - nextOff + 1
    <2>1. Waited.len - inBlockOff \in Nat BY <1>5, <1>6, <1>7 DEF Data
    <2>2. End - nextOff + 1 \in Nat BY <1>1, <1>3
    <2>3. QED BY <2>1, <2>2 DEF Copied, Least
  <1>9. Waited.from + inBlockOff \in Nat BY <1>5, <1>6 DEF Data, Offsets
  <1>10. Bytes(Waited.from + inBlockOff, Copied) \in Seq(Nat) /\ Len(Bytes(Waited.from + inBlockOff, Copied)) = Copied
    BY <1>8, <1>9 DEF Bytes
  <1>11. /\ out' = out \o Bytes(Waited.from + inBlockOff, Copied)
         /\ nextOff' = nextOff + Copied
         /\ blocks' = Unread(KeyFor(nextOff), inBlockOff + Copied)
    BY DEF ReadBlock
  <1>12. QED BY <1>1, <1>3, <1>4, <1>5, <1>6, <1>7, <1>8, <1>10, <1>11

\* A step of the reader alone keeps what belongs to the fetch.
LEMMA FetchRestTypes ==
  ASSUME TypeOK, UNCHANGED fetchRest
  PROVE  PlanType' /\ ThreadType'
  <1>1. PlanType' BY DEF TypeOK, fetchRest, PlanType, planVars
  <1>2. ThreadType' BY DEF TypeOK, fetchRest, ThreadType, threadVars
  <1>3. QED BY <1>1, <1>2

LEMMA ClientTypes ==
  ASSUME TypeOK, Client \/ TimerFire \/ TimerDone \/ Abandon
  PROVE  TypeOK'
  <1>1. CASE ReadBlock
    <2>1. /\ nextOff \in Nat /\ KeyFor(nextOff) \in Aligned /\ Copied \in Nat
          /\ Bytes(Waited.from + inBlockOff, Copied) \in Seq(Nat)
          /\ out' = out \o Bytes(Waited.from + inBlockOff, Copied)
          /\ nextOff' = nextOff + Copied
          /\ blocks' = Unread(KeyFor(nextOff), inBlockOff + Copied)
      BY <1>1, ReadBlockStep
    <2>2. ReaderType' BY <1>1, <2>1 DEF ReadBlock, Unread, TypeOK, ReaderType
    <2>3. out' \in Seq(Nat) BY <2>1 DEF TypeOK, ClientType
    <2>4. ClientType' BY <1>1, <2>3 DEF ReadBlock, TypeOK, ClientType
    <2>5. UNCHANGED fetchRest BY <1>1 DEF ReadBlock
    <2>6. QED BY <2>2, <2>4, <2>5, FetchRestTypes DEF TypeOK
  <1>2. CASE ReadEOF \/ ReadPanic \/ ReadClosed \/ ReadWait \/ ReadTimeout
    <2>1. ReaderType'
      BY <1>2 DEF ReadEOF, ReadPanic, ReadClosed, ReadWait, ReadTimeout, TypeOK, ReaderType
    <2>2. ClientType'
      BY <1>2 DEF ReadEOF, ReadPanic, ReadClosed, ReadWait, ReadTimeout, Return, TypeOK,
                  ClientType
    <2>3. UNCHANGED fetchRest
      BY <1>2 DEF ReadEOF, ReadPanic, ReadClosed, ReadWait, ReadTimeout
    <2>4. QED BY <2>1, <2>2, <2>3, FetchRestTypes DEF TypeOK
  <1>3. CASE CloseReader \/ TimerFire \/ TimerDone \/ Abandon
    <2>1. ReaderType'
      BY <1>3 DEF CloseReader, TimerFire, TimerDone, Abandon, TypeOK, ReaderType
    <2>2. ClientType'
      BY <1>3 DEF CloseReader, TimerFire, TimerDone, Abandon, Return, TypeOK, ClientType,
                  clientVars
    <2>3. UNCHANGED fetchRest BY <1>3 DEF CloseReader, TimerFire, TimerDone, Abandon
    <2>4. QED BY <2>1, <2>2, <2>3, FetchRestTypes DEF TypeOK
  <1>4. QED BY <1>1, <1>2, <1>3 DEF Client

LEMMA OtherTypes ==
  ASSUME TypeOK, EmptyFetch \/ WaitDone \/ Cancel \/ UNCHANGED vars
  PROVE  TypeOK'
  <1> USE DEF TypeOK
  <1>0. Caller \in Threads BY DEF Threads
  <1>1. CASE EmptyFetch
    <2>1. PlanType' BY <1>1, <1>0 DEF EmptyFetch, PlanType, planVars, clientVars
    <2>2. ThreadType' BY <1>1, <1>0 DEF EmptyFetch, ThreadType, planVars, clientVars
    <2>3. ReaderType' BY <1>1, <1>0 DEF EmptyFetch, ReaderType, planVars, clientVars
    <2>4. ClientType' BY <1>1, <1>0 DEF EmptyFetch, ClientType, planVars, clientVars
    <2>5. QED BY <2>1, <2>2, <2>3, <2>4
  <1>2. CASE WaitDone
    <2>1. PlanType' BY <1>2 DEF WaitDone, close, Woken, threadVars, PlanType, planVars, clientVars
    <2>2. ThreadType' BY <1>2 DEF WaitDone, close, Woken, threadVars, ThreadType, planVars, clientVars
    <2>3. ReaderType' BY <1>2 DEF WaitDone, close, Woken, threadVars, ReaderType, planVars, clientVars
    <2>4. ClientType' BY <1>2 DEF WaitDone, close, Woken, threadVars, ClientType, planVars, clientVars
    <2>5. QED BY <2>1, <2>2, <2>3, <2>4
  <1>3. CASE Cancel
    <2>1. PlanType' BY <1>3 DEF Cancel, threadVars, PlanType, planVars, clientVars
    <2>2. ThreadType' BY <1>3 DEF Cancel, threadVars, ThreadType, planVars, clientVars
    <2>3. ReaderType' BY <1>3 DEF Cancel, threadVars, ReaderType, planVars, clientVars
    <2>4. ClientType' BY <1>3 DEF Cancel, threadVars, ClientType, planVars, clientVars
    <2>5. QED BY <2>1, <2>2, <2>3, <2>4
  <1>4. CASE UNCHANGED vars
    <2>1. PlanType' BY <1>4 DEF vars, PlanType, planVars, clientVars
    <2>2. ThreadType' BY <1>4 DEF vars, ThreadType, planVars, clientVars
    <2>3. ReaderType' BY <1>4 DEF vars, ReaderType, planVars, clientVars
    <2>4. ClientType' BY <1>4 DEF vars, ClientType, planVars, clientVars
    <2>5. QED BY <2>1, <2>2, <2>3, <2>4
  <1>5. QED BY <1>1, <1>2, <1>3, <1>4

\* The steps of a fetch, as the lemmas below take them.
LEMMA NextCases ==
  ASSUME [Next]_vars
  PROVE  \/ \E t \in Threads : Thread(t)
         \/ WholeFile
         \/ Client \/ TimerFire \/ TimerDone \/ Abandon
         \/ EmptyFetch \/ WaitDone \/ Cancel \/ UNCHANGED vars
  BY DEF Next, Terminating

\* Every variable keeps its type, so no step of a fetch indexes a block that is
\* not one, or moves the reader by a negative amount.
THEOREM TypeCorrect == Spec => []TypeOK
  <1>1. TypeOK /\ [Next]_vars => TypeOK'
    BY NextCases, ThreadTypes, WholeFileTypes, ClientTypes, OtherTypes
  <1>2. QED BY InitTypes, <1>1, PTL DEF Spec

-----------------------------------------------------------------------------
(* Control. *)

Control == ProbeInv /\ ClientInv

LEMMA ThreadNames ==
  /\ Caller \in Threads /\ 1 \in Workers /\ Workers \subseteq Threads
  /\ \A w \in Workers : w # Caller
  /\ \A t \in Threads : t # Caller => t \in Workers
  BY DEF Threads, Workers, Caller

\* Whoever is not the caller acts only once the probe is over.
LEMMA ProbeOver ==
  ASSUME TypeOK, Control,
         \/ \E w \in Workers : pc[w] # "idle"
         \/ rpc # "none" \/ timer # "off" \/ waiter # "off"
  PROVE  pc[Caller] = "done"
  BY DEF Control, ProbeInv, Probing

LEMMA InitControl == Init => Control
  BY ThreadNames DEF Init, Control, ProbeInv, ClientInv, Probing

LEMMA ObtainedControl ==
  ASSUME TypeOK, Control, NEW t \in Threads, pc[t] \in {"lookup", "asked"},
         NEW o \in Aligned, NEW d \in Data, Obtained(t, o, d)
  PROVE  Control'
  <1>1. CASE t = Caller /\ Launch(o, d)
    <2>1. pc'[Caller] = "done"
      BY <1>1, ThreadNames DEF Launch, Caller
    <2>2. result = "none" /\ timer = "off" BY <1>1 DEF Control, ProbeInv, Probing
    <2>3. QED BY <1>1, <2>1, <2>2
              DEF Launch, Control, ProbeInv, ClientInv, Probing, clientVars
  <1>2. CASE t # Caller /\ Deliver(t, o, d)
    <2>1. t \in Workers /\ pc[Caller] = "done" BY <1>2, ThreadNames, ProbeOver
    <2>2. pc'[Caller] = "done" /\ rpc # "none"
      BY <1>2, <2>1, ThreadNames
         DEF Deliver, TypeOK, ThreadType, Control, ClientInv
    <2>3. rpc' # "none" BY <1>2, <2>2 DEF Deliver, put, Woken
    <2>4. QED BY <1>2, <2>2, <2>3
              DEF Deliver, put, Woken, Control, ProbeInv, ClientInv, Probing, clientVars,
                  planVars, End
  <1>3. QED BY <1>1, <1>2 DEF Obtained

LEMMA GiveUpControl ==
  ASSUME TypeOK, Control, NEW t \in Threads, pc[t] \in {"lookup", "try", "asked"}, GiveUp(t)
  PROVE  Control'
  <1>1. CASE t = Caller
    <2>1. pc'[Caller] = "done" /\ \A w \in Workers : pc'[w] = pc[w]
      BY <1>1, ThreadNames DEF GiveUp, TypeOK, ThreadType
    <2>2. rpc = "none" /\ timer = "off" BY <1>1 DEF Control, ProbeInv, Probing
    <2>3. QED BY <1>1, <2>1, <2>2 DEF GiveUp, Control, ProbeInv, ClientInv, Probing
  <1>2. CASE t # Caller
    <2>1. t \in Workers /\ pc[Caller] = "done" /\ rpc # "none"
      BY <1>2, ThreadNames, ProbeOver DEF Control, ClientInv
    <2>2. pc'[Caller] = "done"
      BY <1>2, <2>1, ThreadNames DEF GiveUp, TypeOK, ThreadType
    <2>3. QED BY <1>2, <2>1, <2>2
              DEF GiveUp, Control, ProbeInv, ClientInv, Probing, planVars, End
  <1>3. QED BY <1>1, <1>2

\* A thread goes on to p and nothing else of the control changes.
LEMMA MoveControl ==
  ASSUME TypeOK, Control, NEW t \in Threads, pc[t] \in {"lookup", "try", "asked"},
         NEW p \in {"try", "asked"}, pc' = [pc EXCEPT ![t] = p],
         UNCHANGED <<range, todo, waiter, nextOff, blocks, closed, err, rpc, timer, out, result>>
  PROVE  Control'
  <1>1. CASE t = Caller
    <2>1. pc'[Caller] = p /\ \A w \in Workers : pc'[w] = pc[w]
      BY <1>1, ThreadNames DEF TypeOK, ThreadType
    <2>2. Probing BY <1>1 DEF Probing
    <2>3. QED BY <2>1, <2>2 DEF Control, ProbeInv, ClientInv, Probing, Start, End
  <1>2. CASE t # Caller
    <2>1. t \in Workers /\ pc[Caller] = "done" /\ rpc # "none"
      BY <1>2, ThreadNames, ProbeOver DEF Control, ClientInv
    <2>2. pc'[Caller] = "done"
      BY <1>2, <2>1, ThreadNames DEF TypeOK, ThreadType
    <2>3. QED BY <2>1, <2>2 DEF Control, ProbeInv, ClientInv, Probing, End
  <1>3. QED BY <1>1, <1>2

LEMMA ThreadControl ==
  ASSUME TypeOK, Control, NEW t \in Threads, Thread(t)
  PROVE  Control'
  <1>1. ASSUME NEW o \in Aligned, Lookup(t, o) PROVE Control'
    <2>1. CASE cache[o] # NoBlock
      <3>1. cache[o] \in Data BY <2>1 DEF TypeOK, PlanType
      <3>2. Obtained(t, o, cache[o]) /\ pc[t] = "lookup" BY <1>1, <2>1 DEF Lookup
      <3>3. QED BY <3>1, <3>2, ObtainedControl
    <2>2. CASE cache[o] = NoBlock
      BY <1>1, <2>2, MoveControl DEF Lookup, planVars, clientVars
    <2>3. QED BY <2>1, <2>2
  <1>2. ASSUME NEW o \in Aligned, NEW k \in 0..BlockSize, Answer206(t, o, k) PROVE Control'
    BY <1>2, PieceType, ObtainedControl DEF Answer206
  <1>3. CASE WorkerCancelled(t) BY <1>3, GiveUpControl DEF WorkerCancelled
  <1>4. CASE Attempt(t)
    <2>1. CASE GiveUp(t) BY <1>4, <2>1, GiveUpControl DEF Attempt
    <2>2. CASE ~GiveUp(t) BY <1>4, <2>2, MoveControl DEF Attempt, planVars, clientVars
    <2>3. QED BY <2>1, <2>2
  <1>5. CASE AnswerError(t)
    <2>1. CASE GiveUp(t) BY <1>5, <2>1, GiveUpControl DEF AnswerError
    <2>2. CASE ~GiveUp(t) BY <1>5, <2>2, MoveControl DEF AnswerError, planVars, clientVars
    <2>3. QED BY <2>1, <2>2
  <1>6. CASE Answer200(t)
    <2>1. CASE t # Caller BY <1>6, <2>1, GiveUpControl DEF Answer200
    <2>2. CASE t = Caller
      <3>1. result = "none" /\ timer = "off"
        BY <1>6, <2>2 DEF Answer200, Control, ProbeInv, Probing
      <3>2. pc'[Caller] = "done" BY <1>6, <2>2, ThreadNames DEF Answer200
      <3>3. QED BY <1>6, <2>2, <3>1, <3>2
                DEF Answer200, Control, ProbeInv, ClientInv, Probing, clientVars
    <2>3. QED BY <2>1, <2>2
  <1>7. CASE fail(t)
    <2>1. t \in Workers
      BY <1>7, ThreadNames DEF fail, Control, ProbeInv, Probing
    <2>2. pc[Caller] = "done" /\ rpc # "none"
      BY <1>7, <2>1, ProbeOver DEF fail, Control, ClientInv
    <2>3. pc'[Caller] = "done"
      BY <1>7, <2>2, ThreadNames DEF fail, TypeOK, ThreadType
    <2>4. QED BY <1>7, <2>2, <2>3
              DEF fail, close, Woken, Control, ProbeInv, ClientInv, Probing, clientVars,
                  planVars, End
  <1>8. QED BY <1>1, <1>2, <1>3, <1>4, <1>5, <1>6, <1>7 DEF Thread

LEMMA WholeFileControl ==
  ASSUME TypeOK, Control, WholeFile
  PROVE  Control'
  <1>0. 1 \in Workers /\ pc[1] # "idle"
    BY ThreadNames DEF WholeFile, WholeGet, WholeCancelled, WholeEnd, WholeClose, WholeChunk
  <1>1. pc[Caller] = "done" /\ rpc # "none"
    BY <1>0, ProbeOver DEF Control, ClientInv
  <1> USE DEF wholeRest, clientVars, planVars
  <1>2. CASE WholeGet \/ WholeCancelled \/ WholeEnd \/ WholeClose
    <2>1. pc'[Caller] = "done"
      BY <1>1, <1>2, ThreadNames
         DEF WholeGet, WholeCancelled, WholeEnd, WholeClose, TypeOK, ThreadType
    <2>2. rpc' \in {rpc, Woken} /\ UNCHANGED <<timer, result, nextOff, range>>
      BY <1>2 DEF WholeGet, WholeCancelled, WholeEnd, WholeClose, close
    <2>3. QED BY <1>1, <2>1, <2>2 DEF Woken, Control, ProbeInv, ClientInv, Probing, End
  <1>3. ASSUME NEW o \in Aligned, NEW k \in 0..BlockSize, WholeChunk(o, k) PROVE Control'
    <2>1. pc'[Caller] = "done"
      BY <1>1, <1>3, ThreadNames DEF WholeChunk, TypeOK, ThreadType
    <2>2. rpc' \in {rpc, Woken} /\ UNCHANGED <<timer, result, nextOff, range>>
      BY <1>3 DEF WholeChunk, put
    <2>3. QED BY <1>1, <2>1, <2>2 DEF Woken, Control, ProbeInv, ClientInv, Probing, End
  <1>4. QED BY <1>2, <1>3 DEF WholeFile

LEMMA ClientControl ==
  ASSUME TypeOK, Control, Client \/ TimerFire \/ TimerDone \/ Abandon
  PROVE  Control'
  <1>1. rpc # "none"
    BY DEF Client, TimerFire, TimerDone, Abandon, ReadEOF, ReadBlock, ReadPanic, ReadClosed,
           ReadWait, ReadTimeout, CloseReader, CanRead, Control, ClientInv
  <1>2. UNCHANGED <<pc, range>> /\ rpc' # "none"
    BY <1>1 DEF Client, TimerFire, TimerDone, Abandon, ReadEOF, ReadBlock, ReadPanic,
           ReadClosed, ReadWait, ReadTimeout, CloseReader, Return, fetchRest, threadVars,
           planVars
  <1>3. ProbeInv' BY <1>1, <1>2, ProbeOver DEF ProbeInv, Probing
  <1>4. ClientInv'
    <2>1. CASE ReadEOF \/ ReadPanic \/ ReadClosed \/ ReadTimeout \/ Abandon
      BY <1>2, <2>1 DEF ReadEOF, ReadPanic, ReadClosed, ReadTimeout, Abandon, Return, ClientInv
    <2>2. CASE ReadBlock \/ ReadWait
      BY <1>2, <2>2 DEF ReadBlock, ReadWait, CanRead, Control, ClientInv, End
    <2>3. CASE CloseReader \/ TimerFire \/ TimerDone
      BY <1>2, <2>3 DEF CloseReader, TimerFire, TimerDone, Control, ClientInv, End, clientVars
    <2>4. QED BY <2>1, <2>2, <2>3 DEF Client
  <1>5. QED BY <1>3, <1>4 DEF Control

LEMMA OtherControl ==
  ASSUME TypeOK, Control, EmptyFetch \/ WaitDone \/ Cancel \/ UNCHANGED vars
  PROVE  Control'
  <1>1. CASE EmptyFetch
    <2>1. pc'[Caller] = "done" BY <1>1, ThreadNames DEF EmptyFetch, TypeOK, ThreadType
    <2>2. timer = "off" BY <1>1 DEF EmptyFetch, Control, ProbeInv, Probing
    <2>3. QED BY <1>1, <2>1, <2>2 DEF EmptyFetch, Control, ProbeInv, ClientInv, Probing
  <1>2. CASE WaitDone
    <2>1. pc[Caller] = "done" /\ rpc # "none"
      BY <1>2, ProbeOver DEF WaitDone, Control, ClientInv
    <2>2. QED BY <1>2, <2>1 DEF WaitDone, close, Woken, Control, ProbeInv, ClientInv, Probing,
                                planVars, threadVars, clientVars, End
  <1>3. CASE Cancel
    BY <1>3 DEF Cancel, Control, ProbeInv, ClientInv, Probing, planVars, threadVars,
                clientVars, Start, End
  <1>4. CASE UNCHANGED vars
    BY <1>4 DEF vars, Control, ProbeInv, ClientInv, Probing, Start, End
  <1>5. QED BY <1>1, <1>2, <1>3, <1>4

LEMMA ControlCorrect == Spec => []Control
  <1>1. TypeOK /\ Control /\ [Next]_vars => Control'
    BY NextCases, ThreadControl, WholeFileControl, ClientControl, OtherControl
  <1>2. QED BY InitControl, <1>1, TypeCorrect, PTL DEF Spec

-----------------------------------------------------------------------------
(* What a fetch hands to its client: blocks keep their place, a sleeping   *)
(* reader has nothing to read, and the reader implements ByteStream.       *)

LEMMA ConcatLength ==
  ASSUME NEW a \in Seq(Nat), NEW b \in Seq(Nat)
  PROVE  Len(a \o b) = Len(a) + Len(b)
  OBVIOUS

(* Data: every block holds the bytes of its own offset. *)

LEMMA InitData == Init => DataInv
  <1> SUFFICES ASSUME Init PROVE DataInv OBVIOUS
  <1>1. \A o \in Aligned : cache[o] # NoBlock => cache[o].from = o /\ cache[o].len <= BlockSize
    <2> SUFFICES ASSUME NEW o \in Aligned, cache[o] # NoBlock
                 PROVE  cache[o].from = o /\ cache[o].len <= BlockSize
      OBVIOUS
    <2>1. cache[o].from = o BY DEF Init
    <2>2. cache \in [Aligned -> Data \cup {NoBlock}] BY InitTypes DEF TypeOK, PlanType
    <2>3. cache[o] \in Data BY <2>2
    <2>4. QED BY <2>1, <2>3 DEF Data
  <1>2. \A o \in Aligned : blocks[o] = NoBlock BY DEF Init
  <1>3. Len(out) = nextOff - Start
    <2>1. out = << >> /\ nextOff = Start /\ range \in Ranges BY DEF Init
    <2>2. Start \in Nat BY <2>1, RangeEnds
    <2>3. QED BY <2>1, <2>2
  <1>4. QED BY <1>1, <1>2, <1>3 DEF DataInv, CacheHoldsPrefixes

\* A block d of offset o is stored in the cache, or in the reader, or in both.
LEMMA StoreData ==
  ASSUME TypeOK, DataInv, NEW o \in Aligned, NEW d \in Data, d.from = o,
         cache' \in {cache, [cache EXCEPT ![o] = d]},
         blocks' \in {blocks, [blocks EXCEPT ![o] = d]},
         UNCHANGED <<range, nextOff, out>>
  PROVE  DataInv'
  <1>1. d.len <= BlockSize BY DEF Data
  <1>2. CacheHoldsPrefixes'
    <2> SUFFICES ASSUME NEW x \in Aligned, cache'[x] # NoBlock
                 PROVE  cache'[x].from = x /\ cache'[x].len <= BlockSize
      BY DEF CacheHoldsPrefixes
    <2>1. CASE cache'[x] = cache[x] BY <2>1 DEF DataInv, CacheHoldsPrefixes
    <2>2. CASE cache'[x] # cache[x]
      <3>1. x = o /\ cache'[x] = d BY <2>2 DEF TypeOK, PlanType
      <3>2. QED BY <3>1, <1>1
    <2>3. QED BY <2>1, <2>2
  <1>3. \A x \in Aligned : blocks'[x] # NoBlock => blocks'[x].from = x
    BY DEF TypeOK, ReaderType, DataInv
  <1>4. (Len(out) = nextOff - Start)' BY DEF DataInv, Start
  <1>5. QED BY <1>2, <1>3, <1>4 DEF DataInv

\* The fetch stores nothing and the reader stays where it is.
LEMMA KeepData ==
  ASSUME DataInv, UNCHANGED <<cache, blocks, range, nextOff, out>>
  PROVE  DataInv'
  BY DEF DataInv, CacheHoldsPrefixes, Start

LEMMA ObtainedData ==
  ASSUME TypeOK, DataInv, NEW t \in Threads, NEW o \in Aligned, NEW d \in Data,
         d.from = o, Obtained(t, o, d)
  PROVE  DataInv'
  <1>1. /\ cache' \in {cache, [cache EXCEPT ![o] = d]}
        /\ blocks' = [blocks EXCEPT ![o] = d]
        /\ UNCHANGED <<range, nextOff, out>>
    BY DEF Obtained, Launch, Deliver, CachePut, put, planVars, clientVars
  <1>2. QED BY <1>1, StoreData

LEMMA ThreadData ==
  ASSUME TypeOK, DataInv, NEW t \in Threads, Thread(t)
  PROVE  DataInv'
  <1>1. ASSUME NEW o \in Aligned, Lookup(t, o) PROVE DataInv'
    <2>1. CASE cache[o] # NoBlock
      <3>1. cache[o] \in Data BY <2>1 DEF TypeOK, PlanType
      <3>2. cache[o].from = o BY <2>1 DEF DataInv, CacheHoldsPrefixes
      <3>3. Obtained(t, o, cache[o]) BY <1>1, <2>1 DEF Lookup
      <3>4. QED BY <3>1, <3>2, <3>3, ObtainedData
    <2>2. CASE cache[o] = NoBlock
      BY <1>1, <2>2, KeepData DEF Lookup, planVars, clientVars
    <2>3. QED BY <2>1, <2>2
  <1>2. ASSUME NEW o \in Aligned, NEW k \in 0..BlockSize, Answer206(t, o, k) PROVE DataInv'
    <2>1. Piece(o, k) \in Data /\ Piece(o, k).from = o BY PieceType DEF Piece
    <2>2. QED BY <1>2, <2>1, ObtainedData DEF Answer206
  <1>3. CASE WorkerCancelled(t) \/ Attempt(t) \/ AnswerError(t) \/ Answer200(t) \/ fail(t)
    BY <1>3, KeepData
       DEF WorkerCancelled, Attempt, AnswerError, Answer200, fail, GiveUp, planVars, clientVars
  <1>4. QED BY <1>1, <1>2, <1>3 DEF Thread

LEMMA WholeFileData ==
  ASSUME TypeOK, DataInv, WholeFile
  PROVE  DataInv'
  <1>1. ASSUME NEW o \in Aligned, NEW k \in 0..BlockSize, WholeChunk(o, k) PROVE DataInv'
    <2>1. Piece(o, k) \in Data /\ Piece(o, k).from = o BY PieceType DEF Piece
    <2>2. /\ cache' \in {cache, [cache EXCEPT ![o] = Piece(o, k)]}
          /\ blocks' \in {blocks, [blocks EXCEPT ![o] = Piece(o, k)]}
          /\ UNCHANGED <<range, nextOff, out>>
      BY <1>1 DEF WholeChunk, CachePut, put, wholeRest, planVars, clientVars
    <2>3. QED BY <2>1, <2>2, StoreData
  <1>2. CASE WholeGet \/ WholeCancelled \/ WholeEnd \/ WholeClose
    BY <1>2, KeepData
       DEF WholeGet, WholeCancelled, WholeEnd, WholeClose, wholeRest, planVars, clientVars
  <1>3. QED BY <1>1, <1>2 DEF WholeFile

LEMMA ClientData ==
  ASSUME TypeOK, DataInv, Client \/ TimerFire \/ TimerDone \/ Abandon
  PROVE  DataInv'
  <1>1. CASE ReadBlock
    <2>1. /\ nextOff \in Nat /\ Copied \in Nat
          /\ Bytes(Waited.from + inBlockOff, Copied) \in Seq(Nat)
          /\ Len(Bytes(Waited.from + inBlockOff, Copied)) = Copied
          /\ out' = out \o Bytes(Waited.from + inBlockOff, Copied)
          /\ nextOff' = nextOff + Copied
          /\ blocks' = Unread(KeyFor(nextOff), inBlockOff + Copied)
      BY <1>1, ReadBlockStep
    <2>2. UNCHANGED <<cache, range>> BY <1>1 DEF ReadBlock, fetchRest, planVars
    <2>3. CacheHoldsPrefixes' BY <2>2 DEF DataInv, CacheHoldsPrefixes
    <2>4. \A x \in Aligned : blocks'[x] # NoBlock => blocks'[x].from = x
      BY <2>1 DEF Unread, DataInv, TypeOK, ReaderType
    <2>5. (Len(out) = nextOff - Start)'
      <3>1. range \in Ranges /\ out \in Seq(Nat) BY DEF TypeOK, PlanType, ClientType
      <3>2. Start \in Nat /\ Start' = Start BY <2>2, <3>1, RangeEnds DEF Start
      <3>3. Len(out') = Len(out) + Copied BY <2>1, <3>1, ConcatLength, Zenon
      <3>4. Len(out) = nextOff - Start BY DEF DataInv
      <3>5. QED BY <2>1, <3>2, <3>3, <3>4
    <2>6. QED BY <2>3, <2>4, <2>5 DEF DataInv
  <1>2. CASE ReadEOF \/ ReadPanic \/ ReadClosed \/ ReadWait \/ ReadTimeout
    BY <1>2, KeepData
       DEF ReadEOF, ReadPanic, ReadClosed, ReadWait, ReadTimeout, fetchRest, planVars
  <1>3. CASE CloseReader \/ TimerFire \/ TimerDone \/ Abandon
    BY <1>3, KeepData
       DEF CloseReader, TimerFire, TimerDone, Abandon, fetchRest, planVars, clientVars
  <1>4. QED BY <1>1, <1>2, <1>3 DEF Client

LEMMA OtherData ==
  ASSUME DataInv, EmptyFetch \/ WaitDone \/ Cancel \/ UNCHANGED vars
  PROVE  DataInv'
  BY KeepData DEF EmptyFetch, WaitDone, Cancel, vars, planVars, clientVars

LEMMA DataCorrect == Spec => []DataInv
  <1>1. TypeOK /\ DataInv /\ [Next]_vars => DataInv'
    BY NextCases, ThreadData, WholeFileData, ClientData, OtherData
  <1>2. QED BY InitData, <1>1, TypeCorrect, PTL DEF Spec

\* Whichever path stores a block (probe, worker, slices of a whole-file stream),
\* the cache holds it under the offset its bytes come from (fetchBlock, cache.Put).
THEOREM CachedBlocksInPlace == Spec => []CacheHoldsPrefixes
  <1>1. DataInv => CacheHoldsPrefixes BY DEF DataInv
  <1>2. QED BY <1>1, DataCorrect, PTL

-----------------------------------------------------------------------------
(* Wakeups. *)

\* A step after which the reader sleeps either put it to sleep, or left it and
\* what it looked at alone.
LEMMA SleepStep ==
  ASSUME SleepsOnlyWhenDry,
         \/ rpc' # "wait"
         \/ UNCHANGED <<rpc, blocks, closed, nextOff>>
         \/ ReadWait
  PROVE  SleepsOnlyWhenDry'
  BY DEF SleepsOnlyWhenDry, Waited, ReadWait

LEMMA ThreadSleep ==
  ASSUME SleepsOnlyWhenDry, NEW t \in Threads, Thread(t)
  PROVE  SleepsOnlyWhenDry'
  <1>1. ASSUME NEW o \in Aligned, NEW d, Obtained(t, o, d) PROVE SleepsOnlyWhenDry'
    BY <1>1, SleepStep DEF Obtained, Launch, Deliver, put, Woken
  <1>2. ASSUME NEW o \in Aligned, Lookup(t, o) PROVE SleepsOnlyWhenDry'
    BY <1>1, <1>2, SleepStep DEF Lookup
  <1>3. ASSUME NEW o \in Aligned, NEW k \in 0..BlockSize, Answer206(t, o, k)
        PROVE  SleepsOnlyWhenDry'
    BY <1>1, <1>3 DEF Answer206
  <1>4. CASE WorkerCancelled(t) \/ Attempt(t) \/ AnswerError(t) \/ Answer200(t) \/ fail(t)
    BY <1>4, SleepStep
       DEF WorkerCancelled, Attempt, AnswerError, Answer200, fail, close, GiveUp, Woken
  <1>5. QED BY <1>2, <1>3, <1>4 DEF Thread

LEMMA WholeFileSleep ==
  ASSUME SleepsOnlyWhenDry, WholeFile
  PROVE  SleepsOnlyWhenDry'
  <1> USE SleepStep DEF wholeRest, Woken
  <1>1. ASSUME NEW o \in Aligned, NEW k \in 0..BlockSize, WholeChunk(o, k)
        PROVE  SleepsOnlyWhenDry'
    BY <1>1 DEF WholeChunk, put
  <1>2. CASE WholeGet \/ WholeCancelled \/ WholeEnd
    BY <1>2 DEF WholeGet, WholeCancelled, WholeEnd
  <1>3. CASE WholeClose BY <1>3 DEF WholeClose, close
  <1>4. QED BY <1>1, <1>2, <1>3 DEF WholeFile

\* No wakeup is lost: whoever puts the block or closes the reader broadcasts under
\* the lock, so a reader in cond.Wait has neither (orderedReader.Read, put, fail,
\* close).
THEOREM NoLostWakeup == Spec => []SleepsOnlyWhenDry
  <1>1. Init => SleepsOnlyWhenDry BY DEF Init, SleepsOnlyWhenDry
  <1>2. SleepsOnlyWhenDry /\ [Next]_vars => SleepsOnlyWhenDry'
    <2> SUFFICES ASSUME SleepsOnlyWhenDry, [Next]_vars PROVE SleepsOnlyWhenDry' OBVIOUS
    <2> USE SleepStep
    <2>1. CASE Client
      BY <2>1 DEF Client, ReadEOF, ReadBlock, ReadPanic, ReadClosed, ReadTimeout, Return,
                  CloseReader
    <2>2. CASE TimerFire \/ TimerDone \/ Abandon
      BY <2>2 DEF TimerFire, TimerDone, Abandon, Return
    <2>3. CASE EmptyFetch \/ Cancel \/ UNCHANGED vars
      BY <2>3 DEF EmptyFetch, Cancel, vars
    <2>4. CASE WaitDone BY <2>4 DEF WaitDone, close, Woken
    <2>5. QED BY NextCases, ThreadSleep, WholeFileSleep, <2>1, <2>2, <2>3, <2>4
  <1>3. QED BY <1>1, <1>2, PTL DEF Spec

-----------------------------------------------------------------------------
(* Refinement. *)

Streaming == TypeOK /\ Control /\ DataInv

\* What a step may do to the client's view, other than stutter.
LEMMA BreakStep ==
  ASSUME result = "none", result' \notin {"none", "eof"}, UNCHANGED <<range, out>>
  PROVE  Stream!Break
  BY DEF Stream!Break

LEMMA FinishStep ==
  ASSUME Streaming, result = "none", result' = "eof", nextOff > End,
         UNCHANGED <<range, out>>
  PROVE  Stream!Finish
  <1>1. range \in Ranges /\ nextOff \in Nat
    BY DEF Streaming, TypeOK, PlanType, ReaderType
  <1>2. Start \in Nat /\ End \in Nat BY <1>1, RangeEnds
  <1>3. Start + Len(out) > End BY <1>1, <1>2 DEF Streaming, DataInv
  <1>4. QED BY <1>3 DEF Stream!Finish, Start, End

LEMMA StutterStep ==
  ASSUME UNCHANGED <<range, out, result>>
  PROVE  UNCHANGED Stream!svars
  BY DEF Stream!svars

LEMMA ThreadStream ==
  ASSUME Streaming, NEW t \in Threads, Thread(t)
  PROVE  [Stream!StreamNext]_(Stream!svars)
  <1>1. ASSUME GiveUp(t), pc[t] \in {"lookup", "try", "asked"}
        PROVE  [Stream!StreamNext]_(Stream!svars)
    <2>1. UNCHANGED <<range, out>> BY <1>1 DEF GiveUp, planVars
    <2>2. CASE t = Caller
      <3>1. result = "none" /\ result' = "refused"
        BY <1>1, <2>2 DEF GiveUp, Streaming, Control, ProbeInv, Probing
      <3>2. QED BY <2>1, <3>1, BreakStep DEF Stream!StreamNext
    <2>3. CASE t # Caller BY <1>1, <2>1, <2>3, StutterStep DEF GiveUp
    <2>4. QED BY <2>2, <2>3
  <1>2. ASSUME NEW o \in Aligned, NEW d, Obtained(t, o, d)
        PROVE  UNCHANGED <<range, out, result>>
    BY <1>2 DEF Obtained, Launch, Deliver, planVars, clientVars
  <1>3. ASSUME NEW o \in Aligned, Lookup(t, o) PROVE UNCHANGED <<range, out, result>>
    BY <1>2, <1>3 DEF Lookup, planVars, clientVars
  <1>4. ASSUME NEW o \in Aligned, NEW k \in 0..BlockSize, Answer206(t, o, k)
        PROVE  UNCHANGED <<range, out, result>>
    BY <1>2, <1>4 DEF Answer206
  <1>5. CASE WorkerCancelled(t) BY <1>1, <1>5 DEF WorkerCancelled
  <1>6. CASE Attempt(t) \/ AnswerError(t) \/ Answer200(t)
    <2>1. CASE GiveUp(t)
      <3>1. pc[t] \in {"try", "asked"} BY <1>6 DEF Attempt, AnswerError, Answer200
      <3>2. QED BY <1>1, <2>1, <3>1
    <2>2. CASE ~GiveUp(t)
      BY <1>6, <2>2, StutterStep DEF Attempt, AnswerError, Answer200, planVars, clientVars
    <2>3. QED BY <2>1, <2>2
  <1>7. CASE fail(t) BY <1>7, StutterStep DEF fail, planVars, clientVars
  <1>8. QED BY <1>3, <1>4, <1>5, <1>6, <1>7, StutterStep DEF Thread

LEMMA ReadBlockStream ==
  ASSUME Streaming, ReadBlock
  PROVE  [Stream!StreamNext]_(Stream!svars)
  <1>1. /\ nextOff \in Nat /\ nextOff <= End /\ Waited # NoBlock /\ End \in Nat
        /\ KeyFor(nextOff) \in Aligned /\ Copied \in Nat /\ Copied <= End - nextOff + 1
        /\ out' = out \o Bytes(Waited.from + inBlockOff, Copied)
    BY ReadBlockStep DEF Streaming
  <1>2. result = "none" /\ UNCHANGED <<range, result>>
    BY DEF ReadBlock, CanRead, fetchRest, planVars, Streaming, Control, ClientInv
  <1>3. range \in Ranges /\ out \in Seq(Nat)
    BY DEF Streaming, TypeOK, PlanType, ClientType
  <1>4. Start \in Nat BY <1>3, RangeEnds
  <1>5. Waited.from = KeyFor(nextOff) BY <1>1 DEF Waited, Streaming, DataInv
  <1>6. Waited.from + inBlockOff = nextOff
    <2>1. KeyFor(nextOff) \in Nat BY <1>1, KeyForBounds
    <2>2. QED BY <1>1, <1>5, <2>1 DEF inBlockOff
  <1>7. Start + Len(out) = nextOff
    <2>1. Len(out) = nextOff - Start BY DEF Streaming, DataInv
    <2>2. QED BY <1>1, <1>4, <2>1
  <1>8. out' = out \o Stream!Bytes(Start + Len(out), Copied)
    BY <1>1, <1>6, <1>7 DEF Bytes, Stream!Bytes
  <1>9. CASE Copied = 0
    <2>1. Stream!Bytes(Start + Len(out), 0) = << >> BY DEF Stream!Bytes
    <2>2. out' = out BY <1>3, <1>8, <1>9, <2>1
    <2>3. QED BY <1>2, <2>2, StutterStep
  <1>10. CASE Copied # 0
    <2>1. Copied \in 1..(End - Start + 1 - Len(out)) BY <1>1, <1>4, <1>7, <1>10
    <2>2. Stream!Emit BY <1>2, <1>8, <2>1 DEF Stream!Emit, Start, End
    <2>3. QED BY <2>2 DEF Stream!StreamNext
  <1>11. QED BY <1>9, <1>10

LEMMA ClientStream ==
  ASSUME Streaming, Client \/ TimerFire \/ TimerDone \/ Abandon
  PROVE  [Stream!StreamNext]_(Stream!svars)
  <1>1. CASE ReadEOF
    <2>1. /\ result = "none" /\ result' = "eof" /\ nextOff > End
          /\ UNCHANGED <<range, out>>
      BY <1>1 DEF ReadEOF, CanRead, Return, fetchRest, planVars, Streaming, Control, ClientInv
    <2>2. QED BY <2>1, FinishStep DEF Stream!StreamNext
  <1>2. CASE ReadPanic \/ ReadClosed \/ ReadTimeout \/ Abandon
    <2>1. /\ result = "none" /\ result' \notin {"none", "eof"}
          /\ UNCHANGED <<range, out>>
      BY <1>2 DEF ReadPanic, ReadClosed, ReadTimeout, Abandon, CanRead, Return, fetchRest,
                  planVars, Streaming, Control, ClientInv
    <2>2. QED BY <2>1, BreakStep DEF Stream!StreamNext
  <1>3. CASE ReadWait \/ CloseReader \/ TimerFire \/ TimerDone
    BY <1>3, StutterStep DEF ReadWait, CloseReader, TimerFire, TimerDone, fetchRest, planVars,
                             clientVars
  <1>4. QED BY <1>1, <1>2, <1>3, ReadBlockStream DEF Client

LEMMA OtherStream ==
  ASSUME Streaming, WholeFile \/ EmptyFetch \/ WaitDone \/ Cancel \/ UNCHANGED vars
  PROVE  [Stream!StreamNext]_(Stream!svars)
  <1>1. CASE EmptyFetch
    <2>1. /\ result = "none" /\ result' = "eof" /\ nextOff = Start /\ Offs = {}
          /\ UNCHANGED <<range, out>>
      BY <1>1 DEF EmptyFetch, planVars, Streaming, Control, ProbeInv, Probing
    <2>2. range \in Ranges BY DEF Streaming, TypeOK, PlanType
    <2>3. Start \in Nat /\ End \in Nat BY <2>2, RangeEnds
    <2>4. nextOff > End BY <2>1, <2>2, <2>3, WaitedInOffs
    <2>5. QED BY <2>1, <2>4, FinishStep DEF Stream!StreamNext
  <1>2. CASE WholeFile
    BY <1>2, StutterStep
       DEF WholeFile, WholeGet, WholeCancelled, WholeEnd, WholeClose, WholeChunk, wholeRest,
           planVars, clientVars
  <1>3. CASE WaitDone \/ Cancel \/ UNCHANGED vars
    BY <1>3, StutterStep DEF WaitDone, Cancel, vars, planVars, clientVars
  <1>4. QED BY <1>1, <1>2, <1>3

\* The orderedReader implements ByteStream: whatever order the workers hand their
\* blocks in, and whatever the cache and the upstream give, the client reads the
\* bytes of the range in order and gets EOF only after the last.
THEOREM ReaderIsAByteStream == Spec => StreamSpec
  <1>1. Init => Stream!StreamInit BY DEF Init, Stream!StreamInit
  <1>2. Streaming /\ [Next]_vars => [Stream!StreamNext]_(Stream!svars)
    BY NextCases, ThreadStream, ClientStream, OtherStream
  <1>3. Spec => []Streaming BY TypeCorrect, ControlCorrect, DataCorrect, PTL DEF Streaming
  <1>4. QED BY <1>1, <1>2, <1>3, PTL DEF Spec, StreamSpec, Stream!StreamSpec
=============================================================================
