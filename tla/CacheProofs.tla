---------------------------- MODULE CacheProofs ----------------------------
(***************************************************************************)
(* Proofs about Cache: types, the reference counts, the bound on the size, *)
(* and the signals of the evictor.                                         *)
(***************************************************************************)
EXTENDS Cache, FiniteSetTheorems, TLAPS

USE BlocksAssumption, ActorsAssumption, LimitsAssumption

\* Who is at work has a block.
WorkInv ==
  /\ \A w \in Writers : wpc[w] # "idle" => wblk[w] \in Blocks
  /\ \A r \in Readers : rpc[r] # "idle" => rblk[r] \in Blocks

\* refsMu is held exactly between the check of a count and the deletion, and the row to
\* be deleted is not pinned.
LockInv ==
  /\ mu <=> epc = "delete"
  /\ epc = "delete" => rows # << >> /\ refs[Head(rows)] = 0

RefsInv == TypeOK /\ WorkInv /\ LockInv /\ RefsMatchHolders

-----------------------------------------------------------------------------
(* Counting, and rows of a listing.                                        *)

LEMMA Counted ==
  /\ \A S \in SUBSET Blocks : IsFiniteSet(S) /\ Cardinality(S) \in Nat
  /\ \A S \in SUBSET Readers : IsFiniteSet(S) /\ Cardinality(S) \in Nat
  /\ \A S \in SUBSET Writers :
       IsFiniteSet(S) /\ Cardinality(S) \in Nat /\ Cardinality(S) <= Cardinality(Writers)
  BY FS_Subset, FS_CardinalityType

LEMMA ListingRows ==
  ASSUME NEW S \in SUBSET Blocks, NEW s \in Listings(S)
  PROVE  s \in Seq(Blocks)
  <1>1. Least(ListLimit, Cardinality(S)) \in Nat BY Counted DEF Least
  <1>2. s \in [1..Least(ListLimit, Cardinality(S)) -> S] BY DEF Listings
  <1>3. QED BY <1>1, <1>2

LEMMA HeadAndTail ==
  ASSUME NEW s \in Seq(Blocks), s # << >>
  PROVE  Head(s) \in Blocks /\ Tail(s) \in Seq(Blocks)
  OBVIOUS

-----------------------------------------------------------------------------
(* Types, locks and counts.                                                *)

LEMMA EmptyRows == << >> \in Seq(Blocks)
  OBVIOUS

LEMMA InitRefs == Init => RefsInv
  <1> SUFFICES ASSUME Init PROVE RefsInv OBVIOUS
  <1>a. cutoff \in Int /\ rows \in Seq(Blocks) BY EmptyRows DEF Init
  <1>b. /\ lastUsed \in [Blocks -> Nat] /\ refs \in [Blocks -> Nat]
        /\ wblk \in [Writers -> Blocks \cup {NoBlock}]
        /\ rblk \in [Readers -> Blocks \cup {NoBlock}]
        /\ wpc \in [Writers -> {"idle", "insert", "signal"}]
        /\ rpc \in [Readers -> {"idle", "touch", "got", "held"}]
    BY DEF Init
  <1>1. TypeOK BY <1>a, <1>b DEF Init, TypeOK
  <1>2. WorkInv /\ LockInv BY DEF Init, WorkInv, LockInv
  <1>3. \A b \in Blocks : Holders(b) = {} BY DEF Init, Holders
  <1>4. RefsMatchHolders BY <1>3, FS_EmptySet DEF Init, RefsMatchHolders
  <1>5. QED BY <1>1, <1>2, <1>4 DEF RefsInv

\* A step that leaves the pins alone.
LEMMA PinsStay ==
  ASSUME RefsMatchHolders, UNCHANGED <<refs, readerVars>>
  PROVE  RefsMatchHolders' /\ \A b \in Blocks : Holders(b)' = Holders(b)
  BY DEF RefsMatchHolders, Holders, readerVars

LEMMA WriterRefs ==
  ASSUME RefsInv, NEW w \in Writers, Writer(w)
  PROVE  RefsInv'
  <1> USE DEF RefsInv
  <1>1. ASSUME NEW b \in Blocks, PutCheck(w, b) PROVE RefsInv'
    <2>1. TypeOK' BY <1>1 DEF TypeOK, PutCheck, storeVars, readerVars, evictorVars
    <2>2. WorkInv' /\ LockInv'
      BY <1>1 DEF TypeOK, WorkInv, LockInv, PutCheck, readerVars, evictorVars
    <2>3. RefsMatchHolders' BY <1>1, PinsStay DEF PutCheck
    <2>4. QED BY <2>1, <2>2, <2>3
  <1>2. CASE PutInsert(w)
    <2>1. TypeOK' BY <1>2 DEF TypeOK, WorkInv, PutInsert, readerVars, evictorVars
    <2>2. WorkInv' /\ LockInv'
      BY <1>2 DEF TypeOK, WorkInv, LockInv, PutInsert, readerVars, evictorVars
    <2>3. RefsMatchHolders' BY <1>2, PinsStay DEF PutInsert
    <2>4. QED BY <2>1, <2>2, <2>3
  <1>3. CASE PutSignal(w)
    <2>1. TypeOK' BY <1>3 DEF TypeOK, PutSignal, storeVars, readerVars, evictorVars
    <2>2. WorkInv' /\ LockInv'
      BY <1>3 DEF TypeOK, WorkInv, LockInv, PutSignal, readerVars, evictorVars
    <2>3. RefsMatchHolders' BY <1>3, PinsStay DEF PutSignal
    <2>4. QED BY <2>1, <2>2, <2>3
  <1>4. QED BY <1>1, <1>2, <1>3 DEF Writer

\* A reader that pins nothing before the step and nothing after it.
LEMMA NoPin ==
  ASSUME RefsInv, NEW r \in Readers, rpc[r] # "held", UNCHANGED refs,
         NEW p \in {"idle", "touch", "got"}, rpc' = [rpc EXCEPT ![r] = p],
         \A q \in Readers \ {r} : rblk'[q] = rblk[q]
  PROVE  RefsMatchHolders'
  <1>1. \A b \in Blocks : Holders(b)' = Holders(b) BY DEF RefsInv, TypeOK, Holders
  <1>2. QED BY <1>1 DEF RefsInv, RefsMatchHolders

LEMMA ReaderRefs ==
  ASSUME RefsInv, NEW r \in Readers, Reader(r)
  PROVE  RefsInv'
  <1> USE DEF RefsInv
  <1>1. ASSUME NEW b \in Blocks, Select(r, b) PROVE RefsInv'
    <2>1. TypeOK' BY <1>1 DEF TypeOK, Select, storeVars, writerVars, evictorVars
    <2>2. WorkInv' /\ LockInv'
      BY <1>1 DEF TypeOK, WorkInv, LockInv, Select, writerVars, evictorVars
    <2>3. RefsMatchHolders' BY <1>1, NoPin DEF Select, TypeOK
    <2>4. QED BY <2>1, <2>2, <2>3
  <1>2. CASE Touch(r)
    <2>1. TypeOK' BY <1>2 DEF TypeOK, WorkInv, Touch, writerVars, evictorVars
    <2>2. WorkInv' /\ LockInv'
      BY <1>2 DEF TypeOK, WorkInv, LockInv, Touch, writerVars, evictorVars
    <2>3. RefsMatchHolders' BY <1>2, NoPin DEF Touch, TypeOK
    <2>4. QED BY <2>1, <2>2, <2>3
  <1>3. CASE Leave(r)
    <2>1. TypeOK' BY <1>3 DEF TypeOK, Leave, storeVars, writerVars, evictorVars
    <2>2. WorkInv' /\ LockInv'
      BY <1>3 DEF TypeOK, WorkInv, LockInv, Leave, writerVars, evictorVars
    <2>3. RefsMatchHolders' BY <1>3, NoPin DEF Leave, TypeOK
    <2>4. QED BY <2>1, <2>2, <2>3
  <1>4. CASE Acquire(r)
    <2>1. TypeOK' /\ rblk[r] \in Blocks
      BY <1>4 DEF TypeOK, WorkInv, Acquire, storeVars, writerVars, evictorVars
    <2>2. WorkInv' /\ LockInv'
      BY <1>4 DEF TypeOK, WorkInv, LockInv, Acquire, writerVars, evictorVars
    <2>3. ASSUME NEW b \in Blocks PROVE refs'[b] = Cardinality(Holders(b)')
      <3>0. Holders(b) \in SUBSET Readers /\ r \notin Holders(b)
        BY <1>4 DEF Holders, Acquire
      <3>1. Holders(b)' = IF b = rblk[r] THEN Holders(b) \cup {r} ELSE Holders(b)
        BY <1>4 DEF TypeOK, Holders, Acquire
      <3>2. Cardinality(Holders(b) \cup {r}) = Cardinality(Holders(b)) + 1
        BY <3>0, Counted, FS_AddElement
      <3>3. refs'[b] = IF b = rblk[r] THEN refs[b] + 1 ELSE refs[b]
        BY <1>4 DEF TypeOK, Acquire
      <3>4. QED BY <3>1, <3>2, <3>3 DEF RefsMatchHolders
    <2>4. QED BY <2>1, <2>2, <2>3 DEF RefsMatchHolders
  <1>5. CASE Release(r)
    <2>0. rblk[r] \in Blocks /\ r \in Holders(rblk[r])
      BY <1>5 DEF WorkInv, Release, Holders
    <2>1. refs[rblk[r]] # 0
      <3>1. Holders(rblk[r]) \in SUBSET Readers BY DEF Holders
      <3>2. Cardinality(Holders(rblk[r])) # 0 BY <3>1, <2>0, Counted, FS_EmptySet
      <3>3. QED BY <3>2, <2>0 DEF RefsMatchHolders
    <2>2. TypeOK' BY <1>5, <2>0, <2>1 DEF TypeOK, Release, storeVars, writerVars, evictorVars
    <2>3. WorkInv' /\ LockInv'
      BY <1>5 DEF TypeOK, WorkInv, LockInv, Release, writerVars, evictorVars
    <2>4. ASSUME NEW b \in Blocks PROVE refs'[b] = Cardinality(Holders(b)')
      <3>0. Holders(b) \in SUBSET Readers BY DEF Holders
      <3>1. Holders(b)' = IF b = rblk[r] THEN Holders(b) \ {r} ELSE Holders(b)
        BY <1>5 DEF TypeOK, Holders, Release
      <3>2. b = rblk[r] => Cardinality(Holders(b) \ {r}) = Cardinality(Holders(b)) - 1
        BY <3>0, <2>0, Counted, FS_RemoveElement
      <3>3. refs'[b] = IF b = rblk[r] THEN refs[b] - 1 ELSE refs[b]
        BY <1>5 DEF TypeOK, Release
      <3>4. QED BY <3>1, <3>2, <3>3 DEF RefsMatchHolders
    <2>5. QED BY <2>2, <2>3, <2>4 DEF RefsMatchHolders
  <1>6. QED BY <1>1, <1>2, <1>3, <1>4, <1>5 DEF Reader

\* The evictor's variables, but for the lock and the row in hand.
EvictorType ==
  /\ epc \in {"idle", "start", "measure", "list", "try", "enough"}
  /\ sweep \in {"water", "ttl"} /\ rows \in Seq(Blocks) /\ deleted \in BOOLEAN
  /\ cutoff \in Int /\ gaveUp \in {"boot", "drained", "pinned"}

LEMMA EndSweepType ==
  ASSUME TypeOK, NEW why \in {"drained", "pinned"}, EndSweep(why)
  PROVE  EvictorType'
  <1>1. /\ epc' = IF sweep = "water" /\ TTL > 0 THEN "measure" ELSE "idle"
        /\ rows' = << >> /\ deleted' = FALSE
    BY DEF EndSweep, Enter
  <1>2. sweep' = "ttl" /\ cutoff' = clock - TTL /\ cutoff' \in Int
    BY DEF EndSweep, TypeOK
  <1>3. gaveUp' = (IF sweep = "water" THEN why ELSE gaveUp)
        /\ gaveUp \in {"boot", "drained", "pinned"}
    BY DEF EndSweep, TypeOK
  <1>4. epc' \in {"idle", "measure"} BY <1>1
  <1>5. gaveUp' \in {"boot", "drained", "pinned"} BY <1>3
  <1>6. QED BY <1>1, <1>2, <1>4, <1>5, EmptyRows DEF EvictorType

\* A step of the evictor without the lock.
LEMMA Unlocked ==
  ASSUME RefsInv, EvictorType', UNCHANGED evictorRest, mu' = FALSE, signal' \in BOOLEAN
  PROVE  RefsInv'
  <1>1. TypeOK' BY DEF RefsInv, TypeOK, EvictorType, evictorRest, storeVars, writerVars, readerVars
  <1>2. WorkInv' /\ LockInv'
    BY DEF RefsInv, WorkInv, LockInv, EvictorType, evictorRest, writerVars, readerVars
  <1>3. RefsMatchHolders' BY PinsStay DEF RefsInv, evictorRest
  <1>4. QED BY <1>1, <1>2, <1>3 DEF RefsInv

LEMMA TryRows ==
  ASSUME RefsInv, epc = "try", rows # << >>
  PROVE  ~mu /\ Head(rows) \in Blocks /\ Tail(rows) \in Seq(Blocks)
  BY HeadAndTail DEF RefsInv, TypeOK, LockInv

LEMMA EvictorRefs ==
  ASSUME RefsInv, Evictor \/ TickerFires
  PROVE  RefsInv'
  <1> USE DEF RefsInv
  <1>1. CASE TakeSignal
    <2>1. rows' = << >> /\ deleted' = FALSE /\ epc' = "start" /\ cutoff' \in Int
      BY <1>1 DEF TakeSignal, Enter
    <2>2. EvictorType' BY <2>1, <1>1, EmptyRows DEF TypeOK, TakeSignal, EvictorType
    <2>3. mu' = FALSE /\ signal' \in BOOLEAN BY <1>1 DEF TypeOK, LockInv, TakeSignal
    <2>4. QED BY <2>2, <2>3, <1>1, Unlocked DEF TakeSignal
  <1>2. CASE Start
    <2>1. EvictorType'
      <3>1. CASE EndSweep("drained") BY <3>1, EndSweepType
      <3>2. CASE Enter("measure") /\ UNCHANGED <<sweep, cutoff, gaveUp>>
        BY <3>2, EmptyRows DEF TypeOK, Enter, EvictorType
      <3>3. QED BY <1>2, <3>1, <3>2 DEF Start
    <2>2. mu' = FALSE /\ signal' \in BOOLEAN BY <1>2 DEF TypeOK, LockInv, Start
    <2>3. QED BY <2>1, <2>2, <1>2, Unlocked DEF Start
  <1>3. CASE Measure
    <2>1. EvictorType'
      <3>1. CASE EndSweep("drained") BY <3>1, EndSweepType
      <3>2. CASE Enter("list") /\ UNCHANGED <<sweep, cutoff, gaveUp>>
        BY <3>2, EmptyRows DEF TypeOK, Enter, EvictorType
      <3>3. QED BY <1>3, <3>1, <3>2 DEF Measure
    <2>2. mu' = FALSE /\ signal' \in BOOLEAN BY <1>3 DEF TypeOK, LockInv, Measure
    <2>3. QED BY <2>1, <2>2, <1>3, Unlocked DEF Measure
  <1>4. CASE List
    <2> DEFINE S == IF sweep = "water" THEN stored ELSE Expired
    <2>1. EvictorType'
      <3>1. CASE EndSweep("drained") BY <3>1, EndSweepType
      <3>2. CASE rows' \in Listings(S) /\ epc' = "try" /\ UNCHANGED <<sweep, deleted, cutoff, gaveUp>>
        <4>1. S \in SUBSET Blocks BY DEF TypeOK, Expired
        <4>2. rows' \in Seq(Blocks) BY <3>2, <4>1, ListingRows
        <4>3. QED BY <3>2, <4>2 DEF TypeOK, EvictorType
      <3>3. QED BY <1>4, <3>1, <3>2 DEF List
    <2>2. mu' = FALSE /\ signal' \in BOOLEAN BY <1>4 DEF TypeOK, LockInv, List
    <2>3. QED BY <2>1, <2>2, <1>4, Unlocked DEF List
  <1>5. CASE TryEvict
    <2>0. /\ UNCHANGED evictorRest /\ signal' \in BOOLEAN
          /\ ~mu /\ Head(rows) \in Blocks /\ Tail(rows) \in Seq(Blocks)
          /\ epc = "try" /\ rows # << >> /\ UNCHANGED <<sweep, deleted, cutoff, gaveUp>>
      BY <1>5, TryRows DEF TypeOK, TryEvict
    <2>1. CASE rows' = Tail(rows) /\ UNCHANGED <<epc, mu>>
      <3>1. EvictorType' /\ mu' = FALSE BY <2>0, <2>1 DEF TypeOK, EvictorType
      <3>2. QED BY <3>1, <2>0, Unlocked
    <2>2. CASE refs[Head(rows)] = 0 /\ epc' = "delete" /\ mu' = TRUE /\ rows' = rows
      <3>1. TypeOK'
        BY <2>0, <2>2 DEF TypeOK, evictorRest, storeVars, writerVars, readerVars
      <3>2. WorkInv' /\ LockInv'
        BY <2>0, <2>2 DEF WorkInv, LockInv, evictorRest, writerVars, readerVars
      <3>3. RefsMatchHolders' BY <2>0, PinsStay DEF evictorRest
      <3>4. QED BY <3>1, <3>2, <3>3
    <2>3. QED BY <1>5, <2>1, <2>2 DEF TryEvict
  <1>6. CASE Delete
    <2>1. Tail(rows) \in Seq(Blocks)
      BY <1>6, HeadAndTail DEF TypeOK, LockInv, Delete
    <2>2. TypeOK'
      BY <1>6, <2>1 DEF TypeOK, Delete, writerVars, readerVars
    <2>3. WorkInv' /\ LockInv'
      BY <1>6 DEF TypeOK, WorkInv, LockInv, Delete, writerVars, readerVars
    <2>4. RefsMatchHolders' BY <1>6, PinsStay DEF Delete
    <2>5. QED BY <2>2, <2>3, <2>4
  <1>7. CASE Enough
    <2>1. EvictorType'
      <3>1. CASE Enter("measure")
        BY <1>7, <3>1, EmptyRows DEF TypeOK, Enough, Enter, EvictorType
      <3>2. CASE epc' = "try" /\ UNCHANGED <<rows, deleted>>
        BY <1>7, <3>2 DEF TypeOK, Enough, EvictorType
      <3>3. QED BY <1>7, <3>1, <3>2 DEF Enough
    <2>2. mu' = FALSE /\ signal' \in BOOLEAN BY <1>7 DEF TypeOK, LockInv, Enough
    <2>3. QED BY <2>1, <2>2, <1>7, Unlocked DEF Enough
  <1>8. CASE Exhausted
    <2>1. EvictorType'
      <3>1. CASE EndSweep("pinned") BY <3>1, EndSweepType
      <3>2. CASE Enter("measure") /\ UNCHANGED <<sweep, cutoff, gaveUp>>
        BY <3>2, EmptyRows DEF TypeOK, Enter, EvictorType
      <3>3. QED BY <1>8, <3>1, <3>2 DEF Exhausted
    <2>2. mu' = FALSE /\ signal' \in BOOLEAN BY <1>8 DEF TypeOK, LockInv, Exhausted
    <2>3. QED BY <2>1, <2>2, <1>8, Unlocked DEF Exhausted
  <1>9. CASE TickerFires
    <2>1. rows' = << >> /\ deleted' = FALSE /\ epc' = "measure" /\ cutoff' \in Int
      BY <1>9 DEF TypeOK, TickerFires, Enter
    <2>2. EvictorType' BY <2>1, <1>9, EmptyRows DEF TypeOK, TickerFires, EvictorType
    <2>3. mu' = FALSE /\ signal' \in BOOLEAN BY <1>9 DEF TypeOK, LockInv, TickerFires
    <2>4. QED BY <2>2, <2>3, <1>9, Unlocked DEF TickerFires
  <1>10. QED BY <1>1, <1>2, <1>3, <1>4, <1>5, <1>6, <1>7, <1>8, <1>9 DEF Evictor

LEMMA CrashRefs ==
  ASSUME RefsInv, Crash
  PROVE  RefsInv'
  <1> USE DEF RefsInv
  <1>0. rows' = << >> /\ deleted' = FALSE /\ epc' = "idle" /\ cutoff' \in Int
    BY DEF Crash, Enter
  <1>a. /\ refs' \in [Blocks -> Nat]
        /\ wblk' \in [Writers -> Blocks \cup {NoBlock}]
        /\ rblk' \in [Readers -> Blocks \cup {NoBlock}]
        /\ wpc' \in [Writers -> {"idle", "insert", "signal"}]
        /\ rpc' \in [Readers -> {"idle", "touch", "got", "held"}]
    BY DEF Crash
  <1>b. /\ mu' = FALSE /\ signal' = FALSE /\ sweep' = "water" /\ gaveUp' = "boot"
        /\ crashes' \in Nat /\ UNCHANGED <<storeVars, puts>>
    BY DEF TypeOK, Crash
  <1>1. TypeOK' BY <1>0, <1>a, <1>b, EmptyRows DEF TypeOK, storeVars
  <1>2. WorkInv' /\ LockInv' BY DEF WorkInv, LockInv, Crash, Enter
  <1>3. \A b \in Blocks : Holders(b)' = {} BY DEF Crash, Holders
  <1>4. RefsMatchHolders' BY <1>3, FS_EmptySet DEF Crash, RefsMatchHolders
  <1>5. QED BY <1>1, <1>2, <1>4

LEMMA TickRefs ==
  ASSUME RefsInv, Tick \/ UNCHANGED vars
  PROVE  RefsInv'
  <1> USE DEF RefsInv
  <1>1. TypeOK'
    BY DEF TypeOK, Tick, vars, writerVars, readerVars, evictorVars
  <1>2. WorkInv' /\ LockInv'
    BY DEF WorkInv, LockInv, Tick, vars, writerVars, readerVars, evictorVars
  <1>3. RefsMatchHolders' BY PinsStay DEF Tick, vars, readerVars
  <1>4. QED BY <1>1, <1>2, <1>3

LEMMA RefsStep == RefsInv /\ [Next]_vars => RefsInv'
  BY WriterRefs, ReaderRefs, EvictorRefs, CrashRefs, TickRefs DEF Next

LEMMA RefsAlways == Spec => []RefsInv
  BY InitRefs, RefsStep, PTL DEF Spec

-----------------------------------------------------------------------------
(* What a step does to the table.                                          *)

\* Only Delete takes a row away, and only the one at hand.
LEMMA OnlyDelete ==
  ASSUME RefsInv, [Next]_vars
  PROVE  stored \subseteq stored' \/ (Delete /\ stored' = stored \ {Head(rows)})
  <1>1. CASE Tick BY <1>1 DEF Tick
  <1>2. CASE TickerFires BY <1>2 DEF TickerFires, evictorRest, storeVars
  <1>3. CASE Crash BY <1>3 DEF Crash, storeVars
  <1>4. CASE Evictor
    BY <1>4 DEF Evictor, TakeSignal, Start, Measure, List, TryEvict, Delete, Enough, Exhausted,
       evictorRest, storeVars
  <1>5. ASSUME NEW w \in Writers, Writer(w) PROVE stored \subseteq stored'
    BY <1>5 DEF Writer, PutCheck, PutInsert, PutSignal, storeVars
  <1>6. ASSUME NEW r \in Readers, Reader(r) PROVE stored \subseteq stored'
    BY <1>6 DEF Reader, Select, Touch, Leave, Acquire, Release, storeVars
  <1>7. CASE UNCHANGED vars BY <1>7 DEF vars
  <1>8. QED BY <1>1, <1>2, <1>3, <1>4, <1>5, <1>6, <1>7 DEF Next

LEMMA PinnedStep ==
  ASSUME RefsInv, [Next]_vars, NEW b \in stored, Holders(b) # {}
  PROVE  b \in stored'
  <1>1. CASE Delete
    <2>1. refs[Head(rows)] = 0 /\ stored' = stored \ {Head(rows)}
      BY <1>1 DEF RefsInv, LockInv, Delete
    <2>2. b \in Blocks /\ Holders(b) \in SUBSET Readers BY DEF RefsInv, TypeOK, Holders
    <2>3. refs[b] # 0 BY <2>2, Counted, FS_EmptySet DEF RefsInv, RefsMatchHolders
    <2>4. QED BY <2>1, <2>3
  <1>2. QED BY <1>1, OnlyDelete

-----------------------------------------------------------------------------
(* The bound on the size: puts past the check count as stored.             *)

Inserting == {w \in Writers : wpc[w] = "insert"}

SizeInv == TotalSize + Cardinality(Inserting) <= Limit - 1 + Cardinality(Writers)

LEMMA LimitPositive == Limit \in Nat /\ Limit >= 1
  BY DEF Limit

LEMMA SizesNat ==
  ASSUME TypeOK
  PROVE  /\ TotalSize \in Nat /\ IsFiniteSet(stored)
         /\ Inserting \in SUBSET Writers /\ Cardinality(Inserting) \in Nat
         /\ Cardinality(Inserting) <= Cardinality(Writers) /\ Cardinality(Writers) \in Nat
  <1>1. Inserting \in SUBSET Writers BY DEF Inserting
  <1>2. QED BY <1>1, Counted, FS_CardinalityType DEF TotalSize, TypeOK

\* Fewer rows, and no more writers that are about to insert.
LEMMA Shrinks ==
  ASSUME TypeOK, TypeOK', SizeInv, stored' \subseteq stored, Inserting' \subseteq Inserting
  PROVE  SizeInv'
  <1>1. TotalSize' <= TotalSize BY SizesNat, FS_Subset DEF TotalSize
  <1>2. Cardinality(Inserting') <= Cardinality(Inserting)
    <2>1. IsFiniteSet(Inserting) BY SizesNat, Counted
    <2>2. QED BY <2>1, FS_Subset
  <1>3. TotalSize' \in Nat /\ Cardinality(Inserting') \in Nat BY Counted DEF TypeOK, TotalSize, Inserting
  <1>4. QED BY <1>1, <1>2, <1>3, SizesNat, LimitPositive DEF SizeInv

LEMMA SizeInit == Init => SizeInv
  <1> SUFFICES ASSUME Init PROVE SizeInv OBVIOUS
  <1>1. Inserting = {} /\ stored = {} BY DEF Init, Inserting
  <1>2. Cardinality(Writers) \in Nat BY FS_CardinalityType
  <1>3. QED BY <1>1, <1>2, FS_EmptySet, LimitPositive DEF SizeInv, TotalSize

LEMMA SizeStep ==
  ASSUME RefsInv, RefsInv', SizeInv, [Next]_vars
  PROVE  SizeInv'
  <1>0. TypeOK /\ TypeOK' BY DEF RefsInv
  <1>1. ASSUME NEW w \in Writers, NEW b \in Blocks, PutCheck(w, b) PROVE SizeInv'
    <2>1. stored' = stored /\ TotalSize < Limit BY <1>1 DEF PutCheck, storeVars
    <2>2. Inserting' \in SUBSET Writers BY DEF Inserting
    <2>3. Cardinality(Inserting') <= Cardinality(Writers) /\ Cardinality(Inserting') \in Nat
      BY <2>2, Counted
    <2>4. TotalSize' = TotalSize BY <2>1 DEF TotalSize
    <2>5. QED BY <2>1, <2>3, <2>4, <1>0, SizesNat, LimitPositive DEF SizeInv
  <1>2. ASSUME NEW w \in Writers, PutInsert(w) PROVE SizeInv'
    <2>1. stored' = stored \cup {wblk[w]} /\ w \in Inserting /\ Inserting' = Inserting \ {w}
      BY <1>2, <1>0 DEF PutInsert, TypeOK, Inserting
    <2>2. TotalSize' <= TotalSize + 1 /\ TotalSize' \in Nat
      <3>1. IsFiniteSet(stored) /\ TotalSize \in Nat BY <1>0, SizesNat
      <3>2. TotalSize' = Cardinality(stored \cup {wblk[w]}) BY <2>1 DEF TotalSize
      <3>3. Cardinality(stored \cup {wblk[w]}) =
              IF wblk[w] \in stored THEN Cardinality(stored) ELSE Cardinality(stored) + 1
        BY <3>1, FS_AddElement
      <3>4. QED BY <3>1, <3>2, <3>3 DEF TotalSize
    <2>3. Cardinality(Inserting') = Cardinality(Inserting) - 1
      <3>1. IsFiniteSet(Inserting) BY <1>0, SizesNat, Counted
      <3>2. QED BY <3>1, <2>1, FS_RemoveElement
    <2>4. QED BY <2>2, <2>3, <1>0, SizesNat, LimitPositive DEF SizeInv
  <1>3. ASSUME stored' \subseteq stored, Inserting' \subseteq Inserting PROVE SizeInv'
    BY <1>3, <1>0, Shrinks
  <1>4. ASSUME NEW w \in Writers, PutSignal(w)
        PROVE  stored' \subseteq stored /\ Inserting' \subseteq Inserting
    BY <1>4, <1>0 DEF PutSignal, storeVars, TypeOK, Inserting
  <1>5. ASSUME NEW r \in Readers, Reader(r)
        PROVE  stored' \subseteq stored /\ Inserting' \subseteq Inserting
    BY <1>5 DEF Reader, Select, Touch, Leave, Acquire, Release, storeVars, writerVars, Inserting
  <1>6. CASE Evictor \/ TickerFires
    BY <1>6, <1>3 DEF Evictor, TakeSignal, Start, Measure, List, TryEvict, Delete, Enough,
       Exhausted, TickerFires, evictorRest, storeVars, writerVars, Inserting
  <1>7. CASE Crash
    BY <1>7, <1>3 DEF Crash, storeVars, Inserting
  <1>8. CASE Tick \/ UNCHANGED vars
    BY <1>8, <1>3 DEF Tick, vars, writerVars, Inserting
  <1>9. QED BY <1>1, <1>2, <1>3, <1>4, <1>5, <1>6, <1>7, <1>8 DEF Next, Writer

-----------------------------------------------------------------------------
(* The signals.  While a sweep of the watermarks runs it will look at the  *)
(* size itself; in every other place a signal has to be there.             *)

SignalInv ==
  TotalSize >= High =>
    \/ signal \/ gaveUp \in {"pinned", "boot"}
    \/ \E w \in Writers : wpc[w] = "signal"
    \/ epc # "idle" /\ sweep = "water"

LEMMA SignalInit == Init => SignalInv
  BY DEF Init, SignalInv

LEMMA SignalStep ==
  ASSUME RefsInv, RefsInv', SignalInv, [Next]_vars, Low <= High, High > 0
  PROVE  SignalInv'
  <1>0. TypeOK /\ TotalSize \in Nat BY SizesNat DEF RefsInv
  <1>1. ASSUME NEW w \in Writers, NEW b \in Blocks, PutCheck(w, b) PROVE SignalInv'
    <2>1. \A v \in Writers : wpc[v] = "signal" => wpc'[v] = "signal"
      BY <1>1, <1>0 DEF PutCheck, TypeOK
    <2>2. QED BY <1>1, <2>1 DEF PutCheck, storeVars, evictorVars, SignalInv, TotalSize
  <1>2. ASSUME NEW w \in Writers, PutInsert(w) PROVE SignalInv'
    <2>1. wpc'[w] = "signal" BY <1>2, <1>0 DEF PutInsert, TypeOK
    <2>2. QED BY <2>1 DEF SignalInv
  <1>3. ASSUME NEW w \in Writers, PutSignal(w) PROVE SignalInv'
    BY <1>3 DEF PutSignal, SignalInv
  <1>4. ASSUME NEW r \in Readers, Reader(r) PROVE SignalInv'
    BY <1>4 DEF Reader, Select, Touch, Leave, Acquire, Release, storeVars, writerVars, evictorVars,
       SignalInv, TotalSize
  <1>5. CASE TakeSignal BY <1>5 DEF TakeSignal, Enter, SignalInv
  <1>6. ASSUME EndSweep("drained"), UNCHANGED <<evictorRest, signal>>,
               sweep = "water" => TotalSize < High
        PROVE  SignalInv'
    <2>1. CASE sweep = "water"
      BY <1>6, <2>1, <1>0 DEF evictorRest, storeVars, SignalInv, TotalSize
    <2>2. CASE sweep # "water"
      BY <1>6, <2>2 DEF EndSweep, evictorRest, storeVars, writerVars, SignalInv, TotalSize
    <2>3. QED BY <2>1, <2>2
  <1>7. ASSUME epc # "idle", epc' # "idle", UNCHANGED <<evictorRest, signal, sweep, gaveUp>>
        PROVE  SignalInv'
    BY <1>7 DEF evictorRest, storeVars, writerVars, SignalInv, TotalSize
  <1>8. CASE Start
    <2>1. CASE TotalSize < High /\ EndSweep("drained") BY <1>8, <2>1, <1>6 DEF Start
    <2>2. CASE Enter("measure") /\ UNCHANGED <<sweep, cutoff, gaveUp>>
      BY <1>8, <2>2, <1>7 DEF Start, Enter
    <2>3. QED BY <1>8, <2>1, <2>2 DEF Start
  <1>9. CASE Measure
    <2>1. CASE TotalSize < Low /\ EndSweep("drained") BY <1>9, <2>1, <1>6, <1>0 DEF Measure
    <2>2. CASE Enter("list") /\ UNCHANGED <<sweep, cutoff, gaveUp>>
      BY <1>9, <2>2, <1>7 DEF Measure, Enter
    <2>3. QED BY <1>9, <2>1, <2>2 DEF Measure
  <1>10. CASE List
    <2>1. CASE (sweep = "water" => stored = {}) /\ EndSweep("drained")
      <3>1. sweep = "water" => TotalSize < High BY <2>1, FS_EmptySet DEF TotalSize
      <3>2. QED BY <1>10, <2>1, <3>1, <1>6 DEF List
    <2>2. CASE epc' = "try" /\ UNCHANGED <<sweep, gaveUp>>
      BY <1>10, <2>2, <1>7 DEF List
    <2>3. QED BY <1>10, <2>1, <2>2 DEF List
  <1>11. CASE TryEvict \/ Enough
    BY <1>11, <1>7 DEF TryEvict, Enough, Enter
  <1>12. CASE Delete
    <2>1. TotalSize' <= TotalSize /\ TotalSize' \in Nat
      <3>1. IsFiniteSet(stored) /\ TotalSize' \in Nat BY SizesNat, Counted DEF RefsInv, TypeOK, TotalSize
      <3>2. stored' \in SUBSET stored BY <1>12 DEF Delete
      <3>3. QED BY <3>1, <3>2, FS_Subset DEF TotalSize
    <2>2. epc # "idle" /\ epc' # "idle" BY <1>12 DEF Delete
    <2>3. QED BY <1>12, <2>1, <2>2, <1>0 DEF Delete, writerVars, SignalInv
  <1>13. CASE Exhausted
    <2>1. CASE EndSweep("pinned")
      BY <1>13, <2>1 DEF Exhausted, EndSweep, evictorRest, storeVars, writerVars, SignalInv, TotalSize
    <2>2. CASE Enter("measure") /\ UNCHANGED <<sweep, cutoff, gaveUp>>
      BY <1>13, <2>2, <1>7 DEF Exhausted, Enter
    <2>3. QED BY <1>13, <2>1, <2>2 DEF Exhausted
  <1>14. CASE TickerFires
    BY <1>14 DEF TickerFires, evictorRest, storeVars, writerVars, SignalInv, TotalSize
  <1>15. CASE Crash BY <1>15 DEF Crash, SignalInv
  <1>16. CASE Tick \/ UNCHANGED vars
    BY <1>16 DEF Tick, vars, writerVars, evictorVars, SignalInv, TotalSize
  <1>17. QED
    BY <1>1, <1>2, <1>3, <1>4, <1>5, <1>8, <1>9, <1>10, <1>11, <1>12, <1>13, <1>14, <1>15, <1>16
    DEF Next, Writer, Evictor

-----------------------------------------------------------------------------
(* The theorems.                                                           *)

\* Every variable keeps its type; a reference count is never negative (Release).
THEOREM TypeCorrect == Spec => []TypeOK
  BY RefsAlways, PTL DEF RefsInv

\* A block's count is the number of responses that hold it, for every number of blocks and
\* readers and however they overlap (Acquire, its ReleaseFunc).
THEOREM CountsAreHolders == Spec => []RefsMatchHolders
  BY RefsAlways, PTL DEF RefsInv

\* The evictor never deletes a block that a response holds (tryEvict under refsMu).
THEOREM PinsProtect == Spec => PinnedStays
  <1>1. RefsInv /\ [Next]_vars
          => [\A b \in stored : Holders(b) # {} /\ crashes' = crashes => b \in stored']_vars
    BY PinnedStep
  <1>2. QED BY <1>1, RefsAlways, PTL DEF Spec, PinnedStays

\* The table overshoots the stop limit by at most one block per concurrent writer (Put).
THEOREM SizeBounded == Spec => []Bounded
  <1>1. RefsInv /\ SizeInv => Bounded
    BY SizesNat, LimitPositive DEF RefsInv, SizeInv, Bounded
  <1>2. RefsInv /\ RefsInv' /\ SizeInv /\ [Next]_vars => SizeInv' BY SizeStep
  <1>3. QED BY <1>1, <1>2, SizeInit, RefsAlways, PTL DEF Spec

\* With watermarks that make sense (LOW not above HIGH, HIGH not zero: the code reads both
\* from the environment unchecked) no eviction signal is lost: the one-token channel
\* drops only those that are not needed (Put, StartEvictor).
THEOREM SignalsSuffice ==
  ASSUME Low <= High, High > 0
  PROVE  Spec => []NoLostSignal
  <1>1. SignalInv => NoLostSignal BY DEF SignalInv, NoLostSignal
  <1>2. RefsInv /\ RefsInv' /\ SignalInv /\ [Next]_vars => SignalInv' BY SignalStep
  <1>3. QED BY <1>1, <1>2, SignalInit, RefsAlways, PTL DEF Spec
=============================================================================
