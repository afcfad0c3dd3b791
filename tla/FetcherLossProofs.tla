-------------------------- MODULE FetcherLossProofs --------------------------
(***************************************************************************)
(* A fetch loses no block and never waits for itself: whatever the order   *)
(* in which its workers, the goroutine in wg.Wait and the client act, a    *)
(* body that ends early without an error was given a short block, and      *)
(* until all is over somebody can go on.  The first invariant says where   *)
(* each block of the range is: pending, in the reader, read, or cut by a   *)
(* source; the second who has the next step.                               *)
(***************************************************************************)
EXTENDS FetcherProofs

USE SizesAssumption

Lossless == GoneInv /\ ShortInv /\ DoneInv /\ AheadInv /\ ReaderDropsConsumed

\* The reader has not gone back.
LEMMA Advanced ==
  ASSUME Streaming
  PROVE  /\ range \in Ranges /\ Start \in Nat /\ End \in Nat
         /\ nextOff \in Nat /\ Start <= nextOff
  <1>1. range \in Ranges /\ nextOff \in Nat /\ out \in Seq(Nat)
    BY DEF Streaming, TypeOK, PlanType, ReaderType, ClientType
  <1>2. Start \in Nat /\ End \in Nat BY <1>1, RangeEnds
  <1>3. Len(out) \in Nat BY <1>1
  <1>4. Len(out) = nextOff - Start BY DEF Streaming, DataInv
  <1>5. QED BY <1>1, <1>2, <1>3, <1>4

\* The block the reader needs is one of the fetch, and its bytes are not read yet.
LEMMA WaitedUnread ==
  ASSUME Streaming, nextOff <= End
  PROVE  /\ KeyFor(nextOff) \in Offs /\ KeyFor(nextOff) \in Aligned
         /\ KeyFor(nextOff) \in Nat /\ KeyFor(nextOff) <= nextOff
         /\ nextOff < KeyFor(nextOff) + BlockSize
         /\ ~(nextOff > Least(KeyFor(nextOff) + BlockSize - 1, End))
  <1>1. KeyFor(nextOff) \in Offs BY Advanced, WaitedInOffs
  <1>2. KeyFor(nextOff) \in Nat /\ KeyFor(nextOff) <= nextOff /\ nextOff < KeyFor(nextOff) + BlockSize
    BY Advanced, KeyForBounds
  <1>3. ~(nextOff > Least(KeyFor(nextOff) + BlockSize - 1, End))
    BY <1>2, Advanced DEF Least
  <1>4. QED BY <1>1, <1>2, <1>3 DEF Offs

-----------------------------------------------------------------------------
(* Shares. *)

LEMMA OffsFinite == IsFiniteSet(Offs) /\ Cardinality(Offs) \in Nat
  <1>1. IsFiniteSet(0..MaxOff) BY FS_Interval
  <1>2. Offs \subseteq 0..MaxOff BY DEF Offs, Aligned, Offsets
  <1>3. IsFiniteSet(Offs) BY <1>1, <1>2, FS_Subset
  <1>4. QED BY <1>3, FS_CardinalityType

\* There are as many workers as the plan says at most, and one if there is a block.
LEMMA WorkersDecided ==
  ASSUME TypeOK
  PROVE  decideN \in 0..MaxWorkers /\ (Offs # {} => decideN >= 1)
  <1>1. planN \in 1..MaxWorkers BY DEF TypeOK, PlanType, Workers
  <1>2. Offs # {} => Cardinality(Offs) # 0 BY OffsFinite, FS_EmptySet
  <1>3. QED BY <1>1, <1>2, OffsFinite DEF decideN, Least

\* Every block after the first is somebody's.
LEMMA Dealt ==
  ASSUME range \in Ranges, NEW n \in Nat, n >= 1, NEW o \in Offs, o # KeyFor(Start)
  PROVE  \E w \in 1..n : o \in Assigned(w, n)
  <1> DEFINE d == o - KeyFor(Start)
             i == d \div BlockSize - 1
             w == (i % n) + 1
  <1>1. d \in Nat
    <2>1. KeyFor(Start) \in Nat BY RangeEnds, KeyForBounds
    <2>2. QED BY <2>1 DEF Offs, Aligned, Offsets
  <1>2. i \in Int
    <2>1. d \div BlockSize \in Nat BY <1>1, Division
    <2>2. QED BY <2>1
  <1> HIDE DEF i
  <1>3. i % n \in 0..(n - 1) BY <1>2
  <1>4. w \in 1..n /\ i % n = w - 1 BY <1>3
  <1>5. o \in Assigned(w, n) BY <1>4 DEF Assigned, i
  <1>6. QED BY <1>4, <1>5

\* And nobody else's.
LEMMA DealtOnce ==
  ASSUME NEW n \in Nat, NEW v \in 1..n, NEW w \in 1..n, v # w
  PROVE  Assigned(v, n) \cap Assigned(w, n) = {}
  BY DEF Assigned

-----------------------------------------------------------------------------
LEMMA InitLossless == Init => Lossless
  <1> SUFFICES ASSUME Init PROVE Lossless OBVIOUS
  <1>1. GoneInv /\ AheadInv /\ ReaderDropsConsumed
    BY DEF Init, GoneInv, AheadInv, ReaderDropsConsumed
  <1>2. ShortInv BY DEF Init, ShortInv
  <1>3. DoneInv BY ThreadNames DEF Init, DoneInv
  <1>4. QED BY <1>1, <1>2, <1>3 DEF Lossless

\* A goroutine goes on, or gives up, and touches neither blocks nor reader.
LEMMA MoveLossless ==
  ASSUME TypeOK, Lossless, NEW t \in Threads, pc[t] \in {"lookup", "try", "asked"},
         NEW p \in {"try", "asked", "fail", "done"}, p = "done" => t = Caller,
         pc' = [pc EXCEPT ![t] = p],
         UNCHANGED <<range, todo, waiter, nextOff, blocks, closed, err, rpc, cut>>
  PROVE  Lossless'
  <1>1. \A w \in Workers : pc'[w] = IF w = t THEN p ELSE pc[w]
    BY ThreadNames DEF TypeOK, ThreadType
  <1>2. GoneInv' BY DEF Lossless, GoneInv, Offs, Start, End
  <1>3. ShortInv' BY DEF Lossless, ShortInv, Want, End
  <1>4. DoneInv' BY <1>1, ThreadNames DEF Lossless, DoneInv
  <1>5. AheadInv' BY <1>1, ThreadNames DEF Lossless, AheadInv
  <1>6. ReaderDropsConsumed' BY DEF Lossless, ReaderDropsConsumed
  <1>7. QED BY <1>2, <1>3, <1>4, <1>5, <1>6 DEF Lossless

LEMMA LaunchLossless ==
  ASSUME Streaming, Lossless, pc[Caller] \in {"lookup", "asked"}, NEW d \in Data,
         cut' = (cut \/ d.len < Want(KeyFor(Start))), KeyFor(Start) \in Aligned,
         Launch(KeyFor(Start), d)
  PROVE  Lossless'
  <1> DEFINE first == KeyFor(Start)  n == decideN
  <1>1. /\ range \in Ranges /\ Start \in Nat /\ nextOff = Start
        /\ blocks = [o \in Aligned |-> NoBlock] /\ ~closed /\ ~err
    BY Advanced DEF Streaming, Control, ProbeInv, Probing
  <1>2. /\ UNCHANGED <<range, nextOff, closed, err>> /\ waiter' = "wait" /\ rpc' = "call"
        /\ blocks' = [blocks EXCEPT ![first] = d]
        /\ todo' = [t \in Threads |-> IF t \in 1..n THEN Assigned(t, n) ELSE {}]
        /\ pc' = [t \in Threads |->
                   IF t \in 1..n /\ Assigned(t, n) # {} THEN "lookup" ELSE "done"]
    BY DEF Launch, planVars
  <1>3. n \in 0..MaxWorkers /\ (Offs # {} => n >= 1) BY WorkersDecided DEF Streaming
  <1>4. 1..n \subseteq Workers BY <1>3 DEF Workers
  <1>5. d # NoBlock BY NoBlockAssumption
  <1>6. first \in Nat /\ first <= Start /\ Start < first + BlockSize BY <1>1, KeyForBounds
  <1>7. \A w \in Workers : /\ todo'[w] = IF w \in 1..n THEN Assigned(w, n) ELSE {}
                           /\ pc'[w] \in {"lookup", "done"}
                           /\ pc'[w] = "done" => todo'[w] = {}
    BY <1>2, ThreadNames
  <1>8. \A o \in Aligned : blocks'[o] = IF o = first THEN d ELSE NoBlock BY <1>1, <1>2
  <1> HIDE DEF n
  <1>9. GoneInv'
    <2> SUFFICES ASSUME NEW o \in Offs
                 PROVE  (\E w \in Workers : o \in todo'[w]) \/ blocks'[o] # NoBlock
      BY <1>2 DEF GoneInv, Offs, Start, End
    <2>1. CASE o = first BY <2>1, <1>5, <1>8
    <2>2. CASE o # first
      <3>1. n \in Nat /\ n >= 1 BY <1>3
      <3>2. PICK w \in 1..n : o \in Assigned(w, n) BY <1>1, <2>2, <3>1, Dealt
      <3>3. QED BY <3>2, <1>4, <1>7
    <2>3. QED BY <2>1, <2>2
  <1>10. ShortInv'
    <2>1. \A o \in Aligned : blocks'[o] # NoBlock => cut' \/ blocks'[o].len >= Want(o)
      <3> SUFFICES ASSUME NEW o \in Aligned, blocks'[o] # NoBlock
                   PROVE  cut' \/ blocks'[o].len >= Want(o)
        OBVIOUS
      <3>1. o = first /\ blocks'[o] = d BY <1>8
      <3>2. d.len \in Int /\ Want(first) \in Int
        BY <1>6, Advanced DEF Data, Want, Least
      <3>3. CASE d.len < Want(first) BY <3>3, Zenon
      <3>4. CASE d.len >= Want(first) BY <3>1, <3>4, Zenon
      <3>5. QED BY <3>2, <3>3, <3>4
    <2>2. QED BY <1>2, <2>1 DEF Lossless, ShortInv, Want, End
  <1>11. DoneInv'
    <2>1. 1 \in Workers BY ThreadNames
    <2>2. pc'[1] \notin {"get", "stream", "close"} BY <1>7, <2>1
    <2>3. QED BY <1>1, <1>2, <1>7, <2>1, <2>2 DEF DoneInv
  <1>12. AheadInv'
    <2>1. ASSUME NEW w \in Workers, NEW o \in todo'[w]
          PROVE  blocks'[o] = NoBlock /\ o + BlockSize > nextOff'
      <3>1. o \in Assigned(w, n) BY <1>7, <2>1
      <3>2. o \in Aligned /\ o # first /\ first <= o BY <3>1 DEF Assigned, Offs
      <3>3. o \in Nat BY <3>2 DEF Aligned, Offsets
      <3>4. QED BY <1>1, <1>2, <1>6, <1>8, <3>2, <3>3
    <2>2. ASSUME NEW v \in Workers, NEW w \in Workers, v # w
          PROVE  todo'[v] \cap todo'[w] = {}
      <3>1. CASE v \in 1..n /\ w \in 1..n
        <4>1. n \in Nat BY <1>3
        <4>2. Assigned(v, n) \cap Assigned(w, n) = {} BY <2>2, <3>1, <4>1, DealtOnce
        <4>3. QED BY <1>7, <3>1, <4>2
      <3>2. CASE ~(v \in 1..n /\ w \in 1..n) BY <1>7, <3>2
      <3>3. QED BY <3>1, <3>2
    <2>3. pc'[1] \notin {"get", "stream", "close"} BY <1>7, ThreadNames
    <2>4. QED BY <2>1, <2>2, <2>3 DEF AheadInv
  <1>13. ReaderDropsConsumed' BY <1>1, <1>2, <1>6, <1>8 DEF ReaderDropsConsumed
  <1>14. QED BY <1>9, <1>10, <1>11, <1>12, <1>13 DEF Lossless

LEMMA WantInt ==
  ASSUME Streaming, NEW o \in Aligned
  PROVE  Want(o) \in Int /\ (o <= End => Want(o) >= 1)
  BY Advanced DEF Want, Least, Aligned, Offsets

\* A block d is in the reader, and cut remembers if it is short.
LEMMA StoreShort ==
  ASSUME Streaming, Lossless, NEW o \in Aligned, NEW d \in Data,
         blocks' = [blocks EXCEPT ![o] = d], cut' = (cut \/ d.len < Want(o)),
         UNCHANGED range
  PROVE  ShortInv'
  <1>1. ASSUME NEW x \in Aligned, blocks'[x] # NoBlock
        PROVE  cut' \/ blocks'[x].len >= Want(x)
    <2>1. CASE x # o
      <3>1. blocks'[x] = blocks[x]
        BY <2>1 DEF Streaming, TypeOK, ReaderType
      <3>2. cut \/ blocks[x].len >= Want(x) BY <1>1, <3>1 DEF Lossless, ShortInv
      <3>3. QED BY <3>1, <3>2, Zenon
    <2>2. CASE x = o
      <3>1. blocks'[x] = d BY <2>2 DEF Streaming, TypeOK, ReaderType
      <3>2. d.len \in Int /\ Want(o) \in Int BY WantInt DEF Data
      <3>3. CASE d.len < Want(o) BY <3>3, Zenon
      <3>4. CASE d.len >= Want(o) BY <2>2, <3>1, <3>4, Zenon
      <3>5. QED BY <3>2, <3>3, <3>4
    <2>3. QED BY <2>1, <2>2
  <1>2. (FileSize <= End => cut) /\ (cut => cut') BY Zenon DEF Lossless, ShortInv
  <1>3. QED BY <1>1, <1>2 DEF ShortInv, Want, End

LEMMA DeliverLossless ==
  ASSUME Streaming, Lossless, NEW t \in Workers, pc[t] \in {"lookup", "asked"},
         NEW o \in Aligned, NEW d \in Data, o \in todo[t],
         cut' = (cut \/ d.len < Want(o)), Deliver(t, o, d)
  PROVE  Lossless'
  <1>1. /\ UNCHANGED <<range, waiter, nextOff, closed, err>>
        /\ blocks' = [blocks EXCEPT ![o] = d] /\ rpc' = Woken
        /\ todo' = [todo EXCEPT ![t] = @ \ {o}]
        /\ pc' = [pc EXCEPT ![t] = IF todo[t] = {o} THEN "done" ELSE "lookup"]
    BY DEF Deliver, put, planVars
  <1>2. /\ todo'[t] = todo[t] \ {o}
        /\ \A w \in Workers : w # t => todo'[w] = todo[w]
        /\ \A w \in Workers : w # t => pc'[w] = pc[w]
        /\ pc'[t] \in {"done", "lookup"}
        /\ pc'[t] = "done" => todo'[t] = {}
    BY <1>1, ThreadNames DEF Streaming, TypeOK, ThreadType
  <1>3. \A x \in Aligned : blocks'[x] = IF x = o THEN d ELSE blocks[x]
    BY <1>1 DEF Streaming, TypeOK, ReaderType
  <1>4. d # NoBlock BY NoBlockAssumption
  <1>5. rpc # "none" /\ rpc' # "none"
    BY <1>1, ThreadNames DEF Streaming, Control, ClientInv, Woken
  <1>6. cut => cut' BY Zenon
  <1>7. GoneInv'
    <2> SUFFICES ASSUME NEW x \in Offs
                 PROVE  \/ \E w \in Workers : x \in todo'[w]
                        \/ blocks'[x] # NoBlock
                        \/ cut'
                        \/ nextOff > Least(x + BlockSize - 1, End)
      BY <1>1 DEF GoneInv, Offs, Start, End
    <2>1. x \in Aligned BY DEF Offs
    <2>2. CASE x = o BY <1>3, <1>4, <2>1, <2>2
    <2>3. CASE x # o
      <3>1. \/ \E w \in Workers : x \in todo[w]
            \/ blocks[x] # NoBlock
            \/ cut
            \/ nextOff > Least(x + BlockSize - 1, End)
        BY <1>5 DEF Lossless, GoneInv
      <3>2. \A w \in Workers : x \in todo[w] => x \in todo'[w] BY <1>2, <2>3, Zenon
      <3>3. blocks'[x] = blocks[x] BY <1>3, <2>1, <2>3
      <3>4. QED BY <1>6, <3>1, <3>2, <3>3, Zenon
    <2>4. QED BY <2>2, <2>3
  <1>8. ShortInv' BY <1>1, StoreShort
  <1>9. DoneInv'
    <2>1. pc'[1] \notin {"get", "stream", "close"}
      BY <1>2, ThreadNames DEF Lossless, DoneInv
    <2>2. closed /\ ~err /\ rpc' # "closed" => \A w \in Workers : todo'[w] = {}
      BY <1>1, <1>2 DEF Woken, Lossless, DoneInv
    <2>3. \A w \in Workers : pc'[w] = "done" => todo'[w] = {} \/ err
      BY <1>2 DEF Lossless, DoneInv
    <2>4. QED BY <1>1, <2>1, <2>2, <2>3 DEF DoneInv
  <1>10. AheadInv'
    <2> SUFFICES ASSUME waiter # "off"
                 PROVE /\ \A w \in Workers : \A x \in todo'[w] :
                            blocks'[x] = NoBlock /\ x + BlockSize > nextOff
                       /\ \A v, w \in Workers : v # w => todo'[v] \cap todo'[w] = {}
                       /\ pc'[1] \notin {"get", "stream", "close"}
      BY <1>1 DEF AheadInv
    <2>1. \A w \in Workers : \A x \in todo[w] : blocks[x] = NoBlock /\ x + BlockSize > nextOff
      BY DEF Lossless, AheadInv
    <2>2. \A v, w \in Workers : v # w => todo[v] \cap todo[w] = {}
      BY DEF Lossless, AheadInv
    <2>3. ASSUME NEW w \in Workers, NEW x \in todo'[w]
          PROVE  blocks'[x] = NoBlock /\ x + BlockSize > nextOff
      <3>1. x \in todo[w] /\ x # o BY <1>2, <2>2, <2>3
      <3>2. x \in Aligned
        BY <3>1, ThreadNames DEF Streaming, TypeOK, ThreadType
      <3>3. QED BY <1>3, <2>1, <3>1, <3>2
    <2>4. \A v, w \in Workers : v # w => todo'[v] \cap todo'[w] = {} BY <1>2, <2>2
    <2>5. pc'[1] \notin {"get", "stream", "close"}
      BY <1>2, ThreadNames DEF Lossless, AheadInv
    <2>6. QED BY <2>3, <2>4, <2>5
  <1>11. ReaderDropsConsumed'
    BY <1>1, <1>3 DEF Lossless, AheadInv, ReaderDropsConsumed
  <1>12. QED BY <1>7, <1>8, <1>9, <1>10, <1>11 DEF Lossless

LEMMA ObtainedLossless ==
  ASSUME Streaming, Lossless, NEW t \in Threads, pc[t] \in {"lookup", "asked"},
         NEW o \in Aligned, NEW d \in Data, o \in todo[t], Obtained(t, o, d)
  PROVE  Lossless'
  <1>1. cut' = (cut \/ d.len < Want(o)) BY DEF Obtained
  <1>2. CASE t = Caller /\ Launch(o, d)
    <2>1. o = KeyFor(Start) BY <1>2 DEF Streaming, Control, ProbeInv, Probing
    <2>2. QED BY <1>1, <1>2, <2>1, LaunchLossless
  <1>3. CASE t # Caller /\ Deliver(t, o, d)
    BY <1>1, <1>3, ThreadNames, DeliverLossless
  <1>4. QED BY <1>2, <1>3 DEF Obtained

LEMMA Answer200Lossless ==
  ASSUME Streaming, Lossless, pc[Caller] = "asked", Answer200(Caller)
  PROVE  Lossless'
  <1>1. /\ UNCHANGED <<range, waiter, nextOff, blocks, closed, err, cut>> /\ rpc' = "call"
        /\ pc' = [u \in Threads |-> IF u = 1 THEN "get" ELSE "done"]
        /\ todo' = [u \in Threads |-> IF u = 1 THEN {o \in Aligned : o < FileSize} ELSE {}]
    BY DEF Answer200, planVars
  <1>2. waiter = "off" /\ ~closed BY DEF Streaming, Control, ProbeInv, Probing
  <1>3. 1 \in Workers /\ todo'[1] = {o \in Aligned : o < FileSize} /\ pc'[1] = "get"
    BY <1>1, ThreadNames
  <1>4. \A w \in Workers \ {1} : pc'[w] = "done" /\ todo'[w] = {} BY <1>1, ThreadNames
  <1>5. GoneInv'
    <2> SUFFICES ASSUME NEW x \in Offs PROVE x \in todo'[1] \/ cut
      BY <1>1, <1>3 DEF GoneInv, Offs, Start, End
    <2>1. x \in Aligned /\ x \in Int /\ x <= End BY DEF Offs, Aligned, Offsets
    <2>2. CASE x < FileSize BY <1>3, <2>1, <2>2
    <2>3. CASE ~(x < FileSize)
      <3>1. FileSize <= End BY <2>1, <2>3, Advanced
      <3>2. QED BY <3>1 DEF Lossless, ShortInv
    <2>4. QED BY <2>2, <2>3
  <1>6. ShortInv' BY <1>1 DEF Lossless, ShortInv, Want, End
  <1>7. DoneInv' BY <1>1, <1>2, <1>3, <1>4 DEF DoneInv
  <1>8. AheadInv' /\ ReaderDropsConsumed' BY <1>1, <1>2 DEF AheadInv, ReaderDropsConsumed
  <1>9. QED BY <1>5, <1>6, <1>7, <1>8 DEF Lossless

LEMMA FailLossless ==
  ASSUME Streaming, Lossless, NEW t \in Threads, fail(t)
  PROVE  Lossless'
  <1>1. /\ UNCHANGED <<range, todo, waiter, nextOff, blocks, cut>> /\ rpc' = Woken
        /\ err' = TRUE /\ pc[t] = "fail" /\ pc' = [pc EXCEPT ![t] = "done"]
    BY DEF fail, close, planVars
  <1>2. t \in Workers /\ rpc # "none"
    BY <1>1, ThreadNames DEF Streaming, Control, ProbeInv, ClientInv, Probing
  <1>3. \A w \in Workers : pc'[w] = IF w = t THEN "done" ELSE pc[w]
    BY <1>1, ThreadNames DEF Streaming, TypeOK, ThreadType
  <1>4. GoneInv' BY <1>1, <1>2 DEF Lossless, GoneInv, Offs, Start, End
  <1>5. ShortInv' BY <1>1 DEF Lossless, ShortInv, Want, End
  <1>6. DoneInv' BY <1>1, <1>3, ThreadNames DEF Lossless, DoneInv
  <1>7. AheadInv' BY <1>1, <1>3, ThreadNames DEF Lossless, AheadInv
  <1>8. ReaderDropsConsumed' BY <1>1 DEF Lossless, ReaderDropsConsumed
  <1>9. QED BY <1>4, <1>5, <1>6, <1>7, <1>8 DEF Lossless

LEMMA ThreadLossless ==
  ASSUME Streaming, Lossless, NEW t \in Threads, Thread(t)
  PROVE  Lossless'
  <1>0. TypeOK BY DEF Streaming
  <1>1. ASSUME GiveUp(t), pc[t] \in {"lookup", "try", "asked"}
        PROVE  Lossless'
    <2> DEFINE p == IF t = Caller THEN "done" ELSE "fail"
    <2>1. /\ pc' = [pc EXCEPT ![t] = p] /\ p \in {"try", "asked", "fail", "done"}
          /\ p = "done" => t = Caller
          /\ UNCHANGED <<range, todo, waiter, nextOff, blocks, closed, err, rpc, cut>>
      BY <1>1 DEF GiveUp, planVars
    <2> HIDE DEF p
    <2>2. QED BY <1>0, <1>1, <2>1, MoveLossless
  <1>2. ASSUME NEW o \in Aligned, Lookup(t, o) PROVE Lossless'
    <2>1. CASE cache[o] # NoBlock
      <3>1. cache[o] \in Data BY <1>0, <2>1 DEF TypeOK, PlanType
      <3>2. Obtained(t, o, cache[o]) /\ pc[t] = "lookup" /\ o \in todo[t]
        BY <1>2, <2>1 DEF Lookup, IsNext
      <3>3. QED BY <3>1, <3>2, ObtainedLossless
    <2>2. CASE cache[o] = NoBlock
      <3>1. /\ pc[t] = "lookup" /\ pc' = [pc EXCEPT ![t] = "try"]
            /\ UNCHANGED <<range, todo, waiter, nextOff, blocks, closed, err, rpc, cut>>
        BY <1>2, <2>2 DEF Lookup, planVars
      <3>2. QED BY <1>0, <3>1, MoveLossless
    <2>3. QED BY <2>1, <2>2
  <1>3. ASSUME NEW o \in Aligned, NEW k \in 0..BlockSize, Answer206(t, o, k) PROVE Lossless'
    <2>1. Obtained(t, o, Piece(o, k)) /\ pc[t] = "asked" /\ o \in todo[t]
      BY <1>3 DEF Answer206, IsNext
    <2>2. QED BY <2>1, PieceType, ObtainedLossless
  <1>4. CASE WorkerCancelled(t) BY <1>1, <1>4 DEF WorkerCancelled
  <1>5. CASE Attempt(t) \/ AnswerError(t)
    <2>1. pc[t] \in {"try", "asked"} BY <1>5 DEF Attempt, AnswerError
    <2>2. CASE GiveUp(t) BY <1>1, <2>1, <2>2
    <2>3. CASE ~GiveUp(t)
      <3>1. PICK p \in {"try", "asked"} : pc' = [pc EXCEPT ![t] = p]
        BY <1>5, <2>3 DEF Attempt, AnswerError
      <3>2. UNCHANGED <<range, todo, waiter, nextOff, blocks, closed, err, rpc, cut>>
        BY <1>5, <2>3 DEF Attempt, AnswerError, planVars
      <3>3. QED BY <1>0, <2>1, <3>1, <3>2, MoveLossless
    <2>4. QED BY <2>2, <2>3
  <1>6. CASE Answer200(t)
    <2>1. CASE t = Caller BY <1>6, <2>1, Answer200Lossless DEF Answer200
    <2>2. CASE t # Caller BY <1>1, <1>6, <2>2 DEF Answer200
    <2>3. QED BY <2>1, <2>2
  <1>7. CASE fail(t) BY <1>7, FailLossless
  <1>8. QED BY <1>2, <1>3, <1>4, <1>5, <1>6, <1>7 DEF Thread

-----------------------------------------------------------------------------
LEMMA WholeChunkLossless ==
  ASSUME Streaming, Lossless, NEW o \in Aligned, NEW k \in 0..BlockSize, WholeChunk(o, k)
  PROVE  Lossless'
  <1>1. /\ UNCHANGED <<range, waiter, nextOff, err, closed>> /\ pc[1] = "stream"
        /\ cut' = (cut \/ k < Want(o)) /\ o \in todo[1] /\ \A x \in todo[1] : o <= x
        /\ \/ k > 0 /\ blocks' = [blocks EXCEPT ![o] = Piece(o, k)] /\ rpc' = Woken
           \/ k = 0 /\ UNCHANGED <<blocks, rpc>>
    BY DEF WholeChunk, IsNext, put, wholeRest, planVars
  <1>2. 1 \in Workers /\ 1 \in Threads BY ThreadNames
  <1>3. /\ \A w \in Workers \ {1} : todo'[w] = todo[w] /\ pc'[w] = pc[w]
        /\ \/ k = BlockSize /\ todo'[1] = todo[1] \ {o} /\ pc'[1] = "stream"
           \/ k < BlockSize /\ todo'[1] = {} /\ pc'[1] = "close"
           \/ k < BlockSize /\ todo'[1] = todo[1] /\ pc'[1] = "fail"
    BY <1>1, <1>2, ThreadNames DEF WholeChunk, Streaming, TypeOK, ThreadType
  <1>4. waiter = "off" /\ \A w \in Workers \ {1} : pc[w] = "done"
    BY <1>1 DEF Lossless, AheadInv, DoneInv
  <1>5. rpc # "none" /\ rpc' # "none"
    BY <1>1, <1>2 DEF Streaming, Control, ClientInv, Woken
  <1>6. cut => cut' BY <1>1, Zenon
  <1>7. Piece(o, k) \in Data /\ Piece(o, k) # NoBlock BY PieceType, NoBlockAssumption
  <1>8. \A x \in Aligned : blocks'[x] = blocks[x] \/ (x = o /\ blocks'[x] # NoBlock)
    BY <1>1, <1>7 DEF Streaming, TypeOK, ReaderType
  <1>9. o \in Nat /\ k \in Nat /\ Want(o) \in Int /\ (o <= End => Want(o) >= 1)
    BY WantInt DEF Aligned, Offsets
  <1>10. GoneInv'
    <2> SUFFICES ASSUME NEW x \in Offs
                 PROVE  \/ \E w \in Workers : x \in todo'[w]
                        \/ blocks'[x] # NoBlock
                        \/ cut'
                        \/ nextOff > Least(x + BlockSize - 1, End)
      BY <1>1 DEF GoneInv, Offs, Start, End
    <2>1. x \in Aligned /\ x \in Nat /\ x <= End BY DEF Offs, Aligned, Offsets
    <2>2. \/ \E w \in Workers : x \in todo[w]
          \/ blocks[x] # NoBlock
          \/ cut
          \/ nextOff > Least(x + BlockSize - 1, End)
      BY <1>5 DEF Lossless, GoneInv
    <2>3. blocks[x] # NoBlock => blocks'[x] # NoBlock BY <1>8, <2>1
    <2>4. ASSUME NEW w \in Workers, x \in todo[w]
          PROVE  (\E v \in Workers : x \in todo'[v]) \/ blocks'[x] # NoBlock \/ cut'
      <3>1. CASE w # 1 BY <1>3, <2>4, <3>1
      <3>2. CASE w = 1 /\ x = o /\ k > 0
        BY <1>1, <1>7, <2>1, <3>2 DEF Streaming, TypeOK, ReaderType
      <3>3. CASE w = 1 /\ x = o /\ k = 0
        <4>1. k < Want(o) BY <1>9, <2>1, <3>3
        <4>2. QED BY <1>1, <4>1, Zenon
      <3>4. CASE w = 1 /\ x # o /\ k = BlockSize
        <4>1. todo'[1] = todo[1] \ {o} BY <1>3, <3>4
        <4>2. x \in todo'[1] BY <2>4, <3>4, <4>1
        <4>3. QED BY <1>2, <4>2
      <3>5. CASE w = 1 /\ x # o /\ k < BlockSize
        <4>1. o < x BY <1>1, <1>9, <2>1, <2>4, <3>5
        <4>2. o + BlockSize <= x BY <2>1, <4>1, AlignedApart
        <4>3. k < Want(o) BY <1>9, <2>1, <3>5, <4>2, Advanced DEF Want, Least
        <4>4. QED BY <1>1, <4>3, Zenon
      <3>6. QED BY <1>9, <3>1, <3>2, <3>3, <3>4, <3>5
    <2>5. QED BY <1>6, <2>2, <2>3, <2>4, Zenon
  <1>11. ShortInv'
    <2>1. CASE k > 0
      <3>1. Piece(o, k).len = k BY DEF Piece
      <3>2. blocks' = [blocks EXCEPT ![o] = Piece(o, k)] BY <1>1, <2>1
      <3>3. QED BY <1>1, <1>7, <3>1, <3>2, StoreShort
    <2>2. CASE k = 0
      <3>1. UNCHANGED <<blocks, range>> BY <1>1, <2>2
      <3>2. \A x \in Aligned : blocks[x] # NoBlock => cut' \/ blocks[x].len >= Want(x)
        BY <1>6, Zenon DEF Lossless, ShortInv
      <3>3. FileSize <= End => cut' BY <1>6, Zenon DEF Lossless, ShortInv
      <3>4. QED BY <3>1, <3>2, <3>3 DEF ShortInv, Want, End
    <2>3. QED BY <1>9, <2>1, <2>2
  <1>12. DoneInv'
    <2>1. \A w \in Workers \ {1} : pc[w] = "done" => todo[w] = {} \/ err
      BY DEF Lossless, DoneInv
    <2>2. closed /\ ~err /\ rpc' # "closed" => \A w \in Workers : todo[w] = {}
      BY <1>1 DEF Woken, Lossless, DoneInv
    <2>3. closed /\ ~err /\ rpc' # "closed" => \A w \in Workers : todo'[w] = {}
      BY <1>1, <1>2, <2>2
    <2>4. \A w \in Workers : pc'[w] = "done" => todo'[w] = {} \/ err BY <1>3, <2>1
    <2>5. (pc'[1] = "close" => todo'[1] = {}) /\ \A w \in Workers \ {1} : pc'[w] = "done"
      BY <1>3, <1>4
    <2>6. QED BY <1>1, <2>3, <2>4, <2>5 DEF DoneInv
  <1>13. AheadInv' /\ ReaderDropsConsumed' BY <1>1, <1>4 DEF AheadInv, ReaderDropsConsumed
  <1>14. QED BY <1>10, <1>11, <1>12, <1>13 DEF Lossless

LEMMA WholeFileLossless ==
  ASSUME Streaming, Lossless, WholeFile
  PROVE  Lossless'
  <1>1. CASE WholeGet \/ WholeCancelled \/ WholeEnd \/ WholeClose
    <2>1. /\ UNCHANGED <<range, todo, waiter, nextOff, blocks, err, cut>>
          /\ rpc' \in {rpc, Woken} /\ pc[1] \in {"get", "stream", "close"}
          /\ closed' = closed \/ (closed' = TRUE /\ pc[1] = "close")
      BY <1>1 DEF WholeGet, WholeCancelled, WholeEnd, WholeClose, close, wholeRest, planVars
    <2>2. /\ \A w \in Workers \ {1} : pc'[w] = pc[w]
          /\ pc'[1] \in {"stream", "fail", "close", "done"}
          /\ pc'[1] \in {"close", "done"} => todo[1] = {}
      BY <1>1, ThreadNames
         DEF WholeGet, WholeCancelled, WholeEnd, WholeClose, Streaming, TypeOK, ThreadType,
             Lossless, DoneInv
    <2>3. 1 \in Workers /\ waiter = "off" /\ rpc # "none"
      BY <2>1, ThreadNames DEF Lossless, AheadInv, Streaming, Control, ClientInv
    <2>4. GoneInv' BY <2>1, <2>3 DEF Lossless, GoneInv, Offs, Start, End
    <2>5. ShortInv' BY <2>1 DEF Lossless, ShortInv, Want, End
    <2>6. DoneInv'
      <3>1. \A w \in Workers \ {1} : pc[w] = "done" /\ (todo[w] = {} \/ err)
        BY <2>1 DEF Lossless, DoneInv
      <3>2. rpc' # "closed" => rpc # "closed" BY <2>1 DEF Woken
      <3>3. closed' /\ ~err /\ rpc' # "closed" => \A w \in Workers : todo[w] = {}
        BY <2>1, <3>1, <3>2 DEF Lossless, DoneInv
      <3>4. QED BY <2>1, <2>2, <3>1, <3>3 DEF DoneInv
    <2>7. AheadInv' /\ ReaderDropsConsumed' BY <2>1, <2>3 DEF AheadInv, ReaderDropsConsumed
    <2>8. QED BY <2>4, <2>5, <2>6, <2>7 DEF Lossless
  <1>2. QED BY <1>1, WholeChunkLossless DEF WholeFile

LEMMA ReadBlockLossless ==
  ASSUME Streaming, Lossless, ReadBlock
  PROVE  Lossless'
  <1> DEFINE key == KeyFor(nextOff)
             next == nextOff + Copied
  <1>1. /\ nextOff \in Nat /\ nextOff <= End /\ Waited # NoBlock /\ End \in Nat
        /\ Copied \in Nat /\ nextOff' = next
        /\ blocks' = Unread(key, inBlockOff + Copied)
    BY ReadBlockStep DEF Streaming
  <1>2. /\ key \in Offs /\ key \in Aligned /\ key \in Nat /\ key <= nextOff
        /\ nextOff < key + BlockSize
    BY <1>1, WaitedUnread
  <1>3. /\ UNCHANGED <<range, pc, todo, waiter, closed, err, cut>>
        /\ rpc \in {"call", "woken"} /\ rpc' = "call" /\ inBlockOff <= Waited.len
    BY DEF ReadBlock, CanRead, fetchRest, planVars, threadVars
  <1>4. Waited = blocks[key] /\ inBlockOff = nextOff - key BY DEF Waited, inBlockOff
  <1>5. blocks[key] \in Data /\ blocks[key].len \in Nat /\ blocks[key].len <= BlockSize
    BY <1>1, <1>2, <1>4 DEF Streaming, TypeOK, ReaderType, Data
  <1>6. next <= key + blocks[key].len /\ next \in Nat /\ nextOff <= next
    BY <1>1, <1>2, <1>3, <1>4, <1>5 DEF Copied, Least
  <1>7. \A x \in Aligned : x # key => blocks'[x] = blocks[x]
    BY <1>1 DEF Unread, Streaming, TypeOK, ReaderType
  <1>8. \/ blocks'[key] = NoBlock /\ next >= key + blocks[key].len
        \/ blocks'[key] = blocks[key] /\ next < key + blocks[key].len
    BY <1>1, <1>2, <1>4, <1>5 DEF Unread, Streaming, TypeOK, ReaderType
  <1>9. \A x \in Aligned : x # key /\ x + BlockSize > nextOff => x + BlockSize > next
    <2> SUFFICES ASSUME NEW x \in Aligned, x # key, x + BlockSize > nextOff
                 PROVE  x + BlockSize > next
      OBVIOUS
    <2>1. x \in Nat BY DEF Aligned, Offsets
    <2>2. ~(x < key)
      <3>1. x < key => x + BlockSize <= key BY <1>2, AlignedApart
      <3>2. QED BY <1>1, <1>2, <2>1, <3>1
    <2>3. key + BlockSize <= x BY <1>2, <2>1, <2>2, AlignedApart
    <2>4. QED BY <1>2, <1>5, <1>6, <2>1, <2>3
  <1> HIDE DEF key, next
  <1>10. GoneInv'
    <2> SUFFICES ASSUME NEW x \in Offs
                 PROVE  \/ \E w \in Workers : x \in todo[w]
                        \/ blocks'[x] # NoBlock
                        \/ cut
                        \/ next > Least(x + BlockSize - 1, End)
      BY <1>1, <1>3 DEF GoneInv, Offs, Start, End
    <2>1. x \in Aligned /\ x \in Nat BY DEF Offs, Aligned, Offsets
    <2>2. CASE x # key
      <3>1. \/ \E w \in Workers : x \in todo[w]
            \/ blocks[x] # NoBlock
            \/ cut
            \/ nextOff > Least(x + BlockSize - 1, End)
        BY <1>3 DEF Lossless, GoneInv
      <3>2. nextOff > Least(x + BlockSize - 1, End) => next > Least(x + BlockSize - 1, End)
        BY <1>1, <1>6, <2>1 DEF Least
      <3>3. QED BY <1>7, <2>1, <2>2, <3>1, <3>2
    <2>3. CASE x = key /\ ~cut
      <3>1. blocks[key].len >= Want(key) BY <1>1, <1>2, <1>4, <2>3 DEF Lossless, ShortInv
      <3>2. next >= key + blocks[key].len => next > Least(key + BlockSize - 1, End)
        BY <1>1, <1>2, <1>5, <1>6, <3>1 DEF Want, Least
      <3>3. QED BY <1>1, <1>4, <1>8, <2>3, <3>2
    <2>4. QED BY <2>2, <2>3
  <1>11. ShortInv'
    <2>1. \A x \in Aligned : blocks'[x] # NoBlock => blocks'[x] = blocks[x] BY <1>7, <1>8
    <2>2. QED BY <1>3, <2>1 DEF Lossless, ShortInv, Want, End
  <1>12. DoneInv' BY <1>3 DEF Lossless, DoneInv
  <1>13. AheadInv'
    <2> SUFFICES ASSUME waiter # "off"
                 PROVE \A w \in Workers : \A x \in todo[w] :
                         blocks'[x] = NoBlock /\ x + BlockSize > next
      BY <1>1, <1>3 DEF Lossless, AheadInv
    <2>1. TAKE w \in Workers
    <2>2. TAKE x \in todo[w]
    <2>3. blocks[x] = NoBlock /\ x + BlockSize > nextOff BY DEF Lossless, AheadInv
    <2>4. x \in Aligned BY ThreadNames DEF Streaming, TypeOK, ThreadType
    <2>5. x # key BY <1>1, <1>4, <2>3
    <2>6. QED BY <1>7, <1>9, <2>3, <2>4, <2>5
  <1>14. ReaderDropsConsumed'
    <2> SUFFICES ASSUME waiter # "off", NEW x \in Aligned, blocks'[x] # NoBlock
                 PROVE  x + BlockSize > next
      BY <1>1, <1>3 DEF ReaderDropsConsumed
    <2>1. CASE x = key BY <1>2, <1>5, <1>6, <1>8, <2>1
    <2>2. CASE x # key
      <3>1. x + BlockSize > nextOff BY <1>7, <2>2 DEF Lossless, ReaderDropsConsumed
      <3>2. QED BY <1>9, <2>2, <3>1
    <2>3. QED BY <2>1, <2>2
  <1>15. QED BY <1>10, <1>11, <1>12, <1>13, <1>14 DEF Lossless

\* The client's other steps leave the blocks and the fetch alone.
LEMMA ViewLossless ==
  ASSUME Lossless, rpc # "none",
         UNCHANGED <<range, pc, todo, waiter, cut, nextOff, blocks>>,
         err' = TRUE \/ UNCHANGED err,
         err' = TRUE \/ rpc' = "closed" \/ (UNCHANGED closed /\ rpc # "closed")
  PROVE  Lossless'
  <1>1. GoneInv' BY DEF Lossless, GoneInv, Offs, Start, End
  <1>2. ShortInv' BY DEF Lossless, ShortInv, Want, End
  <1>3. DoneInv' BY DEF Lossless, DoneInv
  <1>4. AheadInv' BY DEF Lossless, AheadInv
  <1>5. ReaderDropsConsumed' BY DEF Lossless, ReaderDropsConsumed
  <1>6. QED BY <1>1, <1>2, <1>3, <1>4, <1>5 DEF Lossless

LEMMA ClientLossless ==
  ASSUME Streaming, Lossless, Client \/ TimerFire \/ TimerDone \/ Abandon
  PROVE  Lossless'
  <1>1. CASE ReadEOF \/ ReadPanic \/ ReadClosed \/ ReadWait \/ ReadTimeout
    BY <1>1, ViewLossless
       DEF ReadEOF, ReadPanic, ReadClosed, ReadWait, ReadTimeout, CanRead, Return, fetchRest,
           planVars, threadVars
  <1>2. CASE CloseReader \/ TimerFire \/ TimerDone \/ Abandon
    BY <1>2, ViewLossless
       DEF CloseReader, TimerFire, TimerDone, Abandon, Return, fetchRest, planVars, threadVars,
           Streaming, Control, ClientInv
  <1>3. QED BY <1>1, <1>2, ReadBlockLossless DEF Client

LEMMA OtherLossless ==
  ASSUME Streaming, Lossless, EmptyFetch \/ WaitDone \/ Cancel \/ UNCHANGED vars
  PROVE  Lossless'
  <1>1. CASE EmptyFetch
    <2>1. /\ UNCHANGED <<range, todo, waiter, cut, nextOff, blocks, err>> /\ rpc' = "closed"
          /\ Offs = {} /\ pc' = [pc EXCEPT ![Caller] = "done"]
      BY <1>1 DEF EmptyFetch, planVars
    <2>2. \A w \in Workers : pc'[w] = pc[w]
      BY <2>1, ThreadNames DEF Streaming, TypeOK, ThreadType
    <2>3. GoneInv' BY <2>1 DEF GoneInv, Offs, Start, End
    <2>4. ShortInv' BY <2>1 DEF Lossless, ShortInv, Want, End
    <2>5. DoneInv' BY <2>1, <2>2, ThreadNames DEF Lossless, DoneInv
    <2>6. AheadInv' /\ ReaderDropsConsumed'
      BY <2>1, <2>2, ThreadNames DEF Lossless, AheadInv, ReaderDropsConsumed
    <2>7. QED BY <2>3, <2>4, <2>5, <2>6 DEF Lossless
  <1>2. CASE WaitDone
    <2>1. /\ UNCHANGED <<range, todo, pc, cut, nextOff, blocks, err>> /\ rpc' = Woken
          /\ waiter = "wait" /\ waiter' = "done" /\ \A w \in Workers : pc[w] = "done"
      BY <1>2 DEF WaitDone, close, planVars, threadVars
    <2>2. rpc # "none" BY <2>1 DEF Streaming, Control, ClientInv
    <2>3. \A w \in Workers : todo[w] = {} \/ err BY <2>1 DEF Lossless, DoneInv
    <2>4. GoneInv' BY <2>1, <2>2 DEF Lossless, GoneInv, Offs, Start, End
    <2>5. ShortInv' BY <2>1 DEF Lossless, ShortInv, Want, End
    <2>6. DoneInv' BY <2>1, <2>3, ThreadNames DEF Lossless, DoneInv
    <2>7. AheadInv' /\ ReaderDropsConsumed'
      BY <2>1 DEF Lossless, AheadInv, ReaderDropsConsumed
    <2>8. QED BY <2>4, <2>5, <2>6, <2>7 DEF Lossless
  <1>3. CASE Cancel \/ UNCHANGED vars
    <2>1. UNCHANGED <<range, pc, todo, waiter, cut, nextOff, blocks, closed, err, rpc>>
      BY <1>3 DEF Cancel, vars, planVars, threadVars
    <2>2. GoneInv' BY <2>1 DEF Lossless, GoneInv, Offs, Start, End
    <2>3. ShortInv' BY <2>1 DEF Lossless, ShortInv, Want, End
    <2>4. DoneInv' BY <2>1 DEF Lossless, DoneInv
    <2>5. AheadInv' /\ ReaderDropsConsumed'
      BY <2>1 DEF Lossless, AheadInv, ReaderDropsConsumed
    <2>6. QED BY <2>2, <2>3, <2>4, <2>5 DEF Lossless
  <1>4. QED BY <1>1, <1>2, <1>3

LEMMA LosslessStep == Streaming /\ Lossless /\ [Next]_vars => Lossless'
  BY NextCases, ThreadLossless, WholeFileLossless, ClientLossless, OtherLossless

LEMMA StreamingCorrect == Spec => []Streaming
  BY TypeCorrect, ControlCorrect, DataCorrect, PTL DEF Streaming

LEMMA LosslessCorrect == Spec => []Lossless
  BY InitLossless, LosslessStep, StreamingCorrect, PTL DEF Spec

\* In a parallel fetch a block that has been read to its end leaves the reader's map, and
\* none comes in behind the reader (orderedReader.Read, put).
THEOREM ConsumedDropped == Spec => []ReaderDropsConsumed
  <1>1. Lossless => ReaderDropsConsumed BY DEF Lossless
  <1>2. QED BY <1>1, LosslessCorrect, PTL

\* Cause, and the loss it explains.
LEMMA CauseStep ==
  ASSUME Streaming, Lossless, TruncationHasCause, [Next]_vars
  PROVE  TruncationHasCause'
  <1>1. cut => cut'
    <2>1. ASSUME NEW t \in Threads, Thread(t) PROVE cut => cut'
      BY <2>1 DEF Thread, Lookup, Obtained, WorkerCancelled, Attempt, GiveUp, AnswerError,
                  Answer200, Answer206, fail, fetchRest
    <2>2. CASE WholeFile
      BY <2>2 DEF WholeFile, WholeGet, WholeCancelled, WholeEnd, WholeClose, WholeChunk, fail,
                  wholeRest
    <2>3. CASE Client \/ TimerFire \/ TimerDone \/ Abandon
      BY <2>3 DEF Client, ReadEOF, ReadBlock, ReadPanic, ReadClosed, ReadWait, ReadTimeout,
                  CloseReader, TimerFire, TimerDone, Abandon, fetchRest
    <2>4. CASE EmptyFetch \/ WaitDone \/ Cancel \/ UNCHANGED vars
      BY <2>4 DEF EmptyFetch, WaitDone, Cancel, vars, fetchRest
    <2>5. QED BY <2>1, <2>2, <2>3, <2>4, NextCases
  <1>2. CASE ReadPanic
    <2>1. nextOff <= End /\ Waited # NoBlock /\ inBlockOff > Waited.len
      BY <1>2 DEF ReadPanic
    <2>2. /\ KeyFor(nextOff) \in Aligned /\ KeyFor(nextOff) \in Nat
          /\ nextOff < KeyFor(nextOff) + BlockSize
      BY <2>1, WaitedUnread
    <2>3. Waited.len \in Nat
      BY <2>1, <2>2 DEF Waited, Streaming, TypeOK, ReaderType, Data
    <2>4. ~(Waited.len >= Want(KeyFor(nextOff)))
      BY <2>1, <2>2, <2>3, Advanced DEF Want, Least, inBlockOff
    <2>5. cut BY <2>1, <2>2, <2>4 DEF Waited, Lossless, ShortInv
    <2>6. QED BY <1>1, <2>5 DEF TruncationHasCause
  <1>3. CASE ReadClosed /\ ~err
    <2>1. /\ nextOff <= End /\ blocks[KeyFor(nextOff)] = NoBlock /\ closed
          /\ rpc \in {"call", "woken"}
      BY <1>3 DEF ReadClosed, CanRead, Waited
    <2>2. \A w \in Workers : todo[w] = {} BY <1>3, <2>1 DEF Lossless, DoneInv
    <2>3. /\ KeyFor(nextOff) \in Offs
          /\ ~(nextOff > Least(KeyFor(nextOff) + BlockSize - 1, End))
      BY <2>1, WaitedUnread
    <2>4. cut BY <2>1, <2>2, <2>3 DEF Lossless, GoneInv
    <2>5. QED BY <1>1, <2>4 DEF TruncationHasCause
  <1>4. ASSUME ~ReadPanic, ~(ReadClosed /\ ~err)
        PROVE  result' \in {"truncated", "panic"} => result' = result
    <2>1. ASSUME NEW t \in Threads, Thread(t) PROVE result' \in {result, "refused"}
      BY <2>1 DEF Thread, Lookup, Obtained, Launch, Deliver, WorkerCancelled, Attempt, GiveUp,
                  AnswerError, Answer200, Answer206, fail, clientVars
    <2>2. CASE WholeFile
      BY <2>2 DEF WholeFile, WholeGet, WholeCancelled, WholeEnd, WholeClose, WholeChunk,
                  wholeRest, clientVars
    <2>3. CASE Client
      BY <1>4, <2>3 DEF Client, ReadEOF, ReadBlock, ReadClosed, ReadWait, ReadTimeout,
                        CloseReader, Return, clientVars
    <2>4. CASE TimerFire \/ TimerDone \/ Abandon \/ EmptyFetch \/ WaitDone \/ Cancel
      BY <2>4 DEF TimerFire, TimerDone, Abandon, EmptyFetch, WaitDone, Cancel, Return,
                  clientVars
    <2>5. CASE UNCHANGED vars BY <2>5 DEF vars
    <2>6. QED BY NextCases, <2>1, <2>2, <2>3, <2>4, <2>5
  <1>5. QED BY <1>1, <1>2, <1>3, <1>4 DEF TruncationHasCause

\* A body that breaks off without an error, or a read past a block's end, goes back to a
\* cached block or an answer of the upstream that was shorter than the range wants:
\* workers, wg.Wait, Read and Close never lose a block between them.
THEOREM NoBlockLost == Spec => []TruncationHasCause
  <1>1. Init => TruncationHasCause BY DEF Init, TruncationHasCause
  <1>2. QED BY <1>1, CauseStep, LosslessCorrect, StreamingCorrect, PTL DEF Spec

-----------------------------------------------------------------------------
(* Everyone's next step: the invariant behind NeverStuck. *)

\* A worker has a block to fetch while it is not done, only goroutine 1 streams, and the
\* reader is closed unless wg.Wait or the stream will close it.
MotionInv ==
  /\ \A w \in Workers : pc[w] \in {"lookup", "try", "asked"} => todo[w] # {}
  /\ \A w \in Workers : pc[w] \in {"get", "stream", "close"} => w = 1
  /\ Offs = {} => pc[Caller] \in {"lookup", "done"} /\ \A w \in Workers : pc[w] = "idle"
  /\ rpc = "none" /\ pc[Caller] = "done" => result = "refused"
  /\ rpc \in {"stopped", "closed"} => result # "none"
  /\ waiter = "wait" => \A w \in Workers : pc[w] # "idle"
  /\ rpc \in {"call", "wait", "woken"} /\ ~closed =>
       waiter = "wait" \/ pc[1] \in {"get", "stream", "close", "fail"}

LEMMA InitMotion == Init => MotionInv
  BY ThreadNames DEF Init, MotionInv

\* A goroutine has begun, so the range has a block.
LEMMA BlocksLeft ==
  ASSUME MotionInv, NEW t \in Threads, pc[t] \in {"try", "asked"} \/ (pc[t] # "idle" /\ t # Caller)
  PROVE  Offs # {}
  BY ThreadNames DEF MotionInv

\* A goroutine goes on with its block, or a worker gives up.
LEMMA MoveMotion ==
  ASSUME TypeOK, MotionInv, Offs # {},
         NEW t \in Threads, pc[t] \in {"lookup", "try", "asked"},
         NEW p \in {"try", "asked", "fail"}, pc' = [pc EXCEPT ![t] = p],
         UNCHANGED <<range, todo, waiter, closed, rpc, result>>
  PROVE  MotionInv'
  <1>1. \A w \in Threads : pc'[w] = IF w = t THEN p ELSE pc[w] BY DEF TypeOK, ThreadType
  <1>2. Offs' # {} BY DEF Offs, Start, End
  <1>3. QED BY <1>1, <1>2, ThreadNames DEF MotionInv

\* The probe fails, and the client is told so.
LEMMA RefuseMotion ==
  ASSUME Streaming, MotionInv, Offs # {}, pc[Caller] \in {"lookup", "try", "asked"},
         pc' = [pc EXCEPT ![Caller] = "done"], result' = "refused",
         UNCHANGED <<range, todo, waiter, closed, rpc>>
  PROVE  MotionInv'
  <1>1. \A w \in Threads : pc'[w] = IF w = Caller THEN "done" ELSE pc[w]
    BY DEF Streaming, TypeOK, ThreadType
  <1>2. Offs' # {} BY DEF Offs, Start, End
  <1>3. rpc = "none" /\ waiter = "off" BY DEF Streaming, Control, ProbeInv, Probing
  <1>4. QED BY <1>1, <1>2, <1>3, ThreadNames DEF MotionInv

LEMMA GiveUpMotion ==
  ASSUME Streaming, MotionInv, Offs # {},
         NEW t \in Threads, pc[t] \in {"lookup", "try", "asked"}, GiveUp(t)
  PROVE  MotionInv'
  <1>1. CASE t = Caller BY <1>1, RefuseMotion DEF GiveUp, planVars
  <1>2. CASE t # Caller
    <2>1. /\ pc' = [pc EXCEPT ![t] = "fail"]
          /\ UNCHANGED <<range, todo, waiter, closed, rpc, result>>
      BY <1>2 DEF GiveUp, planVars
    <2>2. QED BY <2>1, MoveMotion DEF Streaming
  <1>3. QED BY <1>1, <1>2

LEMMA LaunchMotion ==
  ASSUME MotionInv, Offs # {}, NEW o, NEW d, Launch(o, d)
  PROVE  MotionInv'
  <1> DEFINE n == decideN
  <1>1. /\ UNCHANGED <<range, closed>> /\ waiter' = "wait" /\ rpc' = "call"
        /\ todo' = [t \in Threads |-> IF t \in 1..n THEN Assigned(t, n) ELSE {}]
        /\ pc' = [t \in Threads |->
                   IF t \in 1..n /\ Assigned(t, n) # {} THEN "lookup" ELSE "done"]
    BY DEF Launch, planVars
  <1> HIDE DEF n
  <1>2. \A w \in Workers : /\ pc'[w] \in {"lookup", "done"}
                           /\ pc'[w] = "lookup" => todo'[w] # {}
    BY <1>1, ThreadNames
  <1>3. Offs' # {} BY <1>1 DEF Offs, Start, End
  <1>4. QED BY <1>1, <1>2, <1>3 DEF MotionInv

LEMMA DeliverMotion ==
  ASSUME Streaming, MotionInv, NEW t \in Workers, pc[t] \in {"lookup", "asked"},
         NEW o, NEW d, Deliver(t, o, d)
  PROVE  MotionInv'
  <1>1. /\ UNCHANGED <<range, waiter, closed, result>> /\ rpc' = Woken
        /\ todo' = [todo EXCEPT ![t] = @ \ {o}]
        /\ pc' = [pc EXCEPT ![t] = IF todo[t] = {o} THEN "done" ELSE "lookup"]
    BY DEF Deliver, put, planVars, clientVars
  <1>2. /\ todo'[t] = todo[t] \ {o}
        /\ pc'[t] = IF todo[t] = {o} THEN "done" ELSE "lookup"
        /\ \A w \in Workers \ {t} : todo'[w] = todo[w] /\ pc'[w] = pc[w]
    BY <1>1, ThreadNames DEF Streaming, TypeOK, ThreadType
  <1>3. todo[t] # {} BY DEF MotionInv
  <1>4. pc'[t] = "lookup" => todo'[t] # {} BY <1>2, <1>3
  <1>5. rpc # "none" BY DEF Streaming, Control, ClientInv
  <1>6. Offs' = Offs /\ Offs # {}
    BY <1>1, ThreadNames, BlocksLeft DEF Offs, Start, End
  <1>7. 1 \in Workers BY ThreadNames
  <1>8. QED BY <1>1, <1>2, <1>4, <1>5, <1>6, <1>7 DEF MotionInv, Woken

LEMMA ObtainedMotion ==
  ASSUME Streaming, MotionInv, Offs # {}, NEW t \in Threads, pc[t] \in {"lookup", "asked"},
         NEW o, NEW d, Obtained(t, o, d)
  PROVE  MotionInv'
  <1>1. CASE t = Caller /\ Launch(o, d) BY <1>1, LaunchMotion
  <1>2. CASE t # Caller /\ Deliver(t, o, d) BY <1>2, ThreadNames, DeliverMotion
  <1>3. QED BY <1>1, <1>2 DEF Obtained

LEMMA Answer200Motion ==
  ASSUME Streaming, MotionInv, pc[Caller] = "asked", Answer200(Caller)
  PROVE  MotionInv'
  <1>1. /\ UNCHANGED <<range, waiter, closed>> /\ rpc' = "call"
        /\ pc' = [u \in Threads |-> IF u = 1 THEN "get" ELSE "done"]
    BY DEF Answer200, planVars
  <1>2. pc'[1] = "get" /\ \A w \in Workers \ {1} : pc'[w] = "done" BY <1>1, ThreadNames
  <1>3. Offs' # {} BY <1>1, ThreadNames, BlocksLeft DEF Offs, Start, End
  <1>4. QED BY <1>1, <1>2, <1>3 DEF MotionInv

LEMMA FailMotion ==
  ASSUME Streaming, MotionInv, NEW t \in Threads, fail(t)
  PROVE  MotionInv'
  <1>1. /\ UNCHANGED <<range, todo, waiter, result>> /\ rpc' = Woken /\ closed' = TRUE
        /\ pc[t] = "fail" /\ pc' = [pc EXCEPT ![t] = "done"]
    BY DEF fail, close, planVars, clientVars
  <1>2. t \in Workers /\ rpc # "none"
    BY <1>1, ThreadNames DEF Streaming, Control, ProbeInv, ClientInv, Probing
  <1>3. \A w \in Threads : pc'[w] = IF w = t THEN "done" ELSE pc[w]
    BY <1>1 DEF Streaming, TypeOK, ThreadType
  <1>4. Offs' # {} BY <1>1, <1>2, ThreadNames, BlocksLeft DEF Offs, Start, End
  <1>5. QED BY <1>1, <1>2, <1>3, <1>4, ThreadNames DEF MotionInv, Woken

LEMMA ThreadMotion ==
  ASSUME Streaming, MotionInv, NEW t \in Threads, Thread(t)
  PROVE  MotionInv'
  <1>0. TypeOK BY DEF Streaming
  <1>1. ASSUME NEW o \in Aligned, Lookup(t, o) PROVE MotionInv'
    <2>1. pc[t] = "lookup" /\ Offs # {} BY <1>1 DEF Lookup
    <2>2. CASE cache[o] # NoBlock
      <3>1. Obtained(t, o, cache[o]) BY <1>1, <2>2 DEF Lookup
      <3>2. QED BY <2>1, <3>1, ObtainedMotion
    <2>3. CASE cache[o] = NoBlock
      <3>1. /\ pc' = [pc EXCEPT ![t] = "try"]
            /\ UNCHANGED <<range, todo, waiter, closed, rpc, result>>
        BY <1>1, <2>3 DEF Lookup, planVars, clientVars
      <3>2. QED BY <1>0, <2>1, <3>1, MoveMotion
    <2>4. QED BY <2>2, <2>3
  <1>2. ASSUME NEW o \in Aligned, NEW k \in 0..BlockSize, Answer206(t, o, k) PROVE MotionInv'
    <2>1. Obtained(t, o, Piece(o, k)) /\ pc[t] = "asked" BY <1>2 DEF Answer206
    <2>2. Offs # {} BY <2>1, BlocksLeft
    <2>3. QED BY <2>1, <2>2, ObtainedMotion
  <1>3. CASE WorkerCancelled(t)
    <2>1. GiveUp(t) /\ pc[t] = "lookup" /\ t # Caller BY <1>3 DEF WorkerCancelled
    <2>2. Offs # {} BY <2>1, BlocksLeft
    <2>3. QED BY <2>1, <2>2, GiveUpMotion
  <1>4. CASE Attempt(t) \/ AnswerError(t)
    <2>1. pc[t] \in {"try", "asked"} BY <1>4 DEF Attempt, AnswerError
    <2>2. Offs # {} BY <2>1, BlocksLeft
    <2>3. CASE GiveUp(t) BY <2>1, <2>2, <2>3, GiveUpMotion
    <2>4. CASE ~GiveUp(t)
      <3>1. PICK p \in {"try", "asked"} : pc' = [pc EXCEPT ![t] = p]
        BY <1>4, <2>4 DEF Attempt, AnswerError
      <3>2. UNCHANGED <<range, todo, waiter, closed, rpc, result>>
        BY <1>4, <2>4 DEF Attempt, AnswerError, planVars, clientVars
      <3>3. QED BY <1>0, <2>1, <2>2, <3>1, <3>2, MoveMotion
    <2>5. QED BY <2>3, <2>4
  <1>5. CASE Answer200(t)
    <2>1. pc[t] = "asked" BY <1>5 DEF Answer200
    <2>2. CASE t = Caller BY <1>5, <2>1, <2>2, Answer200Motion
    <2>3. CASE t # Caller
      <3>1. GiveUp(t) /\ Offs # {} BY <1>5, <2>1, <2>3, BlocksLeft DEF Answer200
      <3>2. QED BY <2>1, <3>1, GiveUpMotion
    <2>4. QED BY <2>2, <2>3
  <1>6. CASE fail(t) BY <1>6, FailMotion
  <1>7. QED BY <1>1, <1>2, <1>3, <1>4, <1>5, <1>6 DEF Thread

\* What a step of the stream leaves.
LEMMA WholeFileMoves ==
  ASSUME TypeOK, WholeFile
  PROVE  /\ pc[1] \in {"get", "stream", "close"} /\ UNCHANGED <<range, waiter, result>>
         /\ rpc' \in {rpc, Woken}
         /\ \/ pc'[1] \in {"stream", "fail", "close"} /\ closed' = closed
            \/ pc'[1] = "done" /\ closed' = TRUE
         /\ \A t \in Threads \ {1} : pc'[t] = pc[t] /\ todo'[t] = todo[t]
  <1> USE ThreadNames DEF TypeOK, ThreadType, wholeRest, planVars, clientVars
  <1>1. CASE WholeGet BY <1>1 DEF WholeGet
  <1>2. CASE WholeCancelled BY <1>2 DEF WholeCancelled
  <1>3. CASE WholeEnd BY <1>3 DEF WholeEnd
  <1>4. CASE WholeClose BY <1>4 DEF WholeClose, close
  <1>5. CASE \E o \in Aligned, k \in 0..BlockSize : WholeChunk(o, k)
    BY <1>5 DEF WholeChunk, put
  <1>6. QED BY <1>1, <1>2, <1>3, <1>4, <1>5 DEF WholeFile

LEMMA WholeFileMotion ==
  ASSUME Streaming, MotionInv, WholeFile
  PROVE  MotionInv'
  <1>1. /\ pc[1] \in {"get", "stream", "close"} /\ UNCHANGED <<range, waiter, result>>
        /\ rpc' \in {rpc, Woken}
        /\ \/ pc'[1] \in {"stream", "fail", "close"} /\ closed' = closed
           \/ pc'[1] = "done" /\ closed' = TRUE
        /\ \A t \in Threads \ {1} : pc'[t] = pc[t] /\ todo'[t] = todo[t]
    BY WholeFileMoves DEF Streaming
  <1>2. rpc # "none" BY <1>1, ThreadNames DEF Streaming, Control, ClientInv
  <1>3. Offs' # {} BY <1>1, ThreadNames, BlocksLeft DEF Offs, Start, End
  <1>4. QED BY <1>1, <1>2, <1>3, ThreadNames DEF MotionInv, Woken

\* The client's steps leave the fetch alone, and end with a result.
LEMMA ViewMotion ==
  ASSUME MotionInv, UNCHANGED <<range, pc, todo, waiter>>, rpc # "none",
         \/ rpc \in {"call", "wait", "woken"} /\ rpc' \in {"call", "wait", "woken"}
            /\ UNCHANGED <<closed, result>>
         \/ rpc' = "stopped" /\ result' # "none"
         \/ rpc = "stopped" /\ rpc' = "closed" /\ UNCHANGED result
  PROVE  MotionInv'
  BY DEF MotionInv, Offs, Start, End

LEMMA ClientMotion ==
  ASSUME Streaming, MotionInv, Client \/ TimerFire \/ TimerDone \/ Abandon
  PROVE  MotionInv'
  <1> USE ViewMotion DEF fetchRest, planVars, threadVars, clientVars
  <1>1. CASE ReadEOF \/ ReadPanic \/ ReadClosed \/ ReadTimeout \/ Abandon
    BY <1>1 DEF ReadEOF, ReadPanic, ReadClosed, ReadTimeout, Abandon, CanRead, Return
  <1>2. CASE ReadBlock \/ ReadWait BY <1>2 DEF ReadBlock, ReadWait, CanRead
  <1>3. CASE CloseReader BY <1>3 DEF CloseReader
  <1>4. CASE TimerFire \/ TimerDone
    BY <1>4 DEF TimerFire, TimerDone, Streaming, Control, ClientInv
  <1>5. QED BY <1>1, <1>2, <1>3, <1>4 DEF Client

LEMMA OtherMotion ==
  ASSUME Streaming, MotionInv, EmptyFetch \/ WaitDone \/ Cancel \/ UNCHANGED vars
  PROVE  MotionInv'
  <1>1. CASE EmptyFetch
    <2>1. /\ UNCHANGED <<range, todo, waiter, closed>> /\ rpc' = "closed" /\ result' = "eof"
          /\ pc' = [pc EXCEPT ![Caller] = "done"]
      BY <1>1 DEF EmptyFetch, planVars
    <2>2. \A w \in Threads : pc'[w] = IF w = Caller THEN "done" ELSE pc[w]
      BY <2>1 DEF Streaming, TypeOK, ThreadType
    <2>3. Offs' = Offs BY <2>1 DEF Offs, Start, End
    <2>4. QED BY <2>1, <2>2, <2>3, ThreadNames DEF MotionInv
  <1>2. CASE WaitDone
    <2>1. /\ UNCHANGED <<range, todo, pc, result>> /\ rpc' = Woken /\ closed' = TRUE
          /\ waiter = "wait" /\ waiter' = "done"
      BY <1>2 DEF WaitDone, close, planVars, threadVars, clientVars
    <2>2. rpc # "none" BY <2>1 DEF Streaming, Control, ClientInv
    <2>3. QED BY <2>1, <2>2 DEF MotionInv, Woken, Offs, Start, End
  <1>3. CASE Cancel \/ UNCHANGED vars
    <2>1. UNCHANGED <<range, pc, todo, waiter, closed, rpc, result>>
      BY <1>3 DEF Cancel, vars, planVars, threadVars, clientVars
    <2>2. QED BY <2>1 DEF MotionInv, Offs, Start, End
  <1>4. QED BY <1>1, <1>2, <1>3

LEMMA MotionCorrect == Spec => []MotionInv
  <1>1. Streaming /\ MotionInv /\ [Next]_vars => MotionInv'
    BY NextCases, ThreadMotion, WholeFileMotion, ClientMotion, OtherMotion
  <1>2. QED BY InitMotion, <1>1, StreamingCorrect, PTL DEF Spec

\* A set of blocks that is not empty has a first one.
LEMMA NextExists ==
  ASSUME TypeOK, NEW t \in Threads, todo[t] # {}
  PROVE  \E o \in Aligned : IsNext(t, o)
  <1>1. todo[t] \in SUBSET Aligned BY DEF TypeOK, ThreadType
  <1>2. todo[t] \in SUBSET Nat BY <1>1 DEF Aligned, Offsets
  <1>3. PICK m \in todo[t] : \A n \in todo[t] : m <= n BY <1>2, LeastNatural
  <1>4. QED BY <1>1, <1>3 DEF IsNext

\* A goroutine that has begun and is not done can go on.
LEMMA BegunGoesOn ==
  ASSUME Streaming, MotionInv, NEW t \in Threads, pc[t] \notin {"idle", "done"}
  PROVE  CanGo(t)
  <1>1. CASE t = Caller
    <2>1. pc[t] \in {"lookup", "try", "asked"} /\ todo[t] # {}
      BY <1>1 DEF Streaming, Control, ProbeInv, Probing
    <2>2. \E o \in Aligned : IsNext(t, o) BY <2>1, NextExists DEF Streaming
    <2>3. QED BY <1>1, <2>1, <2>2 DEF CanGo
  <1>2. CASE t # Caller
    <2>1. t \in Workers /\ Offs # {} BY <1>2, ThreadNames, BlocksLeft
    <2>2. pc[t] \in {"lookup", "try", "asked", "get", "stream", "close", "fail"}
      BY DEF Streaming, TypeOK, ThreadType
    <2>3. pc[t] = "lookup" => todo[t] # {} BY <2>1 DEF MotionInv
    <2>4. pc[t] \in {"get", "stream", "close"} => t = 1 BY <2>1 DEF MotionInv
    <2>5. todo[t] # {} => \E o \in Aligned : IsNext(t, o) BY NextExists DEF Streaming
    <2>6. QED BY <2>1, <2>2, <2>3, <2>4, <2>5 DEF CanGo
  <1>3. QED BY <1>1, <1>2

LEMMA MotionGoesOn ==
  ASSUME Streaming, MotionInv, SleepsOnlyWhenDry
  PROVE  NeverStuck
  <1> SUFFICES ASSUME \A t \in Threads : ~CanGo(t), rpc \notin {"call", "woken", "stopped"},
                      waiter = "wait" => \E w \in Workers : pc[w] # "done"
               PROVE  Finished
    BY DEF NeverStuck
  <1>1. \A t \in Threads : pc[t] \in {"idle", "done"} BY BegunGoesOn
  <1>2. waiter # "wait" BY <1>1, ThreadNames DEF MotionInv
  <1>3. rpc \in {"none", "wait", "closed"} BY DEF Streaming, TypeOK, ClientType
  <1>4. rpc # "wait"
    <2>1. rpc = "wait" => ~closed BY DEF SleepsOnlyWhenDry
    <2>2. pc[1] \in {"idle", "done"} BY <1>1, ThreadNames
    <2>3. QED BY <1>2, <2>1, <2>2 DEF MotionInv
  <1>5. rpc = "none" => result # "none"
    <2>1. pc[Caller] = "done"
      BY <1>1, ThreadNames DEF Streaming, Control, ProbeInv, Probing
    <2>2. QED BY <2>1 DEF MotionInv
  <1>6. QED BY <1>1, <1>2, <1>3, <1>4, <1>5 DEF Finished, MotionInv

\* A fetch never waits for itself: whatever the order of its goroutines, wg.Wait, Read and
\* Close, one of them can go on until all is over, and none of that needs the timer of
\* waitForBlock, a cancelled request or a client that leaves (fetchParallel,
\* fetchWholeFile, waitForBlock).
THEOREM NobodyStuck == Spec => []NeverStuck
  BY MotionGoesOn, StreamingCorrect, MotionCorrect, NoLostWakeup, PTL
=============================================================================
