-------------------------- MODULE PreloaderProofs --------------------------
(***************************************************************************)
(* Proofs about Preloader: types, the slots and the deduplication of       *)
(* tasks.                                                                  *)
(***************************************************************************)
EXTENDS Preloader, FiniteSetTheorems, TLAPS

\* A goroutine has a key exactly while it is not idle.
KeyInv == \A g \in Goroutines : pc[g] = "idle" <=> key[g] = NoKey

Inv == TypeOK /\ KeyInv /\ SlotsMatch /\ OneTaskPerKey

USE KeysAssumption, GoroutinesAssumption, SlotsAssumption

-----------------------------------------------------------------------------
(* Counting.                                                               *)

LEMMA OneMore ==
  ASSUME NEW S \in SUBSET Goroutines, NEW g \in Goroutines, g \notin S
  PROVE  Cardinality(S \cup {g}) = Cardinality(S) + 1
  BY FS_Subset, FS_AddElement

LEMMA OneLess ==
  ASSUME NEW S \in SUBSET Goroutines, NEW g \in S
  PROVE  Cardinality(S \ {g}) = Cardinality(S) - 1
  BY FS_Subset, FS_RemoveElement

LEMMA Counted ==
  ASSUME NEW S \in SUBSET Goroutines
  PROVE  Cardinality(S) \in Nat
  BY FS_Subset, FS_CardinalityType

LEMMA GlobalSlotsNat == GlobalSlots \in Nat
  BY DEF GlobalSlots

\* What a goroutine holds, as it goes from one place to another.
LEMMA HoldersFollow ==
  ASSUME TypeOK, NEW g \in Goroutines, NEW p, Goes(g, p), UNCHANGED key
  PROVE  /\ GlobalHolders' = IF p \in {"sub", "back", "fetch", "freeSub", "freeGlobal"}
                               THEN GlobalHolders \cup {g} ELSE GlobalHolders \ {g}
         /\ \A s \in SubSources :
              SubHolders(s)' = IF p \in {"fetch", "freeSub"} /\ Sub(g) = s
                                 THEN SubHolders(s) \cup {g} ELSE SubHolders(s) \ {g}
  BY DEF TypeOK, Goes, GlobalHolders, SubHolders, Sub

-----------------------------------------------------------------------------
(* The initial states and the steps.                                       *)

LEMMA InitInv == Init => Inv
  <1> SUFFICES ASSUME Init PROVE Inv OBVIOUS
  <1>1. GlobalHolders = {} BY DEF Init, GlobalHolders
  <1>2. \A s \in SubSources : SubHolders(s) = {} BY DEF Init, SubHolders
  <1>3. SlotsMatch BY <1>1, <1>2, FS_EmptySet, GlobalSlotsNat DEF SlotsMatch, Init
  <1>4. QED BY <1>3 DEF Init, Inv, TypeOK, KeyInv, OneTaskPerKey

\* The places between which a goroutine keeps its task.
Working == {"global", "sub", "back", "fetch", "freeSub", "freeGlobal", "end"}

\* A step of a goroutine that keeps its task disturbs neither keys nor pending.
LEMMA KeepsTask ==
  ASSUME Inv, NEW g \in Goroutines, NEW p \in Working, pc[g] \in Working,
         Goes(g, p), UNCHANGED <<key, pending>>
  PROVE  KeyInv' /\ OneTaskPerKey'
  BY DEF Inv, TypeOK, KeyInv, OneTaskPerKey, Goes, Working

LEMMA BeginTaskStep ==
  ASSUME Inv, NEW g \in Goroutines, NEW k \in Keys, BeginTask(g, k)
  PROVE  Inv'
  <1> USE DEF Inv
  <1>1. TypeOK' BY DEF TypeOK, BeginTask, Goes
  <1>2. KeyInv' BY DEF TypeOK, KeyInv, BeginTask, Goes
  <1>3. SlotsMatch'
    <2>1. GlobalHolders' = GlobalHolders BY DEF TypeOK, BeginTask, Goes, GlobalHolders
    <2>2. \A s \in SubSources : SubHolders(s)' = SubHolders(s)
      BY DEF TypeOK, BeginTask, Goes, SubHolders, Sub
    <2>3. QED BY <2>1, <2>2 DEF SlotsMatch, BeginTask
  <1>4. OneTaskPerKey'
    <2>1. key[g] = NoKey /\ \A h \in Goroutines : key[h] # k
      BY DEF KeyInv, OneTaskPerKey, BeginTask
    <2>2. \A h \in Goroutines : key'[h] = IF h = g THEN k ELSE key[h]
      BY DEF TypeOK, BeginTask
    <2>3. QED BY <2>1, <2>2 DEF OneTaskPerKey, BeginTask
  <1>5. QED BY <1>1, <1>2, <1>3, <1>4

LEMMA EndTaskStep ==
  ASSUME Inv, NEW g \in Goroutines, EndTask(g)
  PROVE  Inv'
  <1> USE DEF Inv
  <1>1. TypeOK' BY DEF TypeOK, EndTask, Goes
  <1>2. KeyInv' BY DEF TypeOK, KeyInv, EndTask, Goes
  <1>3. SlotsMatch'
    <2>1. GlobalHolders' = GlobalHolders BY DEF TypeOK, EndTask, Goes, GlobalHolders
    <2>2. \A s \in SubSources : SubHolders(s)' = SubHolders(s)
      BY DEF TypeOK, EndTask, Goes, SubHolders, Sub
    <2>3. QED BY <2>1, <2>2 DEF SlotsMatch, EndTask
  <1>4. OneTaskPerKey'
    <2>1. key[g] \in Keys /\ \A h \in Goroutines \ {g} : key[h] # key[g]
      BY DEF TypeOK, KeyInv, OneTaskPerKey, EndTask
    <2>2. \A h \in Goroutines : key'[h] = IF h = g THEN NoKey ELSE key[h]
      BY DEF TypeOK, EndTask
    <2>3. QED BY <2>1, <2>2 DEF OneTaskPerKey, EndTask
  <1>5. QED BY <1>1, <1>2, <1>3, <1>4

LEMMA RunStep ==
  ASSUME Inv, NEW g \in Goroutines, Run(g)
  PROVE  Inv'
  <1> USE DEF Inv
  <1>0. /\ GlobalHolders \subseteq Goroutines /\ Sub(g) = SubOf[key[g]]
        /\ \A s \in SubSources : SubHolders(s) \subseteq Goroutines
    BY DEF GlobalHolders, SubHolders, Sub
  <1>s. pc[g] # "idle" => Sub(g) \in SubSources BY <1>0 DEF TypeOK, KeyInv
  <1>n. /\ Cardinality(GlobalHolders) \in Nat
        /\ \A s \in SubSources : Cardinality(SubHolders(s)) \in Nat
    BY <1>0, Counted
  <1>1. CASE TakeGlobal(g)
    <2>1. TypeOK' BY <1>1 DEF TypeOK, TakeGlobal, Goes
    <2>2. KeyInv' /\ OneTaskPerKey' BY <1>1, KeepsTask DEF TakeGlobal, Working
    <2>3. CASE globalSem < GlobalSlots
      <3>1. globalSem' = globalSem + 1 /\ Goes(g, "sub") /\ UNCHANGED <<key, perSub>>
        BY <1>1, <2>3, GlobalSlotsNat DEF TakeGlobal, TypeOK
      <3>2. g \notin GlobalHolders /\ \A s \in SubSources : g \notin SubHolders(s)
        BY <1>1 DEF TakeGlobal, GlobalHolders, SubHolders
      <3>3. GlobalHolders' = GlobalHolders \cup {g}
            /\ \A s \in SubSources : SubHolders(s)' = SubHolders(s)
        BY <3>1, <3>2, HoldersFollow
      <3>4. Cardinality(GlobalHolders') = Cardinality(GlobalHolders) + 1
        BY <3>2, <3>3, <1>0, OneMore
      <3>5. SlotsMatch' BY <3>1, <3>3, <3>4, <2>3, GlobalSlotsNat DEF SlotsMatch, TypeOK, GlobalSlots
      <3>6. QED BY <3>5, <2>1, <2>2
    <2>4. CASE globalSem >= GlobalSlots
      <3>1. Goes(g, "end") /\ UNCHANGED <<key, perSub, globalSem>>
        BY <1>1, <2>4, GlobalSlotsNat DEF TakeGlobal, TypeOK
      <3>2. g \notin GlobalHolders /\ \A s \in SubSources : g \notin SubHolders(s)
        BY <1>1 DEF TakeGlobal, GlobalHolders, SubHolders
      <3>a. GlobalHolders' = GlobalHolders \ {g} BY <3>1, HoldersFollow
      <3>b. \A s \in SubSources : SubHolders(s)' = SubHolders(s) \ {g}
        BY <3>1, HoldersFollow
      <3>3. GlobalHolders' = GlobalHolders
            /\ \A s \in SubSources : SubHolders(s)' = SubHolders(s)
        BY <3>2, <3>a, <3>b
      <3>4. SlotsMatch' BY <3>1, <3>3 DEF SlotsMatch
      <3>5. QED BY <3>4, <2>1, <2>2
    <2>5. QED BY <2>3, <2>4, <1>1 DEF TakeGlobal
  <1>2. CASE TakeSub(g)
    <2>0. pc[g] = "sub" /\ Sub(g) \in SubSources BY <1>2, <1>s DEF TakeSub
    <2>1. TypeOK' BY <1>2, <2>0 DEF TypeOK, TakeSub, Goes
    <2>2. KeyInv' /\ OneTaskPerKey' BY <1>2, KeepsTask DEF TakeSub, Working
    <2>3. g \in GlobalHolders /\ \A s \in SubSources : g \notin SubHolders(s)
      BY <2>0 DEF GlobalHolders, SubHolders
    <2>4. CASE perSub[Sub(g)] < SubSlots
      <3>1. /\ perSub' = [perSub EXCEPT ![Sub(g)] = @ + 1] /\ Goes(g, "fetch")
            /\ UNCHANGED <<key, globalSem>>
        BY <1>2, <2>4, <2>0 DEF TakeSub, TypeOK
      <3>a. GlobalHolders' = GlobalHolders \cup {g} BY <3>1, HoldersFollow
      <3>b. \A s \in SubSources : SubHolders(s)' =
              IF Sub(g) = s THEN SubHolders(s) \cup {g} ELSE SubHolders(s) \ {g}
        BY <3>1, HoldersFollow
      <3>2. /\ GlobalHolders' = GlobalHolders
            /\ \A s \in SubSources : SubHolders(s)' =
                 IF Sub(g) = s THEN SubHolders(s) \cup {g} ELSE SubHolders(s)
        BY <2>3, <3>a, <3>b
      <3>3. \A s \in SubSources : Cardinality(SubHolders(s) \cup {g}) = Cardinality(SubHolders(s)) + 1
        BY <2>3, <1>0, OneMore
      <3>4. ASSUME NEW s \in SubSources
            PROVE  perSub'[s] = Cardinality(SubHolders(s)') /\ perSub'[s] <= SubSlots
        BY <3>1, <3>2, <3>3, <2>4, <1>n DEF SlotsMatch, TypeOK
      <3>5. SlotsMatch' BY <3>1, <3>2, <3>4 DEF SlotsMatch, GlobalSlots
      <3>6. QED BY <3>5, <2>1, <2>2
    <2>5. CASE perSub[Sub(g)] >= SubSlots
      <3>1. Goes(g, "back") /\ UNCHANGED <<key, perSub, globalSem>>
        BY <1>2, <2>5, <2>0 DEF TakeSub, TypeOK
      <3>a. GlobalHolders' = GlobalHolders \cup {g} BY <3>1, HoldersFollow
      <3>b. \A s \in SubSources : SubHolders(s)' = SubHolders(s) \ {g}
        BY <3>1, HoldersFollow
      <3>2. GlobalHolders' = GlobalHolders
            /\ \A s \in SubSources : SubHolders(s)' = SubHolders(s)
        BY <2>3, <3>a, <3>b
      <3>3. SlotsMatch' BY <3>1, <3>2 DEF SlotsMatch
      <3>4. QED BY <3>3, <2>1, <2>2
    <2>6. QED BY <2>4, <2>5, <1>2 DEF TakeSub
  <1>3. CASE GiveBack(g) \/ FreeGlobal(g)
    <2>1. TypeOK' BY <1>3 DEF TypeOK, GiveBack, FreeGlobal, Goes
    <2>2. KeyInv' /\ OneTaskPerKey' BY <1>3, KeepsTask DEF GiveBack, FreeGlobal, Working
    <2>3. /\ globalSem > 0 /\ globalSem' = globalSem - 1 /\ Goes(g, "end")
          /\ UNCHANGED <<key, perSub>>
      BY <1>3 DEF GiveBack, FreeGlobal
    <2>4. g \in GlobalHolders /\ \A s \in SubSources : g \notin SubHolders(s)
      BY <1>3 DEF GiveBack, FreeGlobal, GlobalHolders, SubHolders
    <2>5. GlobalHolders' = GlobalHolders \ {g}
          /\ \A s \in SubSources : SubHolders(s)' = SubHolders(s)
      BY <2>3, <2>4, HoldersFollow
    <2>6. Cardinality(GlobalHolders') = Cardinality(GlobalHolders) - 1
      BY <2>4, <2>5, <1>0, OneLess
    <2>7. SlotsMatch'
      BY <2>3, <2>5, <2>6, GlobalSlotsNat DEF SlotsMatch, TypeOK, GlobalSlots
    <2>8. QED BY <2>7, <2>1, <2>2
  <1>4. CASE Fetched(g)
    <2>1. TypeOK' BY <1>4 DEF TypeOK, Fetched, Goes
    <2>2. KeyInv' /\ OneTaskPerKey' BY <1>4, KeepsTask DEF Fetched, Working
    <2>3. GlobalHolders' = GlobalHolders BY <1>4, HoldersFollow DEF Fetched, GlobalHolders
    <2>4. \A s \in SubSources : SubHolders(s)' = SubHolders(s)
      BY <1>4, HoldersFollow DEF Fetched, SubHolders
    <2>5. SlotsMatch' BY <1>4, <2>3, <2>4 DEF SlotsMatch, Fetched
    <2>6. QED BY <2>5, <2>1, <2>2
  <1>5. CASE FreeSub(g)
    <2>0. pc[g] = "freeSub" /\ Sub(g) \in SubSources BY <1>5, <1>s DEF FreeSub
    <2>1. TypeOK' BY <1>5, <2>0 DEF TypeOK, FreeSub, Goes
    <2>2. KeyInv' /\ OneTaskPerKey' BY <1>5, KeepsTask DEF FreeSub, Working
    <2>3. g \in GlobalHolders /\ \A s \in SubSources : g \in SubHolders(s) <=> Sub(g) = s
      BY <2>0 DEF GlobalHolders, SubHolders
    <2>4. /\ perSub[Sub(g)] > 0 /\ perSub' = [perSub EXCEPT ![Sub(g)] = @ - 1]
          /\ Goes(g, "freeGlobal") /\ UNCHANGED <<key, globalSem>>
      BY <1>5 DEF FreeSub
    <2>a. GlobalHolders' = GlobalHolders \cup {g} BY <2>4, HoldersFollow
    <2>b. \A s \in SubSources : SubHolders(s)' = SubHolders(s) \ {g}
      BY <2>4, HoldersFollow
    <2>5. /\ GlobalHolders' = GlobalHolders
          /\ \A s \in SubSources : SubHolders(s)' =
               IF Sub(g) = s THEN SubHolders(s) \ {g} ELSE SubHolders(s)
      BY <2>3, <2>a, <2>b
    <2>6. \A s \in SubSources : Sub(g) = s =>
            Cardinality(SubHolders(s) \ {g}) = Cardinality(SubHolders(s)) - 1
      BY <2>3, <1>0, OneLess
    <2>7. ASSUME NEW s \in SubSources
          PROVE  perSub'[s] = Cardinality(SubHolders(s)') /\ perSub'[s] <= SubSlots
      BY <2>4, <2>5, <2>6, <1>n DEF SlotsMatch, TypeOK
    <2>8. SlotsMatch' BY <2>4, <2>5, <2>7 DEF SlotsMatch, GlobalSlots
    <2>9. QED BY <2>8, <2>1, <2>2
  <1>6. CASE EndTask(g) BY <1>6, EndTaskStep
  <1>7. QED BY <1>1, <1>2, <1>3, <1>4, <1>5, <1>6 DEF Run

LEMMA NextInv == Inv /\ [Next]_vars => Inv'
  <1> SUFFICES ASSUME Inv, [Next]_vars PROVE Inv' OBVIOUS
  <1>1. ASSUME NEW g \in Goroutines, Run(g) PROVE Inv' BY <1>1, RunStep
  <1>2. ASSUME NEW g \in Goroutines, NEW k \in Keys, BeginTask(g, k) PROVE Inv'
    BY <1>2, BeginTaskStep
  <1>3. CASE UNCHANGED vars
    <2>1. GlobalHolders' = GlobalHolders /\ \A s \in SubSources : SubHolders(s)' = SubHolders(s)
      BY <1>3 DEF vars, GlobalHolders, SubHolders, Sub
    <2>2. SlotsMatch' BY <1>3, <2>1 DEF Inv, SlotsMatch, vars
    <2>3. QED BY <1>3, <2>2 DEF vars, Inv, TypeOK, KeyInv, OneTaskPerKey
  <1>4. QED BY <1>1, <1>2, <1>3 DEF Next

-----------------------------------------------------------------------------
(* The theorems.                                                           *)

LEMMA Invariant == Spec => []Inv
  BY InitInv, NextInv, PTL DEF Spec

\* Every variable keeps its type; the slots' counts never go below zero (release).
THEOREM TypeCorrect == Spec => []TypeOK
  BY Invariant, PTL DEF Inv

\* No slot leaks and none is given back twice, for every number of goroutines, keys and
\* slots: each channel holds one token per goroutine that has a slot (tryAcquire, release).
THEOREM SlotsCounted == Spec => []SlotsMatch
  BY Invariant, PTL DEF Inv

\* At most one goroutine works on a key, and the key is pending exactly as long
\* (beginTask, endTask).
THEOREM Deduplicated == Spec => []OneTaskPerKey
  BY Invariant, PTL DEF Inv
=============================================================================
