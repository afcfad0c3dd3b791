----------------------------- MODULE Preloader -----------------------------
(***************************************************************************)
(* The preloader's tasks and the slots they run in                         *)
(* (internal/preloader/preloader.go, scheduler.go).  A read-ahead or a     *)
(* prefetch of the next episode is a goroutine of its own; a task key is   *)
(* in pendingTasks while it runs.  The slots are counting semaphores made  *)
(* of buffered channels: one for all goroutines and one per sub-source,    *)
(* taken without waiting, one after the other, and given back the same way.*)
(***************************************************************************)
EXTENDS Integers, FiniteSets

CONSTANTS SubSources,
          Keys,            \* task keys: sub-source, file and kind of task
          SubOf,           \* the sub-source of a key
          Goroutines,
          MaxConcurrency,  \* DefaultMaxConcurrency
          SubSlots,        \* 2 in the code
          MaxTasks,        \* bound on tasks begun
          NoKey

ASSUME KeysAssumption == SubOf \in [Keys -> SubSources] /\ NoKey \notin Keys
ASSUME GoroutinesAssumption == IsFiniteSet(Goroutines)
ASSUME SlotsAssumption ==
  MaxConcurrency \in Nat /\ SubSlots \in Nat \ {0} /\ MaxTasks \in Nat

\* newScheduler: room for fewer than two counts as not configured.
GlobalSlots == IF MaxConcurrency < 2 THEN 4 ELSE MaxConcurrency

VARIABLES pending,      \* pendingTasks
          pc,           \* "idle", "global", "sub", "back", "fetch", "freeSub",
                        \* "freeGlobal", "end"
          key,          \* the task of each goroutine
          globalSem,    \* tokens in the global channel
          perSub,       \* and in each sub-source's
          begun         \* bounded: tasks begun so far

vars == <<pending, pc, key, globalSem, perSub, begun>>

Init ==
  /\ pending = {}
  /\ pc = [g \in Goroutines |-> "idle"] /\ key = [g \in Goroutines |-> NoKey]
  /\ globalSem = 0 /\ perSub = [s \in SubSources |-> 0]
  /\ begun = 0

Sub(g) == SubOf[key[g]]
Goes(g, p) == pc' = [pc EXCEPT ![g] = p]

BeginTask_NoCheck(g, k) ==
  /\ pc[g] = "idle" /\ begun < MaxTasks
  /\ pending' = pending \cup {k}
  /\ key' = [key EXCEPT ![g] = k] /\ Goes(g, "global")
  /\ begun' = begun + 1
  /\ UNCHANGED <<globalSem, perSub>>

\* OnRead or NextPrefetch for a task that is not running: beginTask and go.  One that
\* is running makes the call do nothing.
BeginTask(g, k) ==
  /\ pc[g] = "idle" /\ begun < MaxTasks
  /\ k \notin pending
  /\ pending' = pending \cup {k}
  /\ key' = [key EXCEPT ![g] = k] /\ Goes(g, "global")
  /\ begun' = begun + 1
  /\ UNCHANGED <<globalSem, perSub>>

\* tryAcquire: the global slot, or none.
TakeGlobal(g) ==
  /\ pc[g] = "global"
  /\ \/ globalSem < GlobalSlots /\ globalSem' = globalSem + 1 /\ Goes(g, "sub")
     \/ globalSem >= GlobalSlots /\ UNCHANGED globalSem /\ Goes(g, "end")
  /\ UNCHANGED <<pending, key, perSub, begun>>

TakeSub(g) ==
  /\ pc[g] = "sub"
  /\ \/ /\ perSub[Sub(g)] < SubSlots
        /\ perSub' = [perSub EXCEPT ![Sub(g)] = @ + 1] /\ Goes(g, "fetch")
     \/ perSub[Sub(g)] >= SubSlots /\ UNCHANGED perSub /\ Goes(g, "back")
  /\ UNCHANGED <<pending, key, globalSem, begun>>

\* No slot for the sub-source: the global one is received back.
GiveBack_Forgets(g) ==
  /\ pc[g] = "back" /\ globalSem > 0
  /\ Goes(g, "end")
  /\ UNCHANGED <<pending, key, globalSem, perSub, begun>>
GiveBack(g) ==
  /\ pc[g] = "back" /\ globalSem > 0
  /\ globalSem' = globalSem - 1 /\ Goes(g, "end")
  /\ UNCHANGED <<pending, key, perSub, begun>>

\* Fetch, and reading to its end or to an error (module Fetcher shows that it ends).
Fetched(g) ==
  /\ pc[g] = "fetch" /\ Goes(g, "freeSub")
  /\ UNCHANGED <<pending, key, globalSem, perSub, begun>>

\* release: a receive from an empty channel would block for ever.
FreeSub(g) ==
  /\ pc[g] = "freeSub" /\ perSub[Sub(g)] > 0
  /\ perSub' = [perSub EXCEPT ![Sub(g)] = @ - 1] /\ Goes(g, "freeGlobal")
  /\ UNCHANGED <<pending, key, globalSem, begun>>

FreeGlobal_Twice(g) ==
  /\ pc[g] = "freeGlobal" /\ globalSem > 0
  /\ globalSem' = globalSem - 2 /\ Goes(g, "end")
  /\ UNCHANGED <<pending, key, perSub, begun>>
FreeGlobal(g) ==
  /\ pc[g] = "freeGlobal" /\ globalSem > 0
  /\ globalSem' = globalSem - 1 /\ Goes(g, "end")
  /\ UNCHANGED <<pending, key, perSub, begun>>

EndTask_Retry(g) ==
  /\ pc[g] = "end" /\ Goes(g, "global")
  /\ UNCHANGED <<pending, key, globalSem, perSub, begun>>
EndTask(g) ==
  /\ pc[g] = "end"
  /\ pending' = pending \ {key[g]}
  /\ key' = [key EXCEPT ![g] = NoKey] /\ Goes(g, "idle")
  /\ UNCHANGED <<globalSem, perSub, begun>>

Run(g) ==
  \/ TakeGlobal(g) \/ TakeSub(g) \/ GiveBack(g) \/ Fetched(g) \/ FreeSub(g)
  \/ FreeGlobal(g) \/ EndTask(g)

Idle == \A g \in Goroutines : pc[g] = "idle"
Next ==
  \/ \E g \in Goroutines : Run(g) \/ \E k \in Keys : BeginTask(g, k)
  \/ Idle /\ begun = MaxTasks /\ UNCHANGED vars

Spec == Init /\ [][Next]_vars

\* Goroutines are scheduled, and every fetch ends.
FairSpec == Spec /\ \A g \in Goroutines : WF_vars(Run(g))

-----------------------------------------------------------------------------
(* Properties.                                                             *)

\* Every variable keeps its type.
TypeOK ==
  /\ pending \subseteq Keys
  /\ pc \in [Goroutines -> {"idle", "global", "sub", "back", "fetch", "freeSub",
                            "freeGlobal", "end"}]
  /\ key \in [Goroutines -> Keys \cup {NoKey}]
  /\ globalSem \in Nat /\ perSub \in [SubSources -> Nat] /\ begun \in Nat

GlobalHolders == {g \in Goroutines : pc[g] \in {"sub", "back", "fetch", "freeSub", "freeGlobal"}}
SubHolders(s) == {g \in Goroutines : pc[g] \in {"fetch", "freeSub"} /\ Sub(g) = s}

\* Each channel holds one token per goroutine that has a slot, so no early return
\* leaks a slot or gives one back twice, and no release waits for a token that is
\* not there (tryAcquire, release).
SlotsMatch ==
  /\ globalSem = Cardinality(GlobalHolders) /\ globalSem <= GlobalSlots
  /\ \A s \in SubSources : perSub[s] = Cardinality(SubHolders(s)) /\ perSub[s] <= SubSlots

\* A key is pending exactly while one goroutine works on it, and never two do: the
\* deduplication (beginTask) outlives every early return (endTask is deferred).
OneTaskPerKey ==
  /\ \A k \in Keys : k \in pending <=> \E g \in Goroutines : key[g] = k
  /\ \A g, h \in Goroutines : g # h /\ key[g] = key[h] => key[g] = NoKey

\* Every task ends and its key may be asked for again.
TasksEnd == \A g \in Goroutines : pc[g] # "idle" ~> pc[g] = "idle"
=============================================================================
