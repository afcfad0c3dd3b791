------------------------------ MODULE Assessor ------------------------------
(***************************************************************************)
(* The profile of one sub-source (internal/assessor/assessor.go over the   *)
(* profiles and samples tables of internal/store/store.go) and the         *)
(* concurrency planned from it (Planner.Plan in internal/fetcher/plan.go). *)
(* Fetches that end record a sample, workers that meet a 429 or 503 mark   *)
(* the sub-source throttled; both read the profile and save it again in    *)
(* statements of their own, and nothing locks it in between.               *)
(***************************************************************************)
EXTENDS Integers, Sequences, FiniteSets

CONSTANTS Threads,
          Rates,                     \* throughputs a fetch can measure, in MB/s
          SlowSourceThresholdMbps,
          ProfileMaxSamples, ProfileMaxAgeSec, DefaultMaxConcurrency,
          PriorRows,                 \* the row a database may hold before, or NoRow
          MaxClock, MaxSamples,      \* bounds
          NoRow

Friendliness == {"friendly", "unfriendly", "throttled", "unknown"}

\* covers is not stored: how many samples had been recorded when bandwidth was computed.
Row == [bandwidth : Nat, friendly : Friendliness, suggestedN : Nat, isSlow : BOOLEAN,
        updatedAt : Nat, covers : Nat]

ASSUME ProfileAssumption ==
  /\ Rates \subseteq Nat /\ SlowSourceThresholdMbps \in Nat
  /\ ProfileMaxSamples \in Nat \ {0} /\ ProfileMaxAgeSec \in Nat
  /\ DefaultMaxConcurrency \in Nat
  /\ MaxClock \in Nat /\ MaxSamples \in Nat
ASSUME PriorAssumption ==
  /\ PriorRows \subseteq Row \cup {NoRow} /\ NoRow \notin Row
  /\ \A r \in PriorRows \ {NoRow} : ~r.isSlow /\ r.covers = 0

VARIABLES clock,
          samples,   \* throughputs, oldest first; rows are never deleted
          row,       \* the profile
          call       \* what each thread does

vars == <<clock, samples, row, call>>

Idle == [pc |-> "idle", bandwidth |-> 0, covers |-> 0, friendly |-> "unknown",
         isSlow |-> FALSE]

Init ==
  /\ clock = 0 /\ samples = <<>> /\ row \in PriorRows
  /\ call = [t \in Threads |-> Idle]

At(t, p) == call[t].pc = p

\* GetSamples: the newest ProfileMaxSamples of the first n.
Window(n) ==
  SubSeq(samples, IF n > ProfileMaxSamples THEN n - ProfileMaxSamples + 1 ELSE 1, n)

\* The element at index n / 2 of the sorted list: of an even number the upper middle one.
median_Lower(xs) ==
  CHOOSE m \in {xs[i] : i \in DOMAIN xs} :
    /\ 2 * Cardinality({i \in DOMAIN xs : xs[i] < m}) < Len(xs)
    /\ 2 * Cardinality({i \in DOMAIN xs : xs[i] <= m}) >= Len(xs)
median(xs) ==
  CHOOSE m \in {xs[i] : i \in DOMAIN xs} :
    /\ 2 * Cardinality({i \in DOMAIN xs : xs[i] < m}) <= Len(xs)
    /\ 2 * Cardinality({i \in DOMAIN xs : xs[i] <= m}) > Len(xs)

suggestedN(friendly) == IF friendly = "friendly" THEN DefaultMaxConcurrency ELSE 1

-----------------------------------------------------------------------------
(* RecordSample: append, read the samples, read the profile, save.         *)

\* The time stamp of a sample is left out: nothing reads it back.
AppendSample(t) ==
  /\ At(t, "idle") /\ Len(samples) < MaxSamples
  /\ \E r \in Rates : samples' = Append(samples, r)
  /\ call' = [call EXCEPT ![t].pc = "samples"]
  /\ UNCHANGED <<clock, row>>

GetSamples(t) ==
  /\ At(t, "samples")
  /\ call' = [call EXCEPT ![t].pc = "profile", ![t].covers = Len(samples),
                          ![t].bandwidth = median(Window(Len(samples)))]
  /\ UNCHANGED <<clock, samples, row>>

\* No row reads as a friendliness of "", which becomes unknown.
ReadProfile_Raw(t) ==
  /\ At(t, "profile")
  /\ call' = [call EXCEPT ![t].pc = "save",
                          ![t].friendly = IF row = NoRow THEN "" ELSE row.friendly]
  /\ UNCHANGED <<clock, samples, row>>
ReadProfile_Friendly(t) ==
  /\ At(t, "profile")
  /\ call' = [call EXCEPT ![t].pc = "save",
                          ![t].friendly = IF row = NoRow THEN "friendly" ELSE row.friendly]
  /\ UNCHANGED <<clock, samples, row>>
ReadProfile(t) ==
  /\ At(t, "profile")
  /\ call' = [call EXCEPT ![t].pc = "save",
                          ![t].friendly = IF row = NoRow THEN "unknown" ELSE row.friendly]
  /\ UNCHANGED <<clock, samples, row>>

Save(t, slow, friendly) ==
  /\ row' = [bandwidth |-> call[t].bandwidth, friendly |-> friendly,
             suggestedN |-> suggestedN(friendly), isSlow |-> slow, updatedAt |-> clock,
             covers |-> call[t].covers]
  /\ call' = [call EXCEPT ![t] = Idle]
  /\ UNCHANGED <<clock, samples>>

SaveSample(t) ==
  /\ At(t, "save")
  /\ Save(t, call[t].bandwidth < SlowSourceThresholdMbps, call[t].friendly)

-----------------------------------------------------------------------------
(* MarkThrottled: read the profile, save it with another friendliness.     *)

ReadForMark(t) ==
  /\ At(t, "idle")
  /\ call' = [call EXCEPT ![t] =
                IF row = NoRow THEN [Idle EXCEPT !.pc = "mark"]
                ELSE [Idle EXCEPT !.pc = "mark", !.bandwidth = row.bandwidth,
                                  !.covers = row.covers, !.isSlow = row.isSlow]]
  /\ UNCHANGED <<clock, samples, row>>

SaveMark(t) == At(t, "mark") /\ Save(t, call[t].isSlow, "throttled")

-----------------------------------------------------------------------------
Tick == clock < MaxClock /\ clock' = clock + 1 /\ UNCHANGED <<samples, row, call>>

\* The process ends and starts again; the database stays.
Restart ==
  /\ \E t \in Threads : ~At(t, "idle")
  /\ call' = [t \in Threads |-> Idle]
  /\ UNCHANGED <<clock, samples, row>>

expired(updatedAt) == ProfileMaxAgeSec > 0 /\ clock - updatedAt > ProfileMaxAgeSec

\* GetProfile: without a row, or with one past its age (0 is no limit), it is unknown.
GetProfile ==
  IF row = NoRow \/ expired(row.updatedAt)
  THEN [bandwidth |-> 0, friendly |-> "unknown", suggestedN |-> 1, isSlow |-> FALSE]
  ELSE [bandwidth |-> row.bandwidth, friendly |-> row.friendly,
        suggestedN |-> row.suggestedN, isSlow |-> row.isSlow]

\* Planner.Plan: how many connections a fetch is given.
PlanN(profile) ==
  LET n == IF profile.friendly = "friendly" /\ profile.suggestedN > 1
           THEN IF profile.suggestedN > DefaultMaxConcurrency
                THEN DefaultMaxConcurrency ELSE profile.suggestedN
           ELSE 1
  IN IF n <= 0 THEN 1 ELSE n

Step(t) ==
  \/ AppendSample(t) \/ GetSamples(t) \/ ReadProfile(t) \/ SaveSample(t)
  \/ ReadForMark(t) \/ SaveMark(t)

Next == Tick \/ Restart \/ \E t \in Threads : Step(t)

Spec == Init /\ [][Next]_vars

-----------------------------------------------------------------------------
(* Properties.                                                             *)

\* Every variable keeps its type.
TypeOK ==
  /\ clock \in Nat /\ samples \in Seq(Rates)
  /\ row \in Row \cup {NoRow}
  /\ call \in [Threads -> [pc : {"idle", "samples", "profile", "save", "mark"},
                           bandwidth : Nat, covers : Nat, friendly : Friendliness,
                           isSlow : BOOLEAN]]

MostlySlow(xs) ==
  2 * Cardinality({i \in DOMAIN xs : xs[i] < SlowSourceThresholdMbps}) > Len(xs)

\* The profile says slow exactly if more than half of the window of samples its bandwidth
\* was computed from were, however samples, marks, lost updates and restarts have come
\* between: the two are always of one computation (RecordSample, median; MarkThrottled
\* copies both and computes neither).
SlowIsMeasured ==
  row # NoRow => (row.isSlow <=> row.covers > 0 /\ MostlySlow(Window(row.covers)))

Friendly(r) == r # NoRow /\ r.friendly = "friendly"

\* The source is not friendly, and no RecordSample is under way that found it so.
Settled == ~Friendly(row) /\ \A t \in Threads : call[t].friendly # "friendly"

\* web/guide/features.md:52 and degradation.md:13, once the mark has stuck: from a state
\* where the source is not friendly and no RecordSample under way found it so, no sample,
\* restart or passing of time makes it friendly again, and every later plan is for one
\* connection (suggestedN, GetProfile, Planner.Plan).  It begins after the mark can no
\* longer be lost: one saved between another call's read and save is overwritten, against
\* the documents.
StaysSettled == [][Settled => Settled' /\ PlanN(GetProfile)' = 1]_vars

\* web/guide/features.md:12 and 16: an active probe, made when a sub-source first appears,
\* judges whether more connections help; a friendliness is unknown for want of samples or
\* because they have expired.  So a profile with a full window behind it that is still
\* young is known to be friendly or not (EnsureProfile and ProbeMultiConnection of probe.go
\* have no caller).
FriendlinessIsJudged ==
  row # NoRow /\ row.covers >= ProfileMaxSamples /\ ~expired(row.updatedAt) =>
    GetProfile.friendly # "unknown"
=============================================================================
