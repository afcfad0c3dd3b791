--------------------------- MODULE AssessorProofs ---------------------------
(***************************************************************************)
(* What a profile says, for every set of threads, every throughput and     *)
(* every window: a source called slow has been measured slow, and a source *)
(* once throttled stays so.  Then displayed paths (Listing), for every     *)
(* tree of folders and every order of listings: the names a client sends   *)
(* are the upstream's names, and one mark among them comes off.            *)
(***************************************************************************)
EXTENDS Listing, Lemmas, FiniteSetTheorems, SequenceTheorems

-----------------------------------------------------------------------------
(* The median.                                                             *)

\* Finitely many naturals have a bound.
LEMMA Bounded ==
  ASSUME NEW n \in Nat, NEW f \in [1 .. n -> Nat]
  PROVE  \E b \in Nat : \A i \in 1 .. n : f[i] <= b
  <1> DEFINE Bad == {k \in 0 .. n : \A b \in Nat : \E i \in 1 .. k : ~(f[i] <= b)}
  <1>1. SUFFICES ASSUME n \in Bad PROVE FALSE OBVIOUS
  <1>2. Bad \subseteq Nat OBVIOUS
  <1>3. \A k \in Bad : k \in 0 .. n /\ \A b \in Nat : \E i \in 1 .. k : ~(f[i] <= b)
    OBVIOUS
  <1>4. \A k \in 0 .. n : k \notin Bad => \E b \in Nat : \A i \in 1 .. k : f[i] <= b
    OBVIOUS
  <1> HIDE DEF Bad
  <1>5. PICK k \in Bad : \A m \in Bad : k <= m BY <1>1, <1>2, LeastNatural
  <1>6. k # 0
    <2>1. 0 \in Nat /\ 1 .. 0 = {} OBVIOUS
    <2>2. QED BY <1>3, <2>1
  <1>7. \E b \in Nat : \A i \in 1 .. k - 1 : f[i] <= b
    <2>1. k \in 0 .. n BY <1>3
    <2>2. k - 1 \in 0 .. n BY <2>1, <1>6
    <2>3. k - 1 \notin Bad
      <3>1. ~(k <= k - 1) BY <2>1
      <3>2. QED BY <1>5, <3>1
    <2>4. QED BY <1>4, <2>2, <2>3
  <1>8. PICK b \in Nat : \A i \in 1 .. k - 1 : f[i] <= b BY <1>7
  <1>9. k \in 1 .. n /\ f[k] \in Nat
    <2>1. k \in 0 .. n BY <1>3
    <2>2. k \in 1 .. n BY <2>1, <1>6
    <2>3. QED BY <2>2
  <1>10. \E c \in Nat : b <= c /\ f[k] <= c
    <2>1. CASE b <= f[k] BY <2>1, <1>9
    <2>2. CASE ~(b <= f[k]) BY <2>2, <1>9
    <2>3. QED BY <2>1, <2>2
  <1>11. PICK c \in Nat : b <= c /\ f[k] <= c BY <1>10
  <1>12. \A i \in 1 .. k : f[i] <= c
    <2> TAKE i \in 1 .. k
    <2>1. CASE i = k BY <2>1, <1>11
    <2>2. CASE i # k
      <3>1. i \in 1 .. k - 1 /\ f[i] \in Nat BY <2>2, <1>9
      <3>2. f[i] <= b BY <3>1, <1>8
      <3>3. QED BY <3>1, <3>2, <1>11
    <2>3. QED BY <2>1, <2>2
  <1>13. QED BY <1>3, <1>12

LEMMA UpToSize ==
  ASSUME NEW n \in Nat
  PROVE  IsFiniteSet(1 .. n) /\ Cardinality(1 .. n) = n
  <1>1. /\ IsFiniteSet(1 .. n)
        /\ Cardinality(1 .. n) = IF 1 > n THEN 0 ELSE n - 1 + 1
    BY FS_Interval
  <1>2. QED BY <1>1

Below(xs, v) == {i \in DOMAIN xs : xs[i] < v}
UpTo(xs, v) == {i \in DOMAIN xs : xs[i] <= v}

LEMMA Counts ==
  ASSUME NEW xs \in Seq(Nat), NEW S \in SUBSET (DOMAIN xs), NEW T \in SUBSET S
  PROVE  /\ IsFiniteSet(S) /\ Cardinality(S) \in Nat /\ Cardinality(T) \in Nat
         /\ Cardinality(T) <= Cardinality(S) /\ Cardinality(S) <= Len(xs)
  <1>1. IsFiniteSet(DOMAIN xs) /\ Cardinality(DOMAIN xs) = Len(xs)
    <2>1. DOMAIN xs = 1 .. Len(xs) /\ Len(xs) \in Nat OBVIOUS
    <2>2. QED BY <2>1, UpToSize
  <1>2. IsFiniteSet(S) /\ Cardinality(S) <= Len(xs) BY <1>1, FS_Subset
  <1>3. IsFiniteSet(T) /\ Cardinality(T) <= Cardinality(S) BY <1>2, FS_Subset
  <1>4. QED BY <1>2, <1>3, FS_CardinalityType

\* A sequence that is not empty has a median: at most half of it is below, and more than
\* half is not above.
LEMMA MedianIs ==
  ASSUME NEW xs \in Seq(Nat), Len(xs) > 0
  PROVE  /\ median(xs) \in Nat
         /\ 2 * Cardinality(Below(xs, median(xs))) <= Len(xs)
         /\ 2 * Cardinality(UpTo(xs, median(xs))) > Len(xs)
  <1> DEFINE W == {n \in Nat : 2 * Cardinality(UpTo(xs, n)) > Len(xs)}
  <1>1. PICK b \in Nat : \A i \in 1 .. Len(xs) : xs[i] <= b
    <2>1. Len(xs) \in Nat /\ xs \in [1 .. Len(xs) -> Nat] OBVIOUS
    <2>2. QED BY <2>1, Bounded
  <1>2. UpTo(xs, b) = 1 .. Len(xs) BY <1>1 DEF UpTo
  <1>3. Cardinality(UpTo(xs, b)) = Len(xs) BY <1>2, UpToSize
  <1>4. b \in W BY <1>3
  <1>5. PICK m \in W : \A n \in W : m <= n BY <1>4, LeastNatural
  <1>6. /\ Below(xs, m) \in SUBSET (DOMAIN xs) /\ UpTo(xs, m) \in SUBSET (DOMAIN xs)
        /\ Cardinality(Below(xs, m)) \in Nat /\ Cardinality(UpTo(xs, m)) \in Nat
    BY Counts DEF Below, UpTo
  <1>7. \A i \in DOMAIN xs : xs[i] \in Nat OBVIOUS
  <1>8. 2 * Cardinality(Below(xs, m)) <= Len(xs)
    <2>1. CASE m = 0
      <3>1. Below(xs, m) = {} BY <2>1, <1>7 DEF Below
      <3>2. QED BY <3>1, FS_EmptySet
    <2>2. CASE m # 0
      <3>1. m - 1 \in Nat /\ m - 1 \notin W BY <2>2, <1>5
      <3>2. Below(xs, m) = UpTo(xs, m - 1) BY <1>5, <1>7 DEF Below, UpTo
      <3>3. QED BY <3>1, <3>2, <1>6
    <2>3. QED BY <2>1, <2>2
  <1>9. m \in {xs[i] : i \in DOMAIN xs}
    <2>1. SUFFICES ASSUME \A i \in DOMAIN xs : xs[i] # m PROVE FALSE OBVIOUS
    <2>2. UpTo(xs, m) = Below(xs, m) BY <2>1, <1>5, <1>7 DEF Below, UpTo
    <2>3. QED BY <2>2, <1>5, <1>6, <1>8
  <1>10. /\ 2 * Cardinality({i \in DOMAIN xs : xs[i] < m}) <= Len(xs)
         /\ 2 * Cardinality({i \in DOMAIN xs : xs[i] <= m}) > Len(xs)
    BY <1>5, <1>8 DEF Below, UpTo
  <1>11. /\ median(xs) \in {xs[i] : i \in DOMAIN xs}
         /\ 2 * Cardinality({i \in DOMAIN xs : xs[i] < median(xs)}) <= Len(xs)
         /\ 2 * Cardinality({i \in DOMAIN xs : xs[i] <= median(xs)}) > Len(xs)
    BY <1>9, <1>10, Zenon DEF median
  <1>12. QED BY <1>7, <1>11 DEF Below, UpTo

\* The median is below a threshold exactly if more than half of the sequence is.
LEMMA MedianSays ==
  ASSUME NEW xs \in Seq(Nat), Len(xs) > 0
  PROVE  median(xs) < SlowSourceThresholdMbps <=> MostlySlow(xs)
  <1> USE ProfileAssumption
  <1> DEFINE T == SlowSourceThresholdMbps
             m == median(xs)
  <1>1. /\ m \in Nat /\ 2 * Cardinality(Below(xs, m)) <= Len(xs)
        /\ 2 * Cardinality(UpTo(xs, m)) > Len(xs)
    BY MedianIs
  <1> HIDE DEF m
  <1>2. \A i \in DOMAIN xs : xs[i] \in Nat OBVIOUS
  <1>3. /\ Below(xs, m) \in SUBSET (DOMAIN xs) /\ UpTo(xs, m) \in SUBSET (DOMAIN xs)
        /\ Below(xs, T) \in SUBSET (DOMAIN xs)
    BY DEF Below, UpTo
  <1>4. CASE m < T
    <2>1. UpTo(xs, m) \in SUBSET Below(xs, T) BY <1>4, <1>1, <1>2 DEF Below, UpTo
    <2>2. Cardinality(UpTo(xs, m)) <= Cardinality(Below(xs, T)) BY <2>1, <1>3, Counts
    <2>3. /\ Cardinality(UpTo(xs, m)) \in Nat /\ Cardinality(Below(xs, T)) \in Nat
      BY <1>3, Counts
    <2>4. 2 * Cardinality(Below(xs, T)) > Len(xs) BY <1>1, <2>2, <2>3
    <2>5. QED BY <1>4, <2>4 DEF MostlySlow, Below, m
  <1>5. CASE ~(m < T)
    <2>1. Below(xs, T) \in SUBSET Below(xs, m) BY <1>5, <1>1, <1>2 DEF Below
    <2>2. Cardinality(Below(xs, T)) <= Cardinality(Below(xs, m)) BY <2>1, <1>3, Counts
    <2>3. /\ Cardinality(Below(xs, T)) \in Nat /\ Cardinality(Below(xs, m)) \in Nat
      BY <1>3, Counts
    <2>4. ~(2 * Cardinality(Below(xs, T)) > Len(xs)) BY <1>1, <2>2, <2>3
    <2>5. QED BY <1>5, <2>4 DEF MostlySlow, Below, m
  <1>6. QED BY <1>4, <1>5

-----------------------------------------------------------------------------
(* Types, and where a profile's numbers come from.                         *)

USE ProfileAssumption, PriorAssumption

\* Slow is said of the samples that are covered.
Measures(c) ==
  /\ c.covers <= Len(samples)
  /\ c.isSlow <=> c.covers > 0 /\ MostlySlow(Window(c.covers))

\* What the profile holds and what a thread is about to save was computed from samples.
MeasuredInv ==
  /\ row # NoRow => Measures(row)
  /\ \A t \in Threads :
       /\ At(t, "samples") => Len(samples) > 0
       /\ At(t, "mark") => Measures(call[t])
       /\ call[t].pc \in {"profile", "save"} =>
            /\ call[t].covers \in 1 .. Len(samples)
            /\ call[t].bandwidth = median(Window(call[t].covers))

Inv == TypeOK /\ MeasuredInv

Call == [pc : {"idle", "samples", "profile", "save", "mark"},
         bandwidth : Nat, covers : Nat, friendly : Friendliness, isSlow : BOOLEAN]

\* A window of recorded samples is a sequence of throughputs, empty only before the first.
LEMMA WindowIs ==
  ASSUME samples \in Seq(Rates), NEW n \in 1 .. Len(samples)
  PROVE  Window(n) \in Seq(Nat) /\ Len(Window(n)) > 0
  <1> DEFINE m == IF n > ProfileMaxSamples THEN n - ProfileMaxSamples + 1 ELSE 1
  <1>1. m \in 1 .. n OBVIOUS
  <1>2. samples \in Seq(Nat) /\ Len(samples) \in Nat
    <2>1. Rates \subseteq Nat OBVIOUS
    <2>2. QED BY <2>1, SeqMonotonic, LenProperties
  <1> HIDE DEF m
  <1>3. SubSeq(samples, m, n) \in Seq(Nat) /\ Len(SubSeq(samples, m, n)) = n - m + 1
    BY <1>1, <1>2
  <1>4. Window(n) = SubSeq(samples, m, n) BY DEF Window, m
  <1>5. QED BY <1>1, <1>3, <1>4

\* A sample more leaves the windows of before as they were.
LEMMA WindowStays ==
  ASSUME samples \in Seq(Rates), NEW r \in Rates, samples' = Append(samples, r),
         NEW n \in 0 .. Len(samples)
  PROVE  Window(n)' = Window(n)
  <1> DEFINE m == IF n > ProfileMaxSamples THEN n - ProfileMaxSamples + 1 ELSE 1
  <1>1. m \in Nat \ {0} /\ n \in Nat OBVIOUS
  <1> HIDE DEF m
  <1>2. \A i \in 1 .. n : Append(samples, r)[i] = samples[i] OBVIOUS
  <1>3. SubSeq(Append(samples, r), m, n) = SubSeq(samples, m, n)
    <2> DEFINE x == SubSeq(Append(samples, r), m, n)
               y == SubSeq(samples, m, n)
    <2>1. \A i \in m .. n : Append(samples, r)[i] = samples[i] /\ samples[i] \in Rates
      BY <1>1, <1>2
    <2>2. /\ y \in Seq(Rates) /\ Len(y) = IF m <= n THEN n - m + 1 ELSE 0
          /\ \A i \in 1 .. n - m + 1 : y[i] = samples[m + i - 1]
      BY <1>1, <2>1, SubSeqProperties
    <2>3. /\ x \in Seq(Rates) /\ Len(x) = IF m <= n THEN n - m + 1 ELSE 0
          /\ \A i \in 1 .. n - m + 1 : x[i] = Append(samples, r)[m + i - 1]
      BY <1>1, <2>1, SubSeqProperties
    <2> HIDE DEF x, y
    <2>4. \A i \in 1 .. Len(x) : x[i] = y[i]
      <3> TAKE i \in 1 .. Len(x)
      <3>1. i \in 1 .. n - m + 1 /\ m + i - 1 \in m .. n BY <2>3, <1>1
      <3>2. QED BY <3>1, <2>1, <2>2, <2>3
    <2>5. x = y BY <2>2, <2>3, <2>4, SeqEqual
    <2>6. QED BY <2>5 DEF x, y
  <1>4. QED BY <1>3 DEF Window, m

LEMMA InitInv == Init => Inv
  <1> SUFFICES ASSUME Init PROVE Inv OBVIOUS
  <1>1. samples \in Seq(Rates) /\ Len(samples) = 0 BY DEF Init
  <1>2. Idle \in Call BY DEF Idle, Call, Friendliness
  <1>3. TypeOK BY <1>1, <1>2 DEF Init, TypeOK, Call
  <1>4. row # NoRow => Measures(row)
    <2> SUFFICES ASSUME row # NoRow PROVE Measures(row) OBVIOUS
    <2>1. ~row.isSlow /\ row.covers = 0 BY DEF Init
    <2>2. row.covers <= Len(samples) BY <2>1, <1>1
    <2>3. row \in Row BY DEF Init
    <2>4. row.isSlow \in BOOLEAN BY <2>3 DEF Row
    <2>5. QED BY <2>1, <2>2, <2>4 DEF Measures
  <1>5. \A t \in Threads : call[t].pc = "idle" BY DEF Init, Idle
  <1>6. QED BY <1>3, <1>4, <1>5 DEF Inv, MeasuredInv, At

LEMMA CallTyped ==
  ASSUME TypeOK, NEW t \in Threads
  PROVE  /\ call[t] \in Call /\ Idle \in Call
         /\ call[t].covers \in Nat /\ call[t].bandwidth \in Nat
         /\ call[t].friendly \in Friendliness /\ call[t].isSlow \in BOOLEAN
  BY DEF TypeOK, Call, Idle, Friendliness

\* The samples stay, and so does what was computed from them.
LEMMA MeasuresStays ==
  ASSUME NEW c, Measures(c), UNCHANGED samples
  PROVE  /\ c.covers <= Len(samples')
         /\ c.isSlow <=> c.covers > 0 /\ MostlySlow(Window(c.covers)')
  BY DEF Measures, Window

LEMMA AppendInv ==
  ASSUME Inv, NEW t \in Threads, AppendSample(t)
  PROVE  Inv'
  <1>1. PICK r \in Rates : samples' = Append(samples, r) BY DEF AppendSample
  <1>2. /\ samples \in Seq(Rates) /\ samples' \in Seq(Rates) /\ Len(samples) \in Nat
        /\ Len(samples') = Len(samples) + 1
    BY <1>1 DEF Inv, TypeOK
  <1>3. UNCHANGED <<clock, row>> BY DEF AppendSample
  <1>4. call' = [call EXCEPT ![t] = [call[t] EXCEPT !.pc = "samples"]] BY DEF AppendSample
  <1>5. call[t] \in Call /\ call \in [Threads -> Call] BY CallTyped DEF Inv, TypeOK, Call
  <1>6. [call[t] EXCEPT !.pc = "samples"] \in Call BY <1>5 DEF Call
  <1>7. TypeOK' BY <1>2, <1>3, <1>4, <1>5, <1>6 DEF Inv, TypeOK, Call
  <1>8. \A n \in 0 .. Len(samples) : Window(n)' = Window(n) BY <1>1, <1>2, WindowStays
  <1>9. (row # NoRow => Measures(row))'
    <2> SUFFICES ASSUME row # NoRow PROVE Measures(row)' BY <1>3
    <2>1. Measures(row) /\ row \in Row BY DEF Inv, MeasuredInv, TypeOK
    <2>2. row.covers \in 0 .. Len(samples) BY <2>1, <1>2 DEF Measures, Row
    <2>3. row.covers <= Len(samples') BY <2>2, <1>2
    <2>4. Window(row.covers)' = Window(row.covers)
      <3>1. \A n : n = row.covers => Window(row.covers)' = Window(n)' BY <1>3 DEF Window
      <3>2. QED BY <3>1, <2>2, <1>8
    <2>5. QED BY <2>1, <2>3, <2>4, <1>3 DEF Measures
  <1>10. ASSUME NEW u \in Threads
         PROVE  /\ At(u, "samples")' => Len(samples') > 0
                /\ At(u, "mark")' => Measures(call[u])'
                /\ call'[u].pc \in {"profile", "save"} =>
                     /\ call'[u].covers \in 1 .. Len(samples')
                     /\ call'[u].bandwidth = median(Window(call[u].covers)')
    <2>1. Len(samples') > 0 BY <1>2
    <2>2. CASE u = t
      <3>1. call'[u].pc = "samples" BY <2>2, <1>4, <1>5, <1>6 DEF Call
      <3>2. QED BY <2>1, <3>1 DEF At
    <2>3. CASE u # t
      <3>1. call'[u] = call[u] BY <2>3, <1>4, <1>5
      <3>2. call[u].covers \in Nat BY CallTyped DEF Inv
      <3>3. call[u].covers <= Len(samples) => Window(call[u].covers)' = Window(call[u].covers)
        <4>1. \A n : n = call[u].covers => Window(call[u].covers)' = Window(n)'
          BY <3>1 DEF Window
        <4>2. QED BY <4>1, <3>2, <1>2, <1>8
      <3>4. At(u, "mark")' => Measures(call[u])'
        <4> SUFFICES ASSUME call[u].pc = "mark" PROVE Measures(call[u])' BY <3>1 DEF At
        <4>1. Measures(call[u]) BY DEF Inv, MeasuredInv, At
        <4>2. call[u].covers <= Len(samples) /\ call[u].covers <= Len(samples')
          BY <4>1, <3>2, <1>2 DEF Measures
        <4>3. QED BY <4>1, <4>2, <3>1, <3>3 DEF Measures
      <3>5. call[u].pc \in {"profile", "save"} =>
              /\ call[u].covers \in 1 .. Len(samples)
              /\ call[u].bandwidth = median(Window(call[u].covers))
        BY DEF Inv, MeasuredInv
      <3>6. QED BY <2>1, <1>2, <3>1, <3>3, <3>4, <3>5
    <2>4. QED BY <2>2, <2>3
  <1>11. MeasuredInv' BY <1>9, <1>10 DEF MeasuredInv, At
  <1>12. QED BY <1>7, <1>11 DEF Inv

\* A step that records nothing, of one thread.
LEMMA QuietInv ==
  ASSUME Inv, NEW t \in Threads, NEW c \in Call, NEW p \in Row \cup {NoRow},
         UNCHANGED <<clock, samples>>,
         call' = [call EXCEPT ![t] = c], row' = p,
         p # NoRow => Measures(p),
         c.pc = "samples" => Len(samples) > 0,
         c.pc = "mark" => Measures(c),
         c.pc \in {"profile", "save"} =>
           c.covers \in 1 .. Len(samples) /\ c.bandwidth = median(Window(c.covers))
  PROVE  Inv'
  <1>1. call \in [Threads -> Call] BY DEF Inv, TypeOK, Call
  <1>2. TypeOK' BY <1>1 DEF Inv, TypeOK, Call
  <1>3. (row # NoRow => Measures(row))' BY DEF Measures, Window
  <1>4. ASSUME NEW u \in Threads
        PROVE  /\ At(u, "samples")' => Len(samples') > 0
               /\ At(u, "mark")' => Measures(call[u])'
               /\ call'[u].pc \in {"profile", "save"} =>
                    /\ call'[u].covers \in 1 .. Len(samples')
                    /\ call'[u].bandwidth = median(Window(call[u].covers)')
    <2>1. CASE u = t
      <3>1. call'[u] = c BY <2>1, <1>1
      <3>2. c.pc = "mark" => Measures(call[u])' BY <3>1 DEF Measures, Window
      <3>3. QED BY <3>1, <3>2 DEF At, Window
    <2>2. CASE u # t
      <3>1. call'[u] = call[u] BY <2>2, <1>1
      <3>2. call[u].pc = "mark" => Measures(call[u])'
        BY <3>1 DEF Inv, MeasuredInv, Measures, Window, At
      <3>3. QED BY <3>1, <3>2 DEF At, Window, Inv, MeasuredInv
    <2>3. QED BY <2>1, <2>2
  <1>5. QED BY <1>2, <1>3, <1>4 DEF Inv, MeasuredInv, At

LEMMA GetSamplesInv ==
  ASSUME Inv, NEW t \in Threads, GetSamples(t)
  PROVE  Inv'
  <1> DEFINE n == Len(samples)
             c == [call[t] EXCEPT !.pc = "profile", !.covers = n, !.bandwidth = median(Window(n))]
  <1>1. samples \in Seq(Rates) /\ n \in Nat /\ n > 0
    BY DEF Inv, TypeOK, MeasuredInv, GetSamples
  <1>2. n \in 1 .. Len(samples) BY <1>1
  <1>3. median(Window(n)) \in Nat BY <1>1, <1>2, WindowIs, MedianIs
  <1>4. call[t] \in Call BY CallTyped DEF Inv
  <1>5. /\ c \in Call /\ c.pc = "profile" /\ c.covers = n /\ c.bandwidth = median(Window(n))
    BY <1>1, <1>3, <1>4 DEF Call
  <1>6. call' = [call EXCEPT ![t] = c] BY DEF GetSamples
  <1> HIDE DEF c, n
  <1>7. row \in Row \cup {NoRow} /\ (row # NoRow => Measures(row))
    BY DEF Inv, TypeOK, MeasuredInv
  <1>8. c.covers \in 1 .. Len(samples) /\ c.bandwidth = median(Window(c.covers)) BY <1>2, <1>5
  <1>9. UNCHANGED <<clock, samples, row>> BY DEF GetSamples
  <1>10. QED BY <1>5, <1>6, <1>7, <1>8, <1>9, QuietInv

LEMMA ReadProfileInv ==
  ASSUME Inv, NEW t \in Threads, ReadProfile(t)
  PROVE  Inv'
  <1> DEFINE f == IF row = NoRow THEN "unknown" ELSE row.friendly
             c == [call[t] EXCEPT !.pc = "save", !.friendly = f]
  <1>1. row \in Row \cup {NoRow} /\ (row # NoRow => Measures(row))
    BY DEF Inv, TypeOK, MeasuredInv
  <1>2. f \in Friendliness BY <1>1 DEF Row, Friendliness
  <1>3. call[t] \in Call BY CallTyped DEF Inv
  <1>4. call' = [call EXCEPT ![t] = c] BY DEF ReadProfile
  <1>5. UNCHANGED <<clock, samples, row>> BY DEF ReadProfile
  <1> HIDE DEF f
  <1>6. /\ c \in Call /\ c.pc = "save" /\ c.covers = call[t].covers
        /\ c.bandwidth = call[t].bandwidth
    BY <1>2, <1>3 DEF Call
  <1>7. /\ call[t].covers \in 1 .. Len(samples)
        /\ call[t].bandwidth = median(Window(call[t].covers))
    BY DEF Inv, MeasuredInv, ReadProfile, At
  <1> HIDE DEF c
  <1>8. QED BY <1>1, <1>4, <1>5, <1>6, <1>7, QuietInv

\* SaveProfile of a row that says what was measured.
LEMMA SaveInv ==
  ASSUME Inv, NEW t \in Threads, NEW slow \in BOOLEAN, NEW friendly \in Friendliness,
         Save(t, slow, friendly),
         call[t].covers <= Len(samples),
         slow <=> call[t].covers > 0 /\ MostlySlow(Window(call[t].covers))
  PROVE  Inv'
  <1> DEFINE p == [bandwidth |-> call[t].bandwidth, friendly |-> friendly,
                   suggestedN |-> suggestedN(friendly), isSlow |-> slow,
                   updatedAt |-> clock, covers |-> call[t].covers]
  <1>1. /\ Idle \in Call /\ call[t].covers \in Nat /\ call[t].bandwidth \in Nat
    BY CallTyped DEF Inv
  <1>2. suggestedN(friendly) \in Nat BY DEF suggestedN
  <1>3. clock \in Nat BY DEF Inv, TypeOK
  <1>4. p \in Row BY <1>1, <1>2, <1>3 DEF Row
  <1>5. p.covers = call[t].covers /\ p.isSlow = slow OBVIOUS
  <1>6. row' = p /\ call' = [call EXCEPT ![t] = Idle] /\ UNCHANGED <<clock, samples>>
    BY DEF Save
  <1> HIDE DEF p
  <1>7. Measures(p) BY <1>5 DEF Measures
  <1>8. Idle.pc = "idle" BY DEF Idle
  <1>9. QED BY <1>1, <1>4, <1>6, <1>7, <1>8, QuietInv

LEMMA SaveSampleInv ==
  ASSUME Inv, NEW t \in Threads, SaveSample(t)
  PROVE  Inv'
  <1> DEFINE n == call[t].covers
  <1>1. n \in 1 .. Len(samples) /\ call[t].bandwidth = median(Window(n))
    BY DEF Inv, MeasuredInv, SaveSample, At
  <1>2. samples \in Seq(Rates) BY DEF Inv, TypeOK
  <1>3. Window(n) \in Seq(Nat) /\ Len(Window(n)) > 0 BY <1>1, <1>2, WindowIs
  <1>4. call[t].bandwidth < SlowSourceThresholdMbps <=> MostlySlow(Window(n))
    BY <1>1, <1>3, MedianSays
  <1>5. Len(samples) \in Nat BY <1>2
  <1>6. n > 0 /\ n <= Len(samples) BY <1>1, <1>5
  <1>7. /\ call[t].friendly \in Friendliness
        /\ (call[t].bandwidth < SlowSourceThresholdMbps) \in BOOLEAN
    <2>1. call[t].friendly \in Friendliness BY CallTyped DEF Inv
    <2>2. (call[t].bandwidth < SlowSourceThresholdMbps) \in BOOLEAN
      BY <1>4 DEF MostlySlow
    <2>3. QED BY <2>1, <2>2
  <1>8. Save(t, call[t].bandwidth < SlowSourceThresholdMbps, call[t].friendly)
    BY DEF SaveSample
  <1>9. QED BY <1>4, <1>6, <1>7, <1>8, SaveInv

LEMMA ReadForMarkInv ==
  ASSUME Inv, NEW t \in Threads, ReadForMark(t)
  PROVE  Inv'
  <1>1. row \in Row \cup {NoRow} /\ (row # NoRow => Measures(row))
    BY DEF Inv, TypeOK, MeasuredInv
  <1>2. UNCHANGED <<clock, samples, row>> BY DEF ReadForMark
  <1>3. Len(samples) \in Nat BY DEF Inv, TypeOK
  <1>4. CASE row = NoRow
    <2> DEFINE c == [Idle EXCEPT !.pc = "mark"]
    <2>1. c \in Call /\ c.pc = "mark" /\ c.covers = 0 /\ c.isSlow = FALSE
      BY DEF Idle, Call, Friendliness
    <2>2. call' = [call EXCEPT ![t] = c] BY <1>4 DEF ReadForMark
    <2> HIDE DEF c
    <2>3. Measures(c) BY <2>1, <1>3 DEF Measures
    <2>4. QED BY <1>1, <1>2, <2>1, <2>2, <2>3, QuietInv
  <1>5. CASE row # NoRow
    <2> DEFINE c == [Idle EXCEPT !.pc = "mark", !.bandwidth = row.bandwidth,
                                 !.covers = row.covers, !.isSlow = row.isSlow]
    <2>1. row \in Row BY <1>1, <1>5
    <2>2. c \in Call /\ c.pc = "mark" /\ c.covers = row.covers /\ c.isSlow = row.isSlow
      BY <2>1 DEF Idle, Call, Friendliness, Row
    <2>3. call' = [call EXCEPT ![t] = c] BY <1>5 DEF ReadForMark
    <2> HIDE DEF c
    <2>4. Measures(c) BY <1>1, <1>5, <2>2 DEF Measures
    <2>5. QED BY <1>1, <1>2, <2>2, <2>3, <2>4, QuietInv
  <1>6. QED BY <1>4, <1>5

LEMMA SaveMarkInv ==
  ASSUME Inv, NEW t \in Threads, SaveMark(t)
  PROVE  Inv'
  <1>1. Measures(call[t]) BY DEF Inv, MeasuredInv, SaveMark
  <1>2. call[t].isSlow \in BOOLEAN BY CallTyped DEF Inv
  <1>3. "throttled" \in Friendliness BY DEF Friendliness
  <1>4. Save(t, call[t].isSlow, "throttled") BY DEF SaveMark
  <1>5. QED BY <1>1, <1>2, <1>3, <1>4, SaveInv DEF Measures

LEMMA NextInv ==
  ASSUME Inv, [Next]_vars
  PROVE  Inv'
  <1>1. CASE Tick
    <2>1. UNCHANGED <<samples, row, call>> /\ clock' = clock + 1 BY <1>1 DEF Tick
    <2>2. TypeOK' BY <2>1 DEF Inv, TypeOK
    <2>3. MeasuredInv' BY <2>1 DEF Inv, MeasuredInv, Measures, Window, At
    <2>4. QED BY <2>2, <2>3 DEF Inv
  <1>2. CASE Restart
    <2>1. UNCHANGED <<clock, samples, row>> /\ call' = [t \in Threads |-> Idle]
      BY <1>2 DEF Restart
    <2>2. Idle \in Call /\ Idle.pc = "idle" BY DEF Idle, Call, Friendliness
    <2>3. TypeOK' BY <2>1, <2>2 DEF Inv, TypeOK, Call
    <2>4. \A t \in Threads : call'[t].pc = "idle" BY <2>1, <2>2
    <2>5. MeasuredInv' BY <2>1, <2>4 DEF Inv, MeasuredInv, Measures, Window, At
    <2>6. QED BY <2>3, <2>5 DEF Inv
  <1>3. ASSUME NEW t \in Threads, Step(t) PROVE Inv'
    BY <1>3, AppendInv, GetSamplesInv, ReadProfileInv, SaveSampleInv, ReadForMarkInv,
       SaveMarkInv DEF Step
  <1>4. CASE UNCHANGED vars
    <2>1. TypeOK' BY <1>4 DEF Inv, TypeOK, vars
    <2>2. MeasuredInv' BY <1>4 DEF Inv, MeasuredInv, Measures, Window, At, vars
    <2>3. QED BY <2>1, <2>2 DEF Inv
  <1>5. QED BY <1>1, <1>2, <1>3, <1>4 DEF Next

\* Every variable keeps its type: in particular every bandwidth that is saved is a
\* throughput, because GetSamples never reads an empty window.
THEOREM TypeCorrect == Spec => []TypeOK
  <1>1. Inv => TypeOK BY DEF Inv
  <1>2. QED BY InitInv, NextInv, <1>1, PTL DEF Spec

\* A profile says slow exactly if most of the samples it was computed from were slow,
\* for every window, threshold and interleaving of samples, marks and restarts.
THEOREM SlowMeansSlow == Spec => []SlowIsMeasured
  <1>1. Inv => SlowIsMeasured BY DEF Inv, MeasuredInv, Measures, SlowIsMeasured
  <1>2. QED BY InitInv, NextInv, <1>1, PTL DEF Spec

-----------------------------------------------------------------------------
(* Friendliness.                                                           *)

\* A step makes nothing friendly that was not.
LEMMA SettledStep ==
  ASSUME Inv, Settled, [Next]_vars
  PROVE  Settled'
  <1>1. \A t \in Threads : call[t].friendly # "friendly" BY DEF Settled
  <1>2. call \in [Threads -> Call] BY DEF Inv, TypeOK, Call
  <1>3. Idle.friendly = "unknown" BY DEF Idle
  <1>4. CASE Tick BY <1>4 DEF Tick, Settled
  <1>5. CASE Restart BY <1>3, <1>5 DEF Restart, Settled
  <1>6. ASSUME NEW t \in Threads, Step(t) PROVE Settled'
    <2>1. CASE AppendSample(t) \/ GetSamples(t) \/ ReadForMark(t)
      <3>1. row' = row BY <2>1 DEF AppendSample, GetSamples, ReadForMark
      <3>2. call'[t].friendly # "friendly"
        <4>1. CASE AppendSample(t)
          <5>1. call'[t].friendly = call[t].friendly BY <4>1, <1>2 DEF AppendSample, Call
          <5>2. QED BY <5>1, <1>1
        <4>2. CASE GetSamples(t)
          <5>1. call'[t].friendly = call[t].friendly BY <4>2, <1>2 DEF GetSamples, Call
          <5>2. QED BY <5>1, <1>1
        <4>3. CASE ReadForMark(t) BY <4>3, <1>2 DEF ReadForMark, Idle
        <4>4. QED BY <2>1, <4>1, <4>2, <4>3
      <3>3. \A u \in Threads \ {t} : call'[u] = call[u]
        BY <2>1, <1>2 DEF AppendSample, GetSamples, ReadForMark
      <3>4. QED BY <3>1, <3>2, <3>3 DEF Settled
    <2>2. CASE ReadProfile(t)
      <3>1. row' = row BY <2>2 DEF ReadProfile
      <3>2. call'[t].friendly = IF row = NoRow THEN "unknown" ELSE row.friendly
        BY <2>2, <1>2 DEF ReadProfile, Call
      <3>3. \A u \in Threads \ {t} : call'[u] = call[u] BY <2>2, <1>2 DEF ReadProfile
      <3>4. QED BY <3>1, <3>2, <3>3 DEF Settled, Friendly
    <2>3. ASSUME NEW s, NEW f, f # "friendly", Save(t, s, f) PROVE Settled'
      <3>1. row'.friendly # "friendly" BY <2>3 DEF Save
      <3>2. call'[t] = Idle /\ \A u \in Threads \ {t} : call'[u] = call[u]
        BY <2>3, <1>2 DEF Save
      <3>3. QED BY <3>1, <3>2, <1>3 DEF Settled, Friendly
    <2>4. CASE SaveSample(t) BY <2>3, <2>4, <1>1 DEF SaveSample
    <2>5. CASE SaveMark(t) BY <2>3, <2>5 DEF SaveMark
    <2>6. QED BY <1>6, <2>1, <2>2, <2>4, <2>5 DEF Step
  <1>7. CASE UNCHANGED vars BY <1>7 DEF vars, Settled
  <1>8. QED BY <1>4, <1>5, <1>6, <1>7 DEF Next

LEMMA SettledPlan == Settled => PlanN(GetProfile) = 1
  <1> SUFFICES ASSUME Settled PROVE PlanN(GetProfile) = 1 OBVIOUS
  <1>1. GetProfile.friendly # "friendly" BY DEF GetProfile, Settled, Friendly
  <1>2. QED BY <1>1 DEF PlanN

\* A mark of throttling is for good once no RecordSample under way can overwrite it: from
\* then on every plan is for one connection.
THEOREM ThrottledStays == Spec => StaysSettled
  <1>1. Inv /\ [Next]_vars => [Settled => Settled' /\ PlanN(GetProfile)' = 1]_vars
    <2> SUFFICES ASSUME Inv, [Next]_vars, Settled PROVE Settled' /\ PlanN(GetProfile)' = 1
      OBVIOUS
    <2>1. Settled' BY SettledStep
    <2>2. (Settled => PlanN(GetProfile) = 1)' BY SettledPlan, PTL
    <2>3. QED BY <2>1, <2>2
  <1>2. QED BY InitInv, NextInv, <1>1, PTL DEF Spec, StaysSettled

-----------------------------------------------------------------------------
(* Listing.                                                                  *)

\* The profile behaves as in Assessor whatever is listed meanwhile.
THEOREM ListingIsAssessor == ListSpec => Spec
  <1>1. ListInit => Init BY DEF ListInit
  <1>2. [ListNext]_listVars => [Next]_vars
    BY DEF ListNext, listVars, vars, Home, Lists
  <1>3. QED BY <1>1, <1>2, PTL DEF ListSpec, Spec

\* So what is proved of profiles holds while paths are listed.
THEOREM ListedProfiles ==
  ListSpec => [](TypeOK /\ SlowIsMeasured) /\ StaysSettled
  BY ListingIsAssessor, TypeCorrect, SlowMeansSlow, ThrottledStays, PTL

-----------------------------------------------------------------------------
(* Marks.                                                                  *)

Segment == [name : Names, mark : Nat \cup {NoMark}]

\* The path that is shown has the names of the real one.
PathInv ==
  /\ real \in Seq(Names) /\ shown \in Seq(Segment) /\ Len(shown) = Len(real)
  /\ \A i \in 1 .. Len(real) : shown[i].name = real[i]

LEMMA PlainIs ==
  ASSUME NEW r \in Seq(Names)
  PROVE  /\ Plain(r) \in Seq(Segment) /\ Len(Plain(r)) = Len(r) /\ DOMAIN Plain(r) = 1 .. Len(r)
         /\ \A i \in 1 .. Len(r) : Plain(r)[i].name = r[i] /\ Plain(r)[i].mark = NoMark
  <1>1. Len(r) \in Nat /\ DOMAIN r = 1 .. Len(r) /\ \A i \in 1 .. Len(r) : r[i] \in Names
    OBVIOUS
  <1>2. Plain(r) = [i \in 1 .. Len(r) |-> [name |-> r[i], mark |-> NoMark]]
    BY <1>1 DEF Plain
  <1>3. \A i \in 1 .. Len(r) : [name |-> r[i], mark |-> NoMark] \in Segment
    BY <1>1 DEF Segment
  <1>4. Plain(r) \in [1 .. Len(r) -> Segment] BY <1>2, <1>3
  <1>5. Plain(r) \in Seq(Segment) BY <1>1, <1>4, SeqDef
  <1>6. Len(Plain(r)) = Len(r) BY <1>1, <1>4, <1>5, LenProperties
  <1>7. \A i \in 1 .. Len(r) : Plain(r)[i].name = r[i] /\ Plain(r)[i].mark = NoMark
    BY <1>2
  <1>8. QED BY <1>4, <1>5, <1>6, <1>7

\* Taking a mark off changes no name.
LEMMA StripKeepsNames ==
  ASSUME NEW p \in Seq(Segment)
  PROVE  /\ StripMarker(p) \in Seq(Segment) /\ Len(StripMarker(p)) = Len(p)
         /\ \A i \in 1 .. Len(p) : StripMarker(p)[i].name = p[i].name
  <1>1. Len(p) \in Nat /\ p \in [1 .. Len(p) -> Segment] BY LenProperties
  <1>2. CASE Marked(p) = {} BY <1>2 DEF StripMarker
  <1>3. CASE Marked(p) # {}
    <2> DEFINE k == Min(Marked(p))
    <2>1. StripMarker(p) = [p EXCEPT ![k].mark = NoMark] BY <1>3 DEF StripMarker
    <2> HIDE DEF k
    <2>2. \A i \in 1 .. Len(p) : /\ StripMarker(p)[i] \in Segment
                                 /\ StripMarker(p)[i].name = p[i].name
      BY <1>1, <2>1 DEF Segment
    <2>3. StripMarker(p) \in [1 .. Len(p) -> Segment] BY <1>1, <2>1, <2>2
    <2>4. StripMarker(p) \in Seq(Segment) BY <1>1, <2>3, SeqDef
    <2>5. Len(StripMarker(p)) = Len(p) BY <1>1, <2>3, <2>4, LenProperties
    <2>6. QED BY <2>2, <2>4, <2>5
  <1>4. QED BY <1>2, <1>3

\* A folder that a path leads to upstream has the last of the path's names.
LEMMA LastName ==
  ASSUME PathInv, NEW d \in Dirs, d # << >>, Upstream(shown) = Plain(d)
  PROVE  Len(real) > 0 /\ Last(d) = real[Len(real)]
  <1> DEFINE s == StripMarker(shown)
  <1>1. /\ s \in Seq(Segment) /\ Len(s) = Len(real)
        /\ \A i \in 1 .. Len(real) : s[i].name = real[i]
    BY StripKeepsNames DEF PathInv
  <1>2. d \in Seq(Names) BY TreeAssumption
  <1>3. Len(d) \in Nat /\ Len(d) # 0 BY <1>2, EmptySeq
  <1>4. /\ Len(Plain(d)) = Len(d)
        /\ \A i \in 1 .. Len(d) : Plain(d)[i].name = d[i]
    BY <1>2, PlainIs
  <1>5. RestPath(s) = Plain(d) BY DEF Upstream
  <1>6. Len(real) \in Nat BY DEF PathInv
  <1> HIDE DEF s
  <1>7. s # << >>
    <2> SUFFICES ASSUME s = << >> PROVE FALSE OBVIOUS
    <2>1. Len(Plain(d)) = 0 BY <1>5 DEF RestPath
    <2>2. QED BY <2>1, <1>3, <1>4
  <1>8. Tail(s) = Plain(d) BY <1>5, <1>7 DEF RestPath
  <1>9. /\ Len(Tail(s)) = Len(s) - 1
        /\ \A i \in 1 .. Len(s) - 1 : Tail(s)[i] = s[i + 1]
    BY <1>1, <1>7
  <1>10. Len(d) = Len(real) - 1 BY <1>1, <1>4, <1>8, <1>9
  <1>11. d[Len(d)] = real[Len(real)]
    <2>1. Len(d) \in 1 .. Len(s) - 1 /\ Len(d) + 1 = Len(real) BY <1>1, <1>3, <1>6, <1>10
    <2>2. Plain(d)[Len(d)] = s[Len(real)] BY <2>1, <1>8, <1>9
    <2>3. Plain(d)[Len(d)].name = d[Len(d)] BY <1>3, <1>4
    <2>4. s[Len(real)].name = real[Len(real)] BY <2>1, <1>1, <1>3, <1>6
    <2>5. QED BY <2>2, <2>3, <2>4
  <1>12. QED BY <1>3, <1>6, <1>10, <1>11 DEF Last

LEMMA InitPath == ListInit => PathInv
  <1> SUFFICES ASSUME ListInit PROVE PathInv OBVIOUS
  <1>1. <<Top>> \in Seq(Names) /\ Len(<<Top>>) = 1 BY DEF Names
  <1>2. real = <<Top>> /\ shown = Plain(<<Top>>) BY DEF ListInit
  <1>3. /\ Plain(<<Top>>) \in Seq(Segment) /\ Len(Plain(<<Top>>)) = 1
        /\ \A i \in 1 .. 1 : Plain(<<Top>>)[i].name = <<Top>>[i]
    BY <1>1, PlainIs
  <1>4. QED BY <1>1, <1>2, <1>3 DEF PathInv

\* The entries of an answer are of the tree, and all but the folder itself have a name.
LEMMA EntriesInTree ==
  ASSUME NEW d \in Dirs, NEW depth, NEW q \in Entries(d, depth)
  PROVE  /\ q \in Dirs \cup Files /\ q \in Seq(Names)
         /\ q # d => q # << >>
         /\ q # << >> => Last(q) \in Names
  <1>1. q \in Dirs \cup Files /\ (q # d => q # << >>) BY DEF Entries
  <1>2. q \in Seq(Names) BY <1>1, TreeAssumption
  <1>3. ASSUME q # << >> PROVE Last(q) \in Names
    <2>1. Len(q) \in Nat /\ Len(q) # 0 BY <1>2, <1>3, EmptySeq
    <2>2. QED BY <1>2, <2>1, ElementOfSeq DEF Last
  <1>4. QED BY <1>1, <1>2, <1>3

LEMMA DisplaySegment ==
  ASSUME TypeOK, NEW entries, NEW q, Last(q) \in Names
  PROVE  DisplayName(entries, q) \in Segment /\ DisplayName(entries, q).name = Last(q)
  <1>1. GetProfile.bandwidth \in Nat BY DEF GetProfile, TypeOK, Row
  <1>2. QED BY <1>1 DEF DisplayName, Segment

LEMMA ListsPath ==
  ASSUME TypeOK, PathInv, NEW d \in Dirs, NEW depth, Lists(d, depth)
  PROVE  PathInv'
  <1> DEFINE entries == Entries(d, depth)
  <1>1. /\ Upstream(shown) = Plain(d)
        /\ \/ /\ d # << >> /\ real' = real
              /\ shown' = [shown EXCEPT ![Len(shown)] = DisplayName(entries, d)]
           \/ \E q \in entries \ {d} : /\ shown' = Append(shown, DisplayName(entries, q))
                                       /\ real' = Append(real, Last(q))
    BY DEF Lists
  <1> HIDE DEF entries
  <1>2. CASE /\ d # << >> /\ real' = real
             /\ shown' = [shown EXCEPT ![Len(shown)] = DisplayName(entries, d)]
    <2>1. Len(real) > 0 /\ Last(d) = real[Len(real)] BY <1>1, <1>2, LastName
    <2>2. Len(real) \in Nat /\ shown \in [1 .. Len(real) -> Segment]
      BY LenProperties DEF PathInv
    <2>3. Last(d) \in Names BY <2>1, <2>2 DEF PathInv
    <2>4. DisplayName(entries, d) \in Segment /\ DisplayName(entries, d).name = Last(d)
      BY <2>3, DisplaySegment
    <2>5. shown' \in [1 .. Len(real) -> Segment] BY <1>2, <2>2, <2>4
    <2>6. shown' \in Seq(Segment) BY <2>2, <2>5, SeqDef
    <2>7. Len(shown') = Len(real) BY <2>2, <2>5, <2>6, LenProperties
    <2>8. \A i \in 1 .. Len(real) : shown'[i].name = real[i]
      <3> TAKE i \in 1 .. Len(real)
      <3>1. CASE i = Len(real) BY <3>1, <1>2, <2>1, <2>2, <2>4 DEF PathInv
      <3>2. CASE i # Len(real)
        <4>1. shown'[i] = shown[i] BY <3>2, <1>2, <2>2 DEF PathInv
        <4>2. QED BY <4>1 DEF PathInv
      <3>3. QED BY <3>1, <3>2
    <2>9. QED BY <1>2, <2>6, <2>7, <2>8 DEF PathInv
  <1>3. CASE \E q \in entries \ {d} : /\ shown' = Append(shown, DisplayName(entries, q))
                                      /\ real' = Append(real, Last(q))
    <2>1. PICK q \in entries \ {d} : /\ shown' = Append(shown, DisplayName(entries, q))
                                     /\ real' = Append(real, Last(q))
      BY <1>3
    <2>2. Last(q) \in Names BY EntriesInTree DEF entries
    <2> DEFINE x == DisplayName(entries, q)
    <2>3. x \in Segment /\ x.name = Last(q) BY <2>2, DisplaySegment
    <2> HIDE DEF x
    <2>4. shown' = Append(shown, x) BY <2>1 DEF x
    <2>5. /\ Len(real) \in Nat /\ real' \in Seq(Names) /\ shown' \in Seq(Segment)
          /\ Len(real') = Len(real) + 1 /\ Len(shown') = Len(real) + 1
      BY <2>1, <2>2, <2>3, <2>4 DEF PathInv
    <2>6. \A i \in 1 .. Len(real) + 1 : shown'[i].name = real'[i]
      <3> TAKE i \in 1 .. Len(real) + 1
      <3>1. CASE i = Len(real) + 1
        <4>1. shown'[i] = x /\ real'[i] = Last(q)
          BY <3>1, <2>1, <2>2, <2>3, <2>4 DEF PathInv
        <4>2. QED BY <4>1, <2>3
      <3>2. CASE i # Len(real) + 1
        <4>1. i \in 1 .. Len(real) BY <3>2, <2>5
        <4>2. shown'[i] = shown[i] /\ real'[i] = real[i]
          BY <4>1, <2>1, <2>2, <2>3, <2>4 DEF PathInv
        <4>3. QED BY <4>1, <4>2 DEF PathInv
      <3>3. QED BY <3>1, <3>2
    <2>7. QED BY <2>5, <2>6 DEF PathInv
  <1>4. QED BY <1>1, <1>2, <1>3

LEMMA NextPath ==
  ASSUME TypeOK, PathInv, [ListNext]_listVars
  PROVE  PathInv'
  <1>1. CASE UNCHANGED <<shown, real>> BY <1>1 DEF PathInv
  <1>2. CASE Home
    <2>1. real' = <<Top>> /\ shown' = Plain(<<Top>>) BY <1>2 DEF Home
    <2>2. <<Top>> \in Seq(Names) /\ Len(<<Top>>) = 1 BY DEF Names
    <2>3. /\ Plain(<<Top>>) \in Seq(Segment) /\ Len(Plain(<<Top>>)) = 1
          /\ \A i \in 1 .. 1 : Plain(<<Top>>)[i].name = <<Top>>[i]
      BY <2>2, PlainIs
    <2>4. QED BY <2>1, <2>2, <2>3 DEF PathInv
  <1>3. ASSUME NEW d \in Dirs, NEW depth \in {0, 1}, Lists(d, depth) PROVE PathInv'
    BY <1>3, ListsPath
  <1>4. QED BY <1>1, <1>2, <1>3 DEF ListNext, listVars

\* One mark among the names of a path comes off and leaves the path without marks.
LEMMA OneMarkComesOff ==
  ASSUME PathInv, Cardinality(Marked(shown)) <= 1
  PROVE  StripMarker(shown) = Plain(real)
  <1>1. Len(real) \in Nat /\ shown \in [1 .. Len(real) -> Segment] /\ real \in Seq(Names)
    BY LenProperties DEF PathInv
  <1>2. /\ Plain(real) \in Seq(Segment) /\ Len(Plain(real)) = Len(real)
        /\ \A i \in 1 .. Len(real) : /\ Plain(real)[i].name = real[i]
                                     /\ Plain(real)[i].mark = NoMark
    BY <1>1, PlainIs
  <1>3. /\ StripMarker(shown) \in Seq(Segment) /\ Len(StripMarker(shown)) = Len(real)
        /\ \A i \in 1 .. Len(real) : StripMarker(shown)[i].name = real[i]
    BY StripKeepsNames DEF PathInv
  <1>4. \A i \in 1 .. Len(real) : StripMarker(shown)[i].mark = NoMark
    <2>1. DOMAIN shown = 1 .. Len(real) BY <1>1
    <2>2. IsFiniteSet(Marked(shown)) /\ Cardinality(Marked(shown)) \in Nat
      <3>1. Marked(shown) \in SUBSET (1 .. Len(real)) BY <2>1 DEF Marked
      <3>2. QED BY <3>1, <1>1, UpToSize, FS_Subset, FS_CardinalityType
    <2>3. CASE Marked(shown) = {}
      <3>1. \A i \in 1 .. Len(real) : shown[i].mark = NoMark BY <2>1, <2>3 DEF Marked
      <3>2. QED BY <3>1, <2>3 DEF StripMarker
    <2>4. CASE Marked(shown) # {}
      <3>1. Cardinality(Marked(shown)) # 0 BY <2>2, <2>4, FS_EmptySet
      <3>2. Cardinality(Marked(shown)) = 1 BY <2>2, <3>1
      <3>3. PICK k : Marked(shown) = {k} BY <2>2, <3>2, FS_Singleton
      <3>4. k \in 1 .. Len(real) BY <3>3, <2>1 DEF Marked
      <3>5. Min({k}) = k
        <4>1. \E x \in {k} : \A y \in {k} : x <= y BY <3>4
        <4>2. Min({k}) \in {k} BY <4>1, Zenon DEF Min
        <4>3. QED BY <4>2
      <3>6. StripMarker(shown) = [shown EXCEPT ![k].mark = NoMark]
        BY <2>4, <3>3, <3>5 DEF StripMarker
      <3>7. \A i \in 1 .. Len(real) : i # k => shown[i].mark = NoMark
        BY <2>1, <3>3 DEF Marked
      <3>8. QED BY <1>1, <3>6, <3>7 DEF Segment
    <2>5. QED BY <2>3, <2>4
  <1> DEFINE a == StripMarker(shown)
             b == Plain(real)
  <1>5. a \in Seq(Segment) /\ b \in Seq(Segment) /\ Len(a) = Len(real) /\ Len(b) = Len(real)
    BY <1>2, <1>3
  <1>6. \A i \in 1 .. Len(real) : /\ a[i].name = b[i].name /\ a[i].mark = b[i].mark
    BY <1>2, <1>3, <1>4
  <1> HIDE DEF a, b
  <1>7. \A i \in 1 .. Len(a) : a[i] = b[i]
    <2> TAKE i \in 1 .. Len(a)
    <2>1. a[i] \in Segment /\ b[i] \in Segment BY <1>5
    <2>2. a[i].name = b[i].name /\ a[i].mark = b[i].mark BY <1>5, <1>6
    <2>3. QED BY <2>1, <2>2 DEF Segment
  <1>8. a = b BY <1>5, <1>7, SeqEqual
  <1>9. QED BY <1>8 DEF a, b

\* A displayed path with at most one mark leads upstream to where the path without marks
\* leads.
THEOREM MarkedPathsLead == ListSpec => []MarksComeOff
  <1>1. PathInv => MarksComeOff
    <2> SUFFICES ASSUME PathInv, Cardinality(Marked(shown)) <= 1
                 PROVE  Upstream(shown) = Upstream(Plain(real))
      BY DEF MarksComeOff
    <2>1. StripMarker(shown) = Plain(real) BY OneMarkComesOff
    <2>2. Marked(Plain(real)) = {}
      <3>1. real \in Seq(Names) BY DEF PathInv
      <3>2. QED BY <3>1, PlainIs DEF Marked
    <2>3. QED BY <2>1, <2>2 DEF Upstream, StripMarker
  <1>2. ListSpec => []TypeOK BY ListedProfiles, PTL
  <1>3. QED BY InitPath, NextPath, <1>1, <1>2, PTL DEF ListSpec
=============================================================================
