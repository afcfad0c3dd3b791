---------------------------- MODULE ServerProofs ----------------------------
(***************************************************************************)
(* Versions and bytes, for every number of requests and prefetches, every  *)
(* history of a file, every HeadRevalidateSec and every capacity of the    *)
(* map: what a response holds is recent, and what the cache holds is not   *)
(* older than it is labelled.  And for every directory: natLess orders its *)
(* names, and a prefetch turns to the episode that follows.                *)
(***************************************************************************)
EXTENDS Server, Lemmas, FiniteSetTheorems, SequenceTheorems

-----------------------------------------------------------------------------
(* The order of names.                                                     *)

\* The definitions readNum and natLess make, step and solution apart.
Places(a, b) == (1 .. Len(a) + 1) \X (1 .. Len(b) + 1)
ReadStep(s, i, value) ==
  [j \in i - 1 .. RunEnd(s, i) - 1 |-> IF j < i THEN 0 ELSE 10 * value[j - 1] + (s[j] - 48)]
ReadOf(s, i) == CHOOSE value : value = ReadStep(s, i, value)
LessStep(a, b, less) ==
  [at \in Places(a, b) |->
     IF at[1] > Len(a) \/ at[2] > Len(b) THEN Len(a) - at[1] < Len(b) - at[2]
     ELSE IF isDigit(a[at[1]]) /\ isDigit(b[at[2]])
          THEN IF readNum(a, at[1]) # readNum(b, at[2])
               THEN readNum(a, at[1]) < readNum(b, at[2])
               ELSE less[<<RunEnd(a, at[1]), RunEnd(b, at[2])>>]
          ELSE IF a[at[1]] # b[at[2]] THEN a[at[1]] < b[at[2]]
               ELSE less[<<at[1] + 1, at[2] + 1>>]]
LessOf(a, b) == CHOOSE less : less = LessStep(a, b, less)

LEMMA ReadIs ==
  ASSUME NEW s, NEW i PROVE readNum(s, i) = ReadOf(s, i)[RunEnd(s, i) - 1]
  BY DEF readNum, ReadOf, ReadStep
LEMMA LessIs ==
  ASSUME NEW a, NEW b PROVE natLess(a, b) = LessOf(a, b)[<<1, 1>>]
  BY DEF natLess, LessOf, LessStep, Places

LEMMA RunEndIs ==
  ASSUME NEW s \in Seq(Nat), NEW i \in 1 .. Len(s) + 1
  PROVE  /\ RunEnd(s, i) \in i .. Len(s) + 1
         /\ i <= Len(s) /\ isDigit(s[i]) => RunEnd(s, i) > i
  <1> DEFINE S == {j \in i .. Len(s) + 1 : j = Len(s) + 1 \/ ~isDigit(s[j])}
  <1>1. Len(s) \in Nat /\ i \in Nat OBVIOUS
  <1>2. S \in SUBSET Nat /\ Len(s) + 1 \in S BY <1>1
  <1>3. \E m \in S : \A n \in S : m <= n BY <1>2, LeastNatural
  <1>4. RunEnd(s, i) = Min(S) BY DEF RunEnd
  <1> HIDE DEF S
  <1>5. Min(S) \in S BY <1>3 DEF Min
  <1>6. QED BY <1>1, <1>4, <1>5 DEF S

LEMMA DigitInt ==
  ASSUME NEW p \in Int, NEW q \in Nat
  PROVE  10 * p + (q - 48) \in Int
  OBVIOUS

LEMMA LessNotMore ==
  ASSUME NEW p \in Nat, NEW q \in Nat, p < q
  PROVE  ~(q <= p)
  OBVIOUS

LEMMA ReadInt ==
  ASSUME NEW s \in Seq(Nat), NEW i \in 1 .. Len(s) + 1
  PROVE  readNum(s, i) \in Int
  <1> DEFINE e == RunEnd(s, i)
             D == i - 1 .. e - 1
             m == [j \in D |-> j]
             G == [value \in [D -> Int] |-> ReadStep(s, i, value)]
  <1>1. Len(s) \in Nat /\ i \in Nat /\ i >= 1 /\ e \in i .. Len(s) + 1 BY RunEndIs
  <1> HIDE DEF e
  <1>2. \A j \in D : j >= i => s[j] \in Nat BY <1>1
  <1>3. ASSUME NEW value \in [D -> Int] PROVE ReadStep(s, i, value) \in [D -> Int]
    <2>1. ASSUME NEW j \in D, ~(j < i) PROVE 10 * value[j - 1] + (s[j] - 48) \in Int
      <3>1. j - 1 \in D /\ s[j] \in Nat BY <1>1, <1>2, <2>1
      <3>2. value[j - 1] \in Int BY <3>1
      <3>3. QED BY <3>1, <3>2, DigitInt
    <2>2. QED BY <2>1 DEF ReadStep, e
  <1>4. G \in [[D -> Int] -> [D -> Int]] BY <1>3
  <1>5. m \in [D -> 0 .. Len(s)] BY <1>1
  <1>6. [D -> Int] # {}
    <2>1. [j \in D |-> 0] \in [D -> Int] OBVIOUS
    <2>2. QED BY <2>1
  <1>7. ASSUME NEW g \in [D -> Int], NEW h \in [D -> Int], NEW x \in D,
               \A y \in D : m[y] < m[x] => g[y] = h[y]
        PROVE  G[g][x] = G[h][x]
    <2>1. CASE x < i BY <2>1 DEF ReadStep, e
    <2>2. CASE ~(x < i)
      <3>1. x - 1 \in D /\ m[x - 1] < m[x] BY <1>1, <2>2
      <3>2. g[x - 1] = h[x - 1] BY <1>7, <3>1
      <3>3. QED BY <2>2, <3>2 DEF ReadStep, e
    <2>3. QED BY <2>1, <2>2
  <1>71. \A g, h \in [D -> Int] : \A x \in D :
           (\A y \in D : m[y] < m[x] => g[y] = h[y]) => G[g][x] = G[h][x]
    BY <1>7
  <1>72. Len(s) \in Nat BY <1>1
  <1>8. Descends(D, Int, m, Len(s), G) BY <1>72, <1>4, <1>5, <1>6, <1>71 DEF Descends
  <1> HIDE DEF D, G, m
  <1>81. \E f \in [D -> Int] : f = G[f] BY <1>8, RecursionExists
  <1>9. PICK f \in [D -> Int] : f = ReadStep(s, i, f) BY <1>81 DEF G
  <1>10. ReadOf(s, i) = ReadStep(s, i, ReadOf(s, i)) BY <1>9, Zenon DEF ReadOf
  <1> DEFINE v == ReadOf(s, i)
  <1> HIDE DEF v
  <1>11. v = ReadStep(s, i, v) BY <1>10 DEF v
  <1> DEFINE Bad == {j \in D : v[j] \notin Int}
  <1>12. Bad = {}
    <2> SUFFICES ASSUME Bad # {} PROVE FALSE OBVIOUS
    <2>1. D \in SUBSET Nat BY <1>1 DEF D
    <2>2. PICK j \in Bad : \A n \in Bad : j <= n BY <2>1, LeastNatural
    <2>3. v[j] = IF j < i THEN 0 ELSE 10 * v[j - 1] + (s[j] - 48)
      BY <1>11, <2>2 DEF ReadStep, D, e
    <2>4. CASE j < i BY <2>2, <2>3, <2>4
    <2>5. CASE ~(j < i)
      <3>1. j - 1 \in D /\ s[j] \in Nat BY <1>1, <1>2, <2>2, <2>5 DEF D
      <3>2. v[j - 1] \in Int BY <2>1, <2>2, <3>1
      <3>3. 10 * v[j - 1] + (s[j] - 48) \in Int BY <3>1, <3>2, DigitInt
      <3>4. QED BY <2>2, <2>3, <2>5, <3>3
    <2>6. QED BY <2>4, <2>5
  <1>13. e - 1 \in D BY <1>1 DEF D
  <1>14. v[e - 1] \in Int BY <1>12, <1>13
  <1>15. QED BY <1>14, ReadIs DEF v, e

LEMMA PlacesAre ==
  ASSUME NEW a \in Seq(Nat), NEW b \in Seq(Nat)
  PROVE  /\ Len(a) \in Nat /\ Len(b) \in Nat
         /\ \A i \in 1 .. Len(a) + 1, j \in 1 .. Len(b) + 1 :
              /\ <<i, j>> \in Places(a, b)
              /\ i \in Nat /\ j \in Nat
              /\ i <= Len(a) => a[i] \in Nat
              /\ j <= Len(b) => b[j] \in Nat
         /\ \A at \in Places(a, b) :
              at[1] \in 1 .. Len(a) + 1 /\ at[2] \in 1 .. Len(b) + 1 /\ at = <<at[1], at[2]>>
  BY DEF Places

\* Whoever goes on goes to a later place.
LEMMA PlacesAhead ==
  ASSUME NEW a \in Seq(Nat), NEW b \in Seq(Nat), NEW i \in 1 .. Len(a), NEW j \in 1 .. Len(b)
  PROVE  /\ i + 1 \in 1 .. Len(a) + 1 /\ j + 1 \in 1 .. Len(b) + 1
         /\ isDigit(a[i]) => RunEnd(a, i) \in 1 .. Len(a) + 1 /\ RunEnd(a, i) > i
         /\ isDigit(b[j]) => RunEnd(b, j) \in 1 .. Len(b) + 1 /\ RunEnd(b, j) > j
  <1>1. Len(a) \in Nat /\ Len(b) \in Nat BY PlacesAre
  <1>2. i \in 1 .. Len(a) + 1 /\ j \in 1 .. Len(b) + 1 BY <1>1
  <1>3. RunEnd(a, i) \in i .. Len(a) + 1 /\ (isDigit(a[i]) => RunEnd(a, i) > i)
    BY <1>2, RunEndIs
  <1>4. RunEnd(b, j) \in j .. Len(b) + 1 /\ (isDigit(b[j]) => RunEnd(b, j) > j)
    BY <1>2, RunEndIs
  <1>5. QED BY <1>1, <1>2, <1>3, <1>4

\* What less is at a place, v: the names are through, or their numbers or characters
\* decide, or the next ones do.
LessAt(a, b, less, i, j, v) ==
  /\ i > Len(a) \/ j > Len(b) => v = (Len(a) - i < Len(b) - j)
  /\ ~(i > Len(a) \/ j > Len(b)) /\ isDigit(a[i]) /\ isDigit(b[j]) =>
       /\ readNum(a, i) # readNum(b, j) => v = (readNum(a, i) < readNum(b, j))
       /\ readNum(a, i) = readNum(b, j) => v = less[<<RunEnd(a, i), RunEnd(b, j)>>]
  /\ ~(i > Len(a) \/ j > Len(b)) /\ ~(isDigit(a[i]) /\ isDigit(b[j])) =>
       /\ a[i] # b[j] => v = (a[i] < b[j])
       /\ a[i] = b[j] => v = less[<<i + 1, j + 1>>]

LEMMA LessStepAt ==
  ASSUME NEW a \in Seq(Nat), NEW b \in Seq(Nat), NEW less,
         NEW i \in 1 .. Len(a) + 1, NEW j \in 1 .. Len(b) + 1
  PROVE  LessAt(a, b, less, i, j, LessStep(a, b, less)[<<i, j>>])
  <1> DEFINE Is(at) ==
        IF at[1] > Len(a) \/ at[2] > Len(b) THEN Len(a) - at[1] < Len(b) - at[2]
        ELSE IF isDigit(a[at[1]]) /\ isDigit(b[at[2]])
             THEN IF readNum(a, at[1]) # readNum(b, at[2])
                  THEN readNum(a, at[1]) < readNum(b, at[2])
                  ELSE less[<<RunEnd(a, at[1]), RunEnd(b, at[2])>>]
             ELSE IF a[at[1]] # b[at[2]] THEN a[at[1]] < b[at[2]]
                  ELSE less[<<at[1] + 1, at[2] + 1>>]
  <1>1. LessStep(a, b, less) = [at \in Places(a, b) |-> Is(at)] BY DEF LessStep
  <1>2. <<i, j>> \in Places(a, b) BY PlacesAre
  <1> HIDE DEF Is
  <1>3. LessStep(a, b, less)[<<i, j>>] = Is(<<i, j>>) BY <1>1, <1>2
  <1>4. <<i, j>>[1] = i /\ <<i, j>>[2] = j OBVIOUS
  <1>5. QED BY <1>3, <1>4, Zenon DEF Is, LessAt

LEMMA LessStepType ==
  ASSUME NEW a \in Seq(Nat), NEW b \in Seq(Nat), NEW less \in [Places(a, b) -> BOOLEAN]
  PROVE  LessStep(a, b, less) \in [Places(a, b) -> BOOLEAN]
  <1>1. ASSUME NEW i \in 1 .. Len(a) + 1, NEW j \in 1 .. Len(b) + 1
        PROVE  LessStep(a, b, less)[<<i, j>>] \in BOOLEAN
    <2> DEFINE it == LessStep(a, b, less)[<<i, j>>]
    <2>0. LessAt(a, b, less, i, j, it) BY LessStepAt
    <2> HIDE DEF it
    <2>1. /\ i \in Nat /\ j \in Nat /\ Len(a) \in Nat /\ Len(b) \in Nat
          /\ i <= Len(a) => i \in 1 .. Len(a)
          /\ j <= Len(b) => j \in 1 .. Len(b)
      BY PlacesAre
    <2>2. ASSUME i <= Len(a), j <= Len(b) PROVE <<i + 1, j + 1>> \in Places(a, b)
      BY <2>1, <2>2, PlacesAre, PlacesAhead
    <2>3. ASSUME i <= Len(a), j <= Len(b), isDigit(a[i]), isDigit(b[j])
          PROVE  <<RunEnd(a, i), RunEnd(b, j)>> \in Places(a, b)
      <3>1. RunEnd(a, i) \in 1 .. Len(a) + 1 /\ RunEnd(b, j) \in 1 .. Len(b) + 1
        BY <2>1, <2>3, PlacesAhead
      <3>2. QED BY <3>1, PlacesAre
    <2>4. CASE i > Len(a) \/ j > Len(b)
      <3>1. it = (Len(a) - i < Len(b) - j) BY <2>0, <2>4, Zenon DEF LessAt
      <3>2. QED BY <3>1 DEF it
    <2>5. CASE ~(i > Len(a) \/ j > Len(b))
      <3>1. i <= Len(a) /\ j <= Len(b) BY <2>1, <2>5
      <3>2. \/ it = (readNum(a, i) < readNum(b, j))
            \/ it = (a[i] < b[j])
            \/ isDigit(a[i]) /\ isDigit(b[j]) /\ it = less[<<RunEnd(a, i), RunEnd(b, j)>>]
            \/ it = less[<<i + 1, j + 1>>]
        BY <2>0, <2>5, Zenon DEF LessAt
      <3>3. CASE it = (readNum(a, i) < readNum(b, j)) BY <3>3 DEF it
      <3>4. CASE it = (a[i] < b[j]) BY <3>4 DEF it
      <3>5. CASE isDigit(a[i]) /\ isDigit(b[j]) /\ it = less[<<RunEnd(a, i), RunEnd(b, j)>>]
        BY <2>3, <3>1, <3>5, Zenon DEF it
      <3>6. CASE it = less[<<i + 1, j + 1>>] BY <2>2, <3>1, <3>6, Zenon DEF it
      <3>7. QED BY <3>2, <3>3, <3>4, <3>5, <3>6, Zenon
    <2>6. QED BY <2>4, <2>5
  <1>2. \A at \in Places(a, b) : LessStep(a, b, less)[at] \in BOOLEAN BY <1>1, PlacesAre
  <1>3. LessStep(a, b, less) = [at \in Places(a, b) |-> LessStep(a, b, less)[at]]
    BY DEF LessStep
  <1>4. QED BY <1>2, <1>3

LEMMA LessSolves ==
  ASSUME NEW a \in Seq(Nat), NEW b \in Seq(Nat)
  PROVE  LessOf(a, b) = LessStep(a, b, LessOf(a, b))
  <1> DEFINE P == Places(a, b)
             most == Len(a) + Len(b)
             m == [at \in P |-> most + 2 - at[1] - at[2]]
             G == [less \in [P -> BOOLEAN] |-> LessStep(a, b, less)]
  <1>1. Len(a) \in Nat /\ Len(b) \in Nat /\ most \in Nat BY PlacesAre
  <1>2. ASSUME NEW i \in 1 .. Len(a) + 1, NEW j \in 1 .. Len(b) + 1
        PROVE  <<i, j>> \in P /\ m[<<i, j>>] = most + 2 - i - j
    <2>1. <<i, j>> \in P BY PlacesAre
    <2>2. m[<<i, j>>] = most + 2 - <<i, j>>[1] - <<i, j>>[2] BY <2>1
    <2>3. QED BY <2>1, <2>2
  <1>3. m \in [P -> 0 .. most]
    <2>1. \A at \in P : most + 2 - at[1] - at[2] \in 0 .. most BY <1>1, PlacesAre
    <2>2. QED BY <2>1
  <1> HIDE DEF m
  <1>4. ASSUME NEW g \in [P -> BOOLEAN], NEW h \in [P -> BOOLEAN],
               NEW i \in 1 .. Len(a) + 1, NEW j \in 1 .. Len(b) + 1,
               \A x \in P : m[x] < m[<<i, j>>] => g[x] = h[x]
        PROVE  LessStep(a, b, g)[<<i, j>>] = LessStep(a, b, h)[<<i, j>>]
    <2>1. /\ i \in Nat /\ j \in Nat
          /\ i <= Len(a) => i \in 1 .. Len(a)
          /\ j <= Len(b) => j \in 1 .. Len(b)
      BY <1>1
    <2> DEFINE v == LessStep(a, b, g)[<<i, j>>]
               w == LessStep(a, b, h)[<<i, j>>]
    <2>0. LessAt(a, b, g, i, j, v) /\ LessAt(a, b, h, i, j, w) BY LessStepAt
    <2> HIDE DEF v, w
    <2>2. CASE i > Len(a) \/ j > Len(b)
      <3>1. v = w BY <2>0, <2>2, Zenon DEF LessAt
      <3>2. QED BY <3>1 DEF v, w
    <2>3. ASSUME NEW k \in 1 .. Len(a) + 1, NEW l \in 1 .. Len(b) + 1, k > i, l > j
          PROVE  g[<<k, l>>] = h[<<k, l>>]
      <3>1. m[<<k, l>>] < m[<<i, j>>] BY <1>1, <1>2, <2>1, <2>3
      <3>2. QED BY <1>2, <1>4, <3>1
    <2>4. CASE ~(i > Len(a) \/ j > Len(b))
      <3>1. i \in 1 .. Len(a) /\ j \in 1 .. Len(b) BY <1>1, <2>1, <2>4
      <3>2. g[<<i + 1, j + 1>>] = h[<<i + 1, j + 1>>]
        <4>1. /\ i + 1 \in 1 .. Len(a) + 1 /\ j + 1 \in 1 .. Len(b) + 1
              /\ i + 1 > i /\ j + 1 > j
          BY <2>1, <3>1, PlacesAhead
        <4>2. QED BY <2>3, <4>1
      <3>3. isDigit(a[i]) /\ isDigit(b[j]) =>
              g[<<RunEnd(a, i), RunEnd(b, j)>>] = h[<<RunEnd(a, i), RunEnd(b, j)>>]
        BY <2>3, <3>1, PlacesAhead
      <3>4. v = w BY <2>0, <2>4, <3>2, <3>3, Zenon DEF LessAt
      <3>5. QED BY <3>4 DEF v, w
    <2>5. QED BY <2>2, <2>4
  <1>5. Descends(P, BOOLEAN, m, most, G)
    <2>1. [at \in P |-> TRUE] \in [P -> BOOLEAN] OBVIOUS
    <2>2. G \in [[P -> BOOLEAN] -> [P -> BOOLEAN]] BY LessStepType
    <2>3. ASSUME NEW g \in [P -> BOOLEAN], NEW h \in [P -> BOOLEAN], NEW x \in P,
                 \A y \in P : m[y] < m[x] => g[y] = h[y]
          PROVE  G[g][x] = G[h][x]
      <3>1. PICK i \in 1 .. Len(a) + 1, j \in 1 .. Len(b) + 1 : x = <<i, j>> BY PlacesAre
      <3>2. LessStep(a, b, g)[<<i, j>>] = LessStep(a, b, h)[<<i, j>>] BY <1>4, <2>3, <3>1
      <3>3. G[g] = LessStep(a, b, g) /\ G[h] = LessStep(a, b, h) OBVIOUS
      <3>4. QED BY <3>1, <3>2, <3>3
    <2> HIDE DEF G, P
    <2>4. QED BY <1>1, <1>3, <2>1, <2>2, <2>3 DEF Descends
  <1> HIDE DEF G
  <1>6. \E f \in [P -> BOOLEAN] : f = G[f] BY <1>5, RecursionExists
  <1>7. PICK f \in [P -> BOOLEAN] : f = LessStep(a, b, f) BY <1>6 DEF G
  <1>8. QED BY <1>7, Zenon DEF LessOf


\* The equation of less, with what it needs about the place.
LEMMA LessEquation ==
  ASSUME NEW a \in Seq(Nat), NEW b \in Seq(Nat),
         NEW i \in 1 .. Len(a) + 1, NEW j \in 1 .. Len(b) + 1
  PROVE  LessAt(a, b, LessOf(a, b), i, j, LessOf(a, b)[<<i, j>>])
  <1>1. LessOf(a, b) = LessStep(a, b, LessOf(a, b)) BY LessSolves
  <1>2. LessOf(a, b)[<<i, j>>] = LessStep(a, b, LessOf(a, b))[<<i, j>>] BY <1>1
  <1>3. QED BY <1>2, LessStepAt

\* What is left of a name.
LEMMA PlaceIn ==
  ASSUME NEW a \in Seq(Nat), NEW i \in 1 .. Len(a) + 1
  PROVE  /\ Len(a) \in Nat /\ i \in Nat
         /\ i > Len(a) => i = Len(a) + 1
         /\ ~(i > Len(a)) => /\ i \in 1 .. Len(a) /\ a[i] \in Nat /\ readNum(a, i) \in Int
                             /\ i + 1 \in 1 .. Len(a) + 1
         /\ ~(i > Len(a)) /\ isDigit(a[i]) =>
              RunEnd(a, i) \in 1 .. Len(a) + 1 /\ RunEnd(a, i) > i
  <1>1. Len(a) \in Nat /\ i \in Nat OBVIOUS
  <1>2. readNum(a, i) \in Int BY ReadInt
  <1>3. RunEnd(a, i) \in i .. Len(a) + 1 /\ (i <= Len(a) /\ isDigit(a[i]) => RunEnd(a, i) > i)
    BY RunEndIs
  <1>4. QED BY <1>1, <1>2, <1>3

\* No two places are less than each other.
Both(a, b, i, j) == LessOf(a, b)[<<i, j>>] /\ LessOf(b, a)[<<j, i>>]

LEMMA BothGoesOn ==
  ASSUME NEW a \in Seq(Nat), NEW b \in Seq(Nat),
         NEW i \in 1 .. Len(a) + 1, NEW j \in 1 .. Len(b) + 1, Both(a, b, i, j)
  PROVE  \E k \in 1 .. Len(a) + 1, l \in 1 .. Len(b) + 1 : k > i /\ l > j /\ Both(a, b, k, l)
  <1> DEFINE v == LessOf(a, b)[<<i, j>>]
             w == LessOf(b, a)[<<j, i>>]
  <1>0. LessAt(a, b, LessOf(a, b), i, j, v) /\ LessAt(b, a, LessOf(b, a), j, i, w)
    BY LessEquation
  <1>1. v /\ w BY Zenon DEF Both
  <1> HIDE DEF v, w
  <1>2. ~(i > Len(a) \/ j > Len(b))
    <2> SUFFICES ASSUME i > Len(a) \/ j > Len(b) PROVE FALSE OBVIOUS
    <2>1. Len(a) - i < Len(b) - j /\ Len(b) - j < Len(a) - i
      BY <1>0, <1>1, Zenon DEF LessAt
    <2>2. QED BY <2>1, PlaceIn
  <1>3. a[i] \in Nat /\ b[j] \in Nat BY <1>2, PlaceIn
  <1>4. CASE isDigit(a[i]) /\ isDigit(b[j])
    <2>1. readNum(a, i) = readNum(b, j)
      <3> SUFFICES ASSUME readNum(a, i) # readNum(b, j) PROVE FALSE OBVIOUS
      <3>1. readNum(a, i) < readNum(b, j) /\ readNum(b, j) < readNum(a, i)
        BY <1>0, <1>1, <1>2, <1>4, Zenon DEF LessAt
      <3>2. readNum(a, i) \in Int /\ readNum(b, j) \in Int BY <1>2, PlaceIn
      <3>3. QED BY <3>1, <3>2
    <2>2. Both(a, b, RunEnd(a, i), RunEnd(b, j))
      BY <1>0, <1>1, <1>2, <1>4, <2>1, Zenon DEF LessAt, Both, v, w
    <2>3. RunEnd(a, i) \in 1 .. Len(a) + 1 /\ RunEnd(a, i) > i BY <1>2, <1>4, PlaceIn
    <2>4. RunEnd(b, j) \in 1 .. Len(b) + 1 /\ RunEnd(b, j) > j BY <1>2, <1>4, PlaceIn
    <2>5. QED BY <2>2, <2>3, <2>4
  <1>5. CASE ~(isDigit(a[i]) /\ isDigit(b[j]))
    <2>1. a[i] = b[j]
      <3> SUFFICES ASSUME a[i] # b[j] PROVE FALSE OBVIOUS
      <3>1. a[i] < b[j] /\ b[j] < a[i] BY <1>0, <1>1, <1>2, <1>5, Zenon DEF LessAt
      <3>2. QED BY <1>3, <3>1
    <2>2. Both(a, b, i + 1, j + 1)
      BY <1>0, <1>1, <1>2, <1>5, <2>1, Zenon DEF LessAt, Both, v, w
    <2>3. i + 1 \in 1 .. Len(a) + 1 /\ i + 1 > i BY <1>2, PlaceIn
    <2>4. j + 1 \in 1 .. Len(b) + 1 /\ j + 1 > j BY <1>2, PlaceIn
    <2>5. QED BY <2>2, <2>3, <2>4
  <1>6. QED BY <1>4, <1>5

LEMMA NeverBoth ==
  ASSUME NEW a \in Seq(Nat), NEW b \in Seq(Nat),
         NEW i \in 1 .. Len(a) + 1, NEW j \in 1 .. Len(b) + 1
  PROVE  ~Both(a, b, i, j)
  <1> DEFINE left(k, l) == Len(a) + Len(b) + 2 - k - l
             Bad == {n \in Nat : \E k \in 1 .. Len(a) + 1, l \in 1 .. Len(b) + 1 :
                                   n = left(k, l) /\ Both(a, b, k, l)}
  <1>1. Len(a) \in Nat /\ Len(b) \in Nat OBVIOUS
  <1>2. \A k \in 1 .. Len(a) + 1, l \in 1 .. Len(b) + 1 : left(k, l) \in Nat BY <1>1
  <1>3. Bad = {}
    <2> SUFFICES ASSUME Bad # {} PROVE FALSE OBVIOUS
    <2>1. PICK n \in Bad : \A p \in Bad : n <= p BY LeastNatural
    <2>2. PICK k \in 1 .. Len(a) + 1, l \in 1 .. Len(b) + 1 : n = left(k, l) /\ Both(a, b, k, l)
      BY <2>1
    <2>3. PICK x \in 1 .. Len(a) + 1, y \in 1 .. Len(b) + 1 :
            x > k /\ y > l /\ Both(a, b, x, y)
      BY <2>2, BothGoesOn
    <2>4. left(x, y) \in Bad BY <1>2, <2>3
    <2>5. left(x, y) < left(k, l) BY <1>1, <2>3
    <2>6. n <= left(x, y) /\ n = left(k, l) BY <2>1, <2>2, <2>4
    <2>7. n \in Nat /\ left(x, y) \in Nat /\ left(k, l) \in Nat BY <1>2, <2>1, <2>2
    <2> HIDE DEF left, Bad
    <2>8. QED BY <2>5, <2>6, <2>7
  <1>4. QED BY <1>2, <1>3

\* What is less is less than, or behind, any third.
Between(a, b, c, i, j, k) ==
  LessOf(a, c)[<<i, k>>] /\ ~LessOf(a, b)[<<i, j>>] /\ ~LessOf(b, c)[<<j, k>>]

\* The digits are one interval of code points, so a number and a character compare like
\* two characters.
LEMMA CharactersAgree ==
  ASSUME NEW x \in Nat, NEW y \in Nat, NEW z \in Nat,
         ~(isDigit(x) /\ isDigit(y) /\ isDigit(z)),
         ~(isDigit(x) /\ isDigit(z)) /\ x # z => x < z,
         ~(isDigit(x) /\ isDigit(y)) /\ x # y => ~(x < y),
         ~(isDigit(y) /\ isDigit(z)) /\ y # z => ~(y < z)
  PROVE  x = y /\ y = z /\ ~isDigit(x)
  <1>1. \A n \in Nat : isDigit(n) <=> 48 <= n /\ n <= 57 BY DEF isDigit
  <1>2. x <= z \/ (isDigit(x) /\ isDigit(z)) OBVIOUS
  <1>3. y <= x \/ (isDigit(x) /\ isDigit(y)) OBVIOUS
  <1>4. z <= y \/ (isDigit(y) /\ isDigit(z)) OBVIOUS
  <1>5. QED BY <1>1, <1>2, <1>3, <1>4

\* What is left of three names, -1 for one that is through.
LEMMA NoneThrough ==
  ASSUME NEW p \in Int, NEW q \in Int, NEW r \in Int, -1 <= p, -1 <= q, -1 <= r,
         p < 0 \/ r < 0 => p < r, p < 0 \/ q < 0 => ~(p < q), q < 0 \/ r < 0 => ~(q < r)
  PROVE  ~(p < 0) /\ ~(q < 0) /\ ~(r < 0)
  OBVIOUS

LEMMA BetweenGoesOn ==
  ASSUME NEW a \in Seq(Nat), NEW b \in Seq(Nat), NEW c \in Seq(Nat),
         NEW i \in 1 .. Len(a) + 1, NEW j \in 1 .. Len(b) + 1, NEW k \in 1 .. Len(c) + 1,
         Between(a, b, c, i, j, k)
  PROVE  \E x \in 1 .. Len(a) + 1, y \in 1 .. Len(b) + 1, z \in 1 .. Len(c) + 1 :
           x > i /\ y > j /\ z > k /\ Between(a, b, c, x, y, z)
  <1> DEFINE u == LessOf(a, c)[<<i, k>>]
             v == LessOf(a, b)[<<i, j>>]
             w == LessOf(b, c)[<<j, k>>]
  <1>0. /\ LessAt(a, c, LessOf(a, c), i, k, u) /\ LessAt(a, b, LessOf(a, b), i, j, v)
        /\ LessAt(b, c, LessOf(b, c), j, k, w)
    BY LessEquation
  <1>1. u /\ ~v /\ ~w BY Zenon DEF Between
  <1> HIDE DEF u, v, w
  \* None of the three names is through.
  <1>2. ~(i > Len(a)) /\ ~(j > Len(b)) /\ ~(k > Len(c))
    <2>1. /\ i > Len(a) \/ k > Len(c) => Len(a) - i < Len(c) - k
          /\ i > Len(a) \/ j > Len(b) => ~(Len(a) - i < Len(b) - j)
          /\ j > Len(b) \/ k > Len(c) => ~(Len(b) - j < Len(c) - k)
      BY <1>0, <1>1, Zenon DEF LessAt
    <2> DEFINE p == Len(a) - i
               q == Len(b) - j
               r == Len(c) - k
    <2>2. p \in Int /\ -1 <= p /\ (i > Len(a) <=> p < 0) OBVIOUS
    <2>3. q \in Int /\ -1 <= q /\ (j > Len(b) <=> q < 0) OBVIOUS
    <2>4. r \in Int /\ -1 <= r /\ (k > Len(c) <=> r < 0) OBVIOUS
    <2>5. /\ p < 0 \/ r < 0 => p < r
          /\ p < 0 \/ q < 0 => ~(p < q)
          /\ q < 0 \/ r < 0 => ~(q < r)
      <3> HIDE DEF p, q, r
      <3>1. /\ i > Len(a) \/ k > Len(c) => p < r
            /\ i > Len(a) \/ j > Len(b) => ~(p < q)
            /\ j > Len(b) \/ k > Len(c) => ~(q < r)
        BY <2>1, Zenon DEF p, q, r
      <3>2. QED BY <2>2, <2>3, <2>4, <3>1, Zenon
    <2> HIDE DEF p, q, r
    <2>6. ~(p < 0) /\ ~(q < 0) /\ ~(r < 0) BY <2>2, <2>3, <2>4, <2>5, NoneThrough
    <2>7. QED BY <2>2, <2>3, <2>4, <2>6, Zenon
  <1>3. /\ a[i] \in Nat /\ b[j] \in Nat /\ c[k] \in Nat
        /\ readNum(a, i) \in Int /\ readNum(b, j) \in Int /\ readNum(c, k) \in Int
    BY <1>2, PlaceIn
  <1>4. CASE isDigit(a[i]) /\ isDigit(b[j]) /\ isDigit(c[k])
    <2>1. /\ readNum(a, i) # readNum(c, k) => readNum(a, i) < readNum(c, k)
          /\ readNum(a, i) # readNum(b, j) => ~(readNum(a, i) < readNum(b, j))
          /\ readNum(b, j) # readNum(c, k) => ~(readNum(b, j) < readNum(c, k))
      BY <1>0, <1>1, <1>2, <1>4, Zenon DEF LessAt
    <2>2. readNum(a, i) = readNum(b, j) /\ readNum(b, j) = readNum(c, k) BY <1>3, <2>1
    <2>3. Between(a, b, c, RunEnd(a, i), RunEnd(b, j), RunEnd(c, k))
      <3>1. /\ u = LessOf(a, c)[<<RunEnd(a, i), RunEnd(c, k)>>]
            /\ v = LessOf(a, b)[<<RunEnd(a, i), RunEnd(b, j)>>]
            /\ w = LessOf(b, c)[<<RunEnd(b, j), RunEnd(c, k)>>]
        BY <1>0, <1>2, <1>4, <2>2, Zenon DEF LessAt
      <3>2. QED BY <1>1, <3>1, Zenon DEF Between
    <2>4. RunEnd(a, i) \in 1 .. Len(a) + 1 /\ RunEnd(a, i) > i BY <1>2, <1>4, PlaceIn
    <2>5. RunEnd(b, j) \in 1 .. Len(b) + 1 /\ RunEnd(b, j) > j BY <1>2, <1>4, PlaceIn
    <2>6. RunEnd(c, k) \in 1 .. Len(c) + 1 /\ RunEnd(c, k) > k BY <1>2, <1>4, PlaceIn
    <2>7. QED BY <2>3, <2>4, <2>5, <2>6
  <1>5. CASE ~(isDigit(a[i]) /\ isDigit(b[j]) /\ isDigit(c[k]))
    <2>1. /\ ~(isDigit(a[i]) /\ isDigit(c[k])) /\ a[i] # c[k] => a[i] < c[k]
          /\ ~(isDigit(a[i]) /\ isDigit(b[j])) /\ a[i] # b[j] => ~(a[i] < b[j])
          /\ ~(isDigit(b[j]) /\ isDigit(c[k])) /\ b[j] # c[k] => ~(b[j] < c[k])
      BY <1>0, <1>1, <1>2, Zenon DEF LessAt
    <2>2. /\ a[i] = b[j] /\ b[j] = c[k] /\ ~isDigit(a[i])
      BY <1>3, <1>5, <2>1, CharactersAgree
    <2>3. Between(a, b, c, i + 1, j + 1, k + 1)
      <3>1. /\ u = LessOf(a, c)[<<i + 1, k + 1>>]
            /\ v = LessOf(a, b)[<<i + 1, j + 1>>]
            /\ w = LessOf(b, c)[<<j + 1, k + 1>>]
        BY <1>0, <1>2, <2>2, Zenon DEF LessAt
      <3>2. QED BY <1>1, <3>1, Zenon DEF Between
    <2>4. i + 1 \in 1 .. Len(a) + 1 /\ i + 1 > i BY <1>2, PlaceIn
    <2>5. j + 1 \in 1 .. Len(b) + 1 /\ j + 1 > j BY <1>2, PlaceIn
    <2>6. k + 1 \in 1 .. Len(c) + 1 /\ k + 1 > k BY <1>2, PlaceIn
    <2>7. QED BY <2>3, <2>4, <2>5, <2>6
  <1>6. QED BY <1>4, <1>5

LEMMA NeverBetween ==
  ASSUME NEW a \in Seq(Nat), NEW b \in Seq(Nat), NEW c \in Seq(Nat),
         NEW i \in 1 .. Len(a) + 1, NEW j \in 1 .. Len(b) + 1, NEW k \in 1 .. Len(c) + 1
  PROVE  ~Between(a, b, c, i, j, k)
  <1> DEFINE left(x) == Len(a) + 1 - x
             Bad == {n \in Nat : \E x \in 1 .. Len(a) + 1, y \in 1 .. Len(b) + 1,
                                    z \in 1 .. Len(c) + 1 :
                                   n = left(x) /\ Between(a, b, c, x, y, z)}
  <1>1. Len(a) \in Nat OBVIOUS
  <1>2. \A x \in 1 .. Len(a) + 1 : left(x) \in Nat BY <1>1
  <1>3. Bad = {}
    <2> SUFFICES ASSUME Bad # {} PROVE FALSE OBVIOUS
    <2>1. PICK n \in Bad : \A p \in Bad : n <= p BY LeastNatural
    <2>2. PICK x \in 1 .. Len(a) + 1, y \in 1 .. Len(b) + 1, z \in 1 .. Len(c) + 1 :
            n = left(x) /\ Between(a, b, c, x, y, z)
      BY <2>1
    <2>3. PICK p \in 1 .. Len(a) + 1, q \in 1 .. Len(b) + 1, r \in 1 .. Len(c) + 1 :
            p > x /\ Between(a, b, c, p, q, r)
      BY <2>2, BetweenGoesOn
    <2>4. left(p) \in Bad BY <1>2, <2>3
    <2>5. left(p) < left(x) BY <1>1, <2>3
    <2>6. left(x) <= left(p) BY <2>1, <2>2, <2>4
    <2>7. left(p) \in Nat /\ left(x) \in Nat BY <1>2
    <2> HIDE DEF left, Bad
    <2>8. QED BY <2>5, <2>6, <2>7, LessNotMore, Zenon
  <1>4. QED BY <1>2, <1>3

\* natLess orders all names: it is asymmetric, and a name that is less than another is less
\* than, or not behind, any third.  So sort.SliceStable may be used with it.
THEOREM NatLessOrders ==
  /\ \A a, b \in Seq(Nat) : natLess(a, b) => ~natLess(b, a)
  /\ \A a, b, c \in Seq(Nat) : natLess(a, c) => natLess(a, b) \/ natLess(b, c)
  <1>1. \A a \in Seq(Nat) : 1 \in 1 .. Len(a) + 1 OBVIOUS
  <1>2. ASSUME NEW a \in Seq(Nat), NEW b \in Seq(Nat), natLess(a, b) PROVE ~natLess(b, a)
    <2>1. ~Both(a, b, 1, 1) BY <1>1, NeverBoth
    <2>2. QED BY <1>2, <2>1, LessIs, Zenon DEF Both
  <1>3. ASSUME NEW a \in Seq(Nat), NEW b \in Seq(Nat), NEW c \in Seq(Nat), natLess(a, c)
        PROVE  natLess(a, b) \/ natLess(b, c)
    <2>1. ~Between(a, b, c, 1, 1, 1) BY <1>1, NeverBetween
    <2>2. QED BY <1>3, <2>1, LessIs, Zenon DEF Between
  <1>4. QED BY <1>2, <1>3

USE TimesAssumption, NamesAssumption

-----------------------------------------------------------------------------
(* The invariant.                                                          *)

\* The changes of a file are in the order of time.
ChangesInv ==
  \A f \in Names :
    /\ \A i \in 1 .. Len(changes[f]) : changes[f][i] <= clock
    /\ \A i, j \in 1 .. Len(changes[f]) : i <= j => changes[f][i] <= changes[f][j]

EntryInv(f, e) ==
  /\ e.at <= clock /\ e.version <= Content(f)
  /\ f \in Tagged => CurrentSince(f, e.version, e.at)

BlockInv(b) == b.label <= b.content /\ b.content <= Content(b.file)

\* A label is never ahead of the file; a label, and then the bytes, of a GET are recent.
CallInv(c) ==
  /\ c.asked <= clock
  /\ c.file = NoName => c = Idle
  /\ c.file # NoName => c.label <= Content(c.file)
  /\ c.pc = "put" => c.label <= c.body /\ c.body <= Content(c.file)
  /\ c.pc \in {"dir", "list"} => c.kind = "get"
  /\ c.pc = "store" /\ c.file \in Tagged => CurrentSince(c.file, c.label, c.asked)
  /\ c.kind = "get" /\ c.current /\ c.file \in Tagged =>
       /\ c.pc \in {"lookup", "fetch"} => CurrentSince(c.file, c.label, c.asked - MaxAge)
       /\ c.pc \in {"sent", "put", "copied"} => CurrentSince(c.file, c.body, c.asked - MaxAge)

Inv ==
  /\ TypeOK /\ ChangesInv
  /\ \A f \in Names : metaMap[f] # NoEntry => EntryInv(f, metaMap[f])
  /\ \A b \in cache : BlockInv(b)
  /\ \A t \in Threads : CallInv(call[t])

Block == [file : Names, label : Nat, content : Nat]

LEMMA ContentNat ==
  ASSUME TypeOK, NEW f \in Names
  PROVE  /\ Content(f) = Len(changes[f]) + 1 /\ Len(changes[f]) \in Nat /\ Content(f) \in Nat
         /\ \A i \in 1 .. Len(changes[f]) : changes[f][i] \in Nat
         /\ clock \in Nat
  <1>1. changes[f] \in Seq(Nat) BY DEF TypeOK
  <1>2. QED BY <1>1 DEF Content, TypeOK

LEMMA MaxAgeNat == MaxAge \in Nat
  BY DEF MaxAge

LEMMA IdleCall == Idle \in Call /\ Idle.pc = "idle" /\ Idle.file = NoName /\ Idle.label = 0
  BY DEF Idle, Call, Unknown

\* A thread at work has a file.
LEMMA AtWork ==
  ASSUME Inv, NEW t \in Threads
  PROVE  /\ call[t] \in Call /\ CallInv(call[t])
         /\ call[t].pc # "idle" => call[t].file \in Names /\ call[t].file # NoName
  <1>1. call[t] \in Call /\ CallInv(call[t]) BY DEF Inv, TypeOK
  <1>2. call[t].file = NoName => call[t].pc = "idle" BY <1>1, IdleCall DEF CallInv
  <1>3. QED BY <1>1, <1>2 DEF Call

-----------------------------------------------------------------------------
(* Being current.                                                          *)

\* An earlier moment asks for less.
LEMMA SinceEarlier ==
  ASSUME TypeOK, NEW f \in Names, NEW v \in Nat, NEW s \in Int, NEW r \in Int, r <= s,
         CurrentSince(f, v, s)
  PROVE  CurrentSince(f, v, r)
  <1>1. v # Content(f) => v \in 1 .. Len(changes[f]) /\ s <= changes[f][v]
    BY ContentNat DEF CurrentSince
  <1>2. v # Content(f) => changes[f][v] \in Nat BY <1>1, ContentNat
  <1>3. QED BY <1>1, <1>2 DEF CurrentSince

\* What is not older than a recent version is recent.
LEMMA LaterIsRecent ==
  ASSUME TypeOK, ChangesInv, NEW f \in Names, NEW v \in Nat, NEW w \in Nat, NEW s \in Int,
         CurrentSince(f, v, s), v <= w, w <= Content(f)
  PROVE  CurrentSince(f, w, s)
  <1>1. CASE w = Content(f) BY <1>1 DEF CurrentSince
  <1>2. CASE w # Content(f)
    <2>1. /\ v \in 1 .. Len(changes[f]) /\ w \in 1 .. Len(changes[f])
          /\ s <= changes[f][v]
      BY <1>2, ContentNat DEF CurrentSince
    <2>2. changes[f][v] <= changes[f][w] BY <2>1 DEF ChangesInv
    <2>3. changes[f][v] \in Nat /\ changes[f][w] \in Nat BY <2>1, ContentNat
    <2>4. s <= changes[f][w] BY <2>1, <2>2, <2>3
    <2>5. w < Content(f) /\ w > 0 BY <2>1, ContentNat
    <2>6. QED BY <2>4, <2>5 DEF CurrentSince
  <1>3. QED BY <1>1, <1>2

\* Being current since some moment of the past outlives a change of the file.
LEMMA SinceStays ==
  ASSUME TypeOK, NEW g \in Names, changes' = [changes EXCEPT ![g] = Append(@, clock)],
         NEW f \in Names, NEW v \in Nat, NEW s \in Int, s <= clock, CurrentSince(f, v, s)
  PROVE  CurrentSince(f, v, s)'
  <1> DEFINE n == Len(changes[f])
  <1>1. /\ changes \in [Names -> Seq(Nat)] /\ changes[f] \in Seq(Nat) /\ clock \in Nat
        /\ n \in Nat /\ Content(f) = n + 1
    BY ContentNat DEF TypeOK
  <1>2. CASE f # g
    <2>1. changes'[f] = changes[f] BY <1>1, <1>2
    <2>2. QED BY <2>1 DEF CurrentSince, Content
  <1>3. CASE f = g
    <2>1. changes'[f] = Append(changes[f], clock) BY <1>1, <1>3
    <2>2. /\ Len(changes'[f]) = n + 1 /\ changes'[f][n + 1] = clock
          /\ \A i \in 1 .. n : changes'[f][i] = changes[f][i]
      BY <1>1, <2>1, AppendProperties
    <2> HIDE DEF n
    <2>3. CASE v = Content(f)
      <3>1. v < n + 2 /\ v > 0 /\ changes'[f][v] = clock BY <2>3, <1>1, <2>2
      <3>2. QED BY <3>1, <1>1, <2>2 DEF CurrentSince, Content
    <2>4. CASE v # Content(f)
      <3>1. v \in 1 .. n /\ s <= changes[f][v] BY <2>4, <1>1 DEF CurrentSince
      <3>2. changes'[f][v] = changes[f][v] BY <3>1, <2>2
      <3>3. v < n + 2 /\ v > 0 BY <3>1, <1>1
      <3>4. QED BY <3>1, <3>2, <3>3, <1>1, <2>2 DEF CurrentSince, Content
    <2>5. QED BY <2>3, <2>4
  <1>4. QED BY <1>2, <1>3

-----------------------------------------------------------------------------
(* The steps.                                                              *)

LEMMA InitInv == Init => Inv
  <1> SUFFICES ASSUME Init PROVE Inv OBVIOUS
  <1>1. \A f \in Names : changes[f] = << >> /\ Len(changes[f]) = 0 BY DEF Init
  <1>2. TypeOK
    <2>1. << >> \in Seq(Nat) OBVIOUS
    <2>2. changes \in [Names -> Seq(Nat)] BY <2>1 DEF Init
    <2>3. metaMap \in [Names -> Entry \cup {NoEntry}] BY DEF Init
    <2>4. call \in [Threads -> Call] /\ \A t \in Threads : call[t] = Idle BY IdleCall DEF Init
    <2>5. QED BY <2>2, <2>3, <2>4 DEF Init, TypeOK
  <1>3. ChangesInv BY <1>1 DEF ChangesInv
  <1>4. CallInv(Idle) BY IdleCall DEF CallInv, Init, Idle
  <1>5. QED BY <1>2, <1>3, <1>4 DEF Inv, Init

LEMMA CallKept ==
  ASSUME NEW c, CallInv(c), NEW t, call'[t] = c, UNCHANGED <<clock, changes>>
  PROVE  CallInv(call[t])'
  BY DEF CallInv, CurrentSince, Content

\* A step of one thread, which leaves the clock and the files alone.
LEMMA CallStep ==
  ASSUME Inv, NEW t \in Threads, NEW c \in Call, CallInv(c), call' = [call EXCEPT ![t] = c],
         UNCHANGED <<clock, changes, closed>>,
         cache' \subseteq Block, \A b \in cache' : BlockInv(b),
         metaMap' \in [Names -> Entry \cup {NoEntry}],
         \A f \in Names : metaMap'[f] # NoEntry => EntryInv(f, metaMap'[f]),
         dirMap' \in [files : Listings, at : Nat] \cup {NoEntry}
  PROVE  Inv'
  <1>1. call \in [Threads -> Call] BY DEF Inv, TypeOK
  <1>2. \A u \in Threads : CallInv(call[u])'
    <2> TAKE u \in Threads
    <2>1. CASE u = t
      <3>1. call'[u] = c BY <2>1, <1>1
      <3>2. QED BY <3>1, CallKept
    <2>2. CASE u # t
      <3>1. call'[u] = call[u] BY <2>2, <1>1
      <3>2. CallInv(call[u]) BY DEF Inv
      <3>3. QED BY <3>1, <3>2, CallKept
    <2>3. QED BY <2>1, <2>2
  <1>3. call' \in [Threads -> Call] BY <1>1
  <1>4. \A u \in Threads : call'[u].file = NoName => call'[u] = Idle
    BY <1>2 DEF CallInv
  <1>5. TypeOK' BY <1>3, <1>4 DEF Inv, TypeOK, Block
  <1>6. ChangesInv' BY DEF Inv, ChangesInv
  <1>7. \A f \in Names : metaMap'[f] # NoEntry => EntryInv(f, metaMap[f])'
    BY DEF EntryInv, CurrentSince, Content
  <1>8. \A b \in cache' : BlockInv(b)' BY DEF BlockInv, Content
  <1>9. QED BY <1>2, <1>5, <1>6, <1>7, <1>8 DEF Inv

\* A step of one thread that changes nothing else.
LEMMA LocalStep ==
  ASSUME Inv, NEW t \in Threads, NEW c \in Call, CallInv(c), call' = [call EXCEPT ![t] = c],
         UNCHANGED <<clock, changes, metaMap, dirMap, cache, closed>>
  PROVE  Inv'
  <1>1. /\ cache' \subseteq Block /\ \A b \in cache' : BlockInv(b)
        /\ metaMap' \in [Names -> Entry \cup {NoEntry}]
        /\ \A f \in Names : metaMap'[f] # NoEntry => EntryInv(f, metaMap'[f])
        /\ dirMap' \in [files : Listings, at : Nat] \cup {NoEntry}
    BY DEF Inv, TypeOK, Block
  <1>2. QED BY <1>1, CallStep

LEMMA IdleInv ==
  ASSUME Inv
  PROVE  CallInv(Idle)
  BY IdleCall DEF CallInv, Inv, TypeOK, Idle

LEMMA EndsInv ==
  ASSUME Inv, NEW t \in Threads, Ends(t),
         UNCHANGED <<clock, changes, metaMap, dirMap, cache, closed>>
  PROVE  Inv'
  BY IdleInv, IdleCall, LocalStep DEF Ends

\* An entry that counts as fresh is at most MaxAge old.
LEMMA FreshIsRecent ==
  ASSUME Inv, NEW f \in Names, Fresh(metaMap[f])
  PROVE  /\ metaMap[f].version \in Nat /\ metaMap[f].version <= Content(f)
         /\ f \in Tagged => CurrentSince(f, metaMap[f].version, clock - MaxAge)
  <1>1. metaMap[f] \in Entry /\ EntryInv(f, metaMap[f]) BY DEF Inv, TypeOK, Fresh
  <1>2. metaMap[f].version \in Nat /\ metaMap[f].at \in Nat BY <1>1 DEF Entry
  <1>3. clock - metaMap[f].at < HeadRevalidateSec /\ metaMap[f].at <= clock /\ clock \in Nat
    BY <1>1 DEF Fresh, EntryInv, Inv, TypeOK
  <1>4. clock - MaxAge <= metaMap[f].at /\ clock - MaxAge \in Int
    BY <1>2, <1>3 DEF MaxAge
  <1>5. TypeOK BY DEF Inv
  <1>6. f \in Tagged => CurrentSince(f, metaMap[f].version, clock - MaxAge)
    BY <1>1, <1>2, <1>4, <1>5, SinceEarlier DEF EntryInv
  <1>7. QED BY <1>1, <1>2, <1>6 DEF EntryInv

\* resolveVersion up to the HEAD, for a thread whose call is c.
LEMMA ResolveInv ==
  ASSUME Inv, NEW t \in Threads, NEW c \in Call, c.file \in Names,
         c.label <= Content(c.file),
         Resolve(t, c),
         UNCHANGED <<clock, changes, metaMap, dirMap, cache, closed>>
  PROVE  Inv'
  <1> DEFINE f == c.file
             d == [c EXCEPT !.pc = "lookup", !.asked = clock, !.label = metaMap[f].version]
             h == [c EXCEPT !.pc = "head", !.asked = clock]
  <1>1. clock \in Nat /\ f \in Names /\ f # NoName BY DEF Inv, TypeOK
  <1>2. CASE Fresh(metaMap[f])
    <2>1. call' = [call EXCEPT ![t] = d] BY <1>2 DEF Resolve
    <2>2. /\ metaMap[f].version \in Nat /\ metaMap[f].version <= Content(f)
          /\ f \in Tagged => CurrentSince(f, metaMap[f].version, clock - MaxAge)
      BY <1>1, <1>2, FreshIsRecent
    <2>3. /\ d \in Call /\ d.pc = "lookup" /\ d.asked = clock /\ d.file = f
          /\ d.label = metaMap[f].version
      BY <1>1, <2>2 DEF Call
    <2> HIDE DEF d
    <2>4. CallInv(d) BY <1>1, <2>2, <2>3 DEF CallInv
    <2>5. QED BY <2>1, <2>3, <2>4, LocalStep
  <1>3. CASE ~Fresh(metaMap[f])
    <2>1. call' = [call EXCEPT ![t] = h] BY <1>3 DEF Resolve
    <2>2. /\ h \in Call /\ h.pc = "head" /\ h.asked = clock /\ h.file = f /\ h.label = c.label
      BY <1>1 DEF Call
    <2>3. Content(f) \in Nat BY <1>1, ContentNat DEF Inv
    <2> HIDE DEF h
    <2>4. CallInv(h) BY <1>1, <2>2, <2>3 DEF CallInv
    <2>5. QED BY <2>1, <2>2, <2>4, LocalStep
  <1>4. QED BY <1>2, <1>3

LEMMA GetInv ==
  ASSUME Inv, NEW t \in Threads, NEW f \in Names, Get(t, f)
  PROVE  Inv'
  <1> DEFINE c == [Idle EXCEPT !.file = f]
  <1>1. c \in Call /\ c.file = f /\ c.label = 0 BY IdleCall DEF Call, Idle, Unknown
  <1>2. Resolve(t, c) /\ UNCHANGED <<clock, changes, metaMap, dirMap, cache, closed>>
    BY DEF Get
  <1> HIDE DEF c
  <1>3. c.label <= Content(f) BY <1>1, ContentNat DEF Inv
  <1>4. QED BY <1>1, <1>2, <1>3, ResolveInv

LEMMA ResolveNextInv ==
  ASSUME Inv, NEW t \in Threads, ResolveNext(t)
  PROVE  Inv'
  <1>1. call[t].pc # "idle" BY DEF ResolveNext, At
  <1>2. call[t] \in Call /\ call[t].file \in Names /\ call[t].label <= Content(call[t].file)
    BY <1>1, AtWork DEF CallInv
  <1>3. QED BY <1>2, ResolveInv DEF ResolveNext

LEMMA HeadAnswersInv ==
  ASSUME Inv, NEW t \in Threads, HeadAnswers(t)
  PROVE  Inv'
  <1> DEFINE f == call[t].file
             c == [call[t] EXCEPT !.pc = "store", !.label = Version(f)]
  <1>1. /\ call[t] \in Call /\ CallInv(call[t]) /\ f \in Names /\ f # NoName
    BY AtWork DEF HeadAnswers, At
  <1>2. Content(f) \in Nat /\ Content(f) > 0 BY <1>1, ContentNat DEF Inv
  <1>3. /\ Version(f) \in Nat /\ Version(f) <= Content(f)
        /\ f \in Tagged => Version(f) = Content(f)
    BY <1>2 DEF Version, Unknown
  <1>4. call' = [call EXCEPT ![t] = c] BY DEF HeadAnswers
  <1>5. UNCHANGED <<clock, changes, metaMap, dirMap, cache, closed>> BY DEF HeadAnswers
  <1>6. /\ c \in Call /\ c.pc = "store" /\ c.label = Version(f) /\ c.file = f
        /\ c.asked = call[t].asked
    BY <1>1, <1>3 DEF Call
  <1> HIDE DEF c
  <1>7. CallInv(c) BY <1>1, <1>2, <1>3, <1>6 DEF CallInv, CurrentSince
  <1>8. QED BY <1>4, <1>5, <1>6, <1>7, LocalStep

\* pruneMeta keeps some entries as they are and empties the rest.
LEMMA PruneIs ==
  ASSUME NEW map, NEW new \in Prune(map)
  PROVE  /\ DOMAIN new = DOMAIN map /\ new = [f \in DOMAIN map |-> new[f]]
         /\ \A f \in DOMAIN map : new[f] = map[f] \/ new[f] = NoEntry
  BY DEF Prune

LEMMA StoreMetaInv ==
  ASSUME Inv, NEW t \in Threads, StoreMeta(t)
  PROVE  Inv'
  <1> DEFINE f == call[t].file
             c == [call[t] EXCEPT !.pc = "lookup"]
             e == [version |-> call[t].label, at |-> call[t].asked]
             map == [metaMap EXCEPT ![f] = e]
  <1>1. call[t] \in Call /\ CallInv(call[t]) /\ f \in Names /\ f # NoName /\ call[t].pc = "store"
    BY AtWork DEF StoreMeta, At
  <1>2. metaMap \in [Names -> Entry \cup {NoEntry}] BY DEF Inv, TypeOK
  <1>3. e \in Entry /\ EntryInv(f, e) BY <1>1 DEF EntryInv, Entry, Call, CallInv
  <1>4. call' = [call EXCEPT ![t] = c] /\ metaMap' \in Prune(map) BY DEF StoreMeta
  <1>5. UNCHANGED <<clock, changes, dirMap, cache, closed>> BY DEF StoreMeta
  <1>6. call[t].label \in Nat /\ call[t].asked \in Nat /\ call[t].asked <= clock
    BY <1>1 DEF Call, CallInv
  <1>7. f \in Tagged => CurrentSince(f, call[t].label, call[t].asked - MaxAge)
    <2> SUFFICES ASSUME f \in Tagged
                 PROVE  CurrentSince(f, call[t].label, call[t].asked - MaxAge)
      OBVIOUS
    <2>1. CurrentSince(f, call[t].label, call[t].asked) BY <1>1 DEF CallInv
    <2>2. /\ call[t].asked - MaxAge \in Int /\ call[t].asked - MaxAge <= call[t].asked
          /\ call[t].asked \in Int
      BY <1>6, MaxAgeNat
    <2>3. TypeOK BY DEF Inv
    <2>4. QED BY <1>1, <1>6, <2>1, <2>2, <2>3, SinceEarlier
  <1>8. /\ c \in Call /\ c.pc = "lookup" /\ c.label = call[t].label /\ c.file = f
        /\ c.asked = call[t].asked
    BY <1>1 DEF Call
  <1> HIDE DEF c, e
  <1>9. CallInv(c) BY <1>1, <1>7, <1>8 DEF CallInv
  <1>10. /\ DOMAIN map = Names /\ map[f] = e
         /\ \A g \in Names : g # f => map[g] = metaMap[g]
    BY <1>1, <1>2
  <1> HIDE DEF map
  <1>11. /\ metaMap' = [g \in Names |-> metaMap'[g]]
         /\ \A g \in Names : metaMap'[g] = map[g] \/ metaMap'[g] = NoEntry
    BY <1>4, <1>10, PruneIs
  <1>12. \A g \in Names : /\ map[g] \in Entry \cup {NoEntry}
                          /\ map[g] # NoEntry => EntryInv(g, map[g])
    BY <1>1, <1>2, <1>3, <1>10 DEF Inv
  <1>13. \A g \in Names : /\ metaMap'[g] \in Entry \cup {NoEntry}
                          /\ metaMap'[g] # NoEntry => EntryInv(g, metaMap'[g])
    BY <1>11, <1>12
  <1>14. metaMap' \in [Names -> Entry \cup {NoEntry}] BY <1>11, <1>13
  <1>15. /\ cache' \subseteq Block /\ \A b \in cache' : BlockInv(b)
         /\ dirMap' \in [files : Listings, at : Nat] \cup {NoEntry}
    BY <1>5 DEF Inv, TypeOK, Block
  <1>16. QED BY <1>4, <1>5, <1>8, <1>9, <1>13, <1>14, <1>15, CallStep

LEMMA HeadFailsInv ==
  ASSUME Inv, NEW t \in Threads, HeadFails(t)
  PROVE  Inv'
  <1> DEFINE f == call[t].file
             e == metaMap[f]
             c == [call[t] EXCEPT !.pc = "lookup", !.label = e.version, !.current = FALSE]
             d == [call[t] EXCEPT !.pc = "lookup", !.current = FALSE]
  <1>1. call[t] \in Call /\ CallInv(call[t]) /\ f \in Names /\ f # NoName
    BY AtWork DEF HeadFails, At
  <1>2. UNCHANGED <<clock, changes, metaMap, dirMap, cache, closed>> BY DEF HeadFails
  <1>3. CASE e # NoEntry /\ call' = [call EXCEPT ![t] = c]
    <2>1. e \in Entry /\ EntryInv(f, e) BY <1>1, <1>3 DEF Inv, TypeOK
    <2>2. /\ c \in Call /\ c.pc = "lookup" /\ c.label = e.version /\ c.file = f
          /\ c.asked = call[t].asked /\ ~c.current
      BY <1>1, <2>1 DEF Call, Entry
    <2> HIDE DEF c
    <2>3. CallInv(c) BY <1>1, <2>1, <2>2 DEF CallInv, EntryInv
    <2>4. QED BY <1>2, <1>3, <2>2, <2>3, LocalStep
  <1>4. CASE call' = [call EXCEPT ![t] = d]
    <2>1. /\ d \in Call /\ d.pc = "lookup" /\ d.label = call[t].label /\ d.file = f
          /\ d.asked = call[t].asked /\ ~d.current
      BY <1>1 DEF Call
    <2> HIDE DEF d
    <2>2. CallInv(d) BY <1>1, <2>1 DEF CallInv
    <2>3. QED BY <1>2, <1>4, <2>1, <2>2, LocalStep
  <1>5. CASE Ends(t) BY <1>2, <1>5, EndsInv
  <1>6. \/ e # NoEntry /\ call' = [call EXCEPT ![t] = c]
        \/ Ends(t) \/ call' = [call EXCEPT ![t] = d]
    BY DEF HeadFails
  <1>7. QED BY <1>3, <1>4, <1>5, <1>6

\* A block found in the cache is recent enough for the GET that finds it.
LEMMA FoundInv ==
  ASSUME Inv, NEW t \in Threads, call[t].pc \in {"lookup", "fetch"}, call[t].kind = "get",
         NEW b \in CachedAs(call[t].file, call[t].label), NEW p \in {"sent", "copied"},
         call' = [call EXCEPT ![t] = [call[t] EXCEPT !.pc = p, !.label = Unknown,
                                                     !.body = b.content]],
         UNCHANGED <<clock, changes, metaMap, dirMap, cache, closed>>
  PROVE  Inv'
  <1> DEFINE f == call[t].file
             c == [call[t] EXCEPT !.pc = p, !.label = Unknown, !.body = b.content]
  <1>1. call[t] \in Call /\ CallInv(call[t]) /\ f \in Names /\ f # NoName BY AtWork
  <1>2. TypeOK /\ ChangesInv /\ clock \in Nat /\ Content(f) \in Nat
    BY <1>1, ContentNat DEF Inv
  <1>3. b \in cache /\ b \in Block /\ b.file = f /\ b.label = call[t].label /\ BlockInv(b)
    BY DEF CachedAs, Inv, TypeOK, Block
  <1>4. b.content \in Nat /\ call[t].label <= b.content /\ b.content <= Content(f)
    BY <1>3 DEF Block, BlockInv
  <1>5. /\ c \in Call /\ c.pc = p /\ c.label = 0 /\ c.file = f /\ c.kind = "get"
        /\ c.asked = call[t].asked /\ c.current = call[t].current /\ c.body = b.content
    BY <1>1, <1>4 DEF Call, Unknown
  <1>6. call' = [call EXCEPT ![t] = c] OBVIOUS
  <1> HIDE DEF c
  <1>7. c.current /\ f \in Tagged => CurrentSince(f, b.content, call[t].asked - MaxAge)
    <2> SUFFICES ASSUME c.current, f \in Tagged
                 PROVE  CurrentSince(f, b.content, call[t].asked - MaxAge)
      OBVIOUS
    <2>1. CurrentSince(f, call[t].label, call[t].asked - MaxAge)
      BY <1>1, <1>5 DEF CallInv
    <2>2. call[t].asked - MaxAge \in Int /\ call[t].label \in Nat
      BY <1>1, MaxAgeNat DEF Call
    <2>3. QED BY <1>1, <1>2, <1>4, <2>1, <2>2, LaterIsRecent
  <1>8. CallInv(c) BY <1>1, <1>2, <1>4, <1>5, <1>7 DEF CallInv
  <1>9. QED BY <1>5, <1>6, <1>8, LocalStep

LEMMA LookupInv ==
  ASSUME Inv, NEW t \in Threads, Lookup(t)
  PROVE  Inv'
  <1> DEFINE f == call[t].file
  <1>1. /\ call[t] \in Call /\ CallInv(call[t]) /\ f \in Names /\ f # NoName
        /\ call[t].pc = "lookup"
    BY AtWork DEF Lookup, At
  <1>2. UNCHANGED <<clock, changes, metaMap, dirMap, cache, closed>> BY DEF Lookup
  <1>3. ASSUME NEW b \in CachedAs(f, call[t].label),
               Responds(t, [call[t] EXCEPT !.pc = "sent", !.label = Unknown, !.body = b.content])
        PROVE  Inv'
    <2>1. CASE call[t].kind = "get" BY <1>1, <1>2, <1>3, <2>1, FoundInv DEF Responds
    <2>2. CASE call[t].kind # "get"
      <3>1. call' = [call EXCEPT ![t] = Idle] BY <1>3, <2>2 DEF Responds
      <3>2. QED BY <1>2, <3>1, IdleInv, IdleCall, LocalStep
    <2>3. QED BY <2>1, <2>2
  <1>4. CASE call' = [call EXCEPT ![t].pc = "fetch"]
    <2> DEFINE c == [call[t] EXCEPT !.pc = "fetch"]
    <2>1. call' = [call EXCEPT ![t] = c] BY <1>4
    <2>2. /\ c \in Call /\ c.pc = "fetch" /\ c.label = call[t].label /\ c.file = f
          /\ c.asked = call[t].asked /\ c.current = call[t].current /\ c.kind = call[t].kind
      BY <1>1 DEF Call
    <2> HIDE DEF c
    <2>3. CallInv(c) BY <1>1, <2>2 DEF CallInv
    <2>4. QED BY <1>2, <2>1, <2>2, <2>3, LocalStep
  <1>5. QED BY <1>3, <1>4 DEF Lookup

LEMMA LookupAgainInv ==
  ASSUME Inv, NEW t \in Threads, LookupAgain(t)
  PROVE  Inv'
  <1>1. PICK b \in CachedAs(call[t].file, call[t].label) :
          call' = [call EXCEPT ![t] = [call[t] EXCEPT !.pc = "copied", !.label = Unknown,
                                                      !.body = b.content]]
    BY DEF LookupAgain
  <1>2. QED BY <1>1, FoundInv DEF LookupAgain, At

LEMMA AnsweredInv ==
  ASSUME Inv, NEW t \in Threads, Answered(t)
  PROVE  Inv'
  <1> DEFINE f == call[t].file
             c == [call[t] EXCEPT !.pc = "put", !.body = Content(f)]
  <1>1. call[t] \in Call /\ CallInv(call[t]) /\ f \in Names /\ f # NoName
    BY AtWork DEF Answered, At
  <1>2. Content(f) \in Nat BY <1>1, ContentNat DEF Inv
  <1>3. call' = [call EXCEPT ![t] = c] /\ UNCHANGED <<clock, changes, metaMap, dirMap, cache, closed>>
    BY DEF Answered
  <1>4. /\ c \in Call /\ c.pc = "put" /\ c.label = call[t].label /\ c.file = f
        /\ c.asked = call[t].asked /\ c.body = Content(f)
    BY <1>1, <1>2 DEF Call
  <1> HIDE DEF c
  <1>5. CallInv(c) BY <1>1, <1>2, <1>4 DEF CallInv, CurrentSince
  <1>6. QED BY <1>3, <1>4, <1>5, LocalStep

LEMMA PutBlockInv ==
  ASSUME Inv, NEW t \in Threads, PutBlock(t)
  PROVE  Inv'
  <1> DEFINE f == call[t].file
             b == [file |-> f, label |-> call[t].label, content |-> call[t].body]
             c == IF call[t].kind = "get"
                  THEN [call[t] EXCEPT !.pc = "copied", !.label = Unknown] ELSE Idle
  <1>1. /\ call[t] \in Call /\ CallInv(call[t]) /\ f \in Names /\ f # NoName
        /\ call[t].pc = "put"
    BY AtWork DEF PutBlock, At
  <1>2. b \in Block /\ BlockInv(b) BY <1>1 DEF Block, BlockInv, CallInv, Call
  <1>3. cache \subseteq Block /\ \A x \in cache : BlockInv(x) BY DEF Inv, TypeOK, Block
  <1>4. cache' \subseteq cache \cup {b} BY DEF PutBlock
  <1>5. call' = [call EXCEPT ![t] = c] BY DEF PutBlock, Responds
  <1>6. UNCHANGED <<clock, changes, metaMap, dirMap, closed>> BY DEF PutBlock
  <1>7. c \in Call /\ CallInv(c)
    <2>1. CASE call[t].kind = "get"
      <3>1. /\ c \in Call /\ c.pc = "copied" /\ c.label = 0 /\ c.file = f
            /\ c.asked = call[t].asked /\ c.body = call[t].body /\ c.kind = "get"
            /\ c.current = call[t].current
        BY <1>1, <2>1 DEF Call, Unknown
      <3>2. Content(f) \in Nat BY <1>1, ContentNat DEF Inv
      <3> HIDE DEF c
      <3>3. QED BY <1>1, <2>1, <3>1, <3>2 DEF CallInv
    <2>2. CASE call[t].kind # "get" BY <2>2, IdleInv, IdleCall
    <2>3. QED BY <2>1, <2>2
  <1> HIDE DEF b, c
  <1>8. cache' \subseteq Block /\ \A x \in cache' : BlockInv(x) BY <1>2, <1>3, <1>4
  <1>9. /\ metaMap' \in [Names -> Entry \cup {NoEntry}]
        /\ \A g \in Names : metaMap'[g] # NoEntry => EntryInv(g, metaMap'[g])
        /\ dirMap' \in [files : Listings, at : Nat] \cup {NoEntry}
    BY <1>6 DEF Inv, TypeOK
  <1>10. QED BY <1>5, <1>6, <1>7, <1>8, <1>9, CallStep

LEMMA StartPrefetchInv ==
  ASSUME Inv, NEW t \in Threads, StartPrefetch(t)
  PROVE  Inv'
  <1> DEFINE c == [Idle EXCEPT !.pc = "dir", !.file = call[t].file]
  <1>1. call[t].file \in Names /\ call[t].file # NoName BY AtWork DEF StartPrefetch, At
  <1>2. /\ c \in Call /\ c.pc = "dir" /\ c.label = 0 /\ c.file = call[t].file /\ c.asked = 0
        /\ c.kind = "get"
    BY <1>1, IdleCall DEF Call, Idle, Unknown
  <1>3. /\ call' = [call EXCEPT ![t] = c]
        /\ UNCHANGED <<clock, changes, metaMap, dirMap, cache, closed>>
    BY DEF StartPrefetch
  <1>4. Content(c.file) \in Nat /\ clock \in Nat BY <1>1, <1>2, ContentNat DEF Inv
  <1> HIDE DEF c
  <1>5. CallInv(c) BY <1>1, <1>2, <1>4 DEF CallInv
  <1>6. QED BY <1>2, <1>3, <1>5, LocalStep

\* So names may be sorted with it.
LEMMA NamesOrdered ==
  /\ \A a, b \in Names : natLess(a, b) => ~natLess(b, a)
  /\ \A a, b, c \in Names : natLess(a, c) => natLess(a, b) \/ natLess(b, c)
  <1>1. \A a \in Names : a \in Seq(Nat) BY CodePointsAssumption
  <1>2. QED BY <1>1, NatLessOrders

\* SortsBefore is a strict total order of the places of a listing.
LEMMA SortsStrictly ==
  ASSUME NEW files \in Seq(Names), NEW i \in DOMAIN files, NEW j \in DOMAIN files,
         NEW k \in DOMAIN files
  PROVE  /\ SortsBefore(files, i, j) => ~SortsBefore(files, j, i)
         /\ i # j => SortsBefore(files, i, j) \/ SortsBefore(files, j, i)
         /\ SortsBefore(files, i, j) /\ SortsBefore(files, j, k) => SortsBefore(files, i, k)
  <1>1. i \in Nat /\ j \in Nat /\ k \in Nat OBVIOUS
  <1>2. files[i] \in Names /\ files[j] \in Names /\ files[k] \in Names OBVIOUS
  <1>3. /\ natLess(files[i], files[j]) => ~natLess(files[j], files[i])
        /\ natLess(files[j], files[i]) => ~natLess(files[i], files[j])
        /\ natLess(files[i], files[k]) => ~natLess(files[k], files[i])
        /\ natLess(files[j], files[k]) => ~natLess(files[k], files[j])
    BY <1>2, NamesOrdered
  <1>4. /\ natLess(files[i], files[j]) => natLess(files[i], files[k]) \/ natLess(files[k], files[j])
        /\ natLess(files[j], files[k]) => natLess(files[j], files[i]) \/ natLess(files[i], files[k])
        /\ natLess(files[k], files[i]) => natLess(files[k], files[j]) \/ natLess(files[j], files[i])
    BY <1>2, NamesOrdered
  <1>5. SortsBefore(files, i, j) => ~SortsBefore(files, j, i)
    BY <1>1, <1>3 DEF SortsBefore
  <1>6. i # j => SortsBefore(files, i, j) \/ SortsBefore(files, j, i)
    BY <1>1, <1>3 DEF SortsBefore
  <1>7. SortsBefore(files, i, j) /\ SortsBefore(files, j, k) => SortsBefore(files, i, k)
    <2>1. i < j /\ j < k => i < k BY <1>1
    <2>2. QED BY <1>3, <1>4, <2>1, Zenon DEF SortsBefore
  <1>8. QED BY <1>5, <1>6, <1>7

\* So some place of a set comes first (a least counterexample: no set within 1..m).
LEMMA FirstExists ==
  ASSUME NEW files \in Seq(Names), NEW S \in SUBSET DOMAIN files, S # {}
  PROVE  /\ FirstOf(files, S) \in S
         /\ \A j \in S \ {FirstOf(files, S)} : SortsBefore(files, FirstOf(files, S), j)
  <1> DEFINE HasFirst(T) == \E i \in T : \A j \in T \ {i} : SortsBefore(files, i, j)
             Bad == {m \in Nat : \E T \in SUBSET DOMAIN files :
                                    T \subseteq 1..m /\ T # {} /\ ~HasFirst(T)}
  <1>1. ASSUME Bad # {} PROVE FALSE
    <2>1. PICK m \in Bad : \A k \in Bad : m <= k BY <1>1, LeastNatural
    <2>2. PICK T \in SUBSET DOMAIN files : T \subseteq 1..m /\ T # {} /\ ~HasFirst(T)
      BY <2>1
    <2>3. m \in Nat /\ m # 0 BY <2>2
    <2>4. ASSUME NEW U \in SUBSET T, U \subseteq 1..(m - 1), U # {} PROVE HasFirst(U)
      <3>1. m - 1 \notin Bad
        <4> HIDE DEF Bad
        <4>1. ~(m <= m - 1) BY <2>3
        <4>2. QED BY <2>1, <4>1
      <3>2. m - 1 \in Nat /\ U \in SUBSET DOMAIN files BY <2>3, <2>4
      <3> HIDE DEF HasFirst
      <3>3. QED BY <2>4, <3>1, <3>2
    <2>5. T \ {m} \subseteq 1..(m - 1) /\ T \ {m} \in SUBSET T BY <2>2, <2>3
    <2>6. m \in T
      <3>1. ASSUME m \notin T PROVE FALSE
        <4>1. T \ {m} = T BY <3>1
        <4> HIDE DEF HasFirst
        <4>2. QED BY <2>2, <2>4, <2>5, <4>1
      <3>2. QED BY <3>1
    <2>7. CASE T \ {m} = {} BY <2>2, <2>6, <2>7
    <2>8. CASE T \ {m} # {}
      <3>1. HasFirst(T \ {m})
        <4> HIDE DEF HasFirst
        <4>1. QED BY <2>4, <2>5, <2>8
      <3>2. PICK i \in T \ {m} : \A j \in (T \ {m}) \ {i} : SortsBefore(files, i, j) BY <3>1
      <3>3. i \in DOMAIN files /\ m \in DOMAIN files /\ i # m BY <2>2, <2>6, <3>2
      <3>4. CASE SortsBefore(files, i, m) BY <2>2, <3>2, <3>4
      <3>5. CASE SortsBefore(files, m, i)
        <4>1. ASSUME NEW j \in T \ {m} PROVE SortsBefore(files, m, j)
          <5>1. CASE j = i BY <3>5, <5>1
          <5>2. CASE j # i
            <6>1. SortsBefore(files, i, j) /\ j \in DOMAIN files BY <2>2, <3>2, <4>1, <5>2
            <6>2. QED BY <3>3, <3>5, <6>1, SortsStrictly
          <5>3. QED BY <5>1, <5>2
        <4>2. QED BY <2>2, <2>6, <4>1
      <3>6. QED BY <3>3, <3>4, <3>5, SortsStrictly
    <2>9. QED BY <2>7, <2>8
  <1>2. HasFirst(S)
    <2>1. Len(files) \in Nat /\ S \subseteq 1..Len(files) OBVIOUS
    <2>2. Len(files) \notin Bad BY <1>1
    <2> HIDE DEF HasFirst
    <2>3. QED BY <2>1, <2>2
  <1>3. QED BY <1>2 DEF FirstOf

\* NextEpisode returns the name that follows, or nothing behind the last.
LEMMA NextEpisodeIs ==
  ASSUME NEW files \in Seq(Names), NEW f \in Names
  PROVE  LET next == NextEpisode(files, f)
         IN /\ next # NoName => next \in Names /\ Follows(files, f, next)
            /\ next = NoName /\ f \in Range(files) =>
                 \A g \in Range(files) : ~natLess(f, g)
  <1> DEFINE places == {i \in DOMAIN files : files[i] = f}
             p == FirstOf(files, places)
             behind == {j \in DOMAIN files : SortsBefore(files, p, j)}
             q == FirstOf(files, behind)
  <1>1. NextEpisode(files, f) = IF places = {} \/ behind = {} THEN NoName ELSE files[q]
    BY DEF NextEpisode
  <1>2. places # {} => p \in DOMAIN files /\ files[p] = f
    <2>1. places \in SUBSET DOMAIN files OBVIOUS
    <2>2. places # {} => p \in places BY <2>1, FirstExists
    <2>3. QED BY <2>2
  <1>3. behind # {} =>
          /\ q \in DOMAIN files /\ SortsBefore(files, p, q)
          /\ \A j \in behind \ {q} : SortsBefore(files, q, j)
    <2>1. behind \in SUBSET DOMAIN files OBVIOUS
    <2>2. behind # {} => q \in behind /\ \A j \in behind \ {q} : SortsBefore(files, q, j)
      BY <2>1, FirstExists
    <2>3. QED BY <2>2
  <1>4. places # {} => \A j \in DOMAIN files : natLess(f, files[j]) => j \in behind
    BY <1>2 DEF SortsBefore
  <1>5. \A j \in DOMAIN files : files[j] \in Names /\ files[j] # NoName OBVIOUS
  <1>6. f \in Range(files) => places # {} BY DEF Range
  <1> HIDE DEF places, p, behind, q
  <1>7. CASE places = {} \/ behind = {}
    <2>1. NextEpisode(files, f) = NoName BY <1>1, <1>7
    <2>2. ASSUME f \in Range(files), NEW g \in Range(files) PROVE ~natLess(f, g)
      <3>1. PICK j \in DOMAIN files : g = files[j] BY DEF Range
      <3>2. QED BY <1>4, <1>6, <1>7, <2>2, <3>1
    <2>3. QED BY <2>1, <2>2
  <1>8. CASE ~(places = {} \/ behind = {})
    <2>1. /\ NextEpisode(files, f) = files[q] /\ q \in DOMAIN files /\ files[q] \in Names
          /\ SortsBefore(files, p, q)
      BY <1>1, <1>3, <1>5, <1>8
    <2>2. files[q] \in Range(files) BY <2>1 DEF Range
    <2>3. ~natLess(files[q], f)
      BY <1>2, <1>8, <2>1, NamesOrdered DEF SortsBefore
    <2>4. ASSUME NEW g \in Range(files), natLess(f, g) PROVE ~natLess(g, files[q])
      <3>1. PICK j \in DOMAIN files : g = files[j] BY DEF Range
      <3>2. j \in behind BY <1>4, <1>8, <2>4, <3>1
      <3>3. CASE j = q
        <4>1. g = files[q] BY <3>1, <3>3
        <4>2. QED BY <2>1, <4>1, NamesOrdered
      <3>4. CASE j # q
        <4>1. SortsBefore(files, q, j) BY <1>3, <1>8, <3>2, <3>4
        <4>2. files[j] \in Names BY <1>5
        <4>3. QED BY <2>1, <3>1, <4>1, <4>2, NamesOrdered DEF SortsBefore
      <3>5. QED BY <3>3, <3>4
    <2>5. Follows(files, f, files[q]) BY <2>2, <2>3, <2>4 DEF Follows
    <2>6. QED BY <1>5, <2>1, <2>5
  <1>9. QED BY <1>7, <1>8

\* What tryPrefetch leaves its thread with.
LEMMA TryPrefetchCall ==
  ASSUME Inv, NEW t \in Threads, NEW files \in Listings, call[t].file \in Names,
         tryPrefetch(t, files)
  PROVE  \E c \in Call : CallInv(c) /\ call' = [call EXCEPT ![t] = c]
  <1> DEFINE next == NextEpisode(files, call[t].file)
  <1>1. CASE next = NoName
    <2>1. call' = [call EXCEPT ![t] = Idle] BY <1>1 DEF tryPrefetch
    <2>2. QED BY <2>1, IdleInv, IdleCall
  <1>2. CASE next # NoName
    <2>1. next \in Names BY <1>2, NextEpisodeIs, ListingsAssumption DEF Follows, Range
    <2> DEFINE c == [Idle EXCEPT !.pc = "resolve", !.file = next, !.kind = "next"]
    <2>2. call' = [call EXCEPT ![t] = c] BY <1>2 DEF tryPrefetch
    <2> HIDE DEF next
    <2>3. c \in Call /\ c.pc = "resolve" /\ c.label = 0 /\ c.file = next /\ c.asked = 0
          /\ c.kind = "next"
      BY <2>1 DEF Call, Idle, Unknown
    <2>4. Content(next) \in Nat /\ clock \in Nat BY <2>1, ContentNat DEF Inv
    <2> HIDE DEF c
    <2>5. CallInv(c) BY <1>2, <2>3, <2>4 DEF CallInv
    <2>6. QED BY <2>2, <2>3, <2>5
  <1>3. QED BY <1>1, <1>2

LEMMA LookupDirInv ==
  ASSUME Inv, NEW t \in Threads, LookupDir(t)
  PROVE  Inv'
  <1>1. call[t] \in Call /\ CallInv(call[t]) /\ call[t].file \in Names /\ call[t].file # NoName
    BY AtWork DEF LookupDir, At
  <1>2. UNCHANGED <<clock, changes, metaMap, dirMap, cache, closed>> BY DEF LookupDir
  <1>3. CASE Fresh(dirMap) /\ tryPrefetch(t, dirMap.files)
    <2>1. dirMap \in [files : Listings, at : Nat] BY <1>3 DEF Fresh, Inv, TypeOK
    <2>2. dirMap.files \in Listings BY <2>1
    <2>3. PICK c \in Call : CallInv(c) /\ call' = [call EXCEPT ![t] = c]
      BY <1>1, <1>3, <2>2, TryPrefetchCall
    <2>4. QED BY <1>2, <2>3, LocalStep
  <1>4. CASE call' = [call EXCEPT ![t].pc = "list", ![t].asked = clock]
    <2> DEFINE c == [call[t] EXCEPT !.pc = "list", !.asked = clock]
    <2>1. call' = [call EXCEPT ![t] = c] BY <1>4 DEF Inv, TypeOK
    <2>2. clock \in Nat BY DEF Inv, TypeOK
    <2>3. /\ c \in Call /\ c.pc = "list" /\ c.label = call[t].label /\ c.file = call[t].file
          /\ c.asked = clock /\ c.kind = call[t].kind
      BY <1>1, <2>2 DEF Call
    <2> HIDE DEF c
    <2>4. call[t].kind = "get" BY <1>1 DEF LookupDir, At, CallInv
    <2>5. CallInv(c) BY <1>1, <2>2, <2>3, <2>4 DEF CallInv
    <2>6. QED BY <1>2, <2>1, <2>3, <2>5, LocalStep
  <1>5. QED BY <1>3, <1>4 DEF LookupDir

LEMMA StoreDirInv ==
  ASSUME Inv, NEW t \in Threads, StoreDir(t)
  PROVE  Inv'
  <1>1. call[t] \in Call /\ call[t].file \in Names BY AtWork DEF StoreDir, At
  <1>2. PICK files \in Listings : /\ dirMap' = [files |-> files, at |-> call[t].asked]
                                  /\ tryPrefetch(t, files)
    BY DEF StoreDir
  <1>3. PICK c \in Call : CallInv(c) /\ call' = [call EXCEPT ![t] = c]
    BY <1>1, <1>2, TryPrefetchCall
  <1>4. dirMap' \in [files : Listings, at : Nat] BY <1>1, <1>2 DEF Call
  <1>5. UNCHANGED <<clock, changes, metaMap, cache, closed>> BY DEF StoreDir
  <1>6. /\ cache' \subseteq Block /\ \A b \in cache' : BlockInv(b)
        /\ metaMap' \in [Names -> Entry \cup {NoEntry}]
        /\ \A f \in Names : metaMap'[f] # NoEntry => EntryInv(f, metaMap'[f])
    BY <1>5 DEF Inv, TypeOK, Block
  <1>7. QED BY <1>3, <1>4, <1>5, <1>6, CallStep

LEMMA TickInv ==
  ASSUME Inv, Tick
  PROVE  Inv'
  <1>1. /\ clock \in Nat /\ clock' = clock + 1
        /\ UNCHANGED <<changes, metaMap, dirMap, cache, closed, call>>
    BY DEF Tick, Inv, TypeOK
  <1>2. TypeOK' BY <1>1 DEF Inv, TypeOK
  <1>3. ChangesInv'
    <2> SUFFICES ASSUME NEW f \in Names
                 PROVE  \A i \in 1 .. Len(changes[f]) : changes[f][i] <= clock'
      BY <1>1 DEF Inv, ChangesInv
    <2> TAKE i \in 1 .. Len(changes[f])
    <2>1. changes[f][i] \in Nat BY ContentNat DEF Inv
    <2>2. changes[f][i] <= clock BY DEF Inv, ChangesInv
    <2>3. QED BY <1>1, <2>1, <2>2
  <1>4. ASSUME NEW f \in Names, metaMap'[f] # NoEntry PROVE EntryInv(f, metaMap[f])'
    <2>1. EntryInv(f, metaMap[f]) /\ metaMap[f] \in Entry BY <1>1, <1>4 DEF Inv, TypeOK
    <2>2. metaMap[f].at \in Nat BY <2>1 DEF Entry
    <2>3. metaMap[f].at <= clock' BY <1>1, <2>1, <2>2 DEF EntryInv
    <2>4. QED BY <1>1, <2>1, <2>3 DEF EntryInv, CurrentSince, Content
  <1>5. \A b \in cache' : BlockInv(b)' BY <1>1 DEF Inv, BlockInv, Content
  <1>6. ASSUME NEW t \in Threads PROVE CallInv(call[t])'
    <2>1. CallInv(call[t]) /\ call[t].asked \in Nat BY AtWork DEF Call
    <2>2. call[t].asked <= clock' BY <1>1, <2>1 DEF CallInv
    <2>3. QED BY <1>1, <2>1, <2>2 DEF CallInv, CurrentSince, Content
  <1>7. QED BY <1>2, <1>3, <1>4, <1>5, <1>6 DEF Inv

LEMMA ChangeInv ==
  ASSUME Inv, NEW g \in Names, Change(g)
  PROVE  Inv'
  <1>1. /\ changes' = [changes EXCEPT ![g] = Append(@, clock)]
        /\ UNCHANGED <<clock, metaMap, dirMap, cache, closed, call>>
    BY DEF Change
  <1>2. /\ TypeOK /\ ChangesInv /\ clock \in Nat /\ changes \in [Names -> Seq(Nat)]
        /\ changes[g] \in Seq(Nat)
    BY DEF Inv, TypeOK
  <1>3. /\ changes'[g] = Append(changes[g], clock)
        /\ \A f \in Names : f # g => changes'[f] = changes[f]
    BY <1>1, <1>2
  <1>4. /\ changes'[g] \in Seq(Nat) /\ Len(changes'[g]) = Len(changes[g]) + 1
        /\ Len(changes[g]) \in Nat /\ changes'[g][Len(changes[g]) + 1] = clock
        /\ \A i \in 1 .. Len(changes[g]) : changes'[g][i] = changes[g][i]
    BY <1>2, <1>3, AppendProperties
  <1>5. changes' \in [Names -> Seq(Nat)] BY <1>1, <1>2, <1>3, <1>4
  <1>6. TypeOK' BY <1>1, <1>5 DEF Inv, TypeOK
  <1>7. ASSUME NEW f \in Names PROVE Content(f) <= Content(f)' /\ Content(f)' \in Nat
    <2>1. CASE f = g BY <2>1, <1>4 DEF Content
    <2>2. CASE f # g BY <2>2, <1>2, <1>3 DEF Content
    <2>3. QED BY <2>1, <2>2
  <1>8. ChangesInv'
    <2> SUFFICES ASSUME NEW f \in Names
                 PROVE  /\ \A i \in 1 .. Len(changes'[f]) : changes'[f][i] <= clock
                        /\ \A i, j \in 1 .. Len(changes'[f]) :
                             i <= j => changes'[f][i] <= changes'[f][j]
      BY <1>1 DEF ChangesInv
    <2>1. CASE f # g BY <2>1, <1>2, <1>3 DEF ChangesInv
    <2>2. CASE f = g
      <3> DEFINE n == Len(changes[g])
      <3>1. \A i \in 1 .. n : changes[g][i] <= clock BY <1>2 DEF ChangesInv
      <3>2. \A i, j \in 1 .. n : i <= j => changes[g][i] <= changes[g][j]
        BY <1>2 DEF ChangesInv
      <3>3. \A i \in 1 .. n : changes'[g][i] = changes[g][i] BY <1>4
      <3>4. n \in Nat /\ Len(changes'[g]) = n + 1 /\ changes'[g][n + 1] = clock BY <1>4
      <3> HIDE DEF n
      <3>5. \A i \in 1 .. n + 1 : changes'[g][i] <= clock
        <4> TAKE i \in 1 .. n + 1
        <4>1. CASE i = n + 1 BY <4>1, <3>4, <1>2
        <4>2. CASE i # n + 1 BY <4>2, <3>1, <3>3, <3>4
        <4>3. QED BY <4>1, <4>2
      <3>6. \A i, j \in 1 .. n + 1 : i <= j => changes'[g][i] <= changes'[g][j]
        <4> TAKE i, j \in 1 .. n + 1
        <4>1. CASE j = n + 1 BY <4>1, <3>4, <3>5
        <4>2. CASE j # n + 1
          <5> SUFFICES ASSUME i <= j PROVE changes'[g][i] <= changes'[g][j] OBVIOUS
          <5>1. i \in 1 .. n /\ j \in 1 .. n BY <4>2, <3>4
          <5>2. changes[g][i] <= changes[g][j] BY <5>1, <3>2
          <5>3. changes'[g][i] = changes[g][i] /\ changes'[g][j] = changes[g][j]
            BY <5>1, <3>3
          <5>4. QED BY <5>2, <5>3
        <4>3. QED BY <4>1, <4>2
      <3>7. QED BY <2>2, <3>4, <3>5, <3>6
    <2>3. QED BY <2>1, <2>2
  <1>9. ASSUME NEW f \in Names, NEW v \in Nat, v <= Content(f) PROVE v <= Content(f)'
    BY <1>2, <1>7, <1>9, ContentNat
  <1>10. ASSUME NEW f \in Names, NEW v \in Nat, NEW s \in Int, s <= clock, CurrentSince(f, v, s)
         PROVE  CurrentSince(f, v, s)'
    BY <1>1, <1>2, <1>10, SinceStays
  <1>11. ASSUME NEW f \in Names, metaMap'[f] # NoEntry PROVE EntryInv(f, metaMap[f])'
    <2> DEFINE e == metaMap[f]
    <2>1. EntryInv(f, e) /\ e \in Entry /\ metaMap' = metaMap
      BY <1>1, <1>11 DEF Inv, TypeOK
    <2>2. e.at \in Nat /\ e.version \in Nat BY <2>1 DEF Entry
    <2> HIDE DEF e
    <2>3. e.version <= Content(f)' BY <1>9, <2>1, <2>2 DEF EntryInv
    <2>4. f \in Tagged => CurrentSince(f, e.version, e.at)'
      <3> SUFFICES ASSUME f \in Tagged PROVE CurrentSince(f, e.version, e.at)'
        BY <2>1 DEF e
      <3>1. e.at \in Int /\ e.at <= clock /\ CurrentSince(f, e.version, e.at)
        BY <2>1, <2>2 DEF EntryInv
      <3>2. \A v \in Nat, s \in Int : s <= clock /\ CurrentSince(f, v, s) => CurrentSince(f, v, s)'
        BY <1>10
      <3>3. QED BY <3>1, <3>2, <2>1, <2>2 DEF CurrentSince, Content, e
    <2>5. QED BY <1>1, <2>1, <2>3, <2>4 DEF EntryInv, e
  <1>12. ASSUME NEW b \in cache' PROVE BlockInv(b)'
    <2>1. b \in Block /\ BlockInv(b) BY <1>1 DEF Inv, TypeOK, Block
    <2>2. b.file \in Names /\ b.content \in Nat BY <2>1 DEF Block
    <2>3. QED BY <1>9, <2>1, <2>2 DEF BlockInv
  <1>13. ASSUME NEW t \in Threads PROVE CallInv(call[t])'
    <2>1. call[t] \in Call /\ CallInv(call[t]) /\ call' = call BY <1>1, AtWork
    <2>2. CASE call[t].file = NoName
      <3>1. call[t] = Idle BY <2>1, <2>2 DEF CallInv
      <3>2. QED BY <1>1, <2>1, <3>1, IdleCall DEF CallInv
    <2>3. CASE call[t].file # NoName
      <3> DEFINE f == call[t].file
                 s == call[t].asked
      <3>1. /\ f \in Names /\ s \in Nat /\ s <= clock /\ call[t].label \in Nat
            /\ call[t].body \in Nat /\ s - MaxAge \in Int /\ s - MaxAge <= clock
        BY <1>2, <2>1, <2>3, MaxAgeNat DEF Call, CallInv
      <3>2. call[t].label <= Content(f)' BY <1>9, <2>1, <2>3, <3>1 DEF CallInv
      <3>3. call[t].pc = "put" => call[t].body <= Content(f)'
        BY <1>9, <2>1, <3>1 DEF CallInv
      <3>4. ASSUME NEW v \in Nat, NEW r \in Int, r <= clock, CurrentSince(call[t].file, v, r)
            PROVE  CurrentSince(call[t].file, v, r)'
        <4>1. \A h \in Names : CurrentSince(h, v, r) => CurrentSince(h, v, r)'
          BY <1>10, <3>4
        <4>2. QED BY <4>1, <3>1, <3>4, <2>1 DEF CurrentSince, Content
      <3>5. QED BY <1>1, <2>1, <2>3, <3>1, <3>2, <3>3, <3>4 DEF CallInv
    <2>4. QED BY <2>2, <2>3
  <1>14. QED BY <1>6, <1>8, <1>11, <1>12, <1>13 DEF Inv

LEMMA EvictInv ==
  ASSUME Inv, Evict
  PROVE  Inv'
  <1>1. cache' \subseteq cache /\ UNCHANGED <<clock, changes, metaMap, dirMap, closed, call>>
    BY DEF Evict
  <1>2. TypeOK' BY <1>1 DEF Inv, TypeOK
  <1>3. ChangesInv' BY <1>1 DEF Inv, ChangesInv
  <1>4. \A f \in Names : metaMap'[f] # NoEntry => EntryInv(f, metaMap[f])'
    BY <1>1 DEF Inv, EntryInv, CurrentSince, Content
  <1>5. \A b \in cache' : BlockInv(b)' BY <1>1 DEF Inv, BlockInv, Content
  <1>6. \A t \in Threads : CallInv(call[t])'
    BY <1>1 DEF Inv, CallInv, CurrentSince, Content
  <1>7. QED BY <1>2, <1>3, <1>4, <1>5, <1>6 DEF Inv

\* Nothing of the invariant is about closed.
LEMMA CloseInv ==
  ASSUME Inv, UNCHANGED <<clock, changes, metaMap, dirMap, cache, call>>, closed' \in BOOLEAN
  PROVE  Inv'
  <1>1. TypeOK' BY DEF Inv, TypeOK
  <1>2. ChangesInv' BY DEF Inv, ChangesInv
  <1>3. \A f \in Names : metaMap'[f] # NoEntry => EntryInv(f, metaMap[f])'
    BY DEF Inv, EntryInv, CurrentSince, Content
  <1>4. \A b \in cache' : BlockInv(b)' BY DEF Inv, BlockInv, Content
  <1>5. \A t \in Threads : CallInv(call[t])' BY DEF Inv, CallInv, CurrentSince, Content
  <1>6. QED BY <1>1, <1>2, <1>3, <1>4, <1>5 DEF Inv

LEMMA StepInv ==
  ASSUME Inv, NEW t \in Threads, Step(t)
  PROVE  Inv'
  <1>1. CASE ResolveNext(t) BY <1>1, ResolveNextInv
  <1>2. CASE HeadAnswers(t) BY <1>2, HeadAnswersInv
  <1>3. CASE StoreMeta(t) BY <1>3, StoreMetaInv
  <1>4. CASE HeadFails(t) BY <1>4, HeadFailsInv
  <1>5. CASE Lookup(t) BY <1>5, LookupInv
  <1>6. CASE Answered(t) BY <1>6, AnsweredInv
  <1>7. CASE PutBlock(t) BY <1>7, PutBlockInv
  <1>8. CASE Done(t) BY <1>8, EndsInv DEF Done
  <1>9. CASE StartPrefetch(t) BY <1>9, StartPrefetchInv
  <1>10. CASE LookupDir(t) BY <1>10, LookupDirInv
  <1>11. CASE StoreDir(t) BY <1>11, StoreDirInv
  <1>12. CASE LookupAgain(t) BY <1>12, LookupAgainInv
  <1>13. QED
    BY <1>1, <1>2, <1>3, <1>4, <1>5, <1>6, <1>7, <1>8, <1>9, <1>10, <1>11, <1>12 DEF Step

LEMMA NextInv ==
  ASSUME Inv, [Next]_vars
  PROVE  Inv'
  <1>1. CASE Tick BY <1>1, TickInv
  <1>2. CASE Evict BY <1>2, EvictInv
  <1>3. CASE Close BY <1>3, CloseInv DEF Close
  <1>4. CASE \E f \in Names : Change(f) BY <1>4, ChangeInv
  <1>5. CASE \E t \in Threads : Step(t) BY <1>5, StepInv
  <1>6. CASE \E t \in Threads, f \in Names : Get(t, f) BY <1>6, GetInv
  <1>7. CASE UNCHANGED vars BY <1>7, CloseInv DEF vars, Inv, TypeOK
  <1>8. QED BY <1>1, <1>2, <1>3, <1>4, <1>5, <1>6, <1>7 DEF Next

LEMMA InvHolds == Spec => []Inv
  BY InitInv, NextInv, PTL DEF Spec

-----------------------------------------------------------------------------
(* The theorems.                                                           *)

\* Every variable keeps its type, and only a thread at work has a file.
THEOREM TypeCorrect == Spec => []TypeOK
  <1>1. Inv => TypeOK BY DEF Inv
  <1>2. QED BY InvHolds, <1>1, PTL

\* An entry of metaMap was the upstream's version when it was asked for or later, in
\* whatever order HEADs are answered and stored.
THEOREM HonestEntries == Spec => []EntriesAreHonest
  <1>1. Inv => EntriesAreHonest
    <2> SUFFICES ASSUME Inv, NEW f \in Tagged, metaMap[f] # NoEntry
                 PROVE  CurrentSince(f, metaMap[f].version, metaMap[f].at)
      BY DEF EntriesAreHonest
    <2>1. f \in Names BY NamesAssumption
    <2>2. QED BY <2>1 DEF Inv, EntryInv
  <1>2. QED BY InvHolds, <1>1, PTL

\* A block is at least as new as its label says.
THEOREM FloorLabels == Spec => []LabelsAreFloors
  <1>1. Inv => LabelsAreFloors BY DEF Inv, BlockInv, LabelsAreFloors
  <1>2. QED BY InvHolds, <1>1, PTL

\* No response holds bytes older than HeadRevalidateSec, while HEAD answers.
THEOREM RecentBytes == Spec => []BytesAreRecent
  <1>1. Inv => BytesAreRecent BY DEF Inv, CallInv, BytesAreRecent
  <1>2. QED BY InvHolds, <1>1, PTL

\* What pruneMeta keeps is within the capacity.
LEMMA KeptFits ==
  ASSUME Cap > 0, NEW S, IsFiniteSet(S), NEW map, NEW K \in Kept(S, map)
  PROVE  Cardinality(K) <= Cap
  <1> DEFINE n == Cardinality(S)
  <1>1. n \in Nat BY FS_CardinalityType
  <1>2. CASE n <= Cap
    <2>1. K = S BY <1>2 DEF Kept
    <2>2. QED BY <1>2, <2>1
  <1>3. CASE ~(n <= Cap)
    <2>1. Cardinality(K) = n - (n - Cap + Cap \div 4) BY <1>3 DEF Kept
    <2>2. Cap \div 4 \in Nat OBVIOUS
    <2> HIDE DEF n
    <2>3. QED BY <1>1, <2>1, <2>2
  <1>4. QED BY <1>2, <1>3

\* The map of versions never outgrows its limit.
THEOREM BoundedMap == Spec => []MapBounded
  <1> DEFINE Used(map) == {f \in Names : map[f] # NoEntry}
  <1>1. Init => MapBounded
    <2> SUFFICES ASSUME Init PROVE MapBounded OBVIOUS
    <2>1. Used(metaMap) = {} BY DEF Init
    <2>2. QED BY <2>1, FS_EmptySet DEF MapBounded
  <1>2. Inv /\ MapBounded /\ [Next]_vars => MapBounded'
    <2> SUFFICES ASSUME Inv, MapBounded, [Next]_vars PROVE MapBounded' OBVIOUS
    <2>1. CASE UNCHANGED metaMap BY <2>1 DEF MapBounded
    <2>2. ASSUME NEW t \in Threads, StoreMeta(t) PROVE MapBounded'
      <3> SUFFICES ASSUME Cap > 0 PROVE Cardinality(Used(metaMap')) <= Cap BY DEF MapBounded
      <3> DEFINE map == [metaMap EXCEPT ![call[t].file] =
                           [version |-> call[t].label, at |-> call[t].asked]]
      <3>1. metaMap' \in Prune(map) BY <2>2 DEF StoreMeta
      <3>2. DOMAIN map = Names BY DEF Inv, TypeOK
      <3> HIDE DEF map
      <3>3. PICK K \in Kept(Used(map), map) :
              metaMap' = [k \in Names |-> IF k \in K THEN map[k] ELSE NoEntry]
        BY <3>1, <3>2 DEF Prune
      <3>4. IsFiniteSet(Used(map)) BY FS_Subset
      <3>5. Cardinality(K) <= Cap BY <3>3, <3>4, KeptFits
      <3>6. K \subseteq Used(map) BY <3>3 DEF Kept
      <3>7. Used(metaMap') = K BY <3>3, <3>6
      <3>8. QED BY <3>5, <3>7
    <2>3. \/ UNCHANGED metaMap \/ \E t \in Threads : StoreMeta(t)
      BY DEF Next, Step, vars, Tick, Evict, Close, Change, Get, ResolveNext, HeadAnswers,
             HeadFails, Lookup, LookupAgain, Answered, PutBlock, Done, StartPrefetch,
             LookupDir, StoreDir
    <2>4. QED BY <2>1, <2>2, <2>3
  <1>3. QED BY InvHolds, <1>1, <1>2, PTL DEF Spec

-----------------------------------------------------------------------------
(* The next episode.                                                       *)

\* A thread without a listing in hand, or one that others' steps leave where it is, has
\* nothing to do with it.
LEMMA NearestElsewhere ==
  ASSUME NEW t \in Threads, ~At(t, "dir"), ~At(t, "list")
  PROVE  Nearest(t)
  BY DEF Nearest

LEMMA NearestKept ==
  ASSUME Inv, NEW t \in Threads, call'[t] = call[t]
  PROVE  Nearest(t)
  <1>1. CallInv(call[t]) BY DEF Inv
  <1>2. At(t, "dir") \/ At(t, "list") => call'[t].kind = "get" /\ call'[t].pc # "idle"
    BY <1>1 DEF CallInv, At
  <1>3. QED BY <1>2 DEF Nearest

LEMMA TryPrefetchFollows ==
  ASSUME Inv, NEW t \in Threads, NEW files \in Listings, call[t].file \in Names,
         tryPrefetch(t, files)
  PROVE  /\ call'[t].kind = "next" => Follows(files, call[t].file, call'[t].file)
         /\ call'[t].pc = "idle" /\ call[t].file \in Range(files) =>
              \A g \in Range(files) : ~natLess(call[t].file, g)
  <1> DEFINE next == NextEpisode(files, call[t].file)
  <1>1. files \in Seq(Names) BY ListingsAssumption
  <1>2. /\ next # NoName => Follows(files, call[t].file, next)
        /\ next = NoName /\ call[t].file \in Range(files) =>
             \A g \in Range(files) : ~natLess(call[t].file, g)
    BY <1>1, NextEpisodeIs
  <1>3. call'[t] = IF next = NoName THEN Idle
                   ELSE [Idle EXCEPT !.pc = "resolve", !.file = next, !.kind = "next"]
    BY DEF tryPrefetch, Inv, TypeOK
  <1> HIDE DEF next
  <1>4. CASE next = NoName
    <2>1. call'[t].kind = "get" BY <1>3, <1>4 DEF Idle
    <2>2. QED BY <1>2, <1>4, <2>1
  <1>5. CASE next # NoName
    <2>1. call'[t].pc = "resolve" /\ call'[t].file = next BY <1>3, <1>5 DEF Idle
    <2>2. QED BY <1>2, <1>5, <2>1
  <1>6. QED BY <1>4, <1>5

LEMMA NearestStep ==
  ASSUME Inv, Next, NEW t \in Threads
  PROVE  Nearest(t)
  <1>1. CASE UNCHANGED call
    <2>1. call'[t] = call[t] BY <1>1
    <2>2. QED BY <2>1, NearestKept
  <1>2. ASSUME NEW f \in Names, Get(t, f) PROVE Nearest(t)
    <2>1. ~At(t, "dir") /\ ~At(t, "list") BY <1>2 DEF Get, At
    <2>2. QED BY <2>1, NearestElsewhere
  <1>3. ASSUME Step(t) PROVE Nearest(t)
    <2>1. CASE ~At(t, "dir") /\ ~At(t, "list") BY <2>1, NearestElsewhere
    <2>2. CASE LookupDir(t)
      <3>1. At(t, "dir") /\ ~At(t, "list") /\ call[t].file \in Names
        BY <2>2, AtWork DEF LookupDir, At
      <3>2. CASE Fresh(dirMap) /\ tryPrefetch(t, dirMap.files)
        <4>1. dirMap.files \in Listings BY <3>2 DEF Fresh, Inv, TypeOK
        <4>2. QED BY <3>1, <3>2, <4>1, TryPrefetchFollows DEF Nearest
      <3>3. CASE call' = [call EXCEPT ![t].pc = "list", ![t].asked = clock]
        <4>1. call[t] \in Call /\ CallInv(call[t]) BY DEF Inv, TypeOK
        <4>2. call'[t].pc = "list" /\ call'[t].kind = "get"
          BY <3>1, <3>3, <4>1 DEF Inv, TypeOK, Call, CallInv, At
        <4>3. QED BY <3>1, <4>2 DEF Nearest
      <3>4. QED BY <2>2, <3>2, <3>3 DEF LookupDir
    <2>3. CASE StoreDir(t)
      <3>1. At(t, "list") /\ ~At(t, "dir") /\ call[t].file \in Names
        BY <2>3, AtWork DEF StoreDir, At
      <3>2. PICK files \in Listings : dirMap'.files = files /\ tryPrefetch(t, files)
        BY <2>3 DEF StoreDir
      <3>3. QED BY <3>1, <3>2, TryPrefetchFollows DEF Nearest
    <2>4. CASE Done(t)
      <3>1. call'[t].kind = "get" /\ ~At(t, "dir")
        BY <2>4 DEF Done, Ends, Idle, At, Inv, TypeOK
      <3>2. QED BY <3>1 DEF Nearest
    <2>5. QED
      BY <1>3, <2>1, <2>2, <2>3, <2>4
      DEF Step, At, ResolveNext, HeadAnswers, StoreMeta, HeadFails, Lookup, LookupAgain, Answered,
          PutBlock, StartPrefetch
  <1>4. ASSUME NEW u \in Threads, u # t, Step(u) \/ (\E f \in Names : Get(u, f))
        PROVE  Nearest(t)
    <2>1. call'[t] = call[t]
      BY <1>4
      DEF Step, ResolveNext, Resolve, HeadAnswers, StoreMeta, HeadFails, Ends, Lookup, LookupAgain,
          Responds, Answered, PutBlock, Done, StartPrefetch, LookupDir, StoreDir, tryPrefetch, Get,
          Inv, TypeOK
    <2>2. QED BY <2>1, NearestKept
  <1>5. QED BY <1>1, <1>2, <1>3, <1>4 DEF Next, Tick, Evict, Close, Change

\* A prefetch goes to the episode that follows in the listing it has: the sort of
\* NextEpisode ends with nothing between the two, however the upstream ordered the names
\* and however many of them natLess finds equal; and it finds none only at the last.
THEOREM NextFollows == Spec => NextIsNearest
  <1>1. Inv /\ [Next]_vars => [\A t \in Threads : Nearest(t)]_vars BY NearestStep
  <1>2. QED BY <1>1, InvHolds, PTL DEF Spec, NextIsNearest
=============================================================================
