------------------------------- MODULE Lemmas -------------------------------
(***************************************************************************)
(* Facts that the proofs of several components need: least elements;       *)
(* blocks of b bytes, where x - (x % b) is the start of the block of x;    *)
(* and the solution of a recursive definition.                             *)
(***************************************************************************)
EXTENDS Integers, NaturalsInduction, WellFoundedInduction, TLAPS

\* A set of naturals that is not empty has a least element.
LEMMA LeastNatural ==
  ASSUME NEW S \in SUBSET Nat, S # {}
  PROVE  \E m \in S : \A n \in S : m <= n
  <1> DEFINE R == {p \in Nat \X Nat : p[1] < p[2]}
  <1>1. IsWellFoundedOn(R, Nat) BY NatLessThanWellFounded DEF OpToRel
  <1> HIDE DEF R
  <1>2. PICK m \in S : \A n \in S : ~(<<n, m>> \in R) BY <1>1, WFMin
  <1>3. \A n \in S : ~(n < m) BY <1>2 DEF R
  <1>4. QED BY <1>3

-----------------------------------------------------------------------------

\* x consists of whole blocks and a rest.
LEMMA Division ==
  ASSUME NEW b \in Nat \ {0}, NEW x \in Nat
  PROVE  /\ x = b * (x \div b) + (x % b)
         /\ x % b \in 0..(b - 1) /\ x \div b \in Nat
  OBVIOUS

LEMMA MultiplesApart ==
  ASSUME NEW b \in Nat \ {0}, NEW p \in Int, NEW q \in Int, p < q
  PROVE  b * p + b <= b * q
  <1>1. b * (p + 1) <= b * q BY Z3
  <1>2. QED BY <1>1

\* Quotient and remainder are unique.
LEMMA DivisionUnique ==
  ASSUME NEW b \in Nat \ {0},
         NEW p \in Int, NEW q \in Int, NEW r \in Int, NEW s \in Int,
         b * p + r = b * q + s,
         0 <= r, r < b, 0 <= s, s < b
  PROVE  r = s
  <1>1. CASE p < q BY <1>1, MultiplesApart
  <1>2. CASE q < p BY <1>2, MultiplesApart
  <1>3. QED BY <1>1, <1>2

\* The block of x covers x.
LEMMA BlockCovers ==
  ASSUME NEW b \in Nat \ {0}, NEW x \in Nat
  PROVE  x - (x % b) \in Nat /\ x - (x % b) <= x /\ x < x - (x % b) + b
  <1> DEFINE r == x % b
  <1>1. x - r \in Nat OBVIOUS
  <1>2. r \in 0..(b - 1) OBVIOUS
  <1> HIDE DEF r
  <1>3. x - r \in Nat /\ x - r <= x /\ x < x - r + b BY <1>1, <1>2
  <1>4. QED BY <1>3 DEF r

\* It starts at a multiple of b.
LEMMA BlockAligned ==
  ASSUME NEW b \in Nat \ {0}, NEW x \in Nat
  PROVE  (x - (x % b)) % b = 0
  <1> DEFINE y == x - (x % b)  q == x \div b
  <1>1. y \in Nat OBVIOUS
  <1>2. y = b * q + 0 /\ q \in Nat BY Division
  <1>3. y = b * (y \div b) + (y % b) /\ y % b \in 0..(b - 1) /\ y \div b \in Nat
    BY Division, <1>1
  <1> HIDE DEF y, q
  <1>4. b * q + 0 = b * (y \div b) + (y % b) BY <1>2, <1>3
  <1>5. /\ q \in Int /\ y \div b \in Int /\ 0 \in Int /\ y % b \in Int
        /\ 0 <= 0 /\ 0 < b /\ 0 <= y % b /\ y % b < b
    BY <1>2, <1>3
  <1>6. 0 = y % b BY <1>4, <1>5, DivisionUnique, Zenon
  <1>7. QED BY <1>6 DEF y

LEMMA BlockMonotone ==
  ASSUME NEW b \in Nat \ {0}, NEW x \in Nat, NEW y \in Nat, x <= y
  PROVE  x - (x % b) <= y - (y % b)
  <1> DEFINE p == x \div b  q == y \div b
  <1>1. x - (x % b) = b * p /\ p \in Nat BY Division
  <1>2. y - (y % b) = b * q /\ q \in Nat BY Division
  <1>3. x - (x % b) \in Nat /\ y - (y % b) \in Nat /\ x < x - (x % b) + b /\ y - (y % b) <= y
        /\ x - (x % b) <= x /\ y < y - (y % b) + b
    BY BlockCovers
  <1> HIDE DEF p, q
  <1>4. CASE q < p
    <2>1. b * q + b <= b * p BY <1>1, <1>2, <1>4, MultiplesApart
    <2>2. QED BY <1>1, <1>2, <1>3, <2>1
  <1>5. CASE p <= q
    <2>1. b * p <= b * q BY <1>1, <1>2, <1>5, Z3
    <2>2. QED BY <1>1, <1>2, <2>1
  <1>6. QED BY <1>1, <1>2, <1>4, <1>5

\* Two multiples of b are equal or at least b apart.
LEMMA BlocksApart ==
  ASSUME NEW b \in Nat \ {0}, NEW x \in Nat, NEW y \in Nat,
         x % b = 0, y % b = 0, x < y
  PROVE  x + b <= y
  <1> DEFINE p == x \div b  q == y \div b
  <1>1. x = b * p + 0 /\ p \in Nat BY Division
  <1>2. y = b * q + 0 /\ q \in Nat BY Division
  <1> HIDE DEF p, q
  <1>3. SUFFICES ASSUME y < x + b PROVE FALSE OBVIOUS
  <1>4. y = b * p + (y - x) BY <1>1, <1>2
  <1>5. /\ p \in Int /\ q \in Int /\ y - x \in Int /\ 0 \in Int
        /\ 0 <= y - x /\ y - x < b /\ 0 <= 0 /\ 0 < b
    BY <1>1, <1>2, <1>3
  <1>6. b * p + (y - x) = b * q + 0 BY <1>2, <1>4
  <1>7. y - x = 0 BY <1>5, <1>6, DivisionUnique, Zenon
  <1>8. QED BY <1>7

\* The block after a block.
LEMMA BlockAfter ==
  ASSUME NEW b \in Nat \ {0}, NEW x \in Nat, x % b = 0
  PROVE  (x + b) % b = 0
  <1> DEFINE y == x + b  p == x \div b
  <1>1. x = b * p + 0 /\ p \in Nat BY Division
  <1>2. y \in Nat OBVIOUS
  <1>3. y = b * (y \div b) + (y % b) /\ y % b \in 0..(b - 1) /\ y \div b \in Nat
    BY <1>2, Division
  <1> HIDE DEF p
  <1>4. y = b * (p + 1) + 0 BY <1>1, Z3
  <1> HIDE DEF y
  <1>5. b * (p + 1) + 0 = b * (y \div b) + (y % b) BY <1>3, <1>4
  <1>6. /\ p + 1 \in Int /\ y \div b \in Int /\ 0 \in Int /\ y % b \in Int
        /\ 0 <= 0 /\ 0 < b /\ 0 <= y % b /\ y % b < b
    BY <1>1, <1>3
  <1>7. 0 = y % b BY <1>5, <1>6, DivisionUnique, Zenon
  <1>8. QED BY <1>7 DEF y

-----------------------------------------------------------------------------

\* The step of a recursive definition over S with values in V, whose calls go down in the
\* measure m.
Descends(S, V, m, bound, G) ==
  /\ bound \in Nat /\ m \in [S -> 0..bound]
  /\ [S -> V] # {} /\ G \in [[S -> V] -> [S -> V]]
  /\ \A g, h \in [S -> V] : \A x \in S :
       (\A y \in S : m[y] < m[x] => g[y] = h[y]) => G[g][x] = G[h][x]

\* Such a definition has a solution.
LEMMA RecursionExists ==
  ASSUME NEW S, NEW V, NEW m, NEW bound, NEW G, Descends(S, V, m, bound, G)
  PROVE  \E f \in [S -> V] : f = G[f]
  <1> USE DEF Descends
  <1> DEFINE Solves(f, k) == \A x \in S : m[x] < k => f[x] = G[f][x]
             Bad == {k \in Nat : ~ \E f \in [S -> V] : Solves(f, k)}
  <1>1. Bad = {}
    <2> SUFFICES ASSUME Bad # {} PROVE FALSE OBVIOUS
    <2>1. PICK k \in Bad : \A n \in Bad : k <= n BY LeastNatural
    <2>2. k # 0
      <3>1. PICK f \in [S -> V] : TRUE OBVIOUS
      <3>2. Solves(f, 0) OBVIOUS
      <3>3. QED BY <3>1, <3>2
    <2>3. k - 1 \in Nat /\ k - 1 \notin Bad BY <2>1, <2>2
    <2>4. PICK f \in [S -> V] : Solves(f, k - 1) BY <2>3
    <2> DEFINE g == G[f]
    <2>5. g \in [S -> V] OBVIOUS
    <2>6. ASSUME NEW x \in S, m[x] < k PROVE g[x] = G[g][x]
      <3>1. ASSUME NEW y \in S, m[y] < m[x] PROVE f[y] = g[y]
        <4>1. m[y] < k - 1 BY <2>1, <2>6, <3>1
        <4>2. QED BY <2>4, <4>1
      <3>2. QED BY <2>5, <3>1
    <2>7. Solves(g, k) BY <2>6
    <2>8. QED BY <2>1, <2>5, <2>7
  <1>2. bound + 1 \notin Bad BY <1>1
  <1>3. PICK f \in [S -> V] : Solves(f, bound + 1) BY <1>2
  <1>4. \A x \in S : f[x] = G[f][x] BY <1>3
  <1>5. f = G[f] BY <1>4
  <1>6. QED BY <1>5
=============================================================================
