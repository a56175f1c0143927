-------------------------- MODULE ModelSelection_proofs --------------------------
(***************************************************************************)
(* Lemmas about the folds of ModelSelection, for keys, predictions and     *)
(* configurations of any size.  The induction they need is by the least    *)
(* counterexample, of which the library's WFMin says that there is one.    *)
(***************************************************************************)
EXTENDS ModelSelection, FiniteSetTheorems, WellFoundedInduction, TLAPS

-------------------------------------------------------------------------------
(* Natural numbers and finite sets of them.                                   *)

\* A set of natural numbers has a least one.
LEMMA LeastNatural ==
  ASSUME NEW K \in SUBSET Nat, K # {}
  PROVE  \E m \in K : \A n \in K : m <= n
<1>1. PICK m \in K : \A n \in K : ~ (<<n, m>> \in OpToRel(<, Nat))
  BY NatLessThanWellFounded, WFMin
<1>2. \A n \in K : n < m => <<n, m>> \in OpToRel(<, Nat)
  BY DEF OpToRel
<1>3. \A n \in K : ~ (n < m)
  BY <1>1, <1>2
<1>4. \A n \in K : m <= n
  BY <1>3
<1> QED
  BY <1>4

\* What holds of 0, and of a successor when it holds of the number, holds of all.
LEMMA AllNaturals ==
  ASSUME NEW T, 0 \in T, \A n \in Nat : n \in T => n + 1 \in T
  PROVE  \A n \in Nat : n \in T
<1> SUFFICES ASSUME NEW n \in Nat, n \notin T PROVE FALSE
  OBVIOUS
<1>1. PICK m \in Nat \ T : \A k \in Nat \ T : m <= k
  BY LeastNatural
<1>2. m # 0 /\ m - 1 \in Nat /\ ~ (m <= m - 1)
  BY <1>1
<1>3. m - 1 \in T
  BY <1>1, <1>2
<1>4. (m - 1) + 1 = m
  BY <1>1
<1> QED
  BY <1>1, <1>2, <1>3, <1>4

LEMMA MaxOf ==
  ASSUME NEW n \in Nat, NEW s \in SUBSET (1..n), s # {}
  PROVE  Max(s) \in s /\ \A i \in s : i <= Max(s)
<1> DEFINE bounds == {k \in Nat : \A i \in s : i <= k}
<1>1. n \in bounds
  OBVIOUS
<1>2. PICK m \in bounds : \A k \in bounds : m <= k
  BY <1>1, LeastNatural
<1>3. m \in s
  <2> SUFFICES ASSUME m \notin s PROVE FALSE
    OBVIOUS
  <2>1. m # 0
    <3>1. PICK i \in s : i \in 1..n
      OBVIOUS
    <3> QED
      BY <1>2, <3>1
  <2>2. m - 1 \in bounds
    BY <1>2, <2>1
  <2> QED
    BY <1>2, <2>2
<1>4. \E x \in s : \A y \in s : x >= y
  BY <1>2, <1>3
<1>5. Max(s) \in s /\ \A y \in s : Max(s) >= y
  BY <1>4 DEF Max
<1> QED
  BY <1>5

LEMMA MinOf ==
  ASSUME NEW s \in SUBSET Nat, s # {}
  PROVE  Min(s) \in s /\ \A i \in s : Min(s) <= i
<1>1. \E x \in s : \A y \in s : x =< y
  BY LeastNatural
<1> QED
  BY <1>1 DEF Min

-------------------------------------------------------------------------------
(* The fold of BestOf.                                                        *)

\* The value of the fold at a set of positions.
Folded(keys, g, s) ==
  IF s = {} THEN Min(DOMAIN keys)
  ELSE IF Beats(keys[Max(s)], keys[g[s \ {Max(s)}]]) THEN Max(s) ELSE g[s \ {Max(s)}]

\* There is such a function: one for the positions up to n is taken on to n + 1.
LEMMA FoldExists ==
  ASSUME NEW keys, NEW n \in Nat
  PROVE  \E g : g = [s \in SUBSET (1..n) |-> Folded(keys, g, s)]
<1> DEFINE T == {k \in Nat : \E g : g = [s \in SUBSET (1..k) |-> Folded(keys, g, s)]}
<1>1. 0 \in T
  <2> DEFINE g == [s \in {{}} |-> Min(DOMAIN keys)]
  <2>1. SUBSET (1..0) = {{}}
    OBVIOUS
  <2>2. g = [s \in SUBSET (1..0) |-> Folded(keys, g, s)]
    BY <2>1 DEF Folded
  <2> QED
    BY <2>2
<1>2. ASSUME NEW k \in Nat, k \in T PROVE k + 1 \in T
  <2>1. PICK g : g = [s \in SUBSET (1..k) |-> Folded(keys, g, s)]
    BY <1>2
  <2> DEFINE h == [s \in SUBSET (1..(k + 1)) |->
                     IF k + 1 \notin s THEN g[s]
                     ELSE IF Beats(keys[k + 1], keys[g[s \ {k + 1}]]) THEN k + 1 ELSE g[s \ {k + 1}]]
  <2>2. ASSUME NEW s \in SUBSET (1..(k + 1)) PROVE h[s] = Folded(keys, h, s)
    <3>1. CASE k + 1 \in s
      <4>1. Max(s) = k + 1
        <5>1. k + 1 \in Nat
          OBVIOUS
        <5> HIDE DEF T, h
        <5>2. Max(s) \in s /\ \A i \in s : i <= Max(s)
          BY <3>1, <5>1, MaxOf
        <5>3. Max(s) \in 1..(k + 1) /\ k + 1 <= Max(s)
          BY <3>1, <5>2
        <5> QED
          BY <5>3
      <4>2. /\ s \ {k + 1} \in SUBSET (1..k) /\ s \ {k + 1} \in SUBSET (1..(k + 1))
            /\ k + 1 \notin s \ {k + 1}
        OBVIOUS
      <4>3. h[s \ {k + 1}] = g[s \ {k + 1}]
        BY <4>2
      <4>4. h[s] = IF Beats(keys[k + 1], keys[g[s \ {k + 1}]]) THEN k + 1 ELSE g[s \ {k + 1}]
        BY <3>1
      <4> HIDE DEF h
      <4> QED
        BY <3>1, <4>1, <4>3, <4>4 DEF Folded
    <3>2. CASE k + 1 \notin s
      <4>1. s \in SUBSET (1..k) /\ h[s] = g[s]
        BY <3>2
      <4>2. g[s] = Folded(keys, g, s)
        BY <2>1, <4>1
      <4>3. CASE s = {}
        BY <4>1, <4>2, <4>3 DEF Folded
      <4>4. CASE s # {}
        <5>1. s \ {Max(s)} \in SUBSET (1..(k + 1)) /\ k + 1 \notin s \ {Max(s)}
          BY <3>2
        <5>2. h[s \ {Max(s)}] = g[s \ {Max(s)}]
          BY <5>1
        <5> HIDE DEF h
        <5> QED
          BY <4>1, <4>2, <4>4, <5>2 DEF Folded
      <4> QED
        BY <4>3, <4>4
    <3> QED
      BY <3>1, <3>2
  <2>3. h = [s \in SUBSET (1..(k + 1)) |-> Folded(keys, h, s)]
    <3>1. h = [s \in SUBSET (1..(k + 1)) |-> h[s]]
      OBVIOUS
    <3> HIDE DEF h
    <3> QED
      BY <2>2, <3>1
  <2>4. k + 1 \in Nat
    OBVIOUS
  <2> HIDE DEF h
  <2> QED
    BY <2>3, <2>4
<1>3. n \in T
  <2> HIDE DEF T
  <2> QED
    BY <1>1, <1>2, AllNaturals
<1> QED
  BY <1>3

\* BestOf, unfolded.
LEMMA BestOfFold ==
  ASSUME NEW n \in Nat, NEW keys, DOMAIN keys \in SUBSET (1..n)
  PROVE  \E g : /\ \A s \in SUBSET DOMAIN keys : g[s] = Folded(keys, g, s)
                /\ BestOf(keys) = g[DOMAIN keys]
<1> DEFINE Fold(g) == g = [s \in SUBSET DOMAIN keys |->
                             IF s = {} THEN Min(DOMAIN keys)
                             ELSE IF Beats(keys[Max(s)], keys[g[s \ {Max(s)}]]) THEN Max(s)
                             ELSE g[s \ {Max(s)}]]
           fold == CHOOSE g : Fold(g)
<1>1. BestOf(keys) = fold[DOMAIN keys]
  BY Zenon DEF BestOf, MapThenFoldSet
<1>2. \E g : Fold(g)
  <2>1. PICK g : g = [s \in SUBSET (1..n) |-> Folded(keys, g, s)]
    BY FoldExists
  <2> DEFINE h == [s \in SUBSET DOMAIN keys |-> g[s]]
  <2>2. ASSUME NEW s \in SUBSET DOMAIN keys PROVE h[s] = Folded(keys, h, s)
    <3>1. s \ {Max(s)} \in SUBSET DOMAIN keys /\ s \in SUBSET (1..n)
      OBVIOUS
    <3>2. h[s] = g[s] /\ h[s \ {Max(s)}] = g[s \ {Max(s)}]
      BY <3>1
    <3>3. g[s] = Folded(keys, g, s)
      BY <2>1, <3>1
    <3> HIDE DEF h
    <3> QED
      BY <3>2, <3>3 DEF Folded
  <2>3. h = [s \in SUBSET DOMAIN keys |-> Folded(keys, h, s)]
    <3>1. h = [s \in SUBSET DOMAIN keys |-> h[s]]
      OBVIOUS
    <3> HIDE DEF h
    <3> QED
      BY <2>2, <3>1
  <2> HIDE DEF h
  <2> QED
    BY <2>3 DEF Folded
<1>3. Fold(fold)
  <2> HIDE DEF Fold
  <2> QED
    BY <1>2
<1>4. \A s \in SUBSET DOMAIN keys : fold[s] = Folded(keys, fold, s)
  <2> HIDE DEF fold
  <2> QED
    BY <1>3 DEF Folded
<1> HIDE DEF fold
<1> QED
  BY <1>1, <1>4

\* The positions that a fold may yield are those it went through.
LEMMA FoldedInside ==
  ASSUME NEW n \in Nat, NEW keys, DOMAIN keys \in SUBSET (1..n), DOMAIN keys # {},
         NEW g, \A s \in SUBSET DOMAIN keys : g[s] = Folded(keys, g, s)
  PROVE  \A s \in SUBSET DOMAIN keys : g[s] \in s \cup {Min(DOMAIN keys)}
<1> DEFINE T == {k \in Nat : \A s \in SUBSET DOMAIN keys :
                              s \subseteq 1..k => g[s] \in s \cup {Min(DOMAIN keys)}}
<1>1. 0 \in T
  <2>1. \A s \in SUBSET DOMAIN keys : s \subseteq 1..0 => s = {}
    OBVIOUS
  <2> QED
    BY <2>1 DEF Folded
<1>2. ASSUME NEW k \in Nat, k \in T PROVE k + 1 \in T
  <2>1. ASSUME NEW s \in SUBSET DOMAIN keys, s \subseteq 1..(k + 1), s # {}
        PROVE  g[s] \in s \cup {Min(DOMAIN keys)}
    <3>1. Max(s) \in s /\ \A i \in s : i <= Max(s)
      BY <2>1, MaxOf
    <3>2. s \ {Max(s)} \subseteq 1..k
      BY <2>1, <3>1
    <3>3. g[s \ {Max(s)}] \in s \cup {Min(DOMAIN keys)}
      BY <1>2, <3>2
    <3> HIDE DEF T
    <3> QED
      BY <2>1, <3>1, <3>3 DEF Folded
  <2>2. g[{}] = Min(DOMAIN keys)
    BY DEF Folded
  <2>3. ASSUME NEW s \in SUBSET DOMAIN keys, s \subseteq 1..(k + 1)
        PROVE  g[s] \in s \cup {Min(DOMAIN keys)}
    BY <2>1, <2>2, <2>3
  <2>4. k + 1 \in Nat
    OBVIOUS
  <2> QED
    BY <2>3, <2>4
<1>3. n \in T
  <2> HIDE DEF T
  <2> QED
    BY <1>1, <1>2, AllNaturals
<1> QED
  BY <1>3

LEMMA BestOfIsOne ==
  ASSUME NEW n \in Nat, NEW keys, DOMAIN keys \in SUBSET (1..n), DOMAIN keys # {}
  PROVE  BestOf(keys) \in DOMAIN keys
<1>1. PICK g : /\ \A s \in SUBSET DOMAIN keys : g[s] = Folded(keys, g, s)
               /\ BestOf(keys) = g[DOMAIN keys]
  BY BestOfFold
<1>2. g[DOMAIN keys] \in DOMAIN keys \cup {Min(DOMAIN keys)}
  BY <1>1, FoldedInside
<1>3. Min(DOMAIN keys) \in DOMAIN keys
  BY MinOf
<1> QED
  BY <1>1, <1>2, <1>3

\* Keys that can be put in an order, some of them level.
Ordered(keys) ==
  \A i, j \in DOMAIN keys :
    /\ ~ Beats(keys[i], keys[i])
    /\ Beats(keys[i], keys[j]) =>
         \A k \in DOMAIN keys : /\ Beats(keys[j], keys[k]) => Beats(keys[i], keys[k])
                                /\ Beats(keys[i], keys[k]) \/ Beats(keys[k], keys[j])

\* Beaten by none of s, and the first of those.
FirstBest(keys, b, s) ==
  \A j \in s : ~ Beats(keys[j], keys[b]) /\ (j < b => Beats(keys[b], keys[j]))

LEMMA BestOfIsFirst ==
  ASSUME NEW n \in Nat, NEW keys, DOMAIN keys \in SUBSET (1..n), DOMAIN keys # {}, Ordered(keys)
  PROVE  FirstBest(keys, BestOf(keys), DOMAIN keys)
<1>1. PICK g : /\ \A s \in SUBSET DOMAIN keys : g[s] = Folded(keys, g, s)
               /\ BestOf(keys) = g[DOMAIN keys]
  BY BestOfFold
<1> DEFINE D == DOMAIN keys
           low == Min(D)
           T == {k \in Nat : \A s \in SUBSET D :
                                s \subseteq 1..k => FirstBest(keys, g[s], s \cup {low})}
<1>2. \A s \in SUBSET D : g[s] \in s \cup {low}
  BY <1>1, FoldedInside
<1>3. low \in D /\ \A i \in D : low <= i /\ i \in Nat
  BY MinOf
<1>4. g[{}] = low /\ FirstBest(keys, low, {low})
  <2>1. g[{}] = low
    BY <1>1 DEF Folded
  <2> QED
    BY <1>3, <2>1 DEF FirstBest, Ordered
<1>5. 0 \in T
  <2>1. \A s \in SUBSET D : s \subseteq 1..0 => s = {}
    OBVIOUS
  <2> QED
    BY <1>4, <2>1
<1>6. ASSUME NEW k \in Nat, k \in T PROVE k + 1 \in T
  <2>1. ASSUME NEW s \in SUBSET D, s \subseteq 1..(k + 1), s # {}
        PROVE  FirstBest(keys, g[s], s \cup {low})
    <3> DEFINE x == Max(s)
               rest == (s \ {x}) \cup {low}
               b == g[s \ {x}]
    <3>1. x \in s /\ \A i \in s : i <= x
      BY <2>1, MaxOf
    <3>2. s \ {x} \subseteq 1..k /\ s \ {x} \in SUBSET D
      BY <2>1, <3>1
    <3>3. FirstBest(keys, b, rest) /\ b \in rest
      BY <1>2, <1>6, <3>2
    <3>4. g[s] = IF Beats(keys[x], keys[b]) THEN x ELSE b
      BY <1>1, <2>1 DEF Folded
    <3>5. x \in D /\ b \in D /\ \A j \in rest : j \in D /\ j <= x
      BY <1>3, <3>1, <3>3
    <3>6. s \cup {low} = rest \cup {x}
      BY <3>1
    <3> HIDE DEF x, rest, b, T, D, low
    <3>7. CASE Beats(keys[x], keys[b])
      <4>1. ~ Beats(keys[x], keys[x])
        BY <3>5 DEF Ordered, D
      <4>2. ASSUME NEW j \in rest PROVE ~ Beats(keys[j], keys[x]) /\ Beats(keys[x], keys[j])
        <5>1. ~ Beats(keys[j], keys[b])
          BY <3>3 DEF FirstBest
        <5>2. j \in D /\ x \in D /\ b \in D
          BY <3>5
        <5>3. Beats(keys[x], keys[j])
          BY <3>7, <5>1, <5>2 DEF Ordered, D
        <5>4. ~ Beats(keys[j], keys[x])
          BY <3>7, <5>1, <5>2 DEF Ordered, D
        <5> QED
          BY <5>3, <5>4
      <4>3. x \in Nat
        BY <1>3, <3>5
      <4> QED
        BY <3>4, <3>6, <3>7, <4>1, <4>2, <4>3 DEF FirstBest
    <3>8. CASE ~ Beats(keys[x], keys[b])
      <4>1. b \in Nat /\ x \in Nat /\ b <= x
        BY <1>3, <3>3, <3>5
      <4>2. g[s] = b
        BY <3>4, <3>8
      <4>3. \A j \in rest : ~ Beats(keys[j], keys[b]) /\ (j < b => Beats(keys[b], keys[j]))
        BY <3>3 DEF FirstBest
      <4>4. ~ Beats(keys[x], keys[b]) /\ ~ (x < b)
        BY <3>8, <4>1
      <4>5. \A j \in rest \cup {x} : ~ Beats(keys[j], keys[b]) /\ (j < b => Beats(keys[b], keys[j]))
        BY <4>3, <4>4
      <4> QED
        BY <3>6, <4>2, <4>5 DEF FirstBest
    <3> QED
      BY <3>7, <3>8
  <2>2. ASSUME NEW s \in SUBSET D, s \subseteq 1..(k + 1), s = {}
        PROVE  FirstBest(keys, g[s], s \cup {low})
    <3>1. s \cup {low} = {low} /\ g[s] = low
      BY <1>4, <2>2
    <3> HIDE DEF low, T
    <3> QED
      BY <1>4, <3>1
  <2>3. k + 1 \in Nat
    OBVIOUS
  <2> HIDE DEF low
  <2> QED
    BY <2>1, <2>2, <2>3
<1>7. n \in T
  <2> HIDE DEF T
  <2> QED
    BY <1>5, <1>6, AllNaturals
<1>8. FirstBest(keys, g[D], D \cup {low})
  BY <1>7
<1> QED
  BY <1>1, <1>8 DEF FirstBest

-------------------------------------------------------------------------------
(* Ratios, and keys of two ratios.                                            *)

LEMMA Scale ==
  ASSUME NEW u \in Int, NEW v \in Int, NEW q \in Nat \ {0}
  PROVE  (u <= v <=> u * q <= v * q) /\ (u < v <=> u * q < v * q)
OBVIOUS

\* Comparison by cross multiplication is the comparison of numbers.
LEMMA Cross ==
  ASSUME NEW a \in Int, NEW b \in Int, NEW c \in Int,
         NEW p \in Nat \ {0}, NEW q \in Nat \ {0}, NEW r \in Nat \ {0},
         a * q <= b * p, b * r <= c * q
  PROVE  a * r <= c * p /\ (a * q < b * p \/ b * r < c * q => a * r < c * p)
<1> DEFINE aq == a * q  bp == b * p  br == b * r  cq == c * q  ar == a * r  cp == c * p
<1>0. aq \in Int /\ bp \in Int /\ br \in Int /\ cq \in Int /\ ar \in Int /\ cp \in Int
  OBVIOUS
<1>1. ar * q = aq * r /\ bp * r = br * p /\ cq * p = cp * q
  OBVIOUS
<1>2. aq <= bp /\ br <= cq
  OBVIOUS
<1> SUFFICES ar <= cp /\ (aq < bp \/ br < cq => ar < cp)
  OBVIOUS
<1> HIDE DEF aq, bp, br, cq, ar, cp
<1>3. aq * r <= bp * r /\ br * p <= cq * p
  BY <1>0, <1>2, Scale
<1>4. ar * q <= cp * q
  <2>1. /\ aq * r \in Int /\ bp * r \in Int /\ br * p \in Int /\ cq * p \in Int
        /\ ar * q \in Int /\ cp * q \in Int
    BY <1>0
  <2> QED
    BY <1>1, <1>3, <2>1
<1>5. ar <= cp
  BY <1>0, <1>4, Scale
<1>6. ASSUME aq < bp \/ br < cq PROVE ar < cp
  <2>1. aq * r < bp * r \/ br * p < cq * p
    BY <1>0, <1>6, Scale
  <2>2. /\ aq * r \in Int /\ bp * r \in Int /\ br * p \in Int /\ cq * p \in Int
        /\ ar * q \in Int /\ cp * q \in Int
    BY <1>0
  <2>3. ar * q < cp * q
    BY <1>1, <1>3, <2>1, <2>2
  <2> QED
    BY <1>0, <2>3, Scale
<1> QED
  BY <1>5, <1>6

LEMMA LessOrder ==
  ASSUME NEW x \in Ratios, NEW y \in Ratios, NEW z \in Ratios
  PROVE  /\ ~ Less(x, x)
         /\ Less(x, y) => ~ Less(y, x)
         /\ Less(x, y) /\ ~ Less(z, y) => Less(x, z)
         /\ ~ Less(y, x) /\ Less(y, z) => Less(x, z)
<1>1. /\ x[1] \in Int /\ y[1] \in Int /\ z[1] \in Int
      /\ x[2] \in Nat \ {0} /\ y[2] \in Nat \ {0} /\ z[2] \in Nat \ {0}
  BY DEF Ratios
<1>2. \A a, b \in Int, p, q \in Nat \ {0} : a * q \in Int /\ b * p \in Int
  OBVIOUS
<1>3. ~ Less(x, x) /\ (Less(x, y) => ~ Less(y, x))
  BY <1>1, <1>2 DEF Less
<1>4. ASSUME Less(x, y), ~ Less(z, y) PROVE Less(x, z)
  <2>1. x[1] * y[2] < y[1] * x[2] /\ y[1] * z[2] <= z[1] * y[2]
    BY <1>1, <1>2, <1>4 DEF Less
  <2>2. x[1] * y[2] <= y[1] * x[2]
    BY <1>1, <1>2, <2>1
  <2>3. ASSUME NEW a \in Int, NEW b \in Int, NEW c \in Int,
               NEW p \in Nat \ {0}, NEW q \in Nat \ {0}, NEW r \in Nat \ {0},
               a * q < b * p, a * q <= b * p, b * r <= c * q
        PROVE  a * r < c * p
    BY <2>3, Cross
  <2> QED
    BY <1>1, <2>1, <2>2, <2>3 DEF Less
<1>5. ASSUME ~ Less(y, x), Less(y, z) PROVE Less(x, z)
  <2>1. x[1] * y[2] <= y[1] * x[2] /\ y[1] * z[2] < z[1] * y[2]
    BY <1>1, <1>2, <1>5 DEF Less
  <2>2. y[1] * z[2] <= z[1] * y[2]
    BY <1>1, <1>2, <2>1
  <2>3. ASSUME NEW a \in Int, NEW b \in Int, NEW c \in Int,
               NEW p \in Nat \ {0}, NEW q \in Nat \ {0}, NEW r \in Nat \ {0},
               a * q <= b * p, b * r < c * q, b * r <= c * q
        PROVE  a * r < c * p
    BY <2>3, Cross
  <2> QED
    BY <1>1, <2>1, <2>2, <2>3 DEF Less
<1> QED
  BY <1>3, <1>4, <1>5

LEMMA PairBeats ==
  ASSUME NEW k \in Ratios \X Ratios, NEW o \in Ratios \X Ratios
  PROVE  Beats(k, o) <=> Less(o[1], k[1]) \/ (~ Less(k[1], o[1]) /\ Less(o[2], k[2]))
<1>1. DOMAIN k = {1, 2} /\ 1..(1 - 1) = {} /\ 1..(2 - 1) = {1}
  <2>1. k = <<k[1], k[2]>>
    OBVIOUS
  <2>2. DOMAIN <<k[1], k[2]>> = {1, 2}
    OBVIOUS
  <2> QED
    BY <2>1, <2>2
<1> QED
  BY <1>1 DEF Beats

LEMMA PairsOrder ==
  ASSUME NEW a \in Ratios \X Ratios, NEW b \in Ratios \X Ratios, NEW c \in Ratios \X Ratios
  PROVE  /\ ~ Beats(a, a)
         /\ Beats(a, b) /\ Beats(b, c) => Beats(a, c)
         /\ Beats(a, b) => Beats(a, c) \/ Beats(c, b)
<1>1. /\ a[1] \in Ratios /\ b[1] \in Ratios /\ c[1] \in Ratios
      /\ a[2] \in Ratios /\ b[2] \in Ratios /\ c[2] \in Ratios
  OBVIOUS
<1>2. ASSUME NEW x \in Ratios, NEW y \in Ratios, NEW z \in Ratios
      PROVE  /\ ~ Less(x, x)
             /\ Less(x, y) => ~ Less(y, x)
             /\ Less(x, y) /\ ~ Less(z, y) => Less(x, z)
             /\ ~ Less(y, x) /\ Less(y, z) => Less(x, z)
  BY LessOrder
<1>b. /\ Beats(a, a) <=> Less(a[1], a[1]) \/ (~ Less(a[1], a[1]) /\ Less(a[2], a[2]))
      /\ Beats(a, b) <=> Less(b[1], a[1]) \/ (~ Less(a[1], b[1]) /\ Less(b[2], a[2]))
      /\ Beats(b, c) <=> Less(c[1], b[1]) \/ (~ Less(b[1], c[1]) /\ Less(c[2], b[2]))
      /\ Beats(a, c) <=> Less(c[1], a[1]) \/ (~ Less(a[1], c[1]) /\ Less(c[2], a[2]))
      /\ Beats(c, b) <=> Less(b[1], c[1]) \/ (~ Less(c[1], b[1]) /\ Less(b[2], c[2]))
  BY PairBeats
<1>4. ~ Beats(a, a)
  BY <1>1, <1>2, <1>b
<1>5. ASSUME Beats(a, b), Beats(b, c) PROVE Beats(a, c)
  BY <1>1, <1>2, <1>5, <1>b
<1>6. ASSUME Beats(a, b), ~ Beats(a, c) PROVE Beats(c, b)
  BY <1>1, <1>2, <1>6, <1>b
<1> QED
  BY <1>4, <1>5, <1>6

LEMMA PairsOrdered ==
  ASSUME NEW keys, \A i \in DOMAIN keys : keys[i] \in Ratios \X Ratios
  PROVE  Ordered(keys)
BY PairsOrder DEF Ordered

-------------------------------------------------------------------------------
(* Evaluations and the choice of a threshold.                                 *)

Evaluations == [threshold: Int, caught: Nat, missed: Nat, false: Nat, ordered: Nat, cost: Int]

LEMMA EvaluationType ==
  ASSUME NEW rows, IsFiniteSet(DOMAIN rows), NEW threshold \in Int,
         NEW costs, costs.positive \in Nat, costs.negative \in Nat
  PROVE  Evaluation(rows, threshold, costs) \in Evaluations
<1> DEFINE alerts == Alerts(rows, threshold)
           frauds == Frauds(rows)
           pairs == {p \in frauds \X (DOMAIN rows \ frauds) : rows[p[1]].score > rows[p[2]].score}
<1>1. /\ alerts \subseteq DOMAIN rows /\ frauds \subseteq DOMAIN rows
      /\ DOMAIN rows \ frauds \subseteq DOMAIN rows /\ alerts \cap frauds \subseteq frauds
      /\ alerts \cap frauds \subseteq alerts /\ pairs \subseteq frauds \X (DOMAIN rows \ frauds)
  BY DEF Alerts, Frauds
<1> HIDE DEF alerts, frauds, pairs
<1>2. IsFiniteSet(alerts) /\ IsFiniteSet(frauds) /\ IsFiniteSet(DOMAIN rows \ frauds)
  BY <1>1, FS_Subset
<1>3. /\ Cardinality(alerts) \in Nat /\ Cardinality(frauds) \in Nat
      /\ Cardinality(alerts \cap frauds) <= Cardinality(alerts)
      /\ Cardinality(alerts \cap frauds) <= Cardinality(frauds)
      /\ Cardinality(alerts \cap frauds) \in Nat
  <2>1. IsFiniteSet(alerts \cap frauds)
    BY <1>1, <1>2, FS_Subset
  <2> QED
    BY <1>1, <1>2, <2>1, FS_Subset, FS_CardinalityType
<1>4. Cardinality(pairs) \in Nat
  BY <1>1, <1>2, FS_Product, FS_Subset, FS_CardinalityType
<1> DEFINE caught == Cardinality(alerts \cap frauds)
           missed == Cardinality(frauds) - caught
           false  == Cardinality(alerts) - caught
<1>5. caught \in Nat /\ missed \in Nat /\ false \in Nat
  BY <1>3
<1>6. Evaluation(rows, threshold, costs) =
        [threshold |-> threshold, caught |-> caught, missed |-> missed, false |-> false,
         ordered |-> Cardinality(pairs), cost |-> false * costs.positive + missed * costs.negative]
  BY DEF Evaluation, alerts, frauds, pairs
<1> HIDE DEF caught, missed, false
<1>7. false * costs.positive + missed * costs.negative \in Int
  BY <1>5
<1> QED
  BY <1>4, <1>5, <1>6, <1>7 DEF Evaluations

LEMMA MetricType ==
  ASSUME NEW e \in Evaluations, NEW name \in Metrics
  PROVE  Metric(name, e) \in Ratios
<1>1. /\ e.caught \in Nat /\ e.missed \in Nat /\ e.false \in Nat /\ e.ordered \in Nat
  BY DEF Evaluations
<1>2. \A part, whole \in Nat : Ratio(part, whole) \in Ratios
  BY DEF Ratio, Ratios
<1>3. \A n \in Int : Whole(n) \in Ratios
  BY DEF Whole, Ratios
<1>4. CASE name = "recall"
  BY <1>1, <1>2, <1>4 DEF Metric
<1>5. CASE name = "precision"
  BY <1>1, <1>2, <1>5 DEF Metric
<1>6. CASE name = "f1"
  <2>1. 2 * e.caught \in Nat /\ 2 * e.caught + e.false + e.missed \in Nat
    BY <1>1
  <2> QED
    BY <1>2, <1>6, <2>1 DEF Metric
<1>7. CASE name \in {"pr_auc", "roc_auc"}
  BY <1>1, <1>3, <1>7 DEF Metric
<1> QED
  BY <1>4, <1>5, <1>6, <1>7 DEF Metrics

LEMMA KeyType ==
  ASSUME NEW e \in Evaluations, NEW config,
         config.metric \in Metrics
  PROVE  ThresholdKey(e, config) \in Ratios \X Ratios
<1>1. Metric("recall", e) \in Ratios /\ Metric(config.metric, e) \in Ratios
  BY MetricType DEF Metrics
<1>2. Whole(- e.cost) \in Ratios
  BY DEF Whole, Ratios, Evaluations
<1> QED
  BY <1>1, <1>2 DEF ThresholdKey

\* A threshold is taken that no eligible one beats, and that beats the eligible ones before it.
LEMMA SelectsFirst ==
  ASSUME NEW n \in Nat, NEW evaluations \in [1..n -> Evaluations], NEW config \in Configurations,
         Eligible(evaluations, config.minimum) # {}
  PROVE  \E b \in Eligible(evaluations, config.minimum) :
           /\ SelectThreshold(evaluations, config) = evaluations[b]
           /\ \A j \in Eligible(evaluations, config.minimum) :
                /\ ~ Beats(ThresholdKey(evaluations[j], config), ThresholdKey(evaluations[b], config))
                /\ j < b => Beats(ThresholdKey(evaluations[b], config), ThresholdKey(evaluations[j], config))
<1> DEFINE eligible == Eligible(evaluations, config.minimum)
           keys == [i \in eligible |-> ThresholdKey(evaluations[i], config)]
<1>1. eligible \in SUBSET (1..n) /\ config.metric \in Metrics
  BY DEF Eligible, Configurations
<1> HIDE DEF eligible
<1>2. DOMAIN keys = eligible /\ \A i \in eligible : keys[i] = ThresholdKey(evaluations[i], config)
  OBVIOUS
<1>3. \A i \in DOMAIN keys : keys[i] \in Ratios \X Ratios
  BY <1>1, KeyType
<1>4. SelectThreshold(evaluations, config) = evaluations[BestOf(keys)]
  BY DEF SelectThreshold, eligible
<1> HIDE DEF keys
<1>5. Ordered(keys)
  BY <1>3, PairsOrdered
<1>6. BestOf(keys) \in eligible /\ FirstBest(keys, BestOf(keys), eligible)
  BY <1>1, <1>2, <1>5, BestOfIsOne, BestOfIsFirst DEF eligible
<1> QED
  BY <1>2, <1>4, <1>6 DEF FirstBest, eligible

LEMMA AnalysisType ==
  ASSUME NEW rows, IsFiniteSet(DOMAIN rows), NEW config \in Configurations
  PROVE  \E n \in Nat \ {0} : /\ DOMAIN config.thresholds = 1..n
                              /\ Analysis(rows, config) \in [1..n -> Evaluations]
<1>1. PICK n \in Nat \ {0} : config.thresholds \in [1..n -> Int]
  <2>1. config.thresholds \in Seq(Nat \ {0}) /\ Len(config.thresholds) > 0
    BY DEF Configurations, Ascending
  <2>2. Len(config.thresholds) \in Nat \ {0} /\ config.thresholds \in [1..Len(config.thresholds) -> Int]
    BY <2>1
  <2> QED
    BY <2>2
<1>2. config.costs.positive \in Nat /\ config.costs.negative \in Nat
  BY DEF Configurations
<1>3. \A i \in 1..n : Evaluation(rows, config.thresholds[i], config.costs) \in Evaluations
  BY <1>1, <1>2, EvaluationType
<1> QED
  BY <1>1, <1>3 DEF Analysis

\* A higher threshold catches no more, so the recall it reaches is reached below it too.
LEMMA RecallFalls ==
  ASSUME NEW rows, IsFiniteSet(DOMAIN rows), \A i \in DOMAIN rows : rows[i].score \in Int,
         NEW costs, costs.positive \in Nat, costs.negative \in Nat,
         NEW low \in Int, NEW high \in Int, low <= high, NEW minimum \in Ratios,
         ~ Less(Metric("recall", Evaluation(rows, high, costs)), minimum)
  PROVE  ~ Less(Metric("recall", Evaluation(rows, low, costs)), minimum)
<1> DEFINE F == Cardinality(Frauds(rows))
           Caught(t) == Cardinality(Alerts(rows, t) \cap Frauds(rows))
<1>1. Frauds(rows) \subseteq DOMAIN rows /\ Alerts(rows, high) \subseteq Alerts(rows, low)
  BY DEF Frauds, Alerts
<1>2. F \in Nat /\ IsFiniteSet(Frauds(rows))
  BY <1>1, FS_Subset, FS_CardinalityType
<1>3. Caught(low) \in Nat /\ Caught(high) \in Nat /\ Caught(high) <= Caught(low)
  <2>1. /\ Alerts(rows, low) \cap Frauds(rows) \in SUBSET Frauds(rows)
        /\ Alerts(rows, high) \cap Frauds(rows) \in SUBSET (Alerts(rows, low) \cap Frauds(rows))
    BY <1>1
  <2>2. IsFiniteSet(Alerts(rows, low) \cap Frauds(rows))
    BY <1>2, <2>1, FS_Subset
  <2>3. IsFiniteSet(Alerts(rows, high) \cap Frauds(rows)) /\ Caught(high) <= Caught(low)
    BY <2>1, <2>2, FS_Subset
  <2> QED
    BY <2>2, <2>3, FS_CardinalityType
<1>4. \A t \in {low, high} : Metric("recall", Evaluation(rows, t, costs)) = Ratio(Caught(t), F)
  <2> SUFFICES ASSUME NEW t \in {low, high}
               PROVE  Metric("recall", Evaluation(rows, t, costs)) = Ratio(Caught(t), F)
    OBVIOUS
  <2>1. /\ Evaluation(rows, t, costs).caught = Caught(t)
        /\ Evaluation(rows, t, costs).missed = F - Caught(t)
    BY DEF Evaluation
  <2>2. Caught(t) + (F - Caught(t)) = F
    <3>1. Caught(t) \in Nat /\ F \in Nat
      BY <1>2, <1>3
    <3> HIDE DEF F, Caught
    <3> QED
      BY <3>1
  <2>3. Metric("recall", Evaluation(rows, t, costs)) =
          Ratio(Evaluation(rows, t, costs).caught,
                Evaluation(rows, t, costs).caught + Evaluation(rows, t, costs).missed)
    BY DEF Metric
  <2> HIDE DEF F, Caught
  <2> QED
    BY <2>1, <2>2, <2>3
<1> HIDE DEF F, Caught
<1>5. CASE F = 0
  BY <1>4, <1>5 DEF Ratio
<1>6. CASE F # 0
  <2>1. minimum[1] \in Int /\ minimum[2] \in Nat \ {0}
    BY DEF Ratios
  <2>2. ~ (Caught(high) * minimum[2] < minimum[1] * F)
    BY <1>4, <1>6 DEF Less, Ratio
  <2>3. Caught(high) * minimum[2] <= Caught(low) * minimum[2]
    BY <1>3, <2>1, Scale
  <2>4. /\ Caught(high) * minimum[2] \in Int /\ Caught(low) * minimum[2] \in Int
        /\ minimum[1] * F \in Int
    BY <1>2, <1>3, <2>1
  <2>5. ~ (Caught(low) * minimum[2] < minimum[1] * F)
    BY <2>2, <2>3, <2>4
  <2> QED
    BY <1>4, <1>6, <2>5 DEF Less, Ratio
<1> QED
  BY <1>5, <1>6

\* A configuration with another minimum differs in nothing else.
LEMMA WithoutMinimum ==
  ASSUME NEW config \in Configurations, NEW least
  PROVE  [config EXCEPT !.minimum = least] =
           [thresholds |-> config.thresholds, costs |-> config.costs, minimum |-> least,
            strategy |-> config.strategy, metric |-> config.metric, primary |-> config.primary]
<1> DEFINE T == Seq(Nat \ {0})
           C == [positive: Nat, negative: Nat]
           S == {"metric", "business_cost"}
<1>1. config \in [thresholds: T, costs: C, minimum: Ratios, strategy: S, metric: Metrics, primary: Metrics]
  BY DEF Configurations
<1> HIDE DEF T, C, S
<1> QED
  BY <1>1

(* What the loops over the thresholds find is the lowest of the best among    *)
(* those that reach the minimum recall; there is none only if not even the    *)
(* lowest threshold reaches it; and asking for more recall never raises the   *)
(* threshold.  For predictions of any rows, any thresholds and any costs      *)
(* (select_best_threshold, select_business_threshold, _filter_by_recall).     *)
THEOREM ThresholdChosen ==
  ASSUME NEW rows, IsFiniteSet(DOMAIN rows), \A i \in DOMAIN rows : rows[i].score \in Int,
         NEW config \in Configurations
  PROVE  LET evaluations == Analysis(rows, config)
             fit == Eligible(evaluations, config.minimum)
             Key(i) == ThresholdKey(evaluations[i], config)
             best == {i \in fit : \A j \in fit : ~ Beats(Key(j), Key(i))}
             unconstrained == [config EXCEPT !.minimum = <<0, 1>>]
         IN  IF fit = {} THEN Less(Metric("recall", evaluations[1]), config.minimum)
             ELSE /\ SelectThreshold(evaluations, config) = evaluations[Min(best)]
                  /\ Min(best) \in fit
                  /\ \E b \in DOMAIN evaluations :
                       /\ SelectThreshold(evaluations, unconstrained) = evaluations[b]
                       /\ Min(best) <= b
<1> DEFINE evaluations == Analysis(rows, config)
           fit == Eligible(evaluations, config.minimum)
           Key(i) == ThresholdKey(evaluations[i], config)
           best == {i \in fit : \A j \in fit : ~ Beats(Key(j), Key(i))}
           unconstrained == [config EXCEPT !.minimum = <<0, 1>>]
<1>1. PICK n \in Nat \ {0} : DOMAIN config.thresholds = 1..n /\ evaluations \in [1..n -> Evaluations]
  BY AnalysisType
<1>2. fit \in SUBSET (1..n) /\ \A i \in 1..n : i \in fit <=> ~ Less(Metric("recall", evaluations[i]), config.minimum)
  BY <1>1 DEF Eligible
<1>3. CASE fit = {}
  <2>1. 1 \in 1..n
    BY <1>1
  <2> QED
    BY <1>2, <1>3, <2>1
<1>4. CASE fit # {}
  <2>1. PICK b \in fit : /\ SelectThreshold(evaluations, config) = evaluations[b]
                         /\ \A j \in fit : ~ Beats(Key(j), Key(b)) /\ (j < b => Beats(Key(b), Key(j)))
    BY <1>1, <1>4, SelectsFirst
  <2>2. Min(best) = b
    <3>1. b \in best /\ best \in SUBSET Nat
      BY <1>2, <2>1
    <3>2. Min(best) \in best /\ Min(best) <= b
      BY <3>1, MinOf
    <3>3. Min(best) \in fit /\ ~ Beats(Key(b), Key(Min(best)))
      BY <2>1, <3>2
    <3>4. ~ (Min(best) < b) /\ Min(best) \in Nat /\ b \in Nat
      BY <1>2, <2>1, <3>3
    <3> HIDE DEF best
    <3> QED
      BY <3>2, <3>4
  <2>3. unconstrained \in Configurations /\ unconstrained.minimum = <<0, 1>>
    <3>1. <<0, 1>> \in Ratios
      BY DEF Ratios
    <3>2. unconstrained = [thresholds |-> config.thresholds, costs |-> config.costs,
                           minimum |-> <<0, 1>>, strategy |-> config.strategy,
                           metric |-> config.metric, primary |-> config.primary]
      BY WithoutMinimum
    <3>3. /\ unconstrained.thresholds = config.thresholds /\ unconstrained.costs = config.costs
          /\ unconstrained.minimum = <<0, 1>> /\ unconstrained.strategy = config.strategy
          /\ unconstrained.metric = config.metric /\ unconstrained.primary = config.primary
      BY <3>2
    <3> HIDE DEF unconstrained
    <3> QED
      BY <3>1, <3>2, <3>3 DEF Configurations
  <2>4. \A e : ThresholdKey(e, unconstrained) = ThresholdKey(e, config)
    BY DEF Configurations, ThresholdKey
  <2>5. Eligible(evaluations, <<0, 1>>) = 1..n
    <3>1. \A i \in 1..n : Metric("recall", evaluations[i]) \in Ratios /\ evaluations[i] \in Evaluations
      BY <1>1, MetricType DEF Metrics
    <3>2. ASSUME NEW e \in Evaluations PROVE ~ Less(Metric("recall", e), <<0, 1>>)
      <4>1. e.caught \in Nat /\ e.missed \in Nat
        BY DEF Evaluations
      <4>2. Metric("recall", e) = Ratio(e.caught, e.caught + e.missed)
        BY DEF Metric
      <4> QED
        BY <4>1, <4>2 DEF Less, Ratio
    <3> HIDE DEF evaluations
    <3> QED
      BY <1>1, <3>1, <3>2 DEF Eligible
  <2>6. PICK u \in 1..n :
          /\ SelectThreshold(evaluations, unconstrained) = evaluations[u]
          /\ \A j \in 1..n : ~ Beats(Key(j), Key(u))
    <3>1. Eligible(evaluations, unconstrained.minimum) = 1..n /\ 1 \in 1..n
      BY <1>1, <2>3, <2>5
    <3>2. ASSUME NEW c \in Configurations, c.minimum = <<0, 1>>
          PROVE  \E u \in 1..n :
                   /\ SelectThreshold(evaluations, c) = evaluations[u]
                   /\ \A j \in 1..n : ~ Beats(ThresholdKey(evaluations[j], c), ThresholdKey(evaluations[u], c))
      <4> HIDE DEF evaluations
      <4>1. Eligible(evaluations, c.minimum) = 1..n /\ 1..n # {}
        BY <2>5, <3>1, <3>2
      <4>2. \E u \in Eligible(evaluations, c.minimum) :
              /\ SelectThreshold(evaluations, c) = evaluations[u]
              /\ \A j \in Eligible(evaluations, c.minimum) :
                   ~ Beats(ThresholdKey(evaluations[j], c), ThresholdKey(evaluations[u], c))
        BY <1>1, <4>1, SelectsFirst
      <4> QED
        BY <4>1, <4>2
    <3>3. PICK u \in 1..n :
            /\ SelectThreshold(evaluations, unconstrained) = evaluations[u]
            /\ \A j \in 1..n : ~ Beats(ThresholdKey(evaluations[j], unconstrained),
                                       ThresholdKey(evaluations[u], unconstrained))
      BY <2>3, <3>2
    <3>4. \A j \in 1..n : ~ Beats(Key(j), Key(u))
      BY <2>4, <3>3
    <3> QED
      BY <3>3, <3>4
  <2>7. b <= u
    <3> SUFFICES ASSUME u < b PROVE FALSE
      BY <1>2, <2>1, <2>6
    <3>1. /\ config.thresholds[u] \in Int /\ config.thresholds[b] \in Int
          /\ config.thresholds[u] <= config.thresholds[b]
          /\ config.costs.positive \in Nat /\ config.costs.negative \in Nat
          /\ config.minimum \in Ratios
      <4>1. /\ config.thresholds \in Seq(Nat \ {0}) /\ config.costs \in [positive: Nat, negative: Nat]
            /\ config.minimum \in Ratios /\ Ascending(config.thresholds)
        BY DEF Configurations
      <4>2. u \in DOMAIN config.thresholds /\ b \in DOMAIN config.thresholds /\ u < b
        BY <1>1, <1>2, <2>1, <2>6
      <4>3. config.thresholds[u] \in Nat /\ config.thresholds[b] \in Nat
        BY <4>1, <4>2
      <4>4. config.thresholds[u] < config.thresholds[b]
        BY <4>1, <4>2 DEF Ascending
      <4> QED
        BY <4>1, <4>3, <4>4
    <3>2. /\ evaluations[u] = Evaluation(rows, config.thresholds[u], config.costs)
          /\ evaluations[b] = Evaluation(rows, config.thresholds[b], config.costs)
      BY <1>1, <1>2, <2>1, <2>6 DEF Analysis
    <3>3. ~ Less(Metric("recall", evaluations[b]), config.minimum)
      BY <1>2, <2>1
    <3>4. u \in fit
      BY <1>2, <2>6, <3>1, <3>2, <3>3, RecallFalls
    <3>5. Beats(Key(b), Key(u)) /\ b \in 1..n
      BY <1>2, <2>1, <3>4
    <3> QED
      BY <2>6, <3>5
  <2>8. DOMAIN evaluations = 1..n
    BY <1>1
  <2>9. /\ SelectThreshold(evaluations, config) = evaluations[Min(best)]
        /\ Min(best) \in fit
        /\ \E d \in DOMAIN evaluations :
             /\ SelectThreshold(evaluations, unconstrained) = evaluations[d]
             /\ Min(best) <= d
    <3> HIDE DEF evaluations, fit, best, unconstrained
    <3> QED
      BY <2>1, <2>2, <2>6, <2>7, <2>8
  <2> QED
    BY <1>4, <2>9, Zenon
<1> QED
  BY <1>3, <1>4

(* The model and the threshold chosen are some of those evaluated, and the    *)
(* choice is marked as diagnostic exactly when the recall it has on the       *)
(* validation sample misses the configured minimum: the retraining that goes  *)
(* on with it knows (select_production_candidate_from_results,                *)
(* _select_diagnostic_candidate).                                             *)
THEOREM CandidateKnown ==
  ASSUME NEW k \in Nat \ {0}, NEW models, DOMAIN models = 1..k,
         \A i \in 1..k : IsFiniteSet(DOMAIN models[i]), NEW config \in Configurations
  PROVE  LET candidate == Candidate(models, config) IN
         /\ candidate.model \in 1..k
         /\ \E i \in DOMAIN config.thresholds :
              candidate.evaluation = Analysis(models[candidate.model], config)[i]
         /\ candidate.evaluation \in Evaluations
         /\ candidate.diagnostic <=> Less(Metric("recall", candidate.evaluation), config.minimum)
<1> DEFINE analyses == [i \in DOMAIN models |-> Analysis(models[i], config)]
           eligible == EligibleModels(analyses, config)
           diagnostic == eligible = {}
           among == IF diagnostic THEN DOMAIN models ELSE eligible
           chosen == BestModel(analyses, among, diagnostic, config)
           evaluation == ModelThreshold(analyses[chosen], diagnostic, config)
<1>1. Candidate(models, config) = [model |-> chosen, evaluation |-> evaluation, diagnostic |-> diagnostic]
  BY DEF Candidate
<1>2. \A i \in 1..k : analyses[i] = Analysis(models[i], config)
  OBVIOUS
<1>3. eligible \subseteq 1..k
  BY DEF EligibleModels
<1>4. among \in SUBSET (1..k) /\ among # {}
  <2>1. 1 \in 1..k
    OBVIOUS
  <2> HIDE DEF eligible
  <2> QED
    BY <1>3, <2>1
<1>5. chosen \in among
  <2> DEFINE Choice(i) == ModelThreshold(analyses[i], diagnostic, config)
             keys == [i \in among |-> <<Metric(config.primary, Choice(i)), Whole(- Choice(i).cost), Whole(- i)>>]
  <2>1. chosen = BestOf(keys)
    BY DEF BestModel
  <2>2. DOMAIN keys = among
    OBVIOUS
  <2> HIDE DEF keys, among, chosen
  <2> QED
    BY <1>4, <2>1, <2>2, BestOfIsOne
<1> DEFINE evaluations == analyses[chosen]
<1>6. chosen \in 1..k /\ evaluations = Analysis(models[chosen], config)
  <2> HIDE DEF analyses, chosen
  <2> QED
    BY <1>2, <1>4, <1>5
<1>7. PICK n \in Nat \ {0} : DOMAIN config.thresholds = 1..n /\ evaluations \in [1..n -> Evaluations]
  <2>1. IsFiniteSet(DOMAIN models[chosen])
    BY <1>6
  <2> HIDE DEF chosen, analyses
  <2> QED
    BY <1>6, <2>1, AnalysisType
<1>8. Eligible(evaluations, config.minimum) =
        {i \in 1..n : ~ Less(Metric("recall", evaluations[i]), config.minimum)}
  BY <1>7 DEF Eligible
<1>9. \E b \in 1..n : /\ evaluation = evaluations[b]
                      /\ diagnostic <=> Less(Metric("recall", evaluations[b]), config.minimum)
  <2>1. CASE diagnostic
    <3> DEFINE Key(e) == <<Metric("recall", e), Metric(config.primary, e), Whole(- e.cost), Whole(- e.threshold)>>
               keys == [i \in DOMAIN evaluations |-> Key(evaluations[i])]
    <3>1. evaluation = evaluations[BestOf(keys)]
      BY <2>1 DEF ModelThreshold, DiagnosticThreshold
    <3>2. DOMAIN keys = 1..n /\ 1 \in 1..n
      BY <1>7
    <3>3. BestOf(keys) \in 1..n
      <4> HIDE DEF keys
      <4> QED
        BY <3>2, BestOfIsOne
    <3>4. Eligible(evaluations, config.minimum) = {}
      BY <1>6, <2>1 DEF EligibleModels
    <3> HIDE DEF keys, evaluations, evaluation, diagnostic
    <3> QED
      BY <1>8, <2>1, <3>1, <3>3, <3>4
  <2>2. CASE ~ diagnostic
    <3>1. Eligible(evaluations, config.minimum) # {}
      BY <1>5, <2>2 DEF EligibleModels
    <3>2. evaluation = SelectThreshold(evaluations, config)
      BY <2>2 DEF ModelThreshold
    <3> HIDE DEF evaluations, evaluation, diagnostic
    <3>3. PICK b \in Eligible(evaluations, config.minimum) : evaluation = evaluations[b]
      BY <1>7, <3>1, <3>2, SelectsFirst
    <3> QED
      BY <1>8, <2>2, <3>3
  <2> QED
    BY <2>1, <2>2
<1>10. /\ Candidate(models, config).model = chosen /\ Candidate(models, config).evaluation = evaluation
       /\ Candidate(models, config).diagnostic = diagnostic /\ diagnostic \in BOOLEAN
  <2>1. diagnostic \in BOOLEAN
    OBVIOUS
  <2> HIDE DEF chosen, evaluation, diagnostic
  <2> QED
    BY <1>1, <2>1
<1>11. /\ chosen \in 1..k
       /\ \E i \in DOMAIN config.thresholds : evaluation = Analysis(models[chosen], config)[i]
       /\ evaluation \in Evaluations
       /\ diagnostic <=> Less(Metric("recall", evaluation), config.minimum)
  <2> HIDE DEF analyses, diagnostic, chosen, evaluation, evaluations
  <2>1. PICK b \in 1..n : /\ evaluation = evaluations[b]
                          /\ diagnostic <=> Less(Metric("recall", evaluations[b]), config.minimum)
    BY <1>9
  <2>2. diagnostic <=> Less(Metric("recall", evaluation), config.minimum)
    BY <2>1, Zenon
  <2>3. evaluation \in Evaluations
    BY <1>7, <2>1
  <2>4. evaluation = Analysis(models[chosen], config)[b] /\ b \in DOMAIN config.thresholds
    BY <1>6, <1>7, <2>1
  <2> QED
    BY <1>6, <2>2, <2>3, <2>4
<1> HIDE DEF diagnostic, chosen, evaluation
<1> QED
  BY <1>10, <1>11

===============================================================================
