--------------------------- MODULE Catalog_proofs ---------------------------
(***************************************************************************)
(* Proofs about Catalog: what the tables promise each other, snapshots,    *)
(* the three forms of the access rule and what deleting reveals.           *)
(***************************************************************************)
EXTENDS Catalog, FiniteSetTheorems, FunctionTheorems, TLAPS

(***************************************************************************)
(* Induction and iteration.  The theorems of the library take an operator; *)
(* these take a set and a function.                                        *)
(***************************************************************************)

\* If 0 and the successors of members are members, all natural numbers are:
\* a number n that is not gives an injection of the members up to n into
\* themselves that misses 0.
LEMMA Induction ==
    ASSUME NEW S, 0 \in S, \A n \in Nat : n \in S => n + 1 \in S
    PROVE  \A n \in Nat : n \in S
<1> SUFFICES ASSUME NEW n \in Nat, n \notin S
             PROVE  FALSE
    OBVIOUS
<1> DEFINE M == S \cap (0 .. n)
           next == [m \in M |-> m + 1]
<1>1. IsFiniteSet(M)
  <2>1. IsFiniteSet(0 .. n)
      BY FS_Interval
  <2> QED BY <2>1, FS_Subset
<1>2. next \in Injection(M, M)
  <2>1. \A m \in M : m + 1 \in M
    <3> TAKE m \in M
    <3>1. m \in Nat /\ m <= n /\ m # n
        OBVIOUS
    <3> QED BY <3>1
  <2>2. next \in [M -> M]
      BY <2>1
  <2>3. \A a, b \in M : next[a] = next[b] => a = b
      OBVIOUS
  <2> QED BY <2>2, <2>3 DEF Injection, IsInjective
<1>3. next \in Surjection(M, M)
    BY <1>1, <1>2, FS_Injection
<1>4. 0 \in M
    OBVIOUS
<1>5. PICK m \in M : next[m] = 0
    BY <1>3, <1>4 DEF Surjection
<1> QED BY <1>5

\* f[n] is a, to which G was applied n times.
Iteration(f, N, T, a, G) ==
    /\ f \in [0 .. N -> T]
    /\ f[0] = a
    /\ \A n \in 1 .. N : f[n] = G[f[n - 1]]

Grows(f, N, G) == \A n \in 0 .. N : f[n] \subseteq G[f[n]]

LEMMA Iterates ==
    ASSUME NEW T, NEW a, a \in T, NEW G, G \in [T -> T], NEW N \in Nat
    PROVE  \E f : Iteration(f, N, T, a, G)
<1> DEFINE Good(f, m) == f[0] = a /\ \A n \in 1 .. m : f[n] = G[f[n - 1]]
           S == {m \in Nat : \E f \in [0 .. m -> T] : Good(f, m)}
<1>1. 0 \in S
  <2> DEFINE f == [n \in 0 .. 0 |-> a]
  <2>1. f \in [0 .. 0 -> T] /\ Good(f, 0)
      OBVIOUS
  <2> QED BY <2>1
<1>2. ASSUME NEW m \in Nat, m \in S PROVE m + 1 \in S
  <2>1. PICK f \in [0 .. m -> T] : Good(f, m)
      BY <1>2
  <2> DEFINE g == [n \in 0 .. m + 1 |-> IF n = m + 1 THEN G[f[m]] ELSE f[n]]
  <2>2. g \in [0 .. m + 1 -> T]
    <3>1. f[m] \in T
        OBVIOUS
    <3>2. ASSUME NEW n \in 0 .. m + 1, n # m + 1 PROVE f[n] \in T
      <4>1. n \in 0 .. m
          BY <3>2
      <4> QED BY <4>1
    <3> QED BY <3>1, <3>2
  <2>3. g[0] = a
      BY <2>1
  <2>4. ASSUME NEW n \in 1 .. m + 1 PROVE g[n] = G[g[n - 1]]
    <3>1. CASE n = m + 1
        BY <3>1
    <3>2. CASE n # m + 1
      <4>1. n \in 1 .. m /\ n - 1 \in 0 .. m + 1 /\ n - 1 # m + 1
          BY <3>2
      <4> QED BY <2>1, <3>2, <4>1
    <3> QED BY <3>1, <3>2
  <2>5. Good(g, m + 1)
      BY <2>3, <2>4
  <2>6. \E h \in [0 .. m + 1 -> T] : Good(h, m + 1)
      BY <2>2, <2>5
  <2> QED BY <2>6
<1> HIDE DEF S
<1>3. N \in S
    BY <1>1, <1>2, Induction
<1> QED BY <1>3 DEF S, Iteration

\* An iteration over the subsets of a finite set that never shrinks has come
\* to rest after as many steps as there are elements: until then each step
\* adds one at least.
LEMMA Rests ==
    ASSUME NEW D, NEW N, NEW a, NEW G, NEW f,
           IsFiniteSet(D), N = Cardinality(D), G \in [SUBSET D -> SUBSET D],
           Iteration(f, N, SUBSET D, a, G), Grows(f, N, G)
    PROVE  G[f[N]] = f[N]
<1> USE DEF Iteration, Grows
<1>0. N \in Nat
    BY FS_CardinalityType
<1> DEFINE S == {m \in Nat : m <= N => Cardinality(f[m]) >= m \/ G[f[m]] = f[m]}
<1>1. \A X \in SUBSET D : IsFiniteSet(X) /\ Cardinality(X) \in Nat /\ Cardinality(X) <= N
  <2> TAKE X \in SUBSET D
  <2>1. IsFiniteSet(X) /\ Cardinality(X) <= N
      BY FS_Subset
  <2> QED BY <2>1, FS_CardinalityType
<1>2. 0 \in S
  <2>1. f[0] \in SUBSET D
      BY <1>0
  <2>2. Cardinality(f[0]) \in Nat
      BY <1>1, <2>1
  <2> QED BY <2>2
<1>3. ASSUME NEW m \in Nat, m \in S PROVE m + 1 \in S
  <2> SUFFICES ASSUME m + 1 <= N, G[f[m + 1]] # f[m + 1]
               PROVE  Cardinality(f[m + 1]) >= m + 1
      OBVIOUS
  <2>1. m \in 0 .. N /\ m + 1 \in 1 .. N /\ m + 1 \in 0 .. N /\ (m + 1) - 1 = m
      BY <1>0
  <2>2. f[m + 1] = G[f[m]]
      BY <2>1
  <2>3. G[f[m]] # f[m]
      BY <2>2
  <2>4. Cardinality(f[m]) >= m
      BY <1>3, <2>1, <2>3
  <2>5. f[m] \in SUBSET D /\ f[m + 1] \in SUBSET D /\ f[m] \subseteq f[m + 1] /\ f[m] # f[m + 1]
      BY <2>1, <2>2, <2>3
  <2>6. IsFiniteSet(f[m + 1]) /\ f[m] \in SUBSET f[m + 1]
      BY <1>1, <2>5
  <2>7. Cardinality(f[m]) <= Cardinality(f[m + 1]) /\ Cardinality(f[m]) # Cardinality(f[m + 1])
      BY <2>5, <2>6, FS_Subset
  <2> QED BY <1>1, <2>4, <2>5, <2>7
<1> HIDE DEF S
<1>4. N \in S
    BY <1>0, <1>2, <1>3, Induction
<1>5. f[N] \in SUBSET D /\ N \in 0 .. N
    BY <1>0
<1>6. CASE Cardinality(f[N]) >= N
  <2>1. Cardinality(f[N]) = Cardinality(D)
      BY <1>0, <1>1, <1>5, <1>6
  <2>2. f[N] = D
      BY <1>5, <2>1, FS_Subset
  <2>3. G[D] \in SUBSET D /\ D \subseteq G[D]
      BY <1>5, <2>2
  <2> QED BY <2>2, <2>3
<1> QED BY <1>0, <1>4, <1>6 DEF S

(***************************************************************************)
(* Below and Rising                                                        *)
(***************************************************************************)

ClosedBelow(items, X) == \A i \in DOMAIN items : items[i].parent \in X => i \in X

\* What is below S is the smallest set of rows around S that has the children
\* of its rows.
LEMMA BelowIsLeast ==
    ASSUME NEW items, IsFiniteSet(DOMAIN items), NEW S \in SUBSET DOMAIN items
    PROVE  /\ Below(items, S) \subseteq DOMAIN items
           /\ S \subseteq Below(items, S)
           /\ ClosedBelow(items, Below(items, S))
           /\ \A X : S \subseteq X /\ ClosedBelow(items, X) => Below(items, S) \subseteq X
<1> DEFINE D == DOMAIN items
           N == Cardinality(D)
           G == [X \in SUBSET D |-> X \cup {i \in D : items[i].parent \in X}]
           step(g) == [n \in 0 .. N |-> IF n = 0 THEN S
                         ELSE LET above == g[n - 1]
                              IN  above \cup {i \in DOMAIN items : items[i].parent \in above}]
<1>0. N \in Nat
    BY FS_CardinalityType
<1>1. G \in [SUBSET D -> SUBSET D]
    OBVIOUS
<1>i. PICK f : Iteration(f, N, SUBSET D, S, G)
  <2>1. S \in SUBSET D
      OBVIOUS
  <2> HIDE DEF N, G, D
  <2> QED BY <1>0, <1>1, <2>1, Iterates
<1>2. f[0] = S /\ \A n \in 1 .. N : f[n] = G[f[n - 1]]
    BY <1>i DEF Iteration
<1>t. f \in [0 .. N -> SUBSET D] /\ \A n \in 0 .. N : f[n] \in SUBSET D
  <2>1. f \in [0 .. N -> SUBSET D]
      BY <1>i DEF Iteration
  <2> HIDE DEF N, D
  <2> QED BY <2>1
<1>3. f = step(f)
  <2>1. ASSUME NEW n \in 0 .. N, n # 0
        PROVE  f[n] = f[n - 1] \cup {i \in D : items[i].parent \in f[n - 1]}
    <3>1. n \in 1 .. N /\ n - 1 \in 0 .. N
        BY <1>0, <2>1
    <3>2. f[n - 1] \in SUBSET D /\ f[n] = G[f[n - 1]]
        BY <1>2, <1>t, <3>1
    <3> QED BY <3>2
  <2>2. f = [n \in 0 .. N |-> f[n]]
      BY <1>t
  <2>3. \A n \in 0 .. N : f[n] = step(f)[n]
      BY <1>2, <2>1
  <2> HIDE DEF N
  <2> QED BY <2>2, <2>3
<1> DEFINE Down == CHOOSE g : g = step(g)
<1>4. Down = step(Down)
  <2> HIDE DEF step
  <2> QED BY <1>3
<1>5. Below(items, S) = Down[N]
    BY DEF Below
<1> HIDE DEF Down
<1>6. /\ Down[0] = S
      /\ \A n \in 1 .. N : Down[n] = Down[n - 1] \cup {i \in D : items[i].parent \in Down[n - 1]}
  <2>1. ASSUME NEW n \in 0 .. N
        PROVE  Down[n] = IF n = 0 THEN S
                         ELSE Down[n - 1] \cup {i \in D : items[i].parent \in Down[n - 1]}
      BY <1>4
  <2> HIDE DEF N, D
  <2>2. 0 \in 0 .. N
      BY <1>0
  <2>3. ASSUME NEW n \in 1 .. N PROVE n \in 0 .. N /\ n # 0
      BY <1>0
  <2>4. Down[0] = S
      BY <2>1, <2>2
  <2>5. ASSUME NEW n \in 1 .. N
        PROVE  Down[n] = Down[n - 1] \cup {i \in D : items[i].parent \in Down[n - 1]}
      BY <2>1, <2>3
  <2> QED BY <2>4, <2>5
<1>7. Down[N] = f[N]
  <2> DEFINE M == {m \in Nat : m <= N => Down[m] = f[m]}
  <2>1. 0 \in M
      BY <1>2, <1>6
  <2>2. ASSUME NEW m \in Nat, m \in M PROVE m + 1 \in M
    <3> SUFFICES ASSUME m + 1 <= N PROVE Down[m + 1] = f[m + 1]
        OBVIOUS
    <3>1. m + 1 \in 1 .. N /\ m \in 0 .. N /\ (m + 1) - 1 = m /\ m <= N
        BY <1>0
    <3>2. Down[m] = f[m] /\ f[m] \in SUBSET D
        BY <1>t, <2>2, <3>1
    <3>3. Down[m + 1] = f[m] \cup {i \in D : items[i].parent \in f[m]}
        BY <1>6, <3>1, <3>2
    <3>4. f[m + 1] = G[f[m]]
        BY <1>2, <3>1
    <3> QED BY <3>2, <3>3, <3>4
  <2> HIDE DEF M
  <2>3. N \in M
      BY <1>0, <2>1, <2>2, Induction
  <2> QED BY <1>0, <2>3 DEF M
<1>8. f[N] \in SUBSET D /\ \A n \in 0 .. N : f[n] \in SUBSET D /\ f[n] \subseteq G[f[n]]
    BY <1>0, <1>2, <1>t
<1>9. G[f[N]] = f[N]
  <2>1. IsFiniteSet(D) /\ N = Cardinality(D)
      OBVIOUS
  <2>2. Grows(f, N, G)
      BY <1>8 DEF Grows
  <2>3. G \in [SUBSET D -> SUBSET D] /\ Iteration(f, N, SUBSET D, S, G)
      BY <1>1, <1>i
  <2> HIDE DEF N, G, D, step
  <2> QED BY <2>1, <2>2, <2>3, Rests
<1>10. ClosedBelow(items, f[N])
    BY <1>8, <1>9 DEF ClosedBelow
<1>11. ASSUME NEW X, S \subseteq X, ClosedBelow(items, X), NEW n \in 0 .. N PROVE f[n] \subseteq X
  <2> DEFINE M == {m \in Nat : m <= N => f[m] \subseteq X}
  <2>1. 0 \in M
      BY <1>2, <1>11
  <2>2. ASSUME NEW m \in Nat, m \in M PROVE m + 1 \in M
    <3> SUFFICES ASSUME m + 1 <= N PROVE f[m + 1] \subseteq X
        OBVIOUS
    <3>1. m + 1 \in 1 .. N /\ m \in 0 .. N /\ (m + 1) - 1 = m /\ m <= N
        BY <1>0
    <3>2. f[m] \subseteq X /\ f[m] \in SUBSET D
        BY <1>t, <2>2, <3>1
    <3>3. f[m + 1] = G[f[m]]
        BY <1>2, <3>1
    <3> QED BY <1>11, <3>2, <3>3 DEF ClosedBelow
  <2> HIDE DEF M
  <2>3. n \in M
      BY <2>1, <2>2, Induction
  <2> QED BY <2>3 DEF M
<1>12. N \in 0 .. N /\ 0 \in 0 .. N
    BY <1>0
<1>13. S \subseteq f[N]
  <2> DEFINE M == {m \in Nat : m <= N => S \subseteq f[m]}
  <2>1. 0 \in M
      BY <1>2
  <2>2. ASSUME NEW m \in Nat, m \in M PROVE m + 1 \in M
    <3> SUFFICES ASSUME m + 1 <= N PROVE S \subseteq f[m + 1]
        OBVIOUS
    <3>1. m + 1 \in 1 .. N /\ m \in 0 .. N /\ (m + 1) - 1 = m /\ m <= N
        BY <1>0
    <3>2. S \subseteq f[m] /\ f[m] \in SUBSET D
        BY <1>t, <2>2, <3>1
    <3>3. f[m + 1] = G[f[m]]
        BY <1>2, <3>1
    <3> QED BY <3>2, <3>3
  <2> HIDE DEF M
  <2>3. N \in M
      BY <1>0, <2>1, <2>2, Induction
  <2> QED BY <1>0, <2>3 DEF M
<1> HIDE DEF N
<1> QED BY <1>5, <1>7, <1>8, <1>10, <1>11, <1>12, <1>13

Climbs(items, S, X) == {i \in S : items[i].parent \in X \cup {None}}

\* The rows that rise to a root are the smallest set that holds the rows of S
\* without a parent and those whose parent is in the set, and no others.
LEMMA RisingIsLeast ==
    ASSUME NEW items, IsFiniteSet(DOMAIN items), NEW S \in SUBSET DOMAIN items
    PROVE  /\ Rising(items, S) = Climbs(items, S, Rising(items, S))
           /\ \A X : Climbs(items, S, X) \subseteq X => Rising(items, S) \subseteq X
<1> DEFINE D == DOMAIN items
           N == Cardinality(D)
           G == [X \in SUBSET D |-> Climbs(items, S, X)]
           step(g) == [n \in 0 .. N |-> IF n = 0 THEN {}
                         ELSE LET above == g[n - 1] \cup {None}
                              IN  {i \in S : items[i].parent \in above}]
<1>0. N \in Nat
    BY FS_CardinalityType
<1>1. G \in [SUBSET D -> SUBSET D]
    BY DEF Climbs
<1>i. PICK f : Iteration(f, N, SUBSET D, {}, G)
  <2>1. {} \in SUBSET D
      OBVIOUS
  <2> HIDE DEF N, G, D
  <2> QED BY <1>0, <1>1, <2>1, Iterates
<1>2. f[0] = {} /\ \A n \in 1 .. N : f[n] = G[f[n - 1]]
    BY <1>i DEF Iteration
<1>t. f \in [0 .. N -> SUBSET D] /\ \A n \in 0 .. N : f[n] \in SUBSET D
  <2>1. f \in [0 .. N -> SUBSET D]
      BY <1>i DEF Iteration
  <2> HIDE DEF N, D
  <2> QED BY <2>1
<1>s. ASSUME NEW m \in Nat, m + 1 <= N
      PROVE  /\ m + 1 \in 1 .. N /\ m \in 0 .. N /\ (m + 1) - 1 = m /\ m <= N
             /\ f[m] \in SUBSET D /\ f[m + 1] = Climbs(items, S, f[m])
  <2>1. m + 1 \in 1 .. N /\ m \in 0 .. N /\ (m + 1) - 1 = m /\ m <= N
      BY <1>0, <1>s
  <2>2. f[m] \in SUBSET D /\ f[m + 1] = G[f[m]]
      BY <1>2, <1>t, <2>1
  <2> QED BY <2>1, <2>2
<1>3. f = step(f)
  <2>1. ASSUME NEW n \in 0 .. N, n # 0 PROVE f[n] = Climbs(items, S, f[n - 1])
    <3>1. n - 1 \in Nat /\ (n - 1) + 1 <= N /\ (n - 1) + 1 = n
        BY <1>0, <2>1
    <3>2. f[(n - 1) + 1] = Climbs(items, S, f[n - 1])
        BY <1>s, <3>1
    <3> QED BY <3>1, <3>2
  <2>2. f = [n \in 0 .. N |-> f[n]]
      BY <1>t
  <2>3. \A n \in 0 .. N : f[n] = step(f)[n]
      BY <1>2, <2>1 DEF Climbs
  <2> HIDE DEF N
  <2> QED BY <2>2, <2>3
<1> DEFINE Up == CHOOSE g : g = step(g)
<1>4. Up = step(Up)
  <2> HIDE DEF step
  <2> QED BY <1>3
<1>5. Rising(items, S) = Up[N]
    BY DEF Rising
<1> HIDE DEF Up
<1>6. Up[0] = {} /\ \A n \in 1 .. N : Up[n] = Climbs(items, S, Up[n - 1])
  <2>1. ASSUME NEW n \in 0 .. N
        PROVE  Up[n] = IF n = 0 THEN {} ELSE Climbs(items, S, Up[n - 1])
      BY <1>4 DEF Climbs
  <2> HIDE DEF N, D
  <2>2. 0 \in 0 .. N
      BY <1>0
  <2>3. ASSUME NEW n \in 1 .. N PROVE n \in 0 .. N /\ n # 0
      BY <1>0
  <2>4. Up[0] = {}
      BY <2>1, <2>2
  <2>5. ASSUME NEW n \in 1 .. N PROVE Up[n] = Climbs(items, S, Up[n - 1])
      BY <2>1, <2>3
  <2> QED BY <2>4, <2>5
<1>7. Up[N] = f[N]
  <2> DEFINE M == {m \in Nat : m <= N => Up[m] = f[m]}
  <2>1. 0 \in M
      BY <1>2, <1>6
  <2>2. ASSUME NEW m \in Nat, m \in M PROVE m + 1 \in M
    <3> SUFFICES ASSUME m + 1 <= N PROVE Up[m + 1] = f[m + 1]
        OBVIOUS
    <3>1. Up[m] = f[m]
        BY <1>s, <2>2
    <3>2. Up[m + 1] = Climbs(items, S, Up[m])
        BY <1>6, <1>s
    <3> QED BY <1>s, <3>1, <3>2
  <2> HIDE DEF M
  <2>3. N \in M
      BY <1>0, <2>1, <2>2, Induction
  <2> QED BY <1>0, <2>3 DEF M
<1>8. ASSUME NEW n \in 0 .. N PROVE f[n] \subseteq Climbs(items, S, f[n])
  <2> DEFINE M == {m \in Nat : m <= N => f[m] \subseteq Climbs(items, S, f[m])}
  <2>1. 0 \in M
      BY <1>2
  <2>2. ASSUME NEW m \in Nat, m \in M PROVE m + 1 \in M
    <3> SUFFICES ASSUME m + 1 <= N PROVE f[m + 1] \subseteq Climbs(items, S, f[m + 1])
        OBVIOUS
    <3>1. f[m] \subseteq Climbs(items, S, f[m])
        BY <1>s, <2>2
    <3>2. f[m] \subseteq f[m + 1]
        BY <1>s, <3>1
    <3> QED BY <1>s, <3>2 DEF Climbs
  <2> HIDE DEF M
  <2>3. n \in M
      BY <2>1, <2>2, Induction
  <2> QED BY <2>3 DEF M
<1>9. G[f[N]] = f[N]
  <2>1. IsFiniteSet(D) /\ N = Cardinality(D)
      OBVIOUS
  <2>2. Grows(f, N, G)
      BY <1>8, <1>t DEF Grows
  <2>3. G \in [SUBSET D -> SUBSET D] /\ Iteration(f, N, SUBSET D, {}, G)
      BY <1>1, <1>i
  <2> HIDE DEF N, G, D, step
  <2> QED BY <2>1, <2>2, <2>3, Rests
<1>10. Climbs(items, S, f[N]) = f[N]
  <2>1. f[N] \in SUBSET D
      BY <1>0, <1>t
  <2> QED BY <1>9, <2>1
<1>11. ASSUME NEW X, Climbs(items, S, X) \subseteq X, NEW n \in 0 .. N PROVE f[n] \subseteq X
  <2> DEFINE M == {m \in Nat : m <= N => f[m] \subseteq X}
  <2>1. 0 \in M
      BY <1>2
  <2>2. ASSUME NEW m \in Nat, m \in M PROVE m + 1 \in M
    <3> SUFFICES ASSUME m + 1 <= N PROVE f[m + 1] \subseteq X
        OBVIOUS
    <3>1. f[m] \subseteq X
        BY <1>s, <2>2
    <3> QED BY <1>11, <1>s, <3>1 DEF Climbs
  <2> HIDE DEF M
  <2>3. n \in M
      BY <2>1, <2>2, Induction
  <2> QED BY <2>3 DEF M
<1>12. N \in 0 .. N
    BY <1>0
<1> HIDE DEF N
<1> QED BY <1>5, <1>7, <1>10, <1>11, <1>12

(***************************************************************************)
(* The access rule                                                         *)
(***************************************************************************)

\* For one row the condition in SQL allows what the one in Go does, and no
\* more, except for a rating that SQL cannot read.
LEMMA SameForOneRow ==
    ASSUME NEW p, NEW item, NEW libs, ~p.isdisabled, None \notin libs
    PROVE  /\ itemPredicate(p, item, libs) => item.lib \in libs /\ AllowsItem(p, item)
           /\ item.lib \in libs /\ AllowsItem(p, item) /\ item.rating.written # "tabbed"
                  => itemPredicate(p, item, libs)
<1>1. ASSUME item.lib \in libs
      PROVE  libraryPredicate(p, item.lib) <=> AllowsLibrary(p, item.lib)
    BY <1>1, Zenon DEF libraryPredicate, AllowsLibrary
<1> DEFINE word      == item.rating.word
           legible   == item.rating.written # "tabbed"
           rated     == word \in DOMAIN ratingLevels
           unlimited == p.maxparentalrating = None
           low       == ratingLevels[word] <= p.maxparentalrating
           blocked   == item.kind \in blockedTypes(p)
           inSQL     == /\ ~unlimited => legible /\ word \in permitted(p) \cup NotRated
                        /\ blockedTypes(p) # {} => (legible /\ rated) \/ ~blocked
           inGo      == IF rated THEN unlimited \/ low
                                 ELSE (word \in NotRated \/ unlimited) /\ ~blocked
<1>2. ~(rated /\ word \in NotRated)
    BY DEF ratingLevels, NotRated
<1>3. word \in permitted(p) <=> rated /\ (unlimited \/ low)
    BY DEF permitted
<1>4. (inSQL => inGo) /\ (inGo /\ legible => inSQL)
  <2>1. blockedTypes(p) = {} => ~blocked
      OBVIOUS
  <2> QED BY <1>2, <1>3, <2>1
<1>5. itemPredicate(p, item, libs)
          <=> ~item.hidden /\ item.lib \in libs /\ libraryPredicate(p, item.lib) /\ inSQL
    BY Zenon DEF itemPredicate, SQLReads
<1>6. AllowsItem(p, item) <=> ~item.hidden /\ AllowsLibrary(p, item.lib) /\ inGo
    BY Zenon DEF AllowsItem, GoReads
<1> HIDE DEF inSQL, inGo
<1> QED BY <1>1, <1>4, <1>5, <1>6

\* For a table of rows: the walk allows only what the SQL lets through, save
\* for what is below a rating that SQL cannot read, and of the rows that have
\* a way to a root all of that.
LEMMA SameForTables ==
    ASSUME NEW p, NEW items, NEW libs,
           IsFiniteSet(DOMAIN items), None \notin libs, None \notin DOMAIN items
    PROVE  /\ VisibleIDs(p, items, libs) \subseteq Scope(p, items, libs) \cup Below(items, Tabbed(items))
           /\ Scope(p, items, libs) \cap Rooted(items) \subseteq VisibleIDs(p, items, libs)
<1> DEFINE D    == DOMAIN items
           good == {i \in D : items[i].lib \in libs /\ AllowsItem(p, items[i])}
           bad  == {i \in D : ~itemPredicate(p, items[i], libs)}
           V    == Rising(items, good)
           T    == Below(items, Tabbed(items))
<1>1. CASE p = Invalid
    BY <1>1 DEF VisibleIDs, Scope
<1>2. CASE p # Invalid /\ p.isdisabled
  <2>1. \A i \in D : ~AllowsItem(p, items[i])
      BY <1>2, Zenon DEF AllowsItem, AllowsLibrary
  <2>2. good = {}
      BY <2>1
  <2>3. V = {}
      BY <2>2, RisingIsLeast DEF Climbs
  <2>4. VisibleIDs(p, items, libs) = {} /\ Scope(p, items, libs) = {}
      BY <1>2, <2>3 DEF VisibleIDs, Scope
  <2> QED BY <2>4
<1>3. CASE p # Invalid /\ ~p.isdisabled
  <2>1. /\ D \ good \subseteq bad
        /\ bad \cap good \subseteq Tabbed(items)
    <3>1. \A i \in D : itemPredicate(p, items[i], libs)
                           => items[i].lib \in libs /\ AllowsItem(p, items[i])
        BY <1>3, SameForOneRow
    <3>2. ASSUME NEW i \in D, ~itemPredicate(p, items[i], libs),
                 items[i].lib \in libs /\ AllowsItem(p, items[i])
          PROVE  items[i].rating.written = "tabbed"
        BY <1>3, <3>2, SameForOneRow, Zenon
    <3>3. ASSUME NEW i \in D \ good PROVE i \in bad
      <4>1. ~(items[i].lib \in libs /\ AllowsItem(p, items[i]))
          BY <3>3
      <4> QED BY <3>1, <4>1
    <3>4. ASSUME NEW i \in bad \cap good PROVE i \in Tabbed(items)
      <4>1. /\ ~itemPredicate(p, items[i], libs)
            /\ items[i].lib \in libs /\ AllowsItem(p, items[i])
          BY <3>4
      <4>2. items[i].rating.written = "tabbed"
          BY <3>2, <4>1
      <4> QED BY <4>2 DEF Tabbed
    <3> HIDE DEF good, bad
    <3> QED BY <3>3, <3>4
  <2>2. VisibleIDs(p, items, libs) = V /\ Scope(p, items, libs) = D \ Below(items, bad)
      BY <1>3 DEF VisibleIDs, Scope, Denied
  <2>3. good \in SUBSET D /\ bad \in SUBSET D /\ Tabbed(items) \in SUBSET D
      BY DEF Tabbed
  <2> HIDE DEF good, bad, V, T
  <2>4. V = Climbs(items, good, V)
      BY <2>3, RisingIsLeast DEF V
  <2>5. /\ Below(items, bad) \subseteq D /\ bad \subseteq Below(items, bad)
        /\ ClosedBelow(items, Below(items, bad))
        /\ \A X : bad \subseteq X /\ ClosedBelow(items, X) => Below(items, bad) \subseteq X
      BY <2>3, BelowIsLeast
  <2>6. Tabbed(items) \subseteq T /\ ClosedBelow(items, T)
      BY <2>3, BelowIsLeast DEF T
  <2>7. V \subseteq D
      BY <2>3, <2>4 DEF Climbs
  <2>8. Below(items, bad) \subseteq (D \ V) \cup T
    <3>1. bad \subseteq (D \ V) \cup T
      <4>1. V \subseteq good
          BY <2>4 DEF Climbs
      <4> QED BY <2>1, <2>3, <2>6, <4>1
    <3>2. ClosedBelow(items, (D \ V) \cup T)
      <4> SUFFICES ASSUME NEW i \in D, items[i].parent \in (D \ V) \cup T, i \notin T
                   PROVE  i \notin V
          BY DEF ClosedBelow
      <4>1. items[i].parent \in D \ V
          BY <2>6 DEF ClosedBelow
      <4> QED BY <2>4, <4>1 DEF Climbs
    <3> QED BY <2>5, <3>1, <3>2
  <2>9. Rooted(items) \subseteq Below(items, bad) \cup V
    <3> DEFINE Placed == {c \in D : items[c].parent \in D => items[items[c].parent].lib = items[c].lib}
               X      == Below(items, bad) \cup V
    <3>1. Rooted(items) \subseteq Rising(items, Placed)
        BY DEF Rooted, HasPath
    <3>2. Placed \in SUBSET D
        OBVIOUS
    <3>3. Climbs(items, Placed, X) \subseteq X
      <4> SUFFICES ASSUME NEW i \in Climbs(items, Placed, X) PROVE i \in X
          OBVIOUS
      <4>1. i \in D /\ items[i].parent \in X \cup {None}
          BY DEF Climbs
      <4>2. CASE i \in bad
          BY <2>5, <4>2
      <4>3. CASE i \in good
        <5>1. items[i].parent \in Below(items, bad) => i \in Below(items, bad)
            BY <2>5, <4>1 DEF ClosedBelow
        <5>2. items[i].parent \in V \cup {None} => i \in V
            BY <2>4, <4>3 DEF Climbs
        <5> QED BY <4>1, <5>1, <5>2
      <4> QED BY <2>1, <4>1, <4>2, <4>3
    <3> HIDE DEF Placed, X
    <3>4. Rising(items, Placed) \subseteq X
        BY <3>2, <3>3, RisingIsLeast
    <3> QED BY <3>1, <3>4 DEF X
  <2>10. V \subseteq (D \ Below(items, bad)) \cup T
      BY <2>7, <2>8
  <2> QED BY <2>2, <2>9, <2>10 DEF T
<1> QED BY <1>1, <1>2, <1>3

\* Taking rows away with all that is below them, or libraries, reveals none
\* of the rows that stay.
LEMMA RemovingRevealsNothing ==
    ASSUME NEW p, NEW before, NEW after, NEW libs, NEW left,
           IsFiniteSet(DOMAIN before), IsFiniteSet(DOMAIN after), left \subseteq libs,
           \A i \in DOMAIN before \cap DOMAIN after : before[i] = after[i],
           \A i \in DOMAIN before \cap DOMAIN after :
               before[i].parent \in DOMAIN before => before[i].parent \in DOMAIN after
    PROVE  Scope(p, after, left) \cap DOMAIN before \subseteq Scope(p, before, libs)
<1> DEFINE bad(rows, ls) == {i \in DOMAIN rows : ~itemPredicate(p, rows[i], ls)}
           B == Below(before, bad(before, libs))
           A == Below(after, bad(after, left))
           X == {i \in DOMAIN before : i \in DOMAIN after => i \in A}
<1>1. /\ bad(after, left) \subseteq A /\ ClosedBelow(after, A)
      /\ \A Y : bad(before, libs) \subseteq Y /\ ClosedBelow(before, Y) => B \subseteq Y
  <2>1. bad(after, left) \in SUBSET DOMAIN after /\ bad(before, libs) \in SUBSET DOMAIN before
      OBVIOUS
  <2> HIDE DEF bad
  <2> QED BY <2>1, BelowIsLeast
<1>2. bad(before, libs) \subseteq X
  <2> SUFFICES ASSUME NEW i \in DOMAIN before, ~itemPredicate(p, before[i], libs), i \in DOMAIN after
               PROVE  i \in bad(after, left)
      BY <1>1
  <2>1. before[i] = after[i]
      OBVIOUS
  <2>2. itemPredicate(p, before[i], left) => itemPredicate(p, before[i], libs)
      BY Zenon DEF itemPredicate
  <2> QED BY <2>1, <2>2
<1>3. ClosedBelow(before, X)
  <2> SUFFICES ASSUME NEW i \in DOMAIN before, before[i].parent \in X, i \in DOMAIN after
               PROVE  i \in A
      BY DEF ClosedBelow
  <2>1. before[i].parent \in DOMAIN after /\ before[i].parent \in A /\ before[i] = after[i]
      OBVIOUS
  <2> QED BY <1>1, <2>1 DEF ClosedBelow
<1>4. B \subseteq X
    BY <1>1, <1>2, <1>3
<1>5. CASE p = Invalid \/ p.isdisabled
    BY <1>5, Zenon DEF Scope
<1>6. CASE ~(p = Invalid \/ p.isdisabled)
  <2>1. Scope(p, after, left) = DOMAIN after \ A
      BY <1>6, Zenon DEF Scope, Denied
  <2>2. Scope(p, before, libs) = DOMAIN before \ B
      BY <1>6, Zenon DEF Scope, Denied
  <2> QED BY <1>4, <2>1, <2>2
<1> QED BY <1>5, <1>6

(***************************************************************************)
(* Ways to the root                                                        *)
(***************************************************************************)

LEMMA RefsAre ==
    ASSUME NEW d, NEW ref
    PROVE  ref \in Refs(d) <=> \/ \E i \in DOMAIN d.items : ref \in RefsOfItem(i, d.items[i])
                               \/ \E s \in DOMAIN d.sources : ref = <<"source", s, d.sources[s]>>
                               \/ \E p \in d.progress : ref \in RefsOfProgress(p)
<1>1. ref \in ItemRefs(d) <=> \E i \in DOMAIN d.items : ref \in RefsOfItem(i, d.items[i])
    BY DEF ItemRefs
<1>2. ref \in SourceRefs(d) <=> \E s \in DOMAIN d.sources : ref = <<"source", s, d.sources[s]>>
    BY DEF SourceRefs
<1>3. ref \in ProgressRefs(d) <=> \E p \in d.progress : ref \in RefsOfProgress(p)
    BY DEF ProgressRefs
<1> QED BY <1>1, <1>2, <1>3 DEF Refs

\* Where nothing dangles, every row has a way to a root, unless a late parent
\* is without one.
LEMMA RanksGiveWays ==
    ASSUME NEW d, NEW lates, NEW rank,
           IsFiniteSet(DOMAIN d.items), None \notin DOMAIN d.items, Dangling(d) = {},
           rank \in [DOMAIN d.items -> Nat], IsRank(rank, d, lates),
           \A i \in DOMAIN d.items :
               <<"parent", i, d.items[i].parent>> \in lates => HasPath(d.items, i)
    PROVE  \A i \in DOMAIN d.items : HasPath(d.items, i)
<1> DEFINE items  == d.items
           Placed == {c \in DOMAIN items :
                         items[c].parent \in DOMAIN items => items[items[c].parent].lib = items[c].lib}
           H      == Rising(items, Placed)
           M      == {n \in Nat : \A i \in DOMAIN items : rank[i] < n => i \in H}
<1>1. \A i \in DOMAIN items : HasPath(items, i) <=> i \in H
    BY DEF HasPath
<1>2. H = Climbs(items, Placed, H)
    BY RisingIsLeast
<1>3. ASSUME NEW i \in DOMAIN items, items[i].parent # None
      PROVE  items[i].parent \in DOMAIN items /\ items[items[i].parent].lib = items[i].lib
  <2> DEFINE ref == <<"parent", i, items[i].parent>>
  <2>1. ref \in RefsOfItem(i, items[i])
      BY <1>3 DEF RefsOfItem
  <2>2. ref \in Refs(d)
      BY <2>1, RefsAre
  <2>3. Hits(d, ref)
      BY <2>2 DEF Dangling
  <2> QED BY <2>3 DEF Hits
<1>4. Placed = DOMAIN items
    BY <1>3
<1> HIDE DEF Placed
<1>5. ASSUME NEW i \in DOMAIN items, items[i].parent \in H \cup {None} PROVE i \in H
    BY <1>2, <1>4, <1>5 DEF Climbs
<1> HIDE DEF H
<1>6. 0 \in M
    OBVIOUS
<1>7. ASSUME NEW n \in Nat, n \in M PROVE n + 1 \in M
  <2> SUFFICES ASSUME NEW i \in DOMAIN items, rank[i] < n + 1, items[i].parent # None
               PROVE  items[i].parent \in H
      BY <1>5
  <2>1. items[i].parent \in DOMAIN items
      BY <1>3
  <2>2. CASE <<"parent", i, items[i].parent>> \in lates
    <3>1. i \in H
        BY <1>1, <2>2
    <3> QED BY <1>2, <3>1 DEF Climbs
  <2>3. CASE <<"parent", i, items[i].parent>> \notin lates
    <3>1. rank[items[i].parent] < rank[i]
        BY <2>1, <2>3 DEF IsRank
    <3>2. rank[items[i].parent] \in Nat /\ rank[i] \in Nat
        BY <2>1
    <3>3. rank[items[i].parent] < n
        BY <3>1, <3>2
    <3> QED BY <1>7, <2>1, <3>3
  <2> QED BY <2>2, <2>3
<1> HIDE DEF M
<1>8. \A n \in Nat : n \in M
    BY <1>6, <1>7, Induction
<1>9. ASSUME NEW i \in DOMAIN items PROVE i \in H
  <2>1. rank[i] \in Nat /\ rank[i] + 1 \in Nat /\ rank[i] < rank[i] + 1
      OBVIOUS
  <2> QED BY <1>8, <2>1 DEF M
<1> QED BY <1>1, <1>9

(***************************************************************************)
(* What every step leaves in order                                         *)
(***************************************************************************)
Ranked(d, lates) == \E rank \in [DOMAIN d.items -> Nat] : IsRank(rank, d, lates)

Sound(d, lates) == WellFormed(d) /\ Dangling(d) \subseteq lates /\ Ranked(d, lates)

\* Rows that stay keep what they refer to.  What is referred to stays as long
\* as what refers to it; new references are among refs.  A new row is not
\* below a new row.
ItemsFollow(d, e, refs) ==
    \A i \in DOMAIN e.items :
        IF i \in DOMAIN d.items
        THEN /\ e.items[i].lib = d.items[i].lib /\ e.items[i].parent = d.items[i].parent
             /\ IsVirtual(e.items[i]) = IsVirtual(d.items[i])
             /\ d.items[i].lib \in DOMAIN d.libs => \/ IsVirtual(d.items[i])
                                                    \/ d.items[i].lib \in DOMAIN e.libs
             /\ d.items[i].parent \in DOMAIN d.items => d.items[i].parent \in DOMAIN e.items
        ELSE /\ RefsOfItem(i, e.items[i]) \subseteq refs
             /\ e.items[i].parent \notin DOMAIN e.items \ DOMAIN d.items

SourcesFollow(d, e, refs) ==
    \A s \in DOMAIN e.sources :
        \/ <<"source", s, e.sources[s]>> \in refs
        \/ e.sources[s] \in DOMAIN e.items
        \/ /\ s \in DOMAIN d.sources /\ e.sources[s] = d.sources[s]
           /\ e.sources[s] \notin DOMAIN d.items

ProgressFollows(d, e, refs) ==
    \A p \in e.progress :
        \/ RefsOfProgress(p) \subseteq refs
        \/ /\ p \in d.progress
           /\ p.user \in DOMAIN d.users => p.user \in DOMAIN e.users
           /\ p.item \in DOMAIN d.items => p.item \in DOMAIN e.items

Follows(d, e, refs) ==
    ItemsFollow(d, e, refs) /\ SourcesFollow(d, e, refs) /\ ProgressFollows(d, e, refs)

\* What dangles after such a step dangled before it or was written by it.
LEMMA LooseEndsAreOldOrWritten ==
    ASSUME NEW d, NEW e, NEW refs, Follows(d, e, refs), NEW ref \in Dangling(e)
    PROVE  ref \in refs \/ ref \in Dangling(d)
<1>1. ref \in Refs(e) /\ ~Hits(e, ref)
    BY DEF Dangling
<1>2. CASE \E i \in DOMAIN e.items : ref \in RefsOfItem(i, e.items[i])
  <2>1. PICK i \in DOMAIN e.items : ref \in RefsOfItem(i, e.items[i])
      BY <1>2
  <2>2. CASE i \notin DOMAIN d.items
      BY <2>1, <2>2 DEF Follows, ItemsFollow
  <2>3. CASE i \in DOMAIN d.items
    <3>1. /\ e.items[i].lib = d.items[i].lib /\ e.items[i].parent = d.items[i].parent
          /\ IsVirtual(e.items[i]) = IsVirtual(d.items[i])
          /\ d.items[i].lib \in DOMAIN d.libs => \/ IsVirtual(d.items[i])
                                                 \/ d.items[i].lib \in DOMAIN e.libs
          /\ d.items[i].parent \in DOMAIN d.items => d.items[i].parent \in DOMAIN e.items
        BY <2>3 DEF Follows, ItemsFollow
    <3>2. ref \in RefsOfItem(i, d.items[i])
        BY <2>1, <3>1 DEF RefsOfItem
    <3>3. ref \in Refs(d)
        BY <2>3, <3>2, RefsAre
    <3>4. CASE ref = <<"library", i, d.items[i].lib>> /\ ~IsVirtual(d.items[i])
      <4>1. ~Hits(d, ref)
          BY <1>1, <3>1, <3>4 DEF Hits
      <4> QED BY <3>3, <4>1 DEF Dangling
    <3>5. CASE ref = <<"parent", i, d.items[i].parent>>
      <4>1. SUFFICES ASSUME Hits(d, ref) PROVE FALSE
          BY <3>3 DEF Dangling
      <4> DEFINE q == d.items[i].parent
      <4>2. q \in DOMAIN d.items /\ d.items[q].lib = d.items[i].lib
          BY <3>5, <4>1 DEF Hits
      <4>3. q \in DOMAIN e.items
          BY <3>1, <4>2
      <4>4. e.items[q].lib = d.items[q].lib
          BY <4>2, <4>3 DEF Follows, ItemsFollow
      <4>5. Hits(e, ref)
          BY <3>1, <3>5, <4>2, <4>3, <4>4 DEF Hits
      <4> QED BY <1>1, <4>5
    <3> QED BY <3>2, <3>4, <3>5 DEF RefsOfItem
  <2> QED BY <2>2, <2>3
<1>3. CASE \E s \in DOMAIN e.sources : ref = <<"source", s, e.sources[s]>>
  <2>1. PICK s \in DOMAIN e.sources : ref = <<"source", s, e.sources[s]>>
      BY <1>3
  <2>2. e.sources[s] \notin DOMAIN e.items
      BY <1>1, <2>1 DEF Hits
  <2>3. \/ ref \in refs
        \/ s \in DOMAIN d.sources /\ e.sources[s] = d.sources[s] /\ e.sources[s] \notin DOMAIN d.items
      BY <2>1, <2>2 DEF Follows, SourcesFollow
  <2>4. ASSUME s \in DOMAIN d.sources, e.sources[s] = d.sources[s], e.sources[s] \notin DOMAIN d.items
        PROVE  ref \in Dangling(d)
    <3>1. ref \in Refs(d)
        BY <2>1, <2>4, RefsAre
    <3>2. ~Hits(d, ref)
        BY <2>1, <2>4 DEF Hits
    <3> QED BY <3>1, <3>2 DEF Dangling
  <2> QED BY <2>3, <2>4
<1>4. CASE \E p \in e.progress : ref \in RefsOfProgress(p)
  <2>1. PICK p \in e.progress : ref \in RefsOfProgress(p)
      BY <1>4
  <2>2. CASE RefsOfProgress(p) \subseteq refs
      BY <2>1, <2>2
  <2>3. CASE /\ p \in d.progress
             /\ p.user \in DOMAIN d.users => p.user \in DOMAIN e.users
             /\ p.item \in DOMAIN d.items => p.item \in DOMAIN e.items
    <3>1. ref \in Refs(d)
        BY <2>1, <2>3, RefsAre
    <3>2. ~Hits(d, ref)
        BY <1>1, <2>1, <2>3 DEF Hits, RefsOfProgress
    <3> QED BY <3>1, <3>2 DEF Dangling
  <2>4. \/ RefsOfProgress(p) \subseteq refs
        \/ /\ p \in d.progress
           /\ p.user \in DOMAIN d.users => p.user \in DOMAIN e.users
           /\ p.item \in DOMAIN d.items => p.item \in DOMAIN e.items
      BY DEF Follows, ProgressFollows
  <2> QED BY <2>2, <2>3, <2>4
<1> QED BY <1>1, <1>2, <1>3, <1>4, RefsAre

\* So tables that are sound stay so.
LEMMA FollowsIsSound ==
    ASSUME NEW d, NEW lates, NEW e, NEW refs, NEW lates2,
           Sound(d, lates), WellFormed(e), Follows(d, e, refs),
           lates2 = {ref \in lates \cup {r \in refs : ~Hits(e, r)} : ref \in Refs(e)}
    PROVE  Sound(e, lates2)
<1>1. Dangling(e) \subseteq lates2
  <2> SUFFICES ASSUME NEW ref \in Dangling(e) PROVE ref \in lates2
      OBVIOUS
  <2>1. ref \in Refs(e) /\ ~Hits(e, ref)
      BY DEF Dangling
  <2>2. ref \in refs \/ ref \in lates
      BY LooseEndsAreOldOrWritten DEF Sound
  <2> QED BY <2>1, <2>2
<1>2. PICK rank \in [DOMAIN d.items -> Nat] : IsRank(rank, d, lates)
    BY DEF Sound, Ranked
<1> DEFINE D == DOMAIN d.items
           E == DOMAIN e.items
           above(i) == IF e.items[i].parent \in D THEN rank[e.items[i].parent] + 1 ELSE 0
           rank2 == [i \in E |-> IF i \in D THEN rank[i] ELSE above(i)]
<1>3. rank2 \in [E -> Nat]
  <2>1. \A i \in E : (IF i \in D THEN rank[i] ELSE above(i)) \in Nat
      BY <1>2
  <2> HIDE DEF above
  <2> QED BY <2>1
<1>4. ASSUME NEW i \in E, e.items[i].parent \in E,
             <<"parent", i, e.items[i].parent>> \notin lates2
      PROVE  rank2[e.items[i].parent] < rank2[i]
  <2> DEFINE q == e.items[i].parent
             ref == <<"parent", i, q>>
  <2>1. q # None
      BY <1>4 DEF WellFormed, ItemsFit
  <2>2. ref \in Refs(e)
    <3>1. ref \in RefsOfItem(i, e.items[i])
        BY <2>1 DEF RefsOfItem
    <3> QED BY <3>1, RefsAre
  <2>3. ref \notin lates
      BY <1>4, <2>2
  <2>4. CASE i \in D
    <3>1. d.items[i].parent = q
        BY <2>4 DEF Follows, ItemsFollow
    <3>2. q \in D
      <4> SUFFICES ASSUME q \notin D PROVE FALSE
          OBVIOUS
      <4>1. ref \in RefsOfItem(i, d.items[i])
          BY <2>1, <3>1 DEF RefsOfItem
      <4>2. ref \in Refs(d)
          BY <2>4, <4>1, RefsAre
      <4>3. ~Hits(d, ref)
          BY DEF Hits
      <4> QED BY <2>3, <4>2, <4>3 DEF Dangling, Sound
    <3>3. rank[q] < rank[i]
        BY <1>2, <2>3, <2>4, <3>1, <3>2 DEF IsRank
    <3> QED BY <1>4, <2>4, <3>2, <3>3
  <2>5. CASE i \notin D
    <3>1. q \in D
        BY <1>4, <2>5 DEF Follows, ItemsFollow
    <3>2. rank2[i] = rank[q] + 1 /\ rank2[q] = rank[q]
        BY <1>4, <2>5, <3>1
    <3>3. rank[q] \in Nat
        BY <1>2, <3>1
    <3> QED BY <3>2, <3>3
  <2> QED BY <2>4, <2>5
<1>5. Ranked(e, lates2)
  <2> HIDE DEF rank2
  <2>1. IsRank(rank2, e, lates2)
      BY <1>4 DEF IsRank
  <2> QED BY <1>3, <2>1 DEF Ranked
<1> QED BY <1>1, <1>5 DEF Sound

(***************************************************************************)
(* The inductive invariant                                                 *)
(***************************************************************************)
Counters == made \in 0 .. Len(NewIds) /\ ops \in 0 .. MaxOps

\* The ids that are still to be made up name no item.
IdsUnused == \A n \in made + 1 .. Len(NewIds) : NewIds[n] \notin DOMAIN db.items

JobSetFits == IsFiniteSet(jobs) /\ Cardinality(jobs) <= MaxJobs

\* A handler that creates an item knows an id of its own, which no row has,
\* and has seen or made the rows of all genres that it has not still to do.
JobFits(j) ==
    /\ j.op = "item" =>
          /\ DOMAIN j = {"op", "id", "row", "todo", "missing"}
          /\ \E n \in 1 .. made : j.id = NewIds[n]
          /\ j.id \notin DOMAIN db.items
          /\ j.row.parent # j.id
          /\ DOMAIN j.row = Columns /\ j.row.genres \subseteq Genres
          /\ j.todo \subseteq Genres
          /\ j.row.genres \subseteq j.todo \cup DOMAIN db.items \cup removed
          /\ j.missing # None => j.missing \in j.todo
    /\ j.op = "user" => j.name \in UserNames

JobIdsDiffer ==
    \A j, k \in jobs : j.op = "item" /\ k.op = "item" /\ j.id = k.id => j = k

JobsInv == JobSetFits /\ (\A j \in jobs : JobFits(j)) /\ JobIdsDiffer

\* What has been read is of the tables as they were at the first read, which
\* were sound then.
ExportInv ==
    /\ export # None =>
          /\ file = Broken
          /\ export = [read |-> export.read, at |-> export.at, got |-> export.got,
                       late |-> export.late]
          /\ export.read \in 0 .. 5
          /\ IsTables(export.got)
          /\ export.read > 0 =>
                /\ Sound(export.at, export.late)
                /\ \A n \in 1 .. export.read : export.got[Tables[n]] = export.at[Tables[n]]
    /\ IsSnapshot => file.whole = TRUE /\ Sound(file.data, file.late)
    /\ target # Empty => IsSnapshot /\ target = file.data

CatInv ==
    /\ Counters
    /\ Sound(db, late) /\ late \subseteq Refs(db)
    /\ GenresListed /\ removed \subseteq Genres
    /\ IdsUnused /\ JobsInv
    /\ ExportInv

LEMMA CountersFit ==
    MaxOps \in Nat /\ MaxJobs \in Nat /\ MaxExported \in Nat /\ MaxExported <= MaxOps
        /\ Len(NewIds) \in Nat
    BY BoundsAssumption, IdsAssumption

\* An id that is made up is neither None nor that of a genre or an import.
LEMMA MadeUpIds ==
    ASSUME NEW n \in 1 .. Len(NewIds)
    PROVE  NewIds[n] \in MadeUp /\ NewIds[n] # None /\ NewIds[n] \notin Genres \cup ImportIds
<1>1. NewIds[n] \in MadeUp
    BY DEF MadeUp
<1> QED BY <1>1, IdsAssumption

LEMMA Replaced ==
    ASSUME NEW d, IsTables(d), NEW x
    PROVE  /\ \A e : e = [d EXCEPT !.libs = x] =>
                  /\ IsTables(e) /\ e.libs = x /\ e.items = d.items /\ e.sources = d.sources
                  /\ e.users = d.users /\ e.progress = d.progress
           /\ \A e : e = [d EXCEPT !.items = x] =>
                  /\ IsTables(e) /\ e.libs = d.libs /\ e.items = x /\ e.sources = d.sources
                  /\ e.users = d.users /\ e.progress = d.progress
           /\ \A e : e = [d EXCEPT !.sources = x] =>
                  /\ IsTables(e) /\ e.libs = d.libs /\ e.items = d.items /\ e.sources = x
                  /\ e.users = d.users /\ e.progress = d.progress
           /\ \A e : e = [d EXCEPT !.users = x] =>
                  /\ IsTables(e) /\ e.libs = d.libs /\ e.items = d.items /\ e.sources = d.sources
                  /\ e.users = x /\ e.progress = d.progress
           /\ \A e : e = [d EXCEPT !.progress = x] =>
                  /\ IsTables(e) /\ e.libs = d.libs /\ e.items = d.items /\ e.sources = d.sources
                  /\ e.users = d.users /\ e.progress = x
    BY DEF IsTables

LEMMA InitHolds == ASSUME Init PROVE CatInv
<1> USE DEF Init
<1>1. Counters
    BY CountersFit DEF Counters
<1>2. WellFormed(db) /\ (\A i \in DOMAIN db.items : db.items[i].genres \subseteq DOMAIN db.items)
    BY StartsAssumption
<1>3. Ranked(db, late)
  <2>1. PICK rank \in [DOMAIN db.items -> 0 .. Cardinality(DOMAIN db.items)] :
                IsRank(rank, db, Dangling(db))
      BY StartsAssumption
  <2>2. Cardinality(DOMAIN db.items) \in Nat
      BY <1>2, FS_CardinalityType DEF WellFormed, ItemsFit
  <2>3. rank \in [DOMAIN db.items -> Nat]
      BY <2>1, <2>2
  <2> QED BY <2>1, <2>3 DEF Ranked
<1>4. late \subseteq Refs(db)
    BY DEF Dangling
<1>5. GenresListed
    BY <1>2 DEF GenresListed
<1>6. IdsUnused
    BY MadeUpIds, IdsAssumption DEF IdsUnused
<1>7. JobsInv
    BY CountersFit, FS_EmptySet DEF JobsInv, JobSetFits, JobIdsDiffer
<1>8. ExportInv
    BY DEF ExportInv, IsSnapshot
<1> QED BY <1>1, <1>2, <1>3, <1>4, <1>5, <1>6, <1>7, <1>8 DEF CatInv, Sound

(***************************************************************************)
(* Handlers between two statements                                         *)
(***************************************************************************)

\* Nothing that a handler has found is lost to it, unless it is recorded.
WorldKept ==
    /\ made \in Nat /\ made' \in Nat /\ made <= made'
    /\ (DOMAIN db.items \cap Genres) \cup removed \subseteq DOMAIN db'.items \cup removed'

LEMMA JobStays ==
    ASSUME WorldKept, NEW j, JobFits(j), j.op = "item" => j.id \notin DOMAIN db'.items
    PROVE  JobFits(j)'
<1>1. CASE j.op = "item"
  <2>1. PICK n \in 1 .. made : j.id = NewIds[n]
      BY <1>1 DEF JobFits
  <2>2. n \in 1 .. made'
      BY <2>1 DEF WorldKept
  <2>3. j.row.genres \subseteq j.todo \cup DOMAIN db'.items \cup removed'
    <3>1. /\ j.row.genres \subseteq Genres
          /\ j.row.genres \subseteq j.todo \cup DOMAIN db.items \cup removed
        BY <1>1 DEF JobFits
    <3> QED BY <3>1 DEF WorldKept
  <2> QED BY <1>1, <2>1, <2>2, <2>3 DEF JobFits
<1>2. CASE j.op # "item"
    BY <1>2 DEF JobFits
<1> QED BY <1>1, <1>2

LEMMA SmallerSets ==
    ASSUME NEW J, IsFiniteSet(J), Cardinality(J) <= MaxJobs
    PROVE  /\ \A K : K \subseteq J => IsFiniteSet(K) /\ Cardinality(K) <= MaxJobs
           /\ \A k : Cardinality(J) < MaxJobs
                        => IsFiniteSet(J \cup {k}) /\ Cardinality(J \cup {k}) <= MaxJobs
           /\ \A j \in J : \A k : /\ IsFiniteSet((J \ {j}) \cup {k})
                                  /\ Cardinality((J \ {j}) \cup {k}) <= MaxJobs
<1>0. Cardinality(J) \in Nat /\ MaxJobs \in Nat
    BY FS_CardinalityType, CountersFit
<1>1. ASSUME NEW K, K \subseteq J PROVE IsFiniteSet(K) /\ Cardinality(K) <= MaxJobs
  <2>1. IsFiniteSet(K) /\ Cardinality(K) <= Cardinality(J) /\ Cardinality(K) \in Nat
      BY <1>1, FS_Subset, FS_CardinalityType
  <2> QED BY <1>0, <2>1
<1>2. ASSUME NEW k, Cardinality(J) < MaxJobs
      PROVE  IsFiniteSet(J \cup {k}) /\ Cardinality(J \cup {k}) <= MaxJobs
    BY <1>0, <1>2, FS_AddElement
<1>3. ASSUME NEW j \in J, NEW k
      PROVE  IsFiniteSet((J \ {j}) \cup {k}) /\ Cardinality((J \ {j}) \cup {k}) <= MaxJobs
  <2>1. IsFiniteSet(J \ {j}) /\ Cardinality(J \ {j}) = Cardinality(J) - 1
      BY FS_RemoveElement
  <2>2. /\ IsFiniteSet((J \ {j}) \cup {k})
        /\ \/ Cardinality((J \ {j}) \cup {k}) = Cardinality(J) - 1
           \/ Cardinality((J \ {j}) \cup {k}) = Cardinality(J) - 1 + 1
      BY <2>1, FS_AddElement
  <2> QED BY <1>0, <2>2
<1> QED BY <1>1, <1>2, <1>3

LEMMA FewerJobs ==
    ASSUME JobsInv, WorldKept, jobs' \subseteq jobs,
           \A j \in jobs' : j.op = "item" => j.id \notin DOMAIN db'.items
    PROVE  JobsInv'
<1>1. JobSetFits'
    BY SmallerSets DEF JobsInv, JobSetFits
<1>2. \A j \in jobs' : JobFits(j)'
    BY JobStays DEF JobsInv
<1>3. JobIdsDiffer'
    BY DEF JobsInv, JobIdsDiffer
<1> QED BY <1>1, <1>2, <1>3 DEF JobsInv

LEMMA OneMoreJob ==
    ASSUME JobsInv, WorldKept, NEW job, Enter(job), JobFits(job)',
           \A j \in jobs : j.op = "item" =>
               j.id \notin DOMAIN db'.items /\ (job.op = "item" => j.id # job.id)
    PROVE  JobsInv'
<1>0. Cardinality(jobs) < MaxJobs /\ jobs' = jobs \cup {job}
    BY DEF Enter
<1>1. JobSetFits'
    BY <1>0, SmallerSets DEF JobsInv, JobSetFits
<1>2. \A j \in jobs' : JobFits(j)'
    BY <1>0, JobStays DEF JobsInv
<1>3. JobIdsDiffer'
    BY <1>0 DEF JobsInv, JobIdsDiffer
<1> QED BY <1>1, <1>2, <1>3 DEF JobsInv

LEMMA JobGoesOn ==
    ASSUME JobsInv, WorldKept, NEW j \in jobs, NEW j2, Becomes(j, j2),
           JobFits(j2)', j.op = "item", j2.op = "item", j2.id = j.id,
           \A k \in jobs : k.op = "item" => k.id \notin DOMAIN db'.items
    PROVE  JobsInv'
<1>0. jobs' = (jobs \ {j}) \cup {j2}
    BY DEF Becomes
<1>1. JobSetFits'
    BY <1>0, SmallerSets DEF JobsInv, JobSetFits
<1>2. \A k \in jobs' : JobFits(k)'
    BY <1>0, JobStays DEF JobsInv
<1>3. JobIdsDiffer'
  <2> SUFFICES ASSUME NEW k \in jobs', NEW l \in jobs', k.op = "item", l.op = "item", k.id = l.id
               PROVE  k = l
      BY DEF JobIdsDiffer
  <2>1. \A m \in jobs \ {j} : m.op = "item" => m.id # j.id
      BY DEF JobsInv, JobIdsDiffer
  <2>2. CASE k = j2
      BY <1>0, <2>1, <2>2
  <2>3. CASE l = j2
      BY <1>0, <2>1, <2>3
  <2>4. CASE k # j2 /\ l # j2
      BY <1>0, <2>4 DEF JobsInv, JobIdsDiffer
  <2> QED BY <2>2, <2>3, <2>4
<1> QED BY <1>1, <1>2, <1>3 DEF JobsInv

(***************************************************************************)
(* The steps                                                               *)
(***************************************************************************)

\* Of the rows that stay none loses its parent.
ParentsKept ==
    \A i \in DOMAIN db.items \cap DOMAIN db'.items :
        db.items[i].parent \in DOMAIN db.items => db.items[i].parent \in DOMAIN db'.items

Keeps == CatInv' /\ ParentsKept

LEMMA TransfersSame ==
    ASSUME ExportInv, UNCHANGED transfers PROVE ExportInv'
BY DEF ExportInv, transfers, IsSnapshot

LEMMA Counted ==
    ASSUME CatInv, Count PROVE ops' \in 0 .. MaxOps
<1>1. ops \in Nat /\ ops' = ops + 1 /\ (ops < MaxOps \/ ops < MaxExported)
    BY DEF Count, CatInv, Counters
<1> QED BY <1>1, CountersFit

LEMMA AnotherId ==
    ASSUME CatInv, MakeId
    PROVE  /\ made \in Nat /\ made' = made + 1 /\ made' \in 0 .. Len(NewIds)
           /\ made + 1 \in 1 .. Len(NewIds)
           /\ FreshId \notin DOMAIN db.items /\ FreshId # None
           /\ FreshId \notin Genres \cup ImportIds
<1>1. made \in Nat /\ made < Len(NewIds) /\ made' = made + 1 /\ Len(NewIds) \in Nat
    BY CountersFit DEF MakeId, CatInv, Counters
<1>2. made + 1 \in 1 .. Len(NewIds) /\ made + 1 \in made + 1 .. Len(NewIds)
    BY <1>1
<1> QED BY <1>1, <1>2, MadeUpIds DEF FreshId, CatInv, IdsUnused

LEMMA LaterIds ==
    ASSUME NEW m \in Nat, NEW next \in Nat, m <= next, NEW l \in Nat
    PROVE  \A n \in next + 1 .. l : n \in m + 1 .. l /\ n \in 1 .. l
OBVIOUS

LEMMA IdsStayUnused ==
    ASSUME CatInv, made' \in 0 .. Len(NewIds), made <= made',
           \A i \in DOMAIN db'.items : i \in MadeUp => i \in DOMAIN db.items
    PROVE  IdsUnused'
<1>1. made \in Nat /\ made' \in Nat /\ Len(NewIds) \in Nat
    BY CountersFit DEF CatInv, Counters
<1>2. PICK m \in Nat, next \in Nat : m = made /\ next = made' /\ m <= next
    BY <1>1
<1>3. \A n \in next + 1 .. Len(NewIds) : n \in m + 1 .. Len(NewIds) /\ n \in 1 .. Len(NewIds)
    BY <1>1, <1>2, LaterIds
<1>4. ASSUME NEW n \in next + 1 .. Len(NewIds) PROVE NewIds[n] \notin DOMAIN db'.items
  <2>1. NewIds[n] \in MadeUp
      BY <1>3, MadeUpIds
  <2>2. NewIds[n] \notin DOMAIN db.items
      BY <1>2, <1>3 DEF CatInv, IdsUnused
  <2> QED BY <2>1, <2>2
<1> QED BY <1>2, <1>4 DEF IdsUnused

LEMMA WithoutWriting ==
    ASSUME CatInv, NoWrite, made' \in 0 .. Len(NewIds), made <= made', ops' \in 0 .. MaxOps
    PROVE  WorldKept /\ (JobsInv' => Keeps)
<1>1. UNCHANGED <<db, late, removed>> /\ UNCHANGED transfers
    BY DEF NoWrite
<1>2. made \in Nat /\ made' \in Nat
    BY CountersFit DEF CatInv, Counters
<1>3. IdsUnused'
    BY <1>1, IdsStayUnused
<1>4. ExportInv'
    BY <1>1, TransfersSame DEF CatInv
<1>5. Sound(db, late)' /\ (late \subseteq Refs(db))' /\ GenresListed' /\ (removed \subseteq Genres)'
    BY <1>1 DEF CatInv, GenresListed
<1>6. WorldKept /\ ParentsKept
    BY <1>1, <1>2 DEF WorldKept, ParentsKept
<1> QED BY <1>3, <1>4, <1>5, <1>6 DEF CatInv, Counters, Keeps

LEMMA Writing ==
    ASSUME CatInv, NEW refs, Write(refs), WellFormed(db'), Follows(db, db', refs)
    PROVE  /\ Sound(db, late)' /\ (late \subseteq Refs(db))' /\ ExportInv'
           /\ ParentsKept
<1>1. late' = {ref \in late \cup {r \in refs : ~Hits(db', r)} : ref \in Refs(db')}
    BY DEF Write, Recorded
<1>2. late' \subseteq Refs(db')
    BY <1>1
<1>3. Sound(db', late')
    BY <1>1, FollowsIsSound DEF CatInv
<1>4. ParentsKept
    BY DEF ParentsKept, Follows, ItemsFollow
<1> QED BY <1>2, <1>3, <1>4, TransfersSame DEF Write, CatInv

\* A step that leaves the items alone.
LEMMA OtherTables ==
    ASSUME CatInv, NEW refs, Write(refs), removed' = removed,
           made' \in 0 .. Len(NewIds), made <= made', ops' \in 0 .. MaxOps,
           IsTables(db'), db'.items = db.items, LibsFit(db'.libs), UsersFit(db'.users),
           \A i \in DOMAIN db.items : db.items[i].lib \in DOMAIN db.libs =>
               IsVirtual(db.items[i]) \/ db.items[i].lib \in DOMAIN db'.libs,
           SourcesFollow(db, db', refs), ProgressFollows(db, db', refs)
    PROVE  WorldKept /\ (JobsInv' => Keeps)
<1>1. WellFormed(db')
    BY DEF WellFormed, CatInv, Sound
<1>2. Follows(db, db', refs)
    BY DEF Follows, ItemsFollow
<1>3. /\ Sound(db, late)' /\ (late \subseteq Refs(db))' /\ ExportInv'
      /\ ParentsKept
    BY <1>1, <1>2, Writing
<1>4. made \in Nat /\ made' \in Nat
    BY CountersFit DEF CatInv, Counters
<1>5. IdsUnused'
    BY IdsStayUnused
<1>6. GenresListed' /\ (removed \subseteq Genres)'
    BY DEF CatInv, GenresListed
<1>7. WorldKept
    BY <1>4 DEF WorldKept
<1> QED BY <1>3, <1>5, <1>6, <1>7 DEF CatInv, Counters, Keeps

-----------------------------------------------------------------------------
(***************************************************************************)
(* Handlers that only look, and those that fail                            *)
(***************************************************************************)

\* No handler's id is that of a row, nor the one that is made up next.
LEMMA IdsOfJobs ==
    ASSUME CatInv, NEW j \in jobs, j.op = "item"
    PROVE  /\ j.id \notin DOMAIN db.items /\ j.id \in MadeUp
           /\ made < Len(NewIds) => j.id # FreshId
<1>1. JobFits(j)
    BY DEF CatInv, JobsInv
<1>2. PICK n \in 1 .. made : j.id = NewIds[n]
    BY <1>1 DEF JobFits
<1>3. made \in Nat /\ made <= Len(NewIds) /\ Len(NewIds) \in Nat
    BY CountersFit DEF CatInv, Counters
<1>4. n \in 1 .. Len(NewIds)
    BY <1>3
<1>5. ASSUME made < Len(NewIds) PROVE j.id # FreshId
  <2>1. made + 1 \in 1 .. Len(NewIds) /\ n # made + 1
      BY <1>3, <1>5
  <2> QED BY <1>2, <1>4, <2>1, IdsAssumption DEF FreshId
<1> QED BY <1>1, <1>2, <1>4, <1>5, MadeUpIds DEF JobFits

LEMMA FailingKeeps ==
    ASSUME CatInv, NEW j \in jobs, Leave(j), NoWrite, UNCHANGED <<made, ops>>
    PROVE  Keeps
<1>1. made' \in 0 .. Len(NewIds) /\ made <= made' /\ ops' \in 0 .. MaxOps
    BY CountersFit DEF CatInv, Counters
<1>2. WorldKept /\ (JobsInv' => Keeps)
    BY <1>1, WithoutWriting
<1>3. jobs' \subseteq jobs /\ db' = db
    BY DEF Leave, NoWrite
<1>4. JobsInv'
    BY <1>2, <1>3, IdsOfJobs, FewerJobs DEF CatInv
<1> QED BY <1>2, <1>4

LEMMA CreateItemLookKeeps ==
    ASSUME CatInv, NEW lib, NEW parent \in Parents, NEW shape \in Shapes,
           CreateItemLook(lib, parent, shape)
    PROVE  Keeps
<1>i. PICK id : id = FreshId
    OBVIOUS
<1> DEFINE job == [op |-> "item", id |-> id, row |-> RowOf(shape, lib, parent),
                   todo |-> shape.genres, missing |-> None]
<1>0. Count /\ MakeId /\ Enter(job) /\ NoWrite
    BY <1>i DEF CreateItemLook
<1>1. /\ made \in Nat /\ made' = made + 1 /\ made' \in 0 .. Len(NewIds)
      /\ id \notin DOMAIN db.items /\ id # None
    BY <1>i, <1>0, AnotherId
<1>2. WorldKept /\ (JobsInv' => Keeps)
  <2>1. made <= made'
      BY <1>1
  <2> QED BY <1>0, <1>1, <2>1, Counted, WithoutWriting
<1>3. db' = db /\ removed' = removed
    BY <1>0 DEF NoWrite
<1>4. JobFits(job)'
  <2>1. made + 1 \in 1 .. made'
      BY <1>1
  <2>2. \E n \in 1 .. made' : id = NewIds[n]
      BY <1>i, <2>1 DEF FreshId
  <2>3. parent # id
      BY <1>1 DEF Parents
  <2>4. DOMAIN RowOf(shape, lib, parent) = Columns /\ RowOf(shape, lib, parent).genres = shape.genres
        /\ RowOf(shape, lib, parent).parent = parent
      BY DEF RowOf, Columns
  <2>5. shape.genres \subseteq Genres
      BY ShapesAssumption
  <2> QED BY <1>1, <1>3, <2>2, <2>3, <2>4, <2>5 DEF JobFits
<1>5. \A j \in jobs : j.op = "item" => j.id \notin DOMAIN db'.items /\ j.id # job.id
  <2>1. made < Len(NewIds)
      BY <1>0 DEF MakeId
  <2> QED BY <1>i, <1>3, <2>1, IdsOfJobs
<1>6. JobsInv /\ Enter(job)
    BY <1>0 DEF CatInv
<1>7. JobsInv'
  <2> HIDE DEF job
  <2> QED BY <1>2, <1>4, <1>5, <1>6, OneMoreJob
<1> QED BY <1>2, <1>7

LEMMA OtherJob ==
    ASSUME CatInv, WorldKept, db' = db, NEW job, Enter(job),
           job.op # "item", job.op = "user" => job.name \in UserNames
    PROVE  JobsInv'
<1>1. JobFits(job)'
    BY DEF JobFits
<1>2. \A j \in jobs : j.op = "item" => j.id \notin DOMAIN db'.items
    BY IdsOfJobs
<1>3. JobsInv
    BY DEF CatInv
<1> QED BY <1>1, <1>2, <1>3, OneMoreJob

LEMMA AddSourceLookKeeps ==
    ASSUME CatInv, NEW i, AddSourceLook(i) PROVE Keeps
<1>i. PICK id : id = FreshId
    OBVIOUS
<1> DEFINE job == [op |-> "source", id |-> id, item |-> i]
<1>0. Count /\ MakeId /\ Enter(job) /\ NoWrite
    BY <1>i DEF AddSourceLook
<1>1. made' \in 0 .. Len(NewIds) /\ made <= made' /\ ops' \in 0 .. MaxOps
    BY <1>0, AnotherId, Counted
<1>2. WorldKept /\ (JobsInv' => Keeps)
    BY <1>0, <1>1, WithoutWriting
<1>3. db' = db /\ job.op # "item" /\ job.op # "user"
    BY <1>0 DEF NoWrite
<1>4. JobsInv'
  <2> HIDE DEF job
  <2> QED BY <1>0, <1>2, <1>3, OtherJob
<1> QED BY <1>2, <1>4

LEMMA CreateUserCoreLookKeeps ==
    ASSUME CatInv, NEW name \in UserNames, CreateUserCoreLook(name) PROVE Keeps
<1>i. PICK id : id = FreshId
    OBVIOUS
<1> DEFINE job == [op |-> "user", id |-> id, name |-> name]
<1>0. Count /\ MakeId /\ Enter(job) /\ NoWrite
    BY <1>i DEF CreateUserCoreLook
<1>1. made' \in 0 .. Len(NewIds) /\ made <= made' /\ ops' \in 0 .. MaxOps
    BY <1>0, AnotherId, Counted
<1>2. WorldKept /\ (JobsInv' => Keeps)
    BY <1>0, <1>1, WithoutWriting
<1>3. db' = db /\ job.op # "item" /\ job.name \in UserNames
    BY <1>0 DEF NoWrite
<1>4. JobsInv'
  <2> HIDE DEF job
  <2> QED BY <1>0, <1>2, <1>3, OtherJob
<1> QED BY <1>2, <1>4

LEMMA ReportLookKeeps ==
    ASSUME CatInv, NEW u, NEW i, ReportLook(u, i) PROVE Keeps
<1> DEFINE job == [op |-> "report", user |-> u, item |-> i]
<1>0. Count /\ Enter(job) /\ NoWrite /\ made' = made
    BY DEF ReportLook
<1>1. made' \in 0 .. Len(NewIds) /\ made <= made' /\ ops' \in 0 .. MaxOps
    BY <1>0, Counted, CountersFit DEF CatInv, Counters
<1>2. WorldKept /\ (JobsInv' => Keeps)
    BY <1>0, <1>1, WithoutWriting
<1>3. db' = db /\ job.op # "item" /\ job.op # "user"
    BY <1>0 DEF NoWrite
<1>4. JobsInv'
  <2> HIDE DEF job
  <2> QED BY <1>0, <1>2, <1>3, OtherJob
<1> QED BY <1>2, <1>4

LEMMA EnsureLookKeeps ==
    ASSUME CatInv, NEW j \in jobs, EnsureLook(j) PROVE Keeps
<1>0. j.op = "item" /\ j.missing = None /\ NoWrite /\ UNCHANGED <<made, ops>>
    BY DEF EnsureLook
<1>1. made' \in 0 .. Len(NewIds) /\ made <= made' /\ ops' \in 0 .. MaxOps
    BY <1>0, CountersFit DEF CatInv, Counters
<1>2. WorldKept /\ (JobsInv' => Keeps)
    BY <1>0, <1>1, WithoutWriting
<1>3. db' = db /\ removed' = removed /\ made' = made
    BY <1>0 DEF NoWrite
<1>4. JobFits(j) /\ JobsInv
    BY DEF CatInv, JobsInv
<1>5. PICK g \in j.todo : IF g \in DOMAIN db.items THEN Becomes(j, [j EXCEPT !.todo = @ \ {g}])
                                                   ELSE Becomes(j, [j EXCEPT !.missing = g])
    BY DEF EnsureLook
<1>6. \A k \in jobs : k.op = "item" => k.id \notin DOMAIN db'.items
    BY <1>3, IdsOfJobs
<1>7. DOMAIN j = {"op", "id", "row", "todo", "missing"}
    BY <1>0, <1>4 DEF JobFits
<1>8. CASE g \in DOMAIN db.items
  <2> DEFINE j2 == [j EXCEPT !.todo = @ \ {g}]
  <2>1. /\ DOMAIN j2 = DOMAIN j /\ j2.op = j.op /\ j2.id = j.id /\ j2.row = j.row
        /\ j2.missing = j.missing /\ j2.todo = j.todo \ {g}
      BY <1>7
  <2> HIDE DEF j2
  <2>2. JobFits(j2)'
      BY <1>0, <1>3, <1>4, <1>8, <2>1 DEF JobFits
  <2>3. Becomes(j, j2)
      BY <1>5, <1>8 DEF j2
  <2>4. JobsInv'
      BY <1>0, <1>2, <1>4, <1>6, <2>1, <2>2, <2>3, JobGoesOn
  <2> QED BY <1>2, <2>4
<1>9. CASE g \notin DOMAIN db.items
  <2> DEFINE j2 == [j EXCEPT !.missing = g]
  <2>1. /\ DOMAIN j2 = DOMAIN j /\ j2.op = j.op /\ j2.id = j.id /\ j2.row = j.row
        /\ j2.missing = g /\ j2.todo = j.todo
      BY <1>7
  <2> HIDE DEF j2
  <2>2. JobFits(j2)'
      BY <1>0, <1>3, <1>4, <2>1 DEF JobFits
  <2>3. Becomes(j, j2)
      BY <1>5, <1>9 DEF j2
  <2>4. JobsInv'
      BY <1>0, <1>2, <1>4, <1>6, <2>1, <2>2, <2>3, JobGoesOn
  <2> QED BY <1>2, <2>4
<1> QED BY <1>8, <1>9

(***************************************************************************)
(* Steps that write items                                                  *)
(***************************************************************************)

\* What Writing and the rest need of a step.
LEMMA ItemsWritten ==
    ASSUME CatInv, NEW refs, Write(refs), WellFormed(db'), Follows(db, db', refs),
           made' = made, ops' \in 0 .. MaxOps, GenresListed', removed' \subseteq Genres,
           IdsUnused', JobsInv'
    PROVE  Keeps
BY Writing, CountersFit DEF CatInv, Counters, Keeps

\* A row more.
LEMMA RowAdded ==
    ASSUME CatInv, NEW k, NEW row, k # None, k \notin DOMAIN db.items,
           DOMAIN row = Columns, row.genres \subseteq Genres, row.parent # k,
           db' = [db EXCEPT !.items = Add(@, k, row)]
    PROVE  /\ WellFormed(db') /\ Follows(db, db', RefsOfItem(k, row))
           /\ DOMAIN db'.items = DOMAIN db.items \cup {k}
           /\ db'.items[k] = row /\ \A i \in DOMAIN db.items : db'.items[i] = db.items[i]
<1>0. WellFormed(db)
    BY DEF CatInv, Sound
<1>1. /\ IsTables(db') /\ db'.libs = db.libs /\ db'.items = Add(db.items, k, row)
      /\ db'.sources = db.sources /\ db'.users = db.users /\ db'.progress = db.progress
    BY <1>0, Replaced DEF WellFormed
<1>2. /\ DOMAIN db'.items = DOMAIN db.items \cup {k}
      /\ db'.items[k] = row /\ \A i \in DOMAIN db.items : db'.items[i] = db.items[i]
    BY <1>1, Zenon DEF Add
<1>3. ItemsFit(db'.items)
    BY <1>0, <1>2, FS_AddElement DEF WellFormed, ItemsFit
<1>4. WellFormed(db')
    BY <1>0, <1>1, <1>3 DEF WellFormed
<1>5. ItemsFollow(db, db', RefsOfItem(k, row))
    BY <1>1, <1>2 DEF ItemsFollow
<1>6. SourcesFollow(db, db', RefsOfItem(k, row)) /\ ProgressFollows(db, db', RefsOfItem(k, row))
    BY <1>1, <1>2 DEF SourcesFollow, ProgressFollows
<1> QED BY <1>2, <1>4, <1>5, <1>6 DEF Follows

LEMMA CreateItemKeeps ==
    ASSUME CatInv, NEW j \in jobs, CreateItem(j) PROVE Keeps
<1>0. /\ j.op = "item" /\ j.todo = {} /\ db' = [db EXCEPT !.items = Add(@, j.id, j.row)]
      /\ Leave(j) /\ Write(RefsOfItem(j.id, j.row)) /\ UNCHANGED <<made, removed, ops>>
    BY DEF CreateItem
<1>1. JobFits(j) /\ JobsInv
    BY DEF CatInv, JobsInv
<1>2. j.id \notin DOMAIN db.items /\ j.id \in MadeUp /\ j.id # None
    BY <1>0, IdsOfJobs, IdsAssumption
<1>3. /\ WellFormed(db') /\ Follows(db, db', RefsOfItem(j.id, j.row))
      /\ DOMAIN db'.items = DOMAIN db.items \cup {j.id}
      /\ db'.items[j.id] = j.row /\ \A i \in DOMAIN db.items : db'.items[i] = db.items[i]
  <2>1. DOMAIN j.row = Columns /\ j.row.genres \subseteq Genres /\ j.row.parent # j.id
      BY <1>0, <1>1 DEF JobFits
  <2> QED BY <1>0, <1>2, <2>1, RowAdded
<1>4. GenresListed'
  <2>1. j.row.genres \subseteq DOMAIN db.items \cup removed
      BY <1>0, <1>1 DEF JobFits
  <2> QED BY <1>0, <1>3, <2>1 DEF CatInv, GenresListed
<1>5. WorldKept
    BY <1>0, <1>3, CountersFit DEF WorldKept, CatInv, Counters
<1>6. JobsInv'
  <2>1. jobs' = jobs \ {j}
      BY <1>0 DEF Leave
  <2>2. \A k \in jobs' : k.op = "item" => k.id \notin DOMAIN db'.items
      BY <1>0, <1>1, <1>3, <2>1, IdsOfJobs DEF JobsInv, JobIdsDiffer
  <2> QED BY <1>1, <1>5, <2>1, <2>2, FewerJobs
<1>7. IdsUnused'
  <2>1. PICK n \in 1 .. made : j.id = NewIds[n]
      BY <1>0, <1>1 DEF JobFits
  <2>2. made \in Nat /\ Len(NewIds) \in Nat /\ made <= Len(NewIds)
      BY CountersFit DEF CatInv, Counters
  <2>3. \A m \in made + 1 .. Len(NewIds) : NewIds[m] # NewIds[n]
    <3> TAKE m \in made + 1 .. Len(NewIds)
    <3>1. m \in 1 .. Len(NewIds) /\ n \in 1 .. Len(NewIds) /\ m # n
        BY <2>2
    <3> QED BY <3>1, IdsAssumption
  <2> QED BY <1>0, <1>3, <2>1, <2>3 DEF CatInv, IdsUnused
<1>8. ops' \in 0 .. MaxOps /\ removed' \subseteq Genres /\ made' = made
    BY <1>0 DEF CatInv, Counters
<1> QED BY <1>0, <1>3, <1>4, <1>6, <1>7, <1>8, ItemsWritten

LEMMA EnsureMakeKeeps ==
    ASSUME CatInv, NEW j \in jobs, EnsureMake(j) PROVE Keeps
<1>1. CASE j.missing \in DOMAIN db.items
    BY <1>1, FailingKeeps DEF EnsureMake
<1>2. CASE j.missing \notin DOMAIN db.items
  <2>0. /\ j.op = "item" /\ j.missing # None
        /\ db' = [db EXCEPT !.items = Add(@, j.missing, GenreRow)]
        /\ Becomes(j, [j EXCEPT !.todo = @ \ {j.missing}, !.missing = None])
        /\ Write({}) /\ UNCHANGED <<made, removed, ops>>
      BY <1>2 DEF EnsureMake
  <2>1. JobFits(j) /\ JobsInv
      BY DEF CatInv, JobsInv
  <2>2. j.missing \in j.todo /\ j.missing \in Genres /\ j.missing \notin MadeUp
      BY <2>0, <2>1, IdsAssumption DEF JobFits
  <2>3. /\ WellFormed(db') /\ Follows(db, db', {})
        /\ DOMAIN db'.items = DOMAIN db.items \cup {j.missing}
        /\ db'.items[j.missing] = GenreRow
        /\ \A i \in DOMAIN db.items : db'.items[i] = db.items[i]
    <3>1. DOMAIN GenreRow = Columns /\ GenreRow.genres \subseteq Genres /\ GenreRow.parent = None
        BY DEF GenreRow, Columns
    <3>2. RefsOfItem(j.missing, GenreRow) = {}
        BY DEF RefsOfItem, GenreRow, IsVirtual, VirtualTypes
    <3>3. /\ WellFormed(db') /\ Follows(db, db', RefsOfItem(j.missing, GenreRow))
          /\ DOMAIN db'.items = DOMAIN db.items \cup {j.missing}
          /\ db'.items[j.missing] = GenreRow
          /\ \A i \in DOMAIN db.items : db'.items[i] = db.items[i]
      <4>1. GenreRow.parent # j.missing
          BY <2>0, <3>1
      <4> HIDE DEF GenreRow
      <4> QED BY <1>2, <2>0, <3>1, <4>1, RowAdded
    <3> QED BY <3>2, <3>3
  <2>4. GenresListed'
    <3>1. GenreRow.genres = {}
        BY DEF GenreRow
    <3>2. ASSUME NEW i \in DOMAIN db'.items
          PROVE  db'.items[i].genres \subseteq DOMAIN db'.items \cup removed'
        BY <2>0, <2>3, <3>1, <3>2 DEF CatInv, GenresListed
    <3> QED BY <3>2 DEF GenresListed
  <2>5. WorldKept
      BY <2>0, <2>3, CountersFit DEF WorldKept, CatInv, Counters
  <2>6. JobsInv'
    <3> DEFINE j2 == [j EXCEPT !.todo = @ \ {j.missing}, !.missing = None]
    <3>1. /\ DOMAIN j2 = DOMAIN j /\ j2.op = j.op /\ j2.id = j.id /\ j2.row = j.row
          /\ j2.missing = None /\ j2.todo = j.todo \ {j.missing}
        BY <2>0, <2>1 DEF JobFits
    <3>2. Becomes(j, j2)
        BY <2>0
    <3> HIDE DEF j2
    <3>3. \A k \in jobs : k.op = "item" => k.id \notin DOMAIN db'.items
        BY <2>2, <2>3, IdsOfJobs
    <3>4. JobFits(j2)'
        BY <2>0, <2>1, <2>3, <3>1, <3>3 DEF JobFits
    <3> QED BY <2>0, <2>1, <2>5, <3>1, <3>2, <3>3, <3>4, JobGoesOn
  <2>7. made' \in 0 .. Len(NewIds) /\ made <= made' /\ ops' \in 0 .. MaxOps
      BY <2>0, CountersFit DEF CatInv, Counters
  <2>8. IdsUnused'
      BY <2>2, <2>3, <2>7, IdsStayUnused
  <2>9. made' = made /\ removed' \subseteq Genres
      BY <2>0 DEF CatInv
  <2> QED BY <2>0, <2>3, <2>4, <2>6, <2>7, <2>8, <2>9, ItemsWritten
<1> QED BY <1>1, <1>2

\* Columns that nothing refers to.
LEMMA UpdateItemKeeps ==
    ASSUME CatInv, NEW i, NEW hidden, NEW rating, UpdateItem(i, hidden, rating) PROVE Keeps
<1>0. /\ i \in DOMAIN db.items /\ Count
      /\ db' = [db EXCEPT !.items[i].hidden = hidden, !.items[i].rating = rating]
      /\ Write({}) /\ UNCHANGED <<jobs, made, removed>>
    BY DEF UpdateItem
<1>1. WellFormed(db)
    BY DEF CatInv, Sound
<1>2. PICK rows : rows = [db.items EXCEPT ![i].hidden = hidden, ![i].rating = rating]
    OBVIOUS
<1>3. db' = [db EXCEPT !.items = rows]
  <2>1. "items" \in DOMAIN db
      BY <1>1 DEF WellFormed, IsTables
  <2> QED BY <1>0, <1>2, <2>1
<1>4. /\ IsTables(db') /\ db'.libs = db.libs /\ db'.items = rows
      /\ db'.sources = db.sources /\ db'.users = db.users /\ db'.progress = db.progress
    BY <1>1, <1>3, Replaced DEF WellFormed
<1>5. /\ DOMAIN rows = DOMAIN db.items
      /\ \A k \in DOMAIN rows : /\ DOMAIN rows[k] = DOMAIN db.items[k]
                                /\ rows[k].genres = db.items[k].genres
                                /\ rows[k].lib = db.items[k].lib
                                /\ rows[k].parent = db.items[k].parent
                                /\ rows[k].kind = db.items[k].kind
  <2>1. DOMAIN rows = DOMAIN db.items
      BY <1>2
  <2>2. ASSUME NEW k \in DOMAIN db.items
        PROVE  /\ DOMAIN rows[k] = DOMAIN db.items[k]
               /\ rows[k].genres = db.items[k].genres
               /\ rows[k].lib = db.items[k].lib
               /\ rows[k].parent = db.items[k].parent
               /\ rows[k].kind = db.items[k].kind
    <3>1. DOMAIN db.items[k] = Columns
        BY <1>1 DEF WellFormed, ItemsFit
    <3>2. rows[k] = IF k = i THEN [db.items[k] EXCEPT !.hidden = hidden, !.rating = rating]
                          ELSE db.items[k]
        BY <1>2
    <3> QED BY <3>1, <3>2 DEF Columns
  <2> QED BY <2>1, <2>2
<1>6. WellFormed(db')
  <2>1. ItemsFit(db'.items)
      BY <1>1, <1>4, <1>5 DEF WellFormed, ItemsFit
  <2> QED BY <1>1, <1>4, <2>1 DEF WellFormed
<1>7. Follows(db, db', {})
  <2>1. ItemsFollow(db, db', {})
      BY <1>4, <1>5 DEF ItemsFollow, IsVirtual
  <2>2. SourcesFollow(db, db', {}) /\ ProgressFollows(db, db', {})
      BY <1>4, <1>5 DEF SourcesFollow, ProgressFollows
  <2> QED BY <2>1, <2>2 DEF Follows
<1>8. made' \in 0 .. Len(NewIds) /\ made <= made' /\ ops' \in 0 .. MaxOps
    BY <1>0, Counted, CountersFit DEF CatInv, Counters
<1>9. IdsUnused'
    BY <1>4, <1>5, <1>8, IdsStayUnused
<1>10. GenresListed'
    BY <1>0, <1>4, <1>5 DEF CatInv, GenresListed
<1>11. WorldKept
    BY <1>0, <1>4, <1>5, CountersFit DEF WorldKept, CatInv, Counters
<1>12. JobsInv'
    BY <1>0, <1>4, <1>5, <1>11, FewerJobs, IdsOfJobs DEF CatInv
<1>13. made' = made /\ removed' \subseteq Genres
    BY <1>0 DEF CatInv
<1> QED BY <1>0, <1>6, <1>7, <1>8, <1>9, <1>10, <1>12, <1>13, ItemsWritten

LEMMA TablesWithout ==
    ASSUME NEW d, NEW gone, NEW e, IsTables(d), e = WithoutItems(d, gone)
    PROVE  /\ IsTables(e) /\ e.libs = d.libs /\ e.users = d.users
           /\ DOMAIN e.items = DOMAIN d.items \ gone
           /\ \A i \in DOMAIN e.items : e.items[i] = d.items[i]
           /\ \A s \in DOMAIN e.sources :
                s \in DOMAIN d.sources /\ e.sources[s] = d.sources[s] /\ d.sources[s] \notin gone
           /\ \A p \in e.progress : p \in d.progress /\ p.item \notin gone
<1>1. /\ IsTables(e) /\ e.libs = d.libs /\ e.users = d.users
      /\ e.items = Drop(d.items, gone)
      /\ e.sources = Drop(d.sources, {s \in DOMAIN d.sources : d.sources[s] \in gone})
      /\ e.progress = {p \in d.progress : p.item \notin gone}
    BY DEF IsTables, WithoutItems
<1> QED BY <1>1, Zenon DEF Drop

\* Whatever is below goes too, with all that refers to it.
LEMMA DeleteItemKeeps ==
    ASSUME CatInv, NEW i, DeleteItem(i) PROVE Keeps
<1>0. PICK gone : gone = Subtree(db.items, i)
    OBVIOUS
<1>1. /\ i \in DOMAIN db.items /\ Count /\ db' = WithoutItems(db, gone)
      /\ removed' = removed \cup (gone \cap Genres) /\ Write({}) /\ UNCHANGED <<jobs, made>>
    BY <1>0 DEF DeleteItem
<1>2. WellFormed(db)
    BY DEF CatInv, Sound
<1>3. gone \subseteq DOMAIN db.items /\ ClosedBelow(db.items, gone)
  <2>1. IsFiniteSet(DOMAIN db.items) /\ {i} \in SUBSET DOMAIN db.items
      BY <1>1, <1>2 DEF WellFormed, ItemsFit
  <2> QED BY <1>0, <2>1, BelowIsLeast DEF Subtree
<1>4. /\ IsTables(db') /\ db'.libs = db.libs /\ db'.users = db.users
    BY <1>1, <1>2, TablesWithout DEF WellFormed
<1>5. /\ DOMAIN db'.items = DOMAIN db.items \ gone
      /\ \A k \in DOMAIN db'.items : db'.items[k] = db.items[k]
    BY <1>1, <1>2, TablesWithout DEF WellFormed
<1>6. /\ \A s \in DOMAIN db'.sources :
            s \in DOMAIN db.sources /\ db'.sources[s] = db.sources[s] /\ db.sources[s] \notin gone
      /\ \A p \in db'.progress : p \in db.progress /\ p.item \notin gone
    BY <1>1, <1>2, TablesWithout DEF WellFormed
<1>7. WellFormed(db')
  <2>1. IsFiniteSet(DOMAIN db'.items)
      BY <1>2, <1>5, FS_Subset DEF WellFormed, ItemsFit
  <2>2. ItemsFit(db'.items)
      BY <1>2, <1>5, <2>1 DEF WellFormed, ItemsFit
  <2> QED BY <1>2, <1>4, <2>2 DEF WellFormed
<1>8. Follows(db, db', {})
  <2>1. ItemsFollow(db, db', {})
    <3>1. \A k \in DOMAIN db'.items :
            db.items[k].parent \in DOMAIN db.items => db.items[k].parent \in DOMAIN db'.items
        BY <1>3, <1>5 DEF ClosedBelow
    <3> QED BY <1>4, <1>5, <3>1 DEF ItemsFollow
  <2>2. SourcesFollow(db, db', {})
      BY <1>5, <1>6 DEF SourcesFollow
  <2>3. ProgressFollows(db, db', {})
      BY <1>4, <1>5, <1>6 DEF ProgressFollows
  <2> QED BY <2>1, <2>2, <2>3 DEF Follows
<1>9. made' \in 0 .. Len(NewIds) /\ made <= made' /\ ops' \in 0 .. MaxOps
    BY <1>1, Counted, CountersFit DEF CatInv, Counters
<1>10. IdsUnused'
    BY <1>5, <1>9, IdsStayUnused
<1>11. GenresListed'
  <2>1. ASSUME NEW k \in DOMAIN db'.items
        PROVE  db'.items[k].genres \subseteq DOMAIN db'.items \cup removed'
    <3>1. /\ db'.items[k].genres \subseteq Genres
          /\ db'.items[k].genres \subseteq DOMAIN db.items \cup removed
        BY <1>2, <1>5 DEF CatInv, GenresListed, WellFormed, ItemsFit
    <3> QED BY <1>1, <1>5, <3>1
  <2> QED BY <2>1 DEF GenresListed
<1>12. WorldKept
  <2>1. (DOMAIN db.items \cap Genres) \cup removed \subseteq DOMAIN db'.items \cup removed'
      BY <1>1, <1>5
  <2> QED BY <1>1, <2>1, CountersFit DEF WorldKept, CatInv, Counters
<1>13. JobsInv'
    BY <1>1, <1>5, <1>12, FewerJobs, IdsOfJobs DEF CatInv
<1>14. made' = made /\ removed' \subseteq Genres
    BY <1>1 DEF CatInv
<1> QED BY <1>1, <1>7, <1>8, <1>9, <1>10, <1>11, <1>13, <1>14, ItemsWritten

\* A name that nobody else has may be given.
LEMMA LibraryNamed ==
    ASSUME NEW libs, NEW lib, NEW name \in Names,
           LibsFit(libs), lib # None, \A l \in DOMAIN libs : libs[l] = name => l = lib
    PROVE  /\ LibsFit(Add(libs, lib, name))
           /\ DOMAIN Add(libs, lib, name) = DOMAIN libs \cup {lib}
<1>1. /\ DOMAIN Add(libs, lib, name) = DOMAIN libs \cup {lib}
      /\ \A l \in DOMAIN libs \cup {lib} :
            Add(libs, lib, name)[l] = IF l = lib THEN name ELSE libs[l]
    BY DEF Add
<1> QED BY <1>1 DEF LibsFit

LEMMA UserNamed ==
    ASSUME NEW users, NEW u, NEW row, UsersFit(users),
           DOMAIN row = {"name", "hash"}, row.name \in UserNames, row.hash \in BOOLEAN,
           \A v \in DOMAIN users : users[v].name = row.name => v = u
    PROVE  /\ UsersFit(Add(users, u, row))
           /\ DOMAIN Add(users, u, row) = DOMAIN users \cup {u}
<1>1. /\ DOMAIN Add(users, u, row) = DOMAIN users \cup {u}
      /\ \A v \in DOMAIN users \cup {u} :
            Add(users, u, row)[v] = IF v = u THEN row ELSE users[v]
    BY DEF Add
<1> QED BY <1>1, Zenon DEF UsersFit

\* What an import makes of the tables.
LEMMA TablesImported ==
    ASSUME NEW d, NEW lib, NEW name, NEW id, NEW row, NEW e,
           IsTables(d), e = WithImported(d, lib, name, id, row)
    PROVE  /\ IsTables(e) /\ e.libs = Add(d.libs, lib, name) /\ e.users = d.users
           /\ e.progress = d.progress
           /\ DOMAIN e.items = DOMAIN d.items \cup row.genres \cup {id}
           /\ e.items[id] = row
           /\ \A i \in DOMAIN e.items \ {id} :
                 e.items[i] = IF i \in DOMAIN d.items THEN d.items[i] ELSE GenreRow
           /\ \A s \in DOMAIN e.sources :
                 e.sources[s] = id \/ (s \in DOMAIN d.sources /\ e.sources[s] = d.sources[s])
<1> DEFINE rows    == [g \in row.genres |-> GenreRow]
           items   == [i \in DOMAIN d.items \cup DOMAIN rows |->
                         IF i \in DOMAIN d.items THEN d.items[i] ELSE rows[i]]
           others  == Drop(d.sources, {s \in DOMAIN d.sources : d.sources[s] = id})
<1>1. /\ IsTables(e) /\ e.libs = Add(d.libs, lib, name) /\ e.users = d.users
      /\ e.progress = d.progress
      /\ e.items = Add(items, id, row)
      /\ e.sources = Add(others, <<"source", id>>, id)
    BY DEF IsTables, WithImported
<1>2. /\ DOMAIN items = DOMAIN d.items \cup row.genres
      /\ \A i \in DOMAIN items : items[i] = IF i \in DOMAIN d.items THEN d.items[i] ELSE GenreRow
    OBVIOUS
<1>3. \A s \in DOMAIN others : s \in DOMAIN d.sources /\ others[s] = d.sources[s]
    BY DEF Drop
<1> HIDE DEF items, others
<1>4. /\ DOMAIN e.items = DOMAIN items \cup {id} /\ e.items[id] = row
      /\ \A i \in DOMAIN e.items \ {id} : e.items[i] = items[i]
    BY <1>1, Zenon DEF Add
<1>5. \A s \in DOMAIN e.sources :
            e.sources[s] = id \/ (s \in DOMAIN others /\ e.sources[s] = others[s])
  <2>1. PICK key : e.sources = Add(others, key, id)
      BY <1>1
  <2>2. ASSUME NEW s \in DOMAIN others \cup {key}
        PROVE  \/ Add(others, key, id)[s] = id
               \/ s \in DOMAIN others /\ Add(others, key, id)[s] = others[s]
      BY DEF Add
  <2>3. DOMAIN Add(others, key, id) = DOMAIN others \cup {key}
      BY DEF Add
  <2> QED BY <2>1, <2>2, <2>3
<1> QED BY <1>1, <1>2, <1>3, <1>4, <1>5

LEMMA ImportItemKeeps ==
    ASSUME CatInv, NEW name \in Names, NEW id \in ImportIds, NEW parent \in Parents,
           NEW shape \in Shapes, ImportItem(name, id, parent, shape)
    PROVE  Keeps
<1>1. PICK lib : lib = IF LibsNamed(name) = {} THEN <<"library", name>>
                       ELSE CHOOSE l \in LibsNamed(name) : TRUE
    OBVIOUS
<1>2. PICK row : row = RowOf(shape, lib, parent)
    OBVIOUS
<1>3. /\ LibsNamed(name) = {} => lib \notin DOMAIN db.libs
      /\ parent # id
      /\ id \in DOMAIN db.items =>
            /\ db.items[id].lib = lib /\ db.items[id].parent = parent
            /\ db.items[id].kind = shape.kind
      /\ Count /\ Write(RefsOfItem(id, row)) /\ UNCHANGED <<jobs, made, removed>>
    BY <1>1, <1>2 DEF ImportItem
<1>4. WellFormed(db)
    BY DEF CatInv, Sound
<1>5. /\ IsTables(db') /\ db'.libs = Add(db.libs, lib, name) /\ db'.users = db.users
      /\ db'.progress = db.progress
      /\ DOMAIN db'.items = DOMAIN db.items \cup row.genres \cup {id}
      /\ db'.items[id] = row
      /\ \A i \in DOMAIN db'.items \ {id} :
            db'.items[i] = IF i \in DOMAIN db.items THEN db.items[i] ELSE GenreRow
      /\ \A s \in DOMAIN db'.sources :
            db'.sources[s] = id \/ (s \in DOMAIN db.sources /\ db'.sources[s] = db.sources[s])
  <2>1. db' = WithImported(db, lib, name, id, row)
      BY <1>1, <1>2 DEF ImportItem
  <2>2. IsTables(db)
      BY <1>4 DEF WellFormed
  <2> QED BY <2>1, <2>2, TablesImported
<1>6. /\ row.genres = shape.genres /\ row.parent = parent /\ row.lib = lib /\ row.kind = shape.kind
      /\ DOMAIN row = Columns
    BY <1>2 DEF RowOf, Columns
<1>7. row.genres \subseteq Genres /\ IsFiniteSet(row.genres)
    BY <1>6, ShapesAssumption
<1>8. id # None /\ id \notin MadeUp /\ None \notin Genres /\ MadeUp \cap Genres = {}
    BY IdsAssumption
<1>9. /\ DOMAIN GenreRow = Columns /\ GenreRow.genres = {} /\ GenreRow.parent = None
      /\ \A g : RefsOfItem(g, GenreRow) = {}
    BY DEF GenreRow, Columns, RefsOfItem, IsVirtual, VirtualTypes
<1>10. LibsFit(db'.libs) /\ DOMAIN db.libs \subseteq DOMAIN db'.libs
  <2>1. lib # None /\ \A l \in DOMAIN db.libs : db.libs[l] = name => l = lib
    <3>1. CASE LibsNamed(name) = {}
        BY <1>1, <3>1, IdsAssumption DEF LibsNamed
    <3>2. CASE LibsNamed(name) # {}
      <4>1. lib \in LibsNamed(name)
          BY <1>1, <3>2
      <4> QED BY <1>4, <4>1 DEF LibsNamed, WellFormed, LibsFit
    <3> QED BY <3>1, <3>2
  <2>2. LibsFit(db.libs)
      BY <1>4 DEF WellFormed
  <2>3. /\ LibsFit(Add(db.libs, lib, name))
        /\ DOMAIN Add(db.libs, lib, name) = DOMAIN db.libs \cup {lib}
      BY <2>1, <2>2, LibraryNamed
  <2> QED BY <1>5, <2>3
<1>11. ASSUME NEW i \in DOMAIN db'.items
       PROVE  IF i \in DOMAIN db.items /\ i # id THEN db'.items[i] = db.items[i]
              ELSE IF i = id THEN db'.items[i] = row
              ELSE i \in row.genres /\ db'.items[i] = GenreRow
    BY <1>5
<1>12. ItemsFit(db'.items)
  <2>1. IsFiniteSet(DOMAIN db'.items)
    <3>1. IsFiniteSet(DOMAIN db.items)
        BY <1>4 DEF WellFormed, ItemsFit
    <3>2. IsFiniteSet(DOMAIN db.items \cup row.genres)
        BY <1>7, <3>1, FS_Union
    <3> QED BY <1>5, <3>2, FS_AddElement
  <2>2. None \notin DOMAIN db'.items
      BY <1>4, <1>5, <1>7, <1>8 DEF WellFormed, ItemsFit
  <2>3. ASSUME NEW i \in DOMAIN db'.items
        PROVE  DOMAIN db'.items[i] = Columns /\ db'.items[i].genres \subseteq Genres
      BY <1>4, <1>6, <1>7, <1>9, <1>11 DEF WellFormed, ItemsFit
  <2> QED BY <2>1, <2>2, <2>3 DEF ItemsFit
<1>13. WellFormed(db')
    BY <1>4, <1>5, <1>10, <1>12 DEF WellFormed
<1>14. Follows(db, db', RefsOfItem(id, row))
  <2>1. ASSUME NEW i \in DOMAIN db'.items, i \in DOMAIN db.items
        PROVE  /\ db'.items[i].lib = db.items[i].lib /\ db'.items[i].parent = db.items[i].parent
               /\ IsVirtual(db'.items[i]) = IsVirtual(db.items[i])
      BY <1>3, <1>6, <1>11, <2>1 DEF IsVirtual
  <2>2. ASSUME NEW i \in DOMAIN db'.items, i \notin DOMAIN db.items
        PROVE  /\ RefsOfItem(i, db'.items[i]) \subseteq RefsOfItem(id, row)
               /\ db'.items[i].parent \notin DOMAIN db'.items \ DOMAIN db.items
    <3>1. CASE i = id
      <4>1. row.parent \in {None} \cup DOMAIN db.items
          BY <1>6 DEF Parents
      <4> QED BY <1>11, <1>12, <2>2, <3>1, <4>1 DEF ItemsFit
    <3>2. CASE i # id
        BY <1>9, <1>11, <1>12, <2>2, <3>2 DEF ItemsFit
    <3> QED BY <3>1, <3>2
  <2>3. ItemsFollow(db, db', RefsOfItem(id, row))
      BY <1>5, <1>10, <2>1, <2>2 DEF ItemsFollow
  <2>4. SourcesFollow(db, db', RefsOfItem(id, row))
      BY <1>5 DEF SourcesFollow
  <2>5. ProgressFollows(db, db', RefsOfItem(id, row))
      BY <1>5 DEF ProgressFollows
  <2> QED BY <2>3, <2>4, <2>5 DEF Follows
<1>15. made' \in 0 .. Len(NewIds) /\ made <= made' /\ ops' \in 0 .. MaxOps
    BY <1>3, Counted, CountersFit DEF CatInv, Counters
<1>16. \A i \in DOMAIN db'.items : i \in MadeUp => i \in DOMAIN db.items
    BY <1>5, <1>7, <1>8
<1>17. IdsUnused'
    BY <1>15, <1>16, IdsStayUnused
<1>18. GenresListed'
  <2>1. ASSUME NEW i \in DOMAIN db'.items
        PROVE  db'.items[i].genres \subseteq DOMAIN db'.items \cup removed'
    <3>1. CASE i \in DOMAIN db.items /\ i # id
        BY <1>3, <1>5, <1>11, <3>1 DEF CatInv, GenresListed
    <3>2. CASE ~(i \in DOMAIN db.items /\ i # id)
        BY <1>5, <1>9, <1>11, <3>2
    <3> QED BY <3>1, <3>2
  <2> QED BY <2>1 DEF GenresListed
<1>19. WorldKept
    BY <1>3, <1>5, CountersFit DEF WorldKept, CatInv, Counters
<1>20. JobsInv'
    BY <1>3, <1>16, <1>19, FewerJobs, IdsOfJobs DEF CatInv
<1>21. made' = made /\ removed' \subseteq Genres
    BY <1>3 DEF CatInv
<1> QED BY <1>3, <1>13, <1>14, <1>15, <1>17, <1>18, <1>20, <1>21, ItemsWritten

(***************************************************************************)
(* Steps that write other tables                                           *)
(***************************************************************************)
LEMMA OtherTablesKeep ==
    ASSUME CatInv, NEW refs, Write(refs), removed' = removed,
           made' \in 0 .. Len(NewIds), made <= made', ops' \in 0 .. MaxOps,
           IsTables(db'), db'.items = db.items, LibsFit(db'.libs), UsersFit(db'.users),
           \A i \in DOMAIN db.items : db.items[i].lib \in DOMAIN db.libs =>
               IsVirtual(db.items[i]) \/ db.items[i].lib \in DOMAIN db'.libs,
           SourcesFollow(db, db', refs), ProgressFollows(db, db', refs),
           jobs' \subseteq jobs
    PROVE  Keeps
<1>1. WorldKept /\ (JobsInv' => Keeps)
    BY OtherTables
<1>2. JobsInv
    BY DEF CatInv
<1>3. \A j \in jobs' : j.op = "item" => j.id \notin DOMAIN db'.items
    BY IdsOfJobs
<1>4. JobsInv'
    BY <1>1, <1>2, <1>3, FewerJobs
<1> QED BY <1>1, <1>4

\* The tables of a state, and the counters of a step.
LEMMA FitsNow ==
    ASSUME CatInv
    PROVE  IsTables(db) /\ LibsFit(db.libs) /\ ItemsFit(db.items) /\ UsersFit(db.users)
BY DEF CatInv, Sound, WellFormed

LEMMA OneOperation ==
    ASSUME CatInv, Count
    PROVE  /\ ops' \in 0 .. MaxOps
           /\ made' = made => made' \in 0 .. Len(NewIds) /\ made <= made'
           /\ MakeId => made' \in 0 .. Len(NewIds) /\ made <= made'
<1>1. ops' \in 0 .. MaxOps
    BY Counted
<1>2. made' = made => made' \in 0 .. Len(NewIds) /\ made <= made'
    BY CountersFit DEF CatInv, Counters
<1>3. MakeId => made' \in 0 .. Len(NewIds) /\ made <= made'
  <2>1. HAVE MakeId
  <2> QED BY <2>1, AnotherId
<1> QED BY <1>1, <1>2, <1>3

LEMMA LibrariesWritten ==
    ASSUME CatInv, NEW libs, db' = [db EXCEPT !.libs = libs], Write({}), removed' = removed,
           made' \in 0 .. Len(NewIds), made <= made', ops' \in 0 .. MaxOps, jobs' \subseteq jobs,
           LibsFit(libs),
           \A i \in DOMAIN db.items : db.items[i].lib \in DOMAIN db.libs =>
               IsVirtual(db.items[i]) \/ db.items[i].lib \in DOMAIN libs
    PROVE  Keeps
<1>1. /\ IsTables(db') /\ db'.libs = libs /\ db'.items = db.items /\ db'.sources = db.sources
      /\ db'.users = db.users /\ db'.progress = db.progress
  <2>1. IsTables(db)
      BY FitsNow
  <2> QED BY <2>1, Replaced
<1>2. UsersFit(db'.users) /\ LibsFit(db'.libs)
    BY <1>1, FitsNow
<1>3. SourcesFollow(db, db', {}) /\ ProgressFollows(db, db', {})
    BY <1>1 DEF SourcesFollow, ProgressFollows
<1> QED BY <1>1, <1>2, <1>3, OtherTablesKeep

LEMMA CreateLibraryKeeps ==
    ASSUME CatInv, NEW name \in Names, CreateLibrary(name) PROVE Keeps
<1>1. PICK id : id = FreshId
    OBVIOUS
<1>2. /\ Count /\ MakeId /\ ~NameTaken(name, id) /\ db' = [db EXCEPT !.libs = Add(@, id, name)]
      /\ Write({}) /\ UNCHANGED <<jobs, removed>>
    BY <1>1 DEF CreateLibrary
<1>3. id # None /\ \A l \in DOMAIN db.libs : db.libs[l] = name => l = id
    BY <1>1, <1>2, AnotherId DEF NameTaken, LibsNamed
<1>4. PICK libs : libs = Add(db.libs, id, name)
    OBVIOUS
<1>5. LibsFit(libs) /\ DOMAIN libs = DOMAIN db.libs \cup {id}
    BY <1>3, <1>4, FitsNow, LibraryNamed
<1>6. made' \in 0 .. Len(NewIds) /\ made <= made' /\ ops' \in 0 .. MaxOps
    BY <1>2, OneOperation
<1> QED BY <1>2, <1>4, <1>5, <1>6, LibrariesWritten

LEMMA RenameLibraryKeeps ==
    ASSUME CatInv, NEW lib, NEW name \in Names, RenameLibrary(lib, name) PROVE Keeps
<1>1. /\ lib \in DOMAIN db.libs /\ ~NameTaken(name, lib) /\ Count
      /\ db' = [db EXCEPT !.libs[lib] = name] /\ Write({}) /\ UNCHANGED <<jobs, made, removed>>
    BY DEF RenameLibrary
<1>2. PICK libs : libs = [db.libs EXCEPT ![lib] = name]
    OBVIOUS
<1>3. DOMAIN libs = DOMAIN db.libs
      /\ \A l \in DOMAIN db.libs : libs[l] = IF l = lib THEN name ELSE db.libs[l]
    BY <1>2
<1>4. \A l \in DOMAIN db.libs : db.libs[l] = name => l = lib
    BY <1>1 DEF NameTaken, LibsNamed
<1>5. LibsFit(libs)
    BY <1>3, <1>4, FitsNow DEF LibsFit
<1>6. db' = [db EXCEPT !.libs = libs]
    BY <1>1, <1>2
<1>7. made' \in 0 .. Len(NewIds) /\ made <= made' /\ ops' \in 0 .. MaxOps
    BY <1>1, OneOperation
<1> QED BY <1>1, <1>3, <1>5, <1>6, <1>7, LibrariesWritten

LEMMA DeleteLibraryKeeps ==
    ASSUME CatInv, NEW lib, DeleteLibrary(lib) PROVE Keeps
<1>1. /\ \A i \in DOMAIN db.items : db.items[i].lib # lib
      /\ Count /\ db' = [db EXCEPT !.libs = Drop(@, {lib})]
      /\ Write({}) /\ UNCHANGED <<jobs, made, removed>>
    BY DEF DeleteLibrary
<1>2. PICK libs : libs = Drop(db.libs, {lib})
    OBVIOUS
<1>3. DOMAIN libs = DOMAIN db.libs \ {lib} /\ \A l \in DOMAIN libs : libs[l] = db.libs[l]
    BY <1>2, Zenon DEF Drop
<1>4. LibsFit(libs)
    BY <1>3, FitsNow DEF LibsFit
<1>5. made' \in 0 .. Len(NewIds) /\ made <= made' /\ ops' \in 0 .. MaxOps
    BY <1>1, OneOperation
<1>6. db' = [db EXCEPT !.libs = libs]
    BY <1>1, <1>2
<1>7. Write({}) /\ removed' = removed /\ jobs' \subseteq jobs
    BY <1>1
<1> QED BY <1>1, <1>3, <1>4, <1>5, <1>6, <1>7, LibrariesWritten

LEMMA UsersWritten ==
    ASSUME CatInv, NEW users, NEW progress,
           db' = [[db EXCEPT !.users = users] EXCEPT !.progress = progress],
           Write({}), removed' = removed,
           made' \in 0 .. Len(NewIds), made <= made', ops' \in 0 .. MaxOps, jobs' \subseteq jobs,
           UsersFit(users), progress \subseteq db.progress,
           \A p \in progress : p.user \in DOMAIN db.users => p.user \in DOMAIN users
    PROVE  Keeps
<1>1. /\ IsTables(db') /\ db'.libs = db.libs /\ db'.items = db.items /\ db'.sources = db.sources
      /\ db'.users = users /\ db'.progress = progress
  <2>1. IsTables(db)
      BY FitsNow
  <2> QED BY <2>1 DEF IsTables
<1>2. UsersFit(db'.users) /\ LibsFit(db'.libs)
    BY <1>1, FitsNow
<1>3. SourcesFollow(db, db', {}) /\ ProgressFollows(db, db', {})
    BY <1>1 DEF SourcesFollow, ProgressFollows
<1> QED BY <1>1, <1>2, <1>3, OtherTablesKeep

LEMMA CreateUserKeeps ==
    ASSUME CatInv, NEW name \in Names, CreateUser(name) PROVE Keeps
<1>1. PICK id : id = FreshId
    OBVIOUS
<1>2. /\ Count /\ MakeId /\ UsersNamed(name) = {}
      /\ db' = [db EXCEPT !.users = Add(@, id, NewUser(name, TRUE))]
      /\ Write({}) /\ UNCHANGED <<jobs, removed>>
    BY <1>1 DEF CreateUser
<1>3. PICK users : users = Add(db.users, id, NewUser(name, TRUE))
    OBVIOUS
<1>4. UsersFit(users) /\ DOMAIN users = DOMAIN db.users \cup {id}
  <2>1. PICK row : row = NewUser(name, TRUE)
      OBVIOUS
  <2>2. DOMAIN row = {"name", "hash"} /\ row.name = name /\ row.hash \in BOOLEAN
      BY <2>1, Zenon DEF NewUser
  <2>3. \A v \in DOMAIN db.users : db.users[v].name = row.name => v = id
      BY <1>2, <2>2 DEF UsersNamed
  <2>4. UsersFit(db.users)
      BY FitsNow
  <2>5. row.name \in UserNames
      BY <2>2 DEF UserNames
  <2> QED BY <1>3, <2>1, <2>2, <2>3, <2>4, <2>5, UserNamed
<1>5. made' \in 0 .. Len(NewIds) /\ made <= made' /\ ops' \in 0 .. MaxOps
    BY <1>2, OneOperation
<1>6. db' = [[db EXCEPT !.users = users] EXCEPT !.progress = db.progress]
    BY <1>2, <1>3, FitsNow DEF IsTables
<1> QED BY <1>2, <1>4, <1>5, <1>6, UsersWritten

LEMMA CreateUserCoreKeeps ==
    ASSUME CatInv, NEW j \in jobs, CreateUserCore(j) PROVE Keeps
<1>1. CASE UsersNamed(j.name) # {}
    BY <1>1, FailingKeeps DEF CreateUserCore
<1>2. CASE UsersNamed(j.name) = {}
  <2>1. /\ j.op = "user" /\ Leave(j) /\ Write({}) /\ UNCHANGED <<removed, made, ops>>
        /\ db' = [db EXCEPT !.users = Add(@, j.id, NewUser(j.name, FALSE))]
      BY <1>2 DEF CreateUserCore
  <2>2. PICK users : users = Add(db.users, j.id, NewUser(j.name, FALSE))
      OBVIOUS
  <2>3. UsersFit(users) /\ DOMAIN users = DOMAIN db.users \cup {j.id}
    <3>1. PICK row : row = NewUser(j.name, FALSE)
        OBVIOUS
    <3>2. DOMAIN row = {"name", "hash"} /\ row.name = j.name /\ row.hash \in BOOLEAN
        BY <3>1, Zenon DEF NewUser
    <3>3. \A v \in DOMAIN db.users : db.users[v].name = row.name => v = j.id
        BY <1>2, <3>2 DEF UsersNamed
    <3>4. UsersFit(db.users)
        BY FitsNow
    <3>5. row.name \in UserNames
        BY <2>1, <3>2 DEF CatInv, JobsInv, JobFits
    <3> QED BY <2>2, <3>1, <3>2, <3>3, <3>4, <3>5, UserNamed
  <2>4. made' \in 0 .. Len(NewIds) /\ made <= made' /\ ops' \in 0 .. MaxOps
      BY <2>1, CountersFit DEF CatInv, Counters
  <2>5. db' = [[db EXCEPT !.users = users] EXCEPT !.progress = db.progress]
      BY <2>1, <2>2, FitsNow DEF IsTables
  <2>6. jobs' \subseteq jobs
      BY <2>1 DEF Leave
  <2> QED BY <2>1, <2>3, <2>4, <2>5, <2>6, UsersWritten
<1> QED BY <1>1, <1>2

LEMMA SetPasswordKeeps ==
    ASSUME CatInv, NEW u, NEW hash \in BOOLEAN, SetPassword(u, hash) PROVE Keeps
<1>1. /\ u \in DOMAIN db.users /\ Count /\ db' = [db EXCEPT !.users[u].hash = hash]
      /\ Write({}) /\ UNCHANGED <<jobs, made, removed>>
    BY DEF SetPassword
<1>2. PICK users : users = [db.users EXCEPT ![u].hash = hash]
    OBVIOUS
<1>3. /\ DOMAIN users = DOMAIN db.users
      /\ \A v \in DOMAIN users :
            users[v] = IF v = u THEN [db.users[v] EXCEPT !.hash = hash] ELSE db.users[v]
    BY <1>2
<1>4. UsersFit(users)
  <2>1. UsersFit(db.users)
      BY FitsNow
  <2>2. ASSUME NEW v \in DOMAIN users
        PROVE  /\ DOMAIN users[v] = {"name", "hash"} /\ users[v].name = db.users[v].name
               /\ users[v].hash \in BOOLEAN
    <3>1. DOMAIN db.users[v] = {"name", "hash"} /\ db.users[v].hash \in BOOLEAN
        BY <1>3, <2>1 DEF UsersFit
    <3>2. CASE v = u
      <4>1. users[v] = [db.users[v] EXCEPT !.hash = hash]
          BY <1>3, <3>2
      <4> QED BY <3>1, <4>1, Zenon
    <3>3. CASE v # u
        BY <1>3, <3>1, <3>3
    <3> QED BY <3>2, <3>3
  <2> QED BY <1>3, <2>1, <2>2 DEF UsersFit
<1>5. made' \in 0 .. Len(NewIds) /\ made <= made' /\ ops' \in 0 .. MaxOps
    BY <1>1, OneOperation
<1>6. db' = [[db EXCEPT !.users = users] EXCEPT !.progress = db.progress]
    BY <1>1, <1>2, FitsNow DEF IsTables
<1> QED BY <1>1, <1>3, <1>4, <1>5, <1>6, UsersWritten

LEMMA DeleteUserKeeps ==
    ASSUME CatInv, NEW u, DeleteUser(u) PROVE Keeps
<1>1. /\ Count
      /\ db' = [db EXCEPT !.users = Drop(@, {u}), !.progress = {p \in @ : p.user # u}]
      /\ Write({}) /\ UNCHANGED <<jobs, made, removed>>
    BY DEF DeleteUser
<1>2. PICK users : users = Drop(db.users, {u})
    OBVIOUS
<1>3. PICK progress : progress = {p \in db.progress : p.user # u}
    OBVIOUS
<1>4. DOMAIN users = DOMAIN db.users \ {u} /\ \A v \in DOMAIN users : users[v] = db.users[v]
    BY <1>2, Zenon DEF Drop
<1>5. UsersFit(users)
    BY <1>4, FitsNow, Zenon DEF UsersFit
<1>6. made' \in 0 .. Len(NewIds) /\ made <= made' /\ ops' \in 0 .. MaxOps
    BY <1>1, OneOperation
<1>7. db' = [[db EXCEPT !.users = users] EXCEPT !.progress = progress]
    BY <1>1, <1>2, <1>3, FitsNow DEF IsTables
<1>8. \A p \in progress : p \in db.progress /\ p.user # u
    BY <1>3
<1> QED BY <1>1, <1>4, <1>5, <1>6, <1>7, <1>8, UsersWritten

LEMMA SourcesWritten ==
    ASSUME CatInv, NEW sources, NEW refs, db' = [db EXCEPT !.sources = sources],
           Write(refs), UNCHANGED <<made, removed>>, ops' \in 0 .. MaxOps, jobs' \subseteq jobs,
           \A s \in DOMAIN sources :
               \/ <<"source", s, sources[s]>> \in refs
               \/ s \in DOMAIN db.sources /\ sources[s] = db.sources[s]
    PROVE  Keeps
<1>1. /\ IsTables(db') /\ db'.libs = db.libs /\ db'.items = db.items /\ db'.sources = sources
      /\ db'.users = db.users /\ db'.progress = db.progress
  <2>1. IsTables(db)
      BY FitsNow
  <2> QED BY <2>1, Replaced
<1>2. UsersFit(db'.users) /\ LibsFit(db'.libs)
    BY <1>1, FitsNow
<1>3. SourcesFollow(db, db', refs) /\ ProgressFollows(db, db', refs)
    BY <1>1 DEF SourcesFollow, ProgressFollows
<1>4. made' \in 0 .. Len(NewIds) /\ made <= made'
    BY CountersFit DEF CatInv, Counters
<1> QED BY <1>1, <1>2, <1>3, <1>4, OtherTablesKeep

LEMMA AddSourceKeeps ==
    ASSUME CatInv, NEW j \in jobs, AddSource(j) PROVE Keeps
<1>1. /\ db' = [db EXCEPT !.sources = Add(@, j.id, j.item)] /\ Leave(j)
      /\ Write({<<"source", j.id, j.item>>}) /\ UNCHANGED <<made, removed, ops>>
    BY DEF AddSource
<1>2. PICK sources : sources = Add(db.sources, j.id, j.item)
    OBVIOUS
<1>3. \A s \in DOMAIN sources :
        \/ s = j.id /\ sources[s] = j.item
        \/ s \in DOMAIN db.sources /\ sources[s] = db.sources[s]
    BY <1>2, Zenon DEF Add
<1>4. ops' \in 0 .. MaxOps
    BY <1>1 DEF CatInv, Counters
<1>5. db' = [db EXCEPT !.sources = sources]
    BY <1>1, <1>2
<1>6. jobs' \subseteq jobs
    BY <1>1 DEF Leave
<1> QED BY <1>1, <1>3, <1>4, <1>5, <1>6, SourcesWritten

LEMMA DeleteSourceKeeps ==
    ASSUME CatInv, NEW s, DeleteSource(s) PROVE Keeps
<1>1. /\ Count /\ db' = [db EXCEPT !.sources = Drop(@, {s})]
      /\ Write({}) /\ UNCHANGED <<jobs, made, removed>>
    BY DEF DeleteSource
<1>2. PICK sources : sources = Drop(db.sources, {s})
    OBVIOUS
<1>3. \A q \in DOMAIN sources : q \in DOMAIN db.sources /\ sources[q] = db.sources[q]
    BY <1>2, Zenon DEF Drop
<1>4. ops' \in 0 .. MaxOps
    BY <1>1, OneOperation
<1>5. db' = [db EXCEPT !.sources = sources]
    BY <1>1, <1>2
<1>6. UNCHANGED <<made, removed>> /\ jobs' \subseteq jobs
    BY <1>1
<1> QED BY <1>1, <1>3, <1>4, <1>5, <1>6, SourcesWritten

\* What Report and Mark have in common.
LEMMA PutKeeps ==
    ASSUME CatInv, NEW p, Put(p), UNCHANGED <<made, removed>>, ops' \in 0 .. MaxOps,
           jobs' \subseteq jobs
    PROVE  Keeps
<1>1. db' = [db EXCEPT !.progress = @ \cup {p}] /\ Write(RefsOfProgress(p))
    BY DEF Put
<1>2. /\ IsTables(db') /\ db'.libs = db.libs /\ db'.items = db.items
      /\ db'.sources = db.sources /\ db'.users = db.users
      /\ db'.progress = db.progress \cup {p}
  <2>1. IsTables(db)
      BY FitsNow
  <2> QED BY <1>1, <2>1, Replaced
<1>3. UsersFit(db'.users) /\ LibsFit(db'.libs)
    BY <1>2, FitsNow
<1>4. SourcesFollow(db, db', RefsOfProgress(p)) /\ ProgressFollows(db, db', RefsOfProgress(p))
    BY <1>2 DEF SourcesFollow, ProgressFollows
<1>5. made' \in 0 .. Len(NewIds) /\ made <= made'
    BY CountersFit DEF CatInv, Counters
<1> QED BY <1>1, <1>2, <1>3, <1>4, <1>5, OtherTablesKeep

LEMMA ReportKeeps ==
    ASSUME CatInv, NEW j \in jobs, Report(j) PROVE Keeps
<1>1. Put([user |-> j.user, item |-> j.item]) /\ Leave(j) /\ UNCHANGED <<made, removed, ops>>
    BY DEF Report
<1>2. ops' \in 0 .. MaxOps /\ jobs' \subseteq jobs
    BY <1>1 DEF CatInv, Counters, Leave
<1> QED BY <1>1, <1>2, PutKeeps

LEMMA MarkKeeps ==
    ASSUME CatInv, NEW u, NEW i, Mark(u, i) PROVE Keeps
<1>1. Put([user |-> u, item |-> i]) /\ Count /\ UNCHANGED <<jobs, made, removed>>
    BY DEF Mark
<1>2. ops' \in 0 .. MaxOps /\ jobs' \subseteq jobs
    BY <1>1, OneOperation
<1> QED BY <1>1, <1>2, PutKeeps

-----------------------------------------------------------------------------
(***************************************************************************)
(* Export and restore                                                      *)
(***************************************************************************)
LEMMA IdleKeeps ==
    ASSUME CatInv, Idle, ExportInv' PROVE Keeps
BY DEF CatInv, Idle, Keeps, Counters, GenresListed, IdsUnused, JobsInv, JobSetFits, JobFits,
       JobIdsDiffer, ParentsKept

LEMMA ExportBeginKeeps ==
    ASSUME CatInv, ExportBegin PROVE Keeps
<1>1. /\ export' = [read |-> 0, at |-> Empty, got |-> Empty, late |-> {}]
      /\ file' = Broken /\ target' = target /\ file = None /\ Idle
    BY DEF ExportBegin
<1>2. IsTables(Empty)
    BY DEF Empty, IsTables
<1>3. target = Empty
    BY <1>1 DEF CatInv, ExportInv, IsSnapshot
<1>4. ExportInv'
  <2> HIDE DEF Empty
  <2> QED BY <1>1, <1>2, <1>3 DEF ExportInv, IsSnapshot
<1> QED BY <1>1, <1>4, IdleKeeps

\* A table more of the same instant.
LEMMA OneTableMore ==
    ASSUME NEW got, NEW at, NEW k \in 0 .. 4, NEW more, IsTables(got),
           \A n \in 1 .. k : got[Tables[n]] = at[Tables[n]],
           more = [got EXCEPT ![Tables[k + 1]] = at[Tables[k + 1]]]
    PROVE  IsTables(more) /\ \A n \in 1 .. k + 1 : more[Tables[n]] = at[Tables[n]]
<1>1. DOMAIN got = {"libs", "items", "sources", "users", "progress"}
    BY DEF IsTables
<1>2. \A n \in 1 .. 5 : Tables[n] \in DOMAIN got
    BY <1>1 DEF Tables
<1>3. k + 1 \in 1 .. 5
    OBVIOUS
<1>4. DOMAIN more = DOMAIN got
    OBVIOUS
<1>5. IsTables(more)
  <2>1. Tables[k + 1] \in {"libs", "items", "sources", "users", "progress"}
      BY <1>1, <1>2, <1>3
  <2>2. PICK t : t = Tables[k + 1]
      OBVIOUS
  <2>3. PICK x : x = at[Tables[k + 1]]
      OBVIOUS
  <2>4. more = [got EXCEPT ![t] = x]
      BY <2>2, <2>3
  <2>5. CASE t = "libs"
    <3>1. more = [got EXCEPT !.libs = x]
        BY <2>4, <2>5
    <3> QED BY <3>1 DEF IsTables
  <2>6. CASE t = "items"
    <3>1. more = [got EXCEPT !.items = x]
        BY <2>4, <2>6
    <3> QED BY <3>1 DEF IsTables
  <2>7. CASE t = "sources"
    <3>1. more = [got EXCEPT !.sources = x]
        BY <2>4, <2>7
    <3> QED BY <3>1 DEF IsTables
  <2>8. CASE t = "users"
    <3>1. more = [got EXCEPT !.users = x]
        BY <2>4, <2>8
    <3> QED BY <3>1 DEF IsTables
  <2>9. CASE t = "progress"
    <3>1. more = [got EXCEPT !.progress = x]
        BY <2>4, <2>9
    <3> QED BY <3>1 DEF IsTables
  <2> QED BY <2>1, <2>2, <2>5, <2>6, <2>7, <2>8, <2>9
<1>6. ASSUME NEW n \in 1 .. k + 1 PROVE more[Tables[n]] = at[Tables[n]]
  <2>1. Tables[n] \in DOMAIN got
      BY <1>2
  <2>2. CASE Tables[n] = Tables[k + 1]
      BY <2>1, <2>2
  <2>3. CASE Tables[n] # Tables[k + 1]
    <3>1. n \in 1 .. k
        BY <2>3
    <3> QED BY <2>1, <2>3, <3>1
  <2> QED BY <2>2, <2>3
<1> QED BY <1>5, <1>6

LEMMA ReadTableKeeps ==
    ASSUME CatInv, ReadTable PROVE Keeps
<1>1. /\ export # None /\ export.read < Len(Tables) /\ Idle /\ UNCHANGED <<file, target>>
      /\ export' = [export EXCEPT
                       !.read = @ + 1,
                       !.at = IF export.read = 0 THEN db ELSE export.at,
                       !.got[Tables[export.read + 1]] =
                           (IF export.read = 0 THEN db ELSE export.at)[Tables[export.read + 1]],
                       !.late = IF export.read = 0 THEN late ELSE @]
    BY DEF ReadTable
<1>2. PICK k \in 0 .. 4 : k = export.read
  <2>1. export.read \in 0 .. 5 /\ Len(Tables) = 5
      BY <1>1 DEF CatInv, ExportInv, Tables
  <2> QED BY <1>1, <2>1
<1>3. PICK at : at = IF k = 0 THEN db ELSE export.at
    OBVIOUS
<1>4. PICK lates : lates = IF k = 0 THEN late ELSE export.late
    OBVIOUS
<1>5. PICK got : got = [export.got EXCEPT ![Tables[k + 1]] = at[Tables[k + 1]]]
    OBVIOUS
<1>6. export' = [read |-> k + 1, at |-> at, got |-> got, late |-> lates]
  <2>1. export = [read |-> export.read, at |-> export.at, got |-> export.got,
                  late |-> export.late]
      BY <1>1 DEF CatInv, ExportInv
  <2> QED BY <1>1, <1>2, <1>3, <1>4, <1>5, <2>1
<1>7. IsTables(got) /\ \A n \in 1 .. k + 1 : got[Tables[n]] = at[Tables[n]]
  <2> PICK before : before = export.got
      OBVIOUS
  <2>1. IsTables(before)
      BY <1>1 DEF CatInv, ExportInv
  <2>2. ASSUME NEW n \in 1 .. k PROVE before[Tables[n]] = at[Tables[n]]
    <3>1. k # 0 /\ export.read > 0
        BY <1>2
    <3> QED BY <1>1, <1>2, <1>3, <3>1 DEF CatInv, ExportInv
  <2>3. got = [before EXCEPT ![Tables[k + 1]] = at[Tables[k + 1]]]
      BY <1>5
  <2> QED BY <2>1, <2>2, <2>3, OneTableMore
<1>8. Sound(at, lates)
  <2>1. CASE k = 0
      BY <1>3, <1>4, <2>1 DEF CatInv
  <2>2. CASE k # 0
    <3>1. export.read > 0
        BY <1>2, <2>2
    <3> QED BY <1>1, <1>3, <1>4, <2>2, <3>1 DEF CatInv, ExportInv
  <2> QED BY <2>1, <2>2
<1>9. file = Broken /\ ~IsSnapshot /\ target = Empty
    BY <1>1 DEF CatInv, ExportInv, IsSnapshot
<1>10. ExportInv'
  <2>1. export'.read = k + 1 /\ export'.at = at /\ export'.got = got /\ export'.late = lates
      BY <1>6
  <2>2. export' = [read |-> export'.read, at |-> export'.at, got |-> export'.got,
                   late |-> export'.late]
      BY <1>6, <2>1
  <2>3. export'.read \in 0 .. 5 /\ IsTables(export'.got) /\ Sound(export'.at, export'.late)
      BY <1>7, <1>8, <2>1
  <2>4. \A n \in 1 .. export'.read : export'.got[Tables[n]] = export'.at[Tables[n]]
      BY <1>7, <2>1
  <2>5. file' = Broken /\ ~IsSnapshot' /\ target' = Empty
      BY <1>1, <1>9 DEF IsSnapshot
  <2>6. (target # Empty => IsSnapshot /\ target = file.data)'
      BY <2>5
  <2>7. (IsSnapshot => file.whole = TRUE /\ Sound(file.data, file.late))'
      BY <2>5
  <2> QED BY <2>2, <2>3, <2>4, <2>5, <2>6, <2>7 DEF ExportInv
<1> QED BY <1>1, <1>10, IdleKeeps

LEMMA ExportEndKeeps ==
    ASSUME CatInv, ExportEnd PROVE Keeps
<1>1. /\ export # None /\ export.read = 5 /\ export' = None /\ Idle /\ target' = target
      /\ file' = [data |-> export.got, late |-> export.late, whole |-> export.got = export.at]
    BY DEF ExportEnd, Tables
<1>2. /\ Sound(export.at, export.late) /\ IsTables(export.got)
      /\ \A n \in 1 .. 5 : export.got[Tables[n]] = export.at[Tables[n]]
    BY <1>1 DEF CatInv, ExportInv
<1>3. export.got = export.at
  <2>1. IsTables(export.at)
      BY <1>2 DEF Sound, WellFormed
  <2>2. /\ export.got.libs = export.at.libs /\ export.got.items = export.at.items
        /\ export.got.sources = export.at.sources /\ export.got.users = export.at.users
        /\ export.got.progress = export.at.progress
      BY <1>2 DEF Tables
  <2> QED BY <1>2, <2>1, <2>2 DEF IsTables
<1>4. file'.whole = TRUE
    BY <1>1, <1>3, Zenon
<1>5. file'.data = export.at /\ file'.late = export.late
    BY <1>1, <1>3, Zenon
<1>6. target = Empty
    BY <1>1 DEF CatInv, ExportInv, IsSnapshot
<1>7. Sound(file'.data, file'.late)
    BY <1>2, <1>5
<1>8. ExportInv'
    BY <1>1, <1>4, <1>6, <1>7, Zenon DEF ExportInv, IsSnapshot
<1> QED BY <1>1, <1>8, IdleKeeps

LEMMA ExportFailsKeeps ==
    ASSUME CatInv, ExportFails PROVE Keeps
<1>1. export' = None /\ Idle /\ UNCHANGED <<file, target>>
    BY DEF ExportFails
<1>2. ExportInv'
    BY <1>1 DEF CatInv, ExportInv, IsSnapshot
<1> QED BY <1>1, <1>2, IdleKeeps

LEMMA RestoreKeeps ==
    ASSUME CatInv, Restore PROVE Keeps
<1>1. IsSnapshot /\ target' = file.data /\ Idle /\ UNCHANGED <<export, file>>
    BY DEF Restore
<1>2. ExportInv'
    BY <1>1 DEF CatInv, ExportInv, IsSnapshot
<1> QED BY <1>1, <1>2, IdleKeeps

-----------------------------------------------------------------------------
LEMMA NextKeeps ==
    ASSUME CatInv, Next PROVE Keeps
<1>1. CASE Administrator
  <2>1. CASE \E lib \in DOMAIN db.libs, parent \in Parents, shape \in Shapes :
                 CreateItemLook(lib, parent, shape)
      BY <2>1, CreateItemLookKeeps
  <2>2. CASE \E j \in jobs : EnsureLook(j) \/ EnsureMake(j) \/ CreateItem(j)
      BY <2>2, EnsureLookKeeps, EnsureMakeKeeps, CreateItemKeeps
  <2>3. CASE \E i \in DOMAIN db.items, hidden \in BOOLEAN :
                 \E rating \in Ratings \cup {db.items[i].rating} : UpdateItem(i, hidden, rating)
      BY <2>3, UpdateItemKeeps
  <2>4. CASE \E i \in DOMAIN db.items : DeleteItem(i) \/ AddSourceLook(i)
      BY <2>4, DeleteItemKeeps, AddSourceLookKeeps
  <2>5. CASE \E j \in jobs : AddSource(j)
      BY <2>5, AddSourceKeeps
  <2>6. CASE \E s \in DOMAIN db.sources : DeleteSource(s)
      BY <2>6, DeleteSourceKeeps
  <2>7. CASE \E name \in Names, id \in ImportIds, parent \in Parents, shape \in Shapes :
                 ImportItem(name, id, parent, shape)
      BY <2>7, ImportItemKeeps
  <2>8. CASE \E name \in Names : CreateLibrary(name)
      BY <2>8, CreateLibraryKeeps
  <2>9. CASE \E lib \in DOMAIN db.libs, name \in Names : RenameLibrary(lib, name)
      BY <2>9, RenameLibraryKeeps
  <2>10. CASE \E lib \in DOMAIN db.libs : DeleteLibrary(lib)
      BY <2>10, DeleteLibraryKeeps
  <2> QED BY <1>1, <2>1, <2>2, <2>3, <2>4, <2>5, <2>6, <2>7, <2>8, <2>9, <2>10 DEF Administrator
<1>2. CASE Accounts
  <2>1. CASE \E name \in Names : CreateUser(name)
      BY <2>1, CreateUserKeeps
  <2>2. CASE \E name \in UserNames : CreateUserCoreLook(name)
      BY <2>2, CreateUserCoreLookKeeps
  <2>3. CASE \E j \in jobs : CreateUserCore(j)
      BY <2>3, CreateUserCoreKeeps
  <2>4. CASE \E u \in DOMAIN db.users, hash \in BOOLEAN : SetPassword(u, hash)
      BY <2>4, SetPasswordKeeps
  <2>5. CASE \E u \in DOMAIN db.users : DeleteUser(u)
      BY <2>5, DeleteUserKeeps
  <2> QED BY <1>2, <2>1, <2>2, <2>3, <2>4, <2>5 DEF Accounts
<1>3. CASE Players
  <2>1. CASE \E u \in DOMAIN db.users, i \in DOMAIN db.items : ReportLook(u, i)
      BY <2>1, ReportLookKeeps
  <2>2. CASE \E j \in jobs : Report(j)
      BY <2>2, ReportKeeps
  <2>3. CASE \E u \in DOMAIN db.users, i \in DOMAIN db.items \cup ImportIds : Mark(u, i)
      BY <2>3, MarkKeeps
  <2> QED BY <1>3, <2>1, <2>2, <2>3 DEF Players
<1>4. CASE Transfer
    BY <1>4, ExportBeginKeeps, ReadTableKeeps, ExportEndKeeps, ExportFailsKeeps, RestoreKeeps
    DEF Transfer
<1>5. CASE \E j \in jobs : JobFails(j)
    BY <1>5, FailingKeeps DEF JobFails
<1> QED BY <1>1, <1>2, <1>3, <1>4, <1>5 DEF Next

\* The invariant that the theorems rest on.
LEMMA CatInvHolds == Spec => []CatInv
<1>1. CatInv /\ [Next]_vars => CatInv'
  <2> SUFFICES ASSUME CatInv, [Next]_vars PROVE CatInv'
      OBVIOUS
  <2>1. CASE Next
      BY <2>1, NextKeeps DEF Keeps
  <2>2. CASE UNCHANGED vars
    <3>1. Idle /\ UNCHANGED <<export, file, target>>
        BY <2>2 DEF vars, Idle
    <3>2. ExportInv'
        BY <3>1, TransfersSame DEF CatInv, transfers
    <3> QED BY <3>1, <3>2, IdleKeeps DEF Keeps
  <2> QED BY <2>1, <2>2
<1> QED BY <1>1, InitHolds, PTL DEF Spec

(***************************************************************************)
(* The theorems                                                            *)
(***************************************************************************)

\* Tables, handlers and the history keep their types.
THEOREM TypeCorrect == Spec => []TypeOK
<1>1. CatInv => TypeOK
  <2> SUFFICES ASSUME CatInv PROVE TypeOK
      OBVIOUS
  <2>1. DOMAIN db = {"libs", "items", "sources", "users", "progress"}
      BY FitsNow DEF IsTables
  <2>2. /\ \A l \in DOMAIN db.libs : db.libs[l] \in Names
        /\ \A i \in DOMAIN db.items : db.items[i].genres \subseteq Genres
      BY FitsNow DEF LibsFit, ItemsFit
  <2>3. \A u \in DOMAIN db.users : db.users[u].name \in UserNames /\ db.users[u].hash \in BOOLEAN
      BY FitsNow, Zenon DEF UsersFit
  <2>4. Cardinality(jobs) <= MaxJobs
      BY DEF CatInv, JobsInv, JobSetFits
  <2>5. /\ made \in 0 .. Len(NewIds) /\ ops \in 0 .. MaxOps
        /\ late \subseteq Refs(db) /\ removed \subseteq Genres
      BY DEF CatInv, Counters
  <2> QED BY <2>1, <2>2, <2>3, <2>4, <2>5 DEF TypeOK
<1> QED BY <1>1, CatInvHolds, PTL

\* Whatever is deleted takes along what refers to it, names of libraries are
\* unique and genres have their rows, although handlers look on one handle
\* and write on the other and no foreign key protects the tables.
THEOREM Consistent == Spec => []CatalogueConsistent
<1>1. CatInv => CatalogueConsistent
  <2> SUFFICES ASSUME CatInv PROVE CatalogueConsistent
      OBVIOUS
  <2>1. NoLooseEnds
      BY DEF CatInv, Sound, NoLooseEnds
  <2>2. LibraryNamesUnique
      BY FitsNow DEF LibraryNamesUnique, LibsFit
  <2>3. GenresListed
      BY DEF CatInv
  <2> QED BY <2>1, <2>2, <2>3 DEF CatalogueConsistent
<1> QED BY <1>1, CatInvHolds, PTL

\* Sound tables pass the validation, unless a user is without a password or
\* without a name, or a late reference is in the way.
LEMMA SoundIsValid ==
    ASSUME NEW d, NEW lates, Sound(d, lates),
           \A u \in DOMAIN d.users : d.users[u].name # "" /\ d.users[u].hash,
           ~LateLinks(d, lates)
    PROVE  Validate(d)
<1>1. WellFormed(d) /\ Dangling(d) \subseteq lates
    BY DEF Sound
<1>2. Dangling(d) = {} /\ \A ref \in lates : ref[1] = "parent" => HasPath(d.items, ref[2])
    BY <1>1 DEF LateLinks
<1>3. \A i \in DOMAIN d.items : HasPath(d.items, i)
  <2>1. PICK rank \in [DOMAIN d.items -> Nat] : IsRank(rank, d, lates)
      BY DEF Sound, Ranked
  <2>2. \A i \in DOMAIN d.items :
            <<"parent", i, d.items[i].parent>> \in lates => HasPath(d.items, i)
      BY <1>2
  <2>3. IsFiniteSet(DOMAIN d.items) /\ None \notin DOMAIN d.items
      BY <1>1 DEF WellFormed, ItemsFit
  <2> QED BY <1>2, <2>1, <2>2, <2>3, RanksGiveWays
<1>4. \A ref \in Refs(d) : Hits(d, ref)
    BY <1>2 DEF Dangling
<1>5. \A u, v \in DOMAIN d.users : d.users[u].name = d.users[v].name => u = v
    BY <1>1, Zenon DEF WellFormed, UsersFit
<1>6. ASSUME NEW i \in DOMAIN d.items, ~IsVirtual(d.items[i])
      PROVE  d.items[i].lib \in DOMAIN d.libs
  <2>1. <<"library", i, d.items[i].lib>> \in RefsOfItem(i, d.items[i])
      BY <1>6 DEF RefsOfItem
  <2>2. Hits(d, <<"library", i, d.items[i].lib>>)
      BY <1>4, <2>1, RefsAre
  <2> QED BY <2>2 DEF Hits
<1>7. ASSUME NEW s \in DOMAIN d.sources PROVE d.sources[s] \in DOMAIN d.items
  <2>1. Hits(d, <<"source", s, d.sources[s]>>)
      BY <1>4, RefsAre
  <2> QED BY <2>1 DEF Hits
<1>8. ASSUME NEW p \in d.progress
      PROVE  p.item \in DOMAIN d.items /\ p.user \in DOMAIN d.users
  <2>1. <<"user", p, p.user>> \in RefsOfProgress(p) /\ <<"item", p, p.item>> \in RefsOfProgress(p)
      BY DEF RefsOfProgress
  <2>2. Hits(d, <<"user", p, p.user>>) /\ Hits(d, <<"item", p, p.item>>)
      BY <1>4, <2>1, RefsAre
  <2> QED BY <2>2 DEF Hits
<1> QED BY <1>3, <1>5, <1>6, <1>7, <1>8, Zenon DEF Validate

\* A snapshot is what the database was at one instant, however long the
\* reading takes; it is restored as a whole; and unless it is too large it is
\* refused only for a user without a password or without a name, or for
\* references that came late.
THEOREM Snapshots == Spec => []SnapshotSound
<1>1. CatInv => SnapshotSound
  <2> SUFFICES ASSUME CatInv PROVE SnapshotSound
      OBVIOUS
  <2>1. RestoredIsOneInstant
      BY Zenon DEF CatInv, ExportInv, RestoredIsOneInstant
  <2>2. RefusedForAReason
    <3> SUFFICES ASSUME IsSnapshot, ~LateLinks(file.data, file.late),
                        \A u \in DOMAIN file.data.users :
                            file.data.users[u].name # "" /\ file.data.users[u].hash
                 PROVE  Validate(file.data)
        BY Zenon DEF RefusedForAReason
    <3>1. Sound(file.data, file.late)
        BY DEF CatInv, ExportInv
    <3> QED BY <3>1, SoundIsValid
  <2> QED BY <2>1, <2>2 DEF SnapshotSound
<1> QED BY <1>1, CatInvHolds, PTL

\* The SQL, the check of one row and the walk to the ancestors agree, for
\* every policy and whatever the tables have become; only ratings between
\* white space that is no space make the SQL stricter.
THEOREM ScopesAgree == Spec => []ScopeAgrees
<1>1. CatInv => ScopeAgrees
  <2> SUFFICES ASSUME CatInv, NEW p \in Normalized
               PROVE  LET walked == VisibleIDs(p, db.items, DOMAIN db.libs)
                          seen   == Scope(p, db.items, DOMAIN db.libs)
                      IN  /\ walked \subseteq seen \cup Below(db.items, Tabbed(db.items))
                          /\ seen \cap Rooted(db.items) \subseteq walked
      BY DEF ScopeAgrees
  <2>1. /\ IsFiniteSet(DOMAIN db.items) /\ None \notin DOMAIN db.libs
        /\ None \notin DOMAIN db.items
      BY FitsNow DEF LibsFit, ItemsFit
  <2> QED BY <2>1, SameForTables
<1> QED BY <1>1, CatInvHolds, PTL

\* Deleting reveals nothing: of the rows that stay nobody sees one that was
\* kept from him before.
THEOREM DeletingRevealsNothing == Spec => NothingRevealed
<1> DEFINE Kept == db' # db /\ OnlyRemoves(db, db')
                       => \A p \in Normalized : Revealed(p, db, db') = {}
<1>1. CatInv /\ [Next]_vars => [Kept]_vars
  <2> SUFFICES ASSUME CatInv, Next, OnlyRemoves(db, db'), NEW p \in Normalized
               PROVE  Revealed(p, db, db') = {}
      OBVIOUS
  <2>1. CatInv' /\ ParentsKept
      BY NextKeeps DEF Keeps
  <2>2. IsFiniteSet(DOMAIN db.items)
      BY FitsNow DEF ItemsFit
  <2>3. IsFiniteSet(DOMAIN db'.items)
      BY <2>1 DEF CatInv, Sound, WellFormed, ItemsFit
  <2>4. Scope(p, db'.items, DOMAIN db'.libs) \cap DOMAIN db.items
            \subseteq Scope(p, db.items, DOMAIN db.libs)
      BY <2>1, <2>2, <2>3, RemovingRevealsNothing DEF OnlyRemoves, ParentsKept
  <2> QED BY <2>4 DEF Revealed
<1> QED BY <1>1, CatInvHolds, PTL DEF Spec, NothingRevealed
=============================================================================
