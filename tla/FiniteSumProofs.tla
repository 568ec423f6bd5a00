--------------------------- MODULE FiniteSumProofs ---------------------------
(***************************************************************************)
(* Sums over finite sets: what the proofs about counters need of them.     *)
(***************************************************************************)
EXTENDS FiniteSums, FiniteSetTheorems, TLAPS

LEMMA UnitsFacts ==
  ASSUME NEW f, NEW S
  PROVE  \A u : u \in Units(f, S) <=> \E k \in S : \E i \in 1 .. f[k] : u = <<k, i>>
  BY DEF Units

LEMMA BijectionFacts ==
  ASSUME NEW S, NEW T, NEW b \in [S -> T],
         \A x, y \in S : b[x] = b[y] => x = y,
         \A t \in T : \E x \in S : b[x] = t
  PROVE  ExistsBijection(S, T)
  BY DEF ExistsBijection, Bijection, Injection, Surjection, IsInjective

LEMMA SumType ==
  ASSUME NEW S, IsFiniteSet(S), NEW f, \A k \in S : f[k] \in Nat
  PROVE  IsFiniteSet(Units(f, S)) /\ SumOver(f, S) \in Nat
  <1>. DEFINE T == {{k} \X (1 .. f[k]) : k \in S}
              b == [k \in S |-> {k} \X (1 .. f[k])]
  <1>1. b \in Surjection(S, T)
    BY Zenon DEF Surjection
  <1>2. IsFiniteSet(T)
    BY <1>1, FS_Surjection
  <1>3. ASSUME NEW k \in S PROVE IsFiniteSet({k} \X (1 .. f[k]))
    <2>1. 1 \in Int /\ f[k] \in Int
      OBVIOUS
    <2>2. IsFiniteSet(1 .. f[k])
      BY <2>1, FS_Interval, Zenon
    <2>3. IsFiniteSet({k})
      BY FS_Singleton, Zenon
    <2>. QED
      BY <2>2, <2>3, FS_Product, Zenon
  <1>4. IsFiniteSet(UNION T)
    <2>1. \A t \in T : IsFiniteSet(t)
      BY <1>3
    <2>. QED
      BY <1>2, <2>1, FS_UNION, Zenon
  <1>. QED
    BY <1>4, FS_CardinalityType DEF Units, SumOver

LEMMA SumEqual ==
  ASSUME NEW S, NEW f, NEW g, \A k \in S : f[k] = g[k]
  PROVE  SumOver(f, S) = SumOver(g, S)
  <1>1. Units(f, S) = Units(g, S)
    BY Zenon DEF Units
  <1>. QED
    BY <1>1 DEF SumOver

LEMMA SumZero ==
  ASSUME NEW S, NEW f, \A k \in S : f[k] = 0
  PROVE  SumOver(f, S) = 0
  <1>1. Units(f, S) = {}
    BY DEF Units
  <1>. QED
    BY <1>1, FS_EmptySet DEF SumOver

LEMMA SumAdds ==
  ASSUME NEW S, IsFiniteSet(S), NEW f, NEW g, NEW h,
         \A k \in S : f[k] \in Nat /\ g[k] \in Nat /\ h[k] = f[k] + g[k]
  PROVE  SumOver(h, S) = SumOver(f, S) + SumOver(g, S)
  <1>. DEFINE F == Units(f, S)
              G == Units(g, S)
              H == Units(h, S)
              b == [u \in G |-> <<u[1], f[u[1]] + u[2]>>]
  <1>1. IsFiniteSet(F) /\ IsFiniteSet(G) /\ IsFiniteSet(H)
    BY SumType
  <1>2. /\ \A u : u \in F <=> \E k \in S : \E i \in 1 .. f[k] : u = <<k, i>>
        /\ \A u : u \in G <=> \E k \in S : \E i \in 1 .. g[k] : u = <<k, i>>
        /\ \A u : u \in H <=> \E k \in S : \E i \in 1 .. h[k] : u = <<k, i>>
    BY UnitsFacts
  <1>. HIDE DEF F, G, H
  <1>3. ASSUME NEW u \in G
        PROVE  u[1] \in S /\ u[2] \in 1 .. g[u[1]] /\ u = <<u[1], u[2]>>
    BY <1>2
  <1>4. b \in [G -> H \ F]
    <2>. SUFFICES ASSUME NEW u \in G PROVE <<u[1], f[u[1]] + u[2]>> \in H \ F
      OBVIOUS
    <2>1. u[1] \in S /\ u[2] \in 1 .. g[u[1]]
      BY <1>3
    <2>2. f[u[1]] + u[2] \in 1 .. h[u[1]] /\ f[u[1]] + u[2] \notin 1 .. f[u[1]]
      BY <2>1
    <2>. QED
      BY <1>2, <2>1, <2>2
  <1>5. ASSUME NEW u \in G, NEW v \in G, b[u] = b[v] PROVE u = v
    <2>1. u[1] = v[1] /\ f[u[1]] + u[2] = f[v[1]] + v[2]
      BY <1>5
    <2>2. u[1] \in S /\ u[2] \in 1 .. g[u[1]] /\ v[2] \in 1 .. g[v[1]]
      BY <1>3
    <2>3. u[2] = v[2]
      BY <2>1, <2>2
    <2>. QED
      BY <1>3, <2>1, <2>3, Zenon
  <1>6. ASSUME NEW t \in H \ F PROVE \E u \in G : b[u] = t
    <2>1. PICK k \in S : \E i \in 1 .. h[k] : t = <<k, i>>
      BY <1>2, Zenon
    <2>2. PICK i \in 1 .. h[k] : t = <<k, i>>
      BY <2>1
    <2>3. i \notin 1 .. f[k]
      BY <1>2, <2>2, Zenon
    <2>4. i - f[k] \in 1 .. g[k] /\ f[k] + (i - f[k]) = i
      BY <2>2, <2>3
    <2>5. <<k, i - f[k]>> \in G
      BY <1>2, <2>4, Zenon
    <2>6. b[<<k, i - f[k]>>] = <<k, f[k] + (i - f[k])>>
      BY <2>5
    <2>. QED
      BY <2>2, <2>4, <2>5, <2>6, Zenon
  <1>. HIDE DEF b
  <1>7. ExistsBijection(G, H \ F)
    <2>. DEFINE D == H \ F
    <2>1. b \in [G -> D] /\ \A t \in D : \E u \in G : b[u] = t
      BY <1>4, <1>6
    <2>2. \A u, v \in G : b[u] = b[v] => u = v
      BY <1>5
    <2>. HIDE DEF D
    <2>3. ExistsBijection(G, D)
      BY <2>1, <2>2, BijectionFacts
    <2>. QED
      BY <2>3 DEF D
  <1>8. Cardinality(H \ F) = Cardinality(G)
    BY <1>1, <1>7, FS_Bijection, Zenon
  <1>9. H \intersect F = F
    BY <1>2
  <1>10. Cardinality(H \ F) = Cardinality(H) - Cardinality(F)
    <2>1. Cardinality(H \ F) = Cardinality(H) - Cardinality(H \intersect F)
      BY <1>1, FS_Difference, Zenon
    <2>. QED
      BY <1>9, <2>1, Zenon
  <1>11. Cardinality(F) \in Nat /\ Cardinality(G) \in Nat /\ Cardinality(H) \in Nat
    BY <1>1, FS_CardinalityType, Zenon
  <1>12. Cardinality(H) = Cardinality(F) + Cardinality(G)
    BY <1>8, <1>10, <1>11
  <1>. QED
    BY <1>12, Zenon DEF F, G, H, SumOver

LEMMA SumMonotone ==
  ASSUME NEW S, IsFiniteSet(S), NEW f, NEW g,
         \A k \in S : f[k] \in Nat /\ g[k] \in Nat /\ f[k] <= g[k]
  PROVE  SumOver(f, S) <= SumOver(g, S)
  <1>1. Units(f, S) \subseteq Units(g, S)
    BY DEF Units
  <1>2. IsFiniteSet(Units(g, S))
    BY SumType
  <1>. QED
    BY <1>1, <1>2, FS_Subset DEF SumOver

(* A sum whose only term is that of k.                                     *)
LEMMA SumSingle ==
  ASSUME NEW S, NEW k \in S, NEW d \in Nat, NEW g, g[k] = d,
         \A j \in S \ {k} : g[j] = 0
  PROVE  SumOver(g, S) = d
  <1>1. Units(g, S) = {k} \X (1 .. d)
    BY DEF Units
  <1>2. 1 \in Int /\ d \in Int
    OBVIOUS
  <1>3. IsFiniteSet(1 .. d) /\ Cardinality(1 .. d) = IF 1 > d THEN 0 ELSE d - 1 + 1
    BY <1>2, FS_Interval, Zenon
  <1>4. IsFiniteSet({k}) /\ Cardinality({k}) = 1
    BY FS_Singleton, Zenon
  <1>5. Cardinality({k} \X (1 .. d)) = Cardinality({k}) * Cardinality(1 .. d)
    BY <1>3, <1>4, FS_Product, Zenon
  <1>6. Cardinality(1 .. d) = d
    BY <1>3
  <1>7. 1 * d = d
    OBVIOUS
  <1>. QED
    BY <1>1, <1>4, <1>5, <1>6, <1>7, Zenon DEF SumOver

(* One term grows by d.                                                    *)
LEMMA SumGrows ==
  ASSUME NEW S, IsFiniteSet(S), NEW f, \A j \in S : f[j] \in Nat,
         NEW k \in S, NEW d \in Nat, NEW h, h[k] = f[k] + d,
         \A j \in S \ {k} : h[j] = f[j]
  PROVE  SumOver(h, S) = SumOver(f, S) + d
  <1>. DEFINE g == [j \in S |-> IF j = k THEN d ELSE 0]
  <1>1. g[k] = d /\ \A j \in S \ {k} : g[j] = 0
    OBVIOUS
  <1>2. \A j \in S : f[j] \in Nat /\ g[j] \in Nat /\ h[j] = f[j] + g[j]
    OBVIOUS
  <1>. HIDE DEF g
  <1>3. SumOver(g, S) = d
    BY <1>1, SumSingle
  <1>4. SumOver(h, S) = SumOver(f, S) + SumOver(g, S)
    BY <1>2, SumAdds
  <1>. QED
    BY <1>3, <1>4, Zenon

(* The terms of a larger set.                                              *)
LEMMA SumSubset ==
  ASSUME NEW S, IsFiniteSet(S), NEW f, \A k \in S : f[k] \in Nat,
         NEW T \in SUBSET S
  PROVE  SumOver(f, T) <= SumOver(f, S)
  <1>1. Units(f, T) \subseteq Units(f, S)
    BY DEF Units
  <1>2. IsFiniteSet(Units(f, S))
    BY SumType
  <1>. QED
    BY <1>1, <1>2, FS_Subset DEF SumOver

(* The terms of two sets.                                                  *)
LEMMA SumUnion ==
  ASSUME NEW A, IsFiniteSet(A), NEW B, IsFiniteSet(B), A \intersect B = {},
         NEW f, \A k \in A \union B : f[k] \in Nat
  PROVE  SumOver(f, A \union B) = SumOver(f, A) + SumOver(f, B)
  <1>. DEFINE X == Units(f, A)
              Y == Units(f, B)
  <1>1. IsFiniteSet(X) /\ IsFiniteSet(Y)
    BY SumType
  <1>2. Units(f, A \union B) = X \union Y
    BY Zenon DEF Units
  <1>3. X \intersect Y = {}
    BY DEF Units
  <1>. HIDE DEF X, Y
  <1>4. Cardinality(X \union Y) = Cardinality(X) + Cardinality(Y) - Cardinality(X \intersect Y)
    BY <1>1, FS_Union, Zenon
  <1>5. Cardinality(X) \in Nat /\ Cardinality(Y) \in Nat /\ Cardinality(X \intersect Y) = 0
    BY <1>1, <1>3, FS_CardinalityType, FS_EmptySet, Zenon
  <1>6. Cardinality(X \union Y) = Cardinality(X) + Cardinality(Y)
    BY <1>4, <1>5
  <1>. QED
    BY <1>2, <1>6, Zenon DEF SumOver, X, Y

LEMMA SumParts ==
  ASSUME NEW A, IsFiniteSet(A), NEW f, \A k \in A : f[k] \in Nat, NEW B
  PROVE  SumOver(f, A) = SumOver(f, A \intersect B) + SumOver(f, A \ B)
  <1>1. IsFiniteSet(A \intersect B) /\ IsFiniteSet(A \ B)
    BY FS_Subset
  <1>2. A = (A \intersect B) \union (A \ B) /\ (A \intersect B) \intersect (A \ B) = {}
    OBVIOUS
  <1>3. \A k \in (A \intersect B) \union (A \ B) : f[k] \in Nat
    OBVIOUS
  <1>4. SumOver(f, (A \intersect B) \union (A \ B))
          = SumOver(f, A \intersect B) + SumOver(f, A \ B)
    BY <1>1, <1>2, <1>3, SumUnion, Zenon
  <1>. QED
    BY <1>2, <1>4, Zenon

(* V becomes W: some of V is gone, what is new comes from U, and what is   *)
(* left of U is X, which else has terms of zero only.                      *)
SumMoves(f, V, U, W, X) ==
  \E gone \in 0 .. SumOver(f, V), new \in 0 .. SumOver(f, U) :
    /\ SumOver(f, W) = SumOver(f, V) - gone + new
    /\ SumOver(f, X) \in 0 .. SumOver(f, U) - new

LEMMA SumMove ==
  ASSUME NEW K, IsFiniteSet(K), NEW f, \A k \in K : f[k] \in Nat,
         NEW V \in SUBSET K, NEW U \in SUBSET K, NEW W \in SUBSET K, NEW X \in SUBSET K,
         V \intersect U = {}, W \intersect X = {}, W \subseteq V \union U,
         \A k \in X : k \in U \/ f[k] = 0
  PROVE  SumMoves(f, V, U, W, X)
  <1>. DEFINE S(A) == SumOver(f, A)
  <1>1. \A A \in SUBSET K : S(A) \in Nat
    BY FS_Subset, SumType
  <1>2. \A A, B \in SUBSET K : S(A) = S(A \intersect B) + S(A \ B)
    <2>. SUFFICES ASSUME NEW A \in SUBSET K, NEW B \in SUBSET K
                  PROVE  S(A) = S(A \intersect B) + S(A \ B)
      BY Zenon
    <2>1. IsFiniteSet(A) /\ \A k \in A : f[k] \in Nat
      BY FS_Subset
    <2>. QED
      BY <2>1, SumParts, Zenon
  <1>3. S(X \ U) = 0
    BY SumZero
  <1>4. S(X \intersect U) <= S(U \ W)
    <2>1. IsFiniteSet(U \ W) /\ \A k \in U \ W : f[k] \in Nat
      BY FS_Subset
    <2>2. X \intersect U \in SUBSET (U \ W)
      OBVIOUS
    <2>. QED
      BY <2>1, <2>2, SumSubset, Zenon
  <1>5. W \intersect V = V \intersect W /\ W \ V = U \intersect W
    OBVIOUS
  <1>. HIDE DEF S
  <1>6. /\ S(V) = S(V \intersect W) + S(V \ W)
        /\ S(W) = S(V \intersect W) + S(U \intersect W)
        /\ S(U) = S(U \intersect W) + S(U \ W)
        /\ S(X) = S(X \intersect U) + 0
    <2>1. S(V) = S(V \intersect W) + S(V \ W) /\ S(U) = S(U \intersect W) + S(U \ W)
      BY <1>2, Zenon
    <2>2. S(W) = S(W \intersect V) + S(W \ V) /\ S(X) = S(X \intersect U) + S(X \ U)
      BY <1>2, Zenon
    <2>. QED
      BY <1>3, <1>5, <2>1, <2>2, Zenon
  <1>7. /\ S(V) \in Nat /\ S(V \intersect W) \in Nat /\ S(V \ W) \in Nat
        /\ S(U) \in Nat /\ S(U \intersect W) \in Nat /\ S(U \ W) \in Nat
        /\ S(W) \in Nat /\ S(X) \in Nat /\ S(X \intersect U) \in Nat
    <2>1. /\ V \intersect W \in SUBSET K /\ V \ W \in SUBSET K
          /\ U \intersect W \in SUBSET K /\ U \ W \in SUBSET K
          /\ X \intersect U \in SUBSET K
      OBVIOUS
    <2>. QED
      BY <1>1, <2>1, Zenon
  <1>8. \E gone \in 0 .. S(V), new \in 0 .. S(U) :
          S(W) = S(V) - gone + new /\ S(X) \in 0 .. S(U) - new
    <2>1. /\ S(V \ W) \in 0 .. S(V) /\ S(U \intersect W) \in 0 .. S(U)
          /\ S(W) = S(V) - S(V \ W) + S(U \intersect W)
          /\ S(X) \in 0 .. S(U) - S(U \intersect W)
      BY <1>4, <1>6, <1>7
    <2>. QED
      BY <2>1, Zenon
  <1>. QED
    BY <1>8 DEF S, SumMoves

Fiber(p, K, l) == {k \in K : p[k] = l}

(* A sum of sums: p sorts the terms into classes, h has their sums.        *)
LEMMA SumFibers ==
  ASSUME NEW K, IsFiniteSet(K), NEW L, NEW f, \A k \in K : f[k] \in Nat,
         NEW p \in [K -> L], NEW h, IsFiniteSet(L),
         \A l \in L : h[l] = SumOver(f, Fiber(p, K, l))
  PROVE  SumOver(h, L) = SumOver(f, K)
  <1>. DEFINE C(l) == Fiber(p, K, l)
              U(l) == Units(f, C(l))
              B == [l \in L |-> CHOOSE b : b \in Bijection(1 .. h[l], U(l))]
              H == Units(h, L)
              F == Units(f, K)
              c == [u \in H |-> B[u[1]][u[2]]]
  <1>1. ASSUME NEW l \in L
        PROVE  h[l] \in Nat /\ B[l] \in Bijection(1 .. h[l], U(l))
    <2>1. IsFiniteSet(C(l))
      BY FS_Subset DEF Fiber
    <2>2. \A k \in C(l) : f[k] \in Nat
      BY DEF Fiber
    <2>. HIDE DEF C
    <2>3. IsFiniteSet(U(l))
      BY <2>1, <2>2, SumType, Zenon
    <2>4. h[l] = Cardinality(U(l))
      BY Zenon DEF SumOver, C
    <2>. HIDE DEF U
    <2>5. h[l] \in Nat /\ ExistsBijection(1 .. h[l], U(l))
      BY <2>3, <2>4, FS_CardinalityType, Zenon
    <2>6. \E b : b \in Bijection(1 .. h[l], U(l))
      BY <2>5, Zenon DEF ExistsBijection
    <2>. QED
      BY <2>5, <2>6, Zenon
  <1>2. \A u : u \in H <=> \E l \in L : \E i \in 1 .. h[l] : u = <<l, i>>
    BY UnitsFacts
  <1>3. \A u : u \in F <=> \E k \in K : \E i \in 1 .. f[k] : u = <<k, i>>
    BY UnitsFacts
  <1>4. \A l \in L : \A u : u \in U(l) <=> u \in F /\ p[u[1]] = l
    <2>. SUFFICES ASSUME NEW l \in L
                  PROVE  \A u : u \in U(l) <=> u \in F /\ p[u[1]] = l
      OBVIOUS
    <2>1. \A u : u \in U(l) <=> \E k \in C(l) : \E i \in 1 .. f[k] : u = <<k, i>>
      BY UnitsFacts
    <2>. QED
      BY <1>3, <2>1 DEF Fiber
  <1>5. \A l \in L :
          /\ \A i \in 1 .. h[l] : B[l][i] \in F /\ p[B[l][i][1]] = l
          /\ \A i, j \in 1 .. h[l] : B[l][i] = B[l][j] => i = j
          /\ \A u \in F : p[u[1]] = l => \E i \in 1 .. h[l] : B[l][i] = u
    <2>. SUFFICES ASSUME NEW l \in L
                  PROVE /\ \A i \in 1 .. h[l] : B[l][i] \in F /\ p[B[l][i][1]] = l
                        /\ \A i, j \in 1 .. h[l] : B[l][i] = B[l][j] => i = j
                        /\ \A u \in F : p[u[1]] = l => \E i \in 1 .. h[l] : B[l][i] = u
      BY Zenon
    <2>. DEFINE b == B[l]
                n == 1 .. h[l]
    <2>1. b \in Bijection(n, U(l))
      BY <1>1
    <2>2. \A u : u \in U(l) <=> u \in F /\ p[u[1]] = l
      BY <1>4, Zenon
    <2>. HIDE DEF b, n, U, F, B
    <2>3. /\ b \in [n -> U(l)] /\ \A i, j \in n : b[i] = b[j] => i = j
          /\ \A u \in U(l) : \E i \in n : b[i] = u
      BY <2>1 DEF Bijection, Injection, Surjection, IsInjective
    <2>4. /\ \A i \in n : b[i] \in F /\ p[b[i][1]] = l
          /\ \A i, j \in n : b[i] = b[j] => i = j
          /\ \A u \in F : p[u[1]] = l => \E i \in n : b[i] = u
      BY <2>2, <2>3
    <2>. QED
      BY <2>4, Zenon DEF b, n
  <1>. HIDE DEF B, U, H, F
  <1>6. c \in [H -> F]
    BY <1>2, <1>5
  <1>7. \A u, v \in H : c[u] = c[v] => u = v
    <2>. SUFFICES ASSUME NEW u \in H, NEW v \in H, c[u] = c[v] PROVE u = v
      OBVIOUS
    <2>1. PICK l \in L : \E i \in 1 .. h[l] : u = <<l, i>>
      BY <1>2, Zenon
    <2>2. PICK i \in 1 .. h[l] : u = <<l, i>>
      BY <2>1
    <2>3. PICK q \in L : \E j \in 1 .. h[q] : v = <<q, j>>
      BY <1>2, Zenon
    <2>4. PICK j \in 1 .. h[q] : v = <<q, j>>
      BY <2>3
    <2>5. B[l][i] = B[q][j]
      BY <2>2, <2>4
    <2>6. p[B[l][i][1]] = l /\ p[B[q][j][1]] = q
      BY <1>5
    <2>7. l = q
      BY <2>5, <2>6
    <2>. QED
      <3>1. j \in 1 .. h[l] /\ B[l][i] = B[l][j]
        BY <2>4, <2>5, <2>7
      <3>2. i = j
        BY <1>5, <2>2, <3>1, Zenon
      <3>. QED
        BY <2>2, <2>4, <2>7, <3>2
  <1>8. \A t \in F : \E u \in H : c[u] = t
    <2>. SUFFICES ASSUME NEW t \in F PROVE \E u \in H : c[u] = t
      OBVIOUS
    <2>1. t[1] \in K /\ p[t[1]] \in L
      BY <1>3
    <2>. DEFINE l == p[t[1]]
    <2>2. PICK i \in 1 .. h[l] : B[l][i] = t
      BY <1>5, <2>1, Zenon
    <2>3. <<l, i>> \in H
      BY <1>2, <2>1, Zenon
    <2>4. c[<<l, i>>] = B[l][i]
      BY <2>3
    <2>. QED
      BY <2>2, <2>3, <2>4, Zenon
  <1>. HIDE DEF c
  <1>9. ExistsBijection(H, F)
    BY <1>6, <1>7, <1>8, BijectionFacts
  <1>10. IsFiniteSet(H)
    BY <1>1, SumType DEF H
  <1>11. Cardinality(F) = Cardinality(H)
    BY <1>9, <1>10, FS_Bijection, Zenon
  <1>. QED
    BY <1>11, Zenon DEF H, F, SumOver
=============================================================================
