-------------------------------- MODULE Sums --------------------------------
(***************************************************************************)
(* Sums and folds over finite sets, for the proofs about ledgers, loads    *)
(* and shares, and what recursive definitions need in order to mean        *)
(* anything: induction, and solutions of their equations.                  *)
(***************************************************************************)
EXTENDS Integers, FiniteSetsExt, Functions, FiniteSetTheorems,
        WellFoundedInduction, TLAPS

LEMMA NatWellFounded ==
    IsWellFoundedOn({p \in Nat \X Nat : p[1] < p[2]}, Nat)
BY NatLessThanWellFounded DEF OpToRel

LEMMA NatInductive ==
    ASSUME NEW Good \in SUBSET Nat, 0 \in Good, \A n \in Good : n + 1 \in Good
    PROVE  Good = Nat
<1> DEFINE R == {p \in Nat \X Nat : p[1] < p[2]}
           Bad == Nat \ Good
<1>1. IsWellFoundedOn(R, Nat)
  BY NatWellFounded
<1> SUFFICES ASSUME Bad # {} PROVE FALSE
  OBVIOUS
<1>2. PICK n \in Bad : \A m \in Bad : ~(<<m, n>> \in R)
  <2> HIDE DEF R
  <2>1. Bad \subseteq Nat
    OBVIOUS
  <2> HIDE DEF Bad
  <2> QED BY <1>1, <2>1, WFMin
<1>3. n \in Nat /\ n # 0 /\ n - 1 \in Nat
  OBVIOUS
<1>4. n - 1 \in Bad
  BY <1>3
<1>5. <<n - 1, n>> \in R
  BY <1>3
<1> QED BY <1>2, <1>4, <1>5

LEMMA SetInductive ==
    ASSUME NEW S, IsFiniteSet(S), NEW Good \in SUBSET (SUBSET S),
           \A T \in SUBSET S : (\A x \in T : T \ {x} \in Good) => T \in Good
    PROVE  Good = SUBSET S
<1> DEFINE R == StrictSubsetOrdering(S)
           Bad == (SUBSET S) \ Good
<1> SUFFICES ASSUME Bad # {} PROVE FALSE
  OBVIOUS
<1>1. IsWellFoundedOn(R, SUBSET S)
  <2>1. IsWellFoundedOn(StrictSubsetOrdering(S), FiniteSubsetsOf(S))
    BY FS_StrictSubsetOrderingWellFounded
  <2>2. FiniteSubsetsOf(S) = SUBSET S
    BY FS_FiniteSubsetsOfFinite
  <2> QED BY <2>1, <2>2
<1>2. PICK T \in Bad : \A U \in Bad : ~(<<U, T>> \in R)
  <2> HIDE DEF R
  <2>1. Bad \subseteq SUBSET S
    OBVIOUS
  <2> HIDE DEF Bad
  <2> QED BY <1>1, <2>1, WFMin
<1>3. \A x \in T : T \ {x} \in Good
  <2> SUFFICES ASSUME NEW x \in T, T \ {x} \in Bad PROVE FALSE
    OBVIOUS
  <2>1. <<T \ {x}, T>> \in R
    BY DEF StrictSubsetOrdering
  <2> QED BY <1>2, <2>1
<1> QED BY <1>3

(* A function that is defined from one smaller argument exists.            *)
Unfolds(g, x, stop, base, F, down) ==
    g[x] = IF x \in stop THEN base[x] ELSE F[<<x, g[down[x]]>>]

LEMMA RecursionExists ==
    ASSUME NEW Val, NEW stop \in SUBSET Nat, NEW base \in [Nat -> Val],
           NEW F \in [Nat \X Val -> Val], NEW down \in [Nat -> Nat],
           \A x \in Nat \ stop : down[x] < x
    PROVE  \E g \in [Nat -> Val] : \A x \in Nat : Unfolds(g, x, stop, base, F, down)
<1> DEFINE Solves(g, n) == \A x \in 0..n : Unfolds(g, x, stop, base, F, down)
           Good == {n \in Nat : \E g \in [Nat -> Val] : Solves(g, n)}
           Agree(n) == \A g, h \in [Nat -> Val] :
                          Solves(g, n) /\ Solves(h, n) => \A x \in 0..n : g[x] = h[x]
           Same == {n \in Nat : Agree(n)}
<1> HIDE DEF Unfolds
<1>1. ASSUME NEW n \in Nat, NEW g, NEW h, \A x \in 0..n : g[x] = h[x],
             NEW x \in 0..n, Unfolds(g, x, stop, base, F, down)
      PROVE  Unfolds(h, x, stop, base, F, down)
  <2>1. x \notin stop => down[x] \in 0..n
    OBVIOUS
  <2> QED BY <1>1, <2>1 DEF Unfolds
<1>2. \A g \in [Nat -> Val], n, m \in Nat : Solves(g, n) /\ m <= n => Solves(g, m)
  OBVIOUS
<1>3. 0 \in Same
  <2> SUFFICES ASSUME NEW g \in [Nat -> Val], NEW h \in [Nat -> Val], Solves(g, 0), Solves(h, 0)
               PROVE  g[0] = h[0]
    OBVIOUS
  <2>1. 0 \in stop
    OBVIOUS
  <2> QED BY <2>1 DEF Unfolds
<1>4. ASSUME NEW n \in Same PROVE n + 1 \in Same
  <2> SUFFICES ASSUME NEW g \in [Nat -> Val], NEW h \in [Nat -> Val],
                      Solves(g, n + 1), Solves(h, n + 1), NEW x \in 0..(n + 1)
               PROVE  g[x] = h[x]
    OBVIOUS
  <2>1. \A y \in 0..n : g[y] = h[y]
    BY <1>2, <1>4
  <2>2. x \notin stop => down[x] \in 0..n
    OBVIOUS
  <2>3. Unfolds(g, x, stop, base, F, down) /\ Unfolds(h, x, stop, base, F, down)
    OBVIOUS
  <2>4. x \notin stop => g[down[x]] = h[down[x]]
    BY <2>1, <2>2
  <2> QED BY <2>3, <2>4 DEF Unfolds
<1>5. Same = Nat
  <2> HIDE DEF Agree
  <2>1. Same \in SUBSET Nat
    OBVIOUS
  <2> HIDE DEF Same
  <2> QED BY <1>3, <1>4, <2>1, NatInductive
<1>6. ASSUME NEW n \in Nat, NEW g \in [Nat -> Val], \A m \in 0..n : m < n => Solves(g, m)
      PROVE  \E h \in [Nat -> Val] : Solves(h, n)
  <2> DEFINE v == IF n \in stop THEN base[n] ELSE F[<<n, g[down[n]]>>]
             h == [g EXCEPT ![n] = v]
  <2>1. v \in Val
    OBVIOUS
  <2> HIDE DEF v
  <2>2. h \in [Nat -> Val] /\ h[n] = v /\ \A x \in 0..n : x # n => h[x] = g[x]
    BY <2>1
  <2> HIDE DEF h
  <2>3. Unfolds(h, n, stop, base, F, down)
    <3>1. n \notin stop => down[n] \in 0..n /\ down[n] # n
      OBVIOUS
    <3> QED BY <2>2, <3>1 DEF Unfolds, v
  <2>4. ASSUME NEW x \in 0..n, x # n PROVE Unfolds(h, x, stop, base, F, down)
    <3>1. Solves(g, x)
      BY <1>6, <2>4
    <3>2. Unfolds(g, x, stop, base, F, down)
      BY <3>1
    <3>3. \A y \in 0..x : g[y] = h[y]
      BY <2>2, <2>4
    <3>4. x \in Nat /\ x \in 0..x
      OBVIOUS
    <3> HIDE DEF Solves
    <3> QED BY <1>1, <3>2, <3>3, <3>4
  <2> QED BY <2>2, <2>3, <2>4
<1>7. 0 \in Good
  <2>1. base \in [Nat -> Val]
    OBVIOUS
  <2>2. 0 \in Nat /\ \A m \in 0..0 : ~(m < 0)
    OBVIOUS
  <2> HIDE DEF Solves
  <2>3. \E h \in [Nat -> Val] : Solves(h, 0)
    BY <1>6, <2>1, <2>2
  <2> QED BY <2>2, <2>3
<1>8. ASSUME NEW n \in Good PROVE n + 1 \in Good
  <2>1. PICK g \in [Nat -> Val] : Solves(g, n)
    OBVIOUS
  <2>2. \A m \in 0..(n + 1) : m < n + 1 => Solves(g, m)
    BY <1>2, <2>1
  <2>3. n + 1 \in Nat
    OBVIOUS
  <2> HIDE DEF Solves
  <2>4. \E h \in [Nat -> Val] : Solves(h, n + 1)
    BY <1>6, <2>2, <2>3
  <2> QED BY <2>3, <2>4
<1>9. Good = Nat
  <2>1. Good \in SUBSET Nat
    OBVIOUS
  <2> HIDE DEF Good
  <2> QED BY <1>7, <1>8, <2>1, NatInductive
<1> DEFINE G(n) == CHOOSE g \in [Nat -> Val] : Solves(g, n)
           all == [n \in Nat |-> G(n)[n]]
<1>10. \A n \in Nat : G(n) \in [Nat -> Val] /\ Solves(G(n), n)
  BY <1>9
<1> HIDE DEF G
<1>11. all \in [Nat -> Val]
  BY <1>10
<1>12. ASSUME NEW n \in Nat PROVE Unfolds(all, n, stop, base, F, down)
  <2>1. \A x \in 0..n : all[x] = G(n)[x]
    <3> SUFFICES ASSUME NEW x \in 0..n PROVE G(x)[x] = G(n)[x]
      OBVIOUS
    <3>1. Solves(G(n), n) /\ Solves(G(x), x) /\ x <= n
      BY <1>10
    <3>2. G(x) \in [Nat -> Val] /\ G(n) \in [Nat -> Val] /\ x \in Nat
      BY <1>10
    <3> HIDE DEF Solves, Same
    <3>3. Solves(G(n), x)
      BY <1>2, <3>1, <3>2
    <3>4. Agree(x)
      BY <1>5, <3>2 DEF Same
    <3>5. x \in 0..x
      BY <3>2
    <3> QED BY <3>1, <3>2, <3>3, <3>4, <3>5
  <2>2. Unfolds(G(n), n, stop, base, F, down)
    BY <1>10
  <2>3. n \in 0..n /\ \A x \in 0..n : G(n)[x] = all[x]
    BY <2>1
  <2> HIDE DEF Solves, all, Same, Good
  <2> QED BY <1>1, <2>2, <2>3
<1> QED BY <1>11, <1>12

(* g is the fold of F over the subsets of S, pick choosing the elements.   *)
FoldsUp(g, base, F, pick, S) ==
    \A s \in SUBSET S :
        g[s] = IF s = {} THEN base ELSE F[<<g[s \ {pick[s]}], pick[s]>>]

(* A recursive definition over the subsets of a finite set has a solution. *)
LEMMA FoldExists ==
    ASSUME NEW S, IsFiniteSet(S), NEW Val, NEW base \in Val,
           NEW pick, \A s \in SUBSET S : s # {} => pick[s] \in s,
           NEW F \in [Val \X S -> Val]
    PROVE  \E g \in [SUBSET S -> Val] : FoldsUp(g, base, F, pick, S)
<1> DEFINE D(n) == {s \in SUBSET S : Cardinality(s) <= n}
           Solves(g, n) == \A s \in D(n) :
                  g[s] = IF s = {} THEN base
                         ELSE F[<<g[s \ {pick[s]}], pick[s]>>]
           Good == {n \in Nat : \E g \in [D(n) -> Val] : Solves(g, n)}
<1>1. \A s \in SUBSET S : IsFiniteSet(s) /\ Cardinality(s) \in Nat
  BY FS_Subset, FS_CardinalityType
<1>2. \A s \in SUBSET S : s # {} =>
          /\ s \ {pick[s]} \in SUBSET S /\ pick[s] \in S
          /\ Cardinality(s \ {pick[s]}) = Cardinality(s) - 1
  BY <1>1, FS_RemoveElement
<1>3. 0 \in Good
  <2> DEFINE g == [s \in D(0) |-> base]
  <2>1. \A s \in D(0) : s = {}
    BY <1>1, FS_EmptySet
  <2>2. g \in [D(0) -> Val] /\ Solves(g, 0)
    BY <2>1
  <2> QED BY <2>2
<1>4. ASSUME NEW n \in Good PROVE n + 1 \in Good
  <2>1. PICK g \in [D(n) -> Val] : Solves(g, n)
    OBVIOUS
  <2> DEFINE h == [s \in D(n + 1) |->
                     IF Cardinality(s) <= n THEN g[s]
                     ELSE F[<<g[s \ {pick[s]}], pick[s]>>]]
  <2>2. n \in Nat
    OBVIOUS
  <2>3. \A s \in D(n + 1) : ~(Cardinality(s) <= n) => s # {}
    BY <1>1, <2>2, FS_EmptySet
  <2>4. \A s \in D(n + 1) : s # {} => s \ {pick[s]} \in D(n)
    BY <1>1, <1>2, <2>2
  <2>5. ASSUME NEW s \in D(n + 1) PROVE h[s] \in Val
    <3>1. CASE Cardinality(s) <= n
      BY <3>1
    <3>2. CASE ~(Cardinality(s) <= n)
      <4>1. s # {} /\ s \ {pick[s]} \in D(n) /\ pick[s] \in S
        BY <3>2, <2>3, <2>4, <1>2
      <4> QED BY <4>1, <3>2
    <3> QED BY <3>1, <3>2
  <2>6. h \in [D(n + 1) -> Val]
    BY <2>5
  <2>7. ASSUME NEW s \in D(n + 1), s # {}
        PROVE  h[s \ {pick[s]}] = g[s \ {pick[s]}]
    BY <2>4, <2>7, <2>2, <1>1
  <2>8. ASSUME NEW s \in D(n + 1)
        PROVE  h[s] = IF s = {} THEN base
                      ELSE F[<<h[s \ {pick[s]}], pick[s]>>]
    <3>1. CASE Cardinality(s) <= n
      <4>1. s \in D(n) /\ h[s] = g[s]
        BY <3>1
      <4> QED BY <4>1, <2>1, <2>7
    <3>2. CASE ~(Cardinality(s) <= n)
      BY <3>2, <2>3, <2>7
    <3> QED BY <3>1, <3>2
  <2>9. Solves(h, n + 1)
    BY <2>8
  <2>10. n + 1 \in Nat
    BY <2>2
  <2> HIDE DEF h, Solves, D
  <2> QED BY <2>6, <2>9, <2>10
<1>5. Good = Nat
  <2>1. Good \in SUBSET Nat
    OBVIOUS
  <2> HIDE DEF Good
  <2> QED BY <2>1, <1>3, <1>4, NatInductive
<1>6. Cardinality(S) \in Nat /\ D(Cardinality(S)) = SUBSET S
  BY FS_Subset, FS_CardinalityType
<1>7. Cardinality(S) \in Good
  BY <1>5, <1>6
<1>8. PICK g \in [D(Cardinality(S)) -> Val] : Solves(g, Cardinality(S))
  BY <1>7
<1> QED BY <1>6, <1>8 DEF FoldsUp

-----------------------------------------------------------------------------
(* The sum of a function over a finite set. *)

(* f is computed by taking out one element at a time, picked by pick.      *)
SumsUp(f, w, pick, S) ==
    \A s \in SUBSET S :
        f[s] = IF s = {} THEN 0 ELSE w[pick[s]] + f[s \ {pick[s]}]

(* g computes the sums over all subsets of S, taking out one element at a   *)
(* time in some order.                                                     *)
Computes(g, w, S) ==
    /\ g \in [SUBSET S -> Int]
    /\ \A s \in SUBSET S : SumFunctionOnSet(w, s) = g[s]
    /\ \E pick : /\ \A s \in SUBSET S : s # {} => pick[s] \in s
                 /\ SumsUp(g, w, pick, S)

LEMMA SumUnique ==
    ASSUME NEW S, IsFiniteSet(S), NEW w, NEW pick,
           \A s \in SUBSET S : s # {} => pick[s] \in s,
           NEW f, NEW g, SumsUp(f, w, pick, S), SumsUp(g, w, pick, S)
    PROVE  \A s \in SUBSET S : f[s] = g[s]
<1> DEFINE Good == {s \in SUBSET S : f[s] = g[s]}
<1>1. ASSUME NEW T \in SUBSET S, \A x \in T : T \ {x} \in Good PROVE T \in Good
  <2>1. CASE T = {}
    BY <2>1 DEF SumsUp
  <2>2. CASE T # {}
    <3>1. T \ {pick[T]} \in Good
      BY <1>1, <2>2
    <3> QED BY <3>1, <2>2 DEF SumsUp
  <2> QED BY <2>1, <2>2
<1>2. Good = SUBSET S
  <2>1. Good \in SUBSET (SUBSET S)
    OBVIOUS
  <2> HIDE DEF Good
  <2> QED BY <2>1, <1>1, SetInductive
<1> QED BY <1>2

LEMMA SumDef ==
    ASSUME NEW S, IsFiniteSet(S), NEW w, \A x \in S : w[x] \in Int
    PROVE  \E g : Computes(g, w, S)
<1> DEFINE pick == [s \in SUBSET S |-> CHOOSE x \in s : TRUE]
<1>1. \A s \in SUBSET S : s # {} => pick[s] \in s
  OBVIOUS
<1>2. ASSUME NEW T \in SUBSET S
      PROVE  \E g \in [SUBSET T -> Int] :
                /\ SumFunctionOnSet(w, T) = g[T]
                /\ SumsUp(g, w, pick, T)
  <2> DEFINE Body(f) == [s \in SUBSET T |->
                 IF s = {} THEN 0
                 ELSE w[CHOOSE x \in s : TRUE] + f[s \ {CHOOSE x \in s : TRUE}]]
             iter == CHOOSE f : f = Body(f)
             F == [p \in Int \X T |-> w[p[2]] + p[1]]
  <2>1. SumFunctionOnSet(w, T) = iter[T]
    BY DEF SumFunctionOnSet, FoldFunctionOnSet, MapThenFoldSet
  <2>2. F \in [Int \X T -> Int]
    OBVIOUS
  <2>3. PICK g \in [SUBSET T -> Int] : FoldsUp(g, 0, F, pick, T)
    <3>1. IsFiniteSet(T) /\ 0 \in Int
      BY FS_Subset
    <3>2. \A s \in SUBSET T : s # {} => pick[s] \in s
      BY <1>1
    <3> HIDE DEF pick, F, Body, iter
    <3> QED BY <2>2, <3>1, <3>2, FoldExists
  <2>4. SumsUp(g, w, pick, T)
    <3>1. ASSUME NEW s \in SUBSET T, s # {}
          PROVE  F[<<g[s \ {pick[s]}], pick[s]>>] = w[pick[s]] + g[s \ {pick[s]}]
      <4>1. pick[s] \in T /\ s \ {pick[s]} \in SUBSET T
        BY <1>1, <3>1
      <4> HIDE DEF pick
      <4> QED BY <4>1
    <3> QED BY <2>3, <3>1 DEF SumsUp, FoldsUp
  <2>5. g = Body(g)
    <3>1. \A s \in SUBSET T : pick[s] = CHOOSE x \in s : TRUE
      OBVIOUS
    <3> HIDE DEF pick
    <3> QED BY <2>4, <3>1 DEF SumsUp
  <2>6. iter = Body(iter)
    BY <2>5
  <2>7. SumsUp(iter, w, pick, T)
    <3>1. \A s \in SUBSET T : pick[s] = CHOOSE x \in s : TRUE
      OBVIOUS
    <3> HIDE DEF pick, iter
    <3> QED BY <2>6, <3>1 DEF SumsUp
  <2>8. iter[T] = g[T]
    <3>1. IsFiniteSet(T) /\ \A s \in SUBSET T : s # {} => pick[s] \in s
      BY <1>1, FS_Subset
    <3> HIDE DEF pick, iter
    <3> QED BY <2>4, <2>7, <3>1, SumUnique
  <2> HIDE DEF iter, pick
  <2> QED BY <2>1, <2>4, <2>8
<1> HIDE DEF pick
<1>3. PICK G \in [SUBSET S -> Int] : SumsUp(G, w, pick, S)
  BY <1>2
<1>4. ASSUME NEW T \in SUBSET S PROVE SumFunctionOnSet(w, T) = G[T]
  <2>1. PICK g \in [SUBSET T -> Int] : SumFunctionOnSet(w, T) = g[T] /\ SumsUp(g, w, pick, T)
    BY <1>2
  <2>2. IsFiniteSet(T) /\ (\A s \in SUBSET T : s # {} => pick[s] \in s)
        /\ SumsUp(G, w, pick, T)
    BY <1>1, <1>3, FS_Subset DEF SumsUp
  <2> QED BY <2>1, <2>2, SumUnique
<1> QED BY <1>1, <1>3, <1>4 DEF Computes

LEMMA SumEmpty == \A w : SumFunctionOnSet(w, {}) = 0
<1> SUFFICES ASSUME NEW w PROVE SumFunctionOnSet(w, {}) = 0
  OBVIOUS
<1>1. IsFiniteSet({}) /\ \A x \in {} : w[x] \in Int
  BY FS_EmptySet
<1>2. PICK g : Computes(g, w, {})
  BY <1>1, SumDef
<1> QED BY <1>2 DEF Computes, SumsUp

LEMMA SumInt ==
    ASSUME NEW S, IsFiniteSet(S), NEW w, \A x \in S : w[x] \in Int
    PROVE  SumFunctionOnSet(w, S) \in Int
<1>1. PICK g : Computes(g, w, S)
  BY SumDef
<1> QED BY <1>1 DEF Computes

(* Any element can be taken out first. *)
LEMMA SumRemove ==
    ASSUME NEW S, IsFiniteSet(S), NEW w, \A x \in S : w[x] \in Int, NEW y \in S
    PROVE  SumFunctionOnSet(w, S) = w[y] + SumFunctionOnSet(w, S \ {y})
<1>1. PICK g : Computes(g, w, S)
  BY SumDef
<1>2. PICK pick :
              /\ \A s \in SUBSET S : s # {} => pick[s] \in s
              /\ SumsUp(g, w, pick, S)
              /\ \A s \in SUBSET S : SumFunctionOnSet(w, s) = g[s]
              /\ g \in [SUBSET S -> Int]
  BY <1>1 DEF Computes
<1> DEFINE Good == {s \in SUBSET S : \A x \in s : g[s] = w[x] + g[s \ {x}]}
<1>3. ASSUME NEW T \in SUBSET S, \A x \in T : T \ {x} \in Good PROVE T \in Good
  <2> SUFFICES ASSUME NEW x \in T PROVE g[T] = w[x] + g[T \ {x}]
    OBVIOUS
  <2>1. pick[T] \in T /\ g[T] = w[pick[T]] + g[T \ {pick[T]}]
    BY <1>2 DEF SumsUp
  <2>2. CASE pick[T] = x
    BY <2>1, <2>2
  <2>3. CASE pick[T] # x
    <3> DEFINE p == pick[T]
               U == (T \ {p}) \ {x}
    <3>1. g[T \ {p}] = w[x] + g[U]
      BY <1>3, <2>1, <2>3
    <3>2. (T \ {x}) \ {p} = U
      OBVIOUS
    <3>3. g[T \ {x}] = w[p] + g[U]
      <4>1. T \ {x} \in Good /\ p \in T \ {x}
        BY <1>3, <2>1, <2>3
      <4>2. g[T \ {x}] = w[p] + g[(T \ {x}) \ {p}]
        BY <4>1
      <4> QED BY <4>2, <3>2
    <3>4. w[p] \in Int /\ w[x] \in Int /\ g[U] \in Int
      BY <1>2, <2>1
    <3> QED BY <2>1, <3>1, <3>3, <3>4
  <2> QED BY <2>2, <2>3
<1>4. Good = SUBSET S
  <2>1. Good \in SUBSET (SUBSET S)
    OBVIOUS
  <2> HIDE DEF Good
  <2> QED BY <2>1, <1>3, SetInductive
<1> QED BY <1>2, <1>4

LEMMA SumAdd ==
    ASSUME NEW S, IsFiniteSet(S), NEW y, y \notin S,
           NEW w, \A x \in S \cup {y} : w[x] \in Int
    PROVE  SumFunctionOnSet(w, S \cup {y}) = w[y] + SumFunctionOnSet(w, S)
<1>1. IsFiniteSet(S \cup {y}) /\ y \in S \cup {y} /\ (S \cup {y}) \ {y} = S
  BY FS_AddElement
<1> QED BY <1>1, SumRemove

LEMMA SumAgree ==
    ASSUME NEW S, IsFiniteSet(S), NEW v, NEW w,
           \A x \in S : w[x] \in Int, \A x \in S : v[x] = w[x]
    PROVE  SumFunctionOnSet(v, S) = SumFunctionOnSet(w, S)
<1> DEFINE Same(s) == SumFunctionOnSet(v, s) = SumFunctionOnSet(w, s)
           Good == {s \in SUBSET S : Same(s)}
<1>1. ASSUME NEW T \in SUBSET S, \A x \in T : T \ {x} \in Good PROVE T \in Good
  <2>1. CASE T = {}
    BY <2>1, SumEmpty
  <2>2. CASE T # {}
    <3>1. PICK x \in T : TRUE
      BY <2>2
    <3>2. IsFiniteSet(T) /\ \A y \in T : w[y] \in Int /\ v[y] \in Int
      BY FS_Subset
    <3>3. SumFunctionOnSet(v, T) = v[x] + SumFunctionOnSet(v, T \ {x})
      BY <3>2, SumRemove
    <3>4. SumFunctionOnSet(w, T) = w[x] + SumFunctionOnSet(w, T \ {x})
      BY <3>2, SumRemove
    <3>5. Same(T \ {x})
      BY <1>1
    <3>6. v[x] = w[x]
      OBVIOUS
    <3> QED BY <3>3, <3>4, <3>5, <3>6
  <2> QED BY <2>1, <2>2
<1>2. Good = SUBSET S
  <2>1. Good \in SUBSET (SUBSET S)
    OBVIOUS
  <2> HIDE DEF Good
  <2> QED BY <2>1, <1>1, SetInductive
<1> QED BY <1>2

(* The weights but one stay the same. *)
LEMMA SumUpdate ==
    ASSUME NEW S, IsFiniteSet(S), NEW y \in S, NEW v, NEW w,
           \A x \in S : v[x] \in Int /\ w[x] \in Int,
           \A x \in S \ {y} : v[x] = w[x]
    PROVE  SumFunctionOnSet(v, S) = SumFunctionOnSet(w, S) + v[y] - w[y]
<1>1. IsFiniteSet(S \ {y})
  BY FS_RemoveElement
<1>2. SumFunctionOnSet(v, S \ {y}) = SumFunctionOnSet(w, S \ {y})
  BY <1>1, SumAgree
<1>3. SumFunctionOnSet(w, S \ {y}) \in Int
  BY <1>1, SumInt
<1>4. /\ SumFunctionOnSet(v, S) = v[y] + SumFunctionOnSet(v, S \ {y})
      /\ SumFunctionOnSet(w, S) = w[y] + SumFunctionOnSet(w, S \ {y})
  BY SumRemove
<1>5. v[y] \in Int /\ w[y] \in Int
  OBVIOUS
<1> QED BY <1>2, <1>3, <1>4, <1>5

LEMMA SumNat ==
    ASSUME NEW S, IsFiniteSet(S), NEW w, \A x \in S : w[x] \in Nat
    PROVE  SumFunctionOnSet(w, S) \in Nat
<1> DEFINE Good == {s \in SUBSET S : SumFunctionOnSet(w, s) \in Nat}
<1>1. ASSUME NEW T \in SUBSET S, \A x \in T : T \ {x} \in Good PROVE T \in Good
  <2>1. CASE T = {}
    BY <2>1, SumEmpty
  <2>2. CASE T # {}
    <3>1. PICK x \in T : TRUE
      BY <2>2
    <3>2. IsFiniteSet(T) /\ \A y \in T : w[y] \in Int
      BY FS_Subset
    <3>3. SumFunctionOnSet(w, T) = w[x] + SumFunctionOnSet(w, T \ {x})
      BY <3>2, SumRemove
    <3>4. w[x] \in Nat /\ SumFunctionOnSet(w, T \ {x}) \in Nat
      BY <1>1
    <3>5. SumFunctionOnSet(w, T) \in Nat
      BY <3>3, <3>4
    <3> QED BY <3>5
  <2> QED BY <2>1, <2>2
<1>2. Good = SUBSET S
  <2>1. Good \in SUBSET (SUBSET S)
    OBVIOUS
  <2> HIDE DEF Good
  <2> QED BY <2>1, <1>1, SetInductive
<1> QED BY <1>2

LEMMA SumMember ==
    ASSUME NEW S, IsFiniteSet(S), NEW w, \A x \in S : w[x] \in Nat, NEW y \in S
    PROVE  w[y] <= SumFunctionOnSet(w, S)
<1>1. IsFiniteSet(S \ {y}) /\ \A x \in S : w[x] \in Int
  BY FS_RemoveElement
<1>2. SumFunctionOnSet(w, S) = w[y] + SumFunctionOnSet(w, S \ {y})
  BY <1>1, SumRemove
<1>3. w[y] \in Nat /\ SumFunctionOnSet(w, S \ {y}) \in Nat
  BY <1>1, SumNat
<1> QED BY <1>2, <1>3

LEMMA SumDisjoint ==
    ASSUME NEW S, NEW T, IsFiniteSet(S), IsFiniteSet(T), S \cap T = {},
           NEW w, \A x \in S \cup T : w[x] \in Int
    PROVE  SumFunctionOnSet(w, S \cup T)
              = SumFunctionOnSet(w, S) + SumFunctionOnSet(w, T)
<1> DEFINE Good == {s \in SUBSET S : SumFunctionOnSet(w, s \cup T)
                      = SumFunctionOnSet(w, s) + SumFunctionOnSet(w, T)}
<1>1. ASSUME NEW U \in SUBSET S, \A x \in U : U \ {x} \in Good PROVE U \in Good
  <2>1. CASE U = {}
    <3>1. SumFunctionOnSet(w, {}) = 0 /\ SumFunctionOnSet(w, T) \in Int /\ {} \cup T = T
      BY SumEmpty, SumInt
    <3> QED BY <2>1, <3>1
  <2>2. CASE U # {}
    <3>1. PICK x \in U : TRUE
      BY <2>2
    <3>2. /\ IsFiniteSet(U) /\ IsFiniteSet(U \cup T) /\ IsFiniteSet(U \ {x})
          /\ x \in U \cup T /\ \A y \in U \cup T : w[y] \in Int
          /\ (U \cup T) \ {x} = (U \ {x}) \cup T
      <4>1. IsFiniteSet(U)
        BY FS_Subset
      <4>2. IsFiniteSet(U \cup T) /\ IsFiniteSet(U \ {x})
        BY <4>1, FS_Union, FS_RemoveElement
      <4> QED BY <4>1, <4>2
    <3>3. SumFunctionOnSet(w, U) = w[x] + SumFunctionOnSet(w, U \ {x})
      BY <3>2, SumRemove
    <3>4. SumFunctionOnSet(w, U \cup T) = w[x] + SumFunctionOnSet(w, (U \ {x}) \cup T)
      BY <3>2, SumRemove
    <3>5. SumFunctionOnSet(w, (U \ {x}) \cup T)
             = SumFunctionOnSet(w, U \ {x}) + SumFunctionOnSet(w, T)
      BY <1>1
    <3>6. /\ SumFunctionOnSet(w, U \ {x}) \in Int /\ SumFunctionOnSet(w, T) \in Int
          /\ w[x] \in Int
      BY <3>2, SumInt
    <3>7. SumFunctionOnSet(w, U \cup T)
             = SumFunctionOnSet(w, U) + SumFunctionOnSet(w, T)
      BY <3>3, <3>4, <3>5, <3>6
    <3> QED BY <3>7
  <2> QED BY <2>1, <2>2
<1>2. Good = SUBSET S
  <2>1. Good \in SUBSET (SUBSET S)
    OBVIOUS
  <2> HIDE DEF Good
  <2> QED BY <2>1, <1>1, SetInductive
<1>3. S \in Good
  BY <1>2
<1> QED BY <1>3

(* Summing up one element more, or the same ones with one of them changed. *)
LEMMA SumPut ==
    ASSUME NEW S, IsFiniteSet(S), NEW y, NEW v, NEW w,
           \A x \in S : w[x] \in Int, v[y] \in Int,
           \A x \in S \ {y} : v[x] = w[x]
    PROVE  SumFunctionOnSet(v, S \cup {y})
              = SumFunctionOnSet(w, S) + v[y] - (IF y \in S THEN w[y] ELSE 0)
<1>1. CASE y \in S
  <2>1. \A x \in S : v[x] \in Int /\ w[x] \in Int
      OBVIOUS
  <2>2. SumFunctionOnSet(v, S) = SumFunctionOnSet(w, S) + v[y] - w[y]
      BY <1>1, <2>1, SumUpdate
  <2>3. S \cup {y} = S
      BY <1>1
  <2> QED BY <1>1, <2>2, <2>3
<1>2. CASE y \notin S
  <2>1. \A x \in S \cup {y} : v[x] \in Int
      BY <1>2
  <2>2. SumFunctionOnSet(v, S \cup {y}) = v[y] + SumFunctionOnSet(v, S)
      BY <1>2, <2>1, SumAdd
  <2>3. \A x \in S : v[x] = w[x]
      BY <1>2
  <2>4. SumFunctionOnSet(v, S) = SumFunctionOnSet(w, S)
      BY <2>3, SumAgree
  <2>5. SumFunctionOnSet(w, S) \in Int
      BY SumInt
  <2> QED BY <1>2, <2>2, <2>4, <2>5
<1> QED BY <1>1, <1>2

(* What is left of a sum without some of its elements. *)
LEMMA SumSplit ==
    ASSUME NEW S, IsFiniteSet(S), NEW T \in SUBSET S, NEW v, NEW w,
           \A x \in S : w[x] \in Int, \A x \in S \ T : v[x] = w[x]
    PROVE  SumFunctionOnSet(v, S \ T)
              = SumFunctionOnSet(w, S) - SumFunctionOnSet(w, T)
<1>1. IsFiniteSet(T) /\ IsFiniteSet(S \ T)
  BY FS_Subset
<1>2. (S \ T) \cap T = {} /\ (S \ T) \cup T = S
  OBVIOUS
<1>3. \A x \in (S \ T) \cup T : w[x] \in Int
  OBVIOUS
<1>4. SumFunctionOnSet(w, (S \ T) \cup T)
         = SumFunctionOnSet(w, S \ T) + SumFunctionOnSet(w, T)
  BY <1>1, <1>2, <1>3, SumDisjoint
<1>5. SumFunctionOnSet(v, S \ T) = SumFunctionOnSet(w, S \ T)
  BY <1>1, SumAgree
<1>6. SumFunctionOnSet(w, S \ T) \in Int /\ SumFunctionOnSet(w, T) \in Int
  BY <1>1, SumInt
<1>7. SumFunctionOnSet(w, S) = SumFunctionOnSet(w, S \ T) + SumFunctionOnSet(w, T)
  BY <1>2, <1>4
<1> QED BY <1>5, <1>6, <1>7

(* The largest of some positions is one of them. *)
LEMMA MaxIn ==
    ASSUME NEW n \in Nat, NEW T \in SUBSET (1..n), T # {}
    PROVE  Max(T) \in T /\ \A i \in T : i <= Max(T)
<1> DEFINE HasMax(s) == s # {} => \E m \in s : \A i \in s : m >= i
           Good == {s \in SUBSET (1..n) : HasMax(s)}
<1>1. IsFiniteSet(1..n)
  BY FS_Interval
<1>2. ASSUME NEW s \in SUBSET (1..n), \A x \in s : s \ {x} \in Good PROVE s \in Good
  <2> SUFFICES ASSUME s # {} PROVE \E m \in s : \A i \in s : m >= i
    OBVIOUS
  <2>1. PICK x \in s : TRUE
    OBVIOUS
  <2>2. CASE s = {x}
    BY <2>2
  <2>3. CASE s # {x}
    <3>1. PICK m \in s \ {x} : \A i \in s \ {x} : m >= i
      BY <1>2, <2>3
    <3>2. x \in Int /\ m \in Int /\ s \subseteq Int
      OBVIOUS
    <3>3. CASE m >= x
      BY <3>1, <3>3
    <3>4. CASE ~(m >= x)
      <4>1. \A i \in s : x >= i
        BY <3>1, <3>2, <3>4
      <4> QED BY <4>1
    <3> QED BY <3>3, <3>4
  <2> QED BY <2>2, <2>3
<1>3. Good = SUBSET (1..n)
  <2>1. Good \in SUBSET (SUBSET (1..n))
    OBVIOUS
  <2> HIDE DEF Good
  <2> QED BY <2>1, <1>1, <1>2, SetInductive
<1>4. PICK m \in T : \A i \in T : m >= i
  BY <1>3
<1>5. Max(T) \in T /\ \A i \in T : Max(T) >= i
  BY <1>4 DEF Max
<1> QED BY <1>5
====
