----------------------------- MODULE FoldLemmas -----------------------------
(***************************************************************************)
(* Lemmas about the folds the models are written with.  The induction      *)
(* theorems of the library take a predicate, which no prover here can      *)
(* instantiate; these take the set of the numbers that satisfy it, and     *)
(* rest on the existence of a smallest number that does not.               *)
(***************************************************************************)
EXTENDS Integers, FiniteSets, FiniteSetTheorems, WellFoundedInduction, SequencesExt,
        SequenceTheorems, TLAPS

(* Induction over the naturals, for a set of them.                         *)
LEMMA SetInduction ==
  ASSUME NEW T, 0 \in T, \A n \in Nat : n \in T => n + 1 \in T
  PROVE  Nat \subseteq T
<1>. SUFFICES ASSUME Nat \ T # {} PROVE FALSE
  OBVIOUS
<1>1. PICK x \in Nat \ T : \A y \in Nat \ T : <<y, x>> \notin OpToRel(<, Nat)
  BY NatLessThanWellFounded, WFMin, Zenon
<1>2. x - 1 \in Nat /\ x - 1 \notin T /\ x - 1 < x
  OBVIOUS
<1>3. <<x - 1, x>> \in OpToRel(<, Nat)
  BY <1>2, Zenon DEF OpToRel
<1>. QED  BY <1>1, <1>2, <1>3

LEMMA BoundedInduction ==
  ASSUME NEW n \in Nat, NEW T, 0 \in T, \A k \in 1 .. n : k - 1 \in T => k \in T
  PROVE  0 .. n \subseteq T
<1>. DEFINE U == {k \in Nat : k <= n => k \in T}
<1>1. 0 \in U
  OBVIOUS
<1>2. \A k \in Nat : k \in U => k + 1 \in U
  <2>. SUFFICES ASSUME NEW k \in Nat, k \in U, k + 1 <= n PROVE k + 1 \in T
    OBVIOUS
  <2>1. k + 1 \in 1 .. n /\ (k + 1) - 1 = k /\ k \in T
    OBVIOUS
  <2>. QED  BY <2>1
<1>. HIDE DEF U
<1>3. Nat \subseteq U
  BY <1>1, <1>2, SetInduction
<1>. QED  BY <1>3 DEF U

(* A set of naturals that is not empty has a smallest member, and a        *)
(* largest one if it is bounded.                                           *)
LEMMA HasMin ==
  ASSUME NEW S, S \subseteq Nat, S # {}
  PROVE  \E x \in S : \A y \in S : x <= y
<1>1. PICK x \in S : \A y \in S : <<y, x>> \notin OpToRel(<, Nat)
  BY NatLessThanWellFounded, WFMin, Zenon
<1>2. \A y \in S : ~ (y < x)
  BY <1>1, Zenon DEF OpToRel
<1>. QED  BY <1>2

LEMMA HasMax ==
  ASSUME NEW N \in Nat, NEW S, S \subseteq 0 .. N, S # {}
  PROVE  \E x \in S : \A y \in S : x >= y
<1>. DEFINE T == {t \in 0 .. N : N - t \in S}
<1>1. \A x \in S : N - x \in T
  OBVIOUS
<1>2. T \subseteq Nat
  OBVIOUS
<1>3. T # {}
  <2>1. PICK x : x \in S
    OBVIOUS
  <2>. HIDE DEF T
  <2>. QED  BY <1>1, <2>1
<1>4. PICK t \in T : \A u \in T : t <= u
  <2>. HIDE DEF T
  <2>. QED  BY <1>2, <1>3, HasMin
<1>5. N - t \in S /\ t \in 0 .. N
  OBVIOUS
<1>6. \A y \in S : N - t >= y
  BY <1>1, <1>4, <1>5
<1>. QED  BY <1>5, <1>6
-----------------------------------------------------------------------------
(* A fold down a finite set takes one member at a time, c[s] of what is    *)
(* left, and g[x] is what member x does to the result so far.              *)
IsFold(it, S, base, c, g) ==
  it = [s \in SUBSET S |-> IF s = {} THEN base
                           ELSE g[c[s]][it[s \ {c[s]}]]]

(* The recursive function by which a fold is defined exists.               *)
LEMMA FoldExists ==
  ASSUME NEW S, IsFiniteSet(S), NEW V, NEW base \in V,
         NEW c, \A s \in SUBSET S : s # {} => c[s] \in s,
         NEW g, \A x \in S, v \in V : g[x][v] \in V
  PROVE  \E it \in [SUBSET S -> V] : IsFold(it, S, base, c, g)
<1>. DEFINE Value(it, s) == IF s = {} THEN base ELSE g[c[s]][it[s \ {c[s]}]]
            UpTo(it, n) == \A s \in SUBSET S : Cardinality(s) <= n => it[s] = Value(it, s)
            T == {n \in Nat : \E it \in [SUBSET S -> V] : UpTo(it, n)}
<1>1. \A s \in SUBSET S :
        /\ Cardinality(s) \in Nat
        /\ Cardinality(s) = 0 <=> s = {}
        /\ s # {} => Cardinality(s \ {c[s]}) = Cardinality(s) - 1
  BY FS_Subset, FS_EmptySet, FS_RemoveElement, FS_CardinalityType
<1>2. \A it \in [SUBSET S -> V] : \A s \in SUBSET S : Value(it, s) \in V
  OBVIOUS
<1>3. 0 \in T
  <2>. DEFINE it == [s \in SUBSET S |-> base]
  <2>1. it \in [SUBSET S -> V]
    OBVIOUS
  <2>2. ASSUME NEW s \in SUBSET S, Cardinality(s) <= 0 PROVE it[s] = Value(it, s)
    <3>. HIDE DEF it, Value, UpTo, T
    <3>1. Cardinality(s) \in Nat /\ (Cardinality(s) = 0 => s = {})
      BY <1>1, Zenon
    <3>2. s = {}
      BY <2>2, <3>1
    <3>. QED  BY <3>2 DEF it, Value
  <2>. HIDE DEF it, Value
  <2>. QED  BY <2>1, <2>2
<1>4. ASSUME NEW n \in Nat, n \in T PROVE n + 1 \in T
  <2>1. PICK it \in [SUBSET S -> V] : UpTo(it, n)
    BY <1>4
  <2>. DEFINE next == [s \in SUBSET S |-> IF Cardinality(s) <= n THEN it[s]
                                          ELSE Value(it, s)]
  <2>2. next \in [SUBSET S -> V]
    BY <1>2
  <2>3. ASSUME NEW s \in SUBSET S, Cardinality(s) <= n + 1
        PROVE  next[s] = Value(it, s) /\ Value(next, s) = Value(it, s)
    <3>1. next[s] = Value(it, s)
      BY <2>1
    <3>2. s # {} => /\ s \ {c[s]} \in SUBSET S
                    /\ Cardinality(s \ {c[s]}) <= n
      BY <1>1, <2>3
    <3>3. s # {} => next[s \ {c[s]}] = it[s \ {c[s]}]
      BY <3>2
    <3>. QED  BY <3>1, <3>3
  <2>. HIDE DEF next, Value
  <2>. QED  BY <2>2, <2>3
<1>5. Cardinality(S) \in T
  <2>. HIDE DEF T
  <2>. QED  BY <1>1, <1>3, <1>4, SetInduction
<1>6. PICK it \in [SUBSET S -> V] : UpTo(it, Cardinality(S))
  BY <1>5
<1>7. \A s \in SUBSET S : it[s] = Value(it, s)
  BY <1>6, FS_Subset
<1>8. it = [s \in SUBSET S |-> Value(it, s)]
  <2>. HIDE DEF Value
  <2>. QED  BY <1>7
<1>9. IsFold(it, S, base, c, g)
  BY <1>8, Zenon DEF IsFold
<1>. QED  BY <1>9

(* A recursive function that stays in V for one more member has all its    *)
(* values there.                                                           *)
LEMMA FoldTyped ==
  ASSUME NEW S, IsFiniteSet(S), NEW V,
         NEW it, it = [s \in SUBSET S |-> it[s]],
         NEW c, \A s \in SUBSET S : s # {} => c[s] \in s,
         it[{}] \in V,
         \A s \in SUBSET S : s # {} /\ it[s \ {c[s]}] \in V => it[s] \in V
  PROVE  it \in [SUBSET S -> V]
<1>. DEFINE N == {n \in Nat : \A s \in SUBSET S : Cardinality(s) <= n => it[s] \in V}
<1>1. \A s \in SUBSET S :
        /\ Cardinality(s) \in Nat
        /\ Cardinality(s) = 0 => s = {}
        /\ s # {} => Cardinality(s \ {c[s]}) = Cardinality(s) - 1
  BY FS_Subset, FS_EmptySet, FS_RemoveElement, FS_CardinalityType
<1>2. 0 \in N
  <2>1. ASSUME NEW s \in SUBSET S, Cardinality(s) <= 0 PROVE it[s] \in V
    <3>1. Cardinality(s) \in Nat /\ (Cardinality(s) = 0 => s = {})
      BY <1>1, Zenon
    <3>2. s = {}
      BY <2>1, <3>1
    <3>. QED  BY <3>2
  <2>. QED  BY <2>1
<1>3. ASSUME NEW n \in Nat, n \in N PROVE n + 1 \in N
  <2>1. ASSUME NEW s \in SUBSET S, Cardinality(s) <= n + 1, s # {}
        PROVE  it[s] \in V
    <3>1. s \ {c[s]} \in SUBSET S /\ Cardinality(s \ {c[s]}) <= n
      BY <1>1, <2>1
    <3>. QED  BY <1>3, <2>1, <3>1
  <2>2. \A s \in SUBSET S : Cardinality(s) <= n + 1 => it[s] \in V
    BY <2>1
  <2>3. n + 1 \in Nat
    OBVIOUS
  <2>. QED  BY <2>2, <2>3
<1>4. Nat \subseteq N
  <2>. HIDE DEF N
  <2>. QED  BY <1>2, <1>3, SetInduction
<1>5. ASSUME NEW s \in SUBSET S PROVE it[s] \in V
  <2>1. Cardinality(s) \in Nat /\ Cardinality(s) \in N
    BY <1>1, <1>4
  <2>2. Cardinality(s) <= Cardinality(s)
    BY <2>1
  <2>. QED  BY <2>1, <2>2
<1>. QED  BY <1>5
-----------------------------------------------------------------------------
(* A sum of h down the set S, whatever the order in which it takes the     *)
(* members.                                                                *)
IsSum(it, h, S) ==
  /\ it \in [SUBSET S -> Nat]
  /\ it[{}] = 0
  /\ \A s \in SUBSET S : s # {} => \E x \in s : it[s] = h[x] + it[s \ {x}]

(* The one the community modules define, which takes them in the order of  *)
(* CHOOSE.                                                                 *)
ChosenSum(it, h, S) ==
  it = [s \in SUBSET S |-> IF s = {} THEN 0
                           ELSE h[CHOOSE x \in s : TRUE]
                                  + it[s \ {CHOOSE x \in s : TRUE}]]

LEMMA SumExists ==
  ASSUME NEW S, IsFiniteSet(S), NEW h, \A x \in S : h[x] \in Nat
  PROVE  \E it \in [SUBSET S -> Nat] : ChosenSum(it, h, S)
<1>. DEFINE c == [s \in SUBSET S |-> CHOOSE x \in s : TRUE]
            g == [x \in S |-> [v \in Nat |-> h[x] + v]]
<1>1. \A s \in SUBSET S : s # {} => c[s] \in s
  OBVIOUS
<1>2. \A x \in S, v \in Nat : g[x][v] = h[x] + v /\ g[x][v] \in Nat
  OBVIOUS
<1>3. \A s \in SUBSET S : c[s] = CHOOSE x \in s : TRUE
  OBVIOUS
<1>. HIDE DEF c, g
<1>4. PICK it \in [SUBSET S -> Nat] : IsFold(it, S, 0, c, g)
  BY <1>1, <1>2, FoldExists
<1>5. \A s \in SUBSET S : s # {} => s \ {c[s]} \in SUBSET S /\ c[s] \in S
  BY <1>1
<1>6. \A s \in SUBSET S :
        it[s] = IF s = {} THEN 0 ELSE h[c[s]] + it[s \ {c[s]}]
  BY <1>2, <1>4, <1>5 DEF IsFold
<1>7. it = [s \in SUBSET S |-> IF s = {} THEN 0 ELSE h[c[s]] + it[s \ {c[s]}]]
  BY <1>6
<1>8. ChosenSum(it, h, S)
  BY <1>3, <1>7 DEF ChosenSum
<1>. QED  BY <1>8

LEMMA ChosenSumIsSum ==
  ASSUME NEW S, IsFiniteSet(S), NEW h, \A x \in S : h[x] \in Nat,
         NEW it, ChosenSum(it, h, S)
  PROVE  IsSum(it, h, S)
<1>1. it \in [SUBSET S -> Nat]
  <2>. DEFINE c == [s \in SUBSET S |-> CHOOSE x \in s : TRUE]
  <2>1. \A s \in SUBSET S : s # {} => c[s] \in s
    OBVIOUS
  <2>2. it = [s \in SUBSET S |-> it[s]]
    <3>. DEFINE e == [s \in SUBSET S |-> IF s = {} THEN 0
                       ELSE h[CHOOSE x \in s : TRUE]
                              + it[s \ {CHOOSE x \in s : TRUE}]]
    <3>1. it = e /\ e = [s \in SUBSET S |-> e[s]]
      BY DEF ChosenSum
    <3>. HIDE DEF e
    <3>. QED  BY <3>1
  <2>3. it[{}] \in Nat
    <3>1. {} \in SUBSET S
      OBVIOUS
    <3>2. it[{}] = 0
      BY <3>1, Zenon DEF ChosenSum
    <3>. QED  BY <3>2
  <2>4. ASSUME NEW s \in SUBSET S, s # {}, it[s \ {c[s]}] \in Nat
        PROVE  it[s] \in Nat
    <3>1. it[s] = h[c[s]] + it[s \ {c[s]}]
      BY <2>4, Zenon DEF ChosenSum
    <3>2. h[c[s]] \in Nat
      BY <2>1, <2>4
    <3>. HIDE DEF c
    <3>. QED  BY <2>4, <3>1, <3>2
  <2>. HIDE DEF c
  <2>. QED  BY <2>1, <2>2, <2>3, <2>4, FoldTyped
<1>2. ASSUME NEW s \in SUBSET S, s # {}
      PROVE  \E x \in s : it[s] = h[x] + it[s \ {x}]
  <2>. DEFINE x == CHOOSE x \in s : TRUE
  <2>1. x \in s
    BY <1>2
  <2>2. it[s] = h[x] + it[s \ {x}]
    BY <1>2, Zenon DEF ChosenSum
  <2>. QED  BY <2>1, <2>2
<1>3. it[{}] = 0
  <2>1. {} \in SUBSET S
    OBVIOUS
  <2>. QED  BY <2>1, Zenon DEF ChosenSum
<1>. QED  BY <1>1, <1>2, <1>3 DEF IsSum

(* Any member may be taken first.                                          *)
TakesAny(it, h, S) ==
  \A s \in SUBSET S : \A x \in s : it[s] = h[x] + it[s \ {x}]

LEMMA SumTakesAny ==
  ASSUME NEW S, IsFiniteSet(S), NEW h, \A x \in S : h[x] \in Nat,
         NEW it, IsSum(it, h, S)
  PROVE  TakesAny(it, h, S)
<1>. DEFINE AnyNext(s) == \A x \in s : it[s] = h[x] + it[s \ {x}]
            T == {n \in Nat : \A s \in SUBSET S : Cardinality(s) <= n => AnyNext(s)}
<1>1. \A s \in SUBSET S :
        /\ Cardinality(s) \in Nat
        /\ Cardinality(s) = 0 <=> s = {}
        /\ \A x \in s : Cardinality(s \ {x}) = Cardinality(s) - 1
  BY FS_Subset, FS_EmptySet, FS_RemoveElement, FS_CardinalityType
<1>2. 0 \in T
  <2>1. ASSUME NEW s \in SUBSET S, Cardinality(s) <= 0 PROVE AnyNext(s)
    <3>. HIDE DEF AnyNext, T
    <3>1. Cardinality(s) = 0
      BY <1>1, <2>1
    <3>2. s = {}
      BY <1>1, <3>1
    <3>. QED  BY <3>2 DEF AnyNext
  <2>. HIDE DEF AnyNext
  <2>. QED  BY <2>1
<1>3. ASSUME NEW n \in Nat, n \in T PROVE n + 1 \in T
  <2>1. ASSUME NEW s \in SUBSET S, Cardinality(s) <= n + 1, NEW x \in s
        PROVE  it[s] = h[x] + it[s \ {x}]
    <3>1. PICK y \in s : it[s] = h[y] + it[s \ {y}]
      BY <2>1 DEF IsSum
    <3>2. CASE x = y
      BY <3>1, <3>2
    <3>3. CASE x # y
      <4>1. /\ s \ {x} \in SUBSET S /\ s \ {y} \in SUBSET S
            /\ Cardinality(s \ {x}) <= n /\ Cardinality(s \ {y}) <= n
            /\ y \in s \ {x} /\ x \in s \ {y}
            /\ (s \ {x}) \ {y} = (s \ {y}) \ {x}
        BY <1>1, <2>1, <3>3
      <4>2. /\ it[s \ {x}] = h[y] + it[(s \ {x}) \ {y}]
            /\ it[s \ {y}] = h[x] + it[(s \ {y}) \ {x}]
        BY <1>3, <4>1
      <4>. DEFINE rest == it[(s \ {x}) \ {y}]
      <4>3. h[x] \in Nat /\ h[y] \in Nat /\ rest \in Nat
        BY <4>1 DEF IsSum
      <4>4. it[s] = h[y] + (h[x] + rest) /\ it[s \ {x}] = h[y] + rest
        BY <3>1, <4>1, <4>2, Zenon
      <4>. HIDE DEF rest
      <4>. QED  BY <4>3, <4>4
    <3>. QED  BY <3>2, <3>3
  <2>. HIDE DEF AnyNext
  <2>2. \A s \in SUBSET S : Cardinality(s) <= n + 1 => AnyNext(s)
    BY <2>1 DEF AnyNext
  <2>. QED  BY <2>2
<1>4. Nat \subseteq T
  <2>. HIDE DEF T
  <2>. QED  BY <1>2, <1>3, SetInduction
<1>5. ASSUME NEW s \in SUBSET S PROVE AnyNext(s)
  <2>1. Cardinality(s) \in T
    BY <1>1, <1>4
  <2>. QED  BY <1>1, <2>1
<1>. QED  BY <1>5 DEF TakesAny

(* The sum of some members is the sum of more of them if the others add    *)
(* nothing, whatever else the two functions are sums of.                   *)
LEMMA SumsAgree ==
  ASSUME NEW S, IsFiniteSet(S), NEW h, \A x \in S : h[x] \in Nat,
         NEW it, IsSum(it, h, S),
         NEW T, IsFiniteSet(T), NEW g, \A x \in T : g[x] \in Nat,
         NEW jt, IsSum(jt, g, T),
         NEW s \in SUBSET S, NEW t \in SUBSET T, s \subseteq t,
         \A x \in s : h[x] = g[x],
         \A x \in t \ s : g[x] = 0
  PROVE  it[s] = jt[t]
<1>. DEFINE Agree(u) == it[u \cap s] = jt[u]
            N == {n \in Nat : \A u \in SUBSET t : Cardinality(u) <= n => Agree(u)}
<1>1. TakesAny(it, h, S) /\ TakesAny(jt, g, T)
  BY SumTakesAny
<1>2. \A u \in SUBSET t :
        /\ Cardinality(u) \in Nat
        /\ Cardinality(u) = 0 => u = {}
        /\ \A x \in u : Cardinality(u \ {x}) = Cardinality(u) - 1
  BY FS_Subset, FS_EmptySet, FS_RemoveElement, FS_CardinalityType
<1>3. Agree({})
  BY DEF IsSum
<1>4. 0 \in N
  <2>1. ASSUME NEW u \in SUBSET t, Cardinality(u) <= 0 PROVE u = {}
    BY <1>2, <2>1
  <2>. HIDE DEF Agree
  <2>. QED  BY <1>3, <2>1
<1>5. ASSUME NEW n \in Nat, n \in N PROVE n + 1 \in N
  <2>1. ASSUME NEW u \in SUBSET t, Cardinality(u) <= n + 1, u # {} PROVE Agree(u)
    <3>1. PICK x : x \in u
      BY <2>1
    <3>. DEFINE r == u \ {x}
    <3>2. r \in SUBSET t /\ Cardinality(r) <= n /\ u \in SUBSET T /\ r \in SUBSET T
      BY <1>2, <2>1, <3>1
    <3>3. it[r \cap s] = jt[r]
      BY <1>5, <3>2
    <3>4. jt[u] = g[x] + jt[r]
      BY <3>1, <3>2, <1>1 DEF TakesAny
    <3>5. jt[r] \in Nat /\ g[x] \in Nat
      BY <3>1, <3>2 DEF IsSum
    <3>6. CASE x \in s
      <4>1. (u \cap s) \ {x} = r \cap s /\ u \cap s \in SUBSET S /\ x \in u \cap s
        BY <3>1, <3>6
      <4>2. it[u \cap s] = h[x] + it[(u \cap s) \ {x}]
        BY <4>1, <1>1 DEF TakesAny
      <4>3. h[x] = g[x]
        BY <3>6
      <4>4. it[u \cap s] = h[x] + it[r \cap s]
        BY <4>1, <4>2, Zenon
      <4>. HIDE DEF r
      <4>5. it[u \cap s] = jt[u]
        BY <3>3, <3>4, <4>3, <4>4, Zenon
      <4>. QED  BY <4>5, Zenon
    <3>7. CASE x \notin s
      <4>1. u \cap s = r \cap s
        BY <3>7
      <4>2. g[x] = 0
        BY <3>1, <3>7
      <4>. HIDE DEF r
      <4>3. jt[u] = jt[r]
        BY <3>4, <3>5, <4>2
      <4>4. it[u \cap s] = jt[r]
        BY <3>3, <4>1, Zenon
      <4>. QED  BY <4>3, <4>4, Zenon
    <3>. QED  BY <3>6, <3>7
  <2>. HIDE DEF Agree
  <2>2. \A u \in SUBSET t : Cardinality(u) <= n + 1 => Agree(u)
    BY <1>3, <2>1
  <2>. QED  BY <2>2
<1>6. Nat \subseteq N
  <2>. HIDE DEF N
  <2>. QED  BY <1>4, <1>5, SetInduction
<1>7. Agree(t)
  <2>1. t \in SUBSET t /\ Cardinality(t) \in N
    BY <1>2, <1>6
  <2>2. Cardinality(t) <= Cardinality(t)
    BY <1>2, <2>1
  <2>. HIDE DEF Agree
  <2>. QED  BY <2>1, <2>2
<1>8. t \cap s = s
  OBVIOUS
<1>. QED  BY <1>7, <1>8

-----------------------------------------------------------------------------
(* What SumFunctionOnSet is.                                               *)
LEMMA SumOfFunction ==
  ASSUME NEW S, IsFiniteSet(S), NEW h, \A x \in S : h[x] \in Nat
  PROVE  \E it : IsSum(it, h, S) /\ SumFunctionOnSet(h, S) = it[S]
<1>. DEFINE it == CHOOSE jt : ChosenSum(jt, h, S)
<1>1. ChosenSum(it, h, S)
  BY SumExists
<1>2. SumFunctionOnSet(h, S) = it[S]
  BY Zenon DEF ChosenSum, SumFunctionOnSet, FoldFunctionOnSet, MapThenFoldSet
<1>. HIDE DEF it
<1>3. IsSum(it, h, S)
  BY <1>1, ChosenSumIsSum
<1>. QED  BY <1>2, <1>3

(* It is a natural number that no summand exceeds.                         *)
LEMMA SumBounds ==
  ASSUME NEW S, IsFiniteSet(S), NEW h, \A x \in S : h[x] \in Nat
  PROVE  /\ SumFunctionOnSet(h, S) \in Nat
         /\ \A x \in S : h[x] <= SumFunctionOnSet(h, S)
<1>1. PICK it : IsSum(it, h, S) /\ SumFunctionOnSet(h, S) = it[S]
  BY SumOfFunction
<1>2. \A s \in SUBSET S : it[s] \in Nat
  BY <1>1 DEF IsSum
<1>3. TakesAny(it, h, S)
  BY <1>1, SumTakesAny
<1>4. ASSUME NEW x \in S PROVE h[x] <= it[S]
  <2>1. S \in SUBSET S /\ S \ {x} \in SUBSET S
    OBVIOUS
  <2>2. it[S] = h[x] + it[S \ {x}]
    BY <1>3, <2>1, Zenon DEF TakesAny
  <2>3. it[S \ {x}] \in Nat
    BY <1>2, <2>1, Zenon
  <2>. QED  BY <2>2, <2>3
<1>5. it[S] \in Nat
  BY <1>2
<1>. QED  BY <1>1, <1>4, <1>5, Zenon

(* One more at one place is one more in the sum.                           *)
LEMMA SumOneMore ==
  ASSUME NEW S, IsFiniteSet(S), NEW h, \A x \in S : h[x] \in Nat,
         NEW g, NEW y \in S, g[y] = h[y] + 1,
         \A x \in S \ {y} : g[x] = h[x]
  PROVE  SumFunctionOnSet(g, S) = SumFunctionOnSet(h, S) + 1
<1>1. \A x \in S : g[x] \in Nat
  OBVIOUS
<1>2. PICK it : IsSum(it, h, S) /\ SumFunctionOnSet(h, S) = it[S]
  BY SumOfFunction
<1>3. PICK jt : IsSum(jt, g, S) /\ SumFunctionOnSet(g, S) = jt[S]
  BY <1>1, SumOfFunction
<1>. DEFINE rest == S \ {y}
<1>4. it[S] = h[y] + it[rest] /\ jt[S] = g[y] + jt[rest]
  <2>1. TakesAny(it, h, S) /\ TakesAny(jt, g, S)
    BY <1>1, <1>2, <1>3, SumTakesAny
  <2>. QED  BY <2>1 DEF TakesAny
<1>5. it[rest] = jt[rest]
  BY <1>1, <1>2, <1>3, SumsAgree
<1>6. it[rest] \in Nat
  BY <1>2 DEF IsSum
<1>. HIDE DEF rest
<1>. QED  BY <1>2, <1>3, <1>4, <1>5, <1>6

(* A sum of zeros.                                                         *)
LEMMA SumOfZeros ==
  ASSUME NEW S, IsFiniteSet(S), NEW h, \A x \in S : h[x] = 0
  PROVE  SumFunctionOnSet(h, S) = 0
<1>1. \A x \in S : h[x] \in Nat
  OBVIOUS
<1>2. PICK it : IsSum(it, h, S) /\ SumFunctionOnSet(h, S) = it[S]
  BY <1>1, SumOfFunction
<1>3. it[{}] = it[S]
  BY <1>1, <1>2, SumsAgree
<1>. QED  BY <1>2, <1>3 DEF IsSum
-----------------------------------------------------------------------------
(* A fold down 1 .. n that always takes the largest index left is a fold   *)
(* from the left: the results for 1 .. k follow each other.                *)
TakesMax(c, n) ==
  \A s \in SUBSET (1 .. n) : s # {} => c[s] \in s /\ \A i \in s : i <= c[s]

LEMMA MaxIsTaken ==
  ASSUME NEW n \in Nat, NEW c,
         \A s \in SUBSET (1 .. n) : c[s] = CHOOSE x \in s : \A y \in s : x >= y
  PROVE  TakesMax(c, n)
<1>. SUFFICES ASSUME NEW s \in SUBSET (1 .. n), s # {}
              PROVE  c[s] \in s /\ \A i \in s : i <= c[s]
  BY DEF TakesMax
<1>1. s \subseteq 0 .. n /\ s \subseteq Int
  OBVIOUS
<1>2. \E x \in s : \A y \in s : x >= y
  BY <1>1, HasMax
<1>3. c[s] \in s /\ \A y \in s : c[s] >= y
  BY <1>2
<1>. QED  BY <1>1, <1>3

(* The community modules choose with Max.                                  *)
LEMMA MaxTakesMax ==
  ASSUME NEW n \in Nat PROVE TakesMax([s \in SUBSET (1 .. n) |-> Max(s)], n)
<1>. DEFINE c == [s \in SUBSET (1 .. n) |-> Max(s)]
<1>1. \A s \in SUBSET (1 .. n) : c[s] = CHOOSE x \in s : \A y \in s : x >= y
  BY DEF Max
<1>. HIDE DEF c
<1>2. TakesMax(c, n)
  BY <1>1, MaxIsTaken
<1>. QED  BY <1>2 DEF c

LEMMA LeftSteps ==
  ASSUME NEW n \in Nat, NEW base, NEW c, TakesMax(c, n), NEW g,
         NEW it, IsFold(it, 1 .. n, base, c, g)
  PROVE  /\ it[1 .. 0] = base
         /\ \A k \in 1 .. n : it[1 .. k] = g[k][it[1 .. (k - 1)]]
<1>1. it[1 .. 0] = base
  BY DEF IsFold
<1>2. ASSUME NEW k \in 1 .. n PROVE it[1 .. k] = g[k][it[1 .. (k - 1)]]
  <2>. DEFINE s == 1 .. k
  <2>1. s \in SUBSET (1 .. n) /\ s # {} /\ k \in s
    OBVIOUS
  <2>2. c[s] = k
    BY <2>1 DEF TakesMax
  <2>3. s \ {k} = 1 .. (k - 1)
    OBVIOUS
  <2>4. it[s] = g[c[s]][it[s \ {c[s]}]]
    <3>. HIDE DEF s
    <3>. QED  BY <2>1, Zenon DEF IsFold
  <2>. QED  BY <2>2, <2>3, <2>4
<1>. QED  BY <1>1, <1>2
(* The results p of the first k steps of a fold from the left.             *)
IsPrefixFold(p, V, base, g, n) ==
  /\ p \in [0 .. n -> V]
  /\ p[0] = base
  /\ \A k \in 1 .. n : p[k] = g[k][p[k - 1]]

(* What the fold's own equation says of a result in V is enough.           *)
Continues(it, V, base, c, g, n) ==
  /\ \A i \in 1 .. n, a \in V : g[i][a] \in V
  /\ it = [s \in SUBSET (1 .. n) |-> it[s]]
  /\ it[{}] = base
  /\ \A s \in SUBSET (1 .. n) :
       s # {} /\ it[s \ {c[s]}] \in V => it[s] = g[c[s]][it[s \ {c[s]}]]

FoldsInto(it, V, base, c, g, n) ==
  it \in [SUBSET (1 .. n) -> V] /\ IsFold(it, 1 .. n, base, c, g)

LEMMA ContinuedIsFold ==
  ASSUME NEW n \in Nat, NEW V, NEW base \in V, NEW c, TakesMax(c, n),
         NEW g, NEW it, Continues(it, V, base, c, g, n)
  PROVE  FoldsInto(it, V, base, c, g, n)
<1>. DEFINE D == 1 .. n
<1>1. IsFiniteSet(D) /\ \A s \in SUBSET D : s # {} => c[s] \in s /\ c[s] \in D
  <2>1. IsFiniteSet(1 .. n)
    <3>1. 1 \in Int /\ n \in Int
      OBVIOUS
    <3>. QED  BY <3>1, FS_Interval, Zenon
  <2>2. \A s \in SUBSET (1 .. n) : s # {} => c[s] \in s
    BY DEF TakesMax
  <2>3. \A s \in SUBSET D : s # {} => c[s] \in s /\ c[s] \in D
    <3>. SUFFICES ASSUME NEW s \in SUBSET (1 .. n), s # {}
                  PROVE  c[s] \in s /\ c[s] \in 1 .. n
      OBVIOUS
    <3>1. c[s] \in s
      BY <2>2, Zenon
    <3>. QED  BY <3>1
  <2>. QED  BY <2>1, <2>3
<1>2. it \in [SUBSET D -> V]
  <2>1. ASSUME NEW s \in SUBSET D, s # {}, it[s \ {c[s]}] \in V PROVE it[s] \in V
    <3>1. it[s] = g[c[s]][it[s \ {c[s]}]]
      BY <2>1 DEF Continues
    <3>2. c[s] \in 1 .. n
      BY <1>1, <2>1
    <3>3. \A i \in 1 .. n, a \in V : g[i][a] \in V
      BY DEF Continues
    <3>4. g[c[s]][it[s \ {c[s]}]] \in V
      BY <2>1, <3>2, <3>3, Zenon
    <3>. QED  BY <3>1, <3>4, Zenon
  <2>2. it = [s \in SUBSET D |-> it[s]] /\ it[{}] \in V
    BY DEF Continues
  <2>3. \A s \in SUBSET D : s # {} => c[s] \in s
    BY <1>1
  <2>. HIDE DEF D
  <2>. QED  BY <1>1, <2>1, <2>2, <2>3, FoldTyped
<1>3. IsFold(it, 1 .. n, base, c, g)
  <2>1. \A s \in SUBSET D : it[s] = IF s = {} THEN base ELSE g[c[s]][it[s \ {c[s]}]]
    <3>. SUFFICES ASSUME NEW s \in SUBSET D, s # {}
                  PROVE  it[s] = g[c[s]][it[s \ {c[s]}]]
      BY DEF Continues
    <3>1. s \ {c[s]} \in SUBSET D
      OBVIOUS
    <3>2. it[s \ {c[s]}] \in V
      BY <1>2, <3>1
    <3>. QED  BY <3>2 DEF Continues
  <2>2. it = [s \in SUBSET (1 .. n) |-> IF s = {} THEN base
                                        ELSE g[c[s]][it[s \ {c[s]}]]]
    <3>1. it = [s \in SUBSET D |-> it[s]]
      BY DEF Continues
    <3>. QED  BY <2>1, <3>1
  <2>. HIDE DEF D
  <2>. QED  BY <2>2, Zenon DEF IsFold
<1>. QED  BY <1>2, <1>3 DEF FoldsInto

LEMMA LeftFoldSteps ==
  ASSUME NEW n \in Nat, NEW V, NEW base \in V, NEW c, TakesMax(c, n),
         NEW g, NEW it, Continues(it, V, base, c, g, n)
  PROVE  IsPrefixFold([k \in 0 .. n |-> it[1 .. k]], V, base, g, n)
<1>1. FoldsInto(it, V, base, c, g, n)
  BY ContinuedIsFold
<1>2. IsFold(it, 1 .. n, base, c, g)
  BY <1>1 DEF FoldsInto
<1>3. it \in [SUBSET (1 .. n) -> V]
  BY <1>1 DEF FoldsInto
<1>4. /\ it[1 .. 0] = base
      /\ \A k \in 1 .. n : it[1 .. k] = g[k][it[1 .. (k - 1)]]
  BY <1>2, LeftSteps
<1>5. \A k \in 0 .. n : 1 .. k \in SUBSET (1 .. n)
  OBVIOUS
<1>6. \A k \in 0 .. n : it[1 .. k] \in V
  BY <1>3, <1>5
<1>. DEFINE p == [k \in 0 .. n |-> it[1 .. k]]
<1>7. p \in [0 .. n -> V] /\ \A k \in 0 .. n : p[k] = it[1 .. k]
  BY <1>6
<1>8. 0 \in 0 .. n /\ \A k \in 1 .. n : k \in 0 .. n /\ k - 1 \in 0 .. n
  OBVIOUS
<1>. HIDE DEF p
<1>9. p[0] = base /\ \A k \in 1 .. n : p[k] = g[k][p[k - 1]]
  BY <1>4, <1>7, <1>8
<1>. QED  BY <1>7, <1>9 DEF p, IsPrefixFold

-----------------------------------------------------------------------------
(* The sums of the first k numbers of v.                                   *)
IsPrefixSum(p, v, n) ==
  /\ p \in [0 .. n -> Int]
  /\ p[0] = 0
  /\ \A k \in 1 .. n : p[k] = p[k - 1] + v[k]

(* A sum from the left, as the community modules fold it.                  *)
IsLeftSum(it, c, v, n) ==
  it = [s \in SUBSET (1 .. n) |-> IF s = {} THEN 0 ELSE it[s \ {c[s]}] + v[c[s]]]

LEMMA LeftSumExists ==
  ASSUME NEW n \in Nat, NEW v, \A i \in 1 .. n : v[i] \in Int,
         NEW c, TakesMax(c, n)
  PROVE  \E it : IsLeftSum(it, c, v, n)
<1>. DEFINE g == [i \in 1 .. n |-> [a \in Int |-> a + v[i]]]
            D == 1 .. n
<1>1. \A i \in D, a \in Int : g[i][a] = a + v[i] /\ g[i][a] \in Int
  OBVIOUS
<1>2. IsFiniteSet(D) /\ \A s \in SUBSET D : s # {} => c[s] \in s
  <2>1. IsFiniteSet(1 .. n)
    BY FS_Interval
  <2>2. \A s \in SUBSET (1 .. n) : s # {} => c[s] \in s
    BY DEF TakesMax
  <2>. QED  BY <2>1, <2>2
<1>. HIDE DEF g, D
<1>3. PICK it \in [SUBSET D -> Int] : IsFold(it, D, 0, c, g)
  <2>1. \A i \in D, a \in Int : g[i][a] \in Int
    BY <1>1
  <2>2. 0 \in Int
    OBVIOUS
  <2>. QED  BY <1>2, <2>1, <2>2, FoldExists
<1>4. ASSUME NEW s \in SUBSET D, s # {}
      PROVE  it[s] = it[s \ {c[s]}] + v[c[s]]
  <2>1. c[s] \in D /\ it[s \ {c[s]}] \in Int
    BY <1>2, <1>3, <1>4
  <2>2. it[s] = g[c[s]][it[s \ {c[s]}]]
    BY <1>3, <1>4, Zenon DEF IsFold
  <2>. QED  BY <1>1, <2>1, <2>2
<1>5. it[{}] = 0
  BY <1>3 DEF IsFold
<1>6. it = [s \in SUBSET D |-> IF s = {} THEN 0 ELSE it[s \ {c[s]}] + v[c[s]]]
  BY <1>3, <1>4, <1>5
<1>. QED  BY <1>6, Zenon DEF IsLeftSum, D

LEMMA LeftSumSteps ==
  ASSUME NEW n \in Nat, NEW v, \A i \in 1 .. n : v[i] \in Int,
         NEW c, TakesMax(c, n), NEW it, IsLeftSum(it, c, v, n)
  PROVE  IsPrefixSum([k \in 0 .. n |-> it[1 .. k]], v, n)
<1>. DEFINE D == 1 .. n
<1>1. IsFiniteSet(D) /\ \A s \in SUBSET D : s # {} => c[s] \in s
  <2>1. IsFiniteSet(1 .. n)
    BY FS_Interval
  <2>2. \A s \in SUBSET (1 .. n) : s # {} => c[s] \in s
    BY DEF TakesMax
  <2>. QED  BY <2>1, <2>2
<1>2. \A s \in SUBSET D : it[s] = IF s = {} THEN 0 ELSE it[s \ {c[s]}] + v[c[s]]
  BY DEF IsLeftSum
<1>3. it = [s \in SUBSET D |-> it[s]]
  <2>. DEFINE e == [s \in SUBSET D |-> IF s = {} THEN 0 ELSE it[s \ {c[s]}] + v[c[s]]]
  <2>1. it = e /\ e = [s \in SUBSET D |-> e[s]]
    BY DEF IsLeftSum
  <2>. HIDE DEF e
  <2>. QED  BY <2>1
<1>4. it \in [SUBSET D -> Int]
  <2>1. it[{}] \in Int
    <3>1. {} \in SUBSET D
      OBVIOUS
    <3>2. it[{}] = 0
      BY <1>2, <3>1, Zenon
    <3>. QED  BY <3>2
  <2>2. ASSUME NEW s \in SUBSET D, s # {}, it[s \ {c[s]}] \in Int
        PROVE  it[s] \in Int
    <3>1. it[s] = it[s \ {c[s]}] + v[c[s]]
      BY <1>2, <2>2, Zenon
    <3>2. v[c[s]] \in Int
      BY <1>1, <2>2
    <3>. HIDE DEF D
    <3>. QED  BY <2>2, <3>1, <3>2
  <2>. HIDE DEF D
  <2>. QED  BY <1>1, <1>3, <2>1, <2>2, FoldTyped
<1>5. ASSUME NEW k \in 1 .. n PROVE it[1 .. k] = it[1 .. (k - 1)] + v[k]
  <2>. DEFINE s == 1 .. k
  <2>1. s \in SUBSET D /\ s # {} /\ k \in s /\ \A i \in s : i <= k
    OBVIOUS
  <2>2. c[s] = k
    <3>1. c[s] \in s /\ \A i \in s : i <= c[s]
      BY <2>1 DEF TakesMax
    <3>. QED  BY <2>1, <3>1
  <2>3. s \ {k} = 1 .. (k - 1)
    OBVIOUS
  <2>4. it[s] = it[s \ {c[s]}] + v[c[s]]
    <3>. HIDE DEF s
    <3>. QED  BY <1>2, <2>1
  <2>. QED  BY <2>2, <2>3, <2>4
<1>6. it[1 .. 0] = 0
  <2>1. 1 .. 0 = {}
    OBVIOUS
  <2>. QED  BY <1>2, <2>1
<1>7. \A k \in 0 .. n : 1 .. k \in SUBSET D
  OBVIOUS
<1>. QED  BY <1>4, <1>5, <1>6, <1>7 DEF IsPrefixSum

(* The same numbers at another place add up to the same.                   *)
Same(v, a, c, u, b, d) ==
  /\ a <= c /\ d - b = c - a
  /\ \A i \in a + 1 .. c : v[i] = u[i + (b - a)]

LEMMA SegmentSums ==
  ASSUME NEW n \in Nat, NEW v, NEW p, IsPrefixSum(p, v, n),
         NEW m \in Nat, NEW u, NEW q, IsPrefixSum(q, u, m),
         \A i \in 1 .. n : v[i] \in Int
  PROVE  \A a, c \in 0 .. n, b, d \in 0 .. m :
           Same(v, a, c, u, b, d) => p[c] - p[a] = q[d] - q[b]
<1>. SUFFICES ASSUME NEW a \in 0 .. n, NEW c \in 0 .. n,
                     NEW b \in 0 .. m, NEW d \in 0 .. m,
                     Same(v, a, c, u, b, d)
              PROVE  p[c] - p[a] = q[d] - q[b]
  OBVIOUS
<1>. USE DEF Same
<1>. DEFINE l == c - a
            T == {k \in Nat : k <= l => p[a + k] - p[a] = q[b + k] - q[b]}
<1>0. l \in Nat /\ a + l = c /\ b + l = d
  OBVIOUS
<1>1. \A k \in 0 .. l : p[a + k] \in Int /\ q[b + k] \in Int
  BY DEF IsPrefixSum
<1>2. p[a] \in Int /\ q[b] \in Int /\ p[a + 0] = p[a] /\ q[b + 0] = q[b]
  BY DEF IsPrefixSum
<1>3. 0 \in T
  BY <1>2
<1>4. ASSUME NEW k \in Nat, k \in T PROVE k + 1 \in T
  <2>. SUFFICES ASSUME k + 1 <= l
                PROVE  p[a + (k + 1)] - p[a] = q[b + (k + 1)] - q[b]
    OBVIOUS
  <2>1. p[a + k] - p[a] = q[b + k] - q[b]
    BY <1>4
  <2>2. /\ a + (k + 1) \in 1 .. n /\ (a + (k + 1)) - 1 = a + k
        /\ b + (k + 1) \in 1 .. m /\ (b + (k + 1)) - 1 = b + k
        /\ k + 1 \in 1 .. l /\ k \in 0 .. l
    OBVIOUS
  <2>3. /\ p[a + (k + 1)] = p[a + k] + v[a + (k + 1)]
        /\ q[b + (k + 1)] = q[b + k] + u[b + (k + 1)]
    BY <2>2 DEF IsPrefixSum
  <2>3a. a + (k + 1) \in a + 1 .. c /\ (a + (k + 1)) + (b - a) = b + (k + 1)
    OBVIOUS
  <2>4. /\ v[a + (k + 1)] = u[b + (k + 1)]
        /\ p[a + (k + 1)] \in Int /\ q[b + (k + 1)] \in Int
        /\ p[a + k] \in Int /\ q[b + k] \in Int
        /\ v[a + (k + 1)] \in Int
    BY <1>1, <2>2, <2>3a
  <2>. DEFINE pk == p[a + k]
              qk == q[b + k]
              x == v[a + (k + 1)]
  <2>5. p[a + (k + 1)] = pk + x /\ q[b + (k + 1)] = qk + x /\ pk - p[a] = qk - q[b]
    BY <2>1, <2>3, <2>4
  <2>6. pk \in Int /\ qk \in Int /\ x \in Int
    BY <2>4
  <2>. HIDE DEF pk, qk, x
  <2>. QED  BY <1>2, <2>5, <2>6
<1>5. l \in T
  <2>. HIDE DEF T
  <2>. QED  BY <1>3, <1>4, SetInduction
<1>. QED  BY <1>0, <1>5

(* The same numbers at the beginning.                                      *)
LEMMA PrefixSums ==
  ASSUME NEW n \in Nat, NEW v, NEW p, IsPrefixSum(p, v, n),
         NEW m \in Nat, NEW u, NEW q, IsPrefixSum(q, u, m),
         NEW k \in 0 .. n, k <= m, \A i \in 1 .. k : v[i] = u[i]
  PROVE  p[k] = q[k]
<1>. DEFINE T == {j \in Nat : j <= k => p[j] = q[j]}
<1>1. 0 \in T
  BY DEF IsPrefixSum
<1>2. ASSUME NEW j \in Nat, j \in T PROVE j + 1 \in T
  <2>. SUFFICES ASSUME j + 1 <= k PROVE p[j + 1] = q[j + 1]
    OBVIOUS
  <2>1. j + 1 \in 1 .. n /\ j + 1 \in 1 .. m /\ j + 1 \in 1 .. k /\ (j + 1) - 1 = j
    OBVIOUS
  <2>2. p[j + 1] = p[j] + v[j + 1] /\ q[j + 1] = q[j] + u[j + 1]
    BY <2>1 DEF IsPrefixSum
  <2>3. p[j] = q[j] /\ v[j + 1] = u[j + 1]
    BY <1>2, <2>1
  <2>. QED  BY <2>2, <2>3
<1>3. k \in T
  <2>. HIDE DEF T
  <2>. QED  BY <1>1, <1>2, SetInduction
<1>. QED  BY <1>3

(* One more number at the end.                                             *)
LEMMA SumOfOneMore ==
  ASSUME NEW n \in Nat, NEW v, NEW p, IsPrefixSum(p, v, n),
         NEW u, NEW q, IsPrefixSum(q, u, n + 1),
         \A i \in 1 .. n : v[i] = u[i]
  PROVE  p[n] \in Int /\ q[n + 1] = p[n] + u[n + 1]
<1>. DEFINE m == n + 1
<1>1. m \in Nat /\ IsPrefixSum(q, u, m) /\ n \in 0 .. n /\ n <= m
  OBVIOUS
<1>2. m \in 1 .. m /\ m - 1 = n
  OBVIOUS
<1>. HIDE DEF m
<1>3. p[n] = q[n]
  BY <1>1, PrefixSums
<1>4. q[m] = q[n] + u[m]
  BY <1>1, <1>2 DEF IsPrefixSum
<1>. QED  BY <1>1, <1>3, <1>4 DEF IsPrefixSum, m

(* Another number at place k.                                              *)
LEMMA SumOfReplaced ==
  ASSUME NEW n \in Nat, NEW v, NEW p, IsPrefixSum(p, v, n),
         NEW u, NEW q, IsPrefixSum(q, u, n), NEW k \in 1 .. n,
         \A i \in 1 .. n : v[i] \in Int /\ u[i] \in Int,
         \A i \in 1 .. n : i # k => v[i] = u[i]
  PROVE  q[n] - p[n] = u[k] - v[k]
<1>1. p[k - 1] = q[k - 1]
  <2>1. k - 1 \in 0 .. n /\ k - 1 <= n /\ \A i \in 1 .. k - 1 : v[i] = u[i]
    OBVIOUS
  <2>. QED  BY <2>1, PrefixSums
<1>2. p[n] - p[k] = q[n] - q[k]
  <2>1. k \in 0 .. n /\ n \in 0 .. n /\ Same(v, k, n, u, k, n)
    BY DEF Same
  <2>. QED  BY <2>1, SegmentSums
<1>3. p[k] = p[k - 1] + v[k] /\ q[k] = q[k - 1] + u[k]
  BY DEF IsPrefixSum
<1>4. /\ p[k - 1] \in Int /\ q[k - 1] \in Int /\ p[k] \in Int /\ q[k] \in Int
      /\ p[n] \in Int /\ q[n] \in Int /\ v[k] \in Int /\ u[k] \in Int
  <2>1. k - 1 \in 0 .. n /\ k \in 0 .. n /\ n \in 0 .. n
    OBVIOUS
  <2>. QED  BY <2>1 DEF IsPrefixSum
<1>. QED  BY <1>1, <1>2, <1>3, <1>4

(* One more number, in place l, after the first k.                         *)
OneIsIn(v, n, k, u, m, l) ==
  /\ k \in 0 .. n /\ l = k + 1 /\ m = n + 1
  /\ \A i \in 1 .. n : v[i] \in Int
  /\ u[l] \in Int
  /\ \A i \in 1 .. k : v[i] = u[i]
  /\ \A i \in l .. n : v[i] = u[i + 1]

LEMMA SumOfInserted ==
  ASSUME NEW n \in Nat, NEW v, NEW p, IsPrefixSum(p, v, n),
         NEW m, NEW u, NEW q, IsPrefixSum(q, u, m),
         NEW k, NEW l, OneIsIn(v, n, k, u, m, l)
  PROVE  q[m] - p[n] = u[l]
<1>. USE DEF OneIsIn
<1>1. /\ m \in Nat /\ k <= m /\ k \in 0 .. m /\ n \in 0 .. n
      /\ l \in 0 .. m /\ m \in 0 .. m /\ l \in 1 .. m /\ l - 1 = k
  OBVIOUS
<1>2. p[k] = q[k]
  BY <1>1, PrefixSums
<1>3. p[n] - p[k] = q[m] - q[l]
  <2>1. Same(v, k, n, u, l, m)
    BY <1>1 DEF Same
  <2>. QED  BY <1>1, <2>1, SegmentSums
<1>4. q[l] = q[k] + u[l]
  BY <1>1 DEF IsPrefixSum
<1>5. /\ p[k] \in Int /\ q[k] \in Int /\ q[l] \in Int
      /\ p[n] \in Int /\ q[m] \in Int
  BY <1>1 DEF IsPrefixSum
<1>. QED  BY <1>2, <1>3, <1>4, <1>5

(* The sum of two sequences of numbers, one after the other.               *)
BothAreIn(v, n, u, m, w, l) ==
  /\ l = n + m
  /\ \A i \in 1 .. m : u[i] \in Int
  /\ \A i \in 1 .. n : v[i] = w[i]
  /\ \A i \in 1 .. m : u[i] = w[i + n]

LEMMA SumOfBoth ==
  ASSUME NEW n \in Nat, NEW v, NEW p, IsPrefixSum(p, v, n),
         NEW m \in Nat, NEW u, NEW q, IsPrefixSum(q, u, m),
         NEW l, NEW w, NEW r, IsPrefixSum(r, w, l),
         BothAreIn(v, n, u, m, w, l)
  PROVE  r[l] = p[n] + q[m]
<1>. USE DEF BothAreIn
<1>1. /\ l \in Nat /\ n \in 0 .. n /\ n <= l /\ n \in 0 .. l
      /\ 0 \in 0 .. m /\ m \in 0 .. m /\ l \in 0 .. l
  OBVIOUS
<1>2. p[n] = r[n]
  BY <1>1, PrefixSums
<1>3. q[m] - q[0] = r[l] - r[n]
  <2>1. Same(u, 0, m, w, n, l)
    BY <1>1 DEF Same
  <2>. QED  BY <1>1, <2>1, SegmentSums
<1>4. /\ q[0] = 0
      /\ p[n] \in Int /\ q[m] \in Int /\ r[n] \in Int /\ r[l] \in Int
  BY <1>1 DEF IsPrefixSum
<1>. QED  BY <1>2, <1>3, <1>4

(* A sum of naturals: none of them exceeds it.                             *)
LEMMA SumOfNaturals ==
  ASSUME NEW n \in Nat, NEW v, NEW p, IsPrefixSum(p, v, n),
         \A i \in 1 .. n : v[i] \in Nat
  PROVE  p[n] \in Nat /\ \A i \in 1 .. n : v[i] <= p[n]
<1>. DEFINE T == {k \in Nat : k <= n => /\ p[k] \in Nat
                                       /\ \A i \in 1 .. k : v[i] <= p[k]}
<1>1. 0 \in T
  BY DEF IsPrefixSum
<1>2. ASSUME NEW k \in Nat, k \in T PROVE k + 1 \in T
  <2>. SUFFICES ASSUME k + 1 <= n
                PROVE  p[k + 1] \in Nat /\ \A i \in 1 .. k + 1 : v[i] <= p[k + 1]
    OBVIOUS
  <2>1. p[k] \in Nat /\ \A i \in 1 .. k : v[i] <= p[k]
    BY <1>2
  <2>2. k + 1 \in 1 .. n /\ (k + 1) - 1 = k
    OBVIOUS
  <2>3. p[k + 1] = p[k] + v[k + 1] /\ v[k + 1] \in Nat
    BY <2>2 DEF IsPrefixSum
  <2>. QED  BY <2>1, <2>3
<1>3. n \in T
  <2>. HIDE DEF T
  <2>. QED  BY <1>1, <1>2, SetInduction
<1>. QED  BY <1>3
-----------------------------------------------------------------------------
(* Where the models insert into a list: the least and the greatest of a    *)
(* set of places, and what is where after the insertion.                   *)
LEMMA LeastOf ==
  ASSUME NEW S, S \subseteq Nat, S # {} PROVE Min(S) \in S
<1>1. \E x \in S : \A y \in S : x <= y
  BY HasMin
<1>. QED  BY <1>1 DEF Min

LEMMA GreatestOf ==
  ASSUME NEW n \in Nat, NEW S, S \subseteq 0 .. n, S # {}
  PROVE  Max(S) \in S /\ \A y \in S : y <= Max(S)
<1>1. \E x \in S : \A y \in S : x >= y
  BY HasMax
<1>2. Max(S) \in S /\ \A y \in S : Max(S) >= y
  BY <1>1 DEF Max
<1>. QED  BY <1>2

IsInserted(t, s, k, x) ==
  /\ Len(t) = Len(s) + 1
  /\ \A i \in 1 .. k : t[i] = s[i]
  /\ t[k + 1] = x
  /\ \A i \in k + 1 .. Len(s) : t[i + 1] = s[i]

LEMMA InsertedAt ==
  ASSUME NEW S, NEW s \in Seq(S), NEW k \in 0 .. Len(s), NEW x \in S
  PROVE  /\ InsertAt(s, k + 1, x) \in Seq(S)
         /\ IsInserted(InsertAt(s, k + 1, x), s, k, x)
<1>. DEFINE t == InsertAt(s, k + 1, x)
<1>. DEFINE n == Len(s)
            front == SubSeq(s, 1, k)
            back == SubSeq(s, k + 1, n)
<1>1. n \in Nat /\ \A i \in 1 .. n : s[i] \in S
  OBVIOUS
<1>2. /\ front \in Seq(S) /\ Len(front) = k
      /\ \A i \in 1 .. k : front[i] = s[i]
  <2>1. 1 \in Int /\ k \in Int /\ \A i \in 1 .. k : s[i] \in S
    BY <1>1
  <2>. QED  BY <2>1, SubSeqProperties
<1>3. /\ back \in Seq(S) /\ Len(back) = n - k
      /\ \A i \in 1 .. n - k : back[i] = s[k + i]
  <2>1. k + 1 \in Int /\ n \in Int /\ \A i \in k + 1 .. n : s[i] \in S
    BY <1>1
  <2>2. /\ back \in Seq(S)
        /\ Len(back) = IF k + 1 <= n THEN n - (k + 1) + 1 ELSE 0
        /\ \A i \in 1 .. n - (k + 1) + 1 : back[i] = s[(k + 1) + i - 1]
    BY <2>1, SubSeqProperties
  <2>. QED  BY <1>1, <2>2
<1>. HIDE DEF front, back
<1>4. /\ front \o <<x>> \in Seq(S) /\ Len(front \o <<x>>) = k + 1
      /\ \A i \in 1 .. k : (front \o <<x>>)[i] = s[i]
      /\ (front \o <<x>>)[k + 1] = x
  BY <1>1, <1>2
<1>. DEFINE head == front \o <<x>>
<1>. HIDE DEF head, n
<1>4a. t = head \o back
  <2>1. (k + 1) - 1 = k
    OBVIOUS
  <2>. QED  BY <2>1 DEF t, InsertAt, front, back, head, n
<1>5. /\ t \in Seq(S) /\ Len(t) = n + 1
      /\ \A i \in 1 .. n + 1 :
           t[i] = IF i <= k + 1 THEN head[i] ELSE back[i - (k + 1)]
  <2>1. head \in Seq(S) /\ Len(head) = k + 1
    BY <1>4 DEF head
  <2>2. /\ head \o back \in Seq(S) /\ Len(head \o back) = Len(head) + Len(back)
        /\ \A i \in 1 .. Len(head) + Len(back) :
             (head \o back)[i] = IF i <= Len(head) THEN head[i] ELSE back[i - Len(head)]
    BY <1>3, <2>1, ConcatProperties
  <2>3. Len(head) + Len(back) = n + 1
    BY <1>1, <1>3, <2>1 DEF n
  <2>. QED  BY <1>4a, <2>1, <2>2, <2>3
<1>. HIDE DEF t
<1>7. /\ Len(t) = n + 1
      /\ \A i \in 1 .. k : t[i] = s[i]
      /\ t[k + 1] = x
  <2>1. /\ k \in 0 .. n /\ \A i \in 1 .. k : head[i] = s[i]
        /\ head[k + 1] = x
    BY <1>4 DEF head, n
  <2>2. \A i \in 1 .. k + 1 : t[i] = head[i]
    BY <1>1, <1>5, <2>1
  <2>. QED  BY <1>1, <1>5, <2>1, <2>2
<1>8. \A i \in k + 1 .. n : t[i + 1] = s[i]
  <2>. SUFFICES ASSUME NEW i \in k + 1 .. n PROVE t[i + 1] = s[i]
    OBVIOUS
  <2>0. k \in 0 .. n
    BY DEF n
  <2>1. t[i + 1] = back[(i + 1) - (k + 1)]
    <3>1. i + 1 \in 1 .. n + 1 /\ ~ (i + 1 <= k + 1)
      BY <1>1, <2>0
    <3>. QED  BY <1>5, <3>1
  <2>2. (i + 1) - (k + 1) \in 1 .. n - k /\ k + ((i + 1) - (k + 1)) = i
    BY <1>1, <2>0
  <2>. QED  BY <1>3, <2>1, <2>2
<1>. QED  BY <1>5, <1>7, <1>8 DEF n, t, IsInserted
=============================================================================
