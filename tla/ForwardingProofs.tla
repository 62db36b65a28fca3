--------------------------- MODULE ForwardingProofs --------------------------
(***************************************************************************)
(* Theorems of the two halves of forwarding a request.                     *)
(*                                                                         *)
(* Failover, where it goes: for any combo and pool, any weights, any       *)
(* number of requests and changes.  No request tries a target twice, a     *)
(* sticky run is disturbed by nobody else's news, a key suffers for its    *)
(* own refusals only, and no target is ever owed much of a turn.           *)
(*                                                                         *)
(* PassthroughRelay, what it brings back: for any number of turns, any     *)
(* lengths of streams, queues and windows.  A turn's end is recorded once, *)
(* and a terminal that was seen is what it is remembered by.               *)
(***************************************************************************)
EXTENDS Failover, PassthroughRelay, FiniteSetTheorems, SequenceTheorems,
        WellFoundedInduction, TLAPS

-----------------------------------------------------------------------------
(* Sums over finite sets. *)

(* A set of numbers that is not empty has a least.                         *)
LEMMA LeastNumber ==
    ASSUME NEW S \in SUBSET Nat, S # {}
    PROVE  \E n \in S : \A m \in S : n <= m
  <1>1. PICK n \in S : \A m \in S : ~ (<<m, n>> \in OpToRel(<, Nat))
    BY NatLessThanWellFounded, WFMin
  <1>2. ASSUME NEW m \in S PROVE n <= m
    <2>1. m \in Nat /\ n \in Nat
      OBVIOUS
    <2>2. m < n => <<m, n>> \in OpToRel(<, Nat)
      BY <2>1 DEF OpToRel
    <2>3. ~ (m < n)
      BY <1>1, <2>2
    <2> QED
      BY <2>1, <2>3
  <1> QED
    BY <1>2

(* Of the subsets of a finite set that err, one has none smaller that errs. *)
LEMMA SmallestErring ==
    ASSUME NEW S, IsFiniteSet(S), NEW Bad \in SUBSET SUBSET S, Bad # {}
    PROVE  \E s \in Bad : /\ IsFiniteSet(s) /\ Cardinality(s) \in Nat
                          /\ \A u \in SUBSET S : Cardinality(u) < Cardinality(s) => u \notin Bad
  <1>1. \A s \in SUBSET S : IsFiniteSet(s) /\ Cardinality(s) \in Nat
    BY FS_Subset, FS_CardinalityType
  <1> DEFINE sizes == {Cardinality(s) : s \in Bad}
  <1>2. sizes \in SUBSET Nat /\ sizes # {}
    BY <1>1
  <1>3. PICK n \in sizes : \A m \in sizes : n <= m
    <2> HIDE DEF sizes
    <2> QED
      BY <1>2, LeastNumber
  <1>4. PICK s \in Bad : n = Cardinality(s)
    OBVIOUS
  <1>5. ASSUME NEW u \in Bad PROVE ~ (Cardinality(u) < Cardinality(s))
    <2>1. Cardinality(u) \in Nat /\ Cardinality(s) \in Nat /\ Cardinality(s) <= Cardinality(u)
      BY <1>1, <1>3, <1>4
    <2> QED
      BY <2>1
  <1> QED
    BY <1>1, <1>5

(* A finite set with an element less.                                      *)
LEMMA Smaller ==
    ASSUME NEW s, IsFiniteSet(s), NEW x \in s
    PROVE  /\ Cardinality(s \ {x}) < Cardinality(s)
           /\ Cardinality(s) \in Nat /\ Cardinality(s \ {x}) = Cardinality(s) - 1
  <1>1. IsFiniteSet(s \ {x}) /\ Cardinality(s \ {x}) = Cardinality(s) - 1
    BY FS_RemoveElement
  <1>2. Cardinality(s) \in Nat
    BY FS_CardinalityType
  <1> QED
    BY <1>1, <1>2

Chosen(s) == CHOOSE x \in s : TRUE

(* The fold's equation, for the weights w.                                 *)
IsSum(f, S, w) ==
    f = [s \in SUBSET S |-> IF s = {} THEN 0 ELSE w[Chosen(s)] + f[s \ {Chosen(s)}]]

(* On the subsets of a finite set there is such a function.                *)
LEMMA SumExists ==
    ASSUME NEW S, IsFiniteSet(S), NEW w \in [S -> Nat]
    PROVE  \E f : IsSum(f, S, w)
  <1> DEFINE Small(n) == {s \in SUBSET S : Cardinality(s) <= n}
             Sum(f, n) == f = [s \in Small(n) |->
                                 IF s = {} THEN 0 ELSE w[Chosen(s)] + f[s \ {Chosen(s)}]]
             Bad == {n \in Nat : ~ \E f : Sum(f, n)}
  <1>1. \A s \in SUBSET S : IsFiniteSet(s) /\ Cardinality(s) \in Nat
    BY FS_Subset, FS_CardinalityType
  <1>2. \A s \in SUBSET S : s # {} => Chosen(s) \in s
    BY DEF Chosen
  <1>3. 0 \notin Bad
    <2> DEFINE f == [s \in Small(0) |-> 0]
    <2>1. \A s \in Small(0) : s = {}
      BY <1>1, FS_EmptySet
    <2>2. Sum(f, 0)
      BY <2>1
    <2> QED
      BY <2>2
  <1>4. ASSUME NEW n \in Nat, n \notin Bad PROVE n + 1 \notin Bad
    <2>1. PICK f : Sum(f, n)
      BY <1>4
    <2> DEFINE g == [s \in Small(n + 1) |->
                       IF s = {} THEN 0 ELSE w[Chosen(s)] + f[s \ {Chosen(s)}]]
    <2>2. ASSUME NEW s \in Small(n) PROVE g[s] = f[s]
      <3>1. s \in Small(n + 1)
        BY <1>1
      <3>2. f[s] = IF s = {} THEN 0 ELSE w[Chosen(s)] + f[s \ {Chosen(s)}]
        BY <2>1
      <3> QED
        BY <3>1, <3>2
    <2>3. ASSUME NEW s \in Small(n + 1), s # {} PROVE s \ {Chosen(s)} \in Small(n)
      <3>1. Chosen(s) \in s /\ IsFiniteSet(s) /\ Cardinality(s) <= n + 1
        BY <1>1, <1>2, <2>3
      <3> DEFINE left == s \ {Chosen(s)}
      <3>2. Cardinality(left) = Cardinality(s) - 1 /\ Cardinality(s) \in Nat
        BY <3>1, Smaller
      <3>3. left \in SUBSET S
        OBVIOUS
      <3>4. Cardinality(left) <= n
        BY <3>1, <3>2
      <3> QED
        BY <3>3, <3>4
    <2>4. \A s \in Small(n + 1) : s # {} => g[s \ {Chosen(s)}] = f[s \ {Chosen(s)}]
      BY <2>2, <2>3
    <2>5. Sum(g, n + 1)
      BY <2>4
    <2> HIDE DEF Sum, g
    <2> QED
      BY <2>5
  <1>5. Bad = {}
    <2> SUFFICES ASSUME Bad # {} PROVE FALSE
      OBVIOUS
    <2>1. PICK n \in Bad : \A m \in Bad : n <= m
      <3>1. Bad \in SUBSET Nat
        OBVIOUS
      <3> HIDE DEF Bad
      <3> QED
        BY <3>1, LeastNumber
    <2>2. n \in Nat /\ n # 0
      BY <1>3
    <2>3. n - 1 \in Nat /\ n - 1 + 1 = n /\ ~ (n <= n - 1)
      BY <2>2
    <2>4. n - 1 \notin Bad
      BY <2>1, <2>3
    <2> QED
      BY <1>4, <2>3, <2>4
  <1>6. PICK f : Sum(f, Cardinality(S))
    <2>1. Cardinality(S) \in Nat
      BY <1>1
    <2> HIDE DEF Sum
    <2> QED
      BY <1>5, <2>1
  <1>7. Small(Cardinality(S)) = SUBSET S
    BY FS_Subset
  <1> HIDE DEF Small
  <1> QED
    BY <1>6, <1>7 DEF IsSum

(* Equal weights have equal sums, and the sums are numbers.                *)
LEMMA SumsAgree ==
    ASSUME NEW S, IsFiniteSet(S), NEW T \in SUBSET S, NEW w \in [S -> Nat],
           NEW f, IsSum(f, S, w), NEW g, IsSum(g, T, w)
    PROVE  \A s \in SUBSET T : f[s] = g[s] /\ f[s] \in Nat
  <1> DEFINE Bad == {s \in SUBSET T : ~ (f[s] = g[s] /\ f[s] \in Nat)}
  <1> SUFFICES ASSUME Bad # {} PROVE FALSE
    OBVIOUS
  <1>1. IsFiniteSet(T)
    BY FS_Subset
  <1>2. PICK s \in Bad : /\ IsFiniteSet(s) /\ Cardinality(s) \in Nat
                         /\ \A u \in SUBSET T : Cardinality(u) < Cardinality(s) => u \notin Bad
    <2>1. Bad \in SUBSET SUBSET T
      OBVIOUS
    <2> HIDE DEF Bad
    <2> QED
      BY <1>1, <2>1, SmallestErring
  <1>3. s \in SUBSET T /\ s \in SUBSET S
    OBVIOUS
  <1>4. /\ f[s] = IF s = {} THEN 0 ELSE w[Chosen(s)] + f[s \ {Chosen(s)}]
        /\ g[s] = IF s = {} THEN 0 ELSE w[Chosen(s)] + g[s \ {Chosen(s)}]
    BY <1>3 DEF IsSum
  <1>5. CASE s = {}
    BY <1>4, <1>5
  <1>6. CASE s # {}
    <2>1. Chosen(s) \in s
      BY <1>6 DEF Chosen
    <2>2. s \ {Chosen(s)} \in SUBSET T /\ s \ {Chosen(s)} \notin Bad
      BY <1>2, <1>3, <2>1, Smaller
    <2>3. w[Chosen(s)] \in Nat
      BY <1>3, <2>1
    <2> QED
      BY <1>4, <1>6, <2>2, <2>3
  <1> QED
    BY <1>5, <1>6

(* Any element may be taken first.                                         *)
LEMMA SumTakes ==
    ASSUME NEW S, IsFiniteSet(S), NEW w \in [S -> Nat], NEW f, IsSum(f, S, w)
    PROVE  \A s \in SUBSET S : \A x \in s : f[s] = w[x] + f[s \ {x}]
  <1> DEFINE Bad == {s \in SUBSET S : \E x \in s : f[s] # w[x] + f[s \ {x}]}
  <1> SUFFICES ASSUME Bad # {} PROVE FALSE
    OBVIOUS
  <1>1. \A s \in SUBSET S : f[s] \in Nat
    BY SumsAgree
  <1>2. PICK s \in Bad : /\ IsFiniteSet(s) /\ Cardinality(s) \in Nat
                         /\ \A u \in SUBSET S : Cardinality(u) < Cardinality(s) => u \notin Bad
    <2>1. Bad \in SUBSET SUBSET S
      OBVIOUS
    <2> HIDE DEF Bad
    <2> QED
      BY <2>1, SmallestErring
  <1>3. PICK x \in s : f[s] # w[x] + f[s \ {x}]
    OBVIOUS
  <1> DEFINE c == Chosen(s)
  <1>4. c \in s /\ s # {} /\ s \in SUBSET S
    BY <1>3 DEF Chosen
  <1> HIDE DEF c
  <1>5. f[s] = w[c] + f[s \ {c}]
    BY <1>4 DEF IsSum, c
  <1>6. x # c
    BY <1>3, <1>5
  <1>7. s \ {x} \notin Bad /\ s \ {c} \notin Bad
    BY <1>2, <1>3, <1>4, Smaller
  <1>8. f[s \ {c}] = w[x] + f[(s \ {c}) \ {x}]
    BY <1>3, <1>4, <1>6, <1>7
  <1>9. f[s \ {x}] = w[c] + f[(s \ {x}) \ {c}]
    BY <1>3, <1>4, <1>6, <1>7
  <1>10. (s \ {c}) \ {x} = (s \ {x}) \ {c}
    OBVIOUS
  <1>11. /\ w[x] \in Nat /\ w[c] \in Nat /\ f[(s \ {x}) \ {c}] \in Nat
    BY <1>1, <1>3, <1>4
  <1>12. f[s] = w[x] + f[s \ {x}]
    <2> DEFINE rest == f[(s \ {x}) \ {c}]
    <2>1. f[s \ {c}] = w[x] + rest /\ f[s \ {x}] = w[c] + rest
      BY <1>8, <1>9, <1>10
    <2>2. rest \in Nat
      BY <1>11
    <2> HIDE DEF rest
    <2> QED
      BY <1>5, <1>11, <2>1, <2>2
  <1> QED
    BY <1>3, <1>12

-----------------------------------------------------------------------------
(* Sums over the targets of a combo. *)

(* The combo has finitely many targets, and at least one.                  *)
LEMMA TargetsFinite ==
    /\ IsFiniteSet(Targets) /\ Cardinality(Targets) \in Nat /\ Targets # {}
    /\ \A S \in SUBSET Targets : IsFiniteSet(S) /\ Cardinality(S) \in Nat
  <1>1. Order \in Seq(Targets) /\ Len(Order) \in Nat /\ DOMAIN Order = 1 .. Len(Order)
    BY FailoverConstants
  <1>2. IsFiniteSet(1 .. Len(Order))
    BY <1>1, FS_Interval
  <1>3. Order \in Surjection(1 .. Len(Order), Targets)
    BY <1>1 DEF Surjection, Targets, Range
  <1>4. IsFiniteSet(Targets)
    BY <1>2, <1>3, FS_Surjection
  <1>5. 1 \in DOMAIN Order
    BY <1>1, FailoverConstants
  <1>6. Targets # {}
    BY <1>5 DEF Targets, Range
  <1> QED
    BY <1>4, <1>6, FS_Subset, FS_CardinalityType

(* f gives each set of targets the sum of v over it.                       *)
Additive(f, v) ==
    /\ f \in [SUBSET Targets -> Int] /\ f[{}] = 0
    /\ \A S \in SUBSET Targets : \A t \in S : f[S] = v[t] + f[S \ {t}]

(* A statement about sets of targets that holds of {}, and of a set when   *)
(* it does with some target less, holds of all: here for sums of parts.    *)
LEMMA Split ==
    ASSUME NEW v \in [Targets -> Int], NEW f, Additive(f, v),
           NEW S \in SUBSET Targets, NEW M \in SUBSET S
    PROVE  f[S] = f[M] + f[S \ M]
  <1> DEFINE Bad == {U \in SUBSET S : f[S] # f[U] + f[S \ U]}
  <1> SUFFICES ASSUME Bad # {} PROVE FALSE
    OBVIOUS
  <1>1. PICK U \in Bad : /\ IsFiniteSet(U) /\ Cardinality(U) \in Nat
                         /\ \A V \in SUBSET S : Cardinality(V) < Cardinality(U) => V \notin Bad
    <2>1. Bad \in SUBSET SUBSET S /\ IsFiniteSet(S)
      BY TargetsFinite
    <2> HIDE DEF Bad
    <2> QED
      BY <2>1, SmallestErring
  <1>2. U \in SUBSET S /\ f[S] # f[U] + f[S \ U]
    OBVIOUS
  <1>3. \A V \in SUBSET S : f[V] \in Int
    BY DEF Additive
  <1>4. U # {}
    <2> SUFFICES ASSUME U = {} PROVE FALSE
      OBVIOUS
    <2>1. f[U] = 0 /\ S \ U = S /\ f[S] \in Int
      BY <1>3 DEF Additive
    <2> HIDE DEF Bad
    <2> QED
      BY <1>2, <2>1
  <1>5. PICK t \in U : TRUE
    BY <1>4
  <1>6. U \ {t} \in SUBSET S /\ U \ {t} \notin Bad
    BY <1>1, <1>2, <1>5, Smaller
  <1> DEFINE V == U \ {t}
             R == S \ V
  <1>7. f[S] = f[V] + f[R]
    BY <1>6
  <1>8. t \in R /\ R \ {t} = S \ U /\ R \in SUBSET Targets /\ U \in SUBSET Targets
    BY <1>2, <1>5
  <1> HIDE DEF R
  <1>9. f[R] = v[t] + f[S \ U]
    <2>1. f[R] = v[t] + f[R \ {t}]
      BY <1>8 DEF Additive
    <2> QED
      BY <1>8, <2>1
  <1>10. f[U] = v[t] + f[V]
    BY <1>5, <1>8 DEF Additive
  <1>11. v[t] \in Int /\ f[V] \in Int /\ f[S \ U] \in Int /\ f[U] \in Int
    <2>1. t \in Targets /\ V \in SUBSET S /\ S \ U \in SUBSET S
      BY <1>2, <1>5
    <2> HIDE DEF V
    <2> QED
      BY <1>2, <1>3, <2>1
  <1> HIDE DEF V
  <1> QED
    BY <1>2, <1>7, <1>9, <1>10, <1>11

(* n numbers that are at most x add up to at most n * x.                   *)
LEMMA AtMost ==
    ASSUME NEW v \in [Targets -> Int], NEW f, Additive(f, v), NEW x \in Int,
           NEW S \in SUBSET Targets, \A t \in S : v[t] <= x
    PROVE  f[S] <= Cardinality(S) * x
  <1> DEFINE Bad == {U \in SUBSET S : ~ (f[U] <= Cardinality(U) * x)}
  <1> SUFFICES ASSUME Bad # {} PROVE FALSE
    OBVIOUS
  <1>1. PICK U \in Bad : /\ IsFiniteSet(U) /\ Cardinality(U) \in Nat
                         /\ \A V \in SUBSET S : Cardinality(V) < Cardinality(U) => V \notin Bad
    <2>1. Bad \in SUBSET SUBSET S /\ IsFiniteSet(S)
      BY TargetsFinite
    <2> HIDE DEF Bad
    <2> QED
      BY <2>1, SmallestErring
  <1>2. U \in SUBSET S /\ ~ (f[U] <= Cardinality(U) * x)
    OBVIOUS
  <1>3. U # {}
    <2> SUFFICES ASSUME U = {} PROVE FALSE
      OBVIOUS
    <2>1. f[U] = 0 /\ Cardinality(U) = 0
      BY FS_EmptySet DEF Additive
    <2>2. 0 * x = 0 /\ 0 <= 0
      OBVIOUS
    <2> HIDE DEF Bad
    <2> QED
      BY <1>2, <2>1, <2>2
  <1>4. PICK t \in U : TRUE
    BY <1>3
  <1> DEFINE V == U \ {t}
  <1>5. /\ V \in SUBSET S /\ V \notin Bad
        /\ Cardinality(V) = Cardinality(U) - 1 /\ Cardinality(U) \in Nat
    BY <1>1, <1>2, <1>4, Smaller
  <1>6. f[V] <= Cardinality(V) * x
    BY <1>5
  <1>7. f[U] = v[t] + f[V]
    BY <1>2, <1>4 DEF Additive
  <1>8. v[t] \in Int /\ v[t] <= x /\ f[V] \in Int
    <2>1. t \in S /\ t \in Targets /\ V \in SUBSET Targets
      BY <1>2, <1>4
    <2> HIDE DEF V
    <2> QED
      BY <2>1 DEF Additive
  <1> DEFINE c == Cardinality(U)
  <1>9. (c - 1) * x + x = c * x
    BY <1>5
  <1>10. (c - 1) * x \in Int /\ c * x \in Int
    BY <1>5
  <1>11. f[V] <= (c - 1) * x
    BY <1>5, <1>6
  <1>12. ~ (f[U] <= c * x)
    BY <1>2
  <1> HIDE DEF V, c
  <1> DEFINE p == (c - 1) * x
             q == c * x
  <1> HIDE DEF p, q
  <1> QED
    BY <1>7, <1>8, <1>9, <1>10, <1>11, <1>12 DEF p, q

(* The weights of the targets have such sums.                              *)
LEMMA WeightsAdd ==
    /\ Additive([S \in SUBSET Targets |-> TotalWeight(S)], Weight)
    /\ \A S \in SUBSET Targets : TotalWeight(S) \in Nat
  <1>1. Weight \in [Targets -> Nat] /\ Weight \in [Targets -> Nat \ {0}]
    BY FailoverConstants
  <1>2. PICK f : IsSum(f, Targets, Weight)
    BY <1>1, TargetsFinite, SumExists
  <1>3. ASSUME NEW S \in SUBSET Targets
        PROVE  TotalWeight(S) = f[S] /\ f[S] \in Nat
    <2> DEFINE Folds(g) == g = [s \in SUBSET S |->
                      IF s = {} THEN 0
                      ELSE Weight[CHOOSE x \in s : TRUE] + g[s \ {CHOOSE x \in s : TRUE}]]
               g == CHOOSE g : Folds(g)
               v == [t \in S |-> Weight[t]]
    <2>1. TotalWeight(S) = g[S]
      BY DEF TotalWeight, MapThenSumSet, MapThenFoldSet
    <2>2. \A h : (IsSum(h, S, Weight) <=> Folds(h)) /\ (IsSum(h, S, Weight) <=> IsSum(h, S, v))
      BY DEF IsSum, Chosen
    <2>3. v \in [S -> Nat] /\ IsFiniteSet(S)
      BY <1>1, TargetsFinite
    <2>4. \E h : IsSum(h, S, v)
      <3> HIDE DEF v
      <3> QED
        BY <2>3, SumExists
    <2> HIDE DEF v, Folds
    <2>5. Folds(g)
      BY <2>2, <2>4
    <2> HIDE DEF g
    <2>6. IsSum(g, S, Weight)
      BY <2>2, <2>5
    <2> QED
      BY <1>1, <1>2, <2>1, <2>6, TargetsFinite, SumsAgree
  <1>4. f[{}] = 0
    BY <1>2 DEF IsSum
  <1>5. \A S \in SUBSET Targets : \A t \in S : f[S] = Weight[t] + f[S \ {t}]
    <2> DEFINE T == Targets
               w == Weight
    <2>1. IsFiniteSet(T) /\ w \in [T -> Nat] /\ IsSum(f, T, w)
      BY <1>1, <1>2, TargetsFinite
    <2> HIDE DEF T, w
    <2>2. ASSUME NEW s \in SUBSET T, NEW x \in s PROVE f[s] = w[x] + f[s \ {x}]
      BY <2>1, SumTakes
    <2> QED
      BY <2>2 DEF T, w
  <1> DEFINE sum == [S \in SUBSET Targets |-> TotalWeight(S)]
  <1>6. sum \in [SUBSET Targets -> Int] /\ sum[{}] = 0
    BY <1>3, <1>4
  <1>7. ASSUME NEW S \in SUBSET Targets, NEW t \in S
        PROVE  sum[S] = Weight[t] + sum[S \ {t}]
    <2>1. sum[S] = f[S] /\ sum[S \ {t}] = f[S \ {t}]
      BY <1>3
    <2> QED
      BY <1>5, <2>1
  <1> HIDE DEF sum
  <1>8. Additive(sum, Weight)
    BY <1>6, <1>7 DEF Additive
  <1> QED
    BY <1>3, <1>8 DEF sum

-----------------------------------------------------------------------------
(* Arithmetic of the ring. *)

(* Factors that are not negative keep an order.                            *)
LEMMA Times ==
    ASSUME NEW m \in Nat, NEW a \in Int, NEW b \in Int, a <= b
    PROVE  m * a <= m * b
  <1>1. m * (b - a) = m * b - m * a
    OBVIOUS
  <1>2. m * (b - a) >= 0
    <2> DEFINE d == b - a
    <2>1. d \in Nat
      OBVIOUS
    <2> HIDE DEF d
    <2>2. m * d >= 0
      BY <2>1
    <2> QED BY <2>2 DEF d
  <1> QED
    BY <1>1, <1>2

LEMMA Cancel ==
    ASSUME NEW m \in Nat, m >= 1, NEW a \in Int, NEW b \in Int, m * a <= m * b
    PROVE  a <= b
  <1> SUFFICES ASSUME b + 1 <= a PROVE FALSE
    OBVIOUS
  <1>1. m * (b + 1) <= m * a
    BY Times
  <1>2. m * (b + 1) = m * b + m
    OBVIOUS
  <1>3. m * a \in Int /\ m * b \in Int
    OBVIOUS
  <1> QED
    BY <1>1, <1>2, <1>3

(* A sum s of k numbers, of which m are at most x: without the m it is a,  *)
(* and with x it is b.                                                     *)
LEMMA Exchange ==
    ASSUME NEW n \in Int, NEW k \in Int, NEW m \in Nat, m >= 1, NEW w \in Nat,
           NEW a \in Int, NEW b \in Int, NEW s \in Int, NEW x \in Int,
           s <= a + m * x, s + x <= b + w,
           2 * a <= w * ((k - m) * (n - (k - m))),
           2 * b <= w * ((k + 1) * (n - (k + 1)))
    PROVE  2 * s <= w * (k * (n - k))
  <1> DEFINE p == (k - m) * (n - (k - m))
             q == (k + 1) * (n - (k + 1))
             r == k * (n - k)
  <1>1. p + m * q + 2 * m = (m + 1) * r - m * m + m
    OBVIOUS
  <1>2. p \in Int /\ q \in Int /\ r \in Int
    OBVIOUS
  <1>3. 2 * a <= w * p /\ 2 * b <= w * q
    OBVIOUS
  <1> HIDE DEF p, q, r
  <1>4. p + m * q + 2 * m <= (m + 1) * r
    <2>1. m * m >= m
      BY Times
    <2>2. m * m \in Int /\ (m + 1) * r \in Int /\ m * q \in Int
      BY <1>2
    <2> QED
      BY <1>1, <1>2, <2>1, <2>2
  <1>5. m * (s + x) <= m * (b + w)
    BY Times
  <1>6. m * (s + x) = m * s + m * x /\ m * (b + w) = m * b + m * w
    OBVIOUS
  <1>7. (m + 1) * s = m * s + s /\ m * s \in Int /\ m * x \in Int /\ m * b \in Int /\ m * w \in Int
    OBVIOUS
  <1>8. (m + 1) * s <= a + m * b + m * w
    BY <1>5, <1>6, <1>7
  <1>9. m * (2 * b) <= m * (w * q)
    BY <1>2, <1>3, Times
  <1>10. m * (2 * b) = 2 * (m * b)
    OBVIOUS
  <1>11. (m + 1) * (2 * s) = 2 * ((m + 1) * s)
    OBVIOUS
  <1>12. w * (p + m * q + 2 * m) = w * p + m * (w * q) + 2 * (m * w)
    BY <1>2
  <1>13. /\ w * p \in Int /\ m * (w * q) \in Int /\ (m + 1) * s \in Int
         /\ w * (p + m * q + 2 * m) \in Int /\ m * q \in Int
    BY <1>2
  <1>14. (m + 1) * (2 * s) <= w * (p + m * q + 2 * m)
    BY <1>3, <1>7, <1>8, <1>9, <1>10, <1>11, <1>12, <1>13
  <1>15. w * (p + m * q + 2 * m) <= w * ((m + 1) * r)
    BY <1>2, <1>4, <1>13, Times
  <1>16. w * ((m + 1) * r) = (m + 1) * (w * r)
    BY <1>2
  <1>17. (m + 1) * (2 * s) <= (m + 1) * (w * r)
    <2>1. (m + 1) * (2 * s) \in Int /\ w * ((m + 1) * r) \in Int
      BY <1>2
    <2> QED
      BY <1>13, <1>14, <1>15, <1>16, <2>1
  <1>18. m + 1 \in Nat /\ m + 1 >= 1 /\ w * r \in Int /\ 2 * s \in Int
    BY <1>2
  <1>19. 2 * s <= w * r
    BY <1>17, <1>18, Cancel
  <1> QED
    BY <1>19 DEF r

-----------------------------------------------------------------------------
(* pickComboTarget. *)

(* Some score is the greatest.                                             *)
LEMMA Greatest ==
    ASSUME NEW score \in [Targets -> Int], NEW ts \in SUBSET Targets, ts # {}
    PROVE  \E t \in ts : \A u \in ts : score[u] <= score[t]
  <1> DEFINE Bad == {U \in SUBSET ts : U # {} /\ ~ \E t \in U : \A u \in U : score[u] <= score[t]}
  <1> SUFFICES ASSUME Bad # {} PROVE FALSE
    OBVIOUS
  <1>1. PICK U \in Bad : /\ IsFiniteSet(U) /\ Cardinality(U) \in Nat
                         /\ \A V \in SUBSET ts : Cardinality(V) < Cardinality(U) => V \notin Bad
    <2>1. Bad \in SUBSET SUBSET ts /\ IsFiniteSet(ts)
      BY TargetsFinite
    <2> HIDE DEF Bad
    <2> QED
      BY <2>1, SmallestErring
  <1>2. /\ U \in SUBSET ts /\ U \in SUBSET Targets
        /\ ~ \E t \in U : \A u \in U : score[u] <= score[t]
    OBVIOUS
  <1>3. PICK t \in U : TRUE
    OBVIOUS
  <1> DEFINE V == U \ {t}
  <1>4. V \in SUBSET ts /\ V \notin Bad
    BY <1>1, <1>2, <1>3, Smaller
  <1>5. score[t] \in Int /\ \A u \in U : score[u] \in Int
    BY <1>2, <1>3
  <1>6. CASE V = {}
    <2>1. \A u \in U : u = t
      BY <1>6
    <2> QED
      BY <1>2, <1>3, <1>5, <2>1
  <1>7. CASE V # {}
    <2>1. PICK v \in V : \A u \in V : score[u] <= score[v]
      BY <1>4, <1>7
    <2>2. \A u \in U : u = t \/ u \in V
      OBVIOUS
    <2>3. v \in U
      BY <2>1
    <2> HIDE DEF V, Bad
    <2>4. CASE score[t] <= score[v]
      BY <1>2, <2>1, <2>2, <2>3, <2>4
    <2>5. CASE score[v] <= score[t]
      <3>1. \A u \in U : score[u] <= score[t]
        BY <1>5, <2>1, <2>2, <2>3, <2>5
      <3> QED
        BY <1>2, <1>3, <3>1
    <2> QED
      BY <1>3, <1>5, <2>3, <2>4, <2>5
  <1> QED
    BY <1>6, <1>7

(* The first of some targets is one of them.                               *)
LEMMA FirstIsOne ==
    ASSUME NEW ts \in SUBSET Targets, ts # {}
    PROVE  First(ts) \in ts
  <1> DEFINE I == {i \in 1 .. Len(Order) : Order[i] \in ts}
             at == SelectInSeq(Order, LAMBDA t : t \in ts)
  <1>1. Order \in Seq(Targets) /\ Len(Order) \in Nat /\ DOMAIN Order = 1 .. Len(Order)
    BY FailoverConstants
  <1>2. I # {}
    <2>1. PICK t \in ts : TRUE
      OBVIOUS
    <2>2. \E i \in DOMAIN Order : Order[i] = t
      BY <2>1 DEF Targets, Range
    <2> QED
      BY <1>1, <2>1, <2>2
  <1>3. I \in SUBSET Nat
    BY <1>1
  <1>4. \E i \in I : \A j \in I : i <= j
    <2> HIDE DEF I
    <2> QED
      BY <1>2, <1>3, LeastNumber
  <1>5. at = CHOOSE i \in I : \A j \in I : i <= j
    BY <1>2 DEF SelectInSeq, Min
  <1>6. at \in I
    <2> HIDE DEF I, at
    <2> QED
      BY <1>4, <1>5
  <1> QED
    BY <1>6 DEF First

(* The best target is one of those to choose from, and none scores more.   *)
LEMMA BestIsBest ==
    ASSUME NEW score \in [Targets -> Int], NEW ts \in SUBSET Targets, ts # {}
    PROVE  Best(score, ts) \in ts /\ \A u \in ts : score[u] <= score[Best(score, ts)]
  <1> DEFINE top == {t \in ts : \A u \in ts : score[u] <= score[t]}
  <1>1. top # {} /\ top \in SUBSET Targets
    BY Greatest
  <1>2. First(top) \in top
    <2> HIDE DEF top
    <2> QED
      BY <1>1, FirstIsOne
  <1>3. Best(score, ts) = First(top)
    BY DEF Best
  <1> QED
    BY <1>2, <1>3

(* What some targets are owed, taken together, is at most half a turn of   *)
(* the ring for each of them and each of the others; all together are owed *)
(* nothing.  What one is owed, the others have to pay, so this bounds the  *)
(* debts too.                                                              *)
Allowed(k) == TotalWeight(Targets) * (k * (Cardinality(Targets) - k))

Balanced(f, w) ==
    /\ Additive(f, w) /\ f[Targets] = 0
    /\ \A S \in SUBSET Targets : 2 * f[S] <= Allowed(Cardinality(S))

(* Parts weigh no more than the whole.                                     *)
LEMMA PartsWeighLess ==
    ASSUME NEW S \in SUBSET Targets, NEW M \in SUBSET S
    PROVE  TotalWeight(M) <= TotalWeight(S)
  <1> DEFINE wt == [U \in SUBSET Targets |-> TotalWeight(U)]
  <1>1. Additive(wt, Weight) /\ Weight \in [Targets -> Int]
    BY WeightsAdd, FailoverConstants
  <1>2. M \in SUBSET Targets /\ S \ M \in SUBSET Targets
    OBVIOUS
  <1>3. wt[S] = TotalWeight(S) /\ wt[M] = TotalWeight(M) /\ wt[S \ M] = TotalWeight(S \ M)
    BY <1>2
  <1> HIDE DEF wt
  <1>4. wt[S] = wt[M] + wt[S \ M]
    BY <1>1, Split
  <1>5. wt[S] \in Nat /\ wt[M] \in Nat /\ wt[S \ M] \in Nat
    BY <1>2, <1>3, WeightsAdd
  <1>6. wt[M] <= wt[S]
    BY <1>4, <1>5
  <1> QED
    BY <1>3, <1>6

(* What a set is owed when those of ts have been given their weights.      *)
Scored(f, ts) == [S \in SUBSET Targets |-> f[S] + TotalWeight(S \cap ts)]

(* The scores are what the targets are owed and the weights of those that  *)
(* take part.                                                              *)
LEMMA ScoresAdd ==
    ASSUME NEW w \in [Targets -> Int], NEW f, Additive(f, w), NEW ts \in SUBSET Targets,
           NEW v \in [Targets -> Int],
           \A t \in Targets : v[t] = w[t] + IF t \in ts THEN Weight[t] ELSE 0
    PROVE  Additive(Scored(f, ts), v)
  <1> DEFINE h == Scored(f, ts)
  <1>0. h = [S \in SUBSET Targets |-> f[S] + TotalWeight(S \cap ts)]
    BY DEF Scored
  <1> HIDE DEF h
  <1> DEFINE wt == [S \in SUBSET Targets |-> TotalWeight(S)]
  <1>1. Additive(wt, Weight) /\ Weight \in [Targets -> Int]
    BY WeightsAdd, FailoverConstants
  <1>2. \A S \in SUBSET Targets : /\ f[S] \in Int /\ TotalWeight(S \cap ts) \in Int
                                  /\ h[S] = f[S] + TotalWeight(S \cap ts)
    <2> SUFFICES ASSUME NEW S \in SUBSET Targets
                 PROVE  /\ f[S] \in Int /\ TotalWeight(S \cap ts) \in Int
                        /\ h[S] = f[S] + TotalWeight(S \cap ts)
      OBVIOUS
    <2>1. S \cap ts \in SUBSET Targets
      OBVIOUS
    <2>2. f[S] \in Int /\ TotalWeight(S \cap ts) \in Int
      BY <2>1, WeightsAdd DEF Additive
    <2> QED
      BY <1>0, <2>2
  <1>3. h \in [SUBSET Targets -> Int]
    <2>1. ASSUME NEW S \in SUBSET Targets PROVE f[S] + TotalWeight(S \cap ts) \in Int
      <3>1. f[S] \in Int /\ TotalWeight(S \cap ts) \in Int
        BY <1>2
      <3> QED
        BY <3>1
    <2> QED
      BY <1>0, <2>1
  <1>4. h[{}] = 0
    <2>1. {} \cap ts = {} /\ wt[{}] = 0 /\ wt[{}] = TotalWeight({}) /\ f[{}] = 0
      BY <1>1 DEF Additive
    <2> QED
      BY <1>2, <2>1
  <1>5. ASSUME NEW S \in SUBSET Targets, NEW t \in S
        PROVE  h[S] = v[t] + h[S \ {t}]
    <2> DEFINE R == S \ {t}
    <2>1. R \in SUBSET Targets /\ S \cap ts \in SUBSET Targets /\ t \in Targets
      OBVIOUS
    <2>2. f[S] = w[t] + f[R]
      BY DEF Additive
    <2>3. h[S] = f[S] + TotalWeight(S \cap ts) /\ h[R] = f[R] + TotalWeight(R \cap ts)
      BY <1>2, <2>1
    <2>4. TotalWeight(S \cap ts) = (IF t \in ts THEN Weight[t] ELSE 0) + TotalWeight(R \cap ts)
      <3>1. CASE t \in ts
        <4> DEFINE A == S \cap ts
                   B == R \cap ts
        <4>1. t \in A /\ A \ {t} = B /\ A \in SUBSET Targets /\ B \in SUBSET Targets
          BY <3>1
        <4>2. wt[A] = TotalWeight(A) /\ wt[B] = TotalWeight(B)
          BY <4>1
        <4> HIDE DEF wt, A, B
        <4>3. wt[A] = Weight[t] + wt[A \ {t}]
          BY <1>1, <4>1 DEF Additive
        <4>4. TotalWeight(A) = Weight[t] + TotalWeight(B)
          BY <4>1, <4>2, <4>3
        <4> QED
          BY <3>1, <4>4 DEF A, B
      <3>2. CASE t \notin ts
        <4>1. TotalWeight(S \cap ts) = TotalWeight(R \cap ts)
          <5>1. S \cap ts = R \cap ts
            BY <3>2
          <5> QED
            BY <5>1
        <4>2. TotalWeight(R \cap ts) \in Int
          BY <1>2, <2>1
        <4>3. (IF t \in ts THEN Weight[t] ELSE 0) = 0
          BY <3>2
        <4> HIDE DEF R
        <4> QED
          BY <4>1, <4>2, <4>3
      <3> QED
        BY <3>1, <3>2
    <2>5. v[t] = w[t] + IF t \in ts THEN Weight[t] ELSE 0
      BY <2>1
    <2>6. /\ w[t] \in Int /\ f[R] \in Int /\ TotalWeight(R \cap ts) \in Int
          /\ (IF t \in ts THEN Weight[t] ELSE 0) \in Int
      <3>1. f[R] \in Int /\ TotalWeight(R \cap ts) \in Int
        BY <1>2, <2>1
      <3> QED
        BY <1>1, <2>1, <3>1
    <2> HIDE DEF R
    <2> DEFINE own == IF t \in ts THEN Weight[t] ELSE 0
    <2> HIDE DEF own
    <2>7. h[S] = v[t] + h[R]
      BY <2>2, <2>3, <2>4, <2>5, <2>6 DEF own
    <2> QED
      BY <2>7 DEF R
  <1> HIDE DEF wt
  <1>6. Additive(h, v)
    BY <1>3, <1>4, <1>5 DEF Additive
  <1> QED
    BY <1>6 DEF h

(* The chosen target pays c.                                               *)
LEMMA PaymentAdds ==
    ASSUME NEW v \in [Targets -> Int], NEW h, Additive(h, v), NEW best \in Targets, NEW c \in Int,
           NEW g, g = [S \in SUBSET Targets |-> h[S] - IF best \in S THEN c ELSE 0],
           NEW u, u = [v EXCEPT ![best] = @ - c]
    PROVE  Additive(g, u)
  <1> DEFINE pays(S) == IF best \in S THEN c ELSE 0
  <1>1. \A S \in SUBSET Targets : h[S] \in Int /\ pays(S) \in Int /\ g[S] = h[S] - pays(S)
    BY DEF Additive
  <1>2. g \in [SUBSET Targets -> Int]
    <2>1. \A S \in SUBSET Targets : g[S] \in Int
      <3> SUFFICES ASSUME NEW S \in SUBSET Targets PROVE g[S] \in Int
        OBVIOUS
      <3>1. h[S] \in Int /\ pays(S) \in Int /\ g[S] = h[S] - pays(S)
        BY <1>1
      <3> HIDE DEF pays
      <3> QED
        BY <3>1
    <2> QED
      BY <2>1
  <1>3. g[{}] = 0
    BY DEF Additive
  <1>4. ASSUME NEW S \in SUBSET Targets, NEW t \in S
        PROVE  g[S] = u[t] + g[S \ {t}]
    <2> DEFINE R == S \ {t}
    <2>1. h[S] = v[t] + h[R] /\ R \in SUBSET Targets /\ t \in Targets /\ v[t] \in Int
      BY DEF Additive
    <2>2. /\ g[S] = h[S] - pays(S) /\ g[R] = h[R] - pays(R)
          /\ h[S] \in Int /\ h[R] \in Int /\ pays(S) \in Int /\ pays(R) \in Int
      BY <1>1, <2>1
    <2>3. CASE t = best
      <3>1. u[t] = v[t] - c /\ pays(S) = c /\ pays(R) = 0
        BY <2>1, <2>3
      <3> HIDE DEF R, pays
      <3>2. g[S] = u[t] + g[R]
        BY <2>1, <2>2, <3>1
      <3> QED
        BY <3>2 DEF R
    <2>4. CASE t # best
      <3>1. u[t] = v[t] /\ pays(S) = pays(R)
        BY <2>1, <2>4
      <3> HIDE DEF R, pays
      <3>2. g[S] = u[t] + g[R]
        BY <2>1, <2>2, <3>1
      <3> QED
        BY <3>2 DEF R
    <2> QED
      BY <2>3, <2>4
  <1> QED
    BY <1>2, <1>3, <1>4 DEF Additive

(* A turn of the ring keeps the balance, whichever targets may be tried.   *)
LEMMA SmoothBalances ==
    ASSUME NEW r, r.weights \in [Targets -> Int], NEW f, Balanced(f, r.weights),
           NEW ts \in SUBSET Targets, ts # {}
    PROVE  /\ Smooth(r, ts).active \in ts /\ Smooth(r, ts).successes = 0
           /\ Smooth(r, ts).weights \in [Targets -> Int]
           /\ \E g : Balanced(g, Smooth(r, ts).weights)
  <1> DEFINE w == r.weights
             v == Score(r, ts)
             best == Best(v, ts)
             c == TotalWeight(ts)
             W == TotalWeight(Targets)
             N == Cardinality(Targets)
             h == Scored(f, ts)
             u == [v EXCEPT ![best] = @ - c]
             g == [S \in SUBSET Targets |-> h[S] - IF best \in S THEN c ELSE 0]
  <1>1. /\ Weight \in [Targets -> Int] /\ c \in Nat /\ W \in Nat
        /\ \A S \in SUBSET Targets : TotalWeight(S) \in Nat
    BY WeightsAdd, FailoverConstants
  <1>2. /\ v \in [Targets -> Int]
        /\ \A t \in Targets : v[t] = w[t] + IF t \in ts THEN Weight[t] ELSE 0
    <2>1. v = [t \in Targets |-> w[t] + IF t \in ts THEN Weight[t] ELSE 0]
      BY DEF Score
    <2>2. ASSUME NEW t \in Targets PROVE w[t] + (IF t \in ts THEN Weight[t] ELSE 0) \in Int
      BY <1>1
    <2> HIDE DEF v, w
    <2> QED
      BY <2>1, <2>2
  <1>3. Additive(f, w) /\ f[Targets] = 0
    BY DEF Balanced
  <1>4. best \in ts /\ \A t \in ts : v[t] <= v[best]
    <2> HIDE DEF v
    <2> QED
      BY <1>2, BestIsBest
  <1>5. best \in Targets /\ v[best] \in Int
    BY <1>2, <1>4
  <1>6. Smooth(r, ts) = [active |-> best, successes |-> 0, weights |-> u]
    BY DEF Smooth
  <1>7. Additive(h, v)
    <2>1. w \in [Targets -> Int]
      OBVIOUS
    <2> HIDE DEF v, w, best, c, u, g
    <2> QED
      BY <1>2, <1>3, <2>1, ScoresAdd
  <1>8. Additive(g, u)
    <2>1. /\ g = [S \in SUBSET Targets |-> h[S] - IF best \in S THEN c ELSE 0]
          /\ u = [v EXCEPT ![best] = @ - c] /\ c \in Int
      BY <1>1
    <2> HIDE DEF h, v, c, g, u, best
    <2> QED
      BY <1>2, <1>5, <1>7, <2>1, PaymentAdds
  <1>9. u \in [Targets -> Int]
    <2>1. v[best] - c \in Int
      <3> HIDE DEF v, best, c
      <3> QED
        BY <1>1, <1>5
    <2> HIDE DEF v, best, c
    <2> QED
      BY <1>2, <2>1
  <1>10. \A S \in SUBSET Targets : /\ h[S] = f[S] + TotalWeight(S \cap ts)
                                   /\ g[S] = h[S] - IF best \in S THEN c ELSE 0
                                   /\ f[S] \in Int /\ h[S] \in Int /\ g[S] \in Int
    <2>1. \A S \in SUBSET Targets : f[S] \in Int /\ h[S] \in Int /\ g[S] \in Int
      <3> HIDE DEF h, g, u, v
      <3> QED
        BY <1>3, <1>7, <1>8 DEF Additive
    <2>2. h = [S \in SUBSET Targets |-> f[S] + TotalWeight(S \cap ts)]
      BY DEF Scored
    <2>3. g = [S \in SUBSET Targets |-> h[S] - IF best \in S THEN c ELSE 0]
      OBVIOUS
    <2> HIDE DEF best, c, v, h, g
    <2> QED
      BY <2>1, <2>2, <2>3
  <1> HIDE DEF h, g, u, v, best, w
  <1>11. g[Targets] = 0
    <2>1. Targets \cap ts = ts /\ Targets \in SUBSET Targets
      OBVIOUS
    <2>2. h[Targets] = f[Targets] + TotalWeight(Targets \cap ts) /\ TotalWeight(Targets \cap ts) = c
      BY <1>10, <2>1
    <2>3. g[Targets] = h[Targets] - c
      BY <1>5, <1>10, <2>1
    <2> HIDE DEF c
    <2> QED
      BY <1>1, <1>3, <2>2, <2>3
  <1>12. ASSUME NEW S \in SUBSET Targets, best \in S
         PROVE  g[S] <= f[S]
    <2>1. S \cap ts \in SUBSET ts /\ S \cap ts \in SUBSET Targets
      OBVIOUS
    <2>2. TotalWeight(S \cap ts) <= c /\ TotalWeight(S \cap ts) \in Nat
      BY <1>1, <2>1, PartsWeighLess
    <2>3. g[S] = h[S] - c /\ h[S] = f[S] + TotalWeight(S \cap ts)
      BY <1>10, <1>12
    <2> HIDE DEF c
    <2> QED
      BY <1>1, <1>10, <2>2, <2>3
  <1>13. \A S \in SUBSET Targets : 2 * f[S] <= Allowed(Cardinality(S))
    BY DEF Balanced
  <1>14. ASSUME NEW S \in SUBSET Targets PROVE 2 * g[S] <= Allowed(Cardinality(S))
    <2> DEFINE k == Cardinality(S)
               M == S \cap ts
               m == Cardinality(M)
    <2>1. /\ k \in Nat /\ m \in Nat /\ N \in Nat /\ M \in SUBSET Targets /\ M \in SUBSET S
          /\ IsFiniteSet(S) /\ IsFiniteSet(M)
      BY TargetsFinite
    <2>2. 2 * f[S] <= Allowed(k) /\ f[S] \in Int /\ g[S] \in Int /\ h[S] \in Int
      BY <1>10, <1>13
    <2>3. Allowed(k) \in Int
      BY <1>1, <2>1 DEF Allowed
    <2>4. CASE best \in S
      <3>1. g[S] <= f[S]
        BY <1>12, <2>4
      <3> HIDE DEF k, M, m
      <3>2. 2 * g[S] <= Allowed(k)
        BY <2>2, <2>3, <3>1
      <3> QED
        BY <3>2 DEF k
    <2>5. CASE best \notin S /\ M = {}
      <3>1. TotalWeight(M) = 0
        <4>1. TotalWeight({}) = 0
          <5> DEFINE wt == [U \in SUBSET Targets |-> TotalWeight(U)]
          <5>1. wt[{}] = 0 /\ wt[{}] = TotalWeight({})
            BY WeightsAdd DEF Additive
          <5> QED
            BY <5>1
        <4> QED
          BY <2>5, <4>1
      <3>2. g[S] = h[S] - 0 /\ h[S] = f[S] + TotalWeight(M)
        BY <1>10, <2>5
      <3>3. g[S] = f[S]
        <4> HIDE DEF M
        <4> QED
          BY <2>2, <3>1, <3>2
      <3> QED
        BY <2>2, <3>3
    <2>6. CASE best \notin S /\ M # {}
      <3> DEFINE A == S \ M
                 B == S \cup {best}
                 x == v[best]
      <3>1. /\ A \in SUBSET Targets /\ B \in SUBSET Targets /\ best \in B /\ B \ {best} = S
        BY <1>5, <2>6
      <3>2. m >= 1
        BY <2>1, <2>6, FS_EmptySet
      <3>3. Cardinality(A) = k - m
        <4>1. S \cap M = M
          OBVIOUS
        <4> QED
          BY <2>1, <4>1, FS_Difference
      <3>4. Cardinality(B) = k + 1
        BY <2>1, <2>6, FS_AddElement
      <3>5. g[S] = h[S]
        <4>1. g[S] = h[S] - 0
          BY <1>10, <2>6
        <4> QED
          BY <2>2, <4>1
      <3>6. h[S] = h[M] + h[A]
        BY <1>2, <1>7, <2>1, Split
      <3>7. h[M] <= m * x
        <4>1. \A t \in M : v[t] <= x
          BY <1>4
        <4> HIDE DEF M, x
        <4> QED
          BY <1>2, <1>5, <1>7, <2>1, <4>1, AtMost DEF x
      <3>8. h[A] = f[A]
        <4>1. A \cap ts = {}
          OBVIOUS
        <4>2. TotalWeight({}) = 0
          <5> DEFINE wt == [U \in SUBSET Targets |-> TotalWeight(U)]
          <5>1. wt[{}] = 0 /\ wt[{}] = TotalWeight({})
            BY WeightsAdd DEF Additive
          <5> QED
            BY <5>1
        <4>3. h[A] = f[A] + TotalWeight(A \cap ts) /\ f[A] \in Int
          BY <1>10, <3>1
        <4>4. TotalWeight(A \cap ts) = 0
          BY <4>1, <4>2
        <4> HIDE DEF A
        <4> QED
          BY <4>3, <4>4
      <3>9. h[B] = x + h[S]
        <4> HIDE DEF B
        <4> QED
          BY <1>7, <3>1 DEF Additive
      <3>10. h[B] <= f[B] + W
        <4>1. B \cap ts \in SUBSET Targets /\ Targets \in SUBSET Targets
          BY <3>1
        <4>2. TotalWeight(B \cap ts) <= W /\ TotalWeight(B \cap ts) \in Nat
          BY <1>1, <4>1, PartsWeighLess
        <4>3. h[B] = f[B] + TotalWeight(B \cap ts) /\ f[B] \in Int
          BY <1>10, <3>1
        <4> HIDE DEF B, W
        <4> QED
          BY <1>1, <4>2, <4>3
      <3>11. /\ 2 * f[A] <= W * ((k - m) * (N - (k - m)))
             /\ 2 * f[B] <= W * ((k + 1) * (N - (k + 1)))
        <4>1. 2 * f[A] <= Allowed(Cardinality(A)) /\ 2 * f[B] <= Allowed(Cardinality(B))
          BY <1>13, <3>1
        <4> QED
          BY <3>3, <3>4, <4>1 DEF Allowed
      <3>12. /\ f[A] \in Int /\ f[B] \in Int /\ h[M] \in Int /\ h[S] \in Int /\ h[B] \in Int
             /\ h[A] \in Int /\ x \in Int
        BY <1>5, <1>10, <2>1, <3>1
      <3> HIDE DEF A, B, M, m, k, x, W, N
      <3>13. m * x \in Int
        BY <2>1, <3>12
      <3>14. h[S] <= f[A] + m * x
        BY <3>6, <3>7, <3>8, <3>12, <3>13
      <3>15. h[S] + x <= f[B] + W
        BY <1>1, <3>9, <3>10, <3>12
      <3>16. 2 * h[S] <= W * (k * (N - k))
        BY <1>1, <2>1, <3>2, <3>11, <3>12, <3>14, <3>15, Exchange
      <3> QED
        BY <3>5, <3>16 DEF Allowed, W, N, k
    <2> QED
      BY <2>4, <2>5, <2>6
  <1>15. Balanced(g, u)
    BY <1>8, <1>11, <1>14 DEF Balanced
  <1> QED
    BY <1>4, <1>6, <1>9, <1>15

(* Nobody owes anything at first.                                          *)
LEMMA FreshBalances == \E f : Balanced(f, FreshRing.weights)
  <1> DEFINE f == [S \in SUBSET Targets |-> 0]
             w == [t \in Targets |-> 0]
  <1>1. FreshRing.weights = w
    BY DEF FreshRing
  <1>2. Additive(f, w)
    <2>1. \A S \in SUBSET Targets : \A t \in S : f[S] = w[t] + f[S \ {t}]
      OBVIOUS
    <2> QED
      BY <2>1 DEF Additive
  <1>3. ASSUME NEW S \in SUBSET Targets PROVE 2 * f[S] <= Allowed(Cardinality(S))
    <2> DEFINE k == Cardinality(S)
               N == Cardinality(Targets)
    <2>1. k \in Nat /\ N \in Nat /\ k <= N
      BY TargetsFinite, FS_Subset
    <2>2. TotalWeight(Targets) \in Nat
      BY WeightsAdd
    <2>3. N - k \in Nat
      BY <2>1
    <2> HIDE DEF k, N
    <2>4. k * (N - k) \in Nat
      BY <2>1, <2>3
    <2> DEFINE p == k * (N - k)
    <2> HIDE DEF p
    <2>5. TotalWeight(Targets) * p \in Nat
      BY <2>2, <2>4 DEF p
    <2>6. 2 * f[S] = 0
      OBVIOUS
    <2> HIDE DEF f
    <2> QED
      BY <2>5, <2>6 DEF Allowed, k, N, p
  <1>4. f[Targets] = 0
    OBVIOUS
  <1> HIDE DEF f, w
  <1> QED
    BY <1>1, <1>2, <1>3, <1>4 DEF Balanced

(* A balance bounds what each target is owed, and owes.                    *)
LEMMA BalanceBounds ==
    ASSUME NEW w \in [Targets -> Int], NEW f, Balanced(f, w), NEW t \in Targets
    PROVE  w[t] \in -MaxDebt .. MaxDebt /\ MaxDebt \in Int
  <1> DEFINE N == Cardinality(Targets)
             W == TotalWeight(Targets)
             R == Targets \ {t}
  <1>1. N \in Nat /\ W \in Nat /\ IsFiniteSet(Targets)
    BY TargetsFinite, WeightsAdd
  <1>2. Cardinality({t}) = 1 /\ Cardinality(R) = N - 1
    BY <1>1, FS_Singleton, FS_RemoveElement
  <1>3. f[Targets] = w[t] + f[R] /\ f[Targets] = 0
    BY DEF Balanced, Additive
  <1>4. f[{t}] = w[t]
    <2>1. f[{t}] = w[t] + f[{t} \ {t}] /\ {t} \ {t} = {} /\ f[{}] = 0
      BY DEF Balanced, Additive
    <2> QED
      BY <2>1
  <1>5. f[R] \in Int /\ w[t] \in Int
    BY DEF Balanced, Additive
  <1>6. 2 * f[{t}] <= Allowed(1) /\ 2 * f[R] <= Allowed(N - 1)
    <2>1. {t} \in SUBSET Targets /\ R \in SUBSET Targets
      OBVIOUS
    <2> HIDE DEF R
    <2> QED
      BY <1>2, <2>1 DEF Balanced
  <1> DEFINE d == (N - 1) * W
  <1>7. Allowed(1) = d /\ Allowed(N - 1) = d /\ d \in Int
    <2>1. Allowed(1) = W * (1 * (N - 1)) /\ Allowed(N - 1) = W * ((N - 1) * (N - (N - 1)))
      BY DEF Allowed
    <2> HIDE DEF N, W
    <2>2. W * (1 * (N - 1)) = (N - 1) * W /\ W * ((N - 1) * (N - (N - 1))) = (N - 1) * W
      BY <1>1
    <2> QED
      BY <1>1, <2>1, <2>2
  <1>8. MaxDebt = d \div 2
    BY DEF MaxDebt
  <1> HIDE DEF d, R
  <1>9. 2 * w[t] <= d /\ 2 * (-w[t]) <= d
    BY <1>3, <1>4, <1>5, <1>6, <1>7
  <1>10. w[t] <= d \div 2 /\ -w[t] <= d \div 2 /\ d \div 2 \in Int
    BY <1>5, <1>7, <1>9
  <1> QED
    BY <1>5, <1>8, <1>10

-----------------------------------------------------------------------------
(* The inductive invariant.                                                *)

GoodRing(r) == r \in RingRecord /\ \E f : Balanced(f, r.weights)

(* A request that has started has a target.                                *)
GoodRequest(x) ==
    /\ x \in RequestRecord
    /\ x.phase # "idle" => x.target \in Targets
    /\ IsInjective(x.attempted)

(* What cools was refused, and the live key is one of the pool's.          *)
GoodPool ==
    /\ pool \in PoolRecord
    /\ pool.cooling \subseteq refused
    /\ pool.live \in Range(pool.keys) \/ pool.keys = <<>>

GoodRequests == req \in [Requests -> RequestRecord] /\ \A r \in Requests : GoodRequest(req[r])

HopInv ==
    /\ strategy \in {"failover", "round-robin"}
    /\ GoodRing(ring)
    /\ resting \subseteq Targets
    /\ GoodPool
    /\ GoodRequests
    /\ refused \subseteq Keys
    /\ edits \in 0 .. MaxEdits

LEMMA RingTypes ==
    /\ StickyLimit \in Nat /\ 0 \in 0 .. StickyLimit - 1
    /\ None \notin Targets /\ None \notin Keys
  BY FailoverConstants

LEMMA FreshIsGood == GoodRing(FreshRing)
  <1>1. PICK f : Balanced(f, FreshRing.weights)
    BY FreshBalances
  <1>2. FreshRing = [active |-> None, successes |-> 0, weights |-> [t \in Targets |-> 0]]
    BY DEF FreshRing
  <1> DEFINE w == [t \in Targets |-> 0]
  <1>3. w \in [Targets -> Int] /\ FreshRing.weights = w
    BY <1>2
  <1>4. \A t \in Targets : w[t] \in -MaxDebt .. MaxDebt
    <2> HIDE DEF w
    <2> QED
      BY <1>1, <1>3, BalanceBounds
  <1>5. w \in [Targets -> -MaxDebt .. MaxDebt]
    BY <1>4
  <1> HIDE DEF w
  <1>6. FreshRing \in RingRecord
    BY <1>2, <1>3, <1>5, RingTypes DEF RingRecord
  <1> QED
    BY <1>1, <1>6 DEF GoodRing

LEMMA EndRunIsGood == ASSUME NEW r, GoodRing(r) PROVE GoodRing(EndRun(r))
  <1>1. r \in RingRecord
    BY DEF GoodRing
  <1>2. EndRun(r) \in RingRecord /\ EndRun(r).weights = r.weights
    BY <1>1, RingTypes DEF EndRun, RingRecord
  <1> QED
    BY <1>2 DEF GoodRing

LEMMA BlamedIsGood == ASSUME NEW r, GoodRing(r), NEW t PROVE GoodRing(Blamed(r, t))
  BY EndRunIsGood DEF Blamed

LEMMA CreditedIsGood == ASSUME NEW r, GoodRing(r), NEW t PROVE GoodRing(Credited(r, t))
  <1>1. r \in RingRecord
    BY DEF GoodRing
  <1> DEFINE counted == [r EXCEPT !.successes = @ + 1]
  <1>2. CASE r.active # t
    BY <1>2 DEF Credited
  <1>3. CASE r.active = t /\ r.successes + 1 >= StickyLimit
    BY <1>3, EndRunIsGood DEF Credited
  <1>4. CASE r.active = t /\ ~ (r.successes + 1 >= StickyLimit)
    <2>1. r.successes \in 0 .. StickyLimit - 1
      BY <1>1 DEF RingRecord
    <2>2. r.successes + 1 \in 0 .. StickyLimit - 1
      BY <1>4, <2>1, RingTypes
    <2>3. counted \in RingRecord /\ counted.weights = r.weights
      BY <1>1, <2>2 DEF RingRecord
    <2>4. Credited(r, t) = counted
      BY <1>4 DEF Credited
    <2> HIDE DEF counted
    <2> QED
      BY <2>3, <2>4 DEF GoodRing
  <1> QED
    BY <1>2, <1>3, <1>4

(* The choice is one of the targets that may be tried, or none.            *)
LEMMA PickIsGood ==
    ASSUME strategy \in {"failover", "round-robin"}, NEW r, GoodRing(r),
           NEW ts \in SUBSET Targets
    PROVE  /\ Pick(r, ts).target \in ts \cup {None}
           /\ GoodRing(Pick(r, ts).ring)
  <1>1. CASE strategy = "failover"
    <2>1. Pick(r, ts) = Choice(IF ts = {} THEN None ELSE First(ts), r)
      BY <1>1 DEF Pick
    <2>2. (IF ts = {} THEN None ELSE First(ts)) \in ts \cup {None}
      BY FirstIsOne
    <2> QED
      BY <2>1, <2>2 DEF Choice
  <1>2. CASE strategy = "round-robin" /\ r.active \in ts
    <2>1. Pick(r, ts) = Choice(r.active, r)
      BY <1>2 DEF Pick
    <2> QED
      BY <1>2, <2>1 DEF Choice
  <1>3. CASE strategy = "round-robin" /\ r.active \notin ts /\ ts = {}
    <2>1. Pick(r, ts) = Choice(None, EndRun(r))
      BY <1>3 DEF Pick
    <2> QED
      BY <2>1, EndRunIsGood DEF Choice
  <1>4. CASE strategy = "round-robin" /\ r.active \notin ts /\ ts # {}
    <2> DEFINE next == Smooth(r, ts)
    <2>1. Pick(r, ts) = Choice(next.active, next)
      BY <1>4 DEF Pick
    <2>2. r \in RingRecord /\ \E f : Balanced(f, r.weights)
      BY DEF GoodRing
    <2>3. r.weights \in [Targets -> Int]
      <3>1. r.weights \in [Targets -> -MaxDebt .. MaxDebt]
        BY <2>2 DEF RingRecord
      <3>2. \A t \in Targets : r.weights[t] \in Int
        BY <3>1
      <3> QED
        BY <3>1, <3>2
    <2>4. /\ next.active \in ts /\ next.successes = 0 /\ next.weights \in [Targets -> Int]
          /\ \E g : Balanced(g, next.weights)
      BY <1>4, <2>2, <2>3, SmoothBalances
    <2>5. next = [active |-> next.active, successes |-> next.successes, weights |-> next.weights]
      BY DEF Smooth
    <2> HIDE DEF next
    <2>6. next.weights \in [Targets -> -MaxDebt .. MaxDebt]
      <3> DEFINE w == next.weights
      <3>1. \A t \in Targets : w[t] \in -MaxDebt .. MaxDebt
        BY <2>4, BalanceBounds
      <3>2. w \in [Targets -> Int]
        BY <2>4
      <3> HIDE DEF w
      <3>3. w \in [Targets -> -MaxDebt .. MaxDebt]
        BY <3>1, <3>2
      <3> QED
        BY <3>3 DEF w
    <2>7. next \in RingRecord
      <3> DEFINE a == next.active
                 w == next.weights
      <3>1. /\ a \in Targets \cup {None} /\ w \in [Targets -> -MaxDebt .. MaxDebt]
            /\ next = [active |-> a, successes |-> 0, weights |-> w]
        BY <2>4, <2>5, <2>6
      <3> HIDE DEF a, w
      <3> QED
        BY <3>1, RingTypes DEF RingRecord
    <2> QED
      BY <2>1, <2>4, <2>7 DEF Choice, GoodRing
  <1> QED
    BY <1>1, <1>2, <1>3, <1>4

-----------------------------------------------------------------------------
(* What the requests try.                                                  *)

(* A target that was not tried yet may be appended.                        *)
LEMMA TriesGrow ==
    ASSUME NEW s \in Seq(Targets), IsInjective(s), NEW t \in Targets, t \notin Range(s)
    PROVE  Append(s, t) \in Seq(Targets) /\ IsInjective(Append(s, t))
  <1> DEFINE a == Append(s, t)
             n == Len(s)
  <1>1. /\ n \in Nat /\ DOMAIN s = 1 .. n /\ a \in Seq(Targets) /\ Len(a) = n + 1
        /\ DOMAIN a = 1 .. n + 1
        /\ \A i \in 1 .. n : a[i] = s[i] /\ s[i] # t
        /\ a[n + 1] = t
    BY DEF Range
  <1>2. \A i, j \in 1 .. n : s[i] = s[j] => i = j
    BY <1>1 DEF IsInjective
  <1> HIDE DEF a, n
  <1>3. \A i \in 1 .. n + 1 : i \in 1 .. n \/ i = n + 1
    BY <1>1
  <1>4. \A i, j \in 1 .. n + 1 : a[i] = a[j] => i = j
    BY <1>1, <1>2, <1>3
  <1>5. IsInjective(a)
    BY <1>1, <1>4 DEF IsInjective
  <1> QED
    BY <1>1, <1>5 DEF a

LEMMA IdleIsGood == GoodRequest(Idle)
  <1>1. Idle \in RequestRecord
    BY RingTypes DEF Idle, RequestRecord
  <1>2. IsInjective(<<>>)
    BY DEF IsInjective
  <1> QED
    BY <1>1, <1>2 DEF GoodRequest, Idle

LEMMA ProceedsKeeps ==
    ASSUME GoodRequests, NEW r \in Requests, NEW x, GoodRequest(x), Proceeds(r, x)
    PROVE  GoodRequests'
  <1>1. req' = [req EXCEPT ![r] = x] /\ x \in RequestRecord
    BY DEF Proceeds, GoodRequest
  <1>2. req' \in [Requests -> RequestRecord]
    BY <1>1 DEF GoodRequests
  <1>3. \A q \in Requests : GoodRequest(req'[q])
    BY <1>1 DEF GoodRequests
  <1> QED
    BY <1>2, <1>3 DEF GoodRequests

(* Going on to a choice of untried targets.                                *)
LEMMA GoesKeeps ==
    ASSUME GoodRequests, NEW r \in Requests, NEW x, x \in RequestRecord, IsInjective(x.attempted),
           NEW choice, choice.target \in Targets \cup {None}, choice.target \notin Range(x.attempted),
           GoodRing(choice.ring), GoesTo(r, x, choice)
    PROVE  GoodRing(ring)' /\ GoodRequests'
  <1> DEFINE t == choice.target
             y == [x EXCEPT !.phase = "picked", !.target = t, !.attempted = Append(@, t),
                            !.key = None, !.literal = FALSE]
             z == IF t = None THEN Idle ELSE y
  <1>1. ring' = choice.ring /\ Proceeds(r, z)
    BY DEF GoesTo
  <1>2. GoodRequest(z)
    <2>1. CASE t = None
      BY <2>1, IdleIsGood
    <2>2. CASE t # None
      <3>1. t \in Targets /\ x.attempted \in Seq(Targets)
        BY <2>2 DEF RequestRecord
      <3>2. Append(x.attempted, t) \in Seq(Targets) /\ IsInjective(Append(x.attempted, t))
        <4> HIDE DEF t
        <4> QED
          BY <3>1, TriesGrow DEF t
      <3> DEFINE a == Append(x.attempted, t)
      <3>3. /\ y \in RequestRecord /\ y.phase = "picked" /\ y.target = t /\ y.attempted = a
        <4>1. a \in Seq(Targets)
          BY <3>2
        <4>2. y = [x EXCEPT !.phase = "picked", !.target = t, !.attempted = a,
                            !.key = None, !.literal = FALSE]
          OBVIOUS
        <4> HIDE DEF y, t, a
        <4> QED
          BY <3>1, <4>1, <4>2 DEF RequestRecord
      <3> HIDE DEF y, t
      <3> QED
        BY <2>2, <3>1, <3>2, <3>3 DEF GoodRequest
    <2> QED
      BY <2>1, <2>2
  <1>3. GoodRequests'
    <2> HIDE DEF z
    <2> QED
      BY <1>1, <1>2, ProceedsKeeps
  <1>4. GoodRing(ring')
    BY <1>1
  <1> QED
    BY <1>3, <1>4 DEF GoodRing

-----------------------------------------------------------------------------
(* The pool.                                                               *)

(* The pool without its entry k has the others.                            *)
LEMMA RemovalKeeps ==
    ASSUME NEW s \in Seq(Keys), NEW k \in Range(s)
    PROVE  /\ RemoveFirst(s, k) \in Seq(Keys)
           /\ \A e \in Range(s) : e # k => e \in Range(RemoveFirst(s, k))
  <1> DEFINE n == Len(s)
             I == {i \in 1 .. n : s[i] = k}
             at == SelectInSeq(s, LAMBDA v : v = k)
             left == SubSeq(s, 1, at - 1)
             right == SubSeq(s, at + 1, n)
             rest == left \o right
  <1>1. n \in Nat /\ DOMAIN s = 1 .. n
    OBVIOUS
  <1>2. I # {} /\ I \in SUBSET Nat
    BY <1>1 DEF Range
  <1>3. \E i \in I : \A j \in I : i <= j
    <2> HIDE DEF I
    <2> QED
      BY <1>2, LeastNumber
  <1>4. at = CHOOSE i \in I : \A j \in I : i <= j
    BY <1>2 DEF SelectInSeq, Min
  <1>5. at \in 1 .. n /\ s[at] = k
    <2>1. at \in I
      <3> HIDE DEF I, at
      <3> QED
        BY <1>3, <1>4
    <2> HIDE DEF at
    <2> QED
      BY <2>1
  <1>6. RemoveFirst(s, k) = rest
    <2>1. \E i \in 1 .. Len(s) : s[i] = k
      BY <1>2
    <2>2. RemoveFirst(s, k) = RemoveAt(s, at)
      BY <2>1 DEF RemoveFirst
    <2> HIDE DEF at
    <2> QED
      BY <2>2 DEF RemoveAt
  <1> HIDE DEF at
  <1>7. /\ left \in Seq(Keys) /\ Len(left) = at - 1
        /\ \A i \in 1 .. at - 1 : left[i] = s[i]
    BY <1>1, <1>5
  <1>8. /\ right \in Seq(Keys) /\ Len(right) = n - at
        /\ \A i \in 1 .. n - at : right[i] = s[at + i]
    <2> DEFINE m == at + 1
    <2>1. m \in 1 .. Len(s) + 1 /\ n \in m - 1 .. Len(s) /\ n - m + 1 = n - at
      BY <1>1, <1>5
    <2>2. /\ right = SubSeq(s, m, n)
          /\ \A i \in 1 .. n - at : at + i = m + i - 1
      BY <1>1, <1>5
    <2> HIDE DEF right, m, n
    <2>3. /\ right \in Seq(Keys) /\ Len(right) = n - m + 1
          /\ \A i \in 1 .. n - m + 1 : right[i] = s[m + i - 1]
      BY <2>1, <2>2, SubSeqProperties
    <2> QED
      BY <2>1, <2>2, <2>3
  <1> HIDE DEF left, right, n
  <1>9. /\ rest \in Seq(Keys) /\ Len(rest) = at - 1 + (n - at)
        /\ \A i \in 1 .. at - 1 : rest[i] = left[i]
        /\ \A i \in 1 .. n - at : rest[at - 1 + i] = right[i]
    <2>1. /\ left \o right \in Seq(Keys) /\ Len(left \o right) = Len(left) + Len(right)
          /\ \A i \in 1 .. Len(left) + Len(right) :
                (left \o right)[i] = IF i <= Len(left) THEN left[i] ELSE right[i - Len(left)]
      <3>1. left \in Seq(Keys) /\ right \in Seq(Keys)
        BY <1>7, <1>8
      <3> QED
        BY <3>1, ConcatProperties
    <2>2. rest = left \o right
      OBVIOUS
    <2> HIDE DEF rest
    <2>3. /\ rest \in Seq(Keys) /\ Len(rest) = at - 1 + (n - at)
          /\ \A i \in 1 .. at - 1 + (n - at) :
                rest[i] = IF i <= at - 1 THEN left[i] ELSE right[i - (at - 1)]
      BY <1>7, <1>8, <2>1, <2>2
    <2>4. n \in Nat /\ at \in 1 .. n
      BY <1>1, <1>5
    <2>5. ASSUME NEW i \in 1 .. at - 1 PROVE rest[i] = left[i]
      <3>1. i \in 1 .. at - 1 + (n - at) /\ i <= at - 1
        BY <2>4
      <3> QED
        BY <2>3, <3>1
    <2>6. ASSUME NEW i \in 1 .. n - at PROVE rest[at - 1 + i] = right[i]
      <3> DEFINE j == at - 1 + i
      <3>1. /\ j \in 1 .. at - 1 + (n - at) /\ ~ (j <= at - 1)
            /\ j - (at - 1) = i
        BY <2>4
      <3> HIDE DEF j
      <3>2. rest[j] = right[i]
        BY <2>3, <3>1
      <3> QED
        BY <3>2 DEF j
    <2> QED
      BY <2>3, <2>5, <2>6
  <1>10. DOMAIN rest = 1 .. n - 1
    BY <1>1, <1>5, <1>9
  <1> HIDE DEF rest
  <1>11. ASSUME NEW e \in Range(s), e # k PROVE e \in Range(rest)
    <2>1. PICK i \in 1 .. n : s[i] = e
      BY <1>1 DEF Range
    <2>2. CASE i < at
      <3>1. i \in 1 .. at - 1 /\ i \in 1 .. n - 1
        BY <1>1, <1>5, <2>2
      <3>2. rest[i] = e
        BY <1>7, <1>9, <2>1, <3>1
      <3> QED
        BY <1>10, <3>1, <3>2 DEF Range
    <2>3. CASE i > at
      <3> DEFINE j == i - at
      <3>1. j \in 1 .. n - at /\ at + j = i /\ at - 1 + j = i - 1 /\ i - 1 \in 1 .. n - 1
        BY <1>1, <1>5, <2>3
      <3> HIDE DEF j
      <3>2. rest[i - 1] = e
        BY <1>8, <1>9, <2>1, <3>1
      <3> QED
        BY <1>10, <3>1, <3>2 DEF Range
    <2>4. i # at
      BY <1>5, <1>11, <2>1
    <2> QED
      BY <1>1, <1>5, <2>2, <2>3, <2>4
  <1> QED
    BY <1>6, <1>9, <1>11

(* A replacement is an entry of the pool.                                  *)
LEMMA ReplacementType ==
    ASSUME pool \in PoolRecord, Len(pool.keys) >= 2, NEW k \in Keys
    PROVE  Replacement(k) \in Range(pool.keys) \cup {None}
  <1> DEFINE n == Len(pool.keys)
             I == {i \in 1 .. n : pool.keys[i] = k}
             at == IF Pooled(k) THEN SelectInSeq(pool.keys, LAMBDA e : e = k) ELSE 0
             s == Successors(k)
             cooling == Cooling(k)
             R == {i \in 1 .. Len(s) : s[i] \notin cooling}
             ready == SelectInSeq(s, LAMBDA e : e \notin cooling)
  <1>1. pool.keys \in Seq(Keys) /\ n \in Nat /\ DOMAIN pool.keys = 1 .. n
    BY DEF PoolRecord
  <1>2. at \in Nat
    <2>1. CASE Pooled(k) /\ I # {}
      <3>1. at = CHOOSE i \in I : \A j \in I : i <= j
        BY <2>1 DEF SelectInSeq, Min
      <3>2. \E i \in I : \A j \in I : i <= j
        <4>1. I \in SUBSET Nat
          BY <1>1
        <4> HIDE DEF I
        <4> QED
          BY <2>1, <4>1, LeastNumber
      <3>3. at \in I
        <4> HIDE DEF I, at
        <4> QED
          BY <3>1, <3>2
      <3> HIDE DEF at
      <3> QED
        BY <1>1, <3>3
    <2>2. CASE ~ (Pooled(k) /\ I # {})
      BY <2>2 DEF SelectInSeq
    <2> QED
      BY <2>1, <2>2
  <1>3. s = [i \in 1 .. n - 1 |-> pool.keys[((at + i - 1) % n) + 1]]
    BY DEF Successors
  <1> HIDE DEF at, n
  <1>4. \A i \in 1 .. n - 1 : ((at + i - 1) % n) + 1 \in 1 .. n
    <2> SUFFICES ASSUME NEW i \in 1 .. n - 1 PROVE ((at + i - 1) % n) + 1 \in 1 .. n
      OBVIOUS
    <2> DEFINE m == at + i - 1
    <2>1. m \in Nat /\ n \in Nat /\ n >= 1
      BY <1>1, <1>2
    <2> HIDE DEF m
    <2>2. m % n \in 0 .. n - 1
      BY <2>1
    <2>3. (m % n) + 1 \in 1 .. n
      BY <2>1, <2>2
    <2> QED
      BY <2>3 DEF m
  <1>5. s \in Seq(Keys) /\ Len(s) = n - 1 /\ \A i \in 1 .. n - 1 : s[i] \in Range(pool.keys)
    <2>1. \A i \in 1 .. n - 1 : /\ s[i] = pool.keys[((at + i - 1) % n) + 1]
                                /\ s[i] \in Range(pool.keys) /\ s[i] \in Keys
      <3> SUFFICES ASSUME NEW i \in 1 .. n - 1
                   PROVE  /\ s[i] = pool.keys[((at + i - 1) % n) + 1]
                          /\ s[i] \in Range(pool.keys) /\ s[i] \in Keys
        OBVIOUS
      <3> DEFINE j == ((at + i - 1) % n) + 1
      <3>1. s[i] = pool.keys[j] /\ j \in 1 .. n
        BY <1>3, <1>4
      <3> HIDE DEF j, s
      <3>2. pool.keys[j] \in Range(pool.keys) /\ pool.keys[j] \in Keys
        BY <1>1, <3>1 DEF Range
      <3> QED
        BY <3>1, <3>2 DEF j
    <2>2. n - 1 \in Nat
      BY <1>1 DEF n
    <2>3. s \in [1 .. n - 1 -> Keys]
      <3>1. DOMAIN s = 1 .. n - 1 /\ s = [i \in 1 .. n - 1 |-> s[i]]
        BY <1>3
      <3> HIDE DEF s
      <3> QED
        BY <2>1, <3>1
    <2> HIDE DEF s
    <2> QED
      BY <2>1, <2>2, <2>3
  <1>6. ready = 0 \/ ready \in 1 .. n - 1
    <2>1. CASE R = {}
      BY <2>1 DEF SelectInSeq
    <2>2. CASE R # {}
      <3>1. ready = CHOOSE i \in R : \A j \in R : i <= j
        <4> HIDE DEF s, cooling
        <4> QED
          BY <2>2 DEF SelectInSeq, Min
      <3>2. \E i \in R : \A j \in R : i <= j
        <4>1. R \in SUBSET Nat
          <5> HIDE DEF s, cooling
          <5> QED
            BY <1>5
        <4> HIDE DEF R
        <4> QED
          BY <2>2, <4>1, LeastNumber
      <3>3. ready \in R
        <4> HIDE DEF R, ready
        <4> QED
          BY <3>1, <3>2
      <3> HIDE DEF ready, s, cooling
      <3> QED
        BY <1>5, <3>3
    <2> QED
      BY <2>1, <2>2
  <1>7. Replacement(k) = IF LostTheRace(k) /\ pool.live \in Range(pool.keys) \ cooling THEN pool.live
                         ELSE IF ready # 0 THEN s[ready] ELSE None
    BY DEF Replacement
  <1> HIDE DEF ready, s, cooling
  <1>8. CASE LostTheRace(k) /\ pool.live \in Range(pool.keys) \ cooling
    BY <1>5, <1>6, <1>7, <1>8
  <1>9. CASE ~ (LostTheRace(k) /\ pool.live \in Range(pool.keys) \ cooling) /\ ready # 0
    BY <1>5, <1>6, <1>7, <1>9
  <1>10. CASE ~ (LostTheRace(k) /\ pool.live \in Range(pool.keys) \ cooling) /\ ready = 0
    BY <1>7, <1>10
  <1> QED
    BY <1>8, <1>9, <1>10

-----------------------------------------------------------------------------
(* The steps.                                                              *)

LEMMA TriedAreTargets ==
    ASSUME NEW x \in RequestRecord
    PROVE  Range(x.attempted) \subseteq Targets /\ None \notin Range(x.attempted)
  <1>1. x.attempted \in Seq(Targets)
    BY DEF RequestRecord
  <1>2. Range(x.attempted) \subseteq Targets
    BY <1>1 DEF Range
  <1> QED
    BY <1>2, RingTypes

LEMMA StartComboKeeps ==
    ASSUME HopInv, NEW r \in Requests, NEW may \in {Targets, Readers}, StartCombo(r, may)
    PROVE  HopInv'
  <1> DEFINE x == [Idle EXCEPT !.may = may]
             ts == may \ resting
             choice == Pick(ring, ts)
  <1>1. x \in RequestRecord /\ x.attempted = <<>>
    <2>1. Idle \in RequestRecord /\ Idle.attempted = <<>>
      BY IdleIsGood DEF GoodRequest, Idle
    <2> QED
      BY <2>1 DEF RequestRecord
  <1>2. ts \in SUBSET Targets
    BY FailoverConstants DEF HopInv
  <1>3. choice.target \in ts \cup {None} /\ GoodRing(choice.ring)
    <2> HIDE DEF ts
    <2> QED
      BY <1>2, PickIsGood DEF HopInv
  <1>4. GoesTo(r, x, choice)
    BY DEF StartCombo
  <1>5. IsInjective(x.attempted) /\ Range(x.attempted) = {}
    BY <1>1 DEF IsInjective, Range
  <1> HIDE DEF x, choice, ts
  <1>6. choice.target \in Targets \cup {None} /\ choice.target \notin Range(x.attempted)
    BY <1>2, <1>3, <1>5
  <1>7. GoodRing(ring)' /\ GoodRequests'
    BY <1>1, <1>3, <1>4, <1>5, <1>6, GoesKeeps DEF HopInv
  <1> QED
    BY <1>7 DEF HopInv, StartCombo, GoodPool, GoodRing

LEMMA AdvanceKeeps ==
    ASSUME HopInv, NEW r \in Requests, Advance(r)
    PROVE  HopInv'
  <1> DEFINE x == req[r]
             blamed == Blamed(ring, x.target)
             ts == Open(x)
             choice == Pick(blamed, ts)
  <1>1. x \in RequestRecord /\ x.target \in Targets /\ IsInjective(x.attempted)
    BY DEF HopInv, GoodRequests, GoodRequest, Advance
  <1>2. ts \in SUBSET Targets /\ ts \cap Range(x.attempted) = {}
    BY <1>1, FailoverConstants DEF Open, RequestRecord
  <1>3. GoodRing(blamed)
    BY BlamedIsGood DEF HopInv
  <1>4. choice.target \in ts \cup {None} /\ GoodRing(choice.ring)
    <2> HIDE DEF ts, blamed
    <2> QED
      BY <1>2, <1>3, PickIsGood DEF HopInv
  <1>5. GoesTo(r, x, choice) /\ resting' = resting \cup {x.target}
    BY DEF Advance
  <1> HIDE DEF x, ts, blamed, choice
  <1>6. choice.target \in Targets \cup {None} /\ choice.target \notin Range(x.attempted)
    BY <1>1, <1>2, <1>4, TriedAreTargets
  <1>7. GoodRing(ring)' /\ GoodRequests'
    BY <1>1, <1>4, <1>5, <1>6, GoesKeeps DEF HopInv
  <1>8. resting' \subseteq Targets
    BY <1>1, <1>5 DEF HopInv
  <1> QED
    BY <1>7, <1>8 DEF HopInv, Advance, GoodPool, GoodRing

LEMMA DispatchKeeps ==
    ASSUME HopInv, NEW r \in Requests, Dispatch(r)
    PROVE  HopInv'
  <1> DEFINE k == IF req[r].target \in Keyed THEN pool.live ELSE None
             x == [req[r] EXCEPT !.phase = "sent", !.key = k]
  <1>1. GoodRequest(req[r]) /\ req[r].phase = "picked"
    BY DEF HopInv, GoodRequests, Dispatch
  <1>2. k \in Keys \cup {None}
    BY DEF HopInv, GoodPool, PoolRecord
  <1>3. Proceeds(r, x)
    BY DEF Dispatch
  <1>4. GoodRequest(x)
    <2> HIDE DEF k
    <2>1. x \in RequestRecord /\ x.target = req[r].target /\ x.attempted = req[r].attempted
      BY <1>1, <1>2 DEF GoodRequest, RequestRecord
    <2> HIDE DEF x
    <2> QED
      BY <1>1, <2>1 DEF GoodRequest
  <1> HIDE DEF x
  <1>5. GoodRequests'
    BY <1>3, <1>4, ProceedsKeeps DEF HopInv
  <1> QED
    BY <1>5 DEF HopInv, Dispatch, GoodPool, GoodRing

LEMMA SucceedsKeeps ==
    ASSUME HopInv, NEW r \in Requests, Succeeds(r)
    PROVE  HopInv'
  <1>1. GoodRequests'
    BY IdleIsGood, ProceedsKeeps DEF HopInv, Succeeds
  <1>2. GoodRing(ring)'
    <2>1. ring' = ring \/ ring' = Credited(ring, req[r].target)
      BY DEF Succeeds
    <2>2. GoodRing(ring) /\ GoodRing(Credited(ring, req[r].target))
      BY CreditedIsGood DEF HopInv
    <2>3. GoodRing(ring')
      BY <2>1, <2>2
    <2> QED
      BY <2>3 DEF GoodRing
  <1> QED
    BY <1>1, <1>2 DEF HopInv, Succeeds, GoodPool

LEMMA StopsKeeps ==
    ASSUME HopInv, NEW r \in Requests, Stops(r)
    PROVE  HopInv'
  <1>1. GoodRequests'
    BY IdleIsGood, ProceedsKeeps DEF HopInv, Stops
  <1> QED
    BY <1>1 DEF HopInv, Stops, GoodPool, GoodRing

(* A request that failed.                                                  *)
LEMMA FailedIsGood ==
    ASSUME NEW x, GoodRequest(x), x.phase = "sent"
    PROVE  GoodRequest([x EXCEPT !.phase = "failed"])
  <1> DEFINE y == [x EXCEPT !.phase = "failed"]
  <1>1. y \in RequestRecord /\ y.target = x.target /\ y.attempted = x.attempted
    BY DEF GoodRequest, RequestRecord
  <1> HIDE DEF y
  <1>2. GoodRequest(y)
    BY <1>1 DEF GoodRequest
  <1> QED
    BY <1>2 DEF y

LEMMA FailsKeeps ==
    ASSUME HopInv, NEW r \in Requests, Fails(r)
    PROVE  HopInv'
  <1> DEFINE x == [req[r] EXCEPT !.phase = "failed"]
  <1>1. GoodRequest(x)
    BY FailedIsGood DEF HopInv, GoodRequests, Fails
  <1>2. Proceeds(r, x)
    BY DEF Fails
  <1> HIDE DEF x
  <1>3. GoodRequests'
    BY <1>1, <1>2, ProceedsKeeps DEF HopInv
  <1> QED
    BY <1>3 DEF HopInv, Fails, GoodPool, GoodRing

LEMMA RefusedKeeps ==
    ASSUME HopInv, NEW r \in Requests, Refused(r)
    PROVE  HopInv'
  <1> DEFINE x == req[r]
             k == x.key
             next == Replacement(k)
             few == Len(pool.keys) < 2
             failed == [x EXCEPT !.phase = "failed"]
             retried == [x EXCEPT !.key = next, !.literal = next \in References]
             cooling == Cooling(k)
  <1>1. GoodRequest(x) /\ x.phase = "sent" /\ pool \in PoolRecord /\ pool.cooling \subseteq refused
    BY DEF HopInv, GoodRequests, GoodPool, Refused
  <1>2. k \in Keys
    BY <1>1 DEF Refused, HasKey, GoodRequest, RequestRecord
  <1>3. refused' = refused \cup {k} /\ refused' \subseteq Keys
    BY <1>2 DEF Refused, HopInv
  <1>4. cooling \subseteq refused' /\ cooling \subseteq Keys
    BY <1>1, <1>2, <1>3 DEF Cooling, PoolRecord
  <1>5. GoodRequests' /\ GoodPool'
    <2>1. CASE few \/ next = None
      <3>1. Proceeds(r, failed) /\ (pool' = pool \/ pool' = [pool EXCEPT !.cooling = cooling])
        BY <2>1 DEF Refused
      <3>2. GoodRequest(failed)
        BY <1>1, FailedIsGood
      <3> HIDE DEF failed, k, cooling, x
      <3>3. GoodRequests'
        BY <3>1, <3>2, ProceedsKeeps DEF HopInv
      <3>4. GoodPool'
        BY <1>1, <1>3, <1>4, <3>1 DEF HopInv, GoodPool, PoolRecord
      <3> QED
        BY <3>3, <3>4
    <2>2. CASE ~ few /\ next # None
      <3>1. Proceeds(r, retried) /\ pool' = [pool EXCEPT !.cooling = cooling, !.live = next]
        BY <2>2 DEF Refused
      <3>2. Len(pool.keys) >= 2
        <4>1. Len(pool.keys) \in Nat
          BY <1>1 DEF PoolRecord
        <4> QED
          BY <2>2, <4>1
      <3>3. next \in Range(pool.keys)
        <4> HIDE DEF k
        <4> QED
          BY <1>1, <1>2, <2>2, <3>2, ReplacementType
      <3>4. next \in Keys
        BY <1>1, <3>3 DEF PoolRecord, Range
      <3> DEFINE b == next \in References
      <3>5. GoodRequest(retried)
        <4>1. b \in BOOLEAN /\ retried = [x EXCEPT !.key = next, !.literal = b]
          OBVIOUS
        <4> HIDE DEF next, x, b, retried
        <4>2. retried \in RequestRecord /\ retried.target = x.target /\ retried.attempted = x.attempted
          BY <1>1, <3>4, <4>1 DEF GoodRequest, RequestRecord
        <4>3. x.target \in Targets /\ IsInjective(x.attempted)
          BY <1>1 DEF GoodRequest
        <4> QED
          BY <4>2, <4>3 DEF GoodRequest
      <3> HIDE DEF retried, k, cooling, next, x
      <3>6. GoodRequests'
        BY <3>1, <3>5, ProceedsKeeps DEF HopInv
      <3>7. GoodPool'
        BY <1>1, <1>3, <1>4, <3>1, <3>3, <3>4 DEF HopInv, GoodPool, PoolRecord
      <3> QED
        BY <3>6, <3>7
    <2> QED
      BY <2>1, <2>2
  <1> HIDE DEF k
  <1> QED
    BY <1>3, <1>5 DEF HopInv, Refused, GoodRing


(* The steps of time.                                                      *)
LEMMA LapsesKeep ==
    ASSUME HopInv, (\E k \in Keys : KeyLapses(k)) \/ (\E t \in Targets : TargetLapses(t))
    PROVE  HopInv'
  <1>1. ASSUME NEW k \in Keys, KeyLapses(k) PROVE HopInv'
    <2>1. /\ refused' = refused \ {k} /\ pool' = [pool EXCEPT !.cooling = @ \ {k}]
          /\ UNCHANGED <<strategy, ring, resting, req, edits>>
      BY <1>1 DEF KeyLapses
    <2>2. GoodPool'
      BY <2>1 DEF HopInv, GoodPool, PoolRecord
    <2> QED
      BY <2>1, <2>2 DEF HopInv, GoodRequests, GoodRing
  <1>2. ASSUME NEW t \in Targets, TargetLapses(t) PROVE HopInv'
    BY <1>2 DEF TargetLapses, HopInv, GoodRequests, GoodRing, GoodPool
  <1> QED
    BY <1>1, <1>2

(* The steps of the operator.                                              *)
LEMMA EditsCount == ASSUME edits \in 0 .. MaxEdits, Edit PROVE edits' \in 0 .. MaxEdits
  BY FailoverConstants DEF Edit

LEMMA OperatorKeeps ==
    ASSUME HopInv, Operator
    PROVE  HopInv'
  <1>1. ASSUME NEW k \in Keys, AddKey(k) PROVE HopInv'
    <2> DEFINE keys == IF k \in Range(pool.keys) THEN pool.keys ELSE Append(pool.keys, k)
    <2>1. pool' = [pool EXCEPT !.keys = keys, !.live = k, !.owed = TRUE]
      BY <1>1 DEF AddKey
    <2>2. keys \in Seq(Keys) /\ k \in Range(keys)
      <3>1. pool.keys \in Seq(Keys)
        BY DEF HopInv, GoodPool, PoolRecord
      <3>2. CASE k \in Range(pool.keys)
        BY <3>1, <3>2
      <3>3. CASE k \notin Range(pool.keys)
        <4> DEFINE s == pool.keys
                   a == Append(s, k)
        <4>1. a \in Seq(Keys) /\ Len(s) + 1 \in DOMAIN a /\ a[Len(s) + 1] = k
          BY <3>1
        <4>2. k \in Range(a)
          <5> HIDE DEF a
          <5> QED
            BY <4>1 DEF Range
        <4> QED
          BY <3>3, <4>1, <4>2
      <3> QED
        BY <3>2, <3>3
    <2> HIDE DEF keys
    <2>3. GoodPool'
      BY <1>1, <2>1, <2>2 DEF AddKey, HopInv, GoodPool, PoolRecord
    <2> QED
      BY <1>1, <2>3, EditsCount DEF AddKey, HopInv, GoodRequests, GoodRing
  <1>2. ASSUME NEW k \in Keys, ActivateKey(k) PROVE HopInv'
    <2>1. GoodPool'
      BY <1>2 DEF ActivateKey, HopInv, GoodPool, PoolRecord
    <2> QED
      BY <1>2, <2>1, EditsCount DEF ActivateKey, HopInv, GoodRequests, GoodRing
  <1>3. ASSUME NEW k \in Keys, RemoveKey(k) PROVE HopInv'
    <2> DEFINE rest == RemoveFirst(pool.keys, k)
               live == IF pool.live # k THEN pool.live ELSE IF rest = <<>> THEN None ELSE Head(rest)
    <2>1. /\ pool' = [pool EXCEPT !.keys = rest, !.owed = TRUE, !.live = live]
          /\ k \in Range(pool.keys)
      BY <1>3 DEF RemoveKey
    <2>2. pool.keys \in Seq(Keys) /\ pool.live \in Range(pool.keys)
      <3>1. pool.keys # <<>>
        BY <2>1 DEF Range
      <3> QED
        BY <3>1 DEF HopInv, GoodPool, PoolRecord
    <2>3. rest \in Seq(Keys) /\ \A e \in Range(pool.keys) : e # k => e \in Range(rest)
      BY <2>1, <2>2, RemovalKeeps
    <2> HIDE DEF rest
    <2>4. live \in Keys \cup {None} /\ (live \in Range(rest) \/ rest = <<>>)
      <3>1. CASE pool.live # k
        <4>1. live = pool.live /\ live \in Range(rest)
          BY <2>2, <2>3, <3>1
        <4>2. pool.live \in Keys
          BY <2>2 DEF Range
        <4> QED
          BY <4>1, <4>2
      <3>2. CASE pool.live = k /\ rest = <<>>
        BY <3>2
      <3>3. CASE pool.live = k /\ rest # <<>>
        <4>1. 1 \in DOMAIN rest /\ Head(rest) = rest[1] /\ rest[1] \in Keys
          BY <2>3, <3>3
        <4> QED
          BY <3>3, <4>1 DEF Range
      <3> QED
        BY <3>1, <3>2, <3>3
    <2> HIDE DEF live
    <2>5. GoodPool'
      BY <1>3, <2>1, <2>3, <2>4 DEF RemoveKey, HopInv, GoodPool, PoolRecord
    <2> QED
      BY <1>3, <2>5, EditsCount DEF RemoveKey, HopInv, GoodRequests, GoodRing
  <1>4. ASSUME ClearKeyCooldowns PROVE HopInv'
    <2>1. GoodPool'
      BY <1>4 DEF ClearKeyCooldowns, HopInv, GoodPool, PoolRecord
    <2> QED
      BY <1>4, <2>1 DEF ClearKeyCooldowns, HopInv, GoodRequests, GoodRing
  <1>5. ASSUME SaveCombo PROVE HopInv'
    <2>1. GoodRing(ring)'
      <3>1. GoodRing(ring')
        BY <1>5, FreshIsGood DEF SaveCombo
      <3> QED
        BY <3>1 DEF GoodRing
    <2> QED
      BY <1>5, <2>1, EditsCount DEF SaveCombo, HopInv, GoodRequests, GoodPool
  <1> QED
    BY <1>1, <1>2, <1>3, <1>4, <1>5 DEF Operator

LEMMA HopStarts == HopInit => HopInv
  <1> SUFFICES ASSUME HopInit PROVE HopInv
    OBVIOUS
  <1>1. PICK k \in Range(Pool) : pool = [keys |-> Pool, live |-> k, cooling |-> {}, owed |-> FALSE]
    BY DEF HopInit
  <1>2. Pool \in Seq(Keys) /\ k \in Keys
    BY <1>1, FailoverConstants DEF Range
  <1>3. GoodPool
    BY <1>1, <1>2 DEF GoodPool, PoolRecord
  <1>4. GoodRing(ring)
    BY FreshIsGood DEF HopInit
  <1>5. GoodRequests
    <2>1. Idle \in RequestRecord
      BY IdleIsGood DEF GoodRequest
    <2> QED
      BY <2>1, IdleIsGood DEF HopInit, GoodRequests
  <1>6. 0 \in 0 .. MaxEdits
    BY FailoverConstants
  <1> QED
    BY <1>3, <1>4, <1>5, <1>6 DEF HopInit, HopInv

LEMMA HopStep == HopInv /\ [HopNext]_hopVars => HopInv'
  <1> SUFFICES ASSUME HopInv, [HopNext]_hopVars PROVE HopInv'
    OBVIOUS
  <1>1. ASSUME NEW r \in Requests, Request(r) PROVE HopInv'
    BY <1>1, StartComboKeeps, DispatchKeeps, SucceedsKeeps, StopsKeeps, FailsKeeps,
       AdvanceKeeps, RefusedKeeps DEF Request
  <1>2. CASE UNCHANGED hopVars
    BY <1>2 DEF hopVars, HopInv, GoodPool, GoodRing, GoodRequests
  <1> QED
    BY <1>1, <1>2, LapsesKeep, OperatorKeeps DEF HopNext

LEMMA HopInvariance == HopSpec => []HopInv
  BY HopStarts, HopStep, PTL DEF HopSpec

-----------------------------------------------------------------------------
(* The theorems.                                                           *)

(* However targets cool and strategies alternate with failures, the ring's *)
(* weights stay within half a turn for each other target, its run within   *)
(* its limit, and the pool, the requests and the cooldowns well formed.    *)
THEOREM RingStaysInBounds == HopSpec => []HopTypeOK
  <1>1. HopInv => HopTypeOK
    BY DEF HopInv, HopTypeOK, GoodRing, GoodPool, GoodRequests
  <1> QED
    BY <1>1, HopInvariance, PTL

(* No request is sent to a target it has tried (excludeTargets, the loop   *)
(* of handleComboResponses).                                               *)
THEOREM HopsEnd == HopSpec => []NoTargetTwice
  <1>1. HopInv => NoTargetTwice
    BY DEF HopInv, GoodRequests, GoodRequest, NoTargetTwice
  <1> QED
    BY <1>1, HopInvariance, PTL


(* So the loop of handleComboResponses, which has no counter, ends: a      *)
(* request hops at most once to each target of the combo.                  *)
THEOREM HopsAreBounded ==
    HopSpec => [](\A r \in Requests : Len(req[r].attempted) <= Cardinality(Targets))
  <1>1. HopInv => \A r \in Requests : Len(req[r].attempted) <= Cardinality(Targets)
    <2> SUFFICES ASSUME HopInv, NEW r \in Requests
                 PROVE  Len(req[r].attempted) <= Cardinality(Targets)
      OBVIOUS
    <2> DEFINE tried == req[r].attempted
               n == Len(tried)
    <2>1. tried \in Seq(Targets) /\ IsInjective(tried)
      BY DEF HopInv, GoodRequests, GoodRequest, RequestRecord
    <2> HIDE DEF tried
    <2>2. n \in Nat /\ tried \in [1 .. n -> Targets]
      BY <2>1
    <2> HIDE DEF n
    <2>3. tried \in Injection(1 .. n, Targets)
      BY <2>1, <2>2 DEF Injection
    <2>4. Cardinality(1 .. n) <= Cardinality(Targets)
      BY <2>3, TargetsFinite, FS_Injection
    <2>5. Cardinality(1 .. n) = n
      BY <2>2, FS_Interval
    <2> QED
      BY <2>4, <2>5 DEF n, tried
  <1> QED
    BY <1>1, HopInvariance, PTL

(* A sticky run ends only with its own target's failure, success limit or  *)
(* unavailability: noteComboFailure and noteComboSuccess do nothing to a   *)
(* run of another target, and pickComboTarget goes on with it.             *)
THEOREM RunsAreNotDisturbed == HopSpec => StickyRunsLast
  <1> DEFINE Kept ==
        \A r \in Requests :
           /\ req[r].phase # "idle" /\ req'[r] # req[r]
           /\ ring.active \notin {None, req[r].target}
           /\ ring.active \in Open(req[r])
           => ring' = ring
  <1>1. HopInv /\ [HopNext]_hopVars => [Kept]_hopVars
    <2> SUFFICES ASSUME HopInv, HopNext, NEW r \in Requests,
                        req[r].phase # "idle", req'[r] # req[r],
                        ring.active \notin {None, req[r].target},
                        ring.active \in Open(req[r])
                 PROVE  ring' = ring
      OBVIOUS
    <2>1. PICK q \in Requests : Request(q)
      BY DEF HopNext, Operator, KeyLapses, TargetLapses, AddKey, ActivateKey, RemoveKey,
             ClearKeyCooldowns, SaveCombo
    <2>2. req \in [Requests -> RequestRecord]
      BY DEF HopInv, GoodRequests
    <2>3. q = r
      <3>1. \E x : req' = [req EXCEPT ![q] = x]
        BY <2>1 DEF Request, StartCombo, Dispatch, Succeeds, Stops, Fails, Advance, Refused,
                    GoesTo, Proceeds
      <3> QED
        BY <2>2, <3>1
    <2>4. CASE Succeeds(r)
      BY <2>4 DEF Succeeds, Credited
    <2>5. CASE Advance(r)
      <3> DEFINE ts == Open(req[r])
      <3>1. ring' = Pick(Blamed(ring, req[r].target), ts).ring
        BY <2>5 DEF Advance, GoesTo
      <3>2. Blamed(ring, req[r].target) = ring
        BY DEF Blamed
      <3>3. Pick(ring, ts).ring = ring
        <4> HIDE DEF ts
        <4>1. ring.active \in ts
          BY DEF ts
        <4>2. CASE strategy = "failover"
          BY <4>2 DEF Pick, Choice
        <4>3. CASE strategy = "round-robin"
          BY <4>1, <4>3 DEF Pick, Choice
        <4> QED
          BY <4>2, <4>3 DEF HopInv
      <3> QED
        BY <3>1, <3>2, <3>3
    <2>6. CASE \E may \in {Targets, Readers} : StartCombo(r, may)
      BY <2>6 DEF StartCombo
    <2> QED
      BY <2>1, <2>3, <2>4, <2>5, <2>6 DEF Request, Dispatch, Stops, Fails, Refused
  <1> QED
    BY <1>1, HopInvariance, PTL DEF HopSpec, StickyRunsLast

(* An answer 429 cools the key it was given to, and the live key is left   *)
(* only when it was refused itself, or the operator changed the pool.      *)
THEOREM InnocentKeysStay == HopSpec => InnocentKeyStaysLive
  <1> DEFINE Kept ==
        /\ pool'.cooling \subseteq refused'
        /\ pool'.live # pool.live => pool.live \in refused' \/ edits' # edits
  <1>1. HopInv /\ HopInv' /\ [HopNext]_hopVars => [Kept]_hopVars
    <2> SUFFICES ASSUME HopInv, HopInv', HopNext,
                        pool'.live # pool.live, edits' = edits
                 PROVE  pool.live \in refused'
      BY DEF HopInv, GoodPool
    <2>1. pool' # pool /\ edits \in Nat /\ edits + 1 # edits
      BY FailoverConstants DEF HopInv
    <2>2. PICK r \in Requests : Refused(r)
      <3>1. ~ SaveCombo /\ \A k \in Keys : ~ AddKey(k) /\ ~ ActivateKey(k) /\ ~ RemoveKey(k)
        BY <2>1 DEF Edit, SaveCombo, AddKey, ActivateKey, RemoveKey
      <3>2. ~ ClearKeyCooldowns /\ \A k \in Keys : ~ KeyLapses(k)
        BY DEF ClearKeyCooldowns, KeyLapses, HopInv, GoodPool, PoolRecord
      <3>3. \A t \in Targets : ~ TargetLapses(t)
        BY <2>1 DEF TargetLapses
      <3>4. PICK r \in Requests : Request(r)
        BY <3>1, <3>2, <3>3 DEF HopNext, Operator
      <3> QED
        BY <2>1, <3>4 DEF Request, StartCombo, Dispatch, Succeeds, Stops, Fails, Advance
    <2> DEFINE k == req[r].key
               next == Replacement(k)
               cooling == Cooling(k)
    <2>3. /\ pool' = [pool EXCEPT !.cooling = cooling, !.live = next] /\ ~ (Len(pool.keys) < 2)
          /\ refused' = refused \cup {k}
      <3> HIDE DEF next, cooling
      <3>1. \/ pool' = pool
            \/ pool' = [pool EXCEPT !.cooling = cooling]
            \/ pool' = [pool EXCEPT !.cooling = cooling, !.live = next] /\ ~ (Len(pool.keys) < 2)
        BY <2>2 DEF Refused, next, cooling
      <3>2. refused' = refused \cup {k}
        BY <2>2 DEF Refused
      <3> QED
        BY <2>1, <3>1, <3>2 DEF HopInv, GoodPool, PoolRecord
    <2>4. next # pool.live
      <3> HIDE DEF next, cooling
      <3> QED
        BY <2>3 DEF HopInv, GoodPool, PoolRecord
    <2>5. cooling \subseteq refused'
      BY <2>3 DEF Cooling, HopInv, GoodPool
    <2>6. CASE pool.live = k
      BY <2>3, <2>6
    <2>7. CASE pool.live # k
      <3>1. LostTheRace(k)
        BY <2>7 DEF LostTheRace
      <3>2. pool.live \notin Range(pool.keys) \ cooling
        <4> DEFINE s == Successors(k)
                   ready == SelectInSeq(s, LAMBDA e : e \notin cooling)
        <4>1. next = IF LostTheRace(k) /\ pool.live \in Range(pool.keys) \ cooling THEN pool.live
                     ELSE IF ready # 0 THEN s[ready] ELSE None
          BY DEF Replacement
        <4> HIDE DEF s, ready, next, cooling
        <4> QED
          BY <2>4, <3>1, <4>1
      <3>3. pool.live \in Range(pool.keys)
        <4>1. pool.keys # <<>>
          BY <2>3
        <4> QED
          BY <4>1 DEF HopInv, GoodPool
      <3> QED
        BY <2>5, <3>2, <3>3
    <2> QED
      BY <2>6, <2>7
  <1> QED
    BY <1>1, HopInvariance, PTL DEF HopSpec, InnocentKeyStaysLive

-----------------------------------------------------------------------------
(* The relay.                                                              *)

(* What a turn has queued and has not read was sent. *)
Counted(x) == Len(x.pipe) + x.queued <= x.sent

(* Nothing is recorded of a turn that goes on, unless its terminal was     *)
(* seen or the drain aborted it.                                           *)
Unrecorded(x) ==
    x.phase # "done" /\ ~x.reported =>
        /\ x.health = <<>>
        /\ x.shut \/ x.log = "none"

(* Who is told to stop has been left by the client; an eager turn is       *)
(* aborted by the discard window or by the drain, a teed one by the drain, *)
(* and then it is logged at once.                                          *)
Stopping(x) ==
    /\ x.cancelled => x.left
    /\ x.window # "unarmed" => x.cancelled
    /\ x.shape = "eager" /\ x.aborted => x.cancelled \/ x.shut
    /\ x.shape # "eager" /\ x.cancelled => x.log # "none"

(* The checked properties, of one turn. *)
TrueEnd(x) ==
    /\ x.reported => x.log # "none"
    /\ x.reported /\ ~x.shut => x.log = "terminal" /\ x.health = <<"terminal">>
    /\ Len(x.health) <= 1
    /\ x.phase = "done" => x.log # "none" \/ (x.shut /\ x.shape = "eager")
    /\ x.log = "cancelled" => x.left

Good(x) == Unrecorded(x) /\ Stopping(x) /\ TrueEnd(x)

Fine(x) == x \in TurnRecord /\ Counted(x) /\ Good(x)

(* A turn stops before it discards too much. *)
Undrained(x) == x.phase # "done" => x.drained < DrainChunks

IInv == TypeOK /\ \A t \in Turns : Fine(turn[t]) /\ Undrained(turn[t])

-----------------------------------------------------------------------------
(* Changes of one turn's record. *)

(* A record whose fields are replaced by values of their types stays one.  *)
LEMMA Updates ==
    ASSUME NEW x \in TurnRecord
    PROVE  /\ \A p \in {"idle", "connecting", "streaming", "done"} : [x EXCEPT !.phase = p] \in TurnRecord
           /\ \A s \in {"open", "ended", "reset"} : [x EXCEPT !.source = s] \in TurnRecord
           /\ \A n \in 0 .. MaxChunks : [x EXCEPT !.queued = n] \in TurnRecord
           /\ \A q \in Seq(Chunks) : [x EXCEPT !.pipe = q] \in TurnRecord
           /\ \A f \in {"live", "aborted", "broken"} : [x EXCEPT !.fetch = f] \in TurnRecord
           /\ \A w \in {"unarmed", "open", "over"} : [x EXCEPT !.window = w] \in TurnRecord
           /\ \A n \in 0 .. DrainChunks : [x EXCEPT !.drained = n] \in TurnRecord
           /\ \A e \in Outcomes \cup {"none", "refused"} : [x EXCEPT !.log = e] \in TurnRecord
           /\ \A h \in Seq(Outcomes) : [x EXCEPT !.health = h] \in TurnRecord
           /\ \A b \in BOOLEAN :
                /\ [x EXCEPT !.aborted = b] \in TurnRecord
                /\ [x EXCEPT !.left = b] \in TurnRecord
                /\ [x EXCEPT !.hungUp = b] \in TurnRecord
                /\ [x EXCEPT !.cancelled = b] \in TurnRecord
                /\ [x EXCEPT !.tail = b] \in TurnRecord
                /\ [x EXCEPT !.reported = b] \in TurnRecord
                /\ [x EXCEPT !.paused = b] \in TurnRecord
                /\ [x EXCEPT !.shut = b] \in TurnRecord
<1>1. \A p \in {"idle", "connecting", "streaming", "done"} : [x EXCEPT !.phase = p] \in TurnRecord
  BY DEF TurnRecord
<1>2. \A s \in {"open", "ended", "reset"} : [x EXCEPT !.source = s] \in TurnRecord
  BY DEF TurnRecord
<1>3. \A n \in 0 .. MaxChunks : [x EXCEPT !.queued = n] \in TurnRecord
  BY DEF TurnRecord
<1>4. \A q \in Seq(Chunks) : [x EXCEPT !.pipe = q] \in TurnRecord
  BY DEF TurnRecord
<1>5. \A f \in {"live", "aborted", "broken"} : [x EXCEPT !.fetch = f] \in TurnRecord
  BY DEF TurnRecord
<1>6. \A w \in {"unarmed", "open", "over"} : [x EXCEPT !.window = w] \in TurnRecord
  BY DEF TurnRecord
<1>7. \A n \in 0 .. DrainChunks : [x EXCEPT !.drained = n] \in TurnRecord
  BY DEF TurnRecord
<1>8. \A e \in Outcomes \cup {"none", "refused"} : [x EXCEPT !.log = e] \in TurnRecord
  BY DEF TurnRecord
<1>9. \A h \in Seq(Outcomes) : [x EXCEPT !.health = h] \in TurnRecord
  BY DEF TurnRecord
<1>10. \A b \in BOOLEAN : [x EXCEPT !.aborted = b] \in TurnRecord
  BY DEF TurnRecord
<1>11. \A b \in BOOLEAN : [x EXCEPT !.left = b] \in TurnRecord
  BY DEF TurnRecord
<1>12. \A b \in BOOLEAN : [x EXCEPT !.hungUp = b] \in TurnRecord
  BY DEF TurnRecord
<1>13. \A b \in BOOLEAN : [x EXCEPT !.cancelled = b] \in TurnRecord
  BY DEF TurnRecord
<1>14. \A b \in BOOLEAN : [x EXCEPT !.tail = b] \in TurnRecord
  BY DEF TurnRecord
<1>15. \A b \in BOOLEAN : [x EXCEPT !.reported = b] \in TurnRecord
  BY DEF TurnRecord
<1>16. \A b \in BOOLEAN : [x EXCEPT !.paused = b] \in TurnRecord
  BY DEF TurnRecord
<1>17. \A b \in BOOLEAN : [x EXCEPT !.shut = b] \in TurnRecord
  BY DEF TurnRecord
<1> QED
  BY <1>1, <1>2, <1>3, <1>4, <1>5, <1>6, <1>7, <1>8, <1>9, <1>10, <1>11, <1>12, <1>13, <1>14, <1>15, <1>16, <1>17

(* The first chunk of a pipe, and the rest. *)
LEMMA Pipes ==
    ASSUME NEW x \in TurnRecord, x.pipe # <<>>
    PROVE  /\ Head(x.pipe) \in Chunks /\ Tail(x.pipe) \in Seq(Chunks)
           /\ Len(Tail(x.pipe)) = Len(x.pipe) - 1
           /\ [x EXCEPT !.pipe = Tail(@)] \in TurnRecord
<1>1. x.pipe \in Seq(Chunks)
  BY DEF TurnRecord
<1>2. /\ Head(x.pipe) \in Chunks /\ Tail(x.pipe) \in Seq(Chunks)
      /\ Len(Tail(x.pipe)) = Len(x.pipe) - 1
  BY <1>1, HeadTailProperties
<1> QED
  BY <1>2, Updates

(* What the outcome operators give is a record. *)
LEMMA Shaped ==
    ASSUME NEW x \in TurnRecord
    PROVE  /\ \A e \in Outcomes \cup {"refused"} : Logged(x, e) \in TurnRecord
           /\ \A s \in Outcomes : Reported(x, s) \in TurnRecord
           /\ Seen(x) \in TurnRecord /\ Done(x) \in TurnRecord
           /\ FetchAborted(x) \in TurnRecord /\ TurnAborted(x) \in TurnRecord
           /\ Discarding(x) \in TurnRecord
<1>1. ASSUME NEW y \in TurnRecord, NEW e \in Outcomes \cup {"refused"} PROVE Logged(y, e) \in TurnRecord
  <2>1. (IF y.log = "none" THEN e ELSE y.log) \in Outcomes \cup {"none", "refused"}
    BY DEF TurnRecord
  <2> QED
    BY <2>1, Updates DEF Logged
<1>2. ASSUME NEW s \in Outcomes PROVE Reported(x, s) \in TurnRecord
  <2>1. Logged(x, s) \in TurnRecord
    BY <1>1
  <2>2. Logged(x, s).health \in Seq(Outcomes)
    BY <2>1 DEF TurnRecord
  <2>3. Append(Logged(x, s).health, s) \in Seq(Outcomes)
    BY <2>2, AppendProperties
  <2> QED
    BY <2>1, <2>3, Updates DEF Reported
<1>3. Seen(x) \in TurnRecord
  <2>1. Reported(x, "terminal") \in TurnRecord
    BY <1>2 DEF Outcomes
  <2> QED
    BY <2>1, Updates DEF Seen
<1>4. Done(x) \in TurnRecord
  <2>1. [x EXCEPT !.phase = "done"] \in TurnRecord
    BY Updates
  <2>2. [[x EXCEPT !.phase = "done"] EXCEPT !.paused = FALSE] \in TurnRecord
    BY <2>1, Updates
  <2> QED
    BY <2>2 DEF Done
<1>5. ASSUME NEW y \in TurnRecord PROVE FetchAborted(y) \in TurnRecord
  <2>1. (IF y.fetch = "live" THEN "aborted" ELSE y.fetch) \in {"live", "aborted", "broken"}
    BY DEF TurnRecord
  <2> QED
    BY <2>1, Updates DEF FetchAborted
<1>6. TurnAborted(x) \in TurnRecord
  <2> DEFINE y == [FetchAborted(x) EXCEPT !.aborted = TRUE]
  <2>1. y \in TurnRecord
    BY <1>5, Updates
  <2>2. [y EXCEPT !.paused = FALSE] \in TurnRecord /\ [y EXCEPT !.cancelled = TRUE] \in TurnRecord
    BY <2>1, Updates
  <2>3. Logged([y EXCEPT !.cancelled = TRUE], "cancelled") \in TurnRecord
    BY <1>1, <2>2 DEF Outcomes
  <2>4. TurnAborted(x) = IF x.aborted THEN x
                         ELSE IF x.shape = "eager" THEN [y EXCEPT !.paused = FALSE]
                         ELSE Logged([y EXCEPT !.cancelled = TRUE], "cancelled")
    BY DEF TurnAborted
  <2> QED
    BY <2>2, <2>3, <2>4
<1>7. Discarding(x) \in TurnRecord
  <2> DEFINE w == IF x.window = "unarmed" THEN "open" ELSE x.window
  <2>1. w \in {"unarmed", "open", "over"}
    BY DEF TurnRecord
  <2> DEFINE a == [x EXCEPT !.cancelled = TRUE]
             b == [a EXCEPT !.paused = FALSE]
  <2>2. a \in TurnRecord
    BY Updates
  <2> HIDE DEF a, w
  <2>3. b \in TurnRecord
    BY <2>2, Updates
  <2> HIDE DEF b
  <2>4. [b EXCEPT !.window = w] \in TurnRecord
    BY <2>1, <2>3, Updates
  <2> QED
    BY <2>4 DEF Discarding, a, b, w
<1> QED
  BY <1>1, <1>2, <1>3, <1>4, <1>5, <1>6, <1>7

(* What recording an outcome leaves alone. *)
SameCourse(x, y) ==
    /\ y.phase = x.phase /\ y.shape = x.shape /\ y.pipe = x.pipe /\ y.queued = x.queued
    /\ y.sent = x.sent /\ y.drained = x.drained /\ y.window = x.window
    /\ y.cancelled = x.cancelled /\ y.aborted = x.aborted /\ y.left = x.left /\ y.shut = x.shut

(* An outcome is added to health, and to the log if that has none. *)
LEMMA ReportedEffect ==
    ASSUME NEW x \in TurnRecord, NEW s \in Outcomes, x.health = <<>>
    PROVE  /\ Reported(x, s).health = <<s>>
           /\ Reported(x, s).log = IF x.log = "none" THEN s ELSE x.log
           /\ Reported(x, s).reported = x.reported
           /\ SameCourse(x, Reported(x, s))
<1>1. Append(<<>>, s) = <<s>>
  OBVIOUS
<1>2. Logged(x, s).health = <<>>
  BY DEF Logged, TurnRecord
<1>3. Logged(x, s) \in TurnRecord
  BY Shaped
<1>4. Reported(x, s).health = <<s>>
  BY <1>1, <1>2, <1>3 DEF Reported, TurnRecord
<1>5. Reported(x, s).log = IF x.log = "none" THEN s ELSE x.log
  BY DEF Reported, Logged, TurnRecord
<1>6. Reported(x, s).reported = x.reported /\ SameCourse(x, Reported(x, s))
  BY DEF Reported, Logged, SameCourse, TurnRecord
<1> QED
  BY <1>4, <1>5, <1>6

(* A terminal that is seen for the first time is what the turn is          *)
(* remembered by.                                                          *)
LEMMA SeenIsFine ==
    ASSUME NEW x, Fine(x), x.phase = "streaming", ~x.reported
    PROVE  Fine(Seen(x)) /\ Seen(x).reported /\ Seen(x).drained = x.drained
<1>1. Seen(x) \in TurnRecord
  BY Shaped DEF Fine
<1>2. x.health = <<>> /\ (x.shut \/ x.log = "none")
  BY DEF Fine, Good, Unrecorded
<1>3. /\ Reported(x, "terminal") \in TurnRecord
      /\ Reported(x, "terminal").health = <<"terminal">>
      /\ Reported(x, "terminal").log = IF x.log = "none" THEN "terminal" ELSE x.log
      /\ SameCourse(x, Reported(x, "terminal"))
  BY <1>2, ReportedEffect, Shaped DEF Fine, Outcomes
<1>4. /\ Seen(x).reported /\ Seen(x).health = <<"terminal">>
      /\ Seen(x).log = IF x.log = "none" THEN "terminal" ELSE x.log
      /\ SameCourse(x, Seen(x))
  BY <1>3 DEF Seen, SameCourse, TurnRecord
<1>5. Len(<<"terminal">>) = 1
  OBVIOUS
<1> QED
  BY <1>1, <1>2, <1>4, <1>5 DEF SameCourse, Fine, Counted, Good, Unrecorded, Stopping, TrueEnd

(* What the inspector makes of a chunk, and of the end, stays fine. *)
LEMMA InspectedIsFine ==
    ASSUME NEW x, Fine(x), x.phase = "streaming"
    PROVE  /\ \A c \in Chunks : Fine(Inspected(x, c)) /\ SameCourse(x, Inspected(x, c))
           /\ Fine(Finished(x)) /\ SameCourse(x, Finished(x))
<1>1. ASSUME ~x.reported PROVE Fine(Seen(x)) /\ SameCourse(x, Seen(x))
  <2>1. Reported(x, "terminal") \in TurnRecord /\ SameCourse(x, Reported(x, "terminal"))
    BY <1>1, ReportedEffect, Shaped DEF Fine, Good, Unrecorded, Outcomes
  <2>2. SameCourse(x, Seen(x))
    BY <2>1 DEF Seen, SameCourse, TurnRecord
  <2> QED
    BY <1>1, <2>2, SeenIsFine
<1>2. Fine([x EXCEPT !.tail = TRUE]) /\ SameCourse(x, [x EXCEPT !.tail = TRUE])
  <2>1. [x EXCEPT !.tail = TRUE] \in TurnRecord
    BY Updates DEF Fine
  <2> QED
    BY <2>1 DEF Fine, SameCourse, Counted, Good, Unrecorded, Stopping, TrueEnd, TurnRecord
<1>3. SameCourse(x, x)
  BY DEF SameCourse
<1>4. ASSUME NEW c \in Chunks PROVE Fine(Inspected(x, c)) /\ SameCourse(x, Inspected(x, c))
  <2>1. CASE c = "terminal" /\ ~x.reported
    BY <1>1, <2>1 DEF Inspected
  <2>2. CASE c = "tail"
    BY <1>2, <2>2 DEF Inspected
  <2>3. CASE ~(c = "terminal" /\ ~x.reported) /\ c # "tail"
    BY <1>3, <2>3 DEF Inspected
  <2> QED
    BY <2>1, <2>2, <2>3
<1>5. Fine(Finished(x)) /\ SameCourse(x, Finished(x))
  BY <1>1, <1>3 DEF Finished
<1> QED
  BY <1>4, <1>5

(* A turn whose end is in the log may end, or one the drain cut off.       *)
LEMMA DoneIsFine ==
    ASSUME NEW x, Fine(x), x.log # "none" \/ (x.shut /\ x.shape = "eager")
    PROVE  Fine(Done(x)) /\ Done(x).phase = "done"
<1>1. Done(x) \in TurnRecord
  BY Shaped DEF Fine
<1> QED
  BY <1>1 DEF Done, Fine, Counted, Good, Unrecorded, Stopping, TrueEnd, TurnRecord

(* So may one that reports its end now. *)
LEMMA ReportIsFine ==
    ASSUME NEW x, Fine(x), x.phase = "streaming", ~x.reported, NEW s \in {"incomplete", "failed"}
    PROVE  Fine(Done(Reported(x, s))) /\ Done(Reported(x, s)).phase = "done"
<1> DEFINE y == Reported(x, s)
<1>1. /\ y \in TurnRecord /\ y.health = <<s>> /\ ~y.reported
      /\ y.log = IF x.log = "none" THEN s ELSE x.log
      /\ SameCourse(x, y)
  BY ReportedEffect, Shaped DEF Fine, Good, Unrecorded, Outcomes
<1>2. Done(y) \in TurnRecord
  BY <1>1, Shaped
<1>3. Len(<<s>>) = 1
  OBVIOUS
<1> HIDE DEF y
<1>4. /\ Done(y).phase = "done" /\ Done(y).health = <<s>> /\ ~Done(y).reported
      /\ Done(y).log = IF x.log = "none" THEN s ELSE x.log
      /\ SameCourse([x EXCEPT !.phase = "done"], Done(y))
  BY <1>1 DEF Done, SameCourse, TurnRecord, Fine
<1>5. Fine(Done(y)) /\ Done(y).phase = "done"
  BY <1>2, <1>3, <1>4 DEF SameCourse, Fine, Counted, Good, Unrecorded, Stopping, TrueEnd, TurnRecord
<1> QED
  BY <1>5 DEF y

(* A turn may be aborted that the client has left, or the drain ends. *)
LEMMA AbortedIsFine ==
    ASSUME NEW x, Fine(x),
           x.shape = "eager" => x.cancelled \/ x.shut,
           x.shape # "eager" => x.shut /\ x.left
    PROVE  Fine(TurnAborted(x)) /\ TurnAborted(x).phase = x.phase /\ TurnAborted(x).drained = x.drained
<1>1. TurnAborted(x) \in TurnRecord
  BY Shaped DEF Fine
<1>2. CASE x.aborted
  BY <1>2 DEF TurnAborted
<1>3. CASE ~x.aborted /\ x.shape = "eager"
  BY <1>1, <1>3 DEF TurnAborted, FetchAborted, Fine, Counted, Good, Unrecorded, Stopping, TrueEnd, TurnRecord
<1>4. CASE ~x.aborted /\ x.shape # "eager"
  <2> DEFINE y == TurnAborted(x)
  <2>1. /\ y.log = IF x.log = "none" THEN "cancelled" ELSE x.log
        /\ y.health = x.health /\ y.reported = x.reported /\ y.cancelled /\ y.shape = x.shape
        /\ y.phase = x.phase /\ y.pipe = x.pipe /\ y.queued = x.queued /\ y.sent = x.sent
        /\ y.drained = x.drained /\ y.window = x.window /\ y.left = x.left /\ y.shut = x.shut
    BY <1>4 DEF TurnAborted, FetchAborted, Logged, Fine, TurnRecord
  <2> HIDE DEF y
  <2>2. y \in TurnRecord
    BY <1>1 DEF y
  <2>3. Fine(y)
    BY <1>4, <2>1, <2>2 DEF Fine, Counted, Good, Unrecorded, Stopping, TrueEnd
  <2> QED
    BY <2>1, <2>3 DEF y
<1> QED
  BY <1>2, <1>3, <1>4

(* The eager relay may stop when a terminal was seen, when it discards, or *)
(* when the turn is aborted.                                               *)
LEMMA StoppedIsFine ==
    ASSUME NEW x, Fine(x), x.shape = "eager", x.reported \/ x.cancelled \/ x.aborted
    PROVE  Fine(Stopped(x)) /\ Stopped(x).phase = "done"
<1> DEFINE y == IF x.cancelled /\ ~x.reported THEN Logged(x, "cancelled") ELSE x
           z == IF x.cancelled \/ x.aborted THEN TurnAborted(y) ELSE y
<1>1. /\ y \in TurnRecord /\ SameCourse(x, y)
      /\ y.health = x.health /\ y.reported = x.reported
      /\ y.log = IF x.cancelled /\ ~x.reported /\ x.log = "none" THEN "cancelled" ELSE x.log
  <2>1. x \in TurnRecord /\ Logged(x, "cancelled") \in TurnRecord
    BY Shaped DEF Fine, Outcomes
  <2>2. CASE x.cancelled /\ ~x.reported
    <3>1. y = [x EXCEPT !.log = IF x.log = "none" THEN "cancelled" ELSE x.log]
      BY <2>2 DEF Logged
    <3>2. y \in TurnRecord
      BY <2>1, <2>2
    <3>3. y.log = IF x.log = "none" THEN "cancelled" ELSE x.log
      BY <2>1, <3>1 DEF TurnRecord
    <3> QED
      BY <2>1, <2>2, <3>1, <3>2, <3>3 DEF SameCourse, TurnRecord
  <2>3. CASE ~ (x.cancelled /\ ~x.reported)
    BY <2>1, <2>3 DEF SameCourse
  <2> QED
    BY <2>2, <2>3
<1> HIDE DEF y
<1>2. z \in TurnRecord
  BY <1>1, Shaped
<1>3. /\ z.phase = y.phase /\ z.shape = y.shape /\ z.pipe = y.pipe /\ z.queued = y.queued
      /\ z.sent = y.sent /\ z.window = y.window /\ z.cancelled = y.cancelled
      /\ z.left = y.left /\ z.shut = y.shut
      /\ z.health = y.health /\ z.reported = y.reported /\ z.log = y.log
      /\ z.aborted => y.aborted \/ y.cancelled
  BY <1>1 DEF TurnAborted, FetchAborted, SameCourse, TurnRecord
<1> HIDE DEF z
<1>4. Done(z) \in TurnRecord
  BY <1>2, Shaped
<1>5. Fine(Done(z)) /\ Done(z).phase = "done"
  BY <1>1, <1>2, <1>3, <1>4 DEF SameCourse, Done, Fine, Counted, Good, Unrecorded, Stopping, TrueEnd, TurnRecord
<1> QED
  BY <1>5 DEF Stopped, y, z

-----------------------------------------------------------------------------
(* The steps. *)

(* One turn moves, to a fine state. *)
Moves(t) ==
    \E y : Fine(y) /\ Undrained(y) /\ Become(t, y) /\ UNCHANGED <<server, polls>>

(* What keeps its count and outcomes, and stops nothing, is fine. *)
SameEnd(x, y) ==
    /\ y.reported = x.reported /\ y.health = x.health /\ y.log = x.log
    /\ y.cancelled = x.cancelled /\ y.aborted = x.aborted /\ y.shut = x.shut
    /\ y.shape = x.shape /\ y.drained = x.drained
    /\ x.left => y.left
    /\ y.window # "unarmed" => x.window # "unarmed"
    /\ x.phase # "done" /\ y.phase # "done"

(* Such a change of one turn is one of its moves. *)
LEMMA PlainMove ==
    ASSUME NEW t \in Turns, Fine(turn[t]), Undrained(turn[t]),
           NEW y \in TurnRecord, SameEnd(turn[t], y), Len(y.pipe) + y.queued <= y.sent,
           Become(t, y), UNCHANGED <<server, polls>>
    PROVE  Moves(t)
<1>1. Fine(y) /\ Undrained(y)
  BY DEF SameEnd, Fine, Counted, Good, Unrecorded, Stopping, TrueEnd, Undrained
<1> QED
  BY <1>1 DEF Moves

(* Every step of a turn is one of its moves. *)
LEMMA TurnMoves ==
    ASSUME NEW t \in Turns, Fine(turn[t]), Undrained(turn[t]),
           \/ Arrive(t) \/ HeadersArrive(t) \/ ConnectFails(t)
           \/ Upstream(t) \/ Client(t) \/ Inspect(t) \/ Produce(t)
           \/ WindowPasses(t) \/ DrainTimerFires(t)
    PROVE  Moves(t)
<1> DEFINE x == turn[t]
<1>0. /\ x \in TurnRecord /\ Len(x.pipe) + x.queued <= x.sent
      /\ x.pipe \in Seq(Chunks) /\ x.sent \in 0 .. MaxChunks /\ x.queued \in 0 .. MaxChunks
      /\ Len(x.pipe) \in Nat /\ MaxChunks \in Nat
  BY RelayConstants, LenProperties DEF Fine, Counted, TurnRecord
<1>1. CASE Arrive(t)
  <2> DEFINE y == [x EXCEPT !.phase = "connecting"]
  <2>1. y \in TurnRecord
    BY <1>0, Updates
  <2>2. SameEnd(x, y) /\ Len(y.pipe) + y.queued <= y.sent
    BY <1>0, <1>1 DEF Arrive, SameEnd, TurnRecord
  <2> QED
    BY <1>1, <2>1, <2>2, PlainMove DEF Arrive
<1>2. CASE HeadersArrive(t)
  <2> DEFINE y == [x EXCEPT !.phase = "streaming"]
  <2>1. y \in TurnRecord
    BY <1>0, Updates
  <2>2. SameEnd(x, y) /\ Len(y.pipe) + y.queued <= y.sent
    BY <1>0, <1>2 DEF HeadersArrive, SameEnd, TurnRecord
  <2> QED
    BY <1>2, <2>1, <2>2, PlainMove DEF HeadersArrive
<1>3. CASE ConnectFails(t)
  <2> DEFINE y == Done(Logged(x, "refused"))
  <2>1. y \in TurnRecord
    BY <1>0, Shaped
  <2>2. /\ y.phase = "done" /\ y.pipe = x.pipe /\ y.queued = x.queued /\ y.sent = x.sent
        /\ y.reported = x.reported /\ y.health = x.health /\ y.shut = x.shut
        /\ y.log = IF x.log = "none" THEN "refused" ELSE x.log
        /\ y.cancelled = x.cancelled /\ y.aborted = x.aborted /\ y.shape = x.shape
        /\ y.left = x.left /\ y.window = x.window
    BY <1>0 DEF Done, Logged, TurnRecord
  <2> HIDE DEF y
  <2>3. Fine(y) /\ Undrained(y)
    BY <2>1, <2>2 DEF Fine, Counted, Good, Unrecorded, Stopping, TrueEnd, Undrained
  <2> QED
    BY <1>3, <2>3 DEF ConnectFails, Moves, y
<1>4. ASSUME NEW chunk \in Chunks, Send(t, chunk) PROVE Moves(t)
  <2> DEFINE q == Append(x.pipe, chunk)
             y == [x EXCEPT !.sent = @ + 1, !.pipe = Append(@, chunk),
                            !.told = @ \/ chunk # "delta"]
  <2>1. q \in Seq(Chunks) /\ Len(q) = Len(x.pipe) + 1
    BY <1>0, AppendProperties
  <2>2. x.sent + 1 \in 0 .. MaxChunks
    BY <1>0, <1>4 DEF Send
  <2>3. y = [x EXCEPT !.sent = x.sent + 1, !.pipe = q, !.told = x.told \/ chunk # "delta"]
    OBVIOUS
  <2>4. x.told \in BOOLEAN
    BY <1>0 DEF TurnRecord
  <2> HIDE DEF q
  <2> DEFINE n == x.sent + 1
             b == x.told \/ chunk # "delta"
  <2>5. y \in TurnRecord
    <3>1. y = [x EXCEPT !.sent = n, !.pipe = q, !.told = b]
      BY <2>3
    <3>2. n \in 0 .. MaxChunks /\ b \in BOOLEAN
      BY <2>2, <2>4
    <3> HIDE DEF y, n, b, x
    <3> QED
      BY <1>0, <2>1, <3>1, <3>2 DEF TurnRecord
  <2>6. SameEnd(x, y) /\ Len(y.pipe) + y.queued <= y.sent
    BY <1>0, <1>4, <2>1, <2>3 DEF Send, Streaming, SameEnd, TurnRecord
  <2> QED
    BY <1>4, <2>5, <2>6, PlainMove DEF Send
<1>5. ASSUME NEW how \in {"ended", "reset"}, SourceEnds(t, how) PROVE Moves(t)
  <2> DEFINE y == [x EXCEPT !.source = how]
  <2>1. y \in TurnRecord
    BY <1>0, Updates
  <2>2. SameEnd(x, y) /\ Len(y.pipe) + y.queued <= y.sent
    BY <1>0, <1>5 DEF SourceEnds, Streaming, SameEnd, TurnRecord
  <2> QED
    BY <1>5, <2>1, <2>2, PlainMove DEF SourceEnds
<1>6. CASE FetchBreaks(t)
  <2> DEFINE y == [x EXCEPT !.fetch = "broken", !.pipe = <<>>]
  <2>1. [x EXCEPT !.fetch = "broken"] \in TurnRecord
    BY <1>0, Updates
  <2>2. <<>> \in Seq(Chunks) /\ Len(<<>>) = 0
    OBVIOUS
  <2>3. [[x EXCEPT !.fetch = "broken"] EXCEPT !.pipe = <<>>] \in TurnRecord
    BY <2>1, <2>2, Updates
  <2>4. SameEnd(x, y) /\ Len(y.pipe) + y.queued <= y.sent
    BY <1>0, <1>6, <2>2 DEF FetchBreaks, Streaming, SameEnd, TurnRecord
  <2> QED
    BY <1>6, <2>3, <2>4, PlainMove DEF FetchBreaks
<1>7. CASE ClientLeaves(t)
  <2> DEFINE y == [x EXCEPT !.left = TRUE]
  <2>1. y \in TurnRecord
    BY <1>0, Updates
  <2>2. SameEnd(x, y) /\ Len(y.pipe) + y.queued <= y.sent
    BY <1>0, <1>7 DEF ClientLeaves, SameEnd, TurnRecord
  <2> QED
    BY <1>7, <2>1, <2>2, PlainMove DEF ClientLeaves
<1>8. CASE SignalAborts(t)
  <2>1. FetchAborted(x) \in TurnRecord
    BY <1>0, Shaped
  <2>2. SameEnd(x, FetchAborted(x)) /\ Len(FetchAborted(x).pipe) + FetchAborted(x).queued <= FetchAborted(x).sent
    BY <1>0, <1>8 DEF SignalAborts, FetchAborted, SameEnd, TurnRecord
  <2> QED
    BY <1>8, <2>1, <2>2, PlainMove DEF SignalAborts
<1>9. CASE StreamCancelled(t)
  <2> DEFINE h == [x EXCEPT !.hungUp = TRUE]
  <2>0. h \in TurnRecord
    BY <1>0, Updates
  <2>1. h \in TurnRecord /\ SameEnd(x, h) /\ Len(h.pipe) + h.queued <= h.sent
    BY <1>0, <1>9, <2>0 DEF StreamCancelled, Streaming, SameEnd, TurnRecord
  <2>2. h.left /\ h.phase = "streaming" /\ h.shape = x.shape /\ h.shape \in {"tee", "native", "eager"}
    BY <1>0, <1>9, RelayConstants DEF StreamCancelled, Streaming, TurnRecord
  <2>3. Fine(h) /\ Undrained(h)
    BY <2>1 DEF SameEnd, Fine, Counted, Good, Unrecorded, Stopping, TrueEnd, Undrained
  <2> HIDE DEF h
  <2>4. CASE x.shape = "tee"
    <3>1. FetchAborted(h) \in TurnRecord
      BY <2>1, Shaped
    <3>2. Fine(FetchAborted(h)) /\ Undrained(FetchAborted(h))
      BY <2>3, <3>1 DEF FetchAborted, Fine, Counted, Good, Unrecorded, Stopping, TrueEnd, Undrained, TurnRecord
    <3> QED
      BY <1>9, <2>2, <2>4, <3>2 DEF StreamCancelled, Moves, h
  <2>5. CASE x.shape = "native"
    BY <1>9, <2>2, <2>3, <2>5 DEF StreamCancelled, Moves, h
  <2>6. CASE x.shape = "eager"
    <3>1. Discarding(h) \in TurnRecord
      BY <2>1, Shaped
    <3> DEFINE w == IF h.window = "unarmed" THEN "open" ELSE h.window
               z == Discarding(h)
    <3>2. /\ h \in TurnRecord
          /\ z = [h EXCEPT !.cancelled = TRUE, !.paused = FALSE, !.window = w]
      BY <2>1 DEF Discarding
    <3> HIDE DEF w
    <3>3. /\ z.phase = h.phase /\ z.shape = h.shape /\ z.pipe = h.pipe /\ z.queued = h.queued
          /\ z.sent = h.sent /\ z.drained = h.drained /\ z.aborted = h.aborted /\ z.left = h.left
          /\ z.shut = h.shut /\ z.log = h.log /\ z.health = h.health /\ z.reported = h.reported
          /\ z.cancelled
      BY <3>2 DEF TurnRecord
    <3> HIDE DEF z
    <3>4. Fine(z) /\ Undrained(z)
      BY <2>2, <2>3, <2>6, <3>1, <3>3
      DEF z, Fine, Counted, Good, Unrecorded, Stopping, TrueEnd, Undrained
    <3> QED
      BY <1>9, <2>2, <2>6, <3>4 DEF StreamCancelled, Moves, h, z
  <2> QED
    BY <2>2, <2>4, <2>5, <2>6
<1>10. CASE ClientPulls(t)
  <2> DEFINE y == [x EXCEPT !.queued = 0, !.paused = FALSE]
  <2>1. 0 \in 0 .. MaxChunks
    BY <1>0
  <2>2. [x EXCEPT !.queued = 0] \in TurnRecord
    BY <1>0, <2>1, Updates
  <2>3. [[x EXCEPT !.queued = 0] EXCEPT !.paused = FALSE] \in TurnRecord
    BY <2>2, Updates
  <2>4. SameEnd(x, y) /\ Len(y.pipe) + y.queued <= y.sent
    BY <1>0, <1>10 DEF ClientPulls, Eager, Streaming, SameEnd, TurnRecord
  <2> QED
    BY <1>10, <2>3, <2>4, PlainMove DEF ClientPulls
<1>11. ASSUME x.pipe # <<>>, Streaming(t)
       PROVE  LET r == [x EXCEPT !.pipe = Tail(@)]
              IN  /\ Fine(r) /\ Undrained(r) /\ r.phase = "streaming" /\ r.shape = x.shape
                  /\ r.left = x.left /\ r.drained = x.drained /\ r.cancelled = x.cancelled
                  /\ Len(r.pipe) + r.queued + 1 <= r.sent /\ Head(x.pipe) \in Chunks
  <2> DEFINE r == [x EXCEPT !.pipe = Tail(@)]
  <2>1. r \in TurnRecord /\ Head(x.pipe) \in Chunks /\ Len(Tail(x.pipe)) = Len(x.pipe) - 1
    BY <1>0, <1>11, Pipes
  <2>2. r.pipe = Tail(x.pipe) /\ r.queued = x.queued /\ r.sent = x.sent /\ SameEnd(x, r) /\ r.phase = x.phase
        /\ r.left = x.left
    BY <1>0, <1>11 DEF SameEnd, Streaming, TurnRecord
  <2>3. Len(r.pipe) + r.queued + 1 <= r.sent
    BY <1>0, <2>1, <2>2
  <2> HIDE DEF r
  <2>4. Len(r.pipe) + r.queued <= r.sent
    <3> DEFINE n == Len(r.pipe)
    <3>1. n \in Nat /\ r.queued \in Nat /\ r.sent \in Nat
      BY <1>0, <2>1, <2>2
    <3> HIDE DEF n
    <3>2. n + r.queued + 1 <= r.sent
      BY <2>3 DEF n
    <3>3. n + r.queued <= r.sent
      BY <3>1, <3>2
    <3> QED
      BY <3>3 DEF n
  <2>5. Fine(r) /\ Undrained(r)
    BY <2>1, <2>2, <2>4 DEF SameEnd, Fine, Counted, Good, Unrecorded, Stopping, TrueEnd, Undrained
  <2>6. Fine(r) /\ Undrained(r) /\ r.phase = "streaming" /\ r.shape = x.shape
        /\ r.left = x.left /\ r.drained = x.drained /\ r.cancelled = x.cancelled
        /\ Len(r.pipe) + r.queued + 1 <= r.sent /\ Head(x.pipe) \in Chunks
    BY <1>11, <2>1, <2>2, <2>3, <2>5 DEF SameEnd, Streaming
  <2> QED
    BY <2>6 DEF r
<1>12. CASE InspectorReads(t)
  <2> DEFINE r == [x EXCEPT !.pipe = Tail(@)]
             y == Inspected(r, Head(x.pipe))
  <2>1. x.pipe # <<>> /\ Streaming(t)
    BY <1>12 DEF InspectorReads, Teed
  <2>2. Fine(r) /\ Undrained(r) /\ r.phase = "streaming" /\ Head(x.pipe) \in Chunks
    BY <1>11, <2>1
  <2> HIDE DEF r
  <2>3. Fine(y) /\ SameCourse(r, y)
    BY <2>2, InspectedIsFine
  <2>4. Fine(y) /\ Undrained(y)
    BY <2>2, <2>3 DEF SameCourse, Undrained
  <2> QED
    BY <1>12, <2>4 DEF InspectorReads, Moves, r
<1>13. CASE InspectorEnds(t)
  <2> DEFINE f == Finished(x)
  <2>1. Fine(f) /\ SameCourse(x, f) /\ x.phase = "streaming" /\ x.shape # "eager"
    BY <1>13, InspectedIsFine DEF InspectorEnds, Teed, Streaming
  <2>2. turn' = [turn EXCEPT ![t] = Done(IF f.reported \/ f.cancelled THEN f ELSE Reported(f, "incomplete"))]
        /\ UNCHANGED <<server, polls>>
    BY <1>13 DEF InspectorEnds, Become
  <2> HIDE DEF f
  <2>3. CASE f.reported \/ f.cancelled
    <3>1. f.log # "none"
      BY <2>1, <2>3 DEF SameCourse, Fine, Good, Stopping, TrueEnd
    <3> QED
      BY <2>1, <2>2, <2>3, <3>1, DoneIsFine DEF Moves, Become, Undrained
  <2>4. CASE ~(f.reported \/ f.cancelled)
    <3>1. f.phase = "streaming"
      BY <2>1 DEF SameCourse
    <3> QED
      BY <2>1, <2>2, <2>4, <3>1, ReportIsFine DEF Moves, Become, Undrained
  <2> QED
    BY <2>3, <2>4
<1>14. CASE InspectorFails(t)
  <2>1. x.phase = "streaming" /\ x.shape # "eager"
    BY <1>14 DEF InspectorFails, Teed, Streaming
  <2>2. turn' = [turn EXCEPT ![t] = Done(IF x.reported \/ x.cancelled THEN x ELSE Reported(x, "failed"))]
        /\ UNCHANGED <<server, polls>>
    BY <1>14 DEF InspectorFails, Become
  <2>3. CASE x.reported \/ x.cancelled
    <3>1. x.log # "none"
      BY <2>1, <2>3 DEF Fine, Good, Stopping, TrueEnd
    <3> QED
      BY <2>2, <2>3, <3>1, DoneIsFine DEF Moves, Become, Undrained
  <2>4. CASE ~(x.reported \/ x.cancelled)
    BY <2>1, <2>2, <2>4, ReportIsFine DEF Moves, Become, Undrained
  <2> QED
    BY <2>3, <2>4
<1>15. CASE ProducerReads(t)
  <2> DEFINE r == [x EXCEPT !.pipe = Tail(@)]
             i == Inspected(r, Head(x.pipe))
             d == [i EXCEPT !.drained = @ + 1]
  <2>1. x.pipe # <<>> /\ Streaming(t) /\ x.shape = "eager"
    BY <1>15 DEF ProducerReads, Eager
  <2>2. /\ Fine(r) /\ Undrained(r) /\ r.phase = "streaming" /\ r.shape = x.shape
        /\ r.left = x.left /\ r.drained = x.drained /\ r.cancelled = x.cancelled
        /\ Len(r.pipe) + r.queued + 1 <= r.sent /\ Head(x.pipe) \in Chunks
    BY <1>11, <2>1
  <2> HIDE DEF r
  <2>3. Fine(i) /\ SameCourse(r, i)
    BY <2>2, InspectedIsFine
  <2>4. /\ \/ i.cancelled /\ Become(t, IF DrainIsOver(d) THEN Stopped(d) ELSE d)
           \/ ~i.cancelled /\ Become(t, Enqueued(i))
           \/ i.left /\ Become(t, Discarding(i))
        /\ UNCHANGED <<server, polls>>
    BY <1>15, <2>2, <2>3 DEF ProducerReads, SameCourse, r
  <2> HIDE DEF i
  <2>5. /\ i \in TurnRecord /\ i.phase = "streaming" /\ i.shape = "eager" /\ i.drained < DrainChunks
        /\ Len(i.pipe) + i.queued + 1 <= i.sent /\ i.drained \in 0 .. DrainChunks
        /\ i.queued \in 0 .. MaxChunks /\ i.sent \in 0 .. MaxChunks /\ Len(i.pipe) \in Nat
    BY <2>1, <2>2, <2>3, LenProperties DEF SameCourse, Undrained, Fine, TurnRecord
  <2>6. CASE i.cancelled /\ Become(t, IF DrainIsOver(d) THEN Stopped(d) ELSE d)
    <3>1. i.drained + 1 \in 0 .. DrainChunks
      BY <2>5, RelayConstants
    <3>2. d = [i EXCEPT !.drained = i.drained + 1] /\ d \in TurnRecord
      BY <2>5, <3>1, Updates
    <3>3. Fine(d) /\ d.shape = "eager" /\ d.cancelled /\ d.drained = i.drained + 1
      BY <2>3, <2>5, <2>6, <3>2 DEF Fine, Counted, Good, Unrecorded, Stopping, TrueEnd, TurnRecord
    <3> HIDE DEF d
    <3>4. CASE DrainIsOver(d)
      BY <2>4, <2>6, <3>3, <3>4, StoppedIsFine DEF Moves, Undrained
    <3>5. CASE ~DrainIsOver(d)
      <4>1. d.drained < DrainChunks
        BY <2>5, <3>3, <3>5, RelayConstants DEF DrainIsOver
      <4> QED
        BY <2>4, <2>6, <3>3, <3>5, <4>1 DEF Moves, Undrained
    <3> QED
      BY <3>4, <3>5
  <2>7. CASE ~i.cancelled /\ Become(t, Enqueued(i))
    <3> DEFINE e == Enqueued(i)
    <3>1. i.queued + 1 \in 0 .. MaxChunks
      <4> DEFINE n == Len(i.pipe)
      <4>1. /\ n \in Nat /\ i.queued \in 0 .. MaxChunks /\ i.sent \in 0 .. MaxChunks
            /\ n + i.queued + 1 <= i.sent /\ MaxChunks \in Nat
        BY <1>0, <2>5
      <4> HIDE DEF n
      <4> QED
        BY <4>1
    <3> DEFINE y == [i EXCEPT !.queued = i.queued + 1]
    <3>2. y \in TurnRecord
      BY <2>5, <3>1, Updates
    <3>3. (y.queued > QueueCap /\ ~y.aborted) \in BOOLEAN /\ e = [y EXCEPT !.paused = y.queued > QueueCap /\ ~y.aborted]
      BY DEF Enqueued
    <3> DEFINE p == y.queued > QueueCap /\ ~y.aborted
    <3> HIDE DEF p
    <3>4. e = [y EXCEPT !.paused = p] /\ p \in BOOLEAN
      BY <3>3 DEF p
    <3>5. e \in TurnRecord
      BY <3>2, <3>4, Updates
    <3>6. SameEnd(i, e) /\ e.pipe = i.pipe /\ e.queued = i.queued + 1 /\ e.sent = i.sent
      BY <2>5, <3>4 DEF SameEnd, TurnRecord
    <3> HIDE DEF e
    <3>7. Len(e.pipe) + e.queued <= e.sent
      BY <2>5, <3>6
    <3>8. Fine(e) /\ Undrained(e)
      BY <2>3, <2>5, <3>5, <3>6, <3>7 DEF SameEnd, Fine, Counted, Good, Unrecorded, Stopping, TrueEnd, Undrained
    <3> QED
      BY <2>4, <2>7, <3>8 DEF Moves, e
  <2>8. CASE i.left /\ Become(t, Discarding(i))
    <3>1. Discarding(i) \in TurnRecord
      BY <2>5, Shaped
    <3>2. Fine(Discarding(i)) /\ Undrained(Discarding(i))
      BY <2>3, <2>5, <2>8, <3>1 DEF Discarding, Fine, Counted, Good, Unrecorded, Stopping, TrueEnd, Undrained, TurnRecord
    <3> QED
      BY <2>4, <2>8, <3>2 DEF Moves
  <2> QED
    BY <2>4, <2>6, <2>7, <2>8
<1>16. ASSUME NEW f, Fine(f), f.phase = "streaming", f.shape = "eager",
              NEW s \in {"incomplete", "failed"}
       PROVE  Fine(Stopped(Synthetic(f, s))) /\ Stopped(Synthetic(f, s)).phase = "done"
  <2>1. CASE f.reported \/ f.cancelled \/ f.aborted
    BY <1>16, <2>1, StoppedIsFine DEF Synthetic
  <2>2. CASE ~(f.reported \/ f.cancelled \/ f.aborted)
    <3> DEFINE y == Reported(f, s)
    <3>1. y \in TurnRecord /\ SameCourse(f, y)
      BY <1>16, <2>2, ReportedEffect, Shaped DEF Fine, Good, Unrecorded, Outcomes
    <3>2. Fine(Done(y)) /\ Done(y).phase = "done"
      BY <1>16, <2>2, ReportIsFine
    <3> HIDE DEF y
    <3>3. ~y.cancelled /\ ~y.aborted
      BY <2>2, <3>1 DEF SameCourse
    <3>4. Stopped(y) = Done(y)
      BY <3>3 DEF Stopped
    <3>5. Synthetic(f, s) = y
      BY <2>2 DEF Synthetic, y
    <3> QED
      BY <3>2, <3>4, <3>5
  <2> QED
    BY <2>1, <2>2
<1>17. CASE ProducerEnds(t)
  <2>1. Fine(Finished(x)) /\ SameCourse(x, Finished(x)) /\ x.phase = "streaming" /\ x.shape = "eager"
    BY <1>17, InspectedIsFine DEF ProducerEnds, Eager, Streaming
  <2>2. Finished(x).phase = "streaming" /\ Finished(x).shape = "eager"
    BY <2>1 DEF SameCourse
  <2>3. Fine(Stopped(Synthetic(Finished(x), "incomplete"))) /\ Stopped(Synthetic(Finished(x), "incomplete")).phase = "done"
    BY <1>16, <2>1, <2>2
  <2> QED
    BY <1>17, <2>3 DEF ProducerEnds, Moves, Undrained
<1>18. CASE ProducerFails(t)
  <2>1. Fine(Stopped(Synthetic(x, "failed"))) /\ Stopped(Synthetic(x, "failed")).phase = "done"
    BY <1>16, <1>18 DEF ProducerFails, Eager, Streaming
  <2> QED
    BY <1>18, <2>1 DEF ProducerFails, Moves, Undrained
<1>19. CASE ProducerAborts(t)
  <2>1. Fine(Stopped(x)) /\ Stopped(x).phase = "done"
    BY <1>19, StoppedIsFine DEF ProducerAborts, Eager
  <2> QED
    BY <1>19, <2>1 DEF ProducerAborts, Moves, Undrained
<1>20. CASE WindowPasses(t)
  <2> DEFINE y == [x EXCEPT !.window = "over"]
  <2>1. y \in TurnRecord
    BY <1>0, Updates
  <2>2. SameEnd(x, y) /\ Len(y.pipe) + y.queued <= y.sent
    BY <1>0, <1>20 DEF WindowPasses, Eager, Streaming, SameEnd, TurnRecord
  <2> QED
    BY <1>20, <2>1, <2>2, PlainMove DEF WindowPasses
<1>21. CASE DrainTimerFires(t)
  <2>1. x.shape = "eager" /\ x.cancelled
    BY <1>21 DEF DrainTimerFires, Eager, Fine, Good, Stopping
  <2>2. Fine(TurnAborted(x)) /\ TurnAborted(x).phase = x.phase /\ TurnAborted(x).drained = x.drained
    BY <2>1, AbortedIsFine
  <2> QED
    BY <1>21, <2>2 DEF DrainTimerFires, Moves, Undrained
<1> QED
  BY <1>1, <1>2, <1>3, <1>4, <1>5, <1>6, <1>7, <1>8, <1>9, <1>10, <1>12, <1>13, <1>14, <1>15,
     <1>17, <1>18, <1>19, <1>20, <1>21 DEF Upstream, Client, Inspect, Produce

(* The drain leaves every turn fine that it cuts off. *)
LEMMA DrainIsFine ==
    ASSUME IInv, DrainEnds, NEW t \in Turns
    PROVE  Fine(turn'[t]) /\ Undrained(turn'[t])
<1> DEFINE b == turn[t].left \/ turn[t].phase \in {"connecting", "streaming"}
           x == [turn[t] EXCEPT !.left = b]
           z == [x EXCEPT !.shut = TRUE]
<1>1. turn'[t] = IF Streaming(t) THEN TurnAborted(z) ELSE x
  BY DEF DrainEnds, activeTurns
<1>2. Fine(turn[t]) /\ Undrained(turn[t]) /\ turn[t] \in TurnRecord /\ b \in BOOLEAN
  BY DEF IInv, Fine, TurnRecord
<1>3. turn[t].left => b
  OBVIOUS
<1>4. Streaming(t) => b
  BY DEF Streaming
<1> HIDE DEF b
<1>5. x \in TurnRecord
  BY <1>2, Updates
<1>6. Fine(x) /\ Undrained(x) /\ x.left = b
  BY <1>2, <1>3, <1>5 DEF Fine, Counted, Good, Unrecorded, Stopping, TrueEnd, Undrained, TurnRecord
<1> HIDE DEF x
<1>7. z \in TurnRecord
  BY <1>5, Updates
<1>8. Fine(z) /\ Undrained(z) /\ z.left = b /\ z.shut
  BY <1>6, <1>7 DEF Fine, Counted, Good, Unrecorded, Stopping, TrueEnd, Undrained, TurnRecord
<1> HIDE DEF z
<1>9. CASE Streaming(t)
  <2>1. Fine(TurnAborted(z)) /\ TurnAborted(z).phase = z.phase /\ TurnAborted(z).drained = z.drained
    BY <1>4, <1>8, <1>9, AbortedIsFine
  <2> QED
    BY <1>1, <1>8, <1>9, <2>1 DEF Undrained
<1>10. CASE ~Streaming(t)
  BY <1>1, <1>6, <1>10
<1> QED
  BY <1>9, <1>10

-----------------------------------------------------------------------------
(* The inductive invariant holds. *)
THEOREM Invariance == Spec => []IInv
<1>1. ASSUME Init PROVE IInv
  <2>1. ASSUME NEW t \in Turns PROVE Fine(turn[t]) /\ Undrained(turn[t])
    <3>1. PICK s \in Shapes : turn[t] = [
           phase |-> "idle", shape |-> s, source |-> "open", sent |-> 0,
           told |-> FALSE, pipe |-> <<>>, fetch |-> "live", aborted |-> FALSE,
           left |-> FALSE, hungUp |-> FALSE, cancelled |-> FALSE,
           tail |-> FALSE, reported |-> FALSE, queued |-> 0, paused |-> FALSE,
           window |-> "unarmed", drained |-> 0, shut |-> FALSE,
           log |-> "none", health |-> <<>>]
      BY <1>1, <2>1 DEF Init
    <3>2. turn[t] \in TurnRecord
      BY <3>1, RelayConstants DEF TurnRecord
    <3>3. Len(<<>>) = 0
      OBVIOUS
    <3> QED
      BY <3>1, <3>2, <3>3, RelayConstants DEF Fine, Counted, Good, Unrecorded, Stopping, TrueEnd, Undrained
  <2>2. \E R : turn \in [Turns -> R]
    BY <1>1 DEF Init
  <2>3. turn \in [Turns -> TurnRecord]
    BY <2>1, <2>2 DEF Fine
  <2> QED
    BY <1>1, <2>1, <2>3, RelayConstants DEF Init, IInv, TypeOK
<1>2. ASSUME IInv, [Next]_vars PROVE IInv'
  <2>1. ASSUME NEW t \in Turns, Moves(t) PROVE IInv'
    <3>1. PICK y : Fine(y) /\ Undrained(y) /\ Become(t, y) /\ UNCHANGED <<server, polls>>
      BY <2>1 DEF Moves
    <3>2. \A u \in Turns : turn'[u] = IF u = t THEN y ELSE turn[u]
      BY <1>2, <3>1 DEF IInv, TypeOK, Become
    <3>3. turn' \in [Turns -> TurnRecord]
      BY <1>2, <3>1 DEF IInv, TypeOK, Become, Fine
    <3>4. \A u \in Turns : Fine(turn'[u]) /\ Undrained(turn'[u])
      BY <1>2, <3>1, <3>2 DEF IInv
    <3> QED
      BY <1>2, <3>1, <3>3, <3>4 DEF IInv, TypeOK
  <2>2. CASE DrainStarts \/ DrainWaits
    <3>1. turn' = turn /\ server' \in {"serving", "draining", "stopped"} /\ polls' \in 0 .. Deadline
      BY <1>2, <2>2, RelayConstants DEF IInv, TypeOK, DrainStarts, DrainWaits
    <3> QED
      BY <1>2, <3>1 DEF IInv, TypeOK
  <2>3. CASE DrainEnds
    <3>1. \A t \in Turns : Fine(turn'[t]) /\ Undrained(turn'[t])
      BY <1>2, <2>3, DrainIsFine
    <3> DEFINE F(t) ==
          LET x == [turn[t] EXCEPT !.left = @ \/ turn[t].phase \in {"connecting", "streaming"}]
          IN  IF t \in activeTurns THEN TurnAborted([x EXCEPT !.shut = TRUE]) ELSE x
    <3>2. turn' = [t \in Turns |-> F(t)]
      BY <2>3 DEF DrainEnds
    <3> HIDE DEF F
    <3>3. turn' \in [Turns -> TurnRecord]
      BY <3>1, <3>2 DEF Fine
    <3> QED
      BY <1>2, <2>3, <3>1, <3>3 DEF IInv, TypeOK, DrainEnds
  <2>4. CASE UNCHANGED vars
    BY <1>2, <2>4 DEF vars, IInv, TypeOK
  <2>5. \A t \in Turns : Fine(turn[t]) /\ Undrained(turn[t])
    BY <1>2 DEF IInv
  <2> QED
    BY <1>2, <2>1, <2>2, <2>3, <2>4, <2>5, TurnMoves DEF Next, Drain
<1> QED
  BY <1>1, <1>2, PTL DEF Spec

(* Every reachable state is of its shape. *)
THEOREM TypeCorrect == Spec => []TypeOK
<1>1. IInv => TypeOK
  BY DEF IInv
<1> QED
  BY <1>1, Invariance, PTL

(* A terminal the upstream sent and the inspector saw is what log and      *)
(* account health keep, whoever leaves and whatever fails later.           *)
THEOREM TerminalStays == Spec => []RealTerminalWins
<1>1. IInv => RealTerminalWins
  BY DEF IInv, Fine, Good, TrueEnd, RealTerminalWins
<1> QED
  BY <1>1, Invariance, PTL

(* Every turn is recorded, once, and as cancelled only if somebody ended it. *)
THEOREM OneRecord == Spec => []EndIsRecordedOnce
<1>1. IInv => EndIsRecordedOnce
  BY DEF IInv, Fine, Good, TrueEnd, EndIsRecordedOnce
<1> QED
  BY <1>1, Invariance, PTL

=============================================================================
