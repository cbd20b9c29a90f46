---------------------------- MODULE SumTheorems ----------------------------
(***************************************************************************)
(* What SumFunction of the community modules computes, for every function  *)
(* with a finite domain and natural or integer numbers as values.  It is a *)
(* fold over subsets that picks elements with CHOOSE; the facts below are  *)
(* what the proofs about sums of durations and of votes need: nothing sums *)
(* to 0, one element more adds its value, and a sum of naturals is at      *)
(* least each of them.                                                     *)
(***************************************************************************)
EXTENDS Integers, FiniteSets, Functions, FiniteSetTheorems, WellFoundedInduction, TLAPS

(* Induction on the natural numbers, with a set for the property. *)
LEMMA NatInduct ==
  ASSUME NEW P, 0 \in P, \A n \in Nat : n \in P => n + 1 \in P
  PROVE  Nat \subseteq P
  <1> SUFFICES ASSUME Nat \ P # {}
               PROVE  FALSE
    OBVIOUS
  <1>1. PICK n \in Nat \ P : \A m \in Nat \ P : ~(<<m, n>> \in OpToRel(<, Nat))
    BY NatLessThanWellFounded, WFMin, Zenon
  <1>2. n \in Nat /\ n # 0 /\ n \notin P
    BY <1>1
  <1>3. n - 1 \in Nat
    BY <1>2
  <1>4. n - 1 \in P
    <2>1. <<n - 1, n>> \in OpToRel(<, Nat)
      BY <1>2, <1>3 DEF OpToRel
    <2> QED
      BY <1>1, <1>3, <2>1
  <1>5. n - 1 + 1 = n
    BY <1>2
  <1> QED
    BY <1>2, <1>3, <1>4, <1>5

(* g adds the values of f over the subsets of S, in the order of CHOOSE. *)
One(s) == CHOOSE x \in s : TRUE
Adds(f, S, g) ==
    g = [s \in SUBSET S |-> IF s = {} THEN 0 ELSE f[One(s)] + g[s \ {One(s)}]]

LEMMA SumIs ==
  ASSUME NEW f, NEW S, \E g : Adds(f, S, g)
  PROVE  \E g : Adds(f, S, g) /\ SumFunctionOnSet(f, S) = g[S]
  <1> DEFINE it == CHOOSE g :
                     g = [s \in SUBSET S |->
                           IF s = {} THEN 0
                           ELSE f[CHOOSE x \in s : TRUE] + g[s \ {CHOOSE x \in s : TRUE}]]
  <1>1. SumFunctionOnSet(f, S) = it[S]
    BY DEF SumFunctionOnSet, FoldFunctionOnSet, MapThenFoldSet
  <1>2. it = CHOOSE g : Adds(f, S, g)
    BY DEF Adds, One
  <1>3. Adds(f, S, it)
    BY <1>2
  <1> QED
    BY <1>1, <1>3

(* The values that f has on S are naturals, or integers. *)
AllIn(R, f, S) == (R = Nat \/ R = Int) /\ \A a \in S : f[a] \in R

LEMMA OneIn == \A s : s # {} => One(s) \in s
  BY DEF One

LEMMA CardOfRest ==
  ASSUME NEW s, IsFiniteSet(s), NEW n \in Nat, NEW x \in s
  PROVE  /\ Cardinality(s) <= n + 1 => Cardinality(s \ {x}) <= n
         /\ IsFiniteSet(s \ {x})
         /\ Cardinality(s \ {x}) = Cardinality(s) - 1
  <1>1. Cardinality(s) \in Nat
    BY FS_CardinalityType
  <1>2. IsFiniteSet(s \ {x}) /\ Cardinality(s \ {x}) = Cardinality(s) - 1
    BY FS_RemoveElement
  <1> QED
    BY <1>1, <1>2

LEMMA EmptyOnly ==
  ASSUME NEW S, IsFiniteSet(S)
  PROVE  \A s \in SUBSET S : Cardinality(s) <= 0 => s = {}
  <1> SUFFICES ASSUME NEW s \in SUBSET S, Cardinality(s) <= 0
               PROVE  s = {}
    OBVIOUS
  <1>1. IsFiniteSet(s) /\ Cardinality(s) \in Nat
    BY FS_Subset, FS_CardinalityType
  <1>2. Cardinality(s) = 0
    BY <1>1
  <1> QED
    BY <1>1, <1>2, FS_EmptySet

(* The recursion has a solution on the subsets of a finite set. *)
LEMMA AddsSolvable ==
  ASSUME NEW f, NEW S, IsFiniteSet(S)
  PROVE  \E g : Adds(f, S, g)
  <1> DEFINE Upto(n) == {s \in SUBSET S : Cardinality(s) <= n}
             Good(n, g) == /\ g = [s \in Upto(n) |-> g[s]]
                           /\ \A s \in Upto(n) :
                                g[s] = IF s = {} THEN 0
                                       ELSE f[One(s)] + g[s \ {One(s)}]
             P == {n \in Nat : \E g : Good(n, g)}
  <1>0. \A s \in SUBSET S : IsFiniteSet(s) /\ Cardinality(s) \in Nat
    BY FS_Subset, FS_CardinalityType
  <1>1. 0 \in P
    <2> DEFINE g == [s \in Upto(0) |-> 0]
    <2>1. \A s \in Upto(0) : s = {}
      BY EmptyOnly
    <2>2. Good(0, g)
      BY <2>1
    <2> QED
      BY <2>2
  <1>2. ASSUME NEW n \in Nat, n \in P
        PROVE  n + 1 \in P
    <2>1. PICK g : Good(n, g)
      BY <1>2
    <2> DEFINE h == [s \in Upto(n + 1) |-> IF s = {} THEN 0
                                          ELSE f[One(s)] + g[s \ {One(s)}]]
    <2>2. \A s \in Upto(n + 1) : s # {} => s \ {One(s)} \in Upto(n)
      BY <1>0, CardOfRest, OneIn
    <2>3. \A s \in Upto(n) : s \in Upto(n + 1)
      BY <1>0
    <2>4. \A s \in Upto(n + 1) : h[s] = IF s = {} THEN 0
                                         ELSE f[One(s)] + g[s \ {One(s)}]
      OBVIOUS
    <2>5. \A s \in Upto(n) : g[s] = IF s = {} THEN 0
                                    ELSE f[One(s)] + g[s \ {One(s)}]
      BY <2>1
    <2>6. h = [s \in Upto(n + 1) |-> h[s]]
      OBVIOUS
    <2> HIDE DEF h, Upto
    <2>7. \A s \in Upto(n) : h[s] = g[s]
      BY <2>3, <2>4, <2>5
    <2>8. \A s \in Upto(n + 1) :
            h[s] = IF s = {} THEN 0 ELSE f[One(s)] + h[s \ {One(s)}]
      BY <2>2, <2>4, <2>7
    <2>9. Good(n + 1, h)
      BY <2>6, <2>8
    <2>10. \E x : Good(n + 1, x)
      BY <2>9
    <2> HIDE DEF Good
    <2> QED
      BY <2>10
  <1>3. Cardinality(S) \in P
    <2>1. Nat \subseteq P
      <3> HIDE DEF P
      <3> QED
        BY <1>1, <1>2, NatInduct
    <2> QED
      BY <2>1, FS_CardinalityType
  <1>4. PICK g : Good(Cardinality(S), g)
    BY <1>3
  <1>5. Upto(Cardinality(S)) = SUBSET S
    BY FS_Subset
  <1> QED
    BY <1>4, <1>5 DEF Adds

(* Two such functions agree where the values they add agree. *)
LEMMA AddsUnique ==
  ASSUME NEW f, NEW S, NEW g, Adds(f, S, g),
         NEW e, NEW T, NEW h, Adds(e, T, h),
         NEW U, U \subseteq S, U \subseteq T, IsFiniteSet(U),
         \A a \in U : f[a] = e[a]
  PROVE  g[U] = h[U]
  <1> DEFINE P == {n \in Nat : \A s \in SUBSET U : Cardinality(s) <= n => g[s] = h[s]}
  <1>0. \A s \in SUBSET U : IsFiniteSet(s) /\ Cardinality(s) \in Nat
    BY FS_Subset, FS_CardinalityType
  <1>1. \A s \in SUBSET U :
          /\ s = {} => g[s] = 0 /\ h[s] = 0
          /\ s # {} => /\ One(s) \in s
                       /\ g[s] = f[One(s)] + g[s \ {One(s)}]
                       /\ h[s] = f[One(s)] + h[s \ {One(s)}]
    BY OneIn DEF Adds
  <1>2. 0 \in P
    <2>1. \A s \in SUBSET U : Cardinality(s) <= 0 => s = {}
      BY EmptyOnly
    <2> QED
      BY <1>1, <2>1
  <1>3. ASSUME NEW n \in Nat, n \in P
        PROVE  n + 1 \in P
    <2>1. ASSUME NEW s \in SUBSET U, Cardinality(s) <= n + 1
          PROVE  g[s] = h[s]
      <3>1. CASE s = {}
        BY <1>1, <3>1
      <3>2. CASE s # {}
        <4>1. One(s) \in s
          BY <1>1, <3>2
        <4>2. s \ {One(s)} \in SUBSET U /\ Cardinality(s \ {One(s)}) <= n
          BY <1>0, <2>1, <4>1, CardOfRest
        <4>3. g[s \ {One(s)}] = h[s \ {One(s)}]
          BY <1>3, <4>2
        <4> QED
          BY <1>1, <3>2, <4>3
      <3> QED
        BY <3>1, <3>2
    <2> QED
      BY <2>1
  <1>4. Nat \subseteq P
    <2> HIDE DEF P
    <2> QED
      BY <1>2, <1>3, NatInduct
  <1>5. Cardinality(U) \in P
    BY <1>0, <1>4
  <1> QED
    BY <1>0, <1>5

(* Adding one more. *)
LEMMA AddsOneMore ==
  ASSUME NEW f, NEW S, NEW g, Adds(f, S, g), IsFiniteSet(S),
         NEW R, AllIn(R, f, S)
  PROVE  \A U \in SUBSET S : /\ g[U] \in R
                             /\ \A u \in U : g[U] = f[u] + g[U \ {u}]
  <1> DEFINE P == {n \in Nat : \A s \in SUBSET S : Cardinality(s) <= n =>
                     /\ g[s] \in R
                     /\ \A u \in s : g[s] = f[u] + g[s \ {u}]}
  <1>7. R = Nat \/ R = Int
    BY DEF AllIn
  <1>0. \A s \in SUBSET S : IsFiniteSet(s) /\ Cardinality(s) \in Nat
    BY FS_Subset, FS_CardinalityType
  <1>1. \A s \in SUBSET S :
          /\ s = {} => g[s] = 0
          /\ s # {} => One(s) \in s /\ g[s] = f[One(s)] + g[s \ {One(s)}]
    BY OneIn DEF Adds
  <1>2. 0 \in P
    <2>1. \A s \in SUBSET S : Cardinality(s) <= 0 => s = {}
      BY EmptyOnly
    <2>2. g[{}] \in R
      <3>1. {} \in SUBSET S
        OBVIOUS
      <3>2. g[{}] = 0
        BY <1>1, <3>1
      <3> QED
        BY <1>7, <3>2
    <2>3. \A s \in SUBSET S : Cardinality(s) <= 0 =>
            g[s] \in R /\ \A u \in s : g[s] = f[u] + g[s \ {u}]
      BY <2>1, <2>2
    <2> QED
      BY <2>3
  <1>3. ASSUME NEW n \in Nat, n \in P
        PROVE  n + 1 \in P
    <2>1. ASSUME NEW s \in SUBSET S, Cardinality(s) <= n + 1, s # {}
          PROVE  /\ g[s] \in R
                 /\ \A u \in s : g[s] = f[u] + g[s \ {u}]
      <3> DEFINE x == One(s)
      <3>1. x \in s /\ g[s] = f[x] + g[s \ {x}]
        BY <1>1, <2>1
      <3> HIDE DEF x
      <3>2. \A u \in s : s \ {u} \in SUBSET S /\ Cardinality(s \ {u}) <= n
                         /\ g[s \ {u}] \in R
                         /\ \A v \in s \ {u} : g[s \ {u}] = f[v] + g[(s \ {u}) \ {v}]
        <4>1. ASSUME NEW u \in s
              PROVE  s \ {u} \in SUBSET S /\ Cardinality(s \ {u}) <= n
          BY <1>0, <2>1, CardOfRest
        <4> QED
          BY <1>3, <4>1
      <3>3. \A u \in s : f[u] \in R
        BY DEF AllIn
      <3>4. g[s] \in R
        <4>1. f[x] \in R /\ g[s \ {x}] \in R
          BY <3>1, <3>2, <3>3
        <4> QED
          BY <1>7, <3>1, <4>1
      <3>5. ASSUME NEW u \in s, u # x
            PROVE  g[s] = f[u] + g[s \ {u}]
        <4>1. g[s \ {x}] = f[u] + g[(s \ {x}) \ {u}]
          BY <3>1, <3>2, <3>5
        <4>2. g[s \ {u}] = f[x] + g[(s \ {u}) \ {x}]
          BY <3>1, <3>2, <3>5
        <4>3. (s \ {x}) \ {u} = (s \ {u}) \ {x}
          OBVIOUS
        <4>4. g[(s \ {u}) \ {x}] \in R
          <5>1. (s \ {u}) \ {x} \in SUBSET S /\ Cardinality((s \ {u}) \ {x}) <= n
            <6>1. IsFiniteSet(s \ {u}) /\ x \in s \ {u} /\ Cardinality(s \ {u}) <= n
                  /\ Cardinality(s \ {u}) \in Nat
              BY <1>0, <3>1, <3>2, <3>5
            <6>2. Cardinality((s \ {u}) \ {x}) = Cardinality(s \ {u}) - 1
              BY <6>1, CardOfRest
            <6> QED
              BY <6>1, <6>2
          <5> QED
            BY <1>3, <5>1
        <4>5. f[u] \in R /\ f[x] \in R
          BY <3>1, <3>3
        <4>6. g[s] = f[x] + (f[u] + g[(s \ {u}) \ {x}])
          BY <3>1, <4>1, <4>3
        <4> QED
          BY <1>7, <4>2, <4>4, <4>5, <4>6
      <3> QED
        BY <3>1, <3>4, <3>5
    <2>2. \A s \in SUBSET S : s = {} => g[s] \in R
      <3>1. 0 \in R
        BY <1>7
      <3> QED
        BY <1>1, <3>1
    <2> QED
      BY <2>1, <2>2
  <1>4. Nat \subseteq P
    <2> HIDE DEF P
    <2> QED
      BY <1>2, <1>3, NatInduct
  <1>5. Cardinality(S) \in P
    BY <1>0, <1>4
  <1>6. \A U \in SUBSET S : Cardinality(U) <= Cardinality(S)
    BY FS_Subset
  <1> QED
    BY <1>5, <1>6

(* Nothing sums to nothing. *)
LEMMA SumOfNone ==
  ASSUME NEW f, DOMAIN f = {}
  PROVE  SumFunction(f) = 0
  <1>1. PICK g : Adds(f, {}, g) /\ SumFunctionOnSet(f, {}) = g[{}]
    BY AddsSolvable, SumIs, FS_EmptySet
  <1> QED
    BY <1>1 DEF Adds, SumFunction

(* One element more adds its value, whichever it is. *)
LEMMA SumOfMore ==
  ASSUME NEW f, NEW e, NEW u, IsFiniteSet(DOMAIN f), u \notin DOMAIN f,
         DOMAIN e = DOMAIN f \cup {u}, \A a \in DOMAIN f : e[a] = f[a],
         NEW R, AllIn(R, e, DOMAIN e)
  PROVE  SumFunction(e) = e[u] + SumFunction(f) /\ SumFunction(f) \in R
  <1> DEFINE S == DOMAIN f
  <1>1. IsFiniteSet(S \cup {u})
    BY FS_AddElement
  <1>2. PICK g : Adds(e, S \cup {u}, g) /\ SumFunctionOnSet(e, S \cup {u}) = g[S \cup {u}]
    BY <1>1, AddsSolvable, SumIs
  <1>3. PICK h : Adds(f, S, h) /\ SumFunctionOnSet(f, S) = h[S]
    BY AddsSolvable, SumIs
  <1>4. g[S] = h[S]
    BY <1>2, <1>3, AddsUnique
  <1>5. g[S \cup {u}] = e[u] + g[(S \cup {u}) \ {u}] /\ g[S] \in R
    <2>1. PICK T : T = S \cup {u}
      OBVIOUS
    <2>2. IsFiniteSet(T) /\ Adds(e, T, g) /\ AllIn(R, e, T)
      BY <1>1, <1>2, <2>1
    <2>3. \A U \in SUBSET T : /\ g[U] \in R
                              /\ \A v \in U : g[U] = e[v] + g[U \ {v}]
      BY <2>2, AddsOneMore
    <2> QED
      BY <2>1, <2>3
  <1>6. (S \cup {u}) \ {u} = S
    OBVIOUS
  <1> QED
    BY <1>2, <1>3, <1>4, <1>5, <1>6 DEF SumFunction

(* A sum of naturals is a natural. *)
LEMMA SumIsNat ==
  ASSUME NEW f, IsFiniteSet(DOMAIN f), AllIn(Nat, f, DOMAIN f)
  PROVE  SumFunction(f) \in Nat
  <1>1. PICK g : Adds(f, DOMAIN f, g) /\ SumFunctionOnSet(f, DOMAIN f) = g[DOMAIN f]
    BY AddsSolvable, SumIs
  <1>2. g[DOMAIN f] \in Nat
    BY <1>1, AddsOneMore
  <1> QED
    BY <1>1, <1>2 DEF SumFunction

(* A sum of naturals is at least each of them. *)
LEMMA SumIsAtLeast ==
  ASSUME NEW f, IsFiniteSet(DOMAIN f), AllIn(Nat, f, DOMAIN f), NEW u \in DOMAIN f
  PROVE  SumFunction(f) >= f[u] /\ SumFunction(f) \in Nat
  <1>1. PICK g : Adds(f, DOMAIN f, g) /\ SumFunctionOnSet(f, DOMAIN f) = g[DOMAIN f]
    BY AddsSolvable, SumIs
  <1>2. \A U \in SUBSET DOMAIN f : g[U] \in Nat /\ \A v \in U : g[U] = f[v] + g[U \ {v}]
    BY <1>1, AddsOneMore
  <1>3. /\ g[DOMAIN f] = f[u] + g[DOMAIN f \ {u}]
        /\ g[DOMAIN f \ {u}] \in Nat
    BY <1>2
  <1>4. f[u] \in Nat
    BY DEF AllIn
  <1> QED
    BY <1>1, <1>3, <1>4 DEF SumFunction
=============================================================================
