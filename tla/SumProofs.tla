------------------------------ MODULE SumProofs -----------------------------
(***************************************************************************)
(* Induction over the subsets of a finite set, and what it gives of the    *)
(* sum of a function's values, which is a fold.                            *)
(***************************************************************************)
EXTENDS Naturals, Functions, FiniteSetTheorems, WellFoundedInduction, TLAPS

\* Induction over the subsets of a finite set: what holds of a set when it holds
\* of each smaller one is in G.
LEMMA SubsetInduction ==
    ASSUME NEW S, IsFiniteSet(S), NEW G,
           \A T \in SUBSET S : (\A U \in SUBSET T : U # T => U \in G) => T \in G
    PROVE  SUBSET S \subseteq G
<1> DEFINE Bad == {T \in SUBSET S : T \notin G}
<1>1. SUFFICES ASSUME Bad # {} PROVE FALSE
  OBVIOUS
<1>2. \A T \in Bad : IsFiniteSet(T)
  BY FS_Subset
<1>3. IsWellFoundedOn(StrictSubsetOrdering(S), FiniteSubsetsOf(S))
  BY FS_StrictSubsetOrderingWellFounded
<1>4. Bad \subseteq FiniteSubsetsOf(S)
  BY <1>2 DEF FiniteSubsetsOf
<1> HIDE DEF Bad
<1>5. \E T \in Bad : \A U \in Bad : ~(<<U, T>> \in StrictSubsetOrdering(S))
  BY <1>1, <1>3, <1>4, WFMin
<1>6. PICK T \in Bad : \A U \in Bad : ~(<<U, T>> \in StrictSubsetOrdering(S))
  BY <1>5
<1>7. ASSUME NEW U \in SUBSET T, U # T PROVE U \in G
  <2>1. <<U, T>> \in StrictSubsetOrdering(S)
    BY <1>6, <1>7 DEF Bad, StrictSubsetOrdering
  <2>2. U \notin Bad
    BY <1>6, <2>1
  <2> QED BY <1>6, <1>7, <2>2 DEF Bad
<1> QED BY <1>6, <1>7 DEF Bad

Some(T) == CHOOSE x \in T : TRUE
Sums(g, f, T) == g = [s \in SUBSET T |-> IF s = {} THEN 0 ELSE f[Some(s)] + g[s \ {Some(s)}]]

\* SumFunction by the library's definition: one element and the sum of the rest.
LEMMA SumUnfold ==
    ASSUME NEW f, NEW T
    PROVE  SumFunctionOnSet(f, T) = (CHOOSE g : Sums(g, f, T))[T]
BY DEF SumFunctionOnSet, FoldFunctionOnSet, MapThenFoldSet, Sums, Some

\* A sum over a set is that over the rest, and the element left out first.
LEMMA SumRecursion ==
    ASSUME NEW f, NEW S, IsFiniteSet(S)
    PROVE  \A T \in SUBSET S :
             SumFunctionOnSet(f, T) =
                IF T = {} THEN 0 ELSE f[Some(T)] + SumFunctionOnSet(f, T \ {Some(T)})
<1> DEFINE Sum(T) == SumFunctionOnSet(f, T)
           Good == {T \in SUBSET S : Sum(T) = IF T = {} THEN 0 ELSE f[Some(T)] + Sum(T \ {Some(T)})}
<1>1. \A T : T # {} => Some(T) \in T
  BY DEF Some
<1>2. \A T : Sum(T) = (CHOOSE g : Sums(g, f, T))[T]
  BY SumUnfold
<1> HIDE DEF Sum
<1>3. ASSUME NEW T \in SUBSET S, \A U \in SUBSET T : U # T => U \in Good
      PROVE  T \in Good
  <2> DEFINE h == [s \in SUBSET T |-> IF s # T THEN Sum(s)
                                      ELSE IF T = {} THEN 0 ELSE f[Some(T)] + Sum(T \ {Some(T)})]
             g == CHOOSE g : Sums(g, f, T)
  <2>1. Sums(h, f, T)
    <3>1. ASSUME NEW s \in SUBSET T
          PROVE  h[s] = IF s = {} THEN 0 ELSE f[Some(s)] + h[s \ {Some(s)}]
      <4>1. CASE s # T
        <5>1. s \in Good /\ h[s] = Sum(s)
          BY <1>3, <4>1
        <5>2. Sum(s) = IF s = {} THEN 0 ELSE f[Some(s)] + Sum(s \ {Some(s)})
          BY <5>1
        <5>3. h[s \ {Some(s)}] = Sum(s \ {Some(s)})
          BY <4>1
        <5> QED BY <5>1, <5>2, <5>3
      <4>2. CASE s = T /\ T # {}
        <5>1. T \ {Some(T)} # T
          BY <1>1, <4>2
        <5>2. h[T \ {Some(T)}] = Sum(T \ {Some(T)})
          BY <5>1
        <5>3. h[T] = f[Some(T)] + Sum(T \ {Some(T)})
          BY <4>2
        <5> QED BY <4>2, <5>2, <5>3
      <4>3. CASE s = T /\ T = {}
        BY <4>3
      <4> QED BY <4>1, <4>2, <4>3
    <3>2. h = [s \in SUBSET T |-> h[s]]
      OBVIOUS
    <3> HIDE DEF h
    <3>3. [s \in SUBSET T |-> h[s]] = [s \in SUBSET T |-> IF s = {} THEN 0 ELSE f[Some(s)] + h[s \ {Some(s)}]]
      BY ONLY <3>1, Zenon
    <3> QED BY ONLY <3>2, <3>3 DEF Sums
  <2>2. Sums(g, f, T)
    BY <2>1
  <2> HIDE DEF g
  <2>3. \A s \in SUBSET T : g[s] = h[s]
    <3> DEFINE Same == {s \in SUBSET T : g[s] = h[s]}
    <3> HIDE DEF h
    <3>1. ASSUME NEW s \in SUBSET T, \A u \in SUBSET s : u # s => u \in Same
          PROVE  s \in Same
      <4>1. /\ g[s] = IF s = {} THEN 0 ELSE f[Some(s)] + g[s \ {Some(s)}]
            /\ h[s] = IF s = {} THEN 0 ELSE f[Some(s)] + h[s \ {Some(s)}]
        BY <2>1, <2>2 DEF Sums
      <4>2. CASE s = {}
        BY <4>1, <4>2
      <4>3. CASE s # {}
        <5>1. s \ {Some(s)} \in SUBSET s /\ s \ {Some(s)} # s
          BY <1>1, <4>3
        <5>2. g[s \ {Some(s)}] = h[s \ {Some(s)}]
          BY <3>1, <5>1
        <5> QED BY <4>1, <5>2
      <4> QED BY <4>2, <4>3
    <3>2. IsFiniteSet(T)
      BY FS_Subset
    <3>3. SUBSET T \subseteq Same
      <4> HIDE DEF Same
      <4> QED BY <3>1, <3>2, SubsetInduction
    <3> QED BY <3>3
  <2>4. Sum(T) = g[T]
    BY <1>2 DEF g
  <2>5. h[T] = IF T = {} THEN 0 ELSE f[Some(T)] + Sum(T \ {Some(T)})
    OBVIOUS
  <2> HIDE DEF h
  <2> QED BY <2>3, <2>4, <2>5
<1>4. SUBSET S \subseteq Good
  <2> HIDE DEF Good
  <2> QED BY <1>3, SubsetInduction
<1> QED BY <1>4 DEF Sum

\* A sum of natural numbers is one, of any element and the rest.
LEMMA SumOfNats ==
    ASSUME NEW S, IsFiniteSet(S), NEW f, \A x \in S : f[x] \in Nat
    PROVE  /\ SumFunctionOnSet(f, {}) = 0
           /\ \A T \in SUBSET S :
                /\ SumFunctionOnSet(f, T) \in Nat
                /\ \A x \in T : SumFunctionOnSet(f, T) = f[x] + SumFunctionOnSet(f, T \ {x})
<1> DEFINE Sum(T) == SumFunctionOnSet(f, T)
           Good == {T \in SUBSET S : Sum(T) \in Nat /\ \A x \in T : Sum(T) = f[x] + Sum(T \ {x})}
<1>1. \A T : T # {} => Some(T) \in T
  BY DEF Some
<1>2. \A T \in SUBSET S : Sum(T) = IF T = {} THEN 0 ELSE f[Some(T)] + Sum(T \ {Some(T)})
  BY SumRecursion
<1> HIDE DEF Sum
<1>3. ASSUME NEW T \in SUBSET S, \A U \in SUBSET T : U # T => U \in Good
      PROVE  T \in Good
  <2>1. CASE T = {}
    <3>1. Sum(T) = 0
      BY <1>2, <2>1
    <3>2. \A x : x \notin T
      BY <2>1
    <3> QED BY <3>1, <3>2
  <2>2. CASE T # {}
    <3> DEFINE c == Some(T)
    <3>1. c \in T /\ f[c] \in Nat /\ Sum(T) = f[c] + Sum(T \ {c}) /\ T \ {c} \in Good
      BY <1>1, <1>2, <1>3, <2>2
    <3>2. Sum(T) \in Nat
      BY <3>1
    <3> HIDE DEF c
    <3>3. ASSUME NEW x \in T, x # c PROVE Sum(T) = f[x] + Sum(T \ {x})
      <4>1. T \ {x} \in Good /\ x \in T \ {c} /\ c \in T \ {x} /\ f[x] \in Nat
        BY <1>3, <3>1, <3>3
      <4>2. Sum(T \ {c}) = f[x] + Sum((T \ {c}) \ {x})
        BY <3>1, <4>1
      <4>3. Sum(T \ {x}) = f[c] + Sum((T \ {x}) \ {c})
        BY <3>1, <4>1
      <4>4. (T \ {x}) \ {c} = (T \ {c}) \ {x} /\ (T \ {x}) \ {c} # T
        BY <4>1
      <4>5. (T \ {x}) \ {c} \in Good
        BY <1>3, <4>4
      <4>6. Sum((T \ {x}) \ {c}) \in Nat
        BY <4>5
      <4> QED BY <3>1, <4>1, <4>2, <4>3, <4>4, <4>6
    <3> QED BY <3>1, <3>2, <3>3
  <2> QED BY <2>1, <2>2
<1>4. SUBSET S \subseteq Good
  <2> HIDE DEF Good
  <2> QED BY <1>3, SubsetInduction
<1>5. Sum({}) = 0
  BY <1>2
<1> QED BY <1>4, <1>5 DEF Sum

\* Functions that agree on a set have the same sum over it.
LEMMA SumsAgree ==
    ASSUME NEW S, IsFiniteSet(S), NEW f, NEW g, \A x \in S : f[x] = g[x]
    PROVE  SumFunctionOnSet(f, S) = SumFunctionOnSet(g, S)
<1> DEFINE F(T) == SumFunctionOnSet(f, T)
           G(T) == SumFunctionOnSet(g, T)
           Good == {T \in SUBSET S : F(T) = G(T)}
<1>1. \A T : T # {} => Some(T) \in T
  BY DEF Some
<1>2. \A T \in SUBSET S :
        /\ F(T) = IF T = {} THEN 0 ELSE f[Some(T)] + F(T \ {Some(T)})
        /\ G(T) = IF T = {} THEN 0 ELSE g[Some(T)] + G(T \ {Some(T)})
  <2>1. \A T \in SUBSET S : F(T) = IF T = {} THEN 0 ELSE f[Some(T)] + F(T \ {Some(T)})
    BY SumRecursion
  <2>2. \A T \in SUBSET S : G(T) = IF T = {} THEN 0 ELSE g[Some(T)] + G(T \ {Some(T)})
    BY SumRecursion
  <2> QED BY <2>1, <2>2
<1> HIDE DEF F, G
<1>3. ASSUME NEW T \in SUBSET S, \A U \in SUBSET T : U # T => U \in Good
      PROVE  T \in Good
  <2>1. CASE T = {}
    BY <1>2, <2>1
  <2>2. CASE T # {}
    <3>1. Some(T) \in T /\ T \ {Some(T)} \in Good
      BY <1>1, <1>3, <2>2
    <3>2. F(T) = f[Some(T)] + F(T \ {Some(T)}) /\ G(T) = g[Some(T)] + G(T \ {Some(T)})
      BY <1>2, <2>2
    <3> QED BY <3>1, <3>2
  <2> QED BY <2>1, <2>2
<1>4. SUBSET S \subseteq Good
  <2> HIDE DEF Good
  <2> QED BY <1>3, SubsetInduction
<1> QED BY <1>4 DEF F, G

\* One more in one place is one more in the sum.
LEMMA SumIncremented ==
    ASSUME NEW S, IsFiniteSet(S), NEW f \in [S -> Nat], NEW c \in S
    PROVE  /\ SumFunction(f) \in Nat
           /\ SumFunction([f EXCEPT ![c] = @ + 1]) = SumFunction(f) + 1
<1> DEFINE g == [f EXCEPT ![c] = @ + 1]
<1>1. g \in [S -> Nat] /\ g[c] = f[c] + 1 /\ (\A x \in S \ {c} : f[x] = g[x]) /\ f[c] \in Nat
  OBVIOUS
<1>2. DOMAIN f = S /\ DOMAIN g = S /\ (\A x \in S : f[x] \in Nat) /\ \A x \in S : g[x] \in Nat
  BY <1>1
<1> HIDE DEF g
<1>3. IsFiniteSet(S \ {c})
  BY FS_RemoveElement
<1>4. /\ SumFunctionOnSet(f, S) = f[c] + SumFunctionOnSet(f, S \ {c})
      /\ SumFunctionOnSet(f, S) \in Nat /\ SumFunctionOnSet(f, S \ {c}) \in Nat
  BY <1>2, SumOfNats
<1>5. SumFunctionOnSet(g, S) = g[c] + SumFunctionOnSet(g, S \ {c})
  BY <1>2, SumOfNats
<1>6. SumFunctionOnSet(f, S \ {c}) = SumFunctionOnSet(g, S \ {c})
  BY <1>1, <1>3, SumsAgree
<1> QED BY <1>1, <1>2, <1>4, <1>5, <1>6 DEF SumFunction, g

\* Zeros add up to zero.
LEMMA SumOfZeros ==
    ASSUME NEW S, IsFiniteSet(S)
    PROVE  SumFunction([x \in S |-> 0]) = 0
<1> DEFINE f == [x \in S |-> 0]
           Sum(T) == SumFunctionOnSet(f, T)
           Good == {T \in SUBSET S : Sum(T) = 0}
<1>1. \A T : T # {} => Some(T) \in T
  BY DEF Some
<1>2. \A T \in SUBSET S : Sum(T) = IF T = {} THEN 0 ELSE f[Some(T)] + Sum(T \ {Some(T)})
  BY SumRecursion
<1>0. \A x \in S : f[x] = 0
  OBVIOUS
<1> HIDE DEF Sum, f
<1>3. ASSUME NEW T \in SUBSET S, \A U \in SUBSET T : U # T => U \in Good
      PROVE  T \in Good
  <2>1. CASE T = {}
    BY <1>2, <2>1
  <2>2. CASE T # {}
    <3>1. Some(T) \in T /\ T \ {Some(T)} \in Good /\ f[Some(T)] = 0
      BY <1>0, <1>1, <1>3, <2>2
    <3>2. Sum(T) = 0 + 0
      BY <1>2, <2>2, <3>1
    <3> QED BY <3>2
  <2> QED BY <2>1, <2>2
<1>4. SUBSET S \subseteq Good
  <2> HIDE DEF Good
  <2> QED BY <1>3, SubsetInduction
<1>5. DOMAIN f = S
  BY DEF f
<1> QED BY <1>4, <1>5 DEF Sum, SumFunction, f

\* The sum of a row.
LEMMA SumIsNat ==
    ASSUME NEW S, IsFiniteSet(S), NEW f \in [S -> Nat]
    PROVE  SumFunction(f) \in Nat
<1>1. DOMAIN f = S /\ S \in SUBSET S /\ \A x \in S : f[x] \in Nat
  OBVIOUS
<1> QED BY <1>1, SumOfNats DEF SumFunction

-----------------------------------------------------------------------------
(* Intervals of numbers.                                                   *)

\* A set of numbers has a least one.
LEMMA LeastExists ==
    ASSUME NEW S \in SUBSET Nat, S # {}
    PROVE  \E x \in S : \A y \in S : x <= y
<1> DEFINE R == {ss \in Nat \X Nat : ss[1] < ss[2]}
<1>1. IsWellFoundedOn(R, Nat)
  BY ONLY NatLessThanWellFounded, Zenon DEF OpToRel
<1>2. \E x \in S : \A y \in S : ~(<<y, x>> \in R)
  <2> HIDE DEF R
  <2> QED BY <1>1, WFMin
<1>3. PICK x \in S : \A y \in S : ~(<<y, x>> \in R)
  BY <1>2
<1>4. ASSUME NEW y \in S PROVE x <= y
  <2>1. x \in Nat /\ y \in Nat
    OBVIOUS
  <2>2. y < x => <<y, x>> \in R
    BY <2>1
  <2> QED BY <1>3, <2>1, <2>2
<1> QED BY <1>4

\* What holds of zero, and of a number's successor if it holds of the number, holds of
\* every number.
LEMMA StepByStep ==
    ASSUME NEW n \in Nat, NEW G, 0 \in G, \A k \in 0..n : k < n /\ k \in G => k + 1 \in G
    PROVE  \A k \in 0..n : k \in G
<1> DEFINE Bad == {k \in 0..n : k \notin G}
<1>1. SUFFICES ASSUME Bad # {} PROVE FALSE
  OBVIOUS
<1>2. PICK x \in Bad : \A y \in Bad : x <= y
  <2>1. Bad \in SUBSET Nat
    OBVIOUS
  <2> HIDE DEF Bad
  <2> QED BY <1>1, <2>1, LeastExists
<1>3. x \in 0..n /\ x \notin G /\ x # 0
  OBVIOUS
<1>4. x - 1 \in 0..n /\ x - 1 < x /\ x - 1 < n /\ (x - 1) + 1 = x
  BY <1>3
<1>5. x - 1 \in G
  <2>1. x - 1 \notin Bad
    <3> HIDE DEF Bad
    <3> QED BY <1>2, <1>3, <1>4
  <2> QED BY <1>4, <2>1
<1> QED BY <1>3, <1>4, <1>5

\* The sum over the numbers up to n grows by the value at n.
LEMMA SumToNext ==
    ASSUME NEW n \in Nat, NEW f, \A i \in 1..n : f[i] \in Nat
    PROVE  /\ SumFunctionOnSet(f, 1..0) = 0
           /\ \A k \in 0..n : SumFunctionOnSet(f, 1..k) \in Nat
           /\ \A k \in 1..n : SumFunctionOnSet(f, 1..k) = SumFunctionOnSet(f, 1..k - 1) + f[k]
<1> DEFINE Sum(T) == SumFunctionOnSet(f, T)
           S == 1..n
<1>1. IsFiniteSet(S) /\ \A x \in S : f[x] \in Nat
  BY FS_Interval
<1>2. /\ Sum({}) = 0
      /\ \A T \in SUBSET S : Sum(T) \in Nat /\ \A x \in T : Sum(T) = f[x] + Sum(T \ {x})
  <2> HIDE DEF S
  <2> QED BY <1>1, SumOfNats
<1> HIDE DEF Sum
<1>3. 1..0 = {}
  OBVIOUS
<1>4. ASSUME NEW k \in 0..n PROVE Sum(1..k) \in Nat
  BY <1>2
<1>5. ASSUME NEW k \in 1..n PROVE Sum(1..k) = Sum(1..k - 1) + f[k]
  <2>1. (1..k) \ {k} = 1..k - 1 /\ k \in 1..k /\ k - 1 \in 0..n /\ 1..k \in SUBSET (1..n)
    OBVIOUS
  <2>2. Sum(1..k) = f[k] + Sum((1..k) \ {k})
    BY ONLY <1>2, <2>1
  <2>3. Sum(1..k) = f[k] + Sum(1..k - 1)
    BY ONLY <2>1, <2>2
  <2>4. Sum(1..k - 1) \in Nat /\ f[k] \in Nat
    BY <1>4, <2>1
  <2> QED BY <2>3, <2>4
<1> QED BY <1>2, <1>3, <1>4, <1>5 DEF Sum
=============================================================================
