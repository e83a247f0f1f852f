----------------------------- MODULE IdsProofs ------------------------------
(***************************************************************************)
(* Ids for any IDs, spellings and names of other interfaces: an endpoint's *)
(* digits are kept, its names and its netns stand for it alone, and all    *)
(* commands mean the same endpoint.  The sections on numbers in a base and *)
(* on base58 prove that encoding and decoding undo each other.             *)
(***************************************************************************)
EXTENDS Ids, SumProofs, SequenceTheorems, TLAPS

-----------------------------------------------------------------------------
(* Ids: numbers in a base.                                                *)

\* A function on 1..n is a sequence of length n.
LEMMA FunctionSeq ==
    \A n \in Nat : \A f \in [1..n -> Nat] : f \in Seq(Nat) /\ Len(f) = n
OBVIOUS

\* f is what the steps make of base, one after the other.
Recursive(f, S, base, n, step) ==
    /\ f \in [0..n -> S] /\ f[0] = base
    /\ \A k \in 1..n : f[k] = step[k][f[k - 1]]

\* Recursion over 0..n defines a function.
LEMMA Recursion ==
    ASSUME NEW S, NEW base \in S, NEW n \in Nat, NEW step \in [1..n -> [S -> S]]
    PROVE  \E f : Recursive(f, S, base, n, step)
<1> DEFINE Upto(f, k) == /\ f \in [0..k -> S] /\ f[0] = base
                         /\ \A j \in 1..k : f[j] = step[j][f[j - 1]]
           G == {k \in 0..n : \E f : Upto(f, k)}
<1>1. 0 \in G
    <2>1. Upto([j \in 0..0 |-> base], 0)
        OBVIOUS
    <2> HIDE DEF Upto
    <2> QED BY <2>1
<1>2. ASSUME NEW k \in 0..n, k < n, k \in G PROVE k + 1 \in G
    <2>1. PICK f : Upto(f, k)
        <3> HIDE DEF Upto
        <3> QED BY <1>2
    <2> DEFINE g == [j \in 0..k + 1 |-> IF j = k + 1 THEN step[k + 1][f[k]] ELSE f[j]]
    <2>2. k + 1 \in 1..n /\ k + 1 \in 0..k + 1 /\ k + 1 # 0 /\ k \in 0..k /\ (k + 1) - 1 = k
        BY <1>2
    <2>3. step[k + 1][f[k]] \in S
        BY <2>1, <2>2
    <2>4. g \in [0..k + 1 -> S] /\ g[0] = base
        BY <2>1, <2>2, <2>3
    <2>5. ASSUME NEW j \in 1..k + 1 PROVE g[j] = step[j][g[j - 1]]
        <3>1. j \in 0..k + 1 /\ j - 1 \in 0..k + 1 /\ j - 1 # k + 1
            OBVIOUS
        <3>2. CASE j = k + 1
            BY <2>2, <3>1, <3>2
        <3>3. CASE j # k + 1
            <4>1. j \in 1..k /\ j - 1 # k + 1
                BY <3>3
            <4> QED BY <2>1, <3>1, <3>3, <4>1
        <3> QED BY <3>2, <3>3
    <2>6. Upto(g, k + 1)
        BY <2>4, <2>5
    <2>7. k + 1 \in 0..n
        BY <1>2
    <2> HIDE DEF Upto, g
    <2> QED BY <2>6, <2>7
<1>3. n \in G
    <2> HIDE DEF G
    <2>1. \A k \in 0..n : k \in G
        BY <1>1, <1>2, StepByStep
    <2> QED BY <2>1
<1> QED BY <1>3 DEF Recursive

\* f[k] is the number that the first k of the n digits ds are in base b.
PrefixValues(f, ds, n, b) ==
    /\ f \in [0..n -> Nat] /\ f[0] = 0
    /\ \A k \in 1..n : f[k] = f[k - 1] * b + ds[k]

\* The number that the n digits ds are in base b.
Value(ds, n, b) == (CHOOSE f : PrefixValues(f, ds, n, b))[n]

\* p[k] is the k-th power of b.
Powers(p, n, b) ==
    /\ p \in [0..n -> Nat] /\ p[0] = 1
    /\ \A k \in 1..n : p[k] = p[k - 1] * b

\* Every sequence of digits is a number.
LEMMA PrefixValuesExist ==
    ASSUME NEW n \in Nat, NEW b \in Nat, NEW ds \in [1..n -> Nat]
    PROVE  \E f : PrefixValues(f, ds, n, b)
<1> DEFINE step == [k \in 1..n |-> [v \in Nat |-> v * b + ds[k]]]
<1>1. step \in [1..n -> [Nat -> Nat]]
    <2>1. ASSUME NEW k \in 1..n, NEW v \in Nat PROVE v * b + ds[k] \in Nat
        <3>1. ds[k] \in Nat /\ v * b \in Nat
            OBVIOUS
        <3> QED BY <3>1
    <2> QED BY <2>1
<1>2. \A k \in 1..n : \A v \in Nat : step[k][v] = v * b + ds[k]
    OBVIOUS
<1> HIDE DEF step
<1>3. PICK f : Recursive(f, Nat, 0, n, step)
    BY <1>1, Recursion, 0 \in Nat
<1>4. ASSUME NEW k \in 1..n PROVE f[k] = f[k - 1] * b + ds[k]
    <2>1. k - 1 \in 0..n
        OBVIOUS
    <2>2. f[k - 1] \in Nat
        BY <1>3, <2>1 DEF Recursive
    <2> QED BY <1>2, <1>3, <2>2 DEF Recursive
<1> QED BY <1>3, <1>4 DEF Recursive, PrefixValues

\* And only one.
LEMMA ValueIs ==
    ASSUME NEW n \in Nat, NEW b \in Nat, NEW ds, NEW f, PrefixValues(f, ds, n, b)
    PROVE  Value(ds, n, b) = f[n] /\ Value(ds, n, b) \in Nat
<1> DEFINE g == CHOOSE f_1 : PrefixValues(f_1, ds, n, b)
           G == {k \in 0..n : f[k] = g[k]}
<1>1. PrefixValues(g, ds, n, b)
    OBVIOUS
<1> HIDE DEF g
<1>2. 0 \in G
    BY <1>1 DEF PrefixValues
<1>3. ASSUME NEW k \in 0..n, k < n, k \in G PROVE k + 1 \in G
    <2>1. k + 1 \in 1..n /\ k + 1 \in 0..n /\ (k + 1) - 1 = k
        BY <1>3
    <2>2. f[k + 1] = f[k] * b + ds[k + 1] /\ g[k + 1] = g[k] * b + ds[k + 1]
        BY <1>1, <2>1 DEF PrefixValues
    <2> QED BY <1>3, <2>1, <2>2
<1>4. n \in G
    <2> HIDE DEF G
    <2>1. \A k \in 0..n : k \in G
        BY <1>2, <1>3, StepByStep
    <2> QED BY <2>1
<1> QED BY <1>4 DEF Value, PrefixValues, g

\* The powers of a number exist.
LEMMA PowersExist ==
    ASSUME NEW n \in Nat, NEW b \in Nat
    PROVE  \E p : Powers(p, n, b)
<1> DEFINE step == [k \in 1..n |-> [v \in Nat |-> v * b]]
<1>1. step \in [1..n -> [Nat -> Nat]]
    OBVIOUS
<1>2. \A k \in 1..n : \A v \in Nat : step[k][v] = v * b
    OBVIOUS
<1> HIDE DEF step
<1>3. PICK p : Recursive(p, Nat, 1, n, step)
    BY <1>1, Recursion, 1 \in Nat
<1>4. ASSUME NEW k \in 1..n PROVE p[k] = p[k - 1] * b
    <2>1. k - 1 \in 0..n
        OBVIOUS
    <2>2. p[k - 1] \in Nat
        BY <1>3, <2>1 DEF Recursive
    <2> QED BY <1>2, <1>3, <2>2 DEF Recursive
<1> QED BY <1>3, <1>4 DEF Recursive, Powers

\* Arithmetic of one digit.
LEMMA OneDigit ==
    ASSUME NEW b \in Nat
    PROVE  /\ \A v \in Nat, w \in Nat, d \in 0..b - 1 : v < w => v * b + d < w * b
           /\ \A v \in Nat, w \in Nat, d \in 0..b - 1, e \in 0..b - 1 :
                v * b + d = w * b + e => v = w /\ d = e
<1>1. ASSUME NEW v \in Nat, NEW w \in Nat, NEW d \in 0..b - 1, v < w PROVE v * b + d < w * b
    <2>1. PICK x \in Nat : w = v + 1 + x
        <3>1. w - v - 1 \in Nat /\ w = v + 1 + (w - v - 1)
            BY <1>1
        <3> QED BY <3>1
    <2>2. (v + 1 + x) * b = v * b + b + x * b /\ v * b \in Nat /\ x * b \in Nat
        OBVIOUS
    <2> HIDE <1>1
    <2> QED BY <2>1, <2>2
<1>2. ASSUME NEW v \in Nat, NEW w \in Nat, NEW d \in 0..b - 1, NEW e \in 0..b - 1,
             v * b + d = w * b + e
      PROVE  v = w /\ d = e
    <2>1. v * b \in Nat /\ w * b \in Nat
        OBVIOUS
    <2>2. ~(v < w)
        <3>1. v < w => v * b + d < w * b
            BY <1>1
        <3> QED BY <1>2, <2>1, <3>1
    <2>3. ~(w < v)
        <3>1. w < v => w * b + e < v * b
            BY <1>1
        <3> QED BY <1>2, <2>1, <3>1
    <2>4. v = w
        BY <2>2, <2>3
    <2> QED BY <1>2, <2>1, <2>4
<1> QED BY <1>1, <1>2

Digits(n, b) == [1..n -> 0..b - 1]

\* The value of digits is what recursion from the left makes of them.
LEMMA ValueSteps ==
    ASSUME NEW n \in Nat, NEW b \in Nat, NEW ds \in [1..n -> Nat]
    PROVE  \E f : PrefixValues(f, ds, n, b) /\ Value(ds, n, b) = f[n] /\ f[n] \in Nat
<1>1. PICK f : PrefixValues(f, ds, n, b)
    BY PrefixValuesExist
<1>2. Value(ds, n, b) = f[n] /\ Value(ds, n, b) \in Nat
    BY <1>1, ValueIs
<1> QED BY <1>1, <1>2

\* Digits are natural numbers.
LEMMA DigitsNat ==
    ASSUME NEW n \in Nat, NEW b \in Nat, NEW ds \in Digits(n, b)
    PROVE  ds \in [1..n -> Nat] /\ \A i \in 1..n : ds[i] \in 0..b - 1
<1>1. \A i \in 1..n : ds[i] \in 0..b - 1
    BY DEF Digits
<1>2. ds = [i \in 1..n |-> ds[i]]
    BY DEF Digits
<1> QED BY <1>1, <1>2

\* n digits are less than the n-th power of the base.
LEMMA ValueBelow ==
    ASSUME NEW n \in Nat, NEW b \in Nat \ {0}, NEW ds \in Digits(n, b), NEW p, Powers(p, n, b)
    PROVE  Value(ds, n, b) < p[n]
<1>1. PICK f : PrefixValues(f, ds, n, b) /\ Value(ds, n, b) = f[n]
    BY DigitsNat, ValueSteps
<1> DEFINE G == {k \in 0..n : f[k] < p[k]}
<1>2. 0 \in G
    BY <1>1 DEF PrefixValues, Powers
<1>3. ASSUME NEW k \in 0..n, k < n, k \in G PROVE k + 1 \in G
    <2>1. k + 1 \in 1..n /\ k + 1 \in 0..n /\ (k + 1) - 1 = k
        BY <1>3
    <2>2. f[k + 1] = f[k] * b + ds[k + 1] /\ p[k + 1] = p[k] * b
        BY <1>1, <2>1 DEF PrefixValues, Powers
    <2>3. f[k] \in Nat /\ p[k] \in Nat /\ f[k] < p[k] /\ ds[k + 1] \in 0..b - 1
        BY <1>1, <1>3, <2>1, DigitsNat DEF PrefixValues, Powers
    <2>4. f[k] * b + ds[k + 1] < p[k] * b
        BY ONLY <2>3, OneDigit, b \in Nat
    <2> QED BY <2>1, <2>2, <2>4
<1>4. n \in G
    <2> HIDE DEF G
    <2>1. \A k \in 0..n : k \in G
        BY <1>2, <1>3, StepByStep
    <2> QED BY <2>1
<1> QED BY <1>1, <1>4

\* Two sequences of n digits that are the same number are the same.
LEMMA ValueUnique ==
    ASSUME NEW n \in Nat, NEW b \in Nat \ {0}, NEW ds \in Digits(n, b), NEW es \in Digits(n, b),
           Value(ds, n, b) = Value(es, n, b)
    PROVE  ds = es
<1>1. PICK f : PrefixValues(f, ds, n, b) /\ Value(ds, n, b) = f[n]
    BY DigitsNat, ValueSteps
<1>2. PICK g : PrefixValues(g, es, n, b) /\ Value(es, n, b) = g[n]
    BY DigitsNat, ValueSteps
<1> DEFINE G == {k \in 0..n : f[n - k] = g[n - k] /\ \A i \in n - k + 1..n : ds[i] = es[i]}
<1>3. 0 \in G
    <2>1. f[n] = g[n]
        BY <1>1, <1>2, Zenon
    <2>2. n - 0 = n /\ 0 \in 0..n
        OBVIOUS
    <2> QED BY <2>1, <2>2
<1>4. ASSUME NEW k \in 0..n, k < n, k \in G PROVE k + 1 \in G
    <2> DEFINE m == n - k
    <2>1. m \in 1..n /\ m - 1 \in 0..n /\ n - (k + 1) = m - 1 /\ k + 1 \in 0..n /\ m - 1 + 1 = m
        BY <1>4
    <2>2. f[m] = g[m] /\ \A i \in m + 1..n : ds[i] = es[i]
        BY <1>4
    <2> HIDE DEF m
    <2>3. f[m] = f[m - 1] * b + ds[m] /\ g[m] = g[m - 1] * b + es[m]
        BY <1>1, <1>2, <2>1 DEF PrefixValues
    <2>4. f[m - 1] \in Nat /\ g[m - 1] \in Nat /\ ds[m] \in 0..b - 1 /\ es[m] \in 0..b - 1
        BY <1>1, <1>2, <2>1, DigitsNat DEF PrefixValues
    <2>5. f[m - 1] * b + ds[m] = g[m - 1] * b + es[m]
        BY <2>2, <2>3
    <2>6. f[m - 1] = g[m - 1] /\ ds[m] = es[m]
        <3> DEFINE v == f[m - 1]
                   w == g[m - 1]
                   d == ds[m]
                   c == es[m]
        <3>1. v \in Nat /\ w \in Nat /\ d \in 0..b - 1 /\ c \in 0..b - 1 /\ v * b + d = w * b + c
            BY <2>4, <2>5
        <3> HIDE DEF v, w, d, c
        <3>2. v = w /\ d = c
            BY ONLY <3>1, OneDigit, b \in Nat
        <3> QED BY <3>2 DEF v, w, d, c
    <2>7. \A i \in m..n : ds[i] = es[i]
        BY <2>1, <2>2, <2>6
    <2> QED BY <2>1, <2>6, <2>7
<1>5. n \in G
    <2> HIDE DEF G
    <2>1. \A k \in 0..n : k \in G
        BY <1>3, <1>4, StepByStep
    <2> QED BY <2>1
<1>6. \A i \in 1..n : ds[i] = es[i]
    BY <1>5
<1> QED BY <1>6 DEF Digits

\* n digits behind k zeros.
Padded(k, ds, n) == [i \in 1..k + n |-> IF i <= k THEN 0 ELSE ds[i - k]]

\* Zeros in front do not change the number.
LEMMA ValuePadded ==
    ASSUME NEW n \in Nat, NEW k \in Nat, NEW b \in Nat, NEW ds \in [1..n -> Nat]
    PROVE  /\ Padded(k, ds, n) \in [1..k + n -> Nat]
           /\ Value(Padded(k, ds, n), k + n, b) = Value(ds, n, b)
<1>1. PICK f : PrefixValues(f, ds, n, b) /\ Value(ds, n, b) = f[n]
    BY ValueSteps
<1> DEFINE h == [i \in 0..k + n |-> IF i <= k THEN 0 ELSE f[i - k]]
           e == Padded(k, ds, n)
<1>2. ASSUME NEW i \in 1..k + n PROVE e[i] \in Nat
    <2>1. i > k => i - k \in 1..n
        OBVIOUS
    <2> QED BY <2>1 DEF Padded
<1>3. ASSUME NEW i \in 0..k + n PROVE h[i] \in Nat
    <2>1. i > k => i - k \in 0..n
        OBVIOUS
    <2> QED BY <1>1, <2>1 DEF PrefixValues
<1>4. ASSUME NEW i \in 1..k + n PROVE h[i] = h[i - 1] * b + e[i]
    <2>0. i - 1 \in 0..k + n /\ i \in 0..k + n
        OBVIOUS
    <2>1. CASE i <= k
        BY <2>0, <2>1 DEF Padded
    <2>2. CASE i > k
        <3>1. i - k \in 1..n /\ (i - 1) - k = (i - k) - 1
            BY <2>2
        <3>2. f[i - k] = f[(i - k) - 1] * b + ds[i - k] /\ f[0] = 0
            BY <1>1, <3>1 DEF PrefixValues
        <3>3. h[i - 1] = f[(i - k) - 1]
            <4>1. CASE i - 1 > k
                BY <2>0, <3>1, <4>1
            <4>2. CASE i - 1 <= k
                <5>1. (i - k) - 1 = 0
                    BY <2>2, <4>2
                <5> QED BY <2>0, <3>2, <4>2, <5>1
            <4> QED BY <4>1, <4>2
        <3>4. h[i] = f[i - k] /\ e[i] = ds[i - k]
            BY <2>0, <2>2 DEF Padded
        <3> QED BY <3>2, <3>3, <3>4
    <2> QED BY <2>1, <2>2
<1>5. h[0] = 0 /\ h[k + n] = f[n]
    <2>1. n > 0 => k + n > k /\ k + n \in 0..k + n /\ (k + n) - k = n
        OBVIOUS
    <2>2. n = 0 => k + n = k /\ k + n \in 0..k + n
        OBVIOUS
    <2>3. f[0] = 0
        BY <1>1 DEF PrefixValues
    <2> QED BY <2>1, <2>2, <2>3
<1>6. PrefixValues(h, e, k + n, b)
    <2>1. h \in [0..k + n -> Nat]
        BY <1>3
    <2> HIDE DEF h, e
    <2> QED BY <1>4, <1>5, <2>1 DEF PrefixValues
<1>7. k + n \in Nat
    OBVIOUS
<1>8. Value(e, k + n, b) = f[n]
    <2> HIDE DEF h, e
    <2>1. Value(e, k + n, b) = h[k + n]
        BY <1>6, <1>7, ValueIs
    <2> QED BY <1>5, <2>1
<1>9. e \in [1..k + n -> Nat]
    BY <1>2 DEF Padded
<1> QED BY <1>1, <1>8, <1>9

\* Division with remainder.
LEMMA DivMod ==
    ASSUME NEW b \in Nat \ {0}, NEW x \in Nat
    PROVE  /\ x \div b \in Nat /\ x % b \in 0..b - 1
           /\ x = (x \div b) * b + (x % b)
<1>1. x \div b \in Nat
    OBVIOUS
<1>2. x % b \in Nat /\ x % b < b
    OBVIOUS
<1>3. x % b \in 0..b - 1
    BY <1>2
<1>4. x = (x \div b) * b + (x % b)
    BY ONLY b \in Nat \ {0}, x \in Nat
<1> QED BY <1>1, <1>3, <1>4

\* What is carried to each place, and at n + 1 what is added.
Carries(c, ds, m, b, a) ==
    c = [i \in 1..Len(ds) + 1 |->
            IF i = Len(ds) + 1 THEN a ELSE (ds[i] * m + c[i + 1]) \div b]

\* MulAdd's digits are what the carries c leave.
CarriedBy(c, ds, n, m, b, a) ==
    /\ c \in [1..n + 1 -> Nat] /\ Carries(c, ds, m, b, a)
    /\ MulAdd(ds, m, b, a) = [i \in 1..n |-> (ds[i] * m + c[i + 1]) % b]

\* MulAdd's carries exist.
LEMMA CarriesExist ==
    ASSUME NEW n \in Nat, NEW b \in Nat \ {0}, NEW m \in Nat, NEW a \in Nat,
           NEW ds \in [1..n -> Nat]
    PROVE  \E c : CarriedBy(c, ds, n, m, b, a)
<1> DEFINE step == [k \in 1..n |-> [v \in Nat |-> (ds[n + 1 - k] * m + v) \div b]]
<1>0. Len(ds) = n
    BY FunctionSeq
<1>1. step \in [1..n -> [Nat -> Nat]]
    <2>1. ASSUME NEW k \in 1..n, NEW v \in Nat PROVE (ds[n + 1 - k] * m + v) \div b \in Nat
        <3> DEFINE d == ds[n + 1 - k]
        <3>1. n + 1 - k \in 1..n
            OBVIOUS
        <3>2. d \in Nat
            BY <3>1
        <3> HIDE DEF d
        <3>3. d * m + v \in Nat
            BY <3>2
        <3> QED BY <3>3, DivMod DEF d
    <2> QED BY <2>1
<1>2. \A k \in 1..n : \A v \in Nat : step[k][v] = (ds[n + 1 - k] * m + v) \div b
    OBVIOUS
<1> HIDE DEF step
<1>3. PICK f : Recursive(f, Nat, a, n, step)
    BY <1>1, Recursion
<1>4. f \in [0..n -> Nat] /\ f[0] = a /\ \A k \in 1..n : f[k] = step[k][f[k - 1]]
    BY <1>3 DEF Recursive
<1> DEFINE c == [i \in 1..n + 1 |-> f[n + 1 - i]]
           C == CHOOSE x : Carries(x, ds, m, b, a)
<1>5. c \in [1..n + 1 -> Nat] /\ \A i \in 1..n + 1 : c[i] = f[n + 1 - i]
    <2>1. ASSUME NEW i \in 1..n + 1 PROVE n + 1 - i \in 0..n
        OBVIOUS
    <2> QED BY <1>4, <2>1
<1> HIDE DEF c
<1>6. ASSUME NEW i \in 1..n + 1
      PROVE  c[i] = IF i = n + 1 THEN a ELSE (ds[i] * m + c[i + 1]) \div b
    <2>1. CASE i = n + 1
        <3>1. n + 1 - i = 0
            BY <2>1
        <3> QED BY <1>4, <1>5, <2>1, <3>1
    <2>2. CASE i # n + 1
        <3>1. /\ n + 1 - i \in 1..n /\ (n + 1 - i) - 1 = n + 1 - (i + 1) /\ i + 1 \in 1..n + 1
              /\ (n + 1 - i) - 1 \in 0..n /\ n + 1 - (n + 1 - i) = i
            BY <2>2
        <3> DEFINE k == n + 1 - i
        <3>2. k \in 1..n /\ k - 1 \in 0..n /\ n + 1 - k = i /\ c[i] = f[k] /\ c[i + 1] = f[k - 1]
            BY <1>5, <3>1
        <3> HIDE DEF k
        <3>3. f[k - 1] \in Nat /\ f[k] = step[k][f[k - 1]]
            BY <1>4, <3>2
        <3>4. f[k] = (ds[n + 1 - k] * m + f[k - 1]) \div b
            BY <1>2, <3>2, <3>3
        <3> QED BY <2>2, <3>2, <3>4
    <2> QED BY <2>1, <2>2
<1>7. Carries(c, ds, m, b, a)
    <2>1. c = [i \in 1..n + 1 |-> c[i]]
        BY <1>5
    <2>2. [i \in 1..n + 1 |-> c[i]]
          = [i \in 1..n + 1 |-> IF i = n + 1 THEN a ELSE (ds[i] * m + c[i + 1]) \div b]
        BY ONLY <1>6, Zenon
    <2> QED BY ONLY <1>0, <2>1, <2>2 DEF Carries
<1>8. Carries(C, ds, m, b, a)
    BY <1>7
<1>9. MulAdd(ds, m, b, a) = [i \in 1..n |-> (ds[i] * m + C[i + 1]) % b]
    BY <1>0 DEF MulAdd, Carries
<1> HIDE DEF C
<1>10. ASSUME NEW i \in 1..n + 1
       PROVE  C[i] = IF i = n + 1 THEN a ELSE (ds[i] * m + C[i + 1]) \div b
    BY <1>0, <1>8 DEF Carries
<1> DEFINE G == {k \in 0..n : C[n + 1 - k] = c[n + 1 - k]}
<1>11. 0 \in G
    <2>1. n + 1 - 0 = n + 1 /\ n + 1 \in 1..n + 1 /\ 0 \in 0..n
        OBVIOUS
    <2> QED BY <1>6, <1>10, <2>1
<1>12. ASSUME NEW k \in 0..n, k < n, k \in G PROVE k + 1 \in G
    <2> DEFINE i == n + 1 - (k + 1)
    <2>1. i \in 1..n + 1 /\ i # n + 1 /\ i + 1 = n + 1 - k /\ k + 1 \in 0..n
        BY <1>12
    <2>2. C[i + 1] = c[i + 1]
        BY <1>12, <2>1
    <2>3. C[i] = (ds[i] * m + C[i + 1]) \div b /\ c[i] = (ds[i] * m + c[i + 1]) \div b
        <3> HIDE DEF i
        <3> QED BY <1>6, <1>10, <2>1
    <2>4. C[i] = c[i]
        BY ONLY <2>2, <2>3, Zenon
    <2> QED BY <2>1, <2>4
<1>13. \A k \in 0..n : k \in G
    <2> HIDE DEF G
    <2> QED BY <1>11, <1>12, StepByStep
<1>14. \A i \in 1..n : C[i + 1] = c[i + 1]
    <2> TAKE i \in 1..n
    <2>1. n - i \in 0..n /\ n + 1 - (n - i) = i + 1
        OBVIOUS
    <2> QED BY <1>13, <2>1
<1>15. MulAdd(ds, m, b, a) = [i \in 1..n |-> (ds[i] * m + c[i + 1]) % b]
    BY ONLY <1>9, <1>14, Zenon
<1> QED BY <1>5, <1>7, <1>15 DEF CarriedBy

\* The algebra of one more digit.
LEMMA OneMoreDigit ==
    ASSUME NEW b \in Nat, NEW m \in Nat, NEW v \in Nat, NEW w \in Nat, NEW q \in Nat,
           NEW c0 \in Nat, NEW c1 \in Nat, NEW c2 \in Nat, NEW d \in Nat, NEW r \in Nat,
           w + c0 * q = v * m + c1, d * m + c2 = c1 * b + r
    PROVE  (w * b + r) + c0 * (q * b) = (v * b + d) * m + c2
<1>1. (w + c0 * q) * b = (v * m + c1) * b
    OBVIOUS
<1>2. (w + c0 * q) * b = w * b + c0 * (q * b)
    OBVIOUS
<1>3. (v * m + c1) * b = (v * b) * m + c1 * b
    OBVIOUS
<1>4. (v * b + d) * m = (v * b) * m + d * m
    OBVIOUS
<1>5. /\ w * b \in Nat /\ c0 * (q * b) \in Nat /\ (v * b) * m \in Nat /\ c1 * b \in Nat
      /\ d * m \in Nat /\ (v * b + d) * m \in Nat
    OBVIOUS
<1> DEFINE x1 == w * b
           x2 == c0 * (q * b)
           x3 == (v * b) * m
           x4 == c1 * b
           x5 == d * m
           x6 == (v * b + d) * m
<1>6. x1 + x2 = x3 + x4 /\ x6 = x3 + x5 /\ x5 + c2 = x4 + r
    BY <1>1, <1>2, <1>3, <1>4
<1>7. x1 \in Nat /\ x2 \in Nat /\ x3 \in Nat /\ x4 \in Nat /\ x5 \in Nat /\ x6 \in Nat
    BY <1>5
<1> HIDE DEF x1, x2, x3, x4, x5, x6
<1>8. x1 + r + x2 = x6 + c2
    BY ONLY <1>6, <1>7, c2 \in Nat, r \in Nat
<1> QED BY <1>8 DEF x1, x2, x6

\* c is what n digits have no room for.
Lost(c, ds, n, m, b, a, p) ==
    c \in Nat /\ Value(MulAdd(ds, m, b, a), n, b) + c * p[n] = Value(ds, n, b) * m + a

\* MulAdd yields digits, of which the carries out of the first place are lost.
LEMMA MulAddSteps ==
    ASSUME NEW n \in Nat, NEW b \in Nat \ {0}, NEW m \in Nat, NEW a \in Nat,
           NEW ds \in [1..n -> Nat], NEW p, Powers(p, n, b)
    PROVE  /\ MulAdd(ds, m, b, a) \in Digits(n, b)
           /\ \E c : Lost(c, ds, n, m, b, a, p)
<1> DEFINE r == MulAdd(ds, m, b, a)
<1>1. PICK c \in [1..n + 1 -> Nat] :
        Carries(c, ds, m, b, a) /\ r = [i \in 1..n |-> (ds[i] * m + c[i + 1]) % b]
    <2>1. PICK c : CarriedBy(c, ds, n, m, b, a)
        BY CarriesExist
    <2> QED BY <2>1 DEF CarriedBy
<1> HIDE DEF r
<1>2. c[n + 1] = a /\ \A i \in 1..n : c[i] = (ds[i] * m + c[i + 1]) \div b
    <2>1. Len(ds) = n
        BY FunctionSeq
    <2>2. \A i \in 1..n + 1 : c[i] = IF i = n + 1 THEN a ELSE (ds[i] * m + c[i + 1]) \div b
        BY <1>1, <2>1 DEF Carries
    <2>3. n + 1 \in 1..n + 1 /\ \A i \in 1..n : i \in 1..n + 1 /\ i # n + 1
        OBVIOUS
    <2> QED BY <2>2, <2>3
<1>3. ASSUME NEW i \in 1..n
      PROVE  /\ r[i] \in 0..b - 1 /\ ds[i] \in Nat /\ c[i] \in Nat /\ c[i + 1] \in Nat
             /\ ds[i] * m + c[i + 1] = c[i] * b + r[i]
    <2>1. ds[i] \in Nat /\ c[i] \in Nat /\ c[i + 1] \in Nat
        OBVIOUS
    <2> DEFINE x == ds[i] * m + c[i + 1]
    <2>2. r[i] = x % b /\ c[i] = x \div b
        BY <1>1, <1>2
    <2>3. x \in Nat
        <3> DEFINE d == ds[i]
                   e == c[i + 1]
        <3>1. d \in Nat /\ e \in Nat
            BY <2>1
        <3> HIDE DEF d, e
        <3>2. d * m \in Nat
            BY ONLY <3>1, m \in Nat
        <3> DEFINE dm == d * m
        <3>3. dm \in Nat
            BY <3>2
        <3> HIDE DEF dm
        <3>4. dm + e \in Nat
            BY ONLY <3>1, <3>3
        <3> QED BY <3>4 DEF d, e, dm
    <2> HIDE DEF x
    <2>4. x % b \in 0..b - 1 /\ x = (x \div b) * b + (x % b)
        BY ONLY <2>3, DivMod, b \in Nat \ {0}
    <2>5. x = c[i] * b + r[i]
        BY ONLY <2>2, <2>4
    <2> QED BY <2>1, <2>2, <2>4, <2>5 DEF x
<1>4. r \in Digits(n, b)
    BY <1>1, <1>3 DEF Digits
<1>5. PICK f : PrefixValues(f, ds, n, b) /\ Value(ds, n, b) = f[n]
    BY ValueSteps
<1>6. PICK g : PrefixValues(g, r, n, b) /\ Value(r, n, b) = g[n]
    BY <1>4, DigitsNat, ValueSteps
<1> DEFINE c0 == c[1]
<1>7. c0 \in Nat
    OBVIOUS
<1> HIDE DEF c0
<1> DEFINE G == {k \in 0..n : g[k] + c0 * p[k] = f[k] * m + c[k + 1]}
<1>8. 0 \in G
    <2>1. g[0] = 0 /\ f[0] = 0 /\ p[0] = 1 /\ c[0 + 1] = c0
        BY <1>5, <1>6 DEF PrefixValues, Powers, c0
    <2>2. 0 + c0 * 1 = 0 * m + c0
        BY <1>7
    <2> QED BY <2>1, <2>2
<1>9. ASSUME NEW k \in 0..n, k < n, k \in G PROVE k + 1 \in G
    <2>1. k + 1 \in 1..n /\ k + 1 \in 0..n /\ (k + 1) - 1 = k
        BY <1>9
    <2>2. /\ f[k + 1] = f[k] * b + ds[k + 1] /\ g[k + 1] = g[k] * b + r[k + 1]
          /\ p[k + 1] = p[k] * b
        BY <1>5, <1>6, <2>1 DEF PrefixValues, Powers
    <2> DEFINE v == f[k]
               w == g[k]
               q == p[k]
               d == ds[k + 1]
               e == r[k + 1]
               c1 == c[k + 1]
               c2 == c[(k + 1) + 1]
    <2>3. v \in Nat /\ w \in Nat /\ q \in Nat
        BY <1>5, <1>6 DEF PrefixValues, Powers
    <2>4. d \in Nat /\ c1 \in Nat /\ c2 \in Nat /\ e \in Nat /\ d * m + c2 = c1 * b + e
        <3>1. /\ r[k + 1] \in 0..b - 1 /\ ds[k + 1] \in Nat
              /\ c[k + 1] \in Nat /\ c[(k + 1) + 1] \in Nat
              /\ ds[k + 1] * m + c[(k + 1) + 1] = c[k + 1] * b + r[k + 1]
            BY ONLY <1>3, <2>1, Zenon
        <3>2. r[k + 1] \in Nat
            BY ONLY <3>1, b \in Nat \ {0}
        <3> QED BY <3>1, <3>2, Zenon
    <2>5. w + c0 * q = v * m + c1
        BY <1>9
    <2>6. /\ f[k + 1] = v * b + d /\ g[k + 1] = w * b + e /\ p[k + 1] = q * b
          /\ c[(k + 1) + 1] = c2
        BY <2>2
    <2> HIDE DEF v, w, q, d, e, c1, c2
    <2>7. (w * b + e) + c0 * (q * b) = (v * b + d) * m + c2
        BY ONLY <1>7, <2>3, <2>4, <2>5, OneMoreDigit, b \in Nat, m \in Nat
    <2>8. g[k + 1] + c0 * p[k + 1] = f[k + 1] * m + c[(k + 1) + 1]
        BY ONLY <2>6, <2>7
    <2> QED BY <2>1, <2>8
<1>10. g[n] + c0 * p[n] = f[n] * m + a
    <2> HIDE DEF G
    <2>1. \A k \in 0..n : k \in G
        BY <1>8, <1>9, StepByStep
    <2>2. n \in G
        BY <2>1
    <2> QED BY <1>2, <2>2 DEF G
<1>11. Lost(c0, ds, n, m, b, a, p)
    BY <1>5, <1>6, <1>7, <1>10 DEF r, Lost
<1> QED BY <1>4, <1>11 DEF r

\* Nothing is lost of a number that has room.
LEMMA NoneLost ==
    ASSUME NEW v \in Nat, NEW w \in Nat, NEW q \in Nat, NEW c \in Nat, v + c * q = w, w < q
    PROVE  v = w
<1>1. c = 0
    <2>1. c # 0 => c * q >= q
        OBVIOUS
    <2>2. c * q \in Nat
        OBVIOUS
    <2> QED BY <2>1, <2>2
<1>2. c * q = 0
    BY <1>1
<1> QED BY <1>2

\* Zeros are zero.
LEMMA ValueZero ==
    ASSUME NEW n \in Nat, NEW b \in Nat
    PROVE  Value([i \in 1..n |-> 0], n, b) = 0
<1> DEFINE f == [k \in 0..n |-> 0]
           z == [i \in 1..n |-> 0]
<1>1. PrefixValues(f, z, n, b)
    <2>1. f \in [0..n -> Nat] /\ f[0] = 0
        OBVIOUS
    <2>2. ASSUME NEW k \in 1..n PROVE f[k] = f[k - 1] * b + z[k]
        <3>1. k \in 0..n /\ k - 1 \in 0..n /\ 0 = 0 * b + 0
            OBVIOUS
        <3>2. f[k] = 0 /\ f[k - 1] = 0 /\ z[k] = 0
            BY <3>1
        <3> HIDE DEF f, z
        <3> QED BY <3>1, <3>2
    <2> HIDE DEF f, z
    <2> QED BY <2>1, <2>2 DEF PrefixValues
<1>2. f[n] = 0
    OBVIOUS
<1> HIDE DEF f, z
<1>3. Value(z, n, b) = f[n]
    BY <1>1, ValueIs
<1> QED BY <1>2, <1>3 DEF z

\* A number's first digits are a number that is no greater.
LEMMA PrefixBelow ==
    ASSUME NEW n \in Nat, NEW b \in Nat \ {0}, NEW ds \in [1..n -> Nat],
           NEW f, PrefixValues(f, ds, n, b)
    PROVE  \A k \in 0..n : f[k] <= f[n]
<1>1. f \in [0..n -> Nat] /\ \A k \in 1..n : f[k] = f[k - 1] * b + ds[k]
    BY DEF PrefixValues
<1> DEFINE G == {k \in 0..n : f[n - k] <= f[n]}
<1>2. 0 \in G
    <2>1. n - 0 = n /\ 0 \in 0..n /\ n \in 0..n
        OBVIOUS
    <2>2. f[n] \in Nat
        BY <1>1, <2>1
    <2> QED BY <2>1, <2>2
<1>3. ASSUME NEW k \in 0..n, k < n, k \in G PROVE k + 1 \in G
    <2> DEFINE m == n - k
    <2>1. /\ m \in 1..n /\ m \in 0..n /\ m - 1 \in 0..n /\ n - (k + 1) = m - 1
          /\ k + 1 \in 0..n /\ n \in 0..n
        BY <1>3
    <2>2. f[m] <= f[n]
        BY <1>3
    <2> HIDE DEF m
    <2> DEFINE v == f[m - 1]
               w == f[m]
               d == ds[m]
               u == f[n]
    <2>3. v \in Nat /\ w \in Nat /\ d \in Nat /\ u \in Nat /\ w = v * b + d /\ w <= u
        BY <1>1, <2>1, <2>2
    <2> HIDE DEF v, w, d, u
    <2>4. v <= v * b /\ v * b \in Nat
        BY <2>3
    <2>5. v <= u
        BY <2>3, <2>4
    <2> QED BY <2>1, <2>5 DEF v, u
<1>4. \A k \in 0..n : k \in G
    <2> HIDE DEF G
    <2> QED BY <1>2, <1>3, StepByStep
<1>5. ASSUME NEW k \in 0..n PROVE f[k] <= f[n]
    <2>1. n - k \in 0..n /\ n - (n - k) = k
        OBVIOUS
    <2>2. n - k \in G
        BY <1>4, <2>1
    <2> QED BY <2>1, <2>2
<1> QED BY <1>5

\* The digits so far, after each digit read.
Rebasing(acc, ds, from, to, width) ==
    acc = [k \in 0..Len(ds) |->
            IF k = 0 THEN [i \in 1..width |-> 0] ELSE MulAdd(acc[k - 1], from, to, ds[k])]

\* Rebase ends with the last of acc.
RebasedBy(acc, ds, n, from, to, width) ==
    /\ acc[0] = [i \in 1..width |-> 0]
    /\ \A k \in 1..n : acc[k] = MulAdd(acc[k - 1], from, to, ds[k])
    /\ Rebase(ds, from, to, width) = acc[n]

\* Rebase reads digit by digit.
LEMMA RebaseSteps ==
    ASSUME NEW n \in Nat, NEW width \in Nat, NEW from \in Nat \ {0}, NEW to \in Nat \ {0},
           NEW ds \in [1..n -> Nat], NEW p, Powers(p, width, to)
    PROVE  \E acc : RebasedBy(acc, ds, n, from, to, width)
<1> DEFINE S == [1..width -> Nat]
           zero == [i \in 1..width |-> 0]
           step == [k \in 1..n |-> [s \in S |-> MulAdd(s, from, to, ds[k])]]
<1>0. Len(ds) = n
    BY FunctionSeq
<1>1. zero \in S
    OBVIOUS
<1>2. step \in [1..n -> [S -> S]]
    <2>1. ASSUME NEW k \in 1..n, NEW s \in S PROVE MulAdd(s, from, to, ds[k]) \in S
        <3> DEFINE d == ds[k]
        <3>1. d \in Nat /\ from \in Nat
            OBVIOUS
        <3> HIDE DEF d
        <3>2. MulAdd(s, from, to, d) \in Digits(width, to)
            BY <3>1, MulAddSteps
        <3>3. MulAdd(s, from, to, d) \in [1..width -> Nat]
            <4> DEFINE x == MulAdd(s, from, to, d)
            <4> HIDE DEF x
            <4>1. x \in Digits(width, to)
                BY <3>2 DEF x
            <4>2. x \in [1..width -> Nat]
                BY <4>1, DigitsNat
            <4> QED BY <4>2 DEF x
        <3> QED BY <3>3 DEF d
    <2> HIDE DEF S
    <2> QED BY <2>1
<1>3. \A k \in 1..n : \A s \in S : step[k][s] = MulAdd(s, from, to, ds[k])
    OBVIOUS
<1> HIDE DEF S, zero, step
<1>4. PICK f : Recursive(f, S, zero, n, step)
    BY <1>1, <1>2, Recursion
<1>5. /\ f \in [0..n -> S] /\ f[0] = zero
      /\ \A k \in 1..n : f[k] = MulAdd(f[k - 1], from, to, ds[k])
    <2>1. f \in [0..n -> S] /\ f[0] = zero /\ \A k \in 1..n : f[k] = step[k][f[k - 1]]
        BY <1>4 DEF Recursive
    <2>2. \A k \in 1..n : k - 1 \in 0..n
        OBVIOUS
    <2>3. \A k \in 1..n : f[k - 1] \in S
        BY <2>1, <2>2
    <2> QED BY <1>3, <2>1, <2>3
<1>6. Rebasing(f, ds, from, to, width)
    <2>1. ASSUME NEW k \in 0..n
          PROVE  f[k] = IF k = 0 THEN zero ELSE MulAdd(f[k - 1], from, to, ds[k])
        <3>1. k # 0 => k \in 1..n
            OBVIOUS
        <3> QED BY <1>5, <3>1
    <2>2. f = [k \in 0..n |-> f[k]]
        BY <1>5
    <2>3. [k \in 0..n |-> f[k]]
          = [k \in 0..n |-> IF k = 0 THEN zero ELSE MulAdd(f[k - 1], from, to, ds[k])]
        BY ONLY <2>1, Zenon
    <2> QED BY ONLY <1>0, <2>2, <2>3 DEF Rebasing, zero
<1> DEFINE acc == CHOOSE x : Rebasing(x, ds, from, to, width)
<1>7. Rebasing(acc, ds, from, to, width)
    BY <1>6
<1>8. Rebase(ds, from, to, width) = acc[n]
    BY <1>0 DEF Rebase, Rebasing
<1> HIDE DEF acc
<1>9. /\ acc[0] = [i \in 1..width |-> 0]
      /\ \A k \in 1..n : acc[k] = MulAdd(acc[k - 1], from, to, ds[k])
    <2>1. \A k \in 0..n : acc[k] = IF k = 0 THEN [i \in 1..width |-> 0]
                                   ELSE MulAdd(acc[k - 1], from, to, ds[k])
        BY <1>0, <1>7, Zenon DEF Rebasing
    <2>2. 0 \in 0..n /\ \A k \in 1..n : k \in 0..n /\ k # 0
        OBVIOUS
    <2> QED BY ONLY <2>1, <2>2, Zenon
<1> QED BY <1>8, <1>9 DEF RebasedBy

\* Rebase keeps the number, if the width is enough for it.
LEMMA RebaseValue ==
    ASSUME NEW n \in Nat, NEW width \in Nat, NEW from \in Nat \ {0}, NEW to \in Nat \ {0},
           NEW ds \in [1..n -> Nat], NEW p, Powers(p, width, to),
           Value(ds, n, from) < p[width]
    PROVE  /\ Rebase(ds, from, to, width) \in Digits(width, to)
           /\ Value(Rebase(ds, from, to, width), width, to) = Value(ds, n, from)
<1>1. PICK acc : /\ acc[0] = [i \in 1..width |-> 0]
                 /\ \A k \in 1..n : acc[k] = MulAdd(acc[k - 1], from, to, ds[k])
                 /\ Rebase(ds, from, to, width) = acc[n]
    <2>1. PICK acc : RebasedBy(acc, ds, n, from, to, width)
        BY RebaseSteps
    <2> QED BY <2>1 DEF RebasedBy
<1>2. PICK f : PrefixValues(f, ds, n, from) /\ Value(ds, n, from) = f[n]
    BY ValueSteps
<1> DEFINE G == {k \in 0..n : acc[k] \in Digits(width, to) /\ Value(acc[k], width, to) = f[k]}
<1>3. 0 \in G
    <2>1. acc[0] \in Digits(width, to)
        BY <1>1 DEF Digits
    <2>2. Value(acc[0], width, to) = 0
        BY <1>1, ValueZero
    <2>3. f[0] = 0
        BY <1>2 DEF PrefixValues
    <2> QED BY <2>1, <2>2, <2>3
<1>4. ASSUME NEW k \in 0..n, k < n, k \in G PROVE k + 1 \in G
    <2>1. k + 1 \in 1..n /\ k + 1 \in 0..n /\ (k + 1) - 1 = k /\ n \in 0..n
        BY <1>4
    <2> DEFINE s == acc[k]
               d == ds[k + 1]
               v == f[k]
               w == f[k + 1]
               q == p[width]
    <2>2. s \in Digits(width, to) /\ Value(s, width, to) = v
        BY <1>4
    <2>3. d \in Nat /\ v \in Nat /\ w \in Nat /\ w = v * from + d
        BY <1>2, <2>1 DEF PrefixValues
    <2>4. w < q
        <3>1. w <= f[n]
            BY <1>2, <2>1, PrefixBelow
        <3>2. f[n] \in Nat /\ q \in Nat /\ f[n] < q
            BY <1>2, <2>1 DEF PrefixValues, Powers
        <3> QED BY <2>3, <3>1, <3>2
    <2>5. acc[k + 1] = MulAdd(s, from, to, d)
        BY <1>1, <2>1
    <2> HIDE DEF s, d, v, q
    <2>6. s \in [1..width -> Nat]
        BY <2>2, DigitsNat
    <2>7. MulAdd(s, from, to, d) \in Digits(width, to)
        BY <2>3, <2>6, MulAddSteps
    <2>8. PICK c : Lost(c, s, width, from, to, d, p)
        <3>1. from \in Nat
            OBVIOUS
        <3> QED BY <2>3, <2>6, <3>1, MulAddSteps
    <2> DEFINE u == Value(MulAdd(s, from, to, d), width, to)
    <2>9. u = v * from + d
        <3>1. c \in Nat /\ u + c * q = w
            BY <2>2, <2>3, <2>8 DEF Lost, q
        <3>2. u \in Nat
            <4> DEFINE x == MulAdd(s, from, to, d)
            <4>1. x \in [1..width -> Nat]
                <5>1. x \in Digits(width, to)
                    BY <2>7
                <5> HIDE DEF x
                <5> QED BY <5>1, DigitsNat
            <4> HIDE DEF x
            <4>2. Value(x, width, to) \in Nat
                <5>1. to \in Nat
                    OBVIOUS
                <5>2. PICK g : PrefixValues(g, x, width, to)
                    BY <4>1, <5>1, PrefixValuesExist
                <5> QED BY <5>1, <5>2, ValueIs
            <4> QED BY <4>2 DEF x
        <3>3. q \in Nat
            <4>1. width \in 0..width
                OBVIOUS
            <4> QED BY <4>1 DEF q, Powers
        <3> HIDE DEF u, w
        <3>4. w \in Nat /\ w < q
            BY <2>3, <2>4
        <3>5. u = w
            BY ONLY <3>1, <3>2, <3>3, <3>4, NoneLost
        <3> QED BY <2>3, <3>5
    <2>10. Value(acc[k + 1], width, to) = f[k + 1]
        BY <2>2, <2>3, <2>5, <2>9 DEF w
    <2> QED BY <2>1, <2>5, <2>7, <2>10
<1>5. n \in G
    <2> HIDE DEF G
    <2>1. \A k \in 0..n : k \in G
        BY <1>3, <1>4, StepByStep
    <2> QED BY <2>1
<1> QED BY <1>1, <1>2, <1>5

\* Digits with z zeros in front and no more.
Leads(z, ds, n) == z \in 0..n /\ (\A i \in 1..z : ds[i] = 0) /\ (z < n => ds[z + 1] # 0)

\* There is one such number.
LEMMA LeadsOnce ==
    ASSUME NEW n \in Nat, NEW ds, NEW y, NEW z, Leads(y, ds, n), Leads(z, ds, n)
    PROVE  y = z
<1>1. y \in 0..n /\ z \in 0..n
    BY DEF Leads
<1>2. ~(y < z)
    <2>1. y < z => y + 1 \in 1..z /\ y < n
        BY <1>1
    <2> QED BY <2>1 DEF Leads
<1>3. ~(z < y)
    <2>1. z < y => z + 1 \in 1..y /\ z < n
        BY <1>1
    <2> QED BY <2>1 DEF Leads
<1> QED BY <1>1, <1>2, <1>3

\* LeadingZeros counts them, and WithoutZeros leaves the rest.
LEMMA Stripped ==
    ASSUME NEW n \in Nat, NEW ds \in [1..n -> Nat]
    PROVE  /\ Leads(LeadingZeros(ds), ds, n)
           /\ WithoutZeros(ds) = [i \in 1..n - LeadingZeros(ds) |-> ds[LeadingZeros(ds) + i]]
<1>1. Len(ds) = n /\ DOMAIN ds = 1..n /\ ds \in Seq(Nat)
    BY FunctionSeq
<1> DEFINE nonzero == {i \in 1..n : ds[i] # 0}
           z == LeadingZeros(ds)
<1>2. z = IF nonzero = {} THEN n ELSE Min(nonzero) - 1
    BY <1>1 DEF LeadingZeros
<1>3. Leads(z, ds, n)
    <2>1. CASE nonzero = {}
        <3>1. z = n /\ \A i \in 1..n : ds[i] = 0
            BY <1>2, <2>1
        <3> HIDE DEF z
        <3> QED BY <3>1 DEF Leads
    <2>2. CASE nonzero # {}
        <3> DEFINE x == Min(nonzero)
        <3>1. x \in nonzero /\ \A y \in nonzero : x <= y
            <4>1. nonzero \in SUBSET Nat
                OBVIOUS
            <4>2. \E x1 \in nonzero : \A y \in nonzero : x1 <= y
                <5> HIDE DEF nonzero
                <5> QED BY <2>2, <4>1, LeastExists
            <4> HIDE DEF nonzero
            <4> QED BY <4>2 DEF Min
        <3>2. z = x - 1
            BY <1>2, <2>2
        <3> HIDE DEF x, z
        <3>3. z \in 0..n /\ z + 1 = x /\ ds[x] # 0
            BY <3>1, <3>2
        <3>4. ASSUME NEW i \in 1..z PROVE ds[i] = 0
            <4>1. i \in 1..n /\ ~(x <= i)
                BY <3>1, <3>3
            <4> QED BY <3>1, <4>1
        <3> QED BY <3>3, <3>4 DEF Leads
    <2> QED BY <2>1, <2>2
<1>4. WithoutZeros(ds) = [i \in 1..n - z |-> ds[z + i]]
    <2>0. z \in 0..n
        BY <1>3 DEF Leads
    <2>1. WithoutZeros(ds) = SubSeq(ds, z + 1, n)
        BY <1>1 DEF WithoutZeros
    <2> HIDE DEF z
    <2>2. SubSeq(ds, z + 1, n) = [i \in 1..n - z |-> ds[z + i]]
        BY <1>1, <2>0
    <2> QED BY <2>1, <2>2
<1> QED BY <1>3, <1>4

\* Zeros in front are stripped again.
LEMMA PaddedStripped ==
    ASSUME NEW n \in Nat, NEW k \in Nat, NEW ds \in [1..n -> Nat]
    PROVE  /\ LeadingZeros(Padded(k, ds, n)) = k + LeadingZeros(ds)
           /\ WithoutZeros(Padded(k, ds, n)) = WithoutZeros(ds)
<1> DEFINE e == Padded(k, ds, n)
           z == LeadingZeros(ds)
           y == LeadingZeros(e)
<1>1. /\ Leads(z, ds, n)
      /\ WithoutZeros(ds) = [i \in 1..n - z |-> ds[z + i]]
    BY Stripped
<1>2. e \in [1..k + n -> Nat] /\ k + n \in Nat
    BY ValuePadded
<1>3. /\ Leads(y, e, k + n)
      /\ WithoutZeros(e) = [i \in 1..(k + n) - y |-> e[y + i]]
    <2> DEFINE m == k + n
    <2>1. e \in [1..m -> Nat] /\ m \in Nat
        BY <1>2
    <2> HIDE DEF e, m
    <2>2. Leads(y, e, m)
        BY <2>1, Stripped
    <2>3. WithoutZeros(e) = [i \in 1..m - y |-> e[y + i]]
        BY <2>1, Stripped
    <2> HIDE DEF y
    <2>4. m = k + n
        BY DEF m
    <2>5. Leads(y, e, k + n)
        BY <2>2, <2>4
    <2>6. WithoutZeros(e) = [i \in 1..(k + n) - y |-> e[y + i]]
        BY <2>3, <2>4
    <2> QED BY <2>5, <2>6
<1>4. \A i \in 1..k + n : e[i] = IF i <= k THEN 0 ELSE ds[i - k]
    BY DEF Padded
<1> HIDE DEF e, z, y
<1>5. Leads(k + z, e, k + n)
    <2>1. z \in 0..n /\ (\A i \in 1..z : ds[i] = 0) /\ (z < n => ds[z + 1] # 0)
        BY <1>1 DEF Leads
    <2>2. ASSUME NEW i \in 1..k + z PROVE e[i] = 0
        <3>1. i \in 1..k + n /\ (i > k => i - k \in 1..z)
            BY <2>1
        <3> QED BY <1>4, <2>1, <3>1
    <2>3. k + z < k + n => e[(k + z) + 1] # 0
        <3>1. k + z < k + n => /\ (k + z) + 1 \in 1..k + n /\ ~((k + z) + 1 <= k)
                               /\ ((k + z) + 1) - k = z + 1 /\ z < n
            BY <2>1
        <3> QED BY <1>4, <2>1, <3>1
    <2>4. k + z \in 0..k + n
        BY <2>1
    <2> QED BY <2>2, <2>3, <2>4 DEF Leads
<1>6. y = k + z
    BY <1>2, <1>3, <1>5, LeadsOnce
<1>7. WithoutZeros(e) = [i \in 1..n - z |-> ds[z + i]]
    <2>1. z \in 0..n
        BY <1>1 DEF Leads
    <2>2. (k + n) - y = n - z
        BY <1>6, <2>1
    <2>3. ASSUME NEW i \in 1..n - z PROVE e[y + i] = ds[z + i]
        <3>1. y + i \in 1..k + n /\ ~(y + i <= k) /\ (y + i) - k = z + i
            BY <1>6, <2>1
        <3> QED BY <1>4, <3>1
    <2>4. [i \in 1..n - z |-> e[y + i]] = [i \in 1..n - z |-> ds[z + i]]
        BY ONLY <2>3, Zenon
    <2> QED BY ONLY <1>3, <2>2, <2>4
<1> QED BY <1>1, <1>6, <1>7 DEF e, y, z

\* Digits are their leading zeros and the rest.
LEMMA ZerosAndRest ==
    ASSUME NEW n \in Nat, NEW ds \in [1..n -> Nat]
    PROVE  /\ LeadingZeros(ds) \in 0..n
           /\ WithoutZeros(ds) \in [1..n - LeadingZeros(ds) -> Nat]
           /\ ds = Padded(LeadingZeros(ds), WithoutZeros(ds), n - LeadingZeros(ds))
           /\ LeadingZeros(WithoutZeros(ds)) = 0
<1> DEFINE z == LeadingZeros(ds)
           w == WithoutZeros(ds)
<1>1. Leads(z, ds, n) /\ w = [i \in 1..n - z |-> ds[z + i]]
    BY Stripped
<1> HIDE DEF z, w
<1>2. z \in 0..n /\ (\A i \in 1..z : ds[i] = 0) /\ (z < n => ds[z + 1] # 0)
    BY <1>1 DEF Leads
<1>3. w \in [1..n - z -> Nat] /\ n - z \in Nat
    <2>1. ASSUME NEW i \in 1..n - z PROVE ds[z + i] \in Nat
        <3>1. z + i \in 1..n
            BY <1>2
        <3> QED BY <3>1
    <2> QED BY <1>1, <1>2, <2>1
<1>4. ds = Padded(z, w, n - z)
    <2>1. ASSUME NEW i \in 1..n PROVE ds[i] = IF i <= z THEN 0 ELSE w[i - z]
        <3>1. CASE i <= z
            BY <1>2, <3>1
        <3>2. CASE i > z
            <4>1. i - z \in 1..n - z /\ z + (i - z) = i
                BY <1>2, <3>2
            <4> QED BY <1>1, <1>2, <3>2, <4>1
        <3> QED BY <1>2, <3>1, <3>2
    <2>2. z + (n - z) = n
        BY <1>2
    <2>3. ds = [i \in 1..n |-> ds[i]]
        OBVIOUS
    <2>4. [i \in 1..n |-> ds[i]] = [i \in 1..n |-> IF i <= z THEN 0 ELSE w[i - z]]
        BY ONLY <2>1, Zenon
    <2> QED BY ONLY <2>2, <2>3, <2>4 DEF Padded
<1>5. LeadingZeros(w) = 0
    <2> DEFINE m == n - z
               y == LeadingZeros(w)
    <2>1. Leads(y, w, m)
        <3>1. w \in [1..m -> Nat] /\ m \in Nat
            BY <1>3
        <3> HIDE DEF m
        <3> QED BY <3>1, Stripped
    <2>2. Leads(0, w, m)
        <3>1. 0 < m => 1 \in 1..m /\ z < n
            BY <1>2
        <3>2. 0 < m => w[1] = ds[z + 1]
            BY <1>1, <3>1
        <3>3. 0 < m => w[0 + 1] # 0
            BY <1>2, <3>1, <3>2
        <3>4. 0 \in 0..m
            BY <1>2
        <3> HIDE DEF m
        <3> QED BY <3>3, <3>4 DEF Leads
    <2>3. m \in Nat
        BY <1>3
    <2> HIDE DEF m, y
    <2>4. y = 0
        BY <2>1, <2>2, <2>3, LeadsOnce
    <2> QED BY <2>4 DEF y
<1> QED BY <1>2, <1>3, <1>4, <1>5 DEF z, w

\* Zeros before a sequence.
LEMMA ZerosConcat ==
    ASSUME NEW n \in Nat, NEW k \in Nat, NEW ds \in [1..n -> Nat]
    PROVE  Zeros(k) \o ds = Padded(k, ds, n)
<1> DEFINE y == Zeros(k)
           s == y \o ds
<1>1. y \in Seq(Nat) /\ Len(y) = k /\ \A i \in 1..k : y[i] = 0
    BY DEF Zeros
<1>2. ds \in Seq(Nat) /\ Len(ds) = n
    BY FunctionSeq
<1> HIDE DEF y
<1>3. /\ s \in Seq(Nat) /\ Len(s) = k + n
      /\ \A i \in 1..k + n : s[i] = IF i <= k THEN y[i] ELSE ds[i - k]
    BY <1>1, <1>2, ConcatProperties
<1> HIDE DEF s
<1>4. s = [i \in 1..k + n |-> s[i]]
    BY <1>3
<1>5. ASSUME NEW i \in 1..k + n PROVE s[i] = IF i <= k THEN 0 ELSE ds[i - k]
    <2>1. i <= k => i \in 1..k
        OBVIOUS
    <2> QED BY <1>1, <1>3, <2>1
<1>6. [i \in 1..k + n |-> s[i]] = [i \in 1..k + n |-> IF i <= k THEN 0 ELSE ds[i - k]]
    BY ONLY <1>5, Zenon
<1> QED BY ONLY <1>4, <1>6 DEF Padded, s, y

\* Digits are digits with zeros before them.
LEMMA PaddedDigits ==
    ASSUME NEW n \in Nat, NEW k \in Nat, NEW b \in Nat \ {0}, NEW ds \in Digits(n, b)
    PROVE  Padded(k, ds, n) \in Digits(k + n, b)
<1>1. ASSUME NEW i \in 1..k + n PROVE (IF i <= k THEN 0 ELSE ds[i - k]) \in 0..b - 1
    <2>1. i > k => i - k \in 1..n
        OBVIOUS
    <2>2. 0 \in 0..b - 1
        OBVIOUS
    <2> QED BY <2>1, <2>2 DEF Digits
<1> QED BY <1>1 DEF Padded, Digits

\* The rest of digits are digits.
LEMMA RestDigits ==
    ASSUME NEW n \in Nat, NEW b \in Nat, NEW ds \in Digits(n, b)
    PROVE  WithoutZeros(ds) \in Digits(n - LeadingZeros(ds), b)
<1>1. ds \in [1..n -> Nat]
    BY DigitsNat
<1> DEFINE z == LeadingZeros(ds)
<1>2. z \in 0..n /\ WithoutZeros(ds) = [i \in 1..n - z |-> ds[z + i]]
    BY <1>1, Stripped DEF Leads
<1> HIDE DEF z
<1>3. ASSUME NEW i \in 1..n - z PROVE ds[z + i] \in 0..b - 1
    <2>1. z + i \in 1..n
        BY <1>2
    <2> QED BY <2>1 DEF Digits
<1> QED BY <1>2, <1>3 DEF Digits, z

\* The same number is the same digits, up to zeros in front.
LEMMA SameNumberOrdered ==
    ASSUME NEW n \in Nat, NEW m \in Nat, m <= n, NEW b \in Nat \ {0},
           NEW ds \in Digits(n, b), NEW es \in Digits(m, b), Value(ds, n, b) = Value(es, m, b)
    PROVE  WithoutZeros(ds) = WithoutZeros(es)
<1> DEFINE k == n - m
           e == Padded(k, es, m)
<1>1. k \in Nat /\ k + m = n
    OBVIOUS
<1> HIDE DEF k
<1>2. b \in Nat /\ es \in [1..m -> Nat]
    BY DigitsNat
<1>3. e \in Digits(k + m, b)
    BY <1>1, PaddedDigits
<1>4. Value(e, k + m, b) = Value(es, m, b)
    BY <1>1, <1>2, ValuePadded
<1>5. WithoutZeros(e) = WithoutZeros(es)
    BY <1>1, <1>2, PaddedStripped
<1> HIDE DEF e
<1>6. e \in Digits(n, b) /\ Value(ds, n, b) = Value(e, n, b)
    BY <1>1, <1>3, <1>4
<1>7. ds = e
    BY <1>6, ValueUnique
<1> QED BY <1>5, <1>7

\* And of whichever length.
LEMMA SameNumber ==
    ASSUME NEW n \in Nat, NEW m \in Nat, NEW b \in Nat \ {0},
           NEW ds \in Digits(n, b), NEW es \in Digits(m, b), Value(ds, n, b) = Value(es, m, b)
    PROVE  WithoutZeros(ds) = WithoutZeros(es)
<1>1. m <= n \/ n <= m
    OBVIOUS
<1>2. m <= n => WithoutZeros(ds) = WithoutZeros(es)
    BY SameNumberOrdered
<1>3. n <= m => WithoutZeros(es) = WithoutZeros(ds)
    BY SameNumberOrdered
<1> QED BY <1>1, <1>2, <1>3

\* Digits in another base, with as many zeros before them.
Recoded(ds, from, to, width) ==
    Zeros(LeadingZeros(ds)) \o WithoutZeros(Rebase(ds, from, to, width))

\* e has the number and the zeros of the n digits ds.
Keeps(e, to, ds, n, from) ==
    \E m \in Nat : /\ e \in Digits(m, to) /\ Value(e, m, to) = Value(ds, n, from)
                   /\ LeadingZeros(e) = LeadingZeros(ds)

\* The number and the zeros are kept.
LEMMA RecodedKeeps ==
    ASSUME NEW n \in Nat, NEW width \in Nat, NEW from \in Nat \ {0}, NEW to \in Nat \ {0},
           NEW ds \in [1..n -> Nat], NEW p, Powers(p, width, to), Value(ds, n, from) < p[width],
           NEW e, e = Recoded(ds, from, to, width)
    PROVE  Keeps(e, to, ds, n, from)
<1> DEFINE z == LeadingZeros(ds)
           r == Rebase(ds, from, to, width)
           s == WithoutZeros(r)
           y == LeadingZeros(r)
           m == width - y
<1>0. to \in Nat
    OBVIOUS
<1>1. z \in Nat
    <2>1. z \in 0..n
        BY ZerosAndRest
    <2> QED BY <2>1
<1>2. r \in Digits(width, to) /\ Value(r, width, to) = Value(ds, n, from)
    BY RebaseValue
<1> HIDE DEF r, z
<1>3. r \in [1..width -> Nat]
    BY <1>2, DigitsNat
<1>4. /\ y \in 0..width /\ s \in [1..m -> Nat]
      /\ r = Padded(y, s, m) /\ LeadingZeros(s) = 0
    BY <1>3, ZerosAndRest
<1>5. s \in Digits(m, to)
    BY <1>0, <1>2, RestDigits
<1> HIDE DEF s, y
<1>6. m \in Nat /\ y \in Nat /\ y + m = width
    BY <1>4
<1> HIDE DEF m
<1>7. Value(s, m, to) = Value(ds, n, from)
    <2>1. Value(Padded(y, s, m), y + m, to) = Value(s, m, to)
        BY <1>0, <1>4, <1>6, ValuePadded
    <2> QED BY <1>2, <1>4, <1>6, <2>1
<1>8. e = Padded(z, s, m)
    <2>1. Zeros(z) \o s = Padded(z, s, m)
        BY <1>1, <1>4, <1>6, ZerosConcat
    <2> QED BY <2>1 DEF Recoded, z, s, r
<1>9. Padded(z, s, m) \in Digits(z + m, to)
    BY <1>1, <1>5, <1>6, PaddedDigits
<1>10. Value(Padded(z, s, m), z + m, to) = Value(s, m, to)
    BY <1>0, <1>1, <1>4, <1>6, ValuePadded
<1>11. LeadingZeros(Padded(z, s, m)) = z
    <2>1. LeadingZeros(Padded(z, s, m)) = z + LeadingZeros(s)
        BY <1>1, <1>4, <1>6, PaddedStripped
    <2> QED BY <1>1, <1>4, <2>1
<1>12. z + m \in Nat
    BY <1>1, <1>6
<1> QED BY <1>7, <1>8, <1>9, <1>10, <1>11, <1>12 DEF z, Keeps

\* Recoding the same number with the same zeros gives the digits back.
LEMMA RecodedBack ==
    ASSUME NEW n \in Nat, NEW m \in Nat, NEW width \in Nat, NEW from \in Nat \ {0},
           NEW to \in Nat \ {0}, NEW ds \in Digits(n, from), NEW es \in Digits(m, to),
           Value(es, m, to) = Value(ds, n, from), LeadingZeros(es) = LeadingZeros(ds),
           NEW p, Powers(p, width, from), Value(es, m, to) < p[width]
    PROVE  Recoded(es, to, from, width) = ds
<1> DEFINE r == Rebase(es, to, from, width)
           z == LeadingZeros(ds)
           s == WithoutZeros(ds)
           k == n - z
<1>1. es \in [1..m -> Nat]
    BY DigitsNat
<1>2. r \in Digits(width, from) /\ Value(r, width, from) = Value(es, m, to)
    BY <1>1, RebaseValue
<1> HIDE DEF r
<1>3. WithoutZeros(r) = s
    BY <1>2, SameNumber
<1>4. ds \in [1..n -> Nat]
    BY DigitsNat
<1>5. z \in 0..n /\ s \in [1..k -> Nat] /\ ds = Padded(z, s, k)
    BY <1>4, ZerosAndRest
<1> HIDE DEF z, s
<1>6. k \in Nat /\ z \in Nat
    BY <1>5
<1> HIDE DEF k
<1>7. Zeros(z) \o s = Padded(z, s, k)
    BY <1>5, <1>6, ZerosConcat
<1> QED BY <1>3, <1>5, <1>7 DEF Recoded, r, z

\* The powers of a greater base are greater.
LEMMA PowersGrow ==
    ASSUME NEW n \in Nat, NEW a \in Nat, NEW b \in Nat, a <= b,
           NEW p, Powers(p, n, a), NEW q, Powers(q, n, b)
    PROVE  \A k \in 0..n : p[k] <= q[k]
<1> DEFINE G == {k \in 0..n : p[k] <= q[k]}
<1>1. 0 \in G
    BY DEF Powers
<1>2. ASSUME NEW k \in 0..n, k < n, k \in G PROVE k + 1 \in G
    <2>1. k + 1 \in 1..n /\ k + 1 \in 0..n /\ (k + 1) - 1 = k
        BY <1>2
    <2> DEFINE v == p[k]
               w == q[k]
    <2>2. v \in Nat /\ w \in Nat /\ v <= w
        BY <1>2 DEF Powers
    <2>3. p[k + 1] = v * a /\ q[k + 1] = w * b
        BY <2>1 DEF Powers
    <2> HIDE DEF v, w
    <2>4. v * a <= w * b
        <3>1. PICK x \in Nat, y \in Nat : w = v + x /\ b = a + y
            <4>1. w - v \in Nat /\ b - a \in Nat /\ w = v + (w - v) /\ b = a + (b - a)
                BY <2>2
            <4> QED BY <4>1
        <3>2. (v + x) * (a + y) = v * a + v * y + x * (a + y)
            BY <2>2
        <3>3. v * a \in Nat /\ v * y \in Nat /\ x * (a + y) \in Nat
            BY <2>2
        <3> QED BY <3>1, <3>2, <3>3
    <2> QED BY <2>1, <2>3, <2>4
<1>3. \A k \in 0..n : k \in G
    <2> HIDE DEF G
    <2> QED BY <1>1, <1>2, StepByStep
<1> QED BY <1>3

\* The first powers of a number are powers.
LEMMA PowersUpto ==
    ASSUME NEW n \in Nat, NEW b \in Nat, NEW p, Powers(p, n, b), NEW m \in 0..n
    PROVE  \E q : Powers(q, m, b) /\ q[m] = p[m]
<1> DEFINE q == [k \in 0..m |-> p[k]]
<1>1. q \in [0..m -> Nat] /\ q[0] = 1 /\ q[m] = p[m]
    BY DEF Powers
<1>2. \A k \in 1..m : q[k] = q[k - 1] * b
    <2> TAKE k \in 1..m
    <2>1. k \in 1..n /\ k \in 0..m /\ k - 1 \in 0..m
        OBVIOUS
    <2> QED BY <2>1 DEF Powers
<1> HIDE DEF q
<1> QED BY <1>1, <1>2 DEF Powers

\* Three characters more than there are bytes are enough for eight bytes.
LEMMA RoomForBytes ==
    ASSUME NEW q, Powers(q, 8, 256), NEW p, Powers(p, 11, 58)
    PROVE  \A k \in 0..8 : q[k] <= p[k + 3]
<1>1. /\ q[0] = 1 /\ q[1] = q[0] * 256 /\ q[2] = q[1] * 256 /\ q[3] = q[2] * 256
      /\ q[4] = q[3] * 256 /\ q[5] = q[4] * 256 /\ q[6] = q[5] * 256 /\ q[7] = q[6] * 256
      /\ q[8] = q[7] * 256
    <2>1. q[0] = 1 /\ \A k \in 1..8 : q[k] = q[k - 1] * 256
        BY DEF Powers
    <2> QED BY <2>1
<1>2. /\ p[0] = 1 /\ p[1] = p[0] * 58 /\ p[2] = p[1] * 58 /\ p[3] = p[2] * 58
      /\ p[4] = p[3] * 58 /\ p[5] = p[4] * 58 /\ p[6] = p[5] * 58 /\ p[7] = p[6] * 58
      /\ p[8] = p[7] * 58 /\ p[9] = p[8] * 58 /\ p[10] = p[9] * 58 /\ p[11] = p[10] * 58
    <2>1. p[0] = 1 /\ \A k \in 1..11 : p[k] = p[k - 1] * 58
        BY DEF Powers
    <2> QED BY <2>1
<1>3. (\A k \in 0..8 : q[k] \in Nat) /\ (\A k \in 0..11 : p[k] \in Nat)
    BY DEF Powers
<1>4. /\ q[0] \in Nat /\ q[1] \in Nat /\ q[2] \in Nat /\ q[3] \in Nat /\ q[4] \in Nat
      /\ q[5] \in Nat /\ q[6] \in Nat /\ q[7] \in Nat /\ q[8] \in Nat
      /\ p[0] \in Nat /\ p[1] \in Nat /\ p[2] \in Nat /\ p[3] \in Nat /\ p[4] \in Nat
      /\ p[5] \in Nat /\ p[6] \in Nat /\ p[7] \in Nat /\ p[8] \in Nat /\ p[9] \in Nat
      /\ p[10] \in Nat /\ p[11] \in Nat
    BY <1>3
<1>5. /\ q[0] <= p[3] /\ q[1] <= p[4] /\ q[2] <= p[5] /\ q[3] <= p[6] /\ q[4] <= p[7]
      /\ q[5] <= p[8] /\ q[6] <= p[9] /\ q[7] <= p[10] /\ q[8] <= p[11]
    BY ONLY <1>1, <1>2, <1>4
<1> QED BY <1>5

-----------------------------------------------------------------------------
(* Ids: base58.                                                            *)

IDBytes == [1..8 -> 0..255]
IsBase58(chars) == \E n \in Nat : chars \in Digits(n, 58)

\* An ID's bytes as digits, and their number.
LEMMA NumberOfID ==
    ASSUME NEW id \in IDBytes, NEW p, Powers(p, 11, 58)
    PROVE  /\ id \in Digits(8, 256) /\ id \in [1..8 -> Nat]
           /\ Value(id, 8, 256) < p[11]
<1>1. id \in Digits(8, 256)
    BY DEF IDBytes, Digits
<1>2. id \in [1..8 -> Nat]
    BY <1>1, 8 \in Nat, 256 \in Nat, DigitsNat
<1>3. PICK q : Powers(q, 8, 256)
    BY 8 \in Nat, 256 \in Nat, PowersExist
<1>4. Value(id, 8, 256) < q[8]
    BY <1>1, <1>3, ValueBelow
<1>5. q[8] <= p[11]
    <2>1. q[8] <= p[8 + 3]
        BY <1>3, RoomForBytes
    <2> QED BY <2>1
<1>6. q[8] \in Nat /\ p[11] \in Nat /\ Value(id, 8, 256) \in Nat
    <2>1. q[8] \in Nat /\ p[11] \in Nat
        BY <1>3 DEF Powers
    <2>2. PICK f : PrefixValues(f, id, 8, 256)
        BY <1>2, 8 \in Nat, 256 \in Nat, PrefixValuesExist
    <2>3. Value(id, 8, 256) \in Nat
        BY <2>2, 8 \in Nat, 256 \in Nat, ValueIs
    <2> QED BY <2>1, <2>3
<1> QED BY <1>1, <1>2, <1>4, <1>5, <1>6

\* base58 encodes an ID as characters that have its number and its zeros.
LEMMA EncodeKeeps ==
    ASSUME NEW id \in IDBytes
    PROVE  Keeps(Base58Encode(id), 58, id, 8, 256)
<1>1. PICK p : Powers(p, 11, 58)
    BY 11 \in Nat, 58 \in Nat, PowersExist
<1> DEFINE e == Base58Encode(id)
<1>2. e = Recoded(id, 256, 58, 11)
    BY DEF Base58Encode, Recoded
<1> HIDE DEF e
<1>3. id \in [1..8 -> Nat] /\ Value(id, 8, 256) < p[11]
    BY <1>1, NumberOfID
<1>4. 8 \in Nat /\ 11 \in Nat /\ 256 \in Nat \ {0} /\ 58 \in Nat \ {0}
    OBVIOUS
<1>5. Keeps(e, 58, id, 8, 256)
    BY ONLY <1>1, <1>2, <1>3, <1>4, RecodedKeeps
<1> QED BY <1>5 DEF e

\* Characters as digits: there is room for their number in as many bytes.
LEMMA NumberOfName ==
    ASSUME NEW n \in Nat, NEW chars \in Digits(n, 58)
    PROVE  /\ chars \in [1..n -> Nat] /\ Len(chars) = n
           /\ \E p : Powers(p, n, 256) /\ Value(chars, n, 58) < p[n]
<1>1. chars \in [1..n -> Nat]
    BY DigitsNat
<1>2. PICK p : Powers(p, n, 256)
    BY PowersExist
<1>3. PICK q : Powers(q, n, 58)
    BY PowersExist
<1>4. Value(chars, n, 58) < q[n]
    BY <1>3, ValueBelow
<1>5. q[n] <= p[n]
    BY <1>2, <1>3, PowersGrow
<1>6. q[n] \in Nat /\ p[n] \in Nat /\ Value(chars, n, 58) \in Nat
    <2>1. q[n] \in Nat /\ p[n] \in Nat
        BY <1>2, <1>3 DEF Powers
    <2>2. PICK f : PrefixValues(f, chars, n, 58)
        BY <1>1, PrefixValuesExist
    <2> QED BY <2>1, <2>2, ValueIs
<1>7. Len(chars) = n
    BY <1>1, FunctionSeq
<1> QED BY <1>1, <1>2, <1>4, <1>5, <1>6, <1>7

\* base58 decodes what it encoded an ID as.
LEMMA DecodeEncoded ==
    ASSUME NEW id \in IDBytes
    PROVE  Base58Decode(Base58Encode(id)) = id /\ IsBase58(Base58Encode(id))
<1> DEFINE e == Base58Encode(id)
<1> HIDE DEF e
<1>1. PICK m \in Nat : /\ e \in Digits(m, 58) /\ Value(e, m, 58) = Value(id, 8, 256)
                       /\ LeadingZeros(e) = LeadingZeros(id)
    BY EncodeKeeps DEF Keeps, e
<1>2. PICK p : Powers(p, m, 256) /\ Value(e, m, 58) < p[m]
    BY <1>1, NumberOfName
<1>3. Len(e) = m
    BY <1>1, NumberOfName
<1>4. Base58Decode(e) = Recoded(e, 58, 256, m)
    BY <1>3 DEF Base58Decode, Recoded
<1>5. 8 \in Nat /\ 256 \in Nat \ {0} /\ 58 \in Nat \ {0} /\ id \in Digits(8, 256)
    BY DEF IDBytes, Digits
<1>6. Recoded(e, 58, 256, m) = id
    BY ONLY <1>1, <1>2, <1>5, RecodedBack
<1> QED BY <1>1, <1>4, <1>6 DEF e, IsBase58

\* What decodes to eight bytes is what they are encoded as.
LEMMA EncodeDecoded ==
    ASSUME NEW n \in Nat, NEW chars \in Digits(n, 58), Len(Base58Decode(chars)) = 8
    PROVE  /\ Base58Decode(chars) \in IDBytes
           /\ Base58Encode(Base58Decode(chars)) = chars
<1> DEFINE id == Base58Decode(chars)
<1>1. PICK q : Powers(q, n, 256) /\ Value(chars, n, 58) < q[n]
    BY NumberOfName
<1>2. chars \in [1..n -> Nat] /\ Len(chars) = n
    BY NumberOfName
<1>3. id = Recoded(chars, 58, 256, n)
    BY <1>2 DEF Base58Decode, Recoded
<1>4. Len(id) = 8
    OBVIOUS
<1> HIDE DEF id
<1>5. 8 \in Nat /\ 11 \in Nat /\ 256 \in Nat \ {0} /\ 58 \in Nat \ {0} /\ n \in Nat
    OBVIOUS
<1>6. PICK m \in Nat : /\ id \in Digits(m, 256) /\ Value(id, m, 256) = Value(chars, n, 58)
                       /\ LeadingZeros(id) = LeadingZeros(chars)
    <2>1. Keeps(id, 256, chars, n, 58)
        BY ONLY <1>1, <1>2, <1>3, <1>5, RecodedKeeps
    <2> QED BY <2>1 DEF Keeps
<1>7. m = 8
    <2>1. id \in [1..m -> Nat]
        BY <1>5, <1>6, DigitsNat
    <2>2. Len(id) = m
        BY <2>1, FunctionSeq
    <2> QED BY <1>4, <2>2
<1>8. id \in IDBytes /\ id \in Digits(8, 256)
    BY <1>6, <1>7 DEF Digits, IDBytes
<1>9. PICK p : Powers(p, 11, 58)
    BY <1>5, PowersExist
<1>10. Value(id, 8, 256) < p[11]
    BY <1>8, <1>9, NumberOfID
<1>11. Value(id, 8, 256) = Value(chars, n, 58) /\ LeadingZeros(id) = LeadingZeros(chars)
    BY <1>6, <1>7
<1>12. chars \in Digits(n, 58)
    OBVIOUS
<1>13. Recoded(id, 256, 58, 11) = chars
    BY ONLY <1>5, <1>8, <1>9, <1>10, <1>11, <1>12, RecodedBack
<1> QED BY <1>8, <1>13 DEF Base58Encode, Recoded, id

\* An ID with z leading zero bytes takes at most 11 - z characters after its z zeros.
LEMMA EncodedLength ==
    ASSUME NEW id \in IDBytes
    PROVE  Len(Base58Encode(id)) <= 11
<1> DEFINE z == LeadingZeros(id)
           y == WithoutZeros(id)
           k == 8 - z
           w == k + 3
           r == Rebase(id, 256, 58, 11)
           t == Rebase(y, 256, 58, w)
<1>0. /\ 8 \in Nat /\ 11 \in Nat /\ 256 \in Nat \ {0} /\ 58 \in Nat \ {0}
      /\ 256 \in Nat /\ 58 \in Nat
    OBVIOUS
<1>1. PICK q : Powers(q, 8, 256)
    BY <1>0, PowersExist
<1>2. PICK p : Powers(p, 11, 58)
    BY <1>0, PowersExist
<1>3. /\ id \in Digits(8, 256) /\ id \in [1..8 -> Nat]
      /\ Value(id, 8, 256) < p[11]
    BY <1>2, NumberOfID
<1>4. /\ z \in 0..8 /\ y \in [1..k -> Nat] /\ id = Padded(z, y, k)
    BY <1>0, <1>3, ZerosAndRest
<1>5. y \in Digits(k, 256)
    BY <1>0, <1>3, RestDigits
<1>6. r \in Digits(11, 58) /\ Value(r, 11, 58) = Value(id, 8, 256)
    <2> DEFINE n == 8
    <2>1. n \in Nat /\ id \in [1..n -> Nat] /\ Value(id, n, 256) < p[11]
        BY <1>3
    <2> HIDE DEF n
    <2>2. r \in Digits(11, 58) /\ Value(r, 11, 58) = Value(id, n, 256)
        BY ONLY <1>0, <1>2, <2>1, RebaseValue
    <2> QED BY <2>2 DEF n
<1>7. Base58Encode(id) = Zeros(z) \o WithoutZeros(r)
    BY DEF Base58Encode
<1> HIDE DEF z, y, r
<1>8. k \in Nat /\ k \in 0..8 /\ z \in Nat /\ z + k = 8 /\ w \in Nat /\ w \in 0..11
    BY <1>4
<1>9. k + 3 = w /\ z + w = 11
    BY <1>4
<1> HIDE DEF k
<1>10. Value(y, k, 256) = Value(id, 8, 256)
    <2>1. Value(Padded(z, y, k), z + k, 256) = Value(y, k, 256)
        BY <1>0, <1>4, <1>8, ValuePadded
    <2> QED BY <1>4, <1>8, <2>1
<1> HIDE DEF w
<1>11. PICK c : Powers(c, k, 256) /\ c[k] = q[k]
    BY <1>0, <1>1, <1>8, PowersUpto
<1>12. PICK d : Powers(d, w, 58) /\ d[w] = p[w]
    BY <1>0, <1>2, <1>8, PowersUpto
<1>13. Value(y, k, 256) < d[w]
    <2>1. Value(y, k, 256) < c[k]
        BY <1>0, <1>5, <1>8, <1>11, ValueBelow
    <2>2. q[k] <= p[w]
        BY <1>1, <1>2, <1>8, <1>9, RoomForBytes
    <2>3. q[k] \in Nat /\ p[w] \in Nat
        BY <1>1, <1>2, <1>8 DEF Powers
    <2>4. Value(y, k, 256) \in Nat
        <3>1. PICK f : PrefixValues(f, y, k, 256)
            BY <1>0, <1>4, <1>8, PrefixValuesExist
        <3> QED BY <1>0, <1>8, <3>1, ValueIs
    <2> QED BY <1>11, <1>12, <2>1, <2>2, <2>3, <2>4
<1>14. t \in Digits(w, 58) /\ Value(t, w, 58) = Value(y, k, 256)
    <2>1. /\ k \in Nat /\ w \in Nat /\ 256 \in Nat \ {0} /\ 58 \in Nat \ {0}
          /\ y \in [1..k -> Nat] /\ Powers(d, w, 58)
        BY <1>0, <1>4, <1>8, <1>12
    <2> QED BY ONLY <1>13, <2>1, RebaseValue
<1> HIDE DEF t
<1>15. WithoutZeros(r) = WithoutZeros(t)
    <2>1. Value(r, 11, 58) = Value(t, w, 58)
        BY <1>6, <1>10, <1>14
    <2> QED BY ONLY <1>0, <1>6, <1>8, <1>14, <2>1, SameNumber
<1>16. t \in [1..w -> Nat]
    BY <1>0, <1>8, <1>14, DigitsNat
<1> DEFINE u == LeadingZeros(t)
           l == w - u
           s == WithoutZeros(t)
<1>17. u \in 0..w /\ s \in [1..l -> Nat]
    BY <1>8, <1>16, ZerosAndRest
<1> HIDE DEF u, s
<1>18. l \in Nat /\ l <= w
    BY <1>8, <1>17
<1> HIDE DEF l
<1>19. Zeros(z) \o s = Padded(z, s, l)
    BY <1>8, <1>17, <1>18, ZerosConcat
<1>20. Padded(z, s, l) \in [1..z + l -> Nat]
    <2>1. z \in Nat /\ l \in Nat /\ 58 \in Nat
        BY <1>8, <1>18
    <2>2. s \in [1..l -> Nat]
        BY <1>17 DEF l
    <2> QED BY ONLY <2>1, <2>2, ValuePadded
<1> DEFINE e == Padded(z, s, l)
           h == z + l
<1>21. e \in [1..h -> Nat] /\ h \in Nat /\ h <= 11
    BY <1>8, <1>9, <1>18, <1>20
<1>22. Base58Encode(id) = e
    BY <1>7, <1>15, <1>19 DEF s
<1> HIDE DEF e, h
<1>23. Len(e) = h
    BY <1>21, FunctionSeq
<1> QED BY <1>21, <1>22, <1>23

-----------------------------------------------------------------------------
(* Ids: the digits.                                                        *)

\* The last n digits, by their places.
Ending(digits, n) ==
    [i \in 1..n |-> IF i + Len(digits) > n THEN digits[i + Len(digits) - n] ELSE 0]

\* Zeros are zeros.
LEMMA ZerosSeq ==
    ASSUME NEW n \in Nat
    PROVE  Zeros(n) \in Seq(Nat) /\ Len(Zeros(n)) = n /\ \A i \in 1..n : Zeros(n)[i] = 0
BY DEF Zeros

\* Digits after enough zeros, by their places.
LEMMA PaddedEnding ==
    ASSUME NEW digits \in Seq(Nat), NEW n \in Nat
    PROVE  SubSeq(Zeros(n) \o digits, Len(digits) + 1, Len(digits) + n) = Ending(digits, n)
<1> DEFINE s == Zeros(n) \o digits
           m == Len(digits)
<1>0. m \in Nat
    BY LenProperties
<1>1. /\ s \in Seq(Nat) /\ Len(s) = n + m
      /\ \A i \in 1..n + m : s[i] = IF i <= n THEN 0 ELSE digits[i - n]
    <2>1. Zeros(n) \in Seq(Nat) /\ Len(Zeros(n)) = n /\ \A i \in 1..n : Zeros(n)[i] = 0
        BY ZerosSeq
    <2>2. /\ s \in Seq(Nat) /\ Len(s) = Len(Zeros(n)) + m
          /\ \A i \in 1..Len(Zeros(n)) + m :
                s[i] = IF i <= Len(Zeros(n)) THEN Zeros(n)[i] ELSE digits[i - Len(Zeros(n))]
        BY <2>1, ConcatProperties
    <2> HIDE DEF s, m
    <2> QED BY <1>0, <2>1, <2>2
<1> HIDE DEF s, m
<1>2. SubSeq(s, m + 1, m + n) = [i \in 1..n |-> s[m + i]]
    BY <1>0, <1>1
<1>3. ASSUME NEW i \in 1..n PROVE s[m + i] = IF i + m > n THEN digits[i + m - n] ELSE 0
    BY <1>0, <1>1
<1> QED BY <1>2, <1>3 DEF s, m, Ending

\* What LastDigits is.
LEMMA LastDigitsEnding ==
    ASSUME NEW digits \in Seq(Nat), NEW n \in Nat
    PROVE  LastDigits(digits, n) = Ending(digits, n)
BY PaddedEnding DEF LastDigits

\* Sixteen digits.
HexWord == [1..16 -> 0..15]

\* Eight bytes of two digits each.
LEMMA BytesOfDigits ==
    ASSUME NEW d \in HexWord
    PROVE  /\ HexBytes(d) \in [1..8 -> 0..255]
           /\ \A i \in 1..8 : HexBytes(d)[i] = 16 * d[2 * i - 1] + d[2 * i]
<1>1. Len(d) = 16
    BY DEF HexWord
<1>2. HexBytes(d) = [i \in 1..8 |-> 16 * d[2 * i - 1] + d[2 * i]]
    BY <1>1 DEF HexBytes
<1>3. ASSUME NEW i \in 1..8 PROVE d[2 * i - 1] \in 0..15 /\ d[2 * i] \in 0..15
    BY DEF HexWord
<1> QED BY <1>2, <1>3

\* The digits of a byte.
LEMMA DigitsOfByte ==
    ASSUME NEW a \in 0..15, NEW b \in 0..15
    PROVE  (16 * a + b) \div 16 = a /\ (16 * a + b) % 16 = b
OBVIOUS

\* Digits become bytes and digits again.
LEMMA HexRoundTrip ==
    ASSUME NEW d \in HexWord
    PROVE  HexDigits(HexBytes(d)) = d
<1> DEFINE id == HexBytes(d)
<1>1. id \in [1..8 -> 0..255] /\ Len(id) = 8
    BY BytesOfDigits
<1>2. \A i \in 1..8 : id[i] \div 16 = d[2 * i - 1] /\ id[i] % 16 = d[2 * i]
    <2> TAKE i \in 1..8
    <2>1. id[i] = 16 * d[2 * i - 1] + d[2 * i] /\ d[2 * i - 1] \in 0..15 /\ d[2 * i] \in 0..15
        BY BytesOfDigits DEF HexWord
    <2> HIDE DEF id
    <2> QED BY <2>1, DigitsOfByte
<1> HIDE DEF id
<1>3. ASSUME NEW i \in 1..16
      PROVE  (IF i % 2 = 1 THEN id[(i + 1) \div 2] \div 16 ELSE id[i \div 2] % 16) = d[i]
    <2>1. CASE i % 2 = 1
        <3>1. (i + 1) \div 2 \in 1..8 /\ 2 * ((i + 1) \div 2) - 1 = i
            BY <2>1
        <3> QED BY <1>2, <2>1, <3>1
    <2>2. CASE i % 2 # 1
        <3>1. i \div 2 \in 1..8 /\ 2 * (i \div 2) = i
            BY <2>2
        <3> QED BY <1>2, <2>2, <3>1
    <2> QED BY <2>1, <2>2
<1>4. HexDigits(id) = [i \in 1..16 |-> d[i]]
    BY <1>1, <1>3 DEF HexDigits
<1> QED BY <1>4 DEF id, HexWord

\* The digits of the last bytes are the last digits.
LEMMA HexOfSuffix ==
    ASSUME NEW id \in [1..8 -> 0..255], NEW m \in 0..7
    PROVE  HexDigits(SubSeq(id, m + 1, 8)) = [i \in 1..16 - 2 * m |-> HexDigits(id)[2 * m + i]]
<1> DEFINE rest == SubSeq(id, m + 1, 8)
<1>1. rest = [i \in 1..8 - m |-> id[m + i]] /\ Len(rest) = 8 - m
    OBVIOUS
<1>2. Len(id) = 8
    OBVIOUS
<1> HIDE DEF rest
<1>3. ASSUME NEW i \in 1..16 - 2 * m
      PROVE  (IF i % 2 = 1 THEN rest[(i + 1) \div 2] \div 16 ELSE rest[i \div 2] % 16)
             = HexDigits(id)[2 * m + i]
    <2>1. 2 * m + i \in 1..16 /\ ((2 * m + i) % 2 = 1 <=> i % 2 = 1)
          /\ (2 * m + i + 1) \div 2 = m + ((i + 1) \div 2) /\ (2 * m + i) \div 2 = m + (i \div 2)
        OBVIOUS
    <2>2. HexDigits(id)[2 * m + i] =
            IF (2 * m + i) % 2 = 1 THEN id[(2 * m + i + 1) \div 2] \div 16
            ELSE id[(2 * m + i) \div 2] % 16
        BY <1>2, <2>1 DEF HexDigits
    <2>3. CASE i % 2 = 1
        <3>1. (i + 1) \div 2 \in 1..8 - m
            BY <2>3
        <3> QED BY <1>1, <2>1, <2>2, <2>3, <3>1
    <2>4. CASE i % 2 # 1
        <3>1. i \div 2 \in 1..8 - m
            BY <2>4
        <3> QED BY <1>1, <2>1, <2>2, <2>4, <3>1
    <2> QED BY <2>3, <2>4
<1>4. 2 * Len(rest) = 16 - 2 * m
    BY <1>1
<1> QED BY <1>3, <1>4 DEF HexDigits, rest

\* How the sixteen digits of an ID are placed in a spelling of 8 or 17.
LEMMA SpellingPlaces ==
    ASSUME NEW L \in {8, 17}, NEW digits \in [1..L -> Nat], NEW D \in [1..16 -> Nat],
           L = 17 => digits[1] = 0,
           \A i \in 1..16 : D[i] = IF i + L > 16 THEN digits[i + L - 16] ELSE 0
    PROVE  /\ \A i \in 1..17 : (IF i + 16 > 17 THEN D[i + 16 - 17] ELSE 0)
                                = IF i + L > 17 THEN digits[i + L - 17] ELSE 0
           /\ \A i \in 1..10 : D[6 + i] = IF i + L > 10 THEN digits[i + L - 10] ELSE 0
           /\ L = 8 => \A i \in 1..8 : D[i] = 0 /\ D[8 + i] = digits[i]
           /\ L = 17 => \A i \in 1..17 : digits[i] = IF i = 1 THEN 0 ELSE D[i - 1]
<1>1. CASE L = 8
    <2>1. ASSUME NEW i \in 1..17
          PROVE  (IF i + 16 > 17 THEN D[i + 16 - 17] ELSE 0)
                 = IF i + L > 17 THEN digits[i + L - 17] ELSE 0
        <3>1. CASE i = 1
            BY <1>1, <3>1
        <3>2. CASE i > 1
            <4>1. i - 1 \in 1..16 /\ i + 16 - 17 = i - 1 /\ i + L - 17 = (i - 1) + L - 16
                BY <1>1, <3>2
            <4> QED BY <1>1, <3>2, <4>1
        <3> QED BY <3>1, <3>2
    <2>2. ASSUME NEW i \in 1..10
          PROVE  D[6 + i] = IF i + L > 10 THEN digits[i + L - 10] ELSE 0
        <3>1. 6 + i \in 1..16 /\ 6 + i + L - 16 = i + L - 10
            BY <1>1
        <3> QED BY <1>1, <3>1
    <2>3. \A i \in 1..8 : D[i] = 0 /\ D[8 + i] = digits[i]
        BY <1>1
    <2> QED BY <1>1, <2>1, <2>2, <2>3
<1>2. CASE L = 17
    <2>1. ASSUME NEW i \in 2..17
          PROVE  D[i - 1] = digits[i]
        <3>1. i - 1 \in 1..16 /\ i - 1 + L - 16 = i
            BY <1>2
        <3> QED BY <1>2, <3>1
    <2>2. ASSUME NEW i \in 1..17
          PROVE  (IF i + 16 > 17 THEN D[i + 16 - 17] ELSE 0)
                 = IF i + L > 17 THEN digits[i + L - 17] ELSE 0
        BY <1>2, <2>1
    <2>3. ASSUME NEW i \in 1..10
          PROVE  D[6 + i] = IF i + L > 10 THEN digits[i + L - 10] ELSE 0
        <3>1. 7 + i \in 2..17 /\ 7 + i - 1 = 6 + i /\ i + L - 10 = 7 + i
            BY <1>2
        <3> QED BY <1>2, <2>1, <3>1
    <2> QED BY <1>2, <2>1, <2>2, <2>3
<1> QED BY <1>1, <1>2

\* A sequence behind one more element.
LEMMA PrefixedTail ==
    ASSUME NEW n \in Nat, NEW s \in [1..n -> Nat], NEW a \in Nat
    PROVE  /\ Tail(<<a>> \o s) = s
           /\ <<a>> \o s = [i \in 1..n + 1 |-> IF i = 1 THEN a ELSE s[i - 1]]
<1>1. s \in Seq(Nat) /\ Len(s) = n /\ <<a>> \in Seq(Nat) /\ Len(<<a>>) = 1 /\ <<a>>[1] = a
    OBVIOUS
<1> DEFINE t == <<a>> \o s
<1>2. /\ t \in Seq(Nat) /\ Len(t) = n + 1
      /\ \A i \in 1..n + 1 : t[i] = IF i = 1 THEN a ELSE s[i - 1]
    <2>1. /\ t \in Seq(Nat) /\ Len(t) = Len(<<a>>) + Len(s)
          /\ \A i \in 1..Len(<<a>>) + Len(s) :
                t[i] = IF i <= Len(<<a>>) THEN <<a>>[i] ELSE s[i - Len(<<a>>)]
        BY <1>1, ConcatProperties
    <2> HIDE DEF t
    <2> QED BY <1>1, <2>1
<1> HIDE DEF t
<1>3. Tail(t) = s
    <2>1. /\ Tail(t) \in Seq(Nat) /\ Len(Tail(t)) = n
          /\ \A i \in 1..n : Tail(t)[i] = t[i + 1]
        <3>1. t # <<>>
            BY <1>2
        <3> QED BY <1>2, <3>1, HeadTailProperties
    <2> DEFINE r == Tail(t)
    <2>2. r \in Seq(Nat) /\ Len(r) = n
        BY <2>1
    <2>3. \A i \in 1..n : r[i] = s[i]
        BY <1>2, <2>1
    <2> HIDE DEF r
    <2>4. r = [i \in 1..n |-> r[i]]
        BY <2>2
    <2>5. s = [i \in 1..n |-> s[i]]
        OBVIOUS
    <2> QED BY <2>3, <2>4, <2>5 DEF r
<1>5. t = [i \in 1..n + 1 |-> t[i]]
    BY <1>2
<1> QED BY <1>2, <1>3, <1>5 DEF t

\* The digits of a word are natural numbers.
LEMMA WordSeq ==
    ASSUME NEW D \in HexWord
    PROVE  D \in [1..16 -> Nat] /\ D \in Seq(Nat) /\ Len(D) = 16
<1>1. \A i \in 1..16 : D[i] \in 0..15
    BY DEF HexWord
<1>2. D = [i \in 1..16 |-> D[i]]
    BY DEF HexWord
<1>3. D \in [1..16 -> Nat]
    BY <1>1, <1>2
<1> QED BY ONLY <1>3, FunctionSeq, 16 \in Nat

\* The lower bytes of an ID.
LEMMA LowBytes ==
    ASSUME NEW id \in [1..8 -> 0..255]
    PROVE  SubSeq(id, 4, 8) \in [1..5 -> Nat]
<1>1. SubSeq(id, 4, 8) = [i \in 1..5 |-> id[3 + i]]
    OBVIOUS
<1>2. ASSUME NEW i \in 1..5 PROVE id[3 + i] \in Nat
    <2>1. 3 + i \in 1..8
        OBVIOUS
    <2>2. id[3 + i] \in 0..255
        BY <2>1
    <2> QED BY <2>2
<1> QED BY <1>1, <1>2

\* A number below 16 is a digit.
LEMMA HexDigit == \A d \in Nat : d < 16 => d \in 0..15
OBVIOUS

\* What a spelling that parses is made of, and the ID it stands for.
LEMMA ParsedID ==
    ASSUME NEW digits \in Seq(Nat), ParseVPCEID(digits) # NoID
    PROVE  /\ Len(digits) \in {8, 17} /\ (Len(digits) = 17 => digits[1] = 0)
           /\ Ending(digits, 16) \in HexWord
           /\ ParseVPCEID(digits) = HexBytes(Ending(digits, 16))
<1> DEFINE D == Ending(digits, 16)
<1>1. Len(digits) \in {8, 17} /\ ParsesAsUint64(digits)
    BY DEF ParseVPCEID
<1>2. ParseVPCEID(digits) = HexBytes(D)
    <2>1. SubSeq(Zeros(16) \o digits, Len(digits) + 1, Len(digits) + 16) = D
        BY PaddedEnding
    <2> QED BY <1>1, <2>1 DEF ParseVPCEID
<1>3. Len(digits) = 17 => digits[1] = 0
    BY <1>1 DEF ParsesAsUint64
<1>4. ASSUME NEW i \in DOMAIN digits PROVE digits[i] \in 0..15
    <2>1. digits[i] \in Nat
        OBVIOUS
    <2>2. digits[i] < 16
        BY <1>1, Zenon DEF ParsesAsUint64
    <2> QED BY <2>1, <2>2, HexDigit, Zenon
<1>5. D \in HexWord
    <2>1. ASSUME NEW i \in 1..16
          PROVE  (IF i + Len(digits) > 16 THEN digits[i + Len(digits) - 16] ELSE 0) \in 0..15
        <3>1. CASE i + Len(digits) > 16
            <4>1. i + Len(digits) - 16 \in DOMAIN digits
                BY <1>1, <3>1
            <4> QED BY <1>4, <3>1, <4>1
        <3>2. CASE ~(i + Len(digits) > 16)
            BY <3>2
        <3> QED BY <3>1, <3>2
    <2> QED BY <2>1 DEF Ending, HexWord
<1> QED BY <1>1, <1>2, <1>3, <1>5

\* The ID has the digits that were typed, and its names and addresses have them.
LEMMA DigitsOfParsed ==
    \A digits \in Seq(Nat) : ParseVPCEID(digits) # NoID =>
        LET id == ParseVPCEID(digits) IN
        /\ LastDigits(HexDigits(id), 17) = LastDigits(digits, 17)
        /\ (Len(digits) = 8 \/ \E i \in 1..9 : digits[i] # 0) => FormatVPCEID(id) = digits
        /\ \A end \in BOOLEAN :
            HexDigits(Tail(FormatInterfaceMAC(id, end))) = LastDigits(digits, 10)
<1>0. SUFFICES ASSUME NEW digits, digits \in Seq(Nat), NEW id, id = ParseVPCEID(digits), id # NoID
      PROVE  /\ LastDigits(HexDigits(id), 17) = LastDigits(digits, 17)
             /\ (Len(digits) = 8 \/ \E i \in 1..9 : digits[i] # 0) => FormatVPCEID(id) = digits
             /\ \A end \in BOOLEAN :
                    HexDigits(Tail(FormatInterfaceMAC(id, end))) = LastDigits(digits, 10)
    OBVIOUS
<1> DEFINE D == Ending(digits, 16)
           L == Len(digits)
<1>1. L \in {8, 17} /\ (L = 17 => digits[1] = 0) /\ D \in HexWord /\ id = HexBytes(D)
    BY <1>0, ParsedID
<1>2. digits \in [1..L -> Nat]
    BY <1>0
<1>3. \A i \in 1..16 : D[i] = IF i + L > 16 THEN digits[i + L - 16] ELSE 0
    BY DEF Ending
<1>4. \A n \in Nat :
        LastDigits(digits, n) = [i \in 1..n |-> IF i + L > n THEN digits[i + L - n] ELSE 0]
    BY <1>0, LastDigitsEnding DEF Ending
<1> HIDE DEF D, L
<1>5. D \in [1..16 -> Nat] /\ D \in Seq(Nat) /\ Len(D) = 16
    BY <1>1, WordSeq
<1>6. HexDigits(id) = D /\ id \in [1..8 -> 0..255]
    BY <1>1, HexRoundTrip, BytesOfDigits
<1>7. \A i \in 1..8 : id[i] = 16 * D[2 * i - 1] + D[2 * i]
    BY <1>1, BytesOfDigits
<1>8. /\ \A i \in 1..17 : (IF i + 16 > 17 THEN D[i + 16 - 17] ELSE 0)
                          = IF i + L > 17 THEN digits[i + L - 17] ELSE 0
      /\ \A i \in 1..10 : D[6 + i] = IF i + L > 10 THEN digits[i + L - 10] ELSE 0
      /\ L = 8 => \A i \in 1..8 : D[i] = 0 /\ D[8 + i] = digits[i]
      /\ L = 17 => \A i \in 1..17 : digits[i] = IF i = 1 THEN 0 ELSE D[i - 1]
    BY <1>1, <1>2, <1>3, <1>5, SpellingPlaces
<1>9. LastDigits(HexDigits(id), 17) = LastDigits(digits, 17)
    <2>1. LastDigits(D, 17) = [i \in 1..17 |-> IF i + 16 > 17 THEN D[i + 16 - 17] ELSE 0]
        <3>1. LastDigits(D, 17) = Ending(D, 17)
            BY <1>5, LastDigitsEnding
        <3>2. Ending(D, 17) = [i \in 1..17 |-> IF i + Len(D) > 17 THEN D[i + Len(D) - 17] ELSE 0]
            BY DEF Ending
        <3> QED BY <1>5, <3>1, <3>2
    <2>2. LastDigits(digits, 17) = [i \in 1..17 |-> IF i + L > 17 THEN digits[i + L - 17] ELSE 0]
        BY <1>4
    <2> QED BY <1>6, <1>8, <2>1, <2>2
<1>10. HexDigits(SubSeq(id, 5, 8)) = [i \in 1..8 |-> HexDigits(id)[8 + i]]
    <2>1. HexDigits(SubSeq(id, 4 + 1, 8)) = [i \in 1..16 - 2 * 4 |-> HexDigits(id)[2 * 4 + i]]
        BY ONLY <1>6, HexOfSuffix, 4 \in 0..7
    <2>2. 4 + 1 = 5 /\ 16 - 2 * 4 = 8 /\ 2 * 4 = 8
        OBVIOUS
    <2> QED BY ONLY <2>1, <2>2
<1>11. HexDigits(SubSeq(id, 4, 8)) = [i \in 1..10 |-> HexDigits(id)[6 + i]]
    <2>1. HexDigits(SubSeq(id, 3 + 1, 8)) = [i \in 1..16 - 2 * 3 |-> HexDigits(id)[2 * 3 + i]]
        BY ONLY <1>6, HexOfSuffix, 3 \in 0..7
    <2>2. 3 + 1 = 4 /\ 16 - 2 * 3 = 10 /\ 2 * 3 = 6
        OBVIOUS
    <2> QED BY ONLY <2>1, <2>2
<1>12. ASSUME L = 8 PROVE FormatVPCEID(id) = digits
    <2>1. \A i \in 1..8 : D[i] = 0 /\ D[8 + i] = digits[i]
        BY <1>8, <1>12
    <2>2. FitsIn32Bits(id)
        <3>1. ASSUME NEW i \in 1..4 PROVE id[i] = 0
            <4>1. 2 * i - 1 \in 1..8 /\ 2 * i \in 1..8 /\ i \in 1..8
                OBVIOUS
            <4>2. D[2 * i - 1] = 0 /\ D[2 * i] = 0 /\ id[i] = 16 * D[2 * i - 1] + D[2 * i]
                BY <1>7, <2>1, <4>1
            <4> QED BY <4>2
        <3> QED BY <3>1 DEF FitsIn32Bits
    <2>3. FormatVPCEID(id) = [i \in 1..8 |-> D[8 + i]]
        BY <1>6, <1>10, <2>2 DEF FormatVPCEID
    <2>4. digits = [i \in 1..8 |-> digits[i]]
        BY <1>2, <1>12
    <2> QED BY <2>1, <2>3, <2>4
<1>13. ASSUME L = 17, NEW i \in 1..9, digits[i] # 0 PROVE FormatVPCEID(id) = digits
    <2>1. \A k \in 1..17 : digits[k] = IF k = 1 THEN 0 ELSE D[k - 1]
        BY <1>8, <1>13
    <2>2. i \in 2..9 /\ D[i - 1] # 0
        BY <1>13, <2>1
    <2>3. ~FitsIn32Bits(id)
        <3>1. \E j \in 1..4 : i - 1 = 2 * j - 1 \/ i - 1 = 2 * j
            BY <2>2
        <3>2. PICK j \in 1..4 : i - 1 = 2 * j - 1 \/ i - 1 = 2 * j
            BY <3>1
        <3>3. 2 * j - 1 \in 1..16 /\ 2 * j \in 1..16 /\ j \in 1..8
            OBVIOUS
        <3>4. id[j] = 16 * D[2 * j - 1] + D[2 * j] /\ D[2 * j - 1] \in Nat /\ D[2 * j] \in Nat
            BY <1>5, <1>7, <3>3
        <3>5. D[2 * j - 1] # 0 \/ D[2 * j] # 0
            BY <2>2, <3>2
        <3>6. id[j] # 0
            BY <3>4, <3>5
        <3> QED BY <3>6 DEF FitsIn32Bits
    <2>4. FormatVPCEID(id) = <<0>> \o D
        BY <1>6, <2>3 DEF FormatVPCEID
    <2>5. <<0>> \o D = [k \in 1..17 |-> IF k = 1 THEN 0 ELSE D[k - 1]]
        <3>1. <<0>> \o D = [k \in 1..16 + 1 |-> IF k = 1 THEN 0 ELSE D[k - 1]]
            BY ONLY <1>5, PrefixedTail, 16 \in Nat, 0 \in Nat
        <3>2. 16 + 1 = 17
            OBVIOUS
        <3> QED BY ONLY <3>1, <3>2
    <2>6. digits = [k \in 1..17 |-> digits[k]]
        BY <1>2, <1>13
    <2> QED BY <2>1, <2>4, <2>5, <2>6
<1>14. ASSUME NEW end \in BOOLEAN
       PROVE  HexDigits(Tail(FormatInterfaceMAC(id, end))) = LastDigits(digits, 10)
    <2>1. Tail(FormatInterfaceMAC(id, end)) = SubSeq(id, 4, 8)
        <3> DEFINE s == SubSeq(id, 4, 8)
                   a == IF end THEN 6 ELSE 2
        <3>1. s \in [1..5 -> Nat] /\ a \in Nat
            BY <1>6, LowBytes
        <3> HIDE DEF s, a
        <3>2. Tail(<<a>> \o s) = s
            BY <3>1, PrefixedTail
        <3> QED BY <3>2 DEF s, a, FormatInterfaceMAC
    <2>2. HexDigits(SubSeq(id, 4, 8)) = [i \in 1..10 |-> D[6 + i]]
        BY <1>6, <1>11
    <2>3. LastDigits(digits, 10) = [i \in 1..10 |-> IF i + L > 10 THEN digits[i + L - 10] ELSE 0]
        BY <1>4
    <2> QED BY <1>8, <2>1, <2>2, <2>3
<1> QED BY <1>1, <1>9, <1>12, <1>13, <1>14 DEF L

-----------------------------------------------------------------------------
(* Ids: there and back.                                                    *)

\* The two digits of a byte.
LEMMA ByteOfDigits ==
    \A b \in 0..255 : b \div 16 \in 0..15 /\ b % 16 \in 0..15 /\ 16 * (b \div 16) + (b % 16) = b
<1> TAKE b \in 0..255
<1>1. b \in Nat /\ 16 \in Nat \ {0}
    OBVIOUS
<1> DEFINE q == b \div 16
           r == b % 16
<1>2. q \in Nat /\ r \in 0..16 - 1 /\ b = q * 16 + r
    BY ONLY <1>1, DivMod
<1>3. b <= 255
    OBVIOUS
<1> HIDE DEF q, r
<1>4. r \in 0..15 /\ r \in Nat
    BY ONLY <1>2
<1>5. q * 16 <= 255
    BY ONLY <1>1, <1>2, <1>3, <1>4
<1>6. q <= 15
    BY ONLY <1>2, <1>5
<1>7. q \in 0..15
    BY ONLY <1>2, <1>6
<1>8. 16 * q + r = b
    <2>1. q \in Nat
        BY <1>2
    <2>2. 16 * q = q * 16
        BY ONLY <2>1
    <2>3. b = q * 16 + r
        BY <1>2
    <2> QED BY ONLY <2>2, <2>3
<1> QED BY <1>4, <1>7, <1>8 DEF q, r

\* Bytes become digits and bytes again.
LEMMA ByteRoundTrip ==
    ASSUME NEW id \in IDBytes
    PROVE  HexDigits(id) \in HexWord /\ HexBytes(HexDigits(id)) = id
<1> DEFINE D == HexDigits(id)
<1>1. Len(id) = 8 /\ id = [i \in 1..8 |-> id[i]] /\ \A i \in 1..8 : id[i] \in 0..255
    BY DEF IDBytes
<1>2. D = [i \in 1..16 |-> IF i % 2 = 1 THEN id[(i + 1) \div 2] \div 16 ELSE id[i \div 2] % 16]
    BY <1>1 DEF HexDigits
<1> HIDE DEF D
<1>3. ASSUME NEW i \in 1..16
      PROVE  (IF i % 2 = 1 THEN id[(i + 1) \div 2] \div 16 ELSE id[i \div 2] % 16) \in 0..15
    <2>1. CASE i % 2 = 1
        <3>1. (i + 1) \div 2 \in 1..8
            BY <2>1
        <3>2. id[(i + 1) \div 2] \in 0..255
            BY <1>1, <3>1
        <3> QED BY <2>1, <3>2, ByteOfDigits
    <2>2. CASE i % 2 # 1
        <3>1. i \div 2 \in 1..8
            BY <2>2
        <3>2. id[i \div 2] \in 0..255
            BY <1>1, <3>1
        <3> QED BY <2>2, <3>2, ByteOfDigits
    <2> QED BY <2>1, <2>2
<1>4. D \in HexWord
    BY <1>2, <1>3 DEF HexWord
<1>5. ASSUME NEW i \in 1..8
      PROVE  HexBytes(D)[i] = id[i]
    <2>1. 2 * i - 1 \in 1..16 /\ (2 * i - 1) % 2 = 1 /\ (2 * i - 1 + 1) \div 2 = i
        OBVIOUS
    <2>2. 2 * i \in 1..16 /\ (2 * i) % 2 # 1 /\ (2 * i) \div 2 = i
        OBVIOUS
    <2>3. D[2 * i - 1] = id[i] \div 16
        BY <1>2, <2>1
    <2>4. D[2 * i] = id[i] % 16
        BY <1>2, <2>2
    <2>5. HexBytes(D)[i] = 16 * D[2 * i - 1] + D[2 * i]
        BY <1>4, BytesOfDigits
    <2> QED BY <1>1, <2>3, <2>4, <2>5, ByteOfDigits
<1>6. HexBytes(D) = [i \in 1..8 |-> HexBytes(D)[i]]
    BY <1>4, BytesOfDigits
<1>7. HexBytes(D) = id
    BY <1>1, <1>5, <1>6
<1> QED BY <1>4, <1>7 DEF D

\* A spelling is parsed as the ID of its last sixteen digits.
LEMMA ParsedEnding ==
    ASSUME NEW L \in {8, 17}, NEW d \in [1..L -> Nat], \A i \in 1..L : d[i] < 16,
           L = 17 => d[1] = 0, NEW D \in HexWord,
           \A i \in 1..16 : D[i] = IF i + L > 16 THEN d[i + L - 16] ELSE 0
    PROVE  ParseVPCEID(d) = HexBytes(D)
<1>1. d \in Seq(Nat) /\ Len(d) = L /\ DOMAIN d = 1..L
    <2>1. L \in Nat
        OBVIOUS
    <2> QED BY ONLY <2>1, d \in [1..L -> Nat], FunctionSeq
<1>2. SubSeq(Zeros(16) \o d, Len(d) + 1, Len(d) + 16) = Ending(d, 16)
    BY ONLY <1>1, PaddedEnding, 16 \in Nat
<1>3. Ending(d, 16) = D
    <2>1. D = [i \in 1..16 |-> D[i]]
        BY DEF HexWord
    <2>2. Ending(d, 16) = [i \in 1..16 |-> IF i + L > 16 THEN d[i + L - 16] ELSE 0]
        BY <1>1 DEF Ending
    <2> QED BY <2>1, <2>2
<1>4. ParsesAsUint64(d)
    <2>1. \A i \in DOMAIN d : d[i] < 16
        BY <1>1
    <2>2. ASSUME NEW i \in 1..Len(d) - 16 PROVE d[i] = 0
        <3>1. Len(d) = L /\ i <= Len(d) - 16 /\ 1 <= i
            BY <1>1
        <3>2. CASE L = 8
            BY ONLY <3>1, <3>2, i \in Int
        <3>3. CASE L = 17
            <4>1. i = 1
                BY ONLY <3>1, <3>3, i \in Int
            <4> QED BY <3>3, <4>1
        <3> QED BY <3>2, <3>3
    <2> QED BY <2>1, <2>2 DEF ParsesAsUint64
<1> QED BY <1>1, <1>2, <1>3, <1>4 DEF ParseVPCEID

\* The canonical spelling of an ID parses, and as that ID.
LEMMA FormatParsed ==
    ASSUME NEW id \in IDBytes
    PROVE  ParseVPCEID(FormatVPCEID(id)) = id /\ FormatVPCEID(id) # NoID
<1> DEFINE D == HexDigits(id)
<1>1. D \in HexWord /\ HexBytes(D) = id
    BY ByteRoundTrip
<1>2. SubSeq(id, 5, 8) = SubSeq(id, 4 + 1, 8)
    OBVIOUS
<1>3. HexDigits(SubSeq(id, 5, 8)) = [i \in 1..8 |-> D[8 + i]]
    <2>1. id \in [1..8 -> 0..255]
        BY DEF IDBytes
    <2>2. HexDigits(SubSeq(id, 4 + 1, 8)) = [i \in 1..16 - 2 * 4 |-> D[2 * 4 + i]]
        BY ONLY <2>1, HexOfSuffix, 4 \in 0..7
    <2>3. 16 - 2 * 4 = 8 /\ 2 * 4 = 8 /\ 4 + 1 = 5
        OBVIOUS
    <2> QED BY ONLY <2>2, <2>3
<1>4. FitsIn32Bits(id) => \A i \in 1..8 : D[i] = 0
    <2> SUFFICES ASSUME FitsIn32Bits(id), NEW i \in 1..8 PROVE D[i] = 0
        OBVIOUS
    <2>1. Len(id) = 8 /\ \A j \in 1..4 : id[j] = 0
        BY DEF FitsIn32Bits, IDBytes
    <2>2. D[i] = IF i % 2 = 1 THEN id[(i + 1) \div 2] \div 16 ELSE id[i \div 2] % 16
        BY <2>1 DEF HexDigits
    <2>3. (i % 2 = 1 => (i + 1) \div 2 \in 1..4) /\ (i % 2 # 1 => i \div 2 \in 1..4)
        OBVIOUS
    <2>4. 0 \div 16 = 0 /\ 0 % 16 = 0
        OBVIOUS
    <2> QED BY <2>1, <2>2, <2>3, <2>4
<1>5. D \in [1..16 -> Nat] /\ \A i \in 1..16 : D[i] \in Nat /\ D[i] < 16
    <2>1. D \in [1..16 -> Nat]
        BY <1>1, WordSeq
    <2>2. \A i \in 1..16 : D[i] \in 0..15
        BY <1>1 DEF HexWord
    <2> QED BY <2>1, <2>2
<1> HIDE DEF D
<1>6. CASE FitsIn32Bits(id)
    <2> DEFINE d == [i \in 1..8 |-> D[8 + i]]
    <2>1. FormatVPCEID(id) = d
        BY <1>3, <1>6 DEF FormatVPCEID
    <2>2. d \in [1..8 -> Nat] /\ \A i \in 1..8 : d[i] < 16
        BY <1>5
    <2>3. \A i \in 1..16 : D[i] = IF i + 8 > 16 THEN d[i + 8 - 16] ELSE 0
        <3> TAKE i \in 1..16
        <3>1. CASE i <= 8
            BY <1>4, <1>6, <3>1
        <3>2. CASE i > 8
            <4>1. i + 8 - 16 \in 1..8 /\ 8 + (i + 8 - 16) = i
                BY <3>2
            <4> QED BY <3>2, <4>1
        <3> QED BY <3>1, <3>2
    <2> HIDE DEF d
    <2>4. ParseVPCEID(d) = HexBytes(D)
        BY <1>1, <2>2, <2>3, ParsedEnding
    <2>5. d # NoID
        <3>1. Len(d) = 8
            BY ONLY <2>2, FunctionSeq, 8 \in Nat
        <3> QED BY <3>1 DEF NoID
    <2> QED BY <1>1, <2>1, <2>4, <2>5
<1>7. CASE ~FitsIn32Bits(id)
    <2> DEFINE d == <<0>> \o D
    <2>1. FormatVPCEID(id) = d
        BY <1>7 DEF FormatVPCEID, D
    <2>2. d = [k \in 1..17 |-> IF k = 1 THEN 0 ELSE D[k - 1]]
        <3>1. d = [k \in 1..16 + 1 |-> IF k = 1 THEN 0 ELSE D[k - 1]]
            BY ONLY <1>5, PrefixedTail, 16 \in Nat, 0 \in Nat
        <3>2. 16 + 1 = 17
            OBVIOUS
        <3> QED BY ONLY <3>1, <3>2
    <2> HIDE DEF d
    <2>3. \A k \in 1..17 : d[k] \in Nat /\ d[k] < 16
        <3> TAKE k \in 1..17
        <3>1. CASE k = 1
            BY <2>2, <3>1
        <3>2. CASE k # 1
            <4>1. k - 1 \in 1..16
                BY <3>2
            <4> QED BY <1>5, <2>2, <3>2, <4>1
        <3> QED BY <3>1, <3>2
    <2>4. d \in [1..17 -> Nat] /\ d[1] = 0
        BY <2>2, <2>3
    <2>5. \A i \in 1..16 : D[i] = IF i + 17 > 16 THEN d[i + 17 - 16] ELSE 0
        <3> TAKE i \in 1..16
        <3>1. i + 17 - 16 \in 1..17 /\ i + 17 - 16 # 1 /\ (i + 17 - 16) - 1 = i
            OBVIOUS
        <3> QED BY <2>2, <3>1
    <2>6. ParseVPCEID(d) = HexBytes(D)
        BY <1>1, <2>3, <2>4, <2>5, ParsedEnding
    <2>7. d # NoID
        <3>1. Len(d) = 17
            BY ONLY <2>4, FunctionSeq, 17 \in Nat
        <3> QED BY <3>1 DEF NoID
    <2> QED BY <1>1, <2>1, <2>6, <2>7
<1> QED BY <1>6, <1>7

\* What is parsed is an ID.
LEMMA ParsedBytes ==
    ASSUME NEW digits \in Seq(Nat), ParseVPCEID(digits) # NoID
    PROVE  ParseVPCEID(digits) \in IDBytes
<1>1. Ending(digits, 16) \in HexWord /\ ParseVPCEID(digits) = HexBytes(Ending(digits, 16))
    BY ParsedID
<1> DEFINE D == Ending(digits, 16)
<1> HIDE DEF D
<1>2. D \in HexWord /\ ParseVPCEID(digits) = HexBytes(D)
    BY <1>1 DEF D
<1> QED BY <1>2, BytesOfDigits DEF IDBytes

-----------------------------------------------------------------------------
(* Ids: an ID along its way.                                               *)

\* (The provers do not know of a string that it is in STRING.)
InterfaceNames == [prefix : STRING \cup {"gwlb", "gxdp"}, suffix : Seq(Nat)]
Accepted == {"added", "served", "done"}

\* What serve tags an interface of this name with.
TagOf(name) ==
    LET id == ParseInterfaceName(name)
    IN  IF id = NoID THEN NoID ELSE FormatVPCEID(id)

\* From what was typed on, everything is what the ID parsed from it is rendered as.
IdsInv ==
    /\ typed \in Seq(Nat) /\ names \in Seq(InterfaceNames)
    /\ stage \in {"parse", "rejected"} \cup Accepted
    /\ stage \in {"parse", "rejected"} => vpceID = NoID
    /\ stage \in Accepted =>
        gwlbID = ParseVPCEID(typed) /\ gwlbID # NoID /\ vpceID = FormatVPCEID(gwlbID)
    /\ stage \in {"served", "done"} => tags = [i \in DOMAIN names |-> TagOf(names[i])]
    /\ stage = "done" => again = ParseVPCEID(FormatVPCEID(gwlbID))

\* Nothing is parsed yet, and every spelling is a sequence of digits.
LEMMA IdsInitInv ==
    ASSUME IdsInit PROVE IdsInv
<1>1. ASSUME NEW id \in [1..8 -> Bytes] PROVE LongSpelling(id) \in Seq(Nat)
    <2>1. Len(id) = 8 /\ \A i \in 1..8 : id[i] \in Nat
        <3>1. Len(id) = 8
            OBVIOUS
        <3>2. Bytes \subseteq 0..255
            BY IdsAssumption
        <3>3. Bytes \subseteq Nat
            BY <3>2
        <3> QED BY <3>1, <3>3
    <2>2. ASSUME NEW i \in 1..16
          PROVE  (IF i % 2 = 1 THEN id[(i + 1) \div 2] \div 16 ELSE id[i \div 2] % 16) \in Nat
        <3>1. (i % 2 = 1 => (i + 1) \div 2 \in 1..8) /\ (i % 2 # 1 => i \div 2 \in 1..8)
            OBVIOUS
        <3>2. ASSUME NEW b \in Nat PROVE b \div 16 \in Nat /\ b % 16 \in Nat
            OBVIOUS
        <3> QED BY <2>1, <3>1, <3>2
    <2>3. HexDigits(id) \in Seq(Nat)
        BY <2>1, <2>2 DEF HexDigits
    <2> QED BY <2>3 DEF LongSpelling
<1>2. typed \in Seq(Nat)
    BY <1>1, IdsAssumption DEF IdsInit, AllIDs
<1>3. ForeignNames \in Seq(InterfaceNames)
    <2> DEFINE Foreign == [prefix : STRING, suffix : Seq(Nat)]
    <2>1. Foreign \subseteq InterfaceNames
        BY DEF InterfaceNames
    <2>2. ForeignNames \in Seq(Foreign)
        BY IdsAssumption
    <2> HIDE DEF Foreign
    <2> QED BY ONLY <2>1, <2>2
<1> QED BY <1>2, <1>3 DEF IdsInit, IdsInv, Accepted

\* Base58 characters are numbers.
LEMMA Base58Seq ==
    ASSUME NEW chars, IsBase58(chars)
    PROVE  /\ chars \in Seq(Nat)
           /\ \A i \in DOMAIN chars : chars[i] < 58
<1>1. PICK n \in Nat : chars \in Digits(n, 58)
    BY DEF IsBase58
<1>2. chars \in [1..n -> Nat]
    BY <1>1, NumberOfName
<1>3. chars \in Seq(Nat)
    BY ONLY <1>2, n \in Nat, FunctionSeq
<1>4. ASSUME NEW i \in DOMAIN chars PROVE chars[i] < 58
    <2>1. chars \in [1..n -> 0..58 - 1] /\ DOMAIN chars = 1..n
        BY <1>1 DEF Digits
    <2>2. chars[i] \in 0..58 - 1
        BY <2>1
    <2> QED BY ONLY <2>2
<1> QED BY <1>3, <1>4

\* The program's names are names.
LEMMA FormattedName ==
    ASSUME NEW id \in IDBytes, NEW end \in BOOLEAN
    PROVE  FormatInterfaceName(id, end) \in InterfaceNames
<1> DEFINE e == Base58Encode(id)
<1>1. e \in Seq(Nat)
    BY DecodeEncoded, Base58Seq
<1>2. FormatInterfaceName(id, end) = [prefix |-> IF end THEN "gwlb" ELSE "gxdp", suffix |-> e]
    BY DEF FormatInterfaceName
<1> HIDE DEF e
<1>3. (IF end THEN "gwlb" ELSE "gxdp") \in STRING \cup {"gwlb", "gxdp"}
    OBVIOUS
<1> QED BY <1>1, <1>2, <1>3 DEF InterfaceNames

\* A step keeps the invariant: only ParseArgument adds names, and only those of the
\* ID it parsed.
LEMMA IdsNextInv ==
    ASSUME IdsInv, [IdsNext]_idsVars PROVE IdsInv'
<1>1. CASE ParseArgument
    <2>1. CASE gwlbID' = NoID
        BY <1>1, <2>1 DEF ParseArgument, IdsInv, Accepted
    <2>2. CASE gwlbID' # NoID
        <3> DEFINE id == ParseVPCEID(typed)
        <3>1. id \in IDBytes /\ gwlbID' = id
            BY <1>1, <2>2, ParsedBytes DEF ParseArgument, IdsInv
        <3> HIDE DEF id
        <3> DEFINE outer == FormatInterfaceName(id, FALSE)
                   inner_ == FormatInterfaceName(id, TRUE)
        <3>2. outer \in InterfaceNames /\ inner_ \in InterfaceNames
            BY <3>1, FormattedName
        <3>3. names' = names \o <<outer, inner_>>
            BY <1>1, <2>2, <3>1 DEF ParseArgument
        <3> HIDE DEF outer, inner_
        <3>4. names' \in Seq(InterfaceNames)
            <4>1. names \in Seq(InterfaceNames)
                BY DEF IdsInv
            <4>2. <<outer, inner_>> \in Seq(InterfaceNames)
                BY <3>2
            <4> QED BY ONLY <3>3, <4>1, <4>2, ConcatProperties
        <3>5. stage' = "added" /\ vpceID' = FormatVPCEID(id) /\ typed' = typed
            BY <1>1, <2>2, <3>1 DEF ParseArgument
        <3>6. typed' \in Seq(Nat) /\ gwlbID' = ParseVPCEID(typed')
            BY <3>1, <3>5 DEF IdsInv, id
        <3> QED BY <2>2, <3>1, <3>4, <3>5, <3>6 DEF IdsInv, Accepted
    <2> QED BY <2>1, <2>2
<1>2. CASE TagInterfaces
    BY <1>2 DEF TagInterfaces, TagOf, IdsInv, Accepted
<1>3. CASE ParseAgain
    BY <1>3 DEF ParseAgain, IdsInv, Accepted
<1>4. CASE UNCHANGED idsVars
    BY <1>4 DEF IdsInv, idsVars
<1> QED BY <1>1, <1>2, <1>3, <1>4 DEF IdsNext, IdsDone

\* The invariant holds throughout.
THEOREM IdsInvariance == IdsSpec => []IdsInv
BY IdsInitInv, IdsNextInv, PTL DEF IdsSpec

\* The canonical spelling of an endpoint has the digits that were typed, and its
\* MACs end with the last ten of them: for all IDs, and all spellings that
\* ParseVPCEID takes (utils.go ParseVPCEID, FormatVPCEID, FormatInterfaceMAC).
THEOREM CanonicalSpelling == IdsSpec => []DigitsKept
<1>1. IdsInv => DigitsKept
    BY DigitsOfParsed DEF IdsInv, DigitsKept, Accepted
<1> QED BY <1>1, IdsInvariance, PTL

\* The ID whose spelling is the canonical one.
LEMMA CanonicalID ==
    ASSUME IdsInv, vpceID # NoID
    PROVE  /\ stage \in Accepted /\ gwlbID \in IDBytes
           /\ vpceID = FormatVPCEID(gwlbID) /\ ParseVPCEID(vpceID) = gwlbID
<1>1. stage \in Accepted
    BY DEF IdsInv
<1>2. gwlbID \in IDBytes /\ vpceID = FormatVPCEID(gwlbID)
    BY <1>1, ParsedBytes DEF IdsInv
<1> QED BY <1>1, <1>2, FormatParsed

\* The program's own names are tagged with the endpoint they name.
LEMMA OwnTag ==
    ASSUME NEW id \in IDBytes, NEW end \in BOOLEAN
    PROVE  TagOf(FormatInterfaceName(id, end)) = FormatVPCEID(id)
<1> DEFINE e == Base58Encode(id)
           name == FormatInterfaceName(id, end)
<1>1. Base58Decode(e) = id /\ \A i \in DOMAIN e : e[i] < 58
    BY DecodeEncoded, Base58Seq
<1>2. name.prefix \in {"gwlb", "gxdp"} /\ name.suffix = e
    BY DEF FormatInterfaceName
<1>3. Len(id) = 8 /\ id # NoID
    BY DEF IDBytes, NoID
<1> HIDE DEF e, name
<1>4. ParseInterfaceName(name) = id
    BY <1>1, <1>2, <1>3 DEF ParseInterfaceName
<1> QED BY <1>3, <1>4 DEF TagOf, name

\* A name that is tagged is the one that the program gives the endpoint of the tag.
LEMMA TaggedName ==
    ASSUME NEW name \in InterfaceNames, TagOf(name) # NoID
    PROVE  \E end \in BOOLEAN : name = FormatInterfaceName(ParseVPCEID(TagOf(name)), end)
<1> DEFINE chars == name.suffix
           id == Base58Decode(chars)
<1>1. /\ name.prefix \in {"gwlb", "gxdp"} /\ \A i \in DOMAIN chars : chars[i] < 58
      /\ Len(id) = 8 /\ TagOf(name) = FormatVPCEID(id)
    BY DEF TagOf, ParseInterfaceName
<1>2. chars \in Seq(Nat) /\ name = [prefix |-> name.prefix, suffix |-> chars]
    BY DEF InterfaceNames
<1> HIDE DEF chars, id
<1> DEFINE n == Len(chars)
<1>3. n \in Nat /\ chars \in Digits(n, 58)
    <2>1. n \in Nat /\ chars \in [1..n -> Nat] /\ DOMAIN chars = 1..n
        BY <1>2
    <2> HIDE DEF n
    <2>2. ASSUME NEW i \in 1..n PROVE chars[i] \in 0..58 - 1
        <3>1. chars[i] \in Nat /\ chars[i] < 58
            BY <1>1, <2>1
        <3> QED BY ONLY <3>1
    <2>3. chars = [i \in 1..n |-> chars[i]]
        BY ONLY <2>1
    <2> QED BY <2>1, <2>2, <2>3 DEF Digits
<1> HIDE DEF n
<1>4. id \in IDBytes /\ Base58Encode(id) = chars
    BY <1>1, <1>3, EncodeDecoded DEF id
<1>5. ParseVPCEID(TagOf(name)) = id
    BY <1>1, <1>4, FormatParsed
<1>6. CASE name.prefix = "gwlb"
    <2>1. name = FormatInterfaceName(id, TRUE)
        BY <1>2, <1>4, <1>6 DEF FormatInterfaceName
    <2> QED BY <1>5, <2>1
<1>7. CASE name.prefix = "gxdp"
    <2>1. name = FormatInterfaceName(id, FALSE)
        BY <1>2, <1>4, <1>7 DEF FormatInterfaceName
    <2> QED BY <1>5, <2>1
<1> QED BY <1>1, <1>6, <1>7

\* add, serve and teardown mean the same endpoint: for all IDs, spellings and names
\* of other interfaces, both ends of its veth pair have names that the kernel takes
\* and that are tagged with it, and the argument teardown makes of the map's key is
\* parsed as that key (utils.go FormatInterfaceName, ParseInterfaceName, FormatVPCEID).
THEOREM OneEndpoint == IdsSpec => []SameEndpoint
<1>1. IdsInv => SameEndpoint
    <2> SUFFICES ASSUME IdsInv PROVE SameEndpoint
        OBVIOUS
    <2>1. ASSUME vpceID # NoID, NEW name \in OwnNames PROVE NameLength(name) < IFNAMSIZ
        <3>1. PICK end \in BOOLEAN : name = FormatInterfaceName(gwlbID, end)
            BY DEF OwnNames
        <3> DEFINE e == Base58Encode(gwlbID)
        <3>2. e \in Seq(Nat) /\ Len(e) <= 11
            BY <2>1, CanonicalID, EncodedLength, DecodeEncoded, Base58Seq
        <3>3. name.suffix = e
            BY <3>1 DEF FormatInterfaceName
        <3> HIDE DEF e
        <3> QED BY <3>2, <3>3 DEF NameLength, IFNAMSIZ
    <2>2. ASSUME stage \in {"served", "done"}, NEW i \in DOMAIN names, names[i] \in OwnNames
          PROVE  tags[i] = vpceID
        <3>1. gwlbID \in IDBytes /\ vpceID = FormatVPCEID(gwlbID)
            BY <2>2, ParsedBytes DEF IdsInv, Accepted
        <3>2. PICK end \in BOOLEAN : names[i] = FormatInterfaceName(gwlbID, end)
            BY <2>2 DEF OwnNames
        <3>3. tags[i] = TagOf(names[i])
            BY <2>2 DEF IdsInv
        <3> QED BY <3>1, <3>2, <3>3, OwnTag
    <2>3. ASSUME stage = "done" PROVE again = gwlbID
        BY <2>3, ParsedBytes, FormatParsed DEF IdsInv, Accepted
    <2> QED BY <2>1, <2>2, <2>3 DEF SameEndpoint
<1> QED BY <1>1, IdsInvariance, PTL

\* Nothing else is tagged with an endpoint: whatever other interfaces are called, a
\* name that ParseInterfaceName takes is the one FormatInterfaceName gives a veth of
\* the endpoint in its tag (utils.go ParseInterfaceName).
THEOREM OwnNamesOnly == IdsSpec => []OnlyOwnNamesTagged
<1>1. IdsInv => OnlyOwnNamesTagged
    <2> SUFFICES ASSUME IdsInv, stage \in {"served", "done"},
                        NEW i \in DOMAIN names, tags[i] # NoID
                 PROVE  \E end \in BOOLEAN :
                            names[i] = FormatInterfaceName(ParseVPCEID(tags[i]), end)
        BY DEF OnlyOwnNamesTagged
    <2>1. tags[i] = TagOf(names[i])
        BY DEF IdsInv
    <2>2. names[i] \in InterfaceNames
        BY DEF IdsInv
    <2> QED BY <2>1, <2>2, TaggedName
<1> QED BY <1>1, IdsInvariance, PTL

=============================================================================
