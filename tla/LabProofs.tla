----------------------------- MODULE LabProofs -----------------------------
(***************************************************************************)
(* Proofs about Lab, for any universe, any strategies and parameters, any  *)
(* feeds, prices, fees and capital.                                        *)
(*                                                                         *)
(* The engine folds over bars, intents, fills and lots.  Each fold is a    *)
(* function on 0 .. n whose value at i comes from the one at i - 1: that   *)
(* it exists is shown by StepByStep, that the one chosen is of its type by *)
(* Unfolds, and what holds of all its values by UpTo, which is least       *)
(* counterexample for a set of numbers.                                    *)
(*                                                                         *)
(* The report.  After i points the running peak is a highest so far, and   *)
(* the worst fraction is reached by one fall and exceeded by none of them  *)
(* (WorstOf).  The search: rank k of a finite strict order is taken by     *)
(* exactly one element (OrderedExists), so a ranking is a permutation, its *)
(* first is a best and fewer than k come before the k-th.                  *)
(*                                                                         *)
(* The books.  Every fill moves cash and shares by its own amounts         *)
(* (Explained), a bar closes with the equity of both (Priced), and a       *)
(* registered strategy decides once per symbol, to buy what is not held or *)
(* sell what is (Toggles), so that it never sells too much.  The round     *)
(* trips: what a sell takes, costs and leaves of the lots adds up at every *)
(* lot (Matched), so the trips have gained what the fills moved and the    *)
(* lots left over cost (Tallied).                                          *)
(***************************************************************************)
EXTENDS Lab, FiniteSetTheorems, SequenceTheorems, TLAPS

-----------------------------------------------------------------------------
(* Numbers, functions on an initial segment, and orders.                   *)

LEMMA LeastExists ==
  ASSUME NEW S \in SUBSET Nat, S # {}
  PROVE  \E x \in S : \A y \in S : x <= y
<1>1. PICK x \in S : \A y \in S : <<y, x>> \notin OpToRel(<, Nat)
  BY NatLessThanWellFounded, WFMin
<1>2. \A y \in S : ~(y < x) BY <1>1 DEF OpToRel
<1> QED BY <1>2

\* Induction up to n, about a set of numbers.
LEMMA UpTo ==
  ASSUME NEW n \in Nat, NEW P, 0 \in P, \A i \in 1 .. n : i - 1 \in P => i \in P
  PROVE  \A i \in 0 .. n : i \in P
<1> SUFFICES ASSUME {i \in 0 .. n : i \notin P} # {} PROVE FALSE
  OBVIOUS
<1>1. PICK i \in 0 .. n : i \notin P /\ \A j \in 0 .. n : j \notin P => i <= j
  <2>1. {i \in 0 .. n : i \notin P} \in SUBSET Nat OBVIOUS
  <2> QED BY <2>1, LeastExists
<1>2. i # 0 /\ i \in 1 .. n /\ i - 1 \in 0 .. n /\ i - 1 < i BY <1>1
<1> QED BY <1>1, <1>2

\* A function that is defined step by step exists, if every step stays in X.
Built(f, X, base, step, n) ==
  f \in [0 .. n -> X] /\ f[0] = base /\ \A i \in 1 .. n : f[i] = step[i][f[i - 1]]

LEMMA StepByStep ==
  ASSUME NEW X, NEW base \in X, NEW n \in Nat, NEW step \in [1 .. n -> [X -> X]]
  PROVE  \E f : Built(f, X, base, step, n)
<1> DEFINE P == {m \in 0 .. n : \E f : Built(f, X, base, step, m)}
<1>1. 0 \in P
  <2>1. PICK f : f = [i \in 0 .. 0 |-> base] OBVIOUS
  <2>2. Built(f, X, base, step, 0) BY <2>1 DEF Built
  <2> QED BY <2>2
<1>2. ASSUME NEW m \in 1 .. n, m - 1 \in P PROVE m \in P
  <2>1. PICK f : Built(f, X, base, step, m - 1) BY <1>2
  <2>2. PICK g : g = [i \in 0 .. m |-> IF i = m THEN step[m][f[m - 1]] ELSE f[i]] OBVIOUS
  <2>3. f \in [0 .. m - 1 -> X] /\ f[0] = base
    BY <2>1 DEF Built
  <2>4. \A i \in 1 .. m : i \in 1 .. n /\ i - 1 \in 0 .. m - 1 BY <1>2
  <2>5. g \in [0 .. m -> X]
    <3>1. m \in 1 .. n /\ f[m - 1] \in X BY <2>3, <2>4
    <3>2. step[m][f[m - 1]] \in X BY <3>1
    <3>3. \A i \in 0 .. m : i # m => i \in 0 .. m - 1 BY <1>2
    <3> QED BY <2>2, <2>3, <3>2, <3>3
  <2>6. g[0] = base BY <2>2, <2>3, <1>2
  <2>7. \A i \in 1 .. m : g[i] = step[i][g[i - 1]]
    <3>1. g[m] = step[m][g[m - 1]] BY <1>2, <2>2
    <3>2. ASSUME NEW i \in 1 .. m - 1 PROVE g[i] = step[i][g[i - 1]]
      <4>1. f[i] = step[i][f[i - 1]] BY <2>1 DEF Built
      <4> QED BY <1>2, <2>2, <4>1
    <3> QED BY <1>2, <3>1, <3>2
  <2>8. Built(g, X, base, step, m) BY <2>5, <2>6, <2>7 DEF Built
  <2>9. m \in 0 .. n BY <1>2
  <2> QED BY <2>8, <2>9
<1>3. n \in P
  <2> HIDE DEF P
  <2>1. \A m \in 1 .. n : m - 1 \in P => m \in P BY <1>2
  <2>2. \A m \in 0 .. n : m \in P BY <1>1, <2>1, UpTo
  <2> QED BY <2>2
<1> QED BY <1>3

\* So does what it is chosen as.
LEMMA Unfolds ==
  ASSUME NEW X, NEW base \in X, NEW n \in Nat, NEW step \in [1 .. n -> [X -> X]],
         NEW u, u = [i \in 0 .. n |-> u[i]], u[0] = base,
         \A i \in 1 .. n : u[i - 1] \in X => u[i] = step[i][u[i - 1]]
  PROVE  Built(u, X, base, step, n)
<1> DEFINE P == {i \in 0 .. n : u[i] \in X}
<1>1. 0 \in P OBVIOUS
<1>2. \A i \in 1 .. n : i - 1 \in P => i \in P
  <2> TAKE i \in 1 .. n
  <2> HAVE i - 1 \in P
  <2>1. step[i] \in [X -> X] /\ u[i - 1] \in X OBVIOUS
  <2>2. step[i][u[i - 1]] \in X BY <2>1
  <2>3. u[i] = step[i][u[i - 1]] BY <2>1, Zenon
  <2>4. u[i] \in X BY <2>2, <2>3, Zenon
  <2>5. i \in 0 .. n OBVIOUS
  <2> QED BY <2>4, <2>5
<1>3. \A i \in 0 .. n : i \in P
  <2> HIDE DEF P
  <2> QED BY <1>1, <1>2, UpTo
<1>4. \A i \in 0 .. n : u[i] \in X BY <1>3
<1>5. u \in [0 .. n -> X] BY <1>4
<1>6. \A i \in 1 .. n : u[i] = step[i][u[i - 1]]
  <2>1. \A i \in 1 .. n : i - 1 \in 0 .. n OBVIOUS
  <2> QED BY <1>4, <2>1
<1> QED BY <1>5, <1>6 DEF Built

\* R orders the elements of S; so many come before x.
Orders(R, S) ==
  /\ \A x \in S : <<x, x>> \notin R
  /\ \A x, y, z \in S : <<x, y>> \in R /\ <<y, z>> \in R => <<x, z>> \in R
  /\ \A x, y \in S : x # y => <<x, y>> \in R \/ <<y, x>> \in R
Rank(R, S, x) == Cardinality({y \in S : <<y, x>> \in R})

\* In a finite order there is a k-th element.
LEMMA OrderedExists ==
  ASSUME NEW S, IsFiniteSet(S), NEW R, Orders(R, S)
  PROVE  \A k \in 1 .. Cardinality(S) : \E x \in S : Rank(R, S, x) = k - 1
<1> DEFINE below(x) == {y \in S : <<y, x>> \in R}
<1>1. PICK n \in Nat : n = Cardinality(S) BY FS_CardinalityType
<1>2. \A x \in S : IsFiniteSet(below(x)) BY FS_Subset
<1>3. \A x \in S : Cardinality(below(x)) \in Nat BY <1>2, FS_CardinalityType
<1>4. ASSUME NEW x \in S PROVE Cardinality(below(x)) < n
  <2>1. below(x) \subseteq S /\ below(x) # S BY DEF Orders
  <2> HIDE DEF below
  <2> QED BY <1>1, <1>3, <2>1, FS_Subset
<1>5. ASSUME NEW x \in S, NEW y \in S, <<x, y>> \in R
      PROVE  Cardinality(below(x)) < Cardinality(below(y))
  <2>1. below(x) \subseteq below(y) /\ below(x) # below(y) BY <1>5 DEF Orders
  <2> HIDE DEF below
  <2> QED BY <1>2, <1>3, <2>1, FS_Subset
<1> DEFINE rank == [x \in S |-> Cardinality(below(x))]
<1>6. rank \in [S -> 0 .. n - 1] BY <1>3, <1>4
<1>7. ASSUME NEW x \in S, NEW y \in S, x # y PROVE rank[x] # rank[y]
  <2> HIDE DEF below
  <2>1. <<x, y>> \in R \/ <<y, x>> \in R BY <1>7 DEF Orders
  <2>2. Cardinality(below(x)) \in Nat /\ Cardinality(below(y)) \in Nat BY <1>3
  <2>3. Cardinality(below(x)) # Cardinality(below(y)) BY <1>5, <2>1, <2>2
  <2> QED BY <2>3
<1>8. rank \in Injection(S, 0 .. n - 1)
  <2> HIDE DEF rank
  <2> QED BY <1>6, <1>7 DEF Injection, IsInjective
<1>9. IsFiniteSet(0 .. n - 1) /\ Cardinality(0 .. n - 1) = n
  <2>1. PICK m \in Int : m = n - 1 BY <1>1
  <2>2. IsFiniteSet(0 .. m) /\ Cardinality(0 .. m) = IF 0 > m THEN 0 ELSE m - 0 + 1 BY FS_Interval
  <2> QED BY <1>1, <2>1, <2>2
<1> HIDE DEF below
<1>10. rank \in Surjection(S, 0 .. n - 1)
  <2> HIDE DEF rank
  <2> QED BY <1>1, <1>8, <1>9, FS_Injection
<1>11. ASSUME NEW k \in 1 .. n PROVE \E x \in S : Cardinality(below(x)) = k - 1
  <2>1. k - 1 \in 0 .. n - 1 OBVIOUS
  <2> QED BY <1>10, <2>1 DEF Surjection
<1>12. \A x \in S : Rank(R, S, x) = Cardinality(below(x)) BY DEF Rank, below
<1> QED BY <1>1, <1>11, <1>12

\* q lists n elements of S, none of them twice; and all of them, in their order.
Lists(q, n, S) ==
  n \in Nat /\ q \in [1 .. n -> S] /\ \A k, l \in 1 .. n : q[k] = q[l] => k = l
Enumerates(q, R, S) ==
  q = [k \in 1 .. Cardinality(S) |-> CHOOSE x \in S : Rank(R, S, x) = k - 1]

LEMMA OrderedLists ==
  ASSUME NEW S, IsFiniteSet(S), NEW R, Orders(R, S), NEW q, Enumerates(q, R, S)
  PROVE  /\ Lists(q, Cardinality(S), S)
         /\ \A k \in 1 .. Cardinality(S) : Rank(R, S, q[k]) = k - 1
<1>1. PICK n \in Nat : n = Cardinality(S) BY FS_CardinalityType
<1>2. \A k \in 1 .. n : \E x \in S : Rank(R, S, x) = k - 1 BY <1>1, OrderedExists
<1>3. q = [k \in 1 .. n |-> CHOOSE x \in S : Rank(R, S, x) = k - 1] BY <1>1 DEF Enumerates
<1>4. \A k \in 1 .. n : q[k] \in S /\ Rank(R, S, q[k]) = k - 1 BY <1>2, <1>3
<1>5. ASSUME NEW k \in 1 .. n, NEW l \in 1 .. n, q[k] = q[l] PROVE k = l
  <2>1. k - 1 = l - 1 BY <1>4, <1>5
  <2> QED BY <2>1
<1>6. q \in [1 .. n -> S] BY <1>3, <1>4
<1> QED BY <1>1, <1>4, <1>5, <1>6 DEF Lists

LEMMA Scaled ==
  ASSUME NEW x \in Int, NEW y \in Int, NEW z \in Nat \ {0}
  PROVE  (x >= y <=> x * z >= y * z) /\ (x > y <=> x * z > y * z)
<1>1. PICK d \in Int : d = x - y OBVIOUS
<1>2. x * z - y * z = d * z BY <1>1
<1>3. (d >= 0 <=> d * z >= 0) /\ (d > 0 <=> d * z > 0) OBVIOUS
<1>4. d * z \in Int /\ x * z \in Int /\ y * z \in Int OBVIOUS
<1> QED BY <1>1, <1>2, <1>3, <1>4

\* Fractions with positive denominators compare transitively.
LEMMA Fractions ==
  ASSUME NEW a1 \in Int, NEW a2 \in Int, NEW a3 \in Int,
         NEW b1 \in Nat \ {0}, NEW b2 \in Nat \ {0}, NEW b3 \in Nat \ {0},
         a1 * b2 >= a2 * b1, a2 * b3 >= a3 * b2
  PROVE  /\ a1 * b3 >= a3 * b1
         /\ a1 * b2 > a2 * b1 \/ a2 * b3 > a3 * b2 => a1 * b3 > a3 * b1
<1>1. PICK x \in Int, y \in Int, u \in Int, v \in Int, lhs \in Int, rhs \in Int :
        /\ x = a1 * b2 /\ y = a2 * b1 /\ u = a2 * b3 /\ v = a3 * b2
        /\ lhs = a1 * b3 /\ rhs = a3 * b1
  OBVIOUS
<1>2. lhs * b2 = x * b3 /\ y * b3 = u * b1 /\ v * b1 = rhs * b2 BY <1>1
<1>3. x * b3 >= y * b3 /\ (x > y => x * b3 > y * b3) BY <1>1, Scaled
<1>4. u * b1 >= v * b1 /\ (u > v => u * b1 > v * b1) BY <1>1, Scaled
<1>5. PICK p \in Int, q \in Int, r \in Int : p = lhs * b2 /\ q = y * b3 /\ r = rhs * b2
  OBVIOUS
<1>6. p >= q /\ q >= r /\ (x > y => p > q) /\ (u > v => q > r) BY <1>2, <1>3, <1>4, <1>5
<1>7. p >= r /\ (x > y \/ u > v => p > r) BY <1>5, <1>6
<1>8. (p >= r => lhs >= rhs) /\ (p > r => lhs > rhs) BY <1>5, Scaled
<1> QED BY <1>1, <1>7, <1>8

-----------------------------------------------------------------------------
(* What a strategy decides.                                                *)

Price == Nat \ {0}
Fill == [symbol : Symbols, side : {"buy", "sell"}, quantity : Nat, price : Nat, bar : Nat]
Quotes == UNION {[T -> Price] : T \in SUBSET Symbols}
Runs ==
  [cash : Int, held : [Symbols -> Nat], quotes : Quotes,
   history : [Symbols -> Seq(Price)], fills : Seq(Fill), curve : Seq(Int)]

\* Intents of a registered strategy: one per symbol, a buy of what is not held
\* or a sell of what is.
Toggles(intents, held) ==
  /\ intents \in Seq(Intents)
  /\ \A i \in DOMAIN intents : intents[i] = Toggled(intents[i].symbol, held)
  /\ \A i, j \in DOMAIN intents : intents[i].symbol = intents[j].symbol => i = j

LEMMA Places ==
  /\ DOMAIN Universe \subseteq Nat /\ IsFiniteSet(DOMAIN Universe)
  /\ \A i \in DOMAIN Universe : Universe[i] \in Symbols
  /\ Symbols \subseteq Nat /\ IsFiniteSet(Symbols)
<1>1. PICK n \in Nat : DOMAIN Universe = 1 .. n BY UniverseAssumption
<1>2. IsFiniteSet(1 .. n) BY FS_Interval
<1>3. Symbols = {Universe[i] : i \in DOMAIN Universe} BY DEF Symbols, ToSet
<1>4. \A i \in DOMAIN Universe : Universe[i] \in Nat BY UniverseAssumption
<1>5. Universe \in Surjection(DOMAIN Universe, Symbols)
  BY <1>3, UniverseAssumption DEF Surjection
<1>6. IsFiniteSet(Symbols) BY <1>1, <1>2, <1>5, FS_Surjection
<1> QED BY <1>1, <1>2, <1>3, <1>4, <1>6

LEMMA ToggledIntent ==
  ASSUME NEW s \in Symbols, NEW held \in [Symbols -> Nat]
  PROVE  Toggled(s, held) \in Intents /\ Toggled(s, held).symbol = s
<1>1. held[s] \in Nat /\ Quantity \in Nat BY QuantityAssumption
<1>2. \A q \in Nat : Market(s, "buy", q) \in Intents /\ Market(s, "sell", q) \in Intents
  BY DEF Market, Intents
<1>3. Toggled(s, held) \in Intents BY <1>1, <1>2 DEF Toggled
<1>4. Toggled(s, held).symbol = s BY DEF Toggled, Market
<1> QED BY <1>3, <1>4

LEMMA TogglesOf ==
  ASSUME NEW held \in [Symbols -> Nat], NEW n, NEW q, Lists(q, n, Symbols)
  PROVE  Toggles([i \in DOMAIN q |-> Toggled(q[i], held)], held)
<1>1. PICK intents : intents = [i \in 1 .. n |-> Toggled(q[i], held)] OBVIOUS
<1>2. n \in Nat /\ q \in [1 .. n -> Symbols] /\ \A i, j \in 1 .. n : q[i] = q[j] => i = j
  BY DEF Lists
<1>3. \A i \in 1 .. n : /\ intents[i] = Toggled(q[i], held)
                        /\ intents[i] \in Intents /\ intents[i].symbol = q[i]
  BY <1>1, <1>2, ToggledIntent
<1>4. intents \in Seq(Intents) BY <1>1, <1>2, <1>3
<1>5. DOMAIN intents = 1 .. n BY <1>1
<1>6. Toggles(intents, held) BY <1>2, <1>3, <1>4, <1>5 DEF Toggles
<1>7. DOMAIN q = 1 .. n BY <1>2
<1> QED BY <1>1, <1>6, <1>7

LEMMA ActedToggles ==
  ASSUME NEW signal, NEW held \in [Symbols -> Nat]
  PROVE  Toggles(Acted(signal, held), held)
<1> DEFINE acts(i) == \/ signal[Universe[i]] = "buy" /\ held[Universe[i]] = 0
                      \/ signal[Universe[i]] = "sell" /\ held[Universe[i]] > 0
           S == {i \in DOMAIN Universe : acts(i)}
           R == {p \in S \X S : p[1] < p[2]}
           places == Ordered(S, LAMBDA i, j : i < j)
<1>1. S \subseteq Nat /\ S \subseteq DOMAIN Universe /\ IsFiniteSet(S) BY Places, FS_Subset
<1>2. PICK n \in Nat : n = Cardinality(S) BY <1>1, FS_CardinalityType
<1>3. Orders(R, S) BY <1>1 DEF Orders
<1>4. \A x \in S : Cardinality({y \in S : y < x}) = Rank(R, S, x)
  <2>1. \A x \in S : {y \in S : <<y, x>> \in R} = {y \in S : y < x} OBVIOUS
  <2> QED BY <2>1 DEF Rank
<1>5. places = [k \in 1 .. n |-> CHOOSE x \in S : Cardinality({y \in S : y < x}) = k - 1]
  BY <1>2 DEF Ordered
<1>6. Lists(places, n, S)
  <2> HIDE DEF R, S, places
  <2>1. Enumerates(places, R, S) BY <1>2, <1>4, <1>5 DEF Enumerates
  <2> QED BY <1>1, <1>2, <1>3, <2>1, OrderedLists
<1>7. PICK q : q = [k \in 1 .. n |-> Universe[places[k]]] OBVIOUS
<1>8. Lists(q, n, Symbols)
  <2>1. \A i, j \in DOMAIN Universe : i # j => Universe[i] # Universe[j] BY UniverseAssumption
  <2> HIDE DEF R, S, places
  <2> QED BY <1>1, <1>6, <1>7, <2>1, Places DEF Lists
<1>9. Acted(signal, held) = [k \in DOMAIN q |-> Toggled(q[k], held)]
  <2>1. DOMAIN places = 1 .. n BY <1>5
  <2>2. Acted(signal, held) = [k \in DOMAIN places |-> Toggled(Universe[places[k]], held)]
    BY DEF Acted
  <2> HIDE DEF R, S, places
  <2> QED BY <1>7, <2>1, <2>2
<1> HIDE DEF places
<1> QED BY <1>8, <1>9, TogglesOf

\* Ranked by a fraction, and by number where fractions are equal.
LEMMA RankedByFraction ==
  ASSUME NEW S \in SUBSET Nat, NEW num \in [S -> Int], NEW den \in [S -> Nat \ {0}], NEW R,
         \A x, y \in S : <<x, y>> \in R <=>
            \/ num[x] * den[y] > num[y] * den[x]
            \/ num[x] * den[y] = num[y] * den[x] /\ x < y
  PROVE  Orders(R, S)
<1>1. \A x, y \in S : num[x] * den[y] \in Int /\ num[y] * den[x] \in Int
  <2> TAKE x, y \in S
  <2>1. PICK a \in Int, b \in Nat, c \in Int, d \in Nat :
          a = num[x] /\ b = den[y] /\ c = num[y] /\ d = den[x]
    OBVIOUS
  <2> QED BY <2>1
<1> DEFINE at(x, y) == num[x] * den[y]
<1>2. \A x, y \in S : <<x, y>> \in R <=> at(x, y) > at(y, x) \/ (at(x, y) = at(y, x) /\ x < y)
  OBVIOUS
<1>3. ASSUME NEW x \in S, NEW y \in S, NEW z \in S, at(x, y) >= at(y, x), at(y, z) >= at(z, y)
      PROVE  at(x, z) >= at(z, x) /\
               (at(x, y) > at(y, x) \/ at(y, z) > at(z, y) => at(x, z) > at(z, x))
  <2>1. PICK a1 \in Int, a2 \in Int, a3 \in Int,
             b1 \in Nat \ {0}, b2 \in Nat \ {0}, b3 \in Nat \ {0} :
          /\ a1 = num[x] /\ a2 = num[y] /\ a3 = num[z]
          /\ b1 = den[x] /\ b2 = den[y] /\ b3 = den[z]
    OBVIOUS
  <2>2. a1 * b2 >= a2 * b1 /\ a2 * b3 >= a3 * b2 BY <1>3, <2>1
  <2>3. a1 * b3 >= a3 * b1 /\ (a1 * b2 > a2 * b1 \/ a2 * b3 > a3 * b2 => a1 * b3 > a3 * b1)
    BY <2>2, Fractions
  <2> QED BY <2>1, <2>3, Zenon
<1>4. \A x, y \in S : at(x, y) \in Int BY <1>1
<1> HIDE DEF at
<1>5. ASSUME NEW x \in S, NEW y \in S, NEW z \in S, <<x, y>> \in R, <<y, z>> \in R
      PROVE  <<x, z>> \in R
  <2>1. at(x, y) >= at(y, x) /\ at(y, z) >= at(z, y) BY <1>2, <1>4, <1>5
  <2> QED BY <1>2, <1>3, <1>4, <1>5, <2>1
<1>6. \A x \in S : <<x, x>> \notin R BY <1>2, <1>4
<1>7. \A x, y \in S : x # y => <<x, y>> \in R \/ <<y, x>> \in R BY <1>2, <1>4
<1> QED BY <1>5, <1>6, <1>7 DEF Orders

LEMMA TogglesJoin ==
  ASSUME NEW held \in [Symbols -> Nat], NEW m, NEW n, NEW q, NEW r,
         Lists(q, m, Symbols), Lists(r, n, Symbols),
         \A i \in 1 .. m, j \in 1 .. n : q[i] # r[j]
  PROVE  Toggles([i \in DOMAIN q |-> Toggled(q[i], held)] \o
                 [i \in DOMAIN r |-> Toggled(r[i], held)], held)
<1> USE DEF Lists
<1>1. PICK l \in Nat : l = m + n OBVIOUS
<1>2. PICK w : w = [i \in 1 .. l |-> IF i <= m THEN q[i] ELSE r[i - m]] OBVIOUS
<1>3. \A i \in 1 .. l : IF i <= m THEN i \in 1 .. m /\ w[i] = q[i]
                        ELSE i - m \in 1 .. n /\ w[i] = r[i - m]
  BY <1>1, <1>2
<1>4. w \in [1 .. l -> Symbols]
  <2>1. \A i \in 1 .. l : w[i] \in Symbols BY <1>3
  <2> QED BY <1>2, <2>1
<1>5. Lists(w, l, Symbols) BY <1>3, <1>4
<1>6. PICK a \in Seq(Intents), b \in Seq(Intents) :
        /\ a = [i \in 1 .. m |-> Toggled(q[i], held)] /\ Len(a) = m
        /\ b = [i \in 1 .. n |-> Toggled(r[i], held)] /\ Len(b) = n
  <2>1. \A s \in Symbols : Toggled(s, held) \in Intents BY ToggledIntent
  <2>2. PICK a, b : /\ a = [i \in 1 .. m |-> Toggled(q[i], held)]
                    /\ b = [i \in 1 .. n |-> Toggled(r[i], held)]
    OBVIOUS
  <2>3. a \in Seq(Intents) /\ b \in Seq(Intents) BY <2>1, <2>2
  <2>4. Len(a) = m /\ Len(b) = n BY <2>2, <2>3
  <2> QED BY <2>2, <2>3, <2>4
<1>7. a \o b = [i \in 1 .. l |-> Toggled(w[i], held)]
  <2>1. a \o b \in Seq(Intents) /\ Len(a \o b) = l BY <1>1, <1>6
  <2>2. \A i \in 1 .. l : (a \o b)[i] = IF i <= m THEN a[i] ELSE b[i - m] BY <1>1, <1>6
  <2>3. \A i \in 1 .. l : (a \o b)[i] = Toggled(w[i], held) BY <1>3, <1>6, <2>2
  <2>4. PICK c \in Seq(Intents) : c = a \o b BY <2>1
  <2>5. c \in [1 .. l -> Intents] BY <2>1, <2>4, LenProperties
  <2>6. c = [i \in 1 .. l |-> c[i]] BY <2>5
  <2> QED BY <2>3, <2>4, <2>6
<1> USE <1>1
<1> HIDE DEF Lists
<1>8. Toggles([i \in DOMAIN w |-> Toggled(w[i], held)], held) BY <1>5, TogglesOf
<1>9. DOMAIN q = 1 .. m /\ DOMAIN r = 1 .. n /\ DOMAIN w = 1 .. l BY <1>4 DEF Lists
<1>10. Toggles(a \o b, held) BY <1>7, <1>8, <1>9, Zenon
<1> QED BY <1>6, <1>9, <1>10, Zenon

\* The best are those with few above them; they and the others are listed in
\* the order, each once.
LEMMA MomentumToggles ==
  ASSUME NEW p, IsStrategy(p), p.key = "momentum-rotation", NEW snap \in Runs
  PROVE  Toggles(Momentum(p, snap), snap.held)
<1> DEFINE closes(s) == snap.history[s]
           ago(s, n) == closes(s)[Len(closes(s)) - n]
           scored == {s \in Symbols : Len(closes(s)) > p.long}
           better(s, t) ==
             LET gap == ago(s, p.short) * ago(t, p.long) - ago(t, p.short) * ago(s, p.long)
             IN gap > 0 \/ (gap = 0 /\ s < t)
           best == {s \in scored : Cardinality({t \in scored : better(t, s)}) < p.top}
           toBuy == {s \in best : snap.held[s] = 0}
           toSell == {s \in scored \ best : snap.held[s] > 0}
           buys == Ordered(toBuy, better)
           sells == Ordered(toSell, better)
           num == [s \in scored |-> ago(s, p.short)]
           den == [s \in scored |-> ago(s, p.long)]
           R == {q \in scored \X scored : better(q[1], q[2])}
<1>1. PICK held \in [Symbols -> Nat] : held = snap.held BY DEF Runs
<1>2. \A s \in Symbols : closes(s) \in Seq(Price) BY DEF Runs
<1>3. p.long \in Nat /\ p.short \in 0 .. p.long BY DEF IsStrategy
<1>4. ASSUME NEW s \in scored, NEW n \in 0 .. p.long PROVE ago(s, n) \in Price
  <2>1. PICK c \in Seq(Price) : c = closes(s) BY <1>2
  <2>2. Len(c) \in Nat /\ Len(c) > p.long BY <2>1
  <2>3. Len(c) - n \in 1 .. Len(c) BY <1>3, <2>2
  <2> QED BY <2>1, <2>3
<1>5. p.long \in 0 .. p.long BY <1>3
<1>6. num \in [scored -> Int] /\ den \in [scored -> Nat \ {0}]
  <2> HIDE DEF ago
  <2>1. \A s \in scored : ago(s, p.short) \in Int /\ ago(s, p.long) \in Nat \ {0}
    BY <1>3, <1>4, <1>5 DEF Price
  <2> HIDE DEF scored
  <2> QED BY <2>1
<1>7. scored \subseteq Symbols /\ scored \subseteq Nat /\ IsFiniteSet(scored)
  BY Places, FS_Subset
<1>8. Orders(R, scored)
  <2>1. \A x, y \in scored : better(x, y) <=>
            \/ num[x] * den[y] > num[y] * den[x]
            \/ num[x] * den[y] = num[y] * den[x] /\ x < y
    <3> HIDE DEF ago, scored
    <3> TAKE x, y \in scored
    <3>1. PICK a \in Int, b \in Nat, c \in Int, d \in Nat :
            /\ a = num[x] /\ b = den[y] /\ c = num[y] /\ d = den[x]
            /\ a = ago(x, p.short) /\ b = ago(y, p.long)
            /\ c = ago(y, p.short) /\ d = ago(x, p.long)
      <4> HIDE DEF num, den
      <4>1. num[x] \in Int /\ num[y] \in Int /\ den[x] \in Nat /\ den[y] \in Nat BY <1>6
      <4>2. /\ num[x] = ago(x, p.short) /\ den[y] = ago(y, p.long)
            /\ num[y] = ago(y, p.short) /\ den[x] = ago(x, p.long)
        BY DEF num, den
      <4> QED BY <4>1, <4>2
    <3>2. PICK e \in Int, f \in Int : e = a * b /\ f = c * d OBVIOUS
    <3>3. better(x, y) <=> (e - f > 0 \/ (e - f = 0 /\ x < y)) BY <3>1, <3>2
    <3>4. (e - f > 0 <=> e > f) /\ (e - f = 0 <=> e = f) OBVIOUS
    <3> HIDE DEF num, den, better
    <3> QED BY <3>1, <3>2, <3>3, <3>4
  <2>2. \A x, y \in scored : <<x, y>> \in R <=> better(x, y) BY Zenon
  <2> HIDE DEF R, scored, num, den, better
  <2> QED BY <1>6, <1>7, <2>1, <2>2, RankedByFraction
<1>9. ASSUME NEW T \in SUBSET scored PROVE Lists(Ordered(T, better), Cardinality(T), T)
  <2>1. \A x, y \in scored : <<x, y>> \in R <=> better(x, y) BY Zenon
  <2> HIDE DEF R, scored, better
  <2>2. IsFiniteSet(T) BY <1>7, FS_Subset
  <2>3. Orders(R, T) BY <1>8 DEF Orders
  <2>4. \A x \in T : Cardinality({y \in T : better(y, x)}) = Rank(R, T, x)
    <3>1. \A x \in T : {y \in T : <<y, x>> \in R} = {y \in T : better(y, x)} BY <2>1
    <3> QED BY <3>1 DEF Rank
  <2>5. PICK q : q = Ordered(T, better) OBVIOUS
  <2>6. q = [k \in 1 .. Cardinality(T) |->
              CHOOSE x \in T : Cardinality({y \in T : better(y, x)}) = k - 1]
    BY <2>5 DEF Ordered
  <2>7. Enumerates(q, R, T)
    <3>1. PICK n : n = Cardinality(T) OBVIOUS
    <3> QED BY <2>4, <2>6, <3>1 DEF Enumerates
  <2>8. Lists(q, Cardinality(T), T) BY <2>2, <2>3, <2>7, OrderedLists
  <2> QED BY <2>5, <2>8
<1> HIDE DEF better, scored
<1>10. Lists(buys, Cardinality(toBuy), toBuy)
  <2>1. toBuy \in SUBSET scored OBVIOUS
  <2> HIDE DEF toBuy
  <2> QED BY <1>9, <2>1
<1>11. Lists(sells, Cardinality(toSell), toSell)
  <2>1. toSell \in SUBSET scored OBVIOUS
  <2> HIDE DEF toSell
  <2> QED BY <1>9, <2>1
<1>12. Momentum(p, snap) = [i \in DOMAIN buys |-> Toggled(buys[i], snap.held)] \o
                           [i \in DOMAIN sells |-> Toggled(sells[i], snap.held)]
  BY DEF Momentum, better, scored
<1>13. toBuy \cap toSell = {} /\ toBuy \subseteq Symbols /\ toSell \subseteq Symbols BY <1>7
<1> HIDE DEF toBuy, toSell, buys, sells
<1>14. Lists(buys, Cardinality(toBuy), Symbols) /\ Lists(sells, Cardinality(toSell), Symbols)
  BY <1>10, <1>11, <1>13 DEF Lists
<1>15. \A i \in 1 .. Cardinality(toBuy), j \in 1 .. Cardinality(toSell) : buys[i] # sells[j]
  BY <1>10, <1>11, <1>13 DEF Lists
<1>16. Toggles([i \in DOMAIN buys |-> Toggled(buys[i], held)] \o
               [i \in DOMAIN sells |-> Toggled(sells[i], held)], held)
  BY <1>14, <1>15, TogglesJoin
<1> QED BY <1>1, <1>12, <1>16, Zenon

\* Whatever a registered strategy decides, it buys what is not held or sells
\* what is, no more than is held, and a symbol at most once.
LEMMA DecideToggles ==
  ASSUME NEW p, IsStrategy(p), NEW snap \in Runs
  PROVE  Toggles(Decide(p, snap), snap.held)
<1>1. snap.held \in [Symbols -> Nat] BY DEF Runs
<1>2. p.key \in Keys BY DEF IsStrategy
<1>3. CASE p.key = "momentum-rotation"
  <2>1. Decide(p, snap) = Momentum(p, snap) BY <1>3 DEF Decide
  <2> QED BY <1>3, <2>1, MomentumToggles
<1>4. CASE p.key # "momentum-rotation"
  <2>1. \E signal : Decide(p, snap) = Acted(signal, snap.held)
    BY <1>2, <1>4
    DEF Keys, Decide, SmaCross, RsiReversion, DonchianBreakout, BollingerReversion, MacdCross
  <2> QED BY <1>1, <2>1, ActedToggles
<1> QED BY <1>3, <1>4

-----------------------------------------------------------------------------
(* Sums.                                                                   *)

\* f holds the sums of the beginnings of s.
Sums(f, s, n) ==
  f \in [0 .. n -> Int] /\ f[0] = 0 /\ \A i \in 1 .. n : f[i] = f[i - 1] + s[i]

LEMMA TotalIsSum ==
  ASSUME NEW n \in Nat, NEW s \in [1 .. n -> Int]
  PROVE  \E f : Sums(f, s, n) /\ Total(s) = f[n]
<1> DEFINE Is(g) == g = [i \in 0 .. n |-> IF i = 0 THEN 0 ELSE g[i - 1] + s[i]]
           u == CHOOSE g : Is(g)
           step == [i \in 1 .. n |-> [x \in Int |-> x + s[i]]]
<1>1. step \in [1 .. n -> [Int -> Int]] OBVIOUS
<1>2. PICK f : Built(f, Int, 0, step, n)
  <2> HIDE DEF step
  <2>1. 0 \in Int OBVIOUS
  <2> QED BY <1>1, <2>1, StepByStep, Zenon
<1>3. f \in [0 .. n -> Int] /\ f[0] = 0 /\ \A i \in 1 .. n : f[i] = f[i - 1] + s[i]
  <2>1. \A i \in 1 .. n, x \in Int : step[i][x] = x + s[i] OBVIOUS
  <2> HIDE DEF step
  <2>2. f \in [0 .. n -> Int] /\ f[0] = 0 /\ \A i \in 1 .. n : f[i] = step[i][f[i - 1]]
    BY <1>2 DEF Built
  <2>3. \A i \in 1 .. n : f[i - 1] \in Int BY <2>2
  <2>4. \A i \in 1 .. n : f[i] = f[i - 1] + s[i] BY <2>1, <2>2, <2>3, Zenon
  <2> QED BY <2>2, <2>4, Zenon
<1>4. Is(f)
  <2>1. \A i \in 0 .. n : f[i] = IF i = 0 THEN 0 ELSE f[i - 1] + s[i] BY <1>3
  <2> QED BY <1>3, <2>1
<1>5. Is(u) BY <1>4
<1>6. Len(s) = n OBVIOUS
<1>7. Total(s) = u[n] BY <1>6 DEF Total
<1> HIDE DEF u
<1>8. u[0] = 0 /\ \A i \in 1 .. n : u[i] = u[i - 1] + s[i] BY <1>5
<1>9. u \in [0 .. n -> Int]
  <2> DEFINE P == {i \in 0 .. n : u[i] \in Int}
  <2>1. 0 \in P BY <1>8
  <2>2. \A i \in 1 .. n : i - 1 \in P => i \in P BY <1>8
  <2>3. \A i \in 0 .. n : i \in P
    <3> HIDE DEF P
    <3> QED BY <2>1, <2>2, UpTo
  <2>4. \A i \in 0 .. n : u[i] \in Int BY <2>3
  <2> QED BY <1>5, <2>4
<1> QED BY <1>7, <1>8, <1>9 DEF Sums

LEMMA SumsAreEqual ==
  ASSUME NEW n \in Nat, NEW s, NEW f, NEW g, Sums(f, s, n), Sums(g, s, n)
  PROVE  f[n] = g[n]
<1> DEFINE P == {i \in 0 .. n : f[i] = g[i]}
<1>1. 0 \in P BY DEF Sums
<1>2. \A i \in 1 .. n : i - 1 \in P => i \in P BY DEF Sums
<1>3. n \in P
  <2> HIDE DEF P
  <2> QED BY <1>1, <1>2, UpTo
<1> QED BY <1>3

LEMMA TotalOf ==
  ASSUME NEW n \in Nat, NEW s \in [1 .. n -> Int], NEW f, Sums(f, s, n)
  PROVE  Total(s) = f[n]
<1>1. PICK g : Sums(g, s, n) /\ Total(s) = g[n] BY TotalIsSum
<1> QED BY <1>1, SumsAreEqual

LEMMA TotalType ==
  ASSUME NEW n \in Nat, NEW s \in [1 .. n -> Int]
  PROVE  Total(s) \in Int
<1>1. PICK f : Sums(f, s, n) /\ Total(s) = f[n] BY TotalIsSum
<1> QED BY <1>1 DEF Sums

-----------------------------------------------------------------------------
(* The engine keeps its books: a run stays a run, and what is held has a   *)
(* price.                                                                  *)

Books == {r \in Runs : \A s \in Symbols : r.held[s] > 0 => s \in DOMAIN r.quotes}

LEMMA NewRunBooks == NewRun \in Books
<1>1. NewRun \in Runs
  <2>1. <<>> \in Quotes
    <3>1. <<>> \in [{} -> Price] OBVIOUS
    <3>2. {} \in SUBSET Symbols OBVIOUS
    <3> QED BY <3>1, <3>2 DEF Quotes
  <2>2. InitialCash * Unit \in Int BY MoneyAssumption
  <2>3. [s \in Symbols |-> 0] \in [Symbols -> Nat] OBVIOUS
  <2>4. [s \in Symbols |-> <<>>] \in [Symbols -> Seq(Price)] OBVIOUS
  <2>5. <<>> \in Seq(Fill) /\ <<>> \in Seq(Int) OBVIOUS
  <2> QED BY <2>1, <2>2, <2>3, <2>4, <2>5 DEF NewRun, Runs
<1>2. \A s \in Symbols : NewRun.held[s] = 0 BY DEF NewRun
<1> QED BY <1>1, <1>2 DEF Books

LEMMA QuotedBooks ==
  ASSUME NEW r \in Books, NEW bar \in Bars
  PROVE  Quoted(r, bar) \in Books /\ Quoted(r, bar).held = r.held
<1>1. r \in Runs BY DEF Books
<1>2. PICK T \in SUBSET Symbols : r.quotes \in [T -> Price] BY <1>1 DEF Runs, Quotes
<1>3. PICK q : q = [s \in DOMAIN r.quotes \cup {bar.symbol} |->
                      IF s = bar.symbol THEN bar.close ELSE r.quotes[s]]
  OBVIOUS
<1>4. bar.symbol \in Symbols /\ bar.close \in Price BY DEF Bars, Price
<1>5. q \in [T \cup {bar.symbol} -> Price] BY <1>2, <1>3, <1>4
<1>6. q \in Quotes BY <1>4, <1>5 DEF Quotes
<1>7. Quoted(r, bar) = [r EXCEPT !.quotes = q] BY <1>3 DEF Quoted
<1>8. Quoted(r, bar) \in Runs BY <1>1, <1>6, <1>7 DEF Runs
<1>9. Quoted(r, bar).held = r.held /\ Quoted(r, bar).quotes = q BY <1>1, <1>7 DEF Runs
<1>10. DOMAIN r.quotes \subseteq DOMAIN q BY <1>2, <1>5
<1> QED BY <1>8, <1>9, <1>10 DEF Books

LEMMA ExecuteBooks ==
  ASSUME NEW r \in Books, NEW intent \in Intents
  PROVE  Execute(r, intent) \in Books
<1> SUFFICES ASSUME FillsNow(r.quotes, intent) PROVE Execute(r, intent) \in Books
  BY DEF Execute
<1> DEFINE fill == [symbol |-> intent.symbol, side |-> intent.side, quantity |-> intent.quantity,
                    price |-> FillPrice(r.quotes, intent), bar |-> Len(r.curve) + 1]
           cash == r.cash + Unit * Signed(fill) - Commission(fill) - Tax(fill)
           held == HeldAfter(r.held, fill)
<1>1. r \in Runs BY DEF Books
<1>2. PICK T \in SUBSET Symbols : r.quotes \in [T -> Price] BY <1>1 DEF Runs, Quotes
<1>3. /\ intent.symbol \in T /\ intent.symbol \in Symbols
      /\ intent.side \in {"buy", "sell"} /\ intent.quantity \in Nat /\ intent.limit \in Nat
  BY <1>2 DEF FillsNow, Intents
<1>4. FillPrice(r.quotes, intent) \in Nat BY <1>2, <1>3 DEF FillPrice, Price
<1>5. r.curve \in Seq(Int) /\ r.cash \in Int /\ r.held \in [Symbols -> Nat] /\ r.fills \in Seq(Fill)
  BY <1>1 DEF Runs
<1>6. fill \in Fill BY <1>3, <1>4, <1>5 DEF Fill
<1>7. cash \in Int
  <2>1. PICK q \in Nat, v \in Nat : q = fill.quantity /\ v = fill.price BY <1>6 DEF Fill
  <2>2. q * v \in Int /\ -q * v \in Int OBVIOUS
  <2>3. Signed(fill) \in Int BY <2>1, <2>2 DEF Signed
  <2>4. Commission(fill) \in Int BY <2>1, MoneyAssumption DEF Commission
  <2>5. Tax(fill) \in Int BY <2>1, MoneyAssumption DEF Tax
  <2>6. Unit \in Int BY MoneyAssumption
  <2> HIDE DEF fill
  <2>7. Unit * Signed(fill) \in Int BY <2>3, <2>6
  <2> QED BY <1>5, <2>4, <2>5, <2>7
<1>8. held \in [Symbols -> Nat] /\ \A s \in Symbols : held[s] > 0 => s \in T
  <2>1. /\ fill.symbol = intent.symbol /\ fill.quantity \in Nat
        /\ fill.side \in {"buy", "sell"} BY <1>3
  <2>2. \A s \in Symbols : r.held[s] > 0 => s \in T BY <1>2 DEF Books
  <2> HIDE DEF fill
  <2>3. PICK s \in Symbols : s = fill.symbol BY <1>3, <2>1
  <2>4. CASE fill.side = "buy"
    <3>1. held = [r.held EXCEPT ![s] = @ + fill.quantity] BY <2>3, <2>4 DEF HeldAfter
    <3> HIDE DEF held
    <3> QED BY <1>3, <1>5, <2>1, <2>2, <2>3, <3>1
  <2>5. CASE fill.side = "sell" /\ fill.quantity <= r.held[s]
    <3>1. held = [r.held EXCEPT ![s] = @ - fill.quantity] BY <2>3, <2>5 DEF HeldAfter
    <3> HIDE DEF held
    <3> QED BY <1>3, <1>5, <2>1, <2>2, <2>3, <2>5, <3>1
  <2>6. CASE fill.side = "sell" /\ ~(fill.quantity <= r.held[s])
    <3>1. held = r.held BY <2>3, <2>6 DEF HeldAfter
    <3> QED BY <1>5, <2>2, <3>1
  <2> QED BY <2>1, <2>4, <2>5, <2>6
<1>9. Execute(r, intent) = [r EXCEPT !.cash = cash, !.held = held, !.fills = Append(@, fill)]
  BY DEF Execute
<1>10. Append(r.fills, fill) \in Seq(Fill)
  <2> HIDE DEF fill
  <2> QED BY <1>5, <1>6
<1> HIDE DEF fill, cash, held
<1>11. /\ Execute(r, intent) \in Runs
       /\ Execute(r, intent).held = held /\ Execute(r, intent).quotes = r.quotes
  BY <1>1, <1>7, <1>8, <1>9, <1>10 DEF Runs
<1> QED BY <1>2, <1>8, <1>11 DEF Books

\* The runs between the intents of one bar, and what follows the last.
Executions(intents) == [i \in 1 .. Len(intents) |-> [x \in Books |-> Execute(x, intents[i])]]
Closed(r, bar) ==
  [r EXCEPT !.history = Push(@, bar), !.curve = Append(@, r.cash + Unit * OpenValue(r))]

LEMMA TradeSteps ==
  ASSUME NEW r \in Books, NEW bar \in Bars, NEW intents \in Seq(Intents)
  PROVE  \E u : /\ Built(u, Books, Quoted(r, bar), Executions(intents), Len(intents))
                /\ Trade(r, bar, intents) = Closed(u[Len(intents)], bar)
<1> DEFINE Is(g) == g = [i \in 0 .. Len(intents) |->
                          IF i = 0 THEN Quoted(r, bar) ELSE Execute(g[i - 1], intents[i])]
           u == CHOOSE g : Is(g)
<1>1. PICK n \in Nat : n = Len(intents) OBVIOUS
<1>2. PICK step : step = Executions(intents) OBVIOUS
<1>3. PICK base \in Books : base = Quoted(r, bar) BY QuotedBooks
<1>4. \A i \in 1 .. n, x \in Books : step[i][x] = Execute(x, intents[i])
  BY <1>1, <1>2 DEF Executions
<1>5. step \in [1 .. n -> [Books -> Books]]
  <2>1. \A i \in 1 .. n : intents[i] \in Intents BY <1>1
  <2>2. \A i \in 1 .. n, x \in Books : Execute(x, intents[i]) \in Books BY <2>1, ExecuteBooks
  <2> QED BY <1>1, <1>2, <2>2 DEF Executions
<1>6. PICK f : Built(f, Books, base, step, n) BY <1>3, <1>5, StepByStep
<1>7. Is(f)
  <2>1. f \in [0 .. n -> Books] /\ f[0] = base /\ \A i \in 1 .. n : f[i] = step[i][f[i - 1]]
    BY <1>6 DEF Built
  <2>2. \A i \in 1 .. n : f[i - 1] \in Books BY <2>1
  <2>3. \A i \in 1 .. n : f[i] = Execute(f[i - 1], intents[i]) BY <1>4, <2>1, <2>2, Zenon
  <2>4. \A i \in 0 .. n : f[i] = IF i = 0 THEN Quoted(r, bar) ELSE Execute(f[i - 1], intents[i])
    BY <1>3, <2>1, <2>3
  <2> QED BY <1>1, <2>1, <2>4
<1>8. Is(u) BY <1>7
<1>9. Trade(r, bar, intents) = Closed(u[Len(intents)], bar) BY DEF Trade, Closed
<1> HIDE DEF u
<1>10. u[0] = base /\ \A i \in 1 .. n : u[i] = Execute(u[i - 1], intents[i])
  BY <1>1, <1>3, <1>8
<1>11. \A i \in 1 .. n : u[i - 1] \in Books => u[i] = step[i][u[i - 1]]
  BY <1>4, <1>10, Zenon
<1>12. u = [i \in 0 .. n |-> u[i]] BY <1>1, <1>8
<1>13. Built(u, Books, base, step, n) BY <1>3, <1>5, <1>10, <1>11, <1>12, Unfolds
<1> QED BY <1>1, <1>2, <1>3, <1>9, <1>13

LEMMA OpenValueType ==
  ASSUME NEW r \in Books
  PROVE  OpenValue(r) \in Int
<1> DEFINE value == [i \in DOMAIN Universe |->
                      IF r.held[Universe[i]] > 0
                      THEN r.held[Universe[i]] * r.quotes[Universe[i]] ELSE 0]
<1>1. PICK n \in Nat : DOMAIN Universe = 1 .. n BY UniverseAssumption
<1>2. PICK T \in SUBSET Symbols : r.quotes \in [T -> Price] BY DEF Books, Runs, Quotes
<1>3. ASSUME NEW i \in 1 .. n, r.held[Universe[i]] > 0
      PROVE  r.held[Universe[i]] * r.quotes[Universe[i]] \in Int
  <2>1. PICK s \in Symbols : s = Universe[i] BY <1>1, Places
  <2>2. r.held[s] \in Nat BY DEF Books, Runs
  <2>3. s \in T BY <1>2, <1>3, <2>1 DEF Books
  <2>4. r.quotes[s] \in Nat BY <1>2, <2>3 DEF Price
  <2>5. PICK a \in Nat, b \in Nat : a = r.held[s] /\ b = r.quotes[s] BY <2>2, <2>4
  <2>6. a * b \in Int OBVIOUS
  <2> QED BY <2>1, <2>5, <2>6
<1>4. value \in [1 .. n -> Int] BY <1>1, <1>3
<1>5. OpenValue(r) = Total(value) BY DEF OpenValue
<1> HIDE DEF value
<1> QED BY <1>4, <1>5, TotalType

LEMMA PushType ==
  ASSUME NEW history \in [Symbols -> Seq(Price)], NEW bar \in Bars
  PROVE  Push(history, bar) \in [Symbols -> Seq(Price)]
<1>1. PICK s \in Symbols, c \in Price : s = bar.symbol /\ c = bar.close BY DEF Bars, Price
<1>2. PICK closes \in Seq(Price) : closes = Append(history[s], c)
  <2>1. PICK old \in Seq(Price) : old = history[s] OBVIOUS
  <2>2. Append(old, c) \in Seq(Price) BY <2>1
  <2> QED BY <2>1, <2>2
<1>3. Len(closes) > HistoryCapacity => Recent(closes, HistoryCapacity) \in Seq(Price)
  <2> SUFFICES ASSUME Len(closes) > HistoryCapacity
               PROVE  Recent(closes, HistoryCapacity) \in Seq(Price)
    OBVIOUS
  <2>1. PICK m \in Int, n \in Nat : m = Len(closes) - HistoryCapacity + 1 /\ n = Len(closes)
    <3>1. PICK k \in Nat, n \in Nat : k = HistoryCapacity /\ n = Len(closes)
      BY CapacityAssumption, LenProperties
    <3>2. n - k + 1 \in Int OBVIOUS
    <3> QED BY <3>1, <3>2
  <2>2. m \in 1 .. n BY <2>1, CapacityAssumption
  <2>3. \A i \in m .. n : closes[i] \in Price BY <2>1, <2>2
  <2>4. SubSeq(closes, m, n) \in Seq(Price) BY <2>2, <2>3, SubSeqProperties
  <2> QED BY <2>1, <2>4 DEF Recent
<1>4. Push(history, bar) =
        [history EXCEPT ![s] = IF Len(closes) > HistoryCapacity
                               THEN Recent(closes, HistoryCapacity) ELSE closes]
  BY <1>1, <1>2 DEF Push
<1> QED BY <1>3, <1>4

LEMMA TradeBooks ==
  ASSUME NEW r \in Books, NEW bar \in Bars, NEW intents \in Seq(Intents)
  PROVE  Trade(r, bar, intents) \in Books
<1>1. PICK u : /\ Built(u, Books, Quoted(r, bar), Executions(intents), Len(intents))
               /\ Trade(r, bar, intents) = Closed(u[Len(intents)], bar)
  BY TradeSteps
<1>2. PICK t \in Books : t = u[Len(intents)] BY <1>1 DEF Built
<1>3. t \in Runs BY DEF Books
<1>4. PICK h, v : h = Push(t.history, bar) /\ v = t.cash + Unit * OpenValue(t) OBVIOUS
<1>5. h \in [Symbols -> Seq(Price)]
  <2>1. t.history \in [Symbols -> Seq(Price)] BY <1>3 DEF Runs
  <2> QED BY <1>4, <2>1, PushType
<1>6. v \in Int
  <2>1. PICK a \in Int, b \in Int, c \in Int : a = t.cash /\ b = Unit /\ c = OpenValue(t)
    BY <1>3, OpenValueType, MoneyAssumption DEF Runs
  <2>2. a + b * c \in Int OBVIOUS
  <2> QED BY <1>4, <2>1, <2>2
<1>7. Append(t.curve, v) \in Seq(Int) BY <1>3, <1>6 DEF Runs
<1>8. Closed(t, bar) = [t EXCEPT !.history = h, !.curve = Append(t.curve, v)]
  BY <1>3, <1>4 DEF Closed, Runs
<1>9. /\ Closed(t, bar) \in Runs /\ Closed(t, bar).held = t.held
      /\ Closed(t, bar).quotes = t.quotes
  BY <1>3, <1>5, <1>7, <1>8 DEF Runs
<1>10. Closed(t, bar) \in Books BY <1>9 DEF Books
<1> QED BY <1>1, <1>2, <1>10

LEMMA PlayedBooks ==
  ASSUME NEW p, IsStrategy(p), NEW r \in Books, NEW bar \in Bars
  PROVE  Played(p, r, bar) \in Books
<1>1. PICK snap \in Books : snap = Quoted(r, bar) BY QuotedBooks
<1>2. snap \in Runs BY DEF Books
<1>3. Decide(p, snap) \in Seq(Intents) BY <1>2, DecideToggles DEF Toggles
<1> QED BY <1>1, <1>3, TradeBooks DEF Played

\* A whole run of a registered strategy, bar by bar.
Plays(p, bars) == [i \in 1 .. Len(bars) |-> [x \in Books |-> Played(p, x, bars[i])]]

LEMMA RunSteps ==
  ASSUME NEW p, IsStrategy(p), NEW bars \in Seq(Bars)
  PROVE  \E u : Built(u, Books, NewRun, Plays(p, bars), Len(bars)) /\ Run(p, bars) = u[Len(bars)]
<1> DEFINE Is(g) == g = [i \in 0 .. Len(bars) |->
                          IF i = 0 THEN NewRun ELSE Played(p, g[i - 1], bars[i])]
           u == CHOOSE g : Is(g)
<1>1. PICK n \in Nat : n = Len(bars) OBVIOUS
<1>2. PICK step : step = Plays(p, bars) OBVIOUS
<1>3. PICK base \in Books : base = NewRun BY NewRunBooks
<1>4. \A i \in 1 .. n, x \in Books : step[i][x] = Played(p, x, bars[i])
  BY <1>1, <1>2 DEF Plays
<1>5. step \in [1 .. n -> [Books -> Books]]
  <2>1. \A i \in 1 .. n : bars[i] \in Bars BY <1>1
  <2>2. \A i \in 1 .. n, x \in Books : Played(p, x, bars[i]) \in Books BY <2>1, PlayedBooks
  <2> QED BY <1>1, <1>2, <2>2 DEF Plays
<1>6. PICK f : Built(f, Books, base, step, n) BY <1>3, <1>5, StepByStep
<1>7. Is(f)
  <2>1. f \in [0 .. n -> Books] /\ f[0] = base /\ \A i \in 1 .. n : f[i] = step[i][f[i - 1]]
    BY <1>6 DEF Built
  <2>2. \A i \in 1 .. n : f[i - 1] \in Books BY <2>1
  <2>3. \A i \in 1 .. n : f[i] = Played(p, f[i - 1], bars[i]) BY <1>4, <2>1, <2>2, Zenon
  <2>4. \A i \in 0 .. n : f[i] = IF i = 0 THEN NewRun ELSE Played(p, f[i - 1], bars[i])
    BY <1>3, <2>1, <2>3
  <2> QED BY <1>1, <2>1, <2>4
<1>8. Is(u) BY <1>7
<1>9. Run(p, bars) = u[Len(bars)] BY DEF Run
<1> HIDE DEF u
<1>10. u[0] = base /\ \A i \in 1 .. n : u[i] = Played(p, u[i - 1], bars[i])
  BY <1>1, <1>3, <1>8
<1>11. \A i \in 1 .. n : u[i - 1] \in Books => u[i] = step[i][u[i - 1]]
  BY <1>4, <1>10, Zenon
<1>12. u = [i \in 0 .. n |-> u[i]] BY <1>1, <1>8
<1>13. Built(u, Books, base, step, n) BY <1>3, <1>5, <1>10, <1>11, <1>12, Unfolds
<1> QED BY <1>1, <1>2, <1>3, <1>9, <1>13

LEMMA ReturnType ==
  ASSUME NEW p, IsStrategy(p), NEW bars \in Seq(Bars)
  PROVE  Return(p, bars) \in Int
<1>1. PICK u : Built(u, Books, NewRun, Plays(p, bars), Len(bars)) /\ Run(p, bars) = u[Len(bars)]
  BY RunSteps
<1>2. PICK r \in Books : r = Run(p, bars) BY <1>1 DEF Built
<1>3. PICK c \in Seq(Int) : c = r.curve BY DEF Books, Runs
<1>4. c = <<>> \/ c[Len(c)] \in Int BY <1>3
<1>5. InitialCash * Unit \in Int BY MoneyAssumption
<1>6. Equity(r) \in Int BY <1>3, <1>4, <1>5 DEF Equity, Last
<1> QED BY <1>2, <1>6 DEF Return

-----------------------------------------------------------------------------
(* The deepest fall.                                                       *)

Peaks == [peak : Nat \ {0}, worst : Int \X (Nat \ {0})]

\* Within the first n points of c, from the a-th, a highest so far, to the b-th.
IsFall(c, n, a, b) ==
  a \in 1 .. n /\ b \in 1 .. n /\ a <= b /\ \A k \in 1 .. b : c[k] <= c[a]

WorstOf(x, c, n) ==
  /\ \E j \in 1 .. n : x.peak = c[j]
  /\ \A k \in 1 .. n : c[k] <= x.peak
  /\ \A a, b \in 1 .. n : IsFall(c, n, a, b) => (c[a] - c[b]) * x.worst[2] <= x.worst[1] * c[a]
  /\ \E a, b \in 1 .. n : IsFall(c, n, a, b) /\ (c[a] - c[b]) * x.worst[2] = x.worst[1] * c[a]

\* One more point: of the falls to it, all from a highest so far are equally deep.
LEMMA DeeperIsWorst ==
  ASSUME NEW m \in Nat, NEW c \in [1 .. m -> Int], NEW n \in 1 .. m - 1, c[1] > 0,
         NEW x \in Peaks, WorstOf(x, c, n)
  PROVE  Deeper(x, c[n + 1]) \in Peaks /\ WorstOf(Deeper(x, c[n + 1]), c, n + 1)
<1>1. PICK e \in Int, l \in Nat : e = c[n + 1] /\ l = n + 1 OBVIOUS
<1>2. PICK p \in Nat \ {0}, w1 \in Int, w2 \in Nat \ {0} :
        p = x.peak /\ w1 = x.worst[1] /\ w2 = x.worst[2] /\ x.worst = <<w1, w2>>
  <2>1. x.peak \in Nat \ {0} /\ x.worst \in Int \X (Nat \ {0}) BY DEF Peaks
  <2>2. PICK w \in Int \X (Nat \ {0}) : w = x.worst BY <2>1
  <2>3. w = <<w[1], w[2]>> /\ w[1] \in Int /\ w[2] \in Nat \ {0} BY <2>2
  <2> QED BY <2>1, <2>2, <2>3
<1>3. PICK q \in Nat \ {0} : q = IF e > p THEN e ELSE p
  <2>1. (IF e > p THEN e ELSE p) \in Nat \ {0} BY <1>1, <1>2
  <2> QED BY <2>1
<1>4. PICK d \in Nat : d = q - e BY <1>1, <1>2, <1>3
<1>5. PICK y : y = Deeper(x, e) OBVIOUS
<1>6. y.peak = q /\ y.worst = IF d * w2 > w1 * q THEN <<d, q>> ELSE <<w1, w2>>
  BY <1>2, <1>3, <1>4, <1>5 DEF Deeper
<1>7. PICK v1 \in Int, v2 \in Nat \ {0} :
        /\ y.worst = <<v1, v2>> /\ v1 = y.worst[1] /\ v2 = y.worst[2]
        /\ IF d * w2 > w1 * q THEN v1 = d /\ v2 = q ELSE v1 = w1 /\ v2 = w2
  <2>1. CASE d * w2 > w1 * q
    <3>1. y.worst = <<d, q>> /\ d \in Int BY <1>6, <2>1
    <3> QED BY <2>1, <3>1
  <2>2. CASE ~(d * w2 > w1 * q)
    <3>1. y.worst = <<w1, w2>> BY <1>6, <2>2
    <3> QED BY <2>2, <3>1
  <2> QED BY <2>1, <2>2
<1>8. y \in Peaks
  <2>1. y = [peak |-> y.peak, worst |-> y.worst] BY <1>5 DEF Deeper
  <2>2. y.worst \in Int \X (Nat \ {0}) BY <1>7
  <2> QED BY <1>6, <2>1, <2>2 DEF Peaks
<1>9. \A k \in 1 .. l : k \in 1 .. n \/ k = l BY <1>1
<1>10. /\ \A k \in 1 .. n : c[k] \in Int /\ c[k] <= p
       /\ \E j \in 1 .. n : p = c[j]
  BY <1>2 DEF WorstOf
<1>11. (\A k \in 1 .. l : c[k] <= q) /\ \E j \in 1 .. l : q = c[j]
  <2>1. \A k \in 1 .. l : c[k] <= q BY <1>1, <1>3, <1>9, <1>10
  <2>2. CASE e > p BY <1>1, <1>3, <2>1, <2>2
  <2>3. CASE ~(e > p)
    <3>1. q = p BY <1>3, <2>3
    <3> QED BY <1>1, <1>10, <2>1, <3>1
  <2> QED BY <2>2, <2>3
\* A fall from a to b, and how deep it is.
<1>12. ASSUME NEW a \in 1 .. n, NEW b \in 1 .. n, IsFall(c, n, a, b)
       PROVE  (c[a] - c[b]) * w2 <= w1 * c[a]
  BY <1>2, <1>12 DEF WorstOf
<1>13. ASSUME NEW a \in 1 .. l, NEW b \in 1 .. l, IsFall(c, l, a, b)
       PROVE  \/ a \in 1 .. n /\ b \in 1 .. n /\ IsFall(c, n, a, b)
              \/ c[a] = q /\ c[b] = e
  <2>1. CASE b \in 1 .. n
    <3>1. a \in 1 .. n BY <1>1, <1>13, <2>1 DEF IsFall
    <3> QED BY <1>13, <2>1, <3>1 DEF IsFall
  <2>2. CASE b = l
    <3>1. \A k \in 1 .. l : c[k] <= c[a] BY <1>13, <2>2 DEF IsFall
    <3>2. PICK j \in 1 .. l : q = c[j] BY <1>11
    <3>3. c[a] \in Int /\ c[a] <= q /\ q <= c[a] BY <1>1, <1>11, <3>1, <3>2
    <3>4. c[a] = q BY <3>3
    <3> QED BY <1>1, <2>2, <3>4
  <2> QED BY <1>9, <2>1, <2>2
<1>14. ASSUME NEW a \in 1 .. l, NEW b \in 1 .. l, IsFall(c, l, a, b)
       PROVE  c[a] \in Nat \ {0} /\ c[b] \in Int /\ c[a] >= c[1]
  <2>1. c[a] \in Int /\ c[b] \in Int /\ c[1] \in Int /\ 1 \in 1 .. b BY <1>1, <1>14
  <2>2. c[1] <= c[a] BY <1>14, <2>1 DEF IsFall
  <2> QED BY <2>1, <2>2
<1>15. \A a, b \in 1 .. l : IsFall(c, l, a, b) => (c[a] - c[b]) * v2 <= v1 * c[a]
  <2> SUFFICES ASSUME NEW a \in 1 .. l, NEW b \in 1 .. l, IsFall(c, l, a, b)
               PROVE  (c[a] - c[b]) * v2 <= v1 * c[a]
    OBVIOUS
  <2>1. PICK f \in Nat \ {0}, g \in Int : f = c[a] /\ g = c[a] - c[b] BY <1>14
  <2>2. PICK s \in Int, t \in Int : s = d * w2 /\ t = w1 * q OBVIOUS
  <2>3. CASE f = q /\ g = d
    <3>1. CASE s > t
      <4>1. v1 = d /\ v2 = q BY <1>7, <2>2, <3>1
      <4>2. g * v2 = v1 * f BY <2>3, <4>1
      <4>3. g * v2 \in Int BY <2>1
      <4> QED BY <2>1, <4>2, <4>3
    <3>2. CASE ~(s > t)
      <4>1. v1 = w1 /\ v2 = w2 BY <1>7, <2>2, <3>2
      <4>2. g * v2 = s /\ v1 * f = t BY <2>2, <2>3, <4>1
      <4> QED BY <2>1, <2>2, <3>2, <4>2
    <3> QED BY <3>1, <3>2
  <2>4. CASE g * w2 <= w1 * f
    <3>1. CASE s > t
      <4>1. v1 = d /\ v2 = q BY <1>7, <2>2, <3>1
      <4>2. w1 * f >= g * w2 /\ d * w2 >= w1 * q BY <2>2, <2>4, <3>1
      <4>3. d * f >= g * q BY <4>2, Fractions
      <4>4. g * v2 = g * q /\ v1 * f = d * f BY <4>1
      <4>5. g * v2 <= v1 * f BY <4>3, <4>4
      <4> QED BY <2>1, <4>5
    <3>2. CASE ~(s > t)
      <4>1. v1 = w1 /\ v2 = w2 BY <1>7, <2>2, <3>2
      <4> QED BY <2>1, <2>4, <4>1
    <3> QED BY <3>1, <3>2
  <2> QED BY <1>4, <1>12, <1>13, <2>1, <2>3, <2>4
<1>16. \E a, b \in 1 .. l : IsFall(c, l, a, b) /\ (c[a] - c[b]) * v2 = v1 * c[a]
  <2>1. CASE d * w2 > w1 * q
    <3>1. v1 = d /\ v2 = q BY <1>7, <2>1
    <3>2. PICK j \in 1 .. l : q = c[j] BY <1>11
    <3>3. IsFall(c, l, j, l) BY <1>1, <1>11, <3>2 DEF IsFall
    <3>4. c[j] - c[l] = d BY <1>1, <1>4, <3>2
    <3>5. (c[j] - c[l]) * v2 = v1 * c[j] BY <3>1, <3>2, <3>4
    <3>6. l \in 1 .. l BY <1>1
    <3> QED BY <3>3, <3>5, <3>6
  <2>2. CASE ~(d * w2 > w1 * q)
    <3>1. v1 = w1 /\ v2 = w2 BY <1>7, <2>2
    <3>2. PICK a \in 1 .. n, b \in 1 .. n :
            IsFall(c, n, a, b) /\ (c[a] - c[b]) * w2 = w1 * c[a]
      BY <1>2 DEF WorstOf
    <3>3. IsFall(c, l, a, b) /\ a \in 1 .. l /\ b \in 1 .. l BY <1>1, <3>2 DEF IsFall
    <3> QED BY <3>1, <3>2, <3>3
  <2> QED BY <2>1, <2>2
<1>17. WorstOf(y, c, l) BY <1>6, <1>7, <1>11, <1>15, <1>16 DEF WorstOf
<1> QED BY <1>1, <1>5, <1>8, <1>17

\* The points of the equity curve, the initial cash being the first.
Points(r) == <<InitialCash * Unit>> \o r.curve
Deepened(r) == [i \in 1 .. Len(r.curve) |-> [x \in Peaks |-> Deeper(x, r.curve[i])]]
NoFall == [peak |-> InitialCash * Unit, worst |-> <<0, 1>>]

LEMMA PointsOf ==
  ASSUME NEW r \in Books, NEW n \in Nat, n = Len(r.curve)
  PROVE  /\ Points(r) \in [1 .. n + 1 -> Int] /\ Points(r)[1] = InitialCash * Unit
         /\ \A i \in 1 .. n : Points(r)[i + 1] = r.curve[i] /\ r.curve[i] \in Int
         /\ InitialCash * Unit \in Nat \ {0}
<1>1. PICK c \in Seq(Int) : c = r.curve BY DEF Books, Runs
<1>2. PICK start \in Nat \ {0} : start = InitialCash * Unit
  <2>1. PICK a \in Nat \ {0}, b \in Nat \ {0} : a = InitialCash /\ b = Unit BY MoneyAssumption
  <2>2. a * b \in Nat \ {0} OBVIOUS
  <2> QED BY <2>1, <2>2
<1>3. <<start>> \in Seq(Int) /\ Len(<<start>>) = 1 OBVIOUS
<1>4. PICK k \in Seq(Int) : k = <<start>> \o c BY <1>3, ConcatProperties
<1>5. Len(k) = n + 1 /\ \A i \in 1 .. n + 1 : k[i] = IF i <= 1 THEN <<start>>[i] ELSE c[i - 1]
  BY <1>1, <1>3, <1>4
<1>6. k \in [1 .. n + 1 -> Int] BY <1>5, LenProperties
<1>7. k[1] = start BY <1>5
<1>8. \A i \in 1 .. n : k[i + 1] = c[i] /\ c[i] \in Int
  <2> TAKE i \in 1 .. n
  <2>1. i + 1 \in 1 .. n + 1 /\ ~(i + 1 <= 1) /\ (i + 1) - 1 = i OBVIOUS
  <2> QED BY <1>1, <1>5, <2>1
<1> QED BY <1>1, <1>2, <1>4, <1>6, <1>7, <1>8 DEF Points

LEMMA DrawdownSteps ==
  ASSUME NEW r \in Books
  PROVE  \E u : /\ Built(u, Peaks, NoFall, Deepened(r), Len(r.curve))
                /\ Drawdown(r) = u[Len(r.curve)].worst
<1> DEFINE Is(g) == g = [i \in 0 .. Len(r.curve) |-> IF i = 0
                          THEN [peak |-> InitialCash * Unit, worst |-> <<0, 1>>]
                          ELSE Deeper(g[i - 1], r.curve[i])]
           u == CHOOSE g : Is(g)
<1>1. PICK n \in Nat : n = Len(r.curve)
  <2>1. r.curve \in Seq(Int) BY DEF Books, Runs
  <2> QED BY <2>1, LenProperties
<1>2. PICK step : step = Deepened(r) OBVIOUS
<1>3. PICK base \in Peaks : base = NoFall
  <2>1. InitialCash * Unit \in Nat \ {0} BY <1>1, PointsOf
  <2>2. <<0, 1>> \in Int \X (Nat \ {0}) OBVIOUS
  <2> QED BY <2>1, <2>2 DEF NoFall, Peaks
<1>4. \A i \in 1 .. n, x \in Peaks : step[i][x] = Deeper(x, r.curve[i])
  BY <1>1, <1>2 DEF Deepened
<1>5. step \in [1 .. n -> [Peaks -> Peaks]]
  <2>1. ASSUME NEW x \in Peaks, NEW e \in Int PROVE Deeper(x, e) \in Peaks
    <3>1. PICK p \in Nat \ {0}, w \in Int \X (Nat \ {0}) : p = x.peak /\ w = x.worst
      BY DEF Peaks
    <3>2. PICK q \in Nat \ {0} : q = IF e > p THEN e ELSE p
      <4>1. (IF e > p THEN e ELSE p) \in Nat \ {0} OBVIOUS
      <4> QED BY <4>1
    <3>3. <<q - e, q>> \in Int \X (Nat \ {0}) BY <3>2
    <3>4. PICK y : y = Deeper(x, e) OBVIOUS
    <3>5. y.peak = q /\ (y.worst = <<q - e, q>> \/ y.worst = w) BY <3>1, <3>2, <3>4 DEF Deeper
    <3>6. y.worst \in Int \X (Nat \ {0}) BY <3>3, <3>5
    <3>7. y = [peak |-> y.peak, worst |-> y.worst] BY <3>4 DEF Deeper
    <3> QED BY <3>4, <3>5, <3>6, <3>7 DEF Peaks
  <2>2. \A i \in 1 .. n : r.curve[i] \in Int BY <1>1, PointsOf
  <2> QED BY <1>1, <1>2, <2>1, <2>2 DEF Deepened
<1>6. PICK f : Built(f, Peaks, base, step, n) BY <1>3, <1>5, StepByStep
<1>7. Is(f)
  <2>1. f \in [0 .. n -> Peaks] /\ f[0] = base /\ \A i \in 1 .. n : f[i] = step[i][f[i - 1]]
    BY <1>6 DEF Built
  <2>2. \A i \in 1 .. n : f[i - 1] \in Peaks BY <2>1
  <2>3. \A i \in 1 .. n : f[i] = Deeper(f[i - 1], r.curve[i]) BY <1>4, <2>1, <2>2, Zenon
  <2>4. \A i \in 0 .. n : f[i] = IF i = 0 THEN NoFall ELSE Deeper(f[i - 1], r.curve[i])
    BY <1>3, <2>1, <2>3
  <2>5. \A i \in 0 .. n : f[i] = IF i = 0 THEN [peak |-> InitialCash * Unit, worst |-> <<0, 1>>]
                                 ELSE Deeper(f[i - 1], r.curve[i])
    BY <2>4, Zenon DEF NoFall
  <2> QED BY <1>1, <2>1, <2>5
<1>8. Is(u) BY <1>7
<1>9. Drawdown(r) = u[Len(r.curve)].worst BY DEF Drawdown
<1> HIDE DEF u
<1>10. u[0] = base /\ \A i \in 1 .. n : u[i] = Deeper(u[i - 1], r.curve[i])
  <2>1. PICK none : none = [peak |-> InitialCash * Unit, worst |-> <<0, 1>>] OBVIOUS
  <2>2. base = none BY <1>3, <2>1, Zenon DEF NoFall
  <2>3. u = [i \in 0 .. n |-> IF i = 0 THEN none ELSE Deeper(u[i - 1], r.curve[i])]
    BY <1>1, <1>8, <2>1, Zenon
  <2>4. u[0] = none BY <2>3
  <2>5. \A i \in 1 .. n : u[i] = Deeper(u[i - 1], r.curve[i]) BY <2>3
  <2> QED BY <2>2, <2>4, <2>5
<1>11. \A i \in 1 .. n : u[i - 1] \in Peaks => u[i] = step[i][u[i - 1]]
  BY <1>4, <1>10, Zenon
<1>12. u = [i \in 0 .. n |-> u[i]] BY <1>1, <1>8
<1>13. Built(u, Peaks, base, step, n) BY <1>3, <1>5, <1>10, <1>11, <1>12, Unfolds
<1> QED BY <1>1, <1>2, <1>3, <1>9, <1>13

LEMMA DrawdownOf ==
  ASSUME NEW r \in Books, NEW n \in Nat, n = Len(r.curve)
  PROVE  \E x \in Peaks : Drawdown(r) = x.worst /\ WorstOf(x, Points(r), n + 1)
<1>1. PICK u : /\ Built(u, Peaks, NoFall, Deepened(r), n)
               /\ Drawdown(r) = u[n].worst
  BY DrawdownSteps
<1>2. PICK m, c : m \in Nat /\ c \in [1 .. m -> Int] /\ m = n + 1 /\ c = Points(r)
  BY PointsOf
<1>3. /\ c[1] = InitialCash * Unit /\ c[1] > 0
      /\ \A i \in 1 .. n : c[i + 1] = r.curve[i]
  <2>1. PICK start \in Nat \ {0} : start = InitialCash * Unit BY PointsOf
  <2>2. c[1] = start BY <1>2, <2>1, PointsOf
  <2>3. \A i \in 1 .. n : c[i + 1] = r.curve[i] BY <1>2, PointsOf, Zenon
  <2> QED BY <2>1, <2>2, <2>3
<1>4. /\ u \in [0 .. n -> Peaks] /\ u[0] = NoFall
      /\ \A i \in 1 .. n : u[i] = Deepened(r)[i][u[i - 1]]
  BY <1>1 DEF Built
<1>5. \A i \in 1 .. n, x \in Peaks : Deepened(r)[i][x] = Deeper(x, c[i + 1])
  BY <1>3 DEF Deepened
<1>6. \A i \in 1 .. n : u[i - 1] \in Peaks BY <1>4
<1>7. \A i \in 1 .. n : u[i] = Deeper(u[i - 1], c[i + 1]) BY <1>4, <1>5, <1>6, Zenon
<1> DEFINE P == {i \in 0 .. n : WorstOf(u[i], c, i + 1)}
<1>8. 0 \in P
  <2>1. u[0].peak = c[1] /\ u[0].worst = <<0, 1>> BY <1>3, <1>4 DEF NoFall
  <2>2. u[0].worst[1] = 0 /\ u[0].worst[2] = 1 BY <2>1
  <2>3. \A k \in 1 .. 1 : k = 1 OBVIOUS
  <2>4. 1 \in 1 .. 1 /\ c[1] \in Int BY <1>2
  <2>5. IsFall(c, 1, 1, 1) BY <2>3, <2>4 DEF IsFall
  <2>6. (c[1] - c[1]) * 1 = 0 * c[1] BY <2>4
  <2>7. WorstOf(u[0], c, 1)
    <3>1. PICK v \in Int : v = c[1] BY <2>4
    <3>2. (v - v) * 1 = 0 /\ 0 * v = 0 OBVIOUS
    <3>3. \A a, b \in 1 .. 1 : (c[a] - c[b]) * u[0].worst[2] = u[0].worst[1] * c[a]
      BY <2>2, <2>3, <3>1, <3>2
    <3>4. \A a, b \in 1 .. 1 : (c[a] - c[b]) * u[0].worst[2] <= u[0].worst[1] * c[a]
      <4>1. \A a, b \in 1 .. 1 : (c[a] - c[b]) * u[0].worst[2] = 0 /\ u[0].worst[1] * c[a] = 0
        BY <2>2, <2>3, <3>1, <3>2
      <4> QED BY <4>1
    <3> QED BY <2>1, <2>3, <2>4, <2>5, <3>1, <3>3, <3>4 DEF WorstOf
  <2> QED BY <2>7
<1>9. \A i \in 1 .. n : i - 1 \in P => i \in P
  <2> TAKE i \in 1 .. n
  <2> HAVE i - 1 \in P
  <2>1. WorstOf(u[i - 1], c, i) /\ i \in 1 .. m - 1 BY <1>2
  <2>2. PICK x \in Peaks : x = u[i - 1] BY <1>6
  <2>3. WorstOf(Deeper(x, c[i + 1]), c, i + 1) BY <1>2, <1>3, <2>1, <2>2, DeeperIsWorst
  <2>4. WorstOf(u[i], c, i + 1) BY <1>7, <2>2, <2>3
  <2> QED BY <2>4
<1>10. n \in P
  <2> HIDE DEF P
  <2>1. \A i \in 0 .. n : i \in P BY <1>8, <1>9, UpTo
  <2> QED BY <2>1
<1> QED BY <1>1, <1>2, <1>4, <1>10

-----------------------------------------------------------------------------
(* The two jobs.                                                           *)

Trained == Kept(Ranked(Grid(strategy.key), TrainBars(feed)))
Validated == Ranked(Trained, ValidationBars(feed))

\* What a stage says about what has been computed so far.
LabInv ==
  /\ job \in {"backtest", "optimize"}
  /\ strategy \in Strategy \cup {Generated, Unknown}
  /\ job = "optimize" => strategy \in Strategy \cup {Unknown}
  /\ run \in Books
  /\ stage = "running" => job = "backtest" /\ strategy # Unknown
  /\ stage \in {"trained", "validated"} => job = "optimize"
  /\ stage = "done" /\ job = "backtest" => summary = Summary(run)
  /\ stage \in {"trained", "validated", "done"} /\ job = "optimize" =>
       strategy \in Strategy /\ feed \in Feeds
  /\ stage = "trained" => outcomes = Trained
  /\ stage = "validated" => outcomes = Validated
  /\ stage = "done" /\ job = "optimize" => suggestion = Validated[1]

LEMMA AdvanceBooks ==
  ASSUME NEW s \in Symbols, NEW c \in Closes, run \in Books,
         strategy \in Strategy \cup {Generated}, NEW intents,
         intents \in Decisions([symbol |-> s, close |-> c])
  PROVE  Trade(run, [symbol |-> s, close |-> c], intents) \in Books
<1>1. PICK bar : bar = [symbol |-> s, close |-> c] OBVIOUS
<1>2. bar \in Bars
  <2>1. c \in Nat \ {0} BY MarketAssumption
  <2> QED BY <1>1, <2>1 DEF Bars
<1>3. CASE strategy = Generated
  <2>1. intents \in Seq(Intents) BY <1>3, MarketAssumption DEF Decisions
  <2> QED BY <1>1, <1>2, <2>1, TradeBooks
<1>4. CASE strategy # Generated
  <2>1. PICK p \in Strategy : p = strategy BY <1>4
  <2>2. PICK snap \in Books : snap = Quoted(run, bar) BY <1>2, QuotedBooks
  <2>3. intents = Decide(p, snap) BY <1>1, <1>4, <2>1, <2>2 DEF Decisions
  <2>4. IsStrategy(p) BY <2>1, StrategyAssumption
  <2>5. intents \in Seq(Intents) BY <2>2, <2>3, <2>4, DecideToggles DEF Toggles, Books
  <2> QED BY <1>1, <1>2, <2>5, TradeBooks
<1> QED BY <1>3, <1>4

\* The invariant holds of every reachable state.
THEOREM LabInvariantHolds == Spec => []LabInv
<1>1. Init => LabInv BY NewRunBooks DEF Init, LabInv
<1>2. LabInv /\ [Next]_vars => LabInv'
  <2> SUFFICES ASSUME LabInv, [Next]_vars PROVE LabInv' OBVIOUS
  <2> USE DEF LabInv
  <2>1. CASE RefuseKey BY <2>1 DEF RefuseKey, Fail
  <2>2. CASE RefuseBars BY <2>2 DEF RefuseBars, Fail
  <2>3. CASE LoadBars BY <2>3 DEF LoadBars
  <2>4. CASE Summarize
    <3>1. summary' = Summary(run) /\ run' = run BY <2>4 DEF Summarize
    <3>2. Summary(run)' = Summary(run) BY <3>1
    <3> QED BY <2>4, <3>1, <3>2 DEF Summarize
  <2>5. ASSUME NEW s \in Symbols, NEW c \in Closes, Advance([symbol |-> s, close |-> c])
        PROVE  LabInv'
    <3>1. PICK intents \in Decisions([symbol |-> s, close |-> c]) :
            run' = Trade(run, [symbol |-> s, close |-> c], intents)
      BY <2>5 DEF Advance
    <3>2. strategy \in Strategy \cup {Generated} BY <2>5 DEF Advance
    <3>3. run' \in Books BY <3>1, <3>2, AdvanceBooks
    <3> QED BY <2>5, <3>3 DEF Advance
  <2>6. CASE RefuseSearch BY <2>6 DEF RefuseSearch, Fail
  <2>7. CASE Train
    <3>1. PICK bars \in Feeds :
            feed' = bars /\ outcomes' = Kept(Ranked(Grid(strategy.key), TrainBars(bars)))
      BY <2>7 DEF Train
    <3>2. strategy' = strategy BY <2>7 DEF Train
    <3>3. outcomes' = Trained' BY <3>1, <3>2 DEF Trained, Kept
    <3> QED BY <2>7, <3>1, <3>2, <3>3 DEF Train
  <2>8. CASE Validate
    <3>1. strategy' = strategy /\ feed' = feed BY <2>8 DEF Validate
    <3>2. Trained' = Trained BY <3>1 DEF Trained, Kept
    <3>3. outcomes' = Ranked(Trained, ValidationBars(feed)) BY <2>8 DEF Validate
    <3>4. outcomes' = Validated' BY <3>1, <3>2, <3>3 DEF Validated
    <3> QED BY <2>8, <3>4 DEF Validate
  <2>9. CASE Suggest
    <3>1. strategy' = strategy /\ feed' = feed BY <2>9 DEF Suggest
    <3>2. Validated' = Validated BY <3>1 DEF Validated, Trained, Kept
    <3>3. suggestion' = Validated'[1] BY <2>9, <3>2 DEF Suggest
    <3> QED BY <2>9, <3>3 DEF Suggest
  <2>10. CASE StorageFails BY <2>10 DEF StorageFails, Fail
  <2>11. CASE UNCHANGED vars
    <3>1. Trained' = Trained /\ Validated' = Validated
      BY <2>11 DEF vars, Validated, Trained, Kept
    <3>2. Summary(run)' = Summary(run) BY <2>11 DEF vars
    <3> QED BY <2>11, <3>1, <3>2 DEF vars
  <2> QED BY <2>1, <2>2, <2>3, <2>4, <2>5, <2>6, <2>7, <2>8, <2>9, <2>10, <2>11
      DEF Next, Backtest, Search
<1> QED BY <1>1, <1>2, PTL DEF Spec

\* The report of a backtest gives the deepest fall of its equity from a
\* highest so far (summarize), whatever the bars, decisions and fees.
THEOREM DeepestFallReported == Spec => []DrawdownIsWorst
<1>1. LabInv => DrawdownIsWorst
  <2> SUFFICES ASSUME LabInv, stage = "done", job = "backtest"
               PROVE  LET curve == Points(run)
                          d == summary.drawdown
                          falls == {f \in (DOMAIN curve) \X (DOMAIN curve) :
                                     f[1] <= f[2] /\ \A k \in 1 .. f[2] : curve[k] <= curve[f[1]]}
                      IN /\ d[2] > 0
                         /\ \A f \in falls : (curve[f[1]] - curve[f[2]]) * d[2] <= d[1] * curve[f[1]]
                         /\ \E f \in falls : (curve[f[1]] - curve[f[2]]) * d[2] = d[1] * curve[f[1]]
    BY DEF DrawdownIsWorst, Points
  <2>1. PICK r \in Books : r = run BY DEF LabInv
  <2>2. PICK n \in Nat : n = Len(r.curve)
    <3>1. r.curve \in Seq(Int) BY DEF Books, Runs
    <3> QED BY <3>1, LenProperties
  <2>3. PICK x \in Peaks : Drawdown(r) = x.worst /\ WorstOf(x, Points(r), n + 1)
    BY <2>2, DrawdownOf
  <2>4. summary.drawdown = x.worst BY <2>1, <2>3 DEF LabInv, Summary
  <2>5. PICK c, m : m = n + 1 /\ m \in Nat /\ c = Points(run) /\ c \in [1 .. m -> Int]
    BY <2>1, <2>2, PointsOf
  <2>6. PICK d \in Int \X (Nat \ {0}) : d = summary.drawdown
    BY <2>4 DEF Peaks
  <2>7. d[2] > 0 BY <2>6
  <2>8. DOMAIN c = 1 .. m BY <2>5
  <2>9. /\ \A a, b \in 1 .. m : IsFall(c, m, a, b) => (c[a] - c[b]) * d[2] <= d[1] * c[a]
        /\ \E a, b \in 1 .. m : IsFall(c, m, a, b) /\ (c[a] - c[b]) * d[2] = d[1] * c[a]
    BY <2>1, <2>3, <2>4, <2>5, <2>6 DEF WorstOf
  <2> DEFINE falls == {f \in (1 .. m) \X (1 .. m) :
                        f[1] <= f[2] /\ \A k \in 1 .. f[2] : c[k] <= c[f[1]]}
  <2>10. ASSUME NEW f \in falls PROVE (c[f[1]] - c[f[2]]) * d[2] <= d[1] * c[f[1]]
    <3>1. PICK a \in 1 .. m, b \in 1 .. m : a = f[1] /\ b = f[2] OBVIOUS
    <3>2. IsFall(c, m, a, b) BY <3>1 DEF IsFall
    <3>3. (c[a] - c[b]) * d[2] <= d[1] * c[a] BY <2>9, <3>2
    <3> QED BY <3>1, <3>3, Zenon
  <2>11. \E f \in falls : (c[f[1]] - c[f[2]]) * d[2] = d[1] * c[f[1]]
    <3>1. PICK a \in 1 .. m, b \in 1 .. m :
            IsFall(c, m, a, b) /\ (c[a] - c[b]) * d[2] = d[1] * c[a]
      BY <2>9
    <3>2. PICK f : f = <<a, b>> OBVIOUS
    <3>3. f[1] = a /\ f[2] = b /\ f \in (1 .. m) \X (1 .. m) BY <3>2
    <3>4. f \in falls BY <3>1, <3>3 DEF IsFall
    <3>5. (c[f[1]] - c[f[2]]) * d[2] = d[1] * c[f[1]] BY <3>1, <3>3, Zenon
    <3> HIDE DEF falls
    <3> QED BY <3>4, <3>5
  <2> QED BY <2>5, <2>6, <2>7, <2>8, <2>10, <2>11, Zenon
<1> QED BY <1>1, LabInvariantHolds, PTL

-----------------------------------------------------------------------------
(* The search ranks parameter sets.                                        *)

\* The strategies a search may come to, and a sequence of n of them.
Strategies ==
  {p \in Strategy \cup UNION {ToSet(Grid(q.key)) : q \in Strategy} : IsStrategy(p)}
Candidates(params, n) ==
  n \in Nat /\ params = [i \in 1 .. n |-> params[i]] /\ \A i \in 1 .. n : IsStrategy(params[i])

\* i comes before j where params are ranked by their returns on bars.
Before(params, bars, n) ==
  {q \in (1 .. n) \X (1 .. n) :
    \/ Return(params[q[1]], bars) > Return(params[q[2]], bars)
    \/ Return(params[q[1]], bars) = Return(params[q[2]], bars) /\ q[1] < q[2]}

LEMMA BeforeOrders ==
  ASSUME NEW n, NEW params, Candidates(params, n), NEW bars \in Seq(Bars)
  PROVE  Orders(Before(params, bars, n), 1 .. n)
<1>1. PICK a : a = [i \in 1 .. n |-> Return(params[i], bars)] OBVIOUS
<1>2. n \in Nat /\ \A i \in 1 .. n : IsStrategy(params[i]) BY DEF Candidates
<1>3. a \in [1 .. n -> Int] BY <1>1, <1>2, ReturnType
<1>4. \A i, j \in 1 .. n : <<i, j>> \in Before(params, bars, n) <=>
                             a[i] > a[j] \/ (a[i] = a[j] /\ i < j)
  BY <1>1 DEF Before
<1> QED BY <1>2, <1>3, <1>4 DEF Orders

LEMMA RankedOf ==
  ASSUME NEW n, NEW params, Candidates(params, n), NEW bars \in Seq(Bars)
  PROVE  \E order :
           /\ Lists(order, n, 1 .. n)
           /\ \A k \in 1 .. n : Rank(Before(params, bars, n), 1 .. n, order[k]) = k - 1
           /\ Ranked(params, bars) = [k \in 1 .. n |-> params[order[k]]]
<1> DEFINE better(i, j) ==
             LET a == Return(params[i], bars)
                 b == Return(params[j], bars)
             IN a > b \/ (a = b /\ i < j)
           order == Ordered(1 .. n, better)
           R == Before(params, bars, n)
<1>1. n \in Nat /\ DOMAIN params = 1 .. n
  <2>1. n \in Nat /\ params = [i \in 1 .. n |-> params[i]] BY DEF Candidates
  <2> QED BY <2>1
<1>2. IsFiniteSet(1 .. n) /\ Cardinality(1 .. n) = n
  <2>1. IsFiniteSet(1 .. n) /\ Cardinality(1 .. n) = IF 1 > n THEN 0 ELSE n - 1 + 1
    BY <1>1, FS_Interval
  <2> QED BY <1>1, <2>1
<1>3. Orders(R, 1 .. n) BY BeforeOrders
<1>4. \A i, j \in 1 .. n : <<i, j>> \in R <=> better(i, j) BY DEF Before
<1>5. Ranked(params, bars) = [k \in DOMAIN order |-> params[order[k]]] BY <1>1 DEF Ranked
<1> HIDE DEF better, R
<1>6. \A x \in 1 .. n : Cardinality({y \in 1 .. n : better(y, x)}) = Rank(R, 1 .. n, x)
  <2>1. \A x \in 1 .. n : {y \in 1 .. n : <<y, x>> \in R} = {y \in 1 .. n : better(y, x)}
    BY <1>4
  <2> QED BY <2>1 DEF Rank
<1>7. PICK S : S = 1 .. n OBVIOUS
<1>8. order = [k \in 1 .. n |-> CHOOSE x \in S : Cardinality({y \in S : better(y, x)}) = k - 1]
  BY <1>2, <1>7 DEF Ordered
<1> HIDE DEF order
<1>9. Enumerates(order, R, S) BY <1>2, <1>6, <1>7, <1>8 DEF Enumerates
<1>10. /\ Lists(order, Cardinality(S), S)
       /\ \A k \in 1 .. Cardinality(S) : Rank(R, S, order[k]) = k - 1
  BY <1>2, <1>3, <1>7, <1>9, OrderedLists
<1>11. DOMAIN order = 1 .. n BY <1>2, <1>7, <1>10 DEF Lists
<1> QED BY <1>2, <1>5, <1>7, <1>10, <1>11 DEF R

\* The first of a ranking is no worse than any other.
LEMMA FirstIsBest ==
  ASSUME NEW n, NEW params, Candidates(params, n), NEW bars \in Seq(Bars), NEW i \in 1 .. n
  PROVE  /\ Return(Ranked(params, bars)[1], bars) >= Return(params[i], bars)
         /\ \E j \in 1 .. n : Ranked(params, bars)[1] = params[j]
<1>1. PICK order :
        /\ Lists(order, n, 1 .. n)
        /\ \A k \in 1 .. n : Rank(Before(params, bars, n), 1 .. n, order[k]) = k - 1
        /\ Ranked(params, bars) = [k \in 1 .. n |-> params[order[k]]]
  BY RankedOf
<1>2. n \in Nat /\ 1 \in 1 .. n BY DEF Candidates
<1>3. PICK j \in 1 .. n : j = order[1] BY <1>1, <1>2 DEF Lists
<1>4. Ranked(params, bars)[1] = params[j] BY <1>1, <1>2, <1>3
<1>5. {y \in 1 .. n : <<y, j>> \in Before(params, bars, n)} = {}
  <2>1. Cardinality({y \in 1 .. n : <<y, j>> \in Before(params, bars, n)}) = 0
    BY <1>1, <1>2, <1>3 DEF Rank
  <2>2. IsFiniteSet({y \in 1 .. n : <<y, j>> \in Before(params, bars, n)})
    <3>1. IsFiniteSet(1 .. n) BY <1>2, FS_Interval
    <3> QED BY <3>1, FS_Subset
  <2> QED BY <2>1, <2>2, FS_EmptySet
<1>6. <<i, j>> \notin Before(params, bars, n) BY <1>5
<1>7. ~(Return(params[i], bars) > Return(params[j], bars)) BY <1>6 DEF Before
<1>8. Return(params[i], bars) \in Int /\ Return(params[j], bars) \in Int
  BY ReturnType DEF Candidates
<1> QED BY <1>4, <1>7, <1>8

Better(S, bars, p) == {q \in S : Return(q, bars) > Return(p, bars)}

\* Few of the parameter sets have a better return than the k-th of a ranking.
LEMMA FewAreBetter ==
  ASSUME NEW n, NEW params, Candidates(params, n), NEW bars \in Seq(Bars), NEW k \in 1 .. n,
         NEW p, p = Ranked(params, bars)[k]
  PROVE  /\ Cardinality(Better(ToSet(params), bars, p)) \in Nat
         /\ Cardinality(Better(ToSet(params), bars, p)) < k
<1> DEFINE above == Better(ToSet(params), bars, p)
<1>1. PICK order :
        /\ Lists(order, n, 1 .. n)
        /\ \A l \in 1 .. n : Rank(Before(params, bars, n), 1 .. n, order[l]) = l - 1
        /\ Ranked(params, bars) = [l \in 1 .. n |-> params[order[l]]]
  BY RankedOf
<1>2. n \in Nat BY DEF Candidates
<1>3. PICK j \in 1 .. n : j = order[k] BY <1>1 DEF Lists
<1>4. p = params[j] BY <1>1, <1>3
<1>5. PICK B : B = {y \in 1 .. n : <<y, j>> \in Before(params, bars, n)} OBVIOUS
<1>6. IsFiniteSet(B) /\ Cardinality(B) = k - 1
  <2>1. IsFiniteSet(1 .. n) BY <1>2, FS_Interval
  <2> QED BY <1>1, <1>3, <1>5, <2>1, FS_Subset DEF Rank
<1>7. PICK image : image = {params[i] : i \in B} OBVIOUS
<1>8. above \subseteq image
  <2> SUFFICES ASSUME NEW q \in ToSet(params), Return(q, bars) > Return(p, bars)
               PROVE  q \in image
    BY DEF Better
  <2>1. PICK i \in 1 .. n : q = params[i]
    <3>1. params = [i \in 1 .. n |-> params[i]] BY DEF Candidates
    <3> QED BY <3>1 DEF ToSet
  <2>2. Return(params[i], bars) > Return(params[j], bars) BY <1>4, <2>1
  <2>3. <<i, j>> \in Before(params, bars, n) BY <2>2 DEF Before
  <2> QED BY <1>5, <1>7, <2>1, <2>3
<1>9. PICK f : f = [i \in B |-> params[i]] OBVIOUS
<1>10. f \in Surjection(B, image) BY <1>7, <1>9 DEF Surjection
<1>11. IsFiniteSet(image) /\ Cardinality(image) <= Cardinality(B) BY <1>6, <1>10, FS_Surjection
<1> HIDE DEF above
<1>12. IsFiniteSet(above) /\ Cardinality(above) <= Cardinality(image) BY <1>8, <1>11, FS_Subset
<1>13. Cardinality(above) \in Nat /\ Cardinality(image) \in Nat
  BY <1>11, <1>12, FS_CardinalityType
<1>14. Cardinality(above) < k BY <1>6, <1>11, <1>12, <1>13
<1> QED BY <1>13, <1>14 DEF above

LEMMA SearchBars ==
  ASSUME NEW bars \in Seq(Bars)
  PROVE  TrainBars(bars) \in Seq(Bars) /\ ValidationBars(bars) \in Seq(Bars)
<1>1. PICK n \in Nat : n = Len(bars) BY LenProperties
<1>2. PICK cut \in 0 .. n : cut = Cut(bars)
  <2>1. PICK t \in 0 .. 10 : t = TrainTenths BY SearchAssumption
  <2>2. PICK a \in Int : a = n * t OBVIOUS
  <2>3. 0 <= a /\ a <= 10 * n
    <3>1. PICK l \in Nat : l = 10 - t OBVIOUS
    <3>2. n * l >= 0 /\ n * t >= 0 /\ n * l = 10 * n - n * t BY <3>1
    <3> QED BY <2>2, <3>2
  <2>4. a \div 10 \in 0 .. n BY <2>3
  <2> QED BY <1>1, <2>1, <2>2, <2>4 DEF Cut
<1>3. \A i \in 1 .. n : bars[i] \in Bars BY <1>1
<1>4. SubSeq(bars, 1, cut) \in Seq(Bars)
  <2>1. \A i \in 1 .. cut : bars[i] \in Bars BY <1>2, <1>3
  <2> QED BY <1>2, <2>1, SubSeqProperties
<1>5. SubSeq(bars, cut + 1, n) \in Seq(Bars)
  <2>1. PICK m \in Nat : m = cut + 1 BY <1>2
  <2>2. \A i \in m .. n : bars[i] \in Bars BY <1>3, <2>1
  <2>3. SubSeq(bars, m, n) \in Seq(Bars) BY <2>1, <2>2, SubSeqProperties
  <2> QED BY <2>1, <2>3
<1> QED BY <1>1, <1>2, <1>4, <1>5 DEF TrainBars, ValidationBars

\* The survivors are the first of the ranking, or the default.
LEMMA KeptOf ==
  ASSUME NEW n \in Nat, NEW ranked \in Seq(Strategies), Len(ranked) = n, strategy \in Strategies
  PROVE  /\ Candidates(Kept(ranked), Len(Kept(ranked)))
         /\ \E i \in 1 .. Len(Kept(ranked)) : Kept(ranked)[i] = strategy
         /\ \A i \in 1 .. Len(Kept(ranked)) :
              \/ Kept(ranked)[i] = strategy
              \/ \E k \in 1 .. n : k <= Survivors /\ Kept(ranked)[i] = ranked[k]
<1>1. PICK m \in 0 .. n : m <= Survivors /\ m = IF n < Survivors THEN n ELSE Survivors
  BY SearchAssumption
<1>2. PICK first : first = SubSeq(ranked, 1, m) OBVIOUS
<1>3. first \in Seq(Strategies) /\ Len(first) = m /\ \A i \in 1 .. m : first[i] = ranked[i]
  <2>1. \A i \in 1 .. m : ranked[i] \in Strategies BY <1>1
  <2> QED BY <1>1, <1>2, <2>1, SubSeqProperties
<1>4. Kept(ranked) = IF strategy \in ToSet(first) THEN first ELSE Append(first, strategy)
  BY <1>1, <1>2 DEF Kept
<1>5. ASSUME NEW q \in Seq(Strategies) PROVE Candidates(q, Len(q))
  <2>1. Len(q) \in Nat /\ q \in [1 .. Len(q) -> Strategies] BY LenProperties
  <2>2. q = [i \in 1 .. Len(q) |-> q[i]] BY <2>1
  <2>3. \A i \in 1 .. Len(q) : IsStrategy(q[i]) BY <2>1 DEF Strategies
  <2> QED BY <2>1, <2>2, <2>3 DEF Candidates
<1>6. CASE strategy \in ToSet(first)
  <2>1. Kept(ranked) = first BY <1>4, <1>6
  <2>2. \E i \in 1 .. m : first[i] = strategy BY <1>3, <1>6 DEF ToSet
  <2>3. \A i \in 1 .. m : i \in 1 .. n /\ i <= Survivors BY <1>1, SearchAssumption
  <2> QED BY <1>3, <1>5, <2>1, <2>2, <2>3
<1>7. CASE strategy \notin ToSet(first)
  <2>1. PICK q \in Seq(Strategies) : q = Append(first, strategy)
    <3>1. PICK b \in Strategies : b = strategy OBVIOUS
    <3>2. Append(first, b) \in Seq(Strategies) BY <1>3, <3>1, AppendProperties
    <3> QED BY <3>1, <3>2
  <2>2. Kept(ranked) = q BY <1>4, <1>7, <2>1
  <2>3. PICK l \in Nat : l = m + 1 OBVIOUS
  <2>4. Len(q) = l /\ q[l] = strategy /\ \A i \in 1 .. m : q[i] = ranked[i]
    BY <1>3, <2>1, <2>3
  <2>5. \A i \in 1 .. l : i = l \/ (i \in 1 .. m /\ i \in 1 .. n /\ i <= Survivors)
    BY <1>1, <2>3, SearchAssumption
  <2>6. l \in 1 .. l BY <2>3
  <2>7. Candidates(q, Len(q)) BY <1>5
  <2> QED BY <2>2, <2>4, <2>5, <2>6, <2>7
<1> QED BY <1>6, <1>7

\* What is suggested does no worse in validation than the default, and was
\* among the best in training if it is not the default itself (walk_forward,
\* sort_by, the survivors).
THEOREM SuggestionIsEarned == Spec => []SuggestionSurvives
<1>1. LabInv => SuggestionSurvives
  <2> SUFFICES ASSUME LabInv, stage = "done", job = "optimize" PROVE SuggestionSurvives
    BY DEF SuggestionSurvives
  <2>1. PICK base \in Strategy, bars \in Feeds : base = strategy /\ bars = feed BY DEF LabInv
  <2>2. bars \in Seq(Bars) BY MarketAssumption
  <2>3. PICK train \in Seq(Bars), valid \in Seq(Bars) :
          train = TrainBars(feed) /\ valid = ValidationBars(feed)
    BY <2>1, <2>2, SearchBars
  <2>4. PICK grid : grid = Grid(strategy.key) OBVIOUS
  <2>5. grid \in Seq(ToSet(grid)) /\ \A q \in ToSet(grid) : IsStrategy(q)
    BY <2>1, <2>4, StrategyAssumption
  <2>6. PICK n \in Nat : n = Len(grid) /\ grid \in [1 .. n -> ToSet(grid)]
    BY <2>5, LenProperties
  <2>7. Candidates(grid, n)
    <3>1. grid = [i \in 1 .. n |-> grid[i]] BY <2>6
    <3> QED BY <2>5, <2>6, <3>1 DEF Candidates
  <2>8. PICK ranked : ranked = Ranked(grid, train) OBVIOUS
  <2>9. ranked \in Seq(Strategies) /\ Len(ranked) = n
    <3>1. PICK order : Lists(order, n, 1 .. n) /\ ranked = [k \in 1 .. n |-> grid[order[k]]]
      BY <2>7, <2>8, RankedOf
    <3>2. \A k \in 1 .. n : grid[order[k]] \in Strategies
      <4>1. ToSet(grid) \subseteq Strategies BY <2>1, <2>4, <2>5 DEF Strategies
      <4>2. \A k \in 1 .. n : order[k] \in 1 .. n BY <3>1 DEF Lists
      <4> QED BY <2>6, <4>1, <4>2
    <3> QED BY <2>6, <3>1, <3>2
  <2>10. strategy \in Strategies BY <2>1, StrategyAssumption DEF Strategies
  <2>11. PICK kept, m : kept = Kept(ranked) /\ m = Len(kept) OBVIOUS
  <2>12. /\ Candidates(kept, m)
         /\ \E i \in 1 .. m : kept[i] = strategy
         /\ \A i \in 1 .. m : \/ kept[i] = strategy
                              \/ \E k \in 1 .. n : k <= Survivors /\ kept[i] = ranked[k]
    BY <2>6, <2>9, <2>10, <2>11, KeptOf
  <2>13. PICK best : best = Ranked(kept, valid)[1] OBVIOUS
  <2>14. suggestion = best
    BY <2>3, <2>4, <2>8, <2>11, <2>13 DEF LabInv, Validated, Trained
  <2>15. PICK d \in 1 .. m : kept[d] = strategy BY <2>12
  <2>16. Return(best, valid) >= Return(strategy, valid) /\ \E j \in 1 .. m : best = kept[j]
    BY <2>12, <2>13, <2>15, FirstIsBest
  <2>17. best = strategy \/
         Cardinality({p \in ToSet(grid) : Return(p, train) > Return(best, train)}) < Survivors
    <3> SUFFICES ASSUME best # strategy
                 PROVE  Cardinality({p \in ToSet(grid) : Return(p, train) > Return(best, train)})
                          < Survivors
      OBVIOUS
    <3>1. PICK k \in 1 .. n : k <= Survivors /\ best = ranked[k] BY <2>12, <2>16
    <3>2. best = Ranked(grid, train)[k] BY <2>8, <3>1
    <3>3. /\ Cardinality(Better(ToSet(grid), train, best)) \in Nat
          /\ Cardinality(Better(ToSet(grid), train, best)) < k
      BY <2>7, <3>2, FewAreBetter
    <3>4. Cardinality(Better(ToSet(grid), train, best)) < Survivors
      BY <3>1, <3>3, SearchAssumption
    <3> QED BY <3>4 DEF Better
  <2> QED BY <2>3, <2>4, <2>14, <2>16, <2>17 DEF SuggestionSurvives
<1> QED BY <1>1, LabInvariantHolds, PTL

-----------------------------------------------------------------------------
(* What the fills come to.                                                 *)

LEMMA TotalStep ==
  ASSUME NEW n \in Nat, NEW m \in Nat, m = n + 1, NEW s \in [1 .. m -> Int],
         NEW t \in [1 .. n -> Int], \A i \in 1 .. n : s[i] = t[i]
  PROVE  Total(s) = Total(t) + s[m]
<1>1. PICK f : Sums(f, s, m) /\ Total(s) = f[m] BY TotalIsSum
<1>2. PICK g : g = [i \in 0 .. n |-> f[i]] OBVIOUS
<1>3. Sums(g, t, n) BY <1>1, <1>2 DEF Sums
<1>4. Total(t) = f[n] BY <1>2, <1>3, TotalOf
<1>5. f[m] = f[n] + s[m]
  <2>1. m \in 1 .. m /\ m - 1 = n OBVIOUS
  <2> QED BY <1>1, <2>1 DEF Sums
<1> QED BY <1>1, <1>4, <1>5

LEMMA TotalOfNone ==
  ASSUME NEW s \in [1 .. 0 -> Int]
  PROVE  Total(s) = 0
<1>1. PICK f : Sums(f, s, 0) /\ Total(s) = f[0] BY TotalIsSum
<1> QED BY <1>1 DEF Sums

FillFees(fill) == Commission(fill) + Tax(fill)
Moved(fills) == Total([i \in DOMAIN fills |-> Signed(fills[i])])
SharesOf(fill, s) == IF fill.symbol = s THEN Shares(fill) ELSE 0

LEMMA FillAmounts ==
  ASSUME NEW x \in Fill
  PROVE  /\ Signed(x) \in Int /\ FillFees(x) \in Int /\ Shares(x) \in Int
         /\ Commission(x) \in Int /\ Tax(x) \in Int
         /\ \A s : SharesOf(x, s) \in Int
<1>1. PICK q \in Nat, v \in Nat : q = x.quantity /\ v = x.price BY DEF Fill
<1>2. q * v \in Int /\ -q * v \in Int OBVIOUS
<1>3. Signed(x) \in Int BY <1>1, <1>2 DEF Signed
<1>4. PICK c \in Int, t \in Int : c = CommissionRate /\ t = TaxRate BY MoneyAssumption
<1>5. q * v * c \in Int /\ q * v * t \in Int OBVIOUS
<1>6. Commission(x) \in Int /\ Tax(x) \in Int BY <1>1, <1>4, <1>5 DEF Commission, Tax
<1>7. FillFees(x) \in Int BY <1>6 DEF FillFees
<1>8. Shares(x) \in Int BY <1>1 DEF Shares
<1> QED BY <1>3, <1>6, <1>7, <1>8 DEF SharesOf

\* One more fill adds its amounts to each sum.
LEMMA AppendTotals ==
  ASSUME NEW fills \in Seq(Fill), NEW x \in Fill, NEW s
  PROVE  /\ Moved(Append(fills, x)) = Moved(fills) + Signed(x)
         /\ Fees(Append(fills, x)) = Fees(fills) + FillFees(x)
         /\ Net(Append(fills, x), Len(fills) + 1, s) = Net(fills, Len(fills), s) + SharesOf(x, s)
         /\ \A k \in 0 .. Len(fills) : Net(Append(fills, x), k, s) = Net(fills, k, s)
         /\ Moved(fills) \in Int /\ Fees(fills) \in Int
         /\ \A k \in 0 .. Len(fills) : Net(fills, k, s) \in Int
<1>1. PICK n \in Nat, m \in Nat : n = Len(fills) /\ m = n + 1 BY LenProperties
<1>2. PICK more \in Seq(Fill) : more = Append(fills, x) BY AppendProperties
<1>3. /\ DOMAIN fills = 1 .. n /\ DOMAIN more = 1 .. m
      /\ \A i \in 1 .. n : fills[i] \in Fill /\ more[i] = fills[i]
      /\ \A i \in 1 .. m : more[i] \in Fill
      /\ more[m] = x
  BY <1>1, <1>2
<1>4. Moved(more) = Moved(fills) + Signed(x) /\ Moved(fills) \in Int
  <2>1. PICK a : a = [i \in 1 .. m |-> Signed(more[i])] OBVIOUS
  <2>2. PICK b : b = [i \in 1 .. n |-> Signed(fills[i])] OBVIOUS
  <2>3. a \in [1 .. m -> Int] /\ b \in [1 .. n -> Int] BY <1>3, <2>1, <2>2, FillAmounts
  <2>4. \A i \in 1 .. n : a[i] = b[i] BY <1>1, <1>3, <2>1, <2>2
  <2>5. Total(a) = Total(b) + a[m] BY <1>1, <2>3, <2>4, TotalStep
  <2>6. a[m] = Signed(x) BY <1>1, <1>3, <2>1
  <2>7. Moved(more) = Total(a) /\ Moved(fills) = Total(b) BY <1>3, <2>1, <2>2 DEF Moved
  <2> QED BY <2>3, <2>5, <2>6, <2>7, TotalType
<1>5. Fees(more) = Fees(fills) + FillFees(x) /\ Fees(fills) \in Int
  <2>1. PICK a : a = [i \in 1 .. m |-> FillFees(more[i])] OBVIOUS
  <2>2. PICK b : b = [i \in 1 .. n |-> FillFees(fills[i])] OBVIOUS
  <2>3. a \in [1 .. m -> Int] /\ b \in [1 .. n -> Int] BY <1>3, <2>1, <2>2, FillAmounts
  <2>4. \A i \in 1 .. n : a[i] = b[i] BY <1>1, <1>3, <2>1, <2>2
  <2>5. Total(a) = Total(b) + a[m] BY <1>1, <2>3, <2>4, TotalStep
  <2>6. a[m] = FillFees(x) BY <1>1, <1>3, <2>1
  <2>7. Fees(more) = Total(a) /\ Fees(fills) = Total(b)
    BY <1>3, <2>1, <2>2 DEF Fees, FillFees
  <2> QED BY <2>3, <2>5, <2>6, <2>7, TotalType
<1>6. Net(more, m, s) = Net(fills, n, s) + SharesOf(x, s)
  <2>1. PICK a : a = [i \in 1 .. m |-> SharesOf(more[i], s)] OBVIOUS
  <2>2. PICK b : b = [i \in 1 .. n |-> SharesOf(fills[i], s)] OBVIOUS
  <2>3. a \in [1 .. m -> Int] /\ b \in [1 .. n -> Int] BY <1>3, <2>1, <2>2, FillAmounts
  <2>4. \A i \in 1 .. n : a[i] = b[i] BY <1>1, <1>3, <2>1, <2>2
  <2>5. Total(a) = Total(b) + a[m] BY <1>1, <2>3, <2>4, TotalStep
  <2>6. a[m] = SharesOf(x, s) BY <1>1, <1>3, <2>1
  <2>7. Net(more, m, s) = Total(a) /\ Net(fills, n, s) = Total(b)
    BY <2>1, <2>2 DEF Net, SharesOf
  <2> QED BY <2>5, <2>6, <2>7
<1>7. ASSUME NEW k \in 0 .. n
      PROVE  Net(more, k, s) = Net(fills, k, s) /\ Net(fills, k, s) \in Int
  <2>1. PICK b : b = [i \in 1 .. k |-> SharesOf(fills[i], s)] OBVIOUS
  <2>2. \A i \in 1 .. k : more[i] = fills[i] /\ fills[i] \in Fill BY <1>1, <1>3
  <2>3. b = [i \in 1 .. k |-> SharesOf(more[i], s)] BY <2>1, <2>2
  <2>4. b \in [1 .. k -> Int] BY <2>1, <2>2, FillAmounts
  <2>5. Net(more, k, s) = Total(b) /\ Net(fills, k, s) = Total(b)
    BY <2>1, <2>3 DEF Net, SharesOf
  <2> QED BY <2>4, <2>5, TotalType
<1> QED BY <1>1, <1>2, <1>4, <1>5, <1>6, <1>7

\* The three books of a run agree: its cash is what its fills moved, less the
\* fees, and its shares are what they left, unless one sold too much.
Explained(r) ==
  /\ r \in Books
  /\ r.cash = Unit * (InitialCash + Moved(r.fills)) - Fees(r.fills)
  /\ ~Oversold(r.fills) => \A s \in Symbols : r.held[s] = Net(r.fills, Len(r.fills), s)

LEMMA OversoldAppend ==
  ASSUME NEW fills \in Seq(Fill), NEW x \in Fill
  PROVE  Oversold(Append(fills, x)) <=>
           \/ Oversold(fills)
           \/ \E s \in Symbols : Net(fills, Len(fills), s) + SharesOf(x, s) < 0
<1>1. PICK n \in Nat, m \in Nat : n = Len(fills) /\ m = n + 1 BY LenProperties
<1>2. PICK more \in Seq(Fill) : more = Append(fills, x) BY AppendProperties
<1>3. DOMAIN fills = 1 .. n /\ DOMAIN more = 1 .. m BY <1>1, <1>2
<1>4. \A s : /\ Net(more, m, s) = Net(fills, n, s) + SharesOf(x, s)
             /\ \A k \in 0 .. n : Net(more, k, s) = Net(fills, k, s)
  BY <1>1, <1>2, AppendTotals
<1>5. \A k \in 1 .. m : (k \in 1 .. n /\ k \in 0 .. n) \/ k = m BY <1>1
<1>6. m \in 1 .. m /\ \A k \in 1 .. n : k \in 1 .. m /\ k \in 0 .. n BY <1>1
<1>7. Oversold(more) <=> \E k \in 1 .. m : \E s \in Symbols : Net(more, k, s) < 0
  BY <1>3 DEF Oversold
<1>8. Oversold(fills) <=> \E k \in 1 .. n : \E s \in Symbols : Net(fills, k, s) < 0
  BY <1>3 DEF Oversold
<1>9. ASSUME Oversold(more)
      PROVE  Oversold(fills) \/ \E s \in Symbols : Net(fills, n, s) + SharesOf(x, s) < 0
  <2>1. PICK k \in 1 .. m, s \in Symbols : Net(more, k, s) < 0 BY <1>7, <1>9
  <2>2. CASE k \in 1 .. n /\ k \in 0 .. n
    <3>1. Net(fills, k, s) < 0 BY <1>4, <2>1, <2>2
    <3> QED BY <1>8, <2>2, <3>1
  <2>3. CASE k = m
    <3>1. Net(fills, n, s) + SharesOf(x, s) < 0 BY <1>4, <2>1, <2>3
    <3> QED BY <3>1
  <2> QED BY <1>5, <2>2, <2>3
<1>10. ASSUME Oversold(fills) PROVE Oversold(more)
  <2>1. PICK k \in 1 .. n, s \in Symbols : Net(fills, k, s) < 0 BY <1>8, <1>10
  <2>2. Net(more, k, s) < 0 BY <1>4, <1>6, <2>1
  <2> QED BY <1>6, <1>7, <2>2
<1>11. ASSUME NEW s \in Symbols, Net(fills, n, s) + SharesOf(x, s) < 0 PROVE Oversold(more)
  <2>1. Net(more, m, s) < 0 BY <1>4, <1>11
  <2> QED BY <1>6, <1>7, <2>1
<1> QED BY <1>1, <1>2, <1>9, <1>10, <1>11

\* An intent that fills.
LEMMA Executed ==
  ASSUME NEW r \in Books, NEW intent \in Intents, FillsNow(r.quotes, intent)
  PROVE  \E x \in Fill :
           /\ x.symbol = intent.symbol /\ x.side = intent.side /\ x.quantity = intent.quantity
           /\ Execute(r, intent) \in Books
           /\ Execute(r, intent).cash = r.cash + Unit * Signed(x) - Commission(x) - Tax(x)
           /\ Execute(r, intent).held = HeldAfter(r.held, x)
           /\ Execute(r, intent).fills = Append(r.fills, x)
<1> DEFINE fill == [symbol |-> intent.symbol, side |-> intent.side, quantity |-> intent.quantity,
                    price |-> FillPrice(r.quotes, intent), bar |-> Len(r.curve) + 1]
<1>1. r \in Runs BY DEF Books
<1>2. PICK T \in SUBSET Symbols : r.quotes \in [T -> Price] BY <1>1 DEF Runs, Quotes
<1>3. /\ intent.symbol \in T /\ intent.symbol \in Symbols
      /\ intent.side \in {"buy", "sell"} /\ intent.quantity \in Nat /\ intent.limit \in Nat
  BY <1>2 DEF FillsNow, Intents
<1>4. FillPrice(r.quotes, intent) \in Nat BY <1>2, <1>3 DEF FillPrice, Price
<1>5. r.curve \in Seq(Int) BY <1>1 DEF Runs
<1>6. fill \in Fill BY <1>3, <1>4, <1>5 DEF Fill
<1>7. Execute(r, intent) =
        [r EXCEPT !.cash = r.cash + Unit * Signed(fill) - Commission(fill) - Tax(fill),
                  !.held = HeldAfter(r.held, fill), !.fills = Append(r.fills, fill)]
  BY <1>1 DEF Execute, Runs
<1>8. fill.symbol = intent.symbol /\ fill.side = intent.side /\ fill.quantity = intent.quantity
  OBVIOUS
<1> HIDE DEF fill
<1>9. Execute(r, intent) \in Books BY ExecuteBooks
<1> QED BY <1>1, <1>6, <1>7, <1>8, <1>9 DEF Runs

LEMMA ExecuteExplained ==
  ASSUME NEW r, Explained(r), NEW intent \in Intents
  PROVE  /\ Explained(Execute(r, intent))
         /\ \A s \in Symbols : s # intent.symbol => Execute(r, intent).held[s] = r.held[s]
         /\ ~Oversold(r.fills) /\ (intent.side = "sell" => intent.quantity <= r.held[intent.symbol])
              => ~Oversold(Execute(r, intent).fills)
<1>1. r \in Books /\ r \in Runs BY DEF Explained, Books
<1>2. CASE ~FillsNow(r.quotes, intent)
  <2>1. Execute(r, intent) = r BY <1>2 DEF Execute
  <2> QED BY <2>1
<1>3. CASE FillsNow(r.quotes, intent)
  <2>1. PICK x \in Fill :
          /\ x.symbol = intent.symbol /\ x.side = intent.side /\ x.quantity = intent.quantity
          /\ Execute(r, intent) \in Books
          /\ Execute(r, intent).cash = r.cash + Unit * Signed(x) - Commission(x) - Tax(x)
          /\ Execute(r, intent).held = HeldAfter(r.held, x)
          /\ Execute(r, intent).fills = Append(r.fills, x)
    BY <1>1, <1>3, Executed
  <2>2. PICK t \in Books : t = Execute(r, intent) BY <2>1
  <2>3. PICK fills \in Seq(Fill), held \in [Symbols -> Nat], n \in Nat :
          fills = r.fills /\ held = r.held /\ n = Len(fills)
    <3>1. r.fills \in Seq(Fill) /\ r.held \in [Symbols -> Nat] BY <1>1 DEF Runs
    <3>2. Len(r.fills) \in Nat BY <3>1, LenProperties
    <3> QED BY <3>1, <3>2
  <2>4. t.fills = Append(fills, x) /\ Len(t.fills) = n + 1 BY <2>1, <2>2, <2>3, AppendProperties
  <2>5. /\ Moved(t.fills) = Moved(fills) + Signed(x) /\ Fees(t.fills) = Fees(fills) + FillFees(x)
        /\ Moved(fills) \in Int /\ Fees(fills) \in Int
    BY <2>4, AppendTotals
  <2>6. t.cash = Unit * (InitialCash + Moved(t.fills)) - Fees(t.fills)
    <3>1. PICK u \in Int, i \in Int, m \in Int, f \in Int, a \in Int, b \in Int, c \in Int :
            /\ u = Unit /\ i = InitialCash /\ m = Moved(fills) /\ f = Fees(fills)
            /\ a = Signed(x) /\ b = Commission(x) /\ c = Tax(x)
      BY <2>5, FillAmounts, MoneyAssumption
    <3>2. r.cash = u * (i + m) - f BY <2>3, <3>1 DEF Explained
    <3>3. t.cash = r.cash + u * a - b - c BY <2>1, <2>2, <3>1
    <3>4. u * (i + (m + a)) = u * (i + m) + u * a
      <4>1. PICK k \in Int : k = i + m OBVIOUS
      <4>2. u * (k + a) = u * k + u * a OBVIOUS
      <4>3. i + (m + a) = k + a BY <4>1
      <4> QED BY <4>1, <4>2, <4>3
    <3>5. PICK v \in Int, w \in Int : v = u * (i + m) /\ w = u * a OBVIOUS
    <3>6. t.cash = v + w - (f + (b + c)) BY <3>2, <3>3, <3>5
    <3>7. Moved(t.fills) = m + a /\ Fees(t.fills) = f + (b + c)
      BY <2>5, <3>1 DEF FillFees
    <3>8. Unit * (InitialCash + Moved(t.fills)) = v + w BY <3>1, <3>4, <3>5, <3>7, Zenon
    <3>9. PICK y, z : y = Fees(t.fills) /\ z = Unit * (InitialCash + Moved(t.fills)) OBVIOUS
    <3>10. y = f + (b + c) /\ z = v + w BY <3>7, <3>8, <3>9, Zenon
    <3>11. t.cash = z - y BY <3>6, <3>10
    <3> QED BY <3>9, <3>11, Zenon
  <2>7. PICK s0 \in Symbols, q \in Nat : s0 = x.symbol /\ q = x.quantity /\ x.side \in {"buy", "sell"}
    BY DEF Fill
  <2>8. PICK after : after = t.held OBVIOUS
  <2>9. /\ x.side = "buy" => after = [held EXCEPT ![s0] = @ + q]
        /\ x.side = "sell" /\ q <= held[s0] => after = [held EXCEPT ![s0] = @ - q]
        /\ x.side = "sell" /\ ~(q <= held[s0]) => after = held
    BY <2>1, <2>2, <2>3, <2>7, <2>8 DEF HeldAfter
  <2>10. \A s \in Symbols : s # s0 => after[s] = held[s] BY <2>7, <2>9
  <2>11. /\ \A s \in Symbols : s # s0 => SharesOf(x, s) = 0
         /\ SharesOf(x, s0) = IF x.side = "buy" THEN q ELSE -q
    BY <2>7 DEF SharesOf, Shares
  <2>12. \A s : Net(t.fills, n + 1, s) = Net(fills, n, s) + SharesOf(x, s)
    BY <2>3, <2>4, AppendTotals
  <2>13. Oversold(t.fills) <=> \/ Oversold(fills)
                               \/ \E s \in Symbols : Net(fills, n, s) + SharesOf(x, s) < 0
    BY <2>3, <2>4, OversoldAppend
  <2>14. ~Oversold(fills) => \A s \in Symbols : held[s] = Net(fills, n, s)
    BY <2>3 DEF Explained
  <2>15. ~Oversold(t.fills) => \A s \in Symbols : after[s] = Net(t.fills, n + 1, s)
    <3> SUFFICES ASSUME ~Oversold(t.fills), NEW s \in Symbols
                 PROVE  after[s] = Net(t.fills, n + 1, s)
      OBVIOUS
    <3>1. held[s] = Net(fills, n, s) /\ held[s] + SharesOf(x, s) >= 0
      <4>1. ~(Net(fills, n, s) + SharesOf(x, s) < 0) BY <2>13
      <4>2. held[s] = Net(fills, n, s) BY <2>13, <2>14
      <4>3. SharesOf(x, s) \in Int /\ held[s] \in Int BY FillAmounts
      <4> QED BY <4>1, <4>2, <4>3
    <3>2. Net(t.fills, n + 1, s) = held[s] + SharesOf(x, s) BY <2>12, <3>1
    <3>3. CASE s # s0 BY <2>10, <2>11, <3>2, <3>3
    <3>4. CASE s = s0
      <4>1. CASE x.side = "buy" BY <2>7, <2>9, <2>11, <3>2, <3>4, <4>1
      <4>2. CASE x.side = "sell"
        <5>1. q <= held[s0] BY <2>7, <2>11, <3>1, <3>4, <4>2
        <5> QED BY <2>7, <2>9, <2>11, <3>2, <3>4, <4>2, <5>1
      <4> QED BY <2>7, <4>1, <4>2
    <3> QED BY <3>3, <3>4
  <2>16. ~Oversold(fills) /\ (x.side = "sell" => q <= held[s0]) => ~Oversold(t.fills)
    <3> SUFFICES ASSUME ~Oversold(fills), x.side = "sell" => q <= held[s0], NEW s \in Symbols
                 PROVE  ~(Net(fills, n, s) + SharesOf(x, s) < 0)
      BY <2>13
    <3>1. held[s] = Net(fills, n, s) BY <2>14
    <3>2. CASE s # s0 BY <2>11, <3>1, <3>2
    <3>3. CASE s = s0 BY <2>7, <2>11, <3>1, <3>3
    <3> QED BY <3>2, <3>3
  <2>17. Explained(t) BY <2>4, <2>6, <2>8, <2>15 DEF Explained
  <2> QED BY <2>1, <2>2, <2>3, <2>7, <2>8, <2>10, <2>16, <2>17
<1> QED BY <1>2, <1>3

LEMMA QuotedExplained ==
  ASSUME NEW r, Explained(r), NEW bar \in Bars
  PROVE  /\ Explained(Quoted(r, bar)) /\ Quoted(r, bar).held = r.held
         /\ Quoted(r, bar).fills = r.fills
<1>1. r \in Books /\ r \in Runs BY DEF Explained, Books
<1>2. PICK q : Quoted(r, bar) = [r EXCEPT !.quotes = q] BY <1>1 DEF Quoted, Runs
<1>3. PICK t \in Books : t = Quoted(r, bar) BY <1>1, QuotedBooks
<1>4. t.cash = r.cash /\ t.held = r.held /\ t.fills = r.fills BY <1>1, <1>2, <1>3 DEF Runs
<1>5. Explained(t) BY <1>4 DEF Explained
<1> QED BY <1>3, <1>4, <1>5

\* After the last bar the equity is the cash and the shares at their prices.
Priced(r) == Equity(r) = r.cash + Unit * OpenValue(r)

LEMMA ClosedExplained ==
  ASSUME NEW r, Explained(r), NEW bar \in Bars, Closed(r, bar) \in Books
  PROVE  /\ Explained(Closed(r, bar)) /\ Priced(Closed(r, bar))
         /\ Closed(r, bar).fills = r.fills
<1>1. r \in Books /\ r \in Runs BY DEF Explained, Books
<1>2. PICK v \in Int : v = r.cash + Unit * OpenValue(r)
  <2>1. PICK a \in Int, b \in Int, c \in Int : a = r.cash /\ b = Unit /\ c = OpenValue(r)
    BY <1>1, OpenValueType, MoneyAssumption DEF Runs
  <2>2. a + b * c \in Int OBVIOUS
  <2> QED BY <2>1, <2>2
<1>3. PICK t \in Books : t = Closed(r, bar) OBVIOUS
<1>4. PICK h : Closed(r, bar) = [r EXCEPT !.history = h, !.curve = Append(r.curve, v)]
  BY <1>1, <1>2 DEF Closed, Runs
<1>5. /\ t.cash = r.cash /\ t.held = r.held /\ t.fills = r.fills /\ t.quotes = r.quotes
      /\ t.curve = Append(r.curve, v)
  BY <1>1, <1>3, <1>4 DEF Runs
<1>6. Explained(t) BY <1>5 DEF Explained
<1>7. OpenValue(t) = OpenValue(r) BY <1>5 DEF OpenValue
<1>8. Equity(t) = v
  <2>1. PICK c \in Seq(Int) : c = r.curve BY <1>1 DEF Runs
  <2>2. Append(c, v) # <<>> /\ Last(Append(c, v)) = v
    BY <2>1, AppendProperties, LenProperties DEF Last
  <2> QED BY <1>5, <2>1, <2>2 DEF Equity
<1>9. Priced(t) BY <1>2, <1>5, <1>7, <1>8 DEF Priced
<1> QED BY <1>3, <1>5, <1>6, <1>9

LEMMA TradeExplained ==
  ASSUME NEW r, Explained(r), NEW bar \in Bars, NEW intents \in Seq(Intents)
  PROVE  /\ Explained(Trade(r, bar, intents)) /\ Priced(Trade(r, bar, intents))
         /\ ~Oversold(r.fills) /\ Toggles(intents, r.held) => ~Oversold(Trade(r, bar, intents).fills)
<1>1. r \in Books BY DEF Explained
<1>2. PICK u : /\ Built(u, Books, Quoted(r, bar), Executions(intents), Len(intents))
               /\ Trade(r, bar, intents) = Closed(u[Len(intents)], bar)
  BY <1>1, TradeSteps
<1>3. PICK n \in Nat : n = Len(intents) BY LenProperties
<1>4. /\ u \in [0 .. n -> Books] /\ u[0] = Quoted(r, bar)
      /\ \A i \in 1 .. n : u[i] = Executions(intents)[i][u[i - 1]]
  BY <1>2, <1>3 DEF Built
<1>5. \A i \in 1 .. n : intents[i] \in Intents BY <1>3
<1>6. \A i \in 1 .. n : u[i] = Execute(u[i - 1], intents[i])
  <2>1. \A i \in 1 .. n, x \in Books : Executions(intents)[i][x] = Execute(x, intents[i])
    BY <1>3 DEF Executions
  <2>2. \A i \in 1 .. n : u[i - 1] \in Books BY <1>4
  <2> QED BY <1>4, <2>1, <2>2, Zenon
<1>7. \A i \in 0 .. n : Explained(u[i])
  <2> DEFINE P == {i \in 0 .. n : Explained(u[i])}
  <2>1. 0 \in P BY <1>4, QuotedExplained
  <2>2. \A i \in 1 .. n : i - 1 \in P => i \in P
    <3> TAKE i \in 1 .. n
    <3> HAVE i - 1 \in P
    <3>1. Explained(u[i - 1]) /\ intents[i] \in Intents BY <1>5
    <3>2. Explained(Execute(u[i - 1], intents[i])) BY <3>1, ExecuteExplained
    <3>3. Explained(u[i]) BY <1>6, <3>2
    <3> QED BY <3>3
  <2>3. \A i \in 0 .. n : i \in P
    <3> HIDE DEF P
    <3> QED BY <2>1, <2>2, UpTo
  <2> QED BY <2>3
<1>8. ASSUME ~Oversold(r.fills), Toggles(intents, r.held)
      PROVE  ~Oversold(u[n].fills)
  <2> DEFINE P == {i \in 0 .. n :
                    /\ ~Oversold(u[i].fills)
                    /\ \A j \in 1 .. n : j > i =>
                         u[i].held[intents[j].symbol] = r.held[intents[j].symbol]}
  <2>1. 0 \in P BY <1>4, <1>8, QuotedExplained
  <2>2. \A i \in 1 .. n : i - 1 \in P => i \in P
    <3> TAKE i \in 1 .. n
    <3> HAVE i - 1 \in P
    <3>1. PICK x, t, s : x = u[i - 1] /\ t = intents[i] /\ s = t.symbol OBVIOUS
    <3>2. /\ t \in Intents /\ s \in Symbols /\ Explained(x) /\ u[i] = Execute(x, t)
          /\ i - 1 \in 0 .. n
      BY <1>5, <1>6, <1>7, <3>1 DEF Intents
    <3>3. ~Oversold(x.fills) /\ x.held[s] = r.held[s] BY <3>1
    <3>4. t = Toggled(s, r.held)
      <4>1. DOMAIN intents = 1 .. n BY <1>3
      <4> QED BY <1>8, <3>1, <4>1 DEF Toggles
    <3>5. r.held[s] \in Nat BY <1>1, <3>2 DEF Books, Runs
    <3>6. t.side = "sell" => t.quantity <= x.held[s]
      BY <3>3, <3>4, <3>5, QuantityAssumption DEF Toggled, Market
    <3>7. ~Oversold(u[i].fills) BY <3>1, <3>2, <3>3, <3>6, ExecuteExplained
    <3>8. \A z \in Symbols : z # s => u[i].held[z] = x.held[z]
      <4>1. \A z \in Symbols : z # t.symbol => Execute(x, t).held[z] = x.held[z]
        BY <3>2, ExecuteExplained
      <4> QED BY <3>1, <3>2, <4>1, Zenon
    <3>9. ASSUME NEW j \in 1 .. n, j > i
          PROVE  u[i].held[intents[j].symbol] = r.held[intents[j].symbol]
      <4>1. DOMAIN intents = 1 .. n BY <1>3
      <4>2. intents[j].symbol # s /\ intents[j].symbol \in Symbols
        <5>1. \A k, l \in 1 .. n : intents[k].symbol = intents[l].symbol => k = l
          BY <1>8, <4>1 DEF Toggles
        <5>2. s = intents[i].symbol /\ i # j BY <3>1, <3>9
        <5>3. intents[j] \in Intents BY <1>5
        <5> QED BY <5>1, <5>2, <5>3 DEF Intents
      <4>3. x.held[intents[j].symbol] = r.held[intents[j].symbol]
        <5>1. j > i - 1 BY <3>9
        <5> QED BY <3>1, <5>1
      <4> QED BY <3>8, <4>2, <4>3
    <3> QED BY <3>7, <3>9
  <2>3. \A i \in 0 .. n : i \in P
    <3> HIDE DEF P
    <3> QED BY <2>1, <2>2, UpTo
  <2>4. n \in P BY <2>3
  <2> QED BY <2>4
<1>9. Explained(u[n]) BY <1>7
<1>10. Trade(r, bar, intents) \in Books BY <1>1, TradeBooks
<1>11. /\ Explained(Closed(u[n], bar)) /\ Priced(Closed(u[n], bar))
       /\ Closed(u[n], bar).fills = u[n].fills
  BY <1>2, <1>3, <1>9, <1>10, ClosedExplained
<1> QED BY <1>2, <1>3, <1>8, <1>11

LEMMA TotalOfZeros ==
  ASSUME NEW n \in Nat, NEW s \in [1 .. n -> Int], \A i \in 1 .. n : s[i] = 0
  PROVE  Total(s) = 0
<1>1. PICK f : f = [i \in 0 .. n |-> 0] OBVIOUS
<1>2. Sums(f, s, n) BY <1>1 DEF Sums
<1>3. f[n] = 0 BY <1>1
<1> QED BY <1>2, <1>3, TotalOf

LEMMA TotalsType ==
  ASSUME NEW fills \in Seq(Fill)
  PROVE  Moved(fills) \in Int /\ Fees(fills) \in Int
<1>1. PICK n \in Nat : n = Len(fills) BY LenProperties
<1>2. DOMAIN fills = 1 .. n /\ \A i \in 1 .. n : fills[i] \in Fill BY <1>1
<1>3. PICK a : a = [i \in 1 .. n |-> Signed(fills[i])] OBVIOUS
<1>4. PICK b : b = [i \in 1 .. n |-> FillFees(fills[i])] OBVIOUS
<1>5. a \in [1 .. n -> Int] /\ b \in [1 .. n -> Int] BY <1>2, <1>3, <1>4, FillAmounts
<1>6. Moved(fills) = Total(a) /\ Fees(fills) = Total(b)
  BY <1>2, <1>3, <1>4 DEF Moved, Fees, FillFees
<1> QED BY <1>5, <1>6, TotalType

LEMMA NewRunExplained == Explained(NewRun) /\ Priced(NewRun) /\ ~Oversold(NewRun.fills)
<1>1. PICK r \in Books : r = NewRun BY NewRunBooks
<1>2. /\ r.cash = InitialCash * Unit /\ r.fills = <<>> /\ r.curve = <<>>
      /\ \A s \in Symbols : r.held[s] = 0
  BY <1>1 DEF NewRun
<1>3. Moved(<<>>) = 0 /\ Fees(<<>>) = 0 /\ \A s : Net(<<>>, 0, s) = 0
  <2>1. PICK a : a = [i \in 1 .. 0 |-> Signed(<<>>[i])] OBVIOUS
  <2>2. PICK b : b = [i \in 1 .. 0 |-> Commission(<<>>[i]) + Tax(<<>>[i])] OBVIOUS
  <2>3. a \in [1 .. 0 -> Int] /\ b \in [1 .. 0 -> Int] BY <2>1, <2>2
  <2>4. DOMAIN <<>> = 1 .. 0 OBVIOUS
  <2>5. Moved(<<>>) = Total(a) /\ Fees(<<>>) = Total(b) BY <2>1, <2>2, <2>4 DEF Moved, Fees
  <2>6. ASSUME NEW s PROVE Net(<<>>, 0, s) = 0
    <3>1. PICK c : c = [i \in 1 .. 0 |-> IF <<>>[i].symbol = s THEN Shares(<<>>[i]) ELSE 0]
      OBVIOUS
    <3>2. c \in [1 .. 0 -> Int] BY <3>1
    <3> QED BY <3>1, <3>2, TotalOfNone DEF Net
  <2> QED BY <2>3, <2>5, <2>6, TotalOfNone
<1>4. Len(r.fills) = 0 /\ DOMAIN r.fills = {} BY <1>2
<1>5. PICK a \in Int, b \in Int, c \in Int : a = InitialCash /\ b = Unit /\ c = a * b
  <2>1. PICK a \in Int, b \in Int : a = InitialCash /\ b = Unit BY MoneyAssumption
  <2>2. a * b \in Int OBVIOUS
  <2> QED BY <2>1, <2>2
<1>6. r.cash = Unit * (InitialCash + Moved(r.fills)) - Fees(r.fills)
  <2>1. r.cash = c BY <1>2, <1>5
  <2>2. b * (a + 0) - 0 = c BY <1>5
  <2>3. Moved(r.fills) = 0 /\ Fees(r.fills) = 0 BY <1>2, <1>3
  <2> QED BY <1>5, <2>1, <2>2, <2>3, Zenon
<1>7. Explained(r) BY <1>2, <1>3, <1>4, <1>6 DEF Explained
<1>8. OpenValue(r) = 0
  <2>1. PICK n \in Nat : DOMAIN Universe = 1 .. n BY UniverseAssumption
  <2>2. PICK v : v = [i \in 1 .. n |-> IF r.held[Universe[i]] > 0
                                       THEN r.held[Universe[i]] * r.quotes[Universe[i]] ELSE 0]
    OBVIOUS
  <2>3. \A i \in 1 .. n : v[i] = 0
    <3>1. \A i \in 1 .. n : r.held[Universe[i]] = 0 BY <1>2, <2>1, Places
    <3>2. ~(0 > 0) OBVIOUS
    <3> QED BY <2>2, <3>1, <3>2
  <2>4. v \in [1 .. n -> Int] BY <2>2, <2>3
  <2>5. OpenValue(r) = Total(v) BY <2>1, <2>2 DEF OpenValue
  <2> QED BY <2>3, <2>4, <2>5, TotalOfZeros
<1>9. Equity(r) = c BY <1>2, <1>5 DEF Equity
<1>10. r.cash + Unit * OpenValue(r) = c
  <2>1. c + b * 0 = c BY <1>5
  <2>2. r.cash = c BY <1>2, <1>5
  <2> QED BY <1>5, <1>8, <2>1, <2>2, Zenon
<1>11. Priced(r) BY <1>9, <1>10 DEF Priced
<1>12. ~Oversold(r.fills) BY <1>4 DEF Oversold
<1> QED BY <1>1, <1>7, <1>11, <1>12

\* The books agree after every bar, and a registered strategy has sold nothing
\* that it did not hold.
LedgerInv ==
  Explained(run) /\ Priced(run) /\ (strategy # Generated => ~Oversold(run.fills))

LEMMA AdvanceExplained ==
  ASSUME LabInv, LedgerInv, NEW s \in Symbols, NEW c \in Closes,
         Advance([symbol |-> s, close |-> c])
  PROVE  LedgerInv'
<1>1. PICK bar : bar = [symbol |-> s, close |-> c] OBVIOUS
<1>2. bar \in Bars
  <2>1. c \in Nat \ {0} BY MarketAssumption
  <2> QED BY <1>1, <2>1 DEF Bars
<1>3. PICK intents \in Decisions(bar) : run' = Trade(run, bar, intents) BY <1>1 DEF Advance
<1>4. strategy' = strategy /\ strategy \in Strategy \cup {Generated} BY DEF Advance, LabInv
<1>5. PICK r, after : r = run /\ after = Trade(run, bar, intents) OBVIOUS
<1>6. run' = after BY <1>3, <1>5
<1>7. Explained(r) /\ (strategy # Generated => ~Oversold(r.fills)) BY <1>5 DEF LedgerInv
<1>8. CASE strategy = Generated
  <2>1. intents \in Seq(Intents) BY <1>8, MarketAssumption DEF Decisions
  <2>2. Explained(after) /\ Priced(after) BY <1>2, <1>5, <1>7, <2>1, TradeExplained
  <2>3. Explained(run') /\ Priced(run') BY <1>6, <2>2
  <2> QED BY <1>4, <1>8, <2>3 DEF LedgerInv, Explained, Priced, Equity, OpenValue
<1>9. CASE strategy # Generated
  <2>1. PICK p \in Strategy : p = strategy BY <1>4, <1>9
  <2>2. IsStrategy(p) BY StrategyAssumption
  <2>3. PICK snap \in Books : snap = Quoted(r, bar) BY <1>2, <1>7, QuotedBooks DEF Explained
  <2>4. intents = Decide(p, snap) BY <1>5, <1>9, <2>1, <2>3 DEF Decisions
  <2>5. Toggles(intents, snap.held) BY <2>2, <2>4, DecideToggles DEF Books
  <2>6. snap.held = r.held BY <1>2, <1>7, <2>3, QuotedExplained
  <2>7. intents \in Seq(Intents) BY <2>5 DEF Toggles
  <2>8. Explained(after) /\ Priced(after) /\ ~Oversold(after.fills)
    BY <1>2, <1>5, <1>7, <1>9, <2>5, <2>6, <2>7, TradeExplained
  <2>9. Explained(run') /\ Priced(run') /\ ~Oversold(run'.fills) BY <1>6, <2>8
  <2> QED BY <1>4, <2>9 DEF LedgerInv, Explained, Priced, Equity, OpenValue, Oversold
<1> QED BY <1>8, <1>9

\* The ledger stays explained over every step of either job.
THEOREM LedgerInvariantHolds == Spec => []LedgerInv
<1>1. Init => LedgerInv BY NewRunExplained DEF Init, LedgerInv
<1>2. LabInv /\ LedgerInv /\ [Next]_vars => LedgerInv'
  <2> SUFFICES ASSUME LabInv, LedgerInv, [Next]_vars PROVE LedgerInv' OBVIOUS
  <2>1. ASSUME run' = run, strategy' = strategy PROVE LedgerInv'
    BY <2>1 DEF LedgerInv, Explained, Priced, Equity, OpenValue, Oversold
  <2>2. ASSUME NEW s \in Symbols, NEW c \in Closes, Advance([symbol |-> s, close |-> c])
        PROVE  LedgerInv'
    BY <2>2, AdvanceExplained
  <2>3. \/ run' = run /\ strategy' = strategy
        \/ \E s \in Symbols, c \in Closes : Advance([symbol |-> s, close |-> c])
    BY DEF Next, Backtest, Search, RefuseKey, RefuseBars, LoadBars, Summarize,
           RefuseSearch, Train, Validate, Suggest, StorageFails, vars
  <2> QED BY <2>1, <2>2, <2>3
<1> QED BY <1>1, <1>2, LabInvariantHolds, PTL DEF Spec

\* The equity after every bar is the initial cash, what the fills moved, less
\* fees, and the shares they left at the last prices (Execute, Trade); no
\* registered strategy sells what it does not hold.
THEOREM EquityIsExplained == Spec => []EquityExplained
<1>1. LedgerInv => EquityExplained
  <2> SUFFICES ASSUME LedgerInv, strategy # Generated \/ ~Oversold(run.fills)
               PROVE  Equity(run) =
                        Unit * (InitialCash
                                + Total([i \in DOMAIN run.fills |-> Signed(run.fills[i])])
                                + Total([i \in DOMAIN Universe |-> Value(run, Universe[i])]))
                        - Fees(run.fills)
    BY DEF EquityExplained
  <2>1. PICK r : r = run OBVIOUS
  <2>2. Explained(r) /\ Priced(r) /\ ~Oversold(r.fills) BY <2>1 DEF LedgerInv
  <2>3. r \in Books /\ r \in Runs /\ r.held \in [Symbols -> Nat] /\ r.fills \in Seq(Fill)
    BY <2>2 DEF Explained, Books, Runs
  <2>4. \A s \in Symbols : r.held[s] = Net(r.fills, Len(r.fills), s)
    BY <2>2 DEF Explained
  <2>5. OpenValue(r) = Total([i \in DOMAIN Universe |-> Value(r, Universe[i])])
    <3>1. ASSUME NEW i \in DOMAIN Universe
          PROVE  Value(r, Universe[i]) = IF r.held[Universe[i]] > 0
                                         THEN r.held[Universe[i]] * r.quotes[Universe[i]] ELSE 0
      <4>1. PICK s \in Symbols, h \in Nat : s = Universe[i] /\ h = r.held[s] BY <2>3, Places
      <4>2. Value(r, s) = IF h = 0 THEN 0 ELSE h * r.quotes[s] BY <2>4, <4>1 DEF Value
      <4>3. h = 0 <=> ~(h > 0) OBVIOUS
      <4> QED BY <4>1, <4>2, <4>3
    <3> QED BY <3>1 DEF OpenValue
  <2>6. Total([i \in DOMAIN r.fills |-> Signed(r.fills[i])]) = Moved(r.fills) BY DEF Moved
  <2>7. PICK u \in Int, a \in Int, m \in Int, f \in Int, o \in Int :
          /\ u = Unit /\ a = InitialCash /\ m = Moved(r.fills) /\ f = Fees(r.fills)
          /\ o = OpenValue(r)
    BY <2>3, TotalsType, OpenValueType, MoneyAssumption
  <2>8. PICK e, c : e = Equity(r) /\ c = r.cash OBVIOUS
  <2>9. c = u * (a + m) - f
    <3>1. r.cash = Unit * (InitialCash + Moved(r.fills)) - Fees(r.fills) BY <2>2 DEF Explained
    <3> QED BY <2>7, <2>8, <3>1, Zenon
  <2>10. e = c + u * o
    <3>1. Equity(r) = r.cash + Unit * OpenValue(r) BY <2>2 DEF Priced
    <3> QED BY <2>7, <2>8, <3>1, Zenon
  <2>11. e = u * (a + m + o) - f
    <3>1. PICK k \in Int : k = a + m OBVIOUS
    <3>2. u * (k + o) = u * k + u * o OBVIOUS
    <3>3. PICK v \in Int, w \in Int : v = u * k /\ w = u * o OBVIOUS
    <3>4. c = v - f /\ e = c + w BY <2>9, <2>10, <3>1, <3>3
    <3>5. e = (v + w) - f BY <3>4
    <3> QED BY <3>1, <3>2, <3>3, <3>5
  <2>12. Equity(r) = Unit * (InitialCash + Moved(r.fills) + OpenValue(r)) - Fees(r.fills)
    BY <2>7, <2>8, <2>11, Zenon
  <2>13. PICK p, q : p = Moved(r.fills) /\ q = OpenValue(r) OBVIOUS
  <2>14. Equity(r) = Unit * (InitialCash + p + q) - Fees(r.fills) BY <2>12, <2>13, Zenon
  <2>15. /\ Total([i \in DOMAIN r.fills |-> Signed(r.fills[i])]) = p
         /\ Total([i \in DOMAIN Universe |-> Value(r, Universe[i])]) = q
    BY <2>5, <2>6, <2>13, Zenon
  <2> QED BY <2>1, <2>14, <2>15, Zenon
<1> QED BY <1>1, LedgerInvariantHolds, PTL

-----------------------------------------------------------------------------
(* Round trips.                                                            *)

Lots == [quantity : Nat, price : Nat]
Takes == [left : Nat, pnl : Int, lots : Seq(Lots)]
LotShares(lots) == Total([i \in DOMAIN lots |-> lots[i].quantity])
LotCost(lots) == Total([i \in DOMAIN lots |-> lots[i].quantity * lots[i].price])
Untaken(fill) == [left |-> fill.quantity, pnl |-> 0, lots |-> <<>>]
Takings(lots, price) == [i \in 1 .. Len(lots) |-> [x \in Takes |-> Take(x, lots[i], price)]]

LEMMA LotAmounts ==
  ASSUME NEW lots \in Seq(Lots)
  PROVE  LotShares(lots) \in Int /\ LotCost(lots) \in Int
<1>1. PICK n \in Nat : n = Len(lots) BY LenProperties
<1>2. DOMAIN lots = 1 .. n /\ \A i \in 1 .. n : lots[i] \in Lots BY <1>1
<1>3. \A x \in Lots : x.quantity \in Int /\ x.quantity * x.price \in Int
  <2>1. ASSUME NEW x \in Lots PROVE x.quantity \in Int /\ x.quantity * x.price \in Int
    <3>1. PICK q \in Nat, p \in Nat : q = x.quantity /\ p = x.price BY DEF Lots
    <3>2. q * p \in Int OBVIOUS
    <3> QED BY <3>1, <3>2
  <2> QED BY <2>1
<1>4. PICK a : a = [i \in 1 .. n |-> lots[i].quantity] OBVIOUS
<1>5. PICK b : b = [i \in 1 .. n |-> lots[i].quantity * lots[i].price] OBVIOUS
<1>6. a \in [1 .. n -> Int] /\ b \in [1 .. n -> Int] BY <1>2, <1>3, <1>4, <1>5
<1>7. LotShares(lots) = Total(a) /\ LotCost(lots) = Total(b)
  BY <1>2, <1>4, <1>5 DEF LotShares, LotCost
<1> QED BY <1>6, <1>7, TotalType

\* One more lot adds its amounts.
LEMMA LotAppended ==
  ASSUME NEW lots \in Seq(Lots), NEW lot \in Lots
  PROVE  /\ Append(lots, lot) \in Seq(Lots)
         /\ LotShares(Append(lots, lot)) = LotShares(lots) + lot.quantity
         /\ LotCost(Append(lots, lot)) = LotCost(lots) + lot.quantity * lot.price
<1>1. PICK n \in Nat, m \in Nat : n = Len(lots) /\ m = n + 1 BY LenProperties
<1>2. PICK more \in Seq(Lots) : more = Append(lots, lot) BY AppendProperties
<1>3. /\ DOMAIN lots = 1 .. n /\ DOMAIN more = 1 .. m
      /\ \A i \in 1 .. n : lots[i] \in Lots /\ more[i] = lots[i]
      /\ \A i \in 1 .. m : more[i] \in Lots
      /\ more[m] = lot
  BY <1>1, <1>2
<1>4. \A x \in Lots : x.quantity \in Int /\ x.quantity * x.price \in Int
  <2>1. ASSUME NEW x \in Lots PROVE x.quantity \in Int /\ x.quantity * x.price \in Int
    <3>1. PICK q \in Nat, p \in Nat : q = x.quantity /\ p = x.price BY DEF Lots
    <3>2. q * p \in Int OBVIOUS
    <3> QED BY <3>1, <3>2
  <2> QED BY <2>1
<1>5. LotShares(more) = LotShares(lots) + lot.quantity
  <2>1. PICK a : a = [i \in 1 .. m |-> more[i].quantity] OBVIOUS
  <2>2. PICK b : b = [i \in 1 .. n |-> lots[i].quantity] OBVIOUS
  <2>3. a \in [1 .. m -> Int] /\ b \in [1 .. n -> Int] BY <1>3, <1>4, <2>1, <2>2
  <2>4. \A i \in 1 .. n : a[i] = b[i] BY <1>1, <1>3, <2>1, <2>2
  <2>5. Total(a) = Total(b) + a[m] BY <1>1, <2>3, <2>4, TotalStep
  <2>6. a[m] = lot.quantity BY <1>1, <1>3, <2>1
  <2>7. LotShares(more) = Total(a) /\ LotShares(lots) = Total(b)
    BY <1>3, <2>1, <2>2 DEF LotShares
  <2> QED BY <2>5, <2>6, <2>7
<1>6. LotCost(more) = LotCost(lots) + lot.quantity * lot.price
  <2>1. PICK a : a = [i \in 1 .. m |-> more[i].quantity * more[i].price] OBVIOUS
  <2>2. PICK b : b = [i \in 1 .. n |-> lots[i].quantity * lots[i].price] OBVIOUS
  <2>3. a \in [1 .. m -> Int] /\ b \in [1 .. n -> Int] BY <1>3, <1>4, <2>1, <2>2
  <2>4. \A i \in 1 .. n : a[i] = b[i] BY <1>1, <1>3, <2>1, <2>2
  <2>5. Total(a) = Total(b) + a[m] BY <1>1, <2>3, <2>4, TotalStep
  <2>6. a[m] = lot.quantity * lot.price BY <1>1, <1>3, <2>1
  <2>7. LotCost(more) = Total(a) /\ LotCost(lots) = Total(b)
    BY <1>3, <2>1, <2>2 DEF LotCost
  <2> QED BY <2>5, <2>6, <2>7, Zenon
<1> QED BY <1>2, <1>5, <1>6

LEMMA NoLots == LotShares(<<>>) = 0 /\ LotCost(<<>>) = 0
<1>1. DOMAIN <<>> = 1 .. 0 OBVIOUS
<1>2. PICK a : a = [i \in 1 .. 0 |-> <<>>[i].quantity] OBVIOUS
<1>3. PICK b : b = [i \in 1 .. 0 |-> <<>>[i].quantity * <<>>[i].price] OBVIOUS
<1>4. a \in [1 .. 0 -> Int] /\ b \in [1 .. 0 -> Int] BY <1>2, <1>3
<1>5. LotShares(<<>>) = Total(a) /\ LotCost(<<>>) = Total(b)
  BY <1>1, <1>2, <1>3 DEF LotShares, LotCost
<1> QED BY <1>4, <1>5, TotalOfNone

\* Lots without shares cost nothing.
LEMMA NoSharesNoCost ==
  ASSUME NEW lots \in Seq(Lots), LotShares(lots) = 0
  PROVE  LotCost(lots) = 0
<1>1. PICK n \in Nat : n = Len(lots) BY LenProperties
<1>2. DOMAIN lots = 1 .. n /\ \A i \in 1 .. n : lots[i] \in Lots BY <1>1
<1>3. PICK a : a = [i \in 1 .. n |-> lots[i].quantity] OBVIOUS
<1>4. PICK b : b = [i \in 1 .. n |-> lots[i].quantity * lots[i].price] OBVIOUS
<1>5. \A i \in 1 .. n : a[i] \in Nat /\ b[i] \in Int /\ (a[i] = 0 => b[i] = 0)
  <2> TAKE i \in 1 .. n
  <2>1. PICK q \in Nat, p \in Nat : q = lots[i].quantity /\ p = lots[i].price
    BY <1>2 DEF Lots
  <2>2. q * p \in Int /\ (q = 0 => q * p = 0) OBVIOUS
  <2>3. a[i] = q /\ b[i] = q * p BY <1>3, <1>4, <2>1
  <2> QED BY <2>2, <2>3
<1>6. a \in [1 .. n -> Int] /\ b \in [1 .. n -> Int] BY <1>3, <1>4, <1>5
<1>7. LotShares(lots) = Total(a) /\ LotCost(lots) = Total(b)
  BY <1>2, <1>3, <1>4 DEF LotShares, LotCost
<1>8. PICK f : Sums(f, a, n) /\ Total(a) = f[n] BY <1>6, TotalIsSum
<1>9. PICK g : Sums(g, b, n) /\ Total(b) = g[n] BY <1>6, TotalIsSum
<1> DEFINE P == {i \in 0 .. n : f[i] \in Nat /\ (f[i] = 0 => g[i] = 0)}
<1>10. 0 \in P BY <1>8, <1>9 DEF Sums
<1>11. \A i \in 1 .. n : i - 1 \in P => i \in P
  <2> TAKE i \in 1 .. n
  <2> HAVE i - 1 \in P
  <2>1. f[i] = f[i - 1] + a[i] /\ g[i] = g[i - 1] + b[i] BY <1>8, <1>9 DEF Sums
  <2> QED BY <1>5, <2>1
<1>12. \A i \in 0 .. n : i \in P
  <2> HIDE DEF P
  <2> QED BY <1>10, <1>11, UpTo
<1>13. n \in P BY <1>12
<1> QED BY <1>7, <1>8, <1>9, <1>13

\* y is what taking n shares of the lot makes of x.
Taken(y, x, lot, price, n) ==
  /\ n <= x.left /\ n <= lot.quantity /\ (n = x.left \/ n = lot.quantity)
  /\ y.left = x.left - n /\ y.pnl = x.pnl + n * (price - lot.price)
  /\ n = lot.quantity => y.lots = x.lots
  /\ n # lot.quantity =>
       y.lots = Append(x.lots, [quantity |-> lot.quantity - n, price |-> lot.price])

LEMMA TakeType ==
  ASSUME NEW x \in Takes, NEW lot \in Lots, NEW price \in Nat
  PROVE  /\ Take(x, lot, price) \in Takes
         /\ \E n \in Nat : Taken(Take(x, lot, price), x, lot, price, n)
<1>1. PICK l \in Nat, g \in Int, held \in Seq(Lots) :
        l = x.left /\ g = x.pnl /\ held = x.lots
  BY DEF Takes
<1>2. PICK q \in Nat, p \in Nat : q = lot.quantity /\ p = lot.price BY DEF Lots
<1>3. PICK n \in Nat : n = IF q <= l THEN q ELSE l
  <2>1. (IF q <= l THEN q ELSE l) \in Nat OBVIOUS
  <2> QED BY <2>1
<1>4. PICK y : y = Take(x, lot, price) OBVIOUS
<1>5. y = [left |-> l - n, pnl |-> g + n * (price - p),
           lots |-> IF n = q THEN held
                    ELSE Append(held, [quantity |-> q - n, price |-> p])]
  BY <1>1, <1>2, <1>3, <1>4 DEF Take
<1>6. n <= l /\ n <= q /\ (n = l \/ n = q) /\ l - n \in Nat /\ q - n \in Nat BY <1>3
<1>7. g + n * (price - p) \in Int
  <2>1. PICK d \in Int : d = price - p OBVIOUS
  <2>2. g + n * d \in Int OBVIOUS
  <2> QED BY <2>1, <2>2
<1>8. y.lots \in Seq(Lots)
  <2>1. [quantity |-> q - n, price |-> p] \in Lots BY <1>6 DEF Lots
  <2>2. Append(held, [quantity |-> q - n, price |-> p]) \in Seq(Lots)
    BY <2>1, AppendProperties
  <2> QED BY <1>5, <2>2
<1>9. y \in Takes BY <1>5, <1>6, <1>7, <1>8 DEF Takes
<1>10. /\ y.left = l - n /\ y.pnl = g + n * (price - p)
       /\ n = q => y.lots = held
       /\ n # q => y.lots = Append(held, [quantity |-> q - n, price |-> p])
  BY <1>5
<1>11. Taken(y, x, lot, price, n) BY <1>1, <1>2, <1>6, <1>10 DEF Taken
<1> QED BY <1>4, <1>9, <1>11

LEMMA MatchSteps ==
  ASSUME NEW lots \in Seq(Lots), NEW fill \in Fill
  PROVE  \E u : /\ Built(u, Takes, Untaken(fill), Takings(lots, fill.price), Len(lots))
                /\ Match(lots, fill) = u[Len(lots)]
<1> DEFINE Is(g) == g = [i \in 0 .. Len(lots) |->
                          IF i = 0 THEN [left |-> fill.quantity, pnl |-> 0, lots |-> <<>>]
                          ELSE Take(g[i - 1], lots[i], fill.price)]
           u == CHOOSE g : Is(g)
<1>1. PICK n \in Nat : n = Len(lots) BY LenProperties
<1>2. PICK step : step = Takings(lots, fill.price) OBVIOUS
<1>3. PICK base \in Takes : base = Untaken(fill)
  <2>1. PICK q \in Nat, e \in Seq(Lots) : q = fill.quantity /\ e = <<>>
    <3>1. fill.quantity \in Nat /\ <<>> \in Seq(Lots) BY DEF Fill
    <3> QED BY <3>1
  <2>2. [left |-> q, pnl |-> 0, lots |-> e] \in Takes BY DEF Takes
  <2>3. Untaken(fill) = [left |-> q, pnl |-> 0, lots |-> e] BY <2>1 DEF Untaken
  <2> QED BY <2>2, <2>3
<1>4. \A i \in 1 .. n, x \in Takes : step[i][x] = Take(x, lots[i], fill.price)
  BY <1>1, <1>2 DEF Takings
<1>5. step \in [1 .. n -> [Takes -> Takes]]
  <2>1. \A i \in 1 .. n : lots[i] \in Lots BY <1>1
  <2>2. fill.price \in Nat BY DEF Fill
  <2>3. \A i \in 1 .. n, x \in Takes : Take(x, lots[i], fill.price) \in Takes
    BY <2>1, <2>2, TakeType
  <2> QED BY <1>1, <1>2, <2>3 DEF Takings
<1>6. PICK f : Built(f, Takes, base, step, n) BY <1>3, <1>5, StepByStep
<1>7. Is(f)
  <2>1. f \in [0 .. n -> Takes] /\ f[0] = base /\ \A i \in 1 .. n : f[i] = step[i][f[i - 1]]
    BY <1>6 DEF Built
  <2>2. \A i \in 1 .. n : f[i - 1] \in Takes BY <2>1
  <2>3. \A i \in 1 .. n : f[i] = Take(f[i - 1], lots[i], fill.price) BY <1>4, <2>1, <2>2, Zenon
  <2>4. \A i \in 0 .. n : f[i] = IF i = 0 THEN Untaken(fill)
                                 ELSE Take(f[i - 1], lots[i], fill.price)
    BY <1>3, <2>1, <2>3
  <2>5. \A i \in 0 .. n : f[i] = IF i = 0 THEN [left |-> fill.quantity, pnl |-> 0, lots |-> <<>>]
                                 ELSE Take(f[i - 1], lots[i], fill.price)
    BY <2>4, Zenon DEF Untaken
  <2> QED BY <1>1, <2>1, <2>5
<1>8. Is(u) BY <1>7
<1>9. Match(lots, fill) = u[Len(lots)] BY DEF Match
<1> HIDE DEF u
<1>10. u[0] = base /\ \A i \in 1 .. n : u[i] = Take(u[i - 1], lots[i], fill.price)
  <2>1. PICK none : none = [left |-> fill.quantity, pnl |-> 0, lots |-> <<>>] OBVIOUS
  <2>2. base = none BY <1>3, <2>1, Zenon DEF Untaken
  <2>3. u = [i \in 0 .. n |-> IF i = 0 THEN none ELSE Take(u[i - 1], lots[i], fill.price)]
    BY <1>1, <1>8, <2>1, Zenon
  <2>4. u[0] = none BY <2>3
  <2>5. \A i \in 1 .. n : u[i] = Take(u[i - 1], lots[i], fill.price) BY <2>3
  <2> QED BY <2>2, <2>4, <2>5
<1>11. \A i \in 1 .. n : u[i - 1] \in Takes => u[i] = step[i][u[i - 1]]
  <2> TAKE i \in 1 .. n
  <2> HAVE u[i - 1] \in Takes
  <2>1. PICK x \in Takes : x = u[i - 1] OBVIOUS
  <2>2. step[i][x] = Take(x, lots[i], fill.price) BY <1>4
  <2>3. u[i] = Take(u[i - 1], lots[i], fill.price) BY <1>10
  <2> QED BY <2>1, <2>2, <2>3, Zenon
<1>12. u = [i \in 0 .. n |-> u[i]] BY <1>1, <1>8
<1>13. Built(u, Takes, base, step, n) BY <1>3, <1>5, <1>10, <1>11, <1>12, Unfolds
<1> QED BY <1>1, <1>2, <1>3, <1>9, <1>13

\* What a sell of q at p has come to after lots of a shares that cost c: the
\* shares it took and those left over are all of them, the result is what it
\* took less what that cost, and nothing is left over while it wants more.
Matched(x, q, p, a, c) ==
  /\ x \in Takes
  /\ q - x.left + LotShares(x.lots) = a
  /\ x.pnl = p * (q - x.left) - c + LotCost(x.lots)
  /\ x.left > 0 => LotShares(x.lots) = 0

LEMMA TakeMatches ==
  ASSUME NEW q \in Nat, NEW p \in Nat, NEW a \in Int, NEW c \in Int, NEW x,
         Matched(x, q, p, a, c), NEW lot \in Lots
  PROVE  Matched(Take(x, lot, p), q, p, a + lot.quantity, c + lot.quantity * lot.price)
<1>1. PICK y : y = Take(x, lot, p) OBVIOUS
<1>2. x \in Takes BY DEF Matched
<1>3. y \in Takes BY <1>1, <1>2, TakeType
<1>4. PICK l \in Nat, g \in Int, lots \in Seq(Lots), b \in Nat, v \in Nat :
        l = x.left /\ g = x.pnl /\ lots = x.lots /\ b = lot.quantity /\ v = lot.price
  BY <1>2 DEF Takes, Lots
<1>5. PICK n \in Nat :
         /\ n <= l /\ n <= b /\ (n = l \/ n = b)
         /\ y.left = l - n /\ y.pnl = g + n * (p - v)
         /\ n = b => y.lots = lots
         /\ n # b => y.lots = Append(lots, [quantity |-> b - n, price |-> v])
  <2>1. PICK n \in Nat : Taken(y, x, lot, p, n) BY <1>1, <1>2, TakeType
  <2> QED BY <1>4, <2>1 DEF Taken
<1>6. PICK h \in Int, k \in Int : h = LotShares(lots) /\ k = LotCost(lots) BY LotAmounts
<1>7. PICK h1 \in Int, k1 \in Int :
        /\ h1 = LotShares(y.lots) /\ k1 = LotCost(y.lots)
        /\ h1 = h + (b - n)
        /\ k1 = k + (b - n) * v
        /\ n = b => h1 = h
  <2>1. CASE n = b
    <3>1. y.lots = lots BY <1>5, <2>1
    <3>2. b - n = 0 /\ 0 * v = 0 BY <2>1
    <3>3. h = h + (b - n) /\ k = k + (b - n) * v BY <3>2
    <3> QED BY <1>6, <3>1, <3>3
  <2>2. CASE n # b
    <3>1. PICK rest \in Lots : rest = [quantity |-> b - n, price |-> v]
      <4>1. b - n \in Nat BY <1>5
      <4> QED BY <4>1 DEF Lots
    <3>2. y.lots = Append(lots, rest) BY <1>5, <2>2, <3>1
    <3>3. /\ LotShares(Append(lots, rest)) = h + rest.quantity
          /\ LotCost(Append(lots, rest)) = k + rest.quantity * rest.price
      BY <1>6, LotAppended
    <3>4. rest.quantity = b - n /\ rest.price = v BY <3>1
    <3>5. h + (b - n) \in Int /\ k + (b - n) * v \in Int
      <4>1. PICK d \in Int : d = b - n OBVIOUS
      <4>2. k + d * v \in Int OBVIOUS
      <4> QED BY <4>1, <4>2
    <3>6. LotShares(y.lots) = h + (b - n) BY <3>2, <3>3, <3>4, Zenon
    <3>7. LotCost(y.lots) = k + (b - n) * v BY <3>2, <3>3, <3>4, Zenon
    <3> QED BY <2>2, <3>5, <3>6, <3>7
  <2> QED BY <2>1, <2>2
<1>8. q - l + h = a /\ g = p * (q - l) - c + k /\ (l > 0 => h = 0)
  BY <1>4, <1>6 DEF Matched
<1>9. PICK m \in Nat, j \in Int : m = l - n /\ j = g + n * (p - v) /\ m = y.left /\ j = y.pnl
  <2>1. y.left \in Nat /\ y.pnl \in Int BY <1>3 DEF Takes
  <2> QED BY <1>5, <2>1
<1>10. q - m + h1 = a + b BY <1>7, <1>8, <1>9
<1>11. j = p * (q - m) - (c + b * v) + k1
  <2>1. p * (q - m) = p * (q - l) + p * n
    <3>1. PICK d \in Int : d = q - l OBVIOUS
    <3>2. p * (d + n) = p * d + p * n OBVIOUS
    <3>3. q - m = d + n BY <1>9, <3>1
    <3> QED BY <3>1, <3>2, <3>3
  <2>2. n * (p - v) = p * n - n * v OBVIOUS
  <2>3. (b - n) * v = b * v - n * v OBVIOUS
  <2>4. PICK e \in Int, pn \in Int, nv \in Int, bv \in Int :
          e = p * (q - l) /\ pn = p * n /\ nv = n * v /\ bv = b * v
    <3>1. PICK d \in Int : d = q - l OBVIOUS
    <3>2. p * d \in Int OBVIOUS
    <3> QED BY <3>1, <3>2
  <2>5. j = g + (pn - nv) /\ k1 = k + (bv - nv) BY <1>7, <1>9, <2>2, <2>3, <2>4
  <2>6. g = e - c + k BY <1>8, <2>4
  <2>7. j = (e + pn) - (c + bv) + k1 BY <2>5, <2>6
  <2> QED BY <2>1, <2>4, <2>7
<1>12. m > 0 => h1 = 0
  <2> HAVE m > 0
  <2>1. n = b /\ l > 0 BY <1>9, <1>5
  <2> QED BY <1>7, <1>8, <2>1
<1>13. Matched(y, q, p, a + b, c + b * v)
  BY <1>3, <1>7, <1>9, <1>10, <1>11, <1>12 DEF Matched
<1> QED BY <1>1, <1>4, <1>13

\* A sell of no more than the lots hold takes as much, and gains what it was
\* sold for less what the lots have lost.
LEMMA MatchOf ==
  ASSUME NEW lots \in Seq(Lots), NEW fill \in Fill, fill.quantity <= LotShares(lots)
  PROVE  LET x == Match(lots, fill) IN
         /\ x \in Takes
         /\ LotShares(x.lots) = LotShares(lots) - fill.quantity
         /\ x.pnl = fill.quantity * fill.price - LotCost(lots) + LotCost(x.lots)
<1>1. PICK u : /\ Built(u, Takes, Untaken(fill), Takings(lots, fill.price), Len(lots))
               /\ Match(lots, fill) = u[Len(lots)]
  BY MatchSteps
<1>2. PICK n \in Nat : n = Len(lots) BY LenProperties
<1>3. PICK q \in Nat, p \in Nat : q = fill.quantity /\ p = fill.price BY DEF Fill
<1>4. DOMAIN lots = 1 .. n /\ \A i \in 1 .. n : lots[i] \in Lots BY <1>2
<1>5. /\ u \in [0 .. n -> Takes] /\ u[0] = Untaken(fill)
      /\ \A i \in 1 .. n : u[i] = Takings(lots, fill.price)[i][u[i - 1]]
  BY <1>1, <1>2 DEF Built
<1>6. \A i \in 1 .. n : u[i] = Take(u[i - 1], lots[i], p)
  <2>1. \A i \in 1 .. n, x \in Takes :
          Takings(lots, fill.price)[i][x] = Take(x, lots[i], fill.price)
    BY <1>2 DEF Takings
  <2>2. \A i \in 1 .. n : u[i - 1] \in Takes BY <1>5
  <2> QED BY <1>3, <1>5, <2>1, <2>2, Zenon
<1>7. PICK a : a = [i \in 1 .. n |-> lots[i].quantity] OBVIOUS
<1>8. PICK b : b = [i \in 1 .. n |-> lots[i].quantity * lots[i].price] OBVIOUS
<1>9. \A i \in 1 .. n : a[i] \in Int /\ b[i] \in Int
  <2> TAKE i \in 1 .. n
  <2>1. PICK w \in Nat, v \in Nat : w = lots[i].quantity /\ v = lots[i].price
    BY <1>4 DEF Lots
  <2>2. w * v \in Int OBVIOUS
  <2> QED BY <1>7, <1>8, <2>1, <2>2
<1>10. a \in [1 .. n -> Int] /\ b \in [1 .. n -> Int] BY <1>7, <1>8, <1>9
<1>11. PICK f : Sums(f, a, n) /\ Total(a) = f[n] BY <1>10, TotalIsSum
<1>12. PICK g : Sums(g, b, n) /\ Total(b) = g[n] BY <1>10, TotalIsSum
<1>13. LotShares(lots) = f[n] /\ LotCost(lots) = g[n]
  BY <1>4, <1>7, <1>8, <1>11, <1>12 DEF LotShares, LotCost
<1> DEFINE P == {i \in 0 .. n : Matched(u[i], q, p, f[i], g[i])}
<1>14. 0 \in P
  <2>1. f[0] = 0 /\ g[0] = 0 BY <1>11, <1>12 DEF Sums
  <2>2. PICK x : x = u[0] OBVIOUS
  <2>3. x.left = q /\ x.pnl = 0 /\ x.lots = <<>> /\ x \in Takes BY <1>3, <1>5, <2>2 DEF Untaken
  <2>4. p * (q - q) = 0
    <3>1. q - q = 0 /\ p * 0 = 0 OBVIOUS
    <3> QED BY <3>1
  <2>5. LotShares(x.lots) = 0 /\ LotCost(x.lots) = 0 BY <2>3, NoLots
  <2>6. q - x.left + LotShares(x.lots) = 0 BY <2>3, <2>5
  <2>7. x.pnl = p * (q - x.left) - 0 + LotCost(x.lots)
    <3>1. p * (q - x.left) = 0 BY <2>3, <2>4
    <3> QED BY <2>3, <2>5, <3>1
  <2>8. Matched(x, q, p, 0, 0) BY <2>3, <2>5, <2>6, <2>7 DEF Matched
  <2> QED BY <2>1, <2>2, <2>8
<1>15. \A i \in 1 .. n : i - 1 \in P => i \in P
  <2> TAKE i \in 1 .. n
  <2> HAVE i - 1 \in P
  <2>1. PICK x, s, c : x = u[i - 1] /\ s = f[i - 1] /\ c = g[i - 1] OBVIOUS
  <2>7. s \in Int /\ c \in Int
    <3>1. i - 1 \in 0 .. n OBVIOUS
    <3> QED BY <1>11, <1>12, <2>1, <3>1 DEF Sums
  <2>2. Matched(x, q, p, s, c) BY <2>1
  <2>3. PICK lot \in Lots : lot = lots[i] BY <1>4
  <2>4. Matched(Take(x, lot, p), q, p, s + lot.quantity, c + lot.quantity * lot.price)
    BY <2>2, <2>7, TakeMatches
  <2>5. f[i] = s + lot.quantity /\ g[i] = c + lot.quantity * lot.price
    <3>1. f[i] = f[i - 1] + a[i] /\ g[i] = g[i - 1] + b[i] BY <1>11, <1>12 DEF Sums
    <3>2. a[i] = lot.quantity /\ b[i] = lot.quantity * lot.price BY <1>7, <1>8, <2>3
    <3> QED BY <2>1, <3>1, <3>2, Zenon
  <2>6. u[i] = Take(x, lot, p) BY <1>6, <2>1, <2>3
  <2> QED BY <2>4, <2>5, <2>6
<1>16. \A i \in 0 .. n : i \in P
  <2> HIDE DEF P
  <2> QED BY <1>14, <1>15, UpTo
<1>17. Matched(u[n], q, p, f[n], g[n]) BY <1>16
<1>18. PICK x : x = u[n] OBVIOUS
<1>19. PICK l \in Nat, j \in Int, h \in Int, k \in Int, s \in Int, c \in Int :
         /\ l = x.left /\ j = x.pnl /\ h = LotShares(x.lots) /\ k = LotCost(x.lots)
         /\ s = f[n] /\ c = g[n]
  <2>1. x \in Takes BY <1>17, <1>18 DEF Matched
  <2>2. x.left \in Nat /\ x.pnl \in Int /\ x.lots \in Seq(Lots) BY <2>1 DEF Takes
  <2>3. f[n] \in Int /\ g[n] \in Int BY <1>11, <1>12 DEF Sums
  <2> QED BY <2>2, <2>3, LotAmounts
<1>20. q - l + h = s /\ j = p * (q - l) - c + k /\ (l > 0 => h = 0)
  BY <1>17, <1>18, <1>19 DEF Matched
<1>21. l = 0 BY <1>3, <1>13, <1>19, <1>20
<1>22. h = s - q BY <1>20, <1>21
<1>23. j = q * p - c + k
  <2>1. q - l = q BY <1>21
  <2>2. p * q = q * p OBVIOUS
  <2> QED BY <1>20, <2>1, <2>2
<1>24. x \in Takes BY <1>17, <1>18 DEF Matched
<1>25. x = Match(lots, fill) BY <1>1, <1>2, <1>18
<1> QED BY <1>3, <1>13, <1>19, <1>22, <1>23, <1>24, <1>25

Tallies == [lots : [Symbols -> Seq(Lots)], trades : Nat, wins : Nat]
NoTrips == [lots |-> [s \in Symbols |-> <<>>], trades |-> 0, wins |-> 0]
Bookings(r) == [i \in 1 .. Len(r.fills) |-> [x \in Tallies |-> Book(x, r.fills[i])]]

LEMMA MatchType ==
  ASSUME NEW lots \in Seq(Lots), NEW fill \in Fill
  PROVE  Match(lots, fill) \in Takes
<1>1. PICK u : /\ Built(u, Takes, Untaken(fill), Takings(lots, fill.price), Len(lots))
               /\ Match(lots, fill) = u[Len(lots)]
  BY MatchSteps
<1>2. Len(lots) \in 0 .. Len(lots)
  <2>1. Len(lots) \in Nat BY LenProperties
  <2> QED BY <2>1
<1> QED BY <1>1, <1>2 DEF Built

LEMMA Booked ==
  ASSUME NEW x \in Tallies, NEW fill \in Fill
  PROVE  \E y \in Tallies, m \in Takes :
           /\ y = Book(x, fill) /\ m = Match(x.lots[fill.symbol], fill)
           /\ \A s \in Symbols : s # fill.symbol => y.lots[s] = x.lots[s]
           /\ fill.side = "buy" =>
                /\ y.lots[fill.symbol] = Append(x.lots[fill.symbol],
                                                [quantity |-> fill.quantity, price |-> fill.price])
                /\ y.trades = x.trades /\ y.wins = x.wins
           /\ fill.side = "sell" =>
                /\ y.lots[fill.symbol] = m.lots
                /\ y.trades = x.trades + 1
                /\ y.wins = IF m.pnl > 0 THEN x.wins + 1 ELSE x.wins
<1>1. PICK s0 \in Symbols, q \in Nat, p \in Nat, side \in {"buy", "sell"} :
        s0 = fill.symbol /\ q = fill.quantity /\ p = fill.price /\ side = fill.side
  BY DEF Fill
<1>2. PICK lots \in [Symbols -> Seq(Lots)], t \in Nat, w \in Nat :
        lots = x.lots /\ t = x.trades /\ w = x.wins /\ x = [lots |-> lots, trades |-> t, wins |-> w]
  BY DEF Tallies
<1>3. lots[s0] \in Seq(Lots) OBVIOUS
<1>4. PICK m \in Takes : m = Match(lots[s0], fill) BY <1>3, MatchType
<1>5. PICK after \in Seq(Lots), g \in Int : after = m.lots /\ g = m.pnl BY DEF Takes
<1>6. PICK lot \in Lots : lot = [quantity |-> q, price |-> p] BY DEF Lots
<1>7. PICK y : y = Book(x, fill) OBVIOUS
<1>8. CASE side = "buy"
  <2>1. PICK more \in Seq(Lots) : more = Append(lots[s0], lot) BY <1>3, AppendProperties
  <2>2. y = [lots |-> [lots EXCEPT ![s0] = more], trades |-> t, wins |-> w]
    BY <1>1, <1>2, <1>6, <1>7, <1>8, <2>1 DEF Book
  <2>3. y \in Tallies BY <2>2 DEF Tallies
  <2>4. y.lots[s0] = more /\ \A s \in Symbols : s # s0 => y.lots[s] = lots[s] BY <2>2
  <2> QED BY <1>1, <1>2, <1>4, <1>6, <1>7, <1>8, <2>1, <2>2, <2>3, <2>4
<1>9. CASE side = "sell"
  <2>1. PICK v \in Nat : v = IF g > 0 THEN w + 1 ELSE w
    <3>1. (IF g > 0 THEN w + 1 ELSE w) \in Nat OBVIOUS
    <3> QED BY <3>1
  <2>2. y = [lots |-> [lots EXCEPT ![s0] = after], trades |-> t + 1, wins |-> v]
    BY <1>1, <1>2, <1>4, <1>5, <1>7, <1>9, <2>1 DEF Book
  <2>3. y \in Tallies BY <2>2 DEF Tallies
  <2>4. y.lots[s0] = after /\ \A s \in Symbols : s # s0 => y.lots[s] = lots[s] BY <2>2
  <2> QED BY <1>1, <1>2, <1>4, <1>5, <1>7, <1>9, <2>1, <2>2, <2>3, <2>4
<1> QED BY <1>8, <1>9

LEMMA TripSteps ==
  ASSUME NEW r \in Books
  PROVE  \E u : /\ Built(u, Tallies, NoTrips, Bookings(r), Len(r.fills))
                /\ Trips(r).trades = u[Len(r.fills)].trades
                /\ Trips(r).wins = u[Len(r.fills)].wins
<1> DEFINE Is(g) == g = [i \in 0 .. Len(r.fills) |->
                          IF i = 0
                          THEN [lots |-> [s \in Symbols |-> <<>>], trades |-> 0, wins |-> 0]
                          ELSE Book(g[i - 1], r.fills[i])]
           u == CHOOSE g : Is(g)
<1>1. PICK n \in Nat : n = Len(r.fills) /\ \A i \in 1 .. n : r.fills[i] \in Fill
  <2>1. r.fills \in Seq(Fill) BY DEF Books, Runs
  <2>2. Len(r.fills) \in Nat BY <2>1, LenProperties
  <2> QED BY <2>1, <2>2
<1>2. PICK step : step = Bookings(r) OBVIOUS
<1>3. PICK base \in Tallies : base = NoTrips
  <2>1. [s \in Symbols |-> <<>>] \in [Symbols -> Seq(Lots)] OBVIOUS
  <2>2. NoTrips \in Tallies BY <2>1 DEF NoTrips, Tallies
  <2> QED BY <2>2
<1>4. \A i \in 1 .. n, x \in Tallies : step[i][x] = Book(x, r.fills[i])
  BY <1>1, <1>2 DEF Bookings
<1>5. step \in [1 .. n -> [Tallies -> Tallies]]
  <2>1. ASSUME NEW i \in 1 .. n, NEW x \in Tallies PROVE Book(x, r.fills[i]) \in Tallies
    <3>1. PICK fill \in Fill : fill = r.fills[i] BY <1>1
    <3>2. PICK y \in Tallies : y = Book(x, fill) BY Booked
    <3> QED BY <3>1, <3>2
  <2> QED BY <1>1, <1>2, <2>1 DEF Bookings
<1>6. PICK f : Built(f, Tallies, base, step, n) BY <1>3, <1>5, StepByStep
<1>7. Is(f)
  <2>1. f \in [0 .. n -> Tallies] /\ f[0] = base /\ \A i \in 1 .. n : f[i] = step[i][f[i - 1]]
    BY <1>6 DEF Built
  <2>2. \A i \in 1 .. n : f[i - 1] \in Tallies BY <2>1
  <2>3. \A i \in 1 .. n : f[i] = Book(f[i - 1], r.fills[i]) BY <1>4, <2>1, <2>2, Zenon
  <2>4. \A i \in 0 .. n : f[i] = IF i = 0 THEN NoTrips ELSE Book(f[i - 1], r.fills[i])
    BY <1>3, <2>1, <2>3
  <2>5. \A i \in 0 .. n : f[i] = IF i = 0
                                 THEN [lots |-> [s \in Symbols |-> <<>>], trades |-> 0, wins |-> 0]
                                 ELSE Book(f[i - 1], r.fills[i])
    BY <2>4, Zenon DEF NoTrips
  <2> QED BY <1>1, <2>1, <2>5
<1>8. Is(u) BY <1>7
<1>9. Trips(r) = [trades |-> u[Len(r.fills)].trades, wins |-> u[Len(r.fills)].wins] BY DEF Trips
<1> HIDE DEF u
<1>10. u[0] = base /\ \A i \in 1 .. n : u[i] = Book(u[i - 1], r.fills[i])
  <2>1. PICK none : none = [lots |-> [s \in Symbols |-> <<>>], trades |-> 0, wins |-> 0] OBVIOUS
  <2>2. base = none BY <1>3, <2>1, Zenon DEF NoTrips
  <2>3. u = [i \in 0 .. n |-> IF i = 0 THEN none ELSE Book(u[i - 1], r.fills[i])]
    BY <1>1, <1>8, <2>1, Zenon
  <2>4. u[0] = none BY <2>3
  <2>5. \A i \in 1 .. n : u[i] = Book(u[i - 1], r.fills[i]) BY <2>3
  <2> QED BY <2>2, <2>4, <2>5
<1>11. \A i \in 1 .. n : u[i - 1] \in Tallies => u[i] = step[i][u[i - 1]]
  <2> TAKE i \in 1 .. n
  <2> HAVE u[i - 1] \in Tallies
  <2>1. PICK x \in Tallies : x = u[i - 1] OBVIOUS
  <2>2. step[i][x] = Book(x, r.fills[i]) BY <1>4
  <2>3. u[i] = Book(u[i - 1], r.fills[i]) BY <1>10
  <2> QED BY <2>1, <2>2, <2>3, Zenon
<1>12. u = [i \in 0 .. n |-> u[i]] BY <1>1, <1>8
<1>13. Built(u, Tallies, base, step, n) BY <1>3, <1>5, <1>10, <1>11, <1>12, Unfolds
<1>14. Trips(r).trades = u[n].trades /\ Trips(r).wins = u[n].wins BY <1>1, <1>9
<1> QED BY <1>1, <1>2, <1>3, <1>13, <1>14

\* Only one summand changes.
LEMMA TotalChange ==
  ASSUME NEW n \in Nat, NEW s \in [1 .. n -> Int], NEW t \in [1 .. n -> Int],
         NEW k \in 1 .. n, \A i \in 1 .. n : i # k => s[i] = t[i]
  PROVE  Total(t) = Total(s) + (t[k] - s[k])
<1>1. PICK f : Sums(f, s, n) /\ Total(s) = f[n] BY TotalIsSum
<1>2. PICK g : Sums(g, t, n) /\ Total(t) = g[n] BY TotalIsSum
<1>3. PICK d \in Int : d = t[k] - s[k] OBVIOUS
<1> DEFINE P == {i \in 0 .. n : g[i] = IF i < k THEN f[i] ELSE f[i] + d}
<1>4. 0 \in P BY <1>1, <1>2 DEF Sums
<1>5. \A i \in 1 .. n : i - 1 \in P => i \in P
  <2> TAKE i \in 1 .. n
  <2> HAVE i - 1 \in P
  <2>1. f[i] = f[i - 1] + s[i] /\ g[i] = g[i - 1] + t[i] /\ f[i - 1] \in Int /\ g[i - 1] \in Int
    <3>1. i - 1 \in 0 .. n OBVIOUS
    <3> QED BY <1>1, <1>2, <3>1 DEF Sums
  <2>2. s[i] \in Int /\ t[i] \in Int OBVIOUS
  <2>3. CASE i < k
    <3>1. g[i - 1] = f[i - 1] /\ s[i] = t[i] BY <2>3
    <3> QED BY <2>1, <2>3, <3>1
  <2>4. CASE i = k
    <3>1. g[i - 1] = f[i - 1] BY <2>4
    <3>2. t[i] = s[i] + d BY <1>3, <2>2, <2>4
    <3>3. g[i] = f[i] + d BY <2>1, <2>2, <3>1, <3>2
    <3> QED BY <2>4, <3>3
  <2>5. CASE i > k
    <3>1. g[i - 1] = f[i - 1] + d /\ s[i] = t[i] BY <2>5
    <3>2. g[i] = f[i] + d BY <2>1, <2>2, <3>1
    <3> QED BY <2>5, <3>2
  <2> QED BY <2>3, <2>4, <2>5
<1>6. n \in P
  <2>1. \A i \in 0 .. n : i \in P
    <3> HIDE DEF P
    <3> QED BY <1>4, <1>5, UpTo
  <2> QED BY <2>1
<1> QED BY <1>1, <1>2, <1>3, <1>6

\* What the lots of all symbols cost.
BookCost(lots) == Total([i \in DOMAIN Universe |-> LotCost(lots[Universe[i]])])

LEMMA BookCostType ==
  ASSUME NEW lots \in [Symbols -> Seq(Lots)]
  PROVE  BookCost(lots) \in Int
<1>1. PICK n \in Nat : DOMAIN Universe = 1 .. n BY UniverseAssumption
<1>2. PICK v : v = [i \in 1 .. n |-> LotCost(lots[Universe[i]])] OBVIOUS
<1>3. v \in [1 .. n -> Int]
  <2>1. \A i \in 1 .. n : lots[Universe[i]] \in Seq(Lots) BY <1>1, Places
  <2>2. \A i \in 1 .. n : v[i] \in Int BY <1>2, <2>1, LotAmounts
  <2> QED BY <1>2, <2>2
<1>4. BookCost(lots) = Total(v) BY <1>1, <1>2 DEF BookCost
<1> QED BY <1>3, <1>4, TotalType

\* Trading one symbol changes the cost by what its lots change.
LEMMA BookCostChange ==
  ASSUME NEW a \in [Symbols -> Seq(Lots)], NEW b \in [Symbols -> Seq(Lots)], NEW s \in Symbols,
         \A z \in Symbols : z # s => a[z] = b[z]
  PROVE  BookCost(b) = BookCost(a) + (LotCost(b[s]) - LotCost(a[s]))
<1>1. PICK n \in Nat : DOMAIN Universe = 1 .. n BY UniverseAssumption
<1>2. PICK v : v = [i \in 1 .. n |-> LotCost(a[Universe[i]])] OBVIOUS
<1>3. PICK w : w = [i \in 1 .. n |-> LotCost(b[Universe[i]])] OBVIOUS
<1>4. v \in [1 .. n -> Int] /\ w \in [1 .. n -> Int]
  <2>1. \A i \in 1 .. n : a[Universe[i]] \in Seq(Lots) /\ b[Universe[i]] \in Seq(Lots)
    BY <1>1, Places
  <2>2. \A i \in 1 .. n : v[i] \in Int /\ w[i] \in Int BY <1>2, <1>3, <2>1, LotAmounts
  <2> QED BY <1>2, <1>3, <2>2
<1>5. PICK k \in 1 .. n : s = Universe[k] BY <1>1 DEF Symbols, ToSet
<1>6. \A i \in 1 .. n : i # k => v[i] = w[i]
  <2> TAKE i \in 1 .. n
  <2> HAVE i # k
  <2>1. Universe[i] # s /\ Universe[i] \in Symbols BY <1>1, <1>5, UniverseAssumption, Places
  <2>2. a[Universe[i]] = b[Universe[i]] BY <2>1
  <2> QED BY <1>2, <1>3, <2>2
<1>7. Total(w) = Total(v) + (w[k] - v[k]) BY <1>4, <1>6, TotalChange
<1>8. BookCost(a) = Total(v) /\ BookCost(b) = Total(w) BY <1>1, <1>2, <1>3 DEF BookCost
<1>9. v[k] = LotCost(a[s]) /\ w[k] = LotCost(b[s]) BY <1>2, <1>3, <1>5
<1> QED BY <1>7, <1>8, <1>9

LEMMA NoBookCost ==
  ASSUME NEW lots \in [Symbols -> Seq(Lots)], \A s \in Symbols : LotCost(lots[s]) = 0
  PROVE  BookCost(lots) = 0
<1>1. PICK n \in Nat : DOMAIN Universe = 1 .. n BY UniverseAssumption
<1>2. PICK v : v = [i \in 1 .. n |-> LotCost(lots[Universe[i]])] OBVIOUS
<1>3. \A i \in 1 .. n : v[i] = 0 BY <1>1, <1>2, Places
<1>4. v \in [1 .. n -> Int] BY <1>2, <1>3
<1>5. BookCost(lots) = Total(v) BY <1>1, <1>2 DEF BookCost
<1> QED BY <1>3, <1>4, <1>5, TotalOfZeros

LEMMA NetOfNone ==
  ASSUME NEW fills, NEW s
  PROVE  Net(fills, 0, s) = 0
<1>1. PICK c : c = [i \in 1 .. 0 |-> IF fills[i].symbol = s THEN Shares(fills[i]) ELSE 0]
  OBVIOUS
<1>2. c \in [1 .. 0 -> Int] BY <1>1
<1> QED BY <1>1, <1>2, TotalOfNone DEF Net

LEMMA NetStep ==
  ASSUME NEW fills \in Seq(Fill), NEW i \in 1 .. Len(fills), NEW s
  PROVE  /\ Net(fills, i, s) = Net(fills, i - 1, s) + SharesOf(fills[i], s)
         /\ Net(fills, i, s) \in Int
<1>1. PICK n \in Nat, m \in Nat : m = i /\ n = i - 1 /\ m = n + 1 /\ m <= Len(fills)
  <2>1. Len(fills) \in Nat BY LenProperties
  <2> QED BY <2>1
<1>2. \A j \in 1 .. m : fills[j] \in Fill BY <1>1
<1>3. PICK a : a = [j \in 1 .. m |-> SharesOf(fills[j], s)] OBVIOUS
<1>4. PICK b : b = [j \in 1 .. n |-> SharesOf(fills[j], s)] OBVIOUS
<1>5. \A j \in 1 .. n : j \in 1 .. m BY <1>1
<1>6. a \in [1 .. m -> Int] /\ b \in [1 .. n -> Int] BY <1>2, <1>3, <1>4, <1>5, FillAmounts
<1>7. \A j \in 1 .. n : a[j] = b[j] BY <1>3, <1>4, <1>5
<1>8. Total(a) = Total(b) + a[m] BY <1>1, <1>6, <1>7, TotalStep
<1>9. Net(fills, m, s) = Total(a) /\ Net(fills, n, s) = Total(b)
  BY <1>3, <1>4 DEF Net, SharesOf
<1>10. a[m] = SharesOf(fills[i], s) BY <1>1, <1>3
<1>11. Total(a) \in Int BY <1>6, TotalType
<1> QED BY <1>1, <1>8, <1>9, <1>10, <1>11

\* The books of the round trips after i fills that have moved so much: their
\* lots are the shares held, what they gained is what the fills moved and the
\* cost of the lots, and they won only if they gained.
Tallied(x, fills, i, moved) ==
  /\ x \in Tallies
  /\ \A s \in Symbols : LotShares(x.lots[s]) = Net(fills, i, s)
  /\ \E gain \in Int :
       /\ gain = moved + BookCost(x.lots)
       /\ x.wins <= x.trades
       /\ x.wins = 0 => gain <= 0
       /\ x.trades = 0 => gain = 0
       /\ x.wins = x.trades /\ x.trades > 0 => gain > 0

LEMMA BookTallied ==
  ASSUME NEW fills \in Seq(Fill), NEW i \in DOMAIN fills, NEW moved \in Int, NEW x,
         Tallied(x, fills, i - 1, moved), ~Oversold(fills)
  PROVE  Tallied(Book(x, fills[i]), fills, i, moved + Signed(fills[i]))
<1>1. PICK n \in Nat : n = Len(fills) /\ DOMAIN fills = 1 .. n /\ i \in 1 .. n
  <2>1. Len(fills) \in Nat BY LenProperties
  <2> QED BY <2>1
<1>2. PICK fill \in Fill : fill = fills[i] BY <1>1
<1>3. x \in Tallies BY DEF Tallied
<1>4. PICK s0 \in Symbols, q \in Nat, p \in Nat, side \in {"buy", "sell"} :
        s0 = fill.symbol /\ q = fill.quantity /\ p = fill.price /\ side = fill.side
  BY DEF Fill
<1>5. PICK y \in Tallies, m \in Takes :
        /\ y = Book(x, fill) /\ m = Match(x.lots[fill.symbol], fill)
        /\ \A s \in Symbols : s # fill.symbol => y.lots[s] = x.lots[s]
        /\ fill.side = "buy" =>
             /\ y.lots[fill.symbol] = Append(x.lots[fill.symbol],
                                             [quantity |-> fill.quantity, price |-> fill.price])
             /\ y.trades = x.trades /\ y.wins = x.wins
        /\ fill.side = "sell" =>
             /\ y.lots[fill.symbol] = m.lots
             /\ y.trades = x.trades + 1
             /\ y.wins = IF m.pnl > 0 THEN x.wins + 1 ELSE x.wins
  BY <1>3, Booked
<1>6. PICK a \in [Symbols -> Seq(Lots)], b \in [Symbols -> Seq(Lots)] :
        a = x.lots /\ b = y.lots
  BY <1>3 DEF Tallies
<1>7. PICK t \in Nat, w \in Nat, t1 \in Nat, w1 \in Nat :
        t = x.trades /\ w = x.wins /\ t1 = y.trades /\ w1 = y.wins
  BY <1>3 DEF Tallies
<1>8. PICK gain \in Int :
        /\ gain = moved + BookCost(a) /\ w <= t /\ (w = 0 => gain <= 0)
        /\ (t = 0 => gain = 0) /\ (w = t /\ t > 0 => gain > 0)
  BY <1>6, <1>7 DEF Tallied
<1>9. \A s \in Symbols : LotShares(a[s]) = Net(fills, i - 1, s) BY <1>6 DEF Tallied
<1>10. \A s \in Symbols : s # s0 => b[s] = a[s] BY <1>4, <1>5, <1>6
<1>11. /\ a[s0] \in Seq(Lots) /\ b[s0] \in Seq(Lots)
       /\ LotShares(a[s0]) \in Int /\ LotCost(a[s0]) \in Int /\ LotCost(b[s0]) \in Int
  BY LotAmounts
<1>12. PICK h \in Int, k \in Int, k1 \in Int, c \in Int :
         h = LotShares(a[s0]) /\ k = LotCost(a[s0]) /\ k1 = LotCost(b[s0]) /\ c = BookCost(a)
  BY <1>11, BookCostType
<1>13. BookCost(b) = c + (k1 - k) BY <1>10, <1>12, BookCostChange
<1>14. \A s \in Symbols : /\ Net(fills, i, s) = Net(fills, i - 1, s) + SharesOf(fill, s)
                          /\ Net(fills, i, s) >= 0
  <2> TAKE s \in Symbols
  <2>1. Net(fills, i, s) = Net(fills, i - 1, s) + SharesOf(fill, s) /\ Net(fills, i, s) \in Int
    BY <1>1, <1>2, NetStep
  <2>2. ~(Net(fills, i, s) < 0) BY <1>1 DEF Oversold
  <2> QED BY <2>1, <2>2
<1>15. \A s \in Symbols : s # s0 => SharesOf(fill, s) = 0 BY <1>4 DEF SharesOf
<1>16. \A s \in Symbols : s # s0 => LotShares(b[s]) = Net(fills, i, s)
  <2> TAKE s \in Symbols
  <2> HAVE s # s0
  <2>1. LotShares(a[s]) \in Int
    <3>1. a[s] \in Seq(Lots) OBVIOUS
    <3> QED BY <3>1, LotAmounts
  <2>2. Net(fills, i, s) = LotShares(a[s]) + 0 BY <1>9, <1>14, <1>15
  <2> QED BY <1>10, <2>1, <2>2
<1>17. PICK v \in Int : v = q * p OBVIOUS
<1>18. CASE side = "buy"
  <2>1. PICK lot \in Lots : lot = [quantity |-> q, price |-> p] BY DEF Lots
  <2>2. b[s0] = Append(a[s0], lot) /\ t1 = t /\ w1 = w
    BY <1>4, <1>5, <1>6, <1>7, <1>18, <2>1
  <2>3. LotShares(b[s0]) = h + lot.quantity /\ LotCost(b[s0]) = k + lot.quantity * lot.price
    BY <1>11, <1>12, <2>2, LotAppended
  <2>4. lot.quantity = q /\ lot.price = p BY <2>1
  <2>5. LotShares(b[s0]) = h + q /\ k1 = k + v BY <1>12, <1>17, <2>3, <2>4, Zenon
  <2>6. SharesOf(fill, s0) = q BY <1>4, <1>18 DEF SharesOf, Shares
  <2>7. LotShares(b[s0]) = Net(fills, i, s0) BY <1>9, <1>12, <1>14, <2>5, <2>6
  <2>8. Signed(fill) = -v
    <3>1. Signed(fill) = -q * p BY <1>4, <1>18 DEF Signed
    <3>2. -q * p = -(q * p) OBVIOUS
    <3> QED BY <1>17, <3>1, <3>2
  <2>9. gain = (moved + Signed(fill)) + BookCost(b)
    <3>1. BookCost(b) = c + v BY <1>13, <2>5
    <3>2. gain = moved + c BY <1>8, <1>12
    <3>3. moved + c = (moved + -v) + (c + v) OBVIOUS
    <3> QED BY <2>8, <3>1, <3>2, <3>3, Zenon
  <2>10. Tallied(y, fills, i, moved + Signed(fill))
    BY <1>6, <1>7, <1>8, <1>16, <2>2, <2>7, <2>9 DEF Tallied
  <2> QED BY <1>2, <1>5, <2>10
<1>19. CASE side = "sell"
  <2>1. SharesOf(fill, s0) = -q BY <1>4, <1>19 DEF SharesOf, Shares
  <2>2. q <= h
    <3>1. h + SharesOf(fill, s0) >= 0 BY <1>9, <1>12, <1>14
    <3> QED BY <2>1, <3>1
  <2>3. m = Match(a[s0], fill) BY <1>4, <1>5, <1>6
  <2>4. fill.quantity <= LotShares(a[s0]) BY <1>4, <1>12, <2>2
  <2>5. /\ LotShares(m.lots) = LotShares(a[s0]) - fill.quantity
        /\ m.pnl = fill.quantity * fill.price - LotCost(a[s0]) + LotCost(m.lots)
    BY <1>11, <2>3, <2>4, MatchOf
  <2>6. b[s0] = m.lots /\ t1 = t + 1 /\ w1 = IF m.pnl > 0 THEN w + 1 ELSE w
    BY <1>4, <1>5, <1>6, <1>7, <1>19
  <2>7. LotShares(b[s0]) = h - q BY <1>4, <1>12, <2>5, <2>6
  <2>8. LotShares(b[s0]) = Net(fills, i, s0) BY <1>9, <1>12, <1>14, <2>1, <2>7
  <2>9. PICK g \in Int : g = m.pnl /\ g = v - k + k1
    <3>1. m.pnl = fill.quantity * fill.price - k + k1 BY <1>12, <2>5, <2>6, Zenon
    <3>2. m.pnl = v - k + k1 BY <1>4, <1>17, <3>1, Zenon
    <3> QED BY <3>2
  <2>10. Signed(fill) = v BY <1>4, <1>17, <1>19 DEF Signed
  <2>11. gain + g = (moved + Signed(fill)) + BookCost(b)
    BY <1>8, <1>12, <1>13, <2>9, <2>10
  <2>12. /\ w1 <= t1
         /\ w1 = 0 => gain + g <= 0
         /\ t1 = 0 => gain + g = 0
         /\ w1 = t1 /\ t1 > 0 => gain + g > 0
    <3>1. w1 = IF g > 0 THEN w + 1 ELSE w BY <2>6, <2>9
    <3>2. t1 = t + 1 BY <2>6
    <3>3. CASE g > 0
      <4>1. w1 = w + 1 /\ (w = t => gain + g > 0)
        BY <1>8, <3>1, <3>3
      <4> QED BY <1>8, <3>2, <4>1
    <3>4. CASE ~(g > 0)
      <4>1. w1 = w BY <3>1, <3>4
      <4> QED BY <1>8, <3>2, <3>4, <4>1
    <3> QED BY <3>3, <3>4
  <2>13. \A s \in Symbols : LotShares(y.lots[s]) = Net(fills, i, s) BY <1>6, <1>16, <2>8
  <2>14. PICK more \in Int : more = gain + g OBVIOUS
  <2>15. Tallied(y, fills, i, moved + Signed(fill))
    BY <1>6, <1>7, <2>11, <2>12, <2>13, <2>14 DEF Tallied
  <2> QED BY <1>2, <1>5, <2>15
<1> QED BY <1>18, <1>19

\* The round trips of a run that has not oversold.
LEMMA TripsOf ==
  ASSUME NEW r \in Books, ~Oversold(r.fills)
  PROVE  \E x : /\ Tallied(x, r.fills, Len(r.fills), Moved(r.fills))
                /\ Trips(r).trades = x.trades /\ Trips(r).wins = x.wins
<1>1. PICK fills \in Seq(Fill) : fills = r.fills BY DEF Books, Runs
<1>2. PICK n \in Nat : n = Len(fills) /\ DOMAIN fills = 1 .. n
  <2>1. Len(fills) \in Nat BY LenProperties
  <2> QED BY <2>1
<1>3. PICK u : /\ Built(u, Tallies, NoTrips, Bookings(r), n)
               /\ Trips(r).trades = u[n].trades /\ Trips(r).wins = u[n].wins
  BY <1>1, <1>2, TripSteps
<1>4. u \in [0 .. n -> Tallies] /\ u[0] = NoTrips /\ \A i \in 1 .. n : u[i] = Bookings(r)[i][u[i - 1]]
  BY <1>3 DEF Built
<1>5. \A i \in 1 .. n : u[i] = Book(u[i - 1], fills[i])
  <2>1. \A i \in 1 .. n, x \in Tallies : Bookings(r)[i][x] = Book(x, fills[i])
    BY <1>1, <1>2 DEF Bookings
  <2>2. \A i \in 1 .. n : u[i - 1] \in Tallies BY <1>4
  <2> QED BY <1>4, <2>1, <2>2, Zenon
<1>6. PICK a : a = [i \in 1 .. n |-> Signed(fills[i])] OBVIOUS
<1>7. a \in [1 .. n -> Int]
  <2>1. \A i \in 1 .. n : fills[i] \in Fill BY <1>2
  <2> QED BY <1>6, <2>1, FillAmounts
<1>8. PICK f : Sums(f, a, n) /\ Total(a) = f[n] BY <1>7, TotalIsSum
<1>9. Moved(fills) = f[n] BY <1>2, <1>6, <1>8 DEF Moved
<1> DEFINE P == {i \in 0 .. n : Tallied(u[i], fills, i, f[i])}
<1>10. 0 \in P
  <2>1. PICK x \in Tallies : x = u[0] BY <1>4
  <2>2. x = NoTrips BY <1>4, <2>1
  <2>3. x.trades = 0 /\ x.wins = 0 /\ \A s \in Symbols : x.lots[s] = <<>> BY <2>2 DEF NoTrips
  <2>4. \A s \in Symbols : LotShares(x.lots[s]) = 0 /\ LotCost(x.lots[s]) = 0 BY <2>3, NoLots
  <2>5. \A s \in Symbols : Net(fills, 0, s) = 0 BY NetOfNone
  <2>6. BookCost(x.lots) = 0 BY <2>1, <2>4, NoBookCost DEF Tallies
  <2>7. f[0] = 0 BY <1>8 DEF Sums
  <2>8. Tallied(x, fills, 0, 0)
    <3>1. 0 = 0 + BookCost(x.lots) BY <2>6
    <3> QED BY <2>3, <2>4, <2>5, <3>1 DEF Tallied
  <2> QED BY <2>1, <2>7, <2>8
<1>11. \A i \in 1 .. n : i - 1 \in P => i \in P
  <2> TAKE i \in 1 .. n
  <2> HAVE i - 1 \in P
  <2>1. PICK x, moved : x = u[i - 1] /\ moved = f[i - 1] OBVIOUS
  <2>2. moved \in Int
    <3>1. i - 1 \in 0 .. n OBVIOUS
    <3> QED BY <1>8, <2>1, <3>1 DEF Sums
  <2>3. Tallied(x, fills, i - 1, moved) BY <2>1
  <2>4. Tallied(Book(x, fills[i]), fills, i, moved + Signed(fills[i]))
    BY <1>1, <1>2, <2>2, <2>3, BookTallied
  <2>5. u[i] = Book(x, fills[i]) BY <1>5, <2>1
  <2>6. f[i] = moved + Signed(fills[i])
    <3>1. f[i] = f[i - 1] + a[i] BY <1>8 DEF Sums
    <3>2. a[i] = Signed(fills[i]) BY <1>6
    <3> QED BY <2>1, <3>1, <3>2, Zenon
  <2> QED BY <2>4, <2>5, <2>6
<1>12. \A i \in 0 .. n : i \in P
  <2> HIDE DEF P
  <2> QED BY <1>10, <1>11, UpTo
<1>13. Tallied(u[n], fills, n, f[n]) BY <1>12
<1> QED BY <1>1, <1>2, <1>3, <1>9, <1>13

LEMMA FeesNat ==
  ASSUME NEW fills \in Seq(Fill)
  PROVE  Fees(fills) \in Nat
<1>1. PICK n \in Nat : n = Len(fills) BY LenProperties
<1>2. DOMAIN fills = 1 .. n /\ \A i \in 1 .. n : fills[i] \in Fill BY <1>1
<1>3. ASSUME NEW x \in Fill PROVE FillFees(x) \in Nat
  <2>1. PICK q \in Nat, v \in Nat : q = x.quantity /\ v = x.price BY DEF Fill
  <2>2. PICK c \in Nat, t \in Nat : c = CommissionRate /\ t = TaxRate BY MoneyAssumption
  <2>3. PICK w \in Nat : w = q * v OBVIOUS
  <2>4. w * c \in Nat /\ w * t \in Nat OBVIOUS
  <2>5. Commission(x) \in Nat /\ Tax(x) \in Nat
    BY <2>1, <2>2, <2>3, <2>4 DEF Commission, Tax
  <2> QED BY <2>5 DEF FillFees
<1>4. PICK b : b = [i \in 1 .. n |-> FillFees(fills[i])] OBVIOUS
<1>5. \A i \in 1 .. n : b[i] \in Nat BY <1>2, <1>3, <1>4
<1>6. b \in [1 .. n -> Int] BY <1>4, <1>5
<1>7. Fees(fills) = Total(b) BY <1>2, <1>4 DEF Fees, FillFees
<1>8. PICK f : Sums(f, b, n) /\ Total(b) = f[n] BY <1>6, TotalIsSum
<1> DEFINE P == {i \in 0 .. n : f[i] \in Nat}
<1>9. 0 \in P BY <1>8 DEF Sums
<1>10. \A i \in 1 .. n : i - 1 \in P => i \in P
  <2> TAKE i \in 1 .. n
  <2> HAVE i - 1 \in P
  <2>1. f[i] = f[i - 1] + b[i] BY <1>8 DEF Sums
  <2> QED BY <1>5, <2>1
<1>11. n \in P
  <2>1. \A i \in 0 .. n : i \in P
    <3> HIDE DEF P
    <3> QED BY <1>9, <1>10, UpTo
  <2> QED BY <2>1
<1> QED BY <1>7, <1>8, <1>11

\* What a run that has sold all it bought has gained is in its round trips.
LEMMA TripsExplain ==
  ASSUME NEW r, Explained(r), Priced(r), ~Oversold(r.fills), \A s \in Symbols : r.held[s] = 0
  PROVE  /\ Trips(r).wins = 0 => Equity(r) <= InitialCash * Unit
         /\ Trips(r).wins = Trips(r).trades /\ Trips(r).trades > 0 =>
              Equity(r) + Fees(r.fills) > InitialCash * Unit
<1>1. r \in Books BY DEF Explained
<1>2. r.fills \in Seq(Fill) BY <1>1 DEF Books, Runs
<1>3. PICK x : /\ Tallied(x, r.fills, Len(r.fills), Moved(r.fills))
               /\ Trips(r).trades = x.trades /\ Trips(r).wins = x.wins
  BY <1>1, TripsOf
<1>4. x \in Tallies BY <1>3 DEF Tallied
<1>5. PICK t \in Nat, w \in Nat, lots \in [Symbols -> Seq(Lots)] :
        t = x.trades /\ w = x.wins /\ lots = x.lots
  BY <1>4 DEF Tallies
<1>6. \A s \in Symbols : LotCost(lots[s]) = 0
  <2> TAKE s \in Symbols
  <2>1. LotShares(lots[s]) = Net(r.fills, Len(r.fills), s) BY <1>3, <1>5 DEF Tallied
  <2>2. r.held[s] = Net(r.fills, Len(r.fills), s) BY DEF Explained
  <2>3. LotShares(lots[s]) = 0 BY <2>1, <2>2
  <2>4. lots[s] \in Seq(Lots) OBVIOUS
  <2> QED BY <2>3, <2>4, NoSharesNoCost
<1>7. BookCost(lots) = 0 BY <1>6, NoBookCost
<1>8. PICK m \in Int, f \in Nat, u \in Nat \ {0}, a \in Nat \ {0} :
        m = Moved(r.fills) /\ f = Fees(r.fills) /\ u = Unit /\ a = InitialCash
  BY <1>2, TotalsType, FeesNat, MoneyAssumption
<1>9. /\ w = 0 => m <= 0
      /\ w = t /\ t > 0 => m > 0
  <2>1. PICK gain \in Int :
          /\ gain = Moved(r.fills) + BookCost(x.lots)
          /\ x.wins = 0 => gain <= 0
          /\ x.wins = x.trades /\ x.trades > 0 => gain > 0
    BY <1>3 DEF Tallied
  <2>2. gain = m + 0 BY <1>5, <1>7, <1>8, <2>1
  <2>3. gain = m BY <2>2
  <2> QED BY <1>5, <2>1, <2>3
<1>10. OpenValue(r) = 0
  <2>1. PICK n \in Nat : DOMAIN Universe = 1 .. n BY UniverseAssumption
  <2>2. PICK v : v = [i \in 1 .. n |-> IF r.held[Universe[i]] > 0
                                       THEN r.held[Universe[i]] * r.quotes[Universe[i]] ELSE 0]
    OBVIOUS
  <2>3. \A i \in 1 .. n : v[i] = 0
    <3>1. \A i \in 1 .. n : r.held[Universe[i]] = 0 BY <2>1, Places
    <3>2. ~(0 > 0) OBVIOUS
    <3> QED BY <2>2, <3>1, <3>2
  <2>4. v \in [1 .. n -> Int] BY <2>2, <2>3
  <2>5. OpenValue(r) = Total(v) BY <2>1, <2>2 DEF OpenValue
  <2> QED BY <2>3, <2>4, <2>5, TotalOfZeros
<1>11. PICK e : e = Equity(r) OBVIOUS
<1>12. PICK um \in Int, ua \in Int : um = u * m /\ ua = a * u OBVIOUS
<1>13. e = ua + um - f
  <2>1. PICK c : c = r.cash OBVIOUS
  <2>2. c = u * (a + m) - f BY <1>8, <2>1, Zenon DEF Explained
  <2>3. u * (a + m) = u * a + u * m /\ u * a = a * u OBVIOUS
  <2>4. c = ua + um - f BY <1>12, <2>2, <2>3
  <2>5. u * 0 = 0 OBVIOUS
  <2>6. e = c + u * 0 BY <1>8, <1>10, <1>11, <2>1, Zenon DEF Priced
  <2> QED BY <2>4, <2>5, <2>6
<1>14. /\ m <= 0 => um <= 0
       /\ m > 0 => um > 0
  <2>1. ASSUME m <= 0 PROVE um <= 0
    <3>1. PICK k \in Nat : k = -m BY <2>1
    <3>2. u * k \in Nat /\ u * k = -(u * m) BY <3>1
    <3> QED BY <1>12, <3>2
  <2>2. ASSUME m > 0 PROVE um > 0 BY <1>12, <2>2
  <2> QED BY <2>1, <2>2
<1>15. /\ w = 0 => e <= ua
       /\ w = t /\ t > 0 => e + f > ua
  BY <1>9, <1>13, <1>14
<1>16. ua = InitialCash * Unit BY <1>8, <1>12
<1> QED BY <1>3, <1>5, <1>8, <1>11, <1>15, <1>16

\* The round trips of the report explain its result: a run that has sold all
\* it bought and won no trip has not gained, and one that won them all has
\* gained before fees (summarize).
THEOREM TripsTellTheResult == Spec => []TripsExplainReturn
<1>1. LabInv /\ LedgerInv => TripsExplainReturn
  <2> SUFFICES ASSUME LabInv, LedgerInv, stage = "done", job = "backtest",
                      \A s \in Symbols : run.held[s] = 0, ~Oversold(run.fills)
               PROVE  /\ summary.wins = 0 => summary.equity <= InitialCash * Unit
                      /\ summary.wins = summary.trades /\ summary.trades > 0 =>
                           summary.equity + Fees(run.fills) > InitialCash * Unit
    BY DEF TripsExplainReturn
  <2>1. summary = Summary(run) BY DEF LabInv
  <2>2. /\ summary.wins = Trips(run).wins /\ summary.trades = Trips(run).trades
        /\ summary.equity = Equity(run)
    BY <2>1 DEF Summary
  <2>3. Explained(run) /\ Priced(run) BY DEF LedgerInv
  <2> QED BY <2>2, <2>3, TripsExplain
<1> QED BY <1>1, LabInvariantHolds, LedgerInvariantHolds, PTL
=============================================================================
