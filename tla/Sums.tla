-------------------------------- MODULE Sums --------------------------------
(***************************************************************************)
(* Facts about the sums that the specifications are written with,          *)
(* SumFunction and SumFunctionOnSet of the community modules, for functions *)
(* from any finite set to the integers.  The fold behind them is a          *)
(* recursive function, so each fact is proved by a smallest counterexample. *)
(***************************************************************************)
EXTENDS Integers, FiniteSets, Functions, FiniteSetTheorems, TLAPS

(* One step of the fold: the summand that is chosen, and the rest. *)
Chosen(T) == CHOOSE x \in T : TRUE
Step(f, g, T) == IF T = {} THEN 0 ELSE f[Chosen(T)] + g[T \ {Chosen(T)}]

(* A function of the subsets of S that obeys the recursion of the fold. *)
IsTotal(g, f, S) == g = [T \in SUBSET S |-> Step(f, g, T)]
Total(f, S) == CHOOSE g : IsTotal(g, f, S)

(* A non-empty set of natural numbers has a smallest element. *)
LEMMA SmallestNat ==
  ASSUME NEW S \in SUBSET Nat, S # {}
  PROVE  \E n \in S : \A m \in S : n <= m
<1>1. PICK n \in S : \A m \in S : ~(<<m, n>> \in OpToRel(<, Nat))
  BY NatLessThanWellFounded, WFMin
<1>2. ASSUME NEW m \in S PROVE n <= m
  <2>1. <<m, n>> \in Nat \X Nat  OBVIOUS
  <2>2. ~(m < n)  BY <1>1, <2>1 DEF OpToRel
  <2> QED BY <2>2
<1> QED BY <1>2

LEMMA SumIsTotal ==
  ASSUME NEW f, NEW S
  PROVE  SumFunctionOnSet(f, S) = Total(f, S)[S]
BY DEF SumFunctionOnSet, FoldFunctionOnSet, MapThenFoldSet, Total, IsTotal, Step, Chosen

(* The subsets of at most n elements. *)
Small(S, n) == {T \in SUBSET S : Cardinality(T) <= n}

(* Taking the chosen element away makes a subset smaller. *)
LEMMA SmallerRest ==
  ASSUME NEW S, IsFiniteSet(S), NEW T \in SUBSET S, NEW x \in T
  PROVE  /\ IsFiniteSet(T) /\ Cardinality(T) \in Nat
         /\ T \ {x} \in SUBSET S /\ IsFiniteSet(T \ {x})
         /\ Cardinality(T \ {x}) = Cardinality(T) - 1
         /\ Cardinality(T \ {x}) \in Nat
<1>1. IsFiniteSet(T)
  BY FS_Subset
<1> QED BY <1>1, FS_RemoveElement, FS_CardinalityType

(* The recursion of the fold has a solution on every finite set. *)
LEMMA TotalExists ==
  ASSUME NEW f, NEW S, IsFiniteSet(S)
  PROVE  IsTotal(Total(f, S), f, S)
<1> DEFINE Solves(g, n) == g = [T \in Small(S, n) |-> Step(f, g, T)]
           Bad == {n \in Nat : ~ \E g : Solves(g, n)}
<1>1. ASSUME Bad # {} PROVE FALSE
  <2>1. PICK n \in Bad : \A m \in Bad : n <= m
    BY <1>1, SmallestNat
  <2>2. CASE n = 0
    <3> DEFINE g == [T \in Small(S, 0) |-> 0]
    <3>1. ASSUME NEW T \in Small(S, 0) PROVE T = {}
      BY <3>1, FS_Subset, FS_EmptySet, FS_CardinalityType DEF Small
    <3>2. \A T \in Small(S, 0) : Step(f, g, T) = 0
      BY <3>1 DEF Step
    <3>3. Solves(g, 0)
      BY <3>2
    <3> QED BY <2>1, <2>2, <3>3
  <2>3. CASE n > 0
    <3>1. n - 1 \in Nat /\ n - 1 \notin Bad
      BY <2>1, <2>3
    <3>2. PICK g : Solves(g, n - 1)
      BY <3>1
    <3> DEFINE h == [T \in Small(S, n) |-> Step(f, g, T)]
    <3>0. n \in Nat
      OBVIOUS
    <3> HIDE DEF Bad
    <3>3. ASSUME NEW T \in Small(S, n - 1) PROVE T \in Small(S, n) /\ h[T] = g[T]
      <4>1. T \in Small(S, n)
        <5>1. T \in SUBSET S /\ Cardinality(T) <= n - 1 /\ Cardinality(T) \in Nat
          BY FS_Subset, FS_CardinalityType DEF Small
        <5> QED BY <5>1, <3>0 DEF Small
      <4>2. g[T] = Step(f, g, T)
        BY <3>2
      <4> QED BY <4>1, <4>2
    <3>4. ASSUME NEW T \in Small(S, n) PROVE Step(f, g, T) = Step(f, h, T)
      <4>1. CASE T = {}
        BY <4>1 DEF Step
      <4>2. CASE T # {}
        <5> DEFINE x == Chosen(T)
        <5>1. x \in T
          BY <4>2 DEF Chosen
        <5>2. T \ {x} \in Small(S, n - 1)
          <6>1. T \in SUBSET S /\ Cardinality(T) <= n
            BY DEF Small
          <6> HIDE DEF x
          <6>2. /\ T \ {x} \in SUBSET S /\ Cardinality(T) \in Nat
                /\ Cardinality(T \ {x}) = Cardinality(T) - 1
            BY <5>1, <6>1, SmallerRest
          <6> QED BY <3>0, <6>1, <6>2 DEF Small
        <5>3. h[T \ {x}] = g[T \ {x}]
          BY <5>2, <3>3
        <5> QED BY <4>2, <5>3 DEF Step
      <4> QED BY <4>1, <4>2
    <3>5. Solves(h, n)
      BY <3>4
    <3> QED BY <2>1, <3>5 DEF Bad
  <2> QED BY <2>1, <2>2, <2>3
<1>2. Cardinality(S) \in Nat
  BY FS_CardinalityType
<1>3. PICK g : Solves(g, Cardinality(S))
  BY <1>1, <1>2
<1>4. Small(S, Cardinality(S)) = SUBSET S
  BY FS_Subset DEF Small
<1>5. IsTotal(g, f, S)
  BY <1>3, <1>4 DEF IsTotal
<1> QED BY <1>5 DEF Total

(* So a total can be computed one chosen element at a time. *)
LEMMA TotalStep ==
  ASSUME NEW f, NEW S, IsFiniteSet(S), NEW T \in SUBSET S
  PROVE  Total(f, S)[T] = Step(f, Total(f, S), T)
<1> DEFINE g == Total(f, S)
<1>0. IsTotal(g, f, S)
  BY TotalExists
<1> HIDE DEF g
<1>1. g = [U \in SUBSET S |-> Step(f, g, U)]
  BY <1>0 DEF IsTotal
<1>2. g[T] = Step(f, g, T)
  BY <1>1
<1> QED BY <1>2 DEF g

(* Induction over the subsets of a finite set: P has the empty one, and     *)
(* each that has all its elements but any one in P.                         *)
LEMMA SubsetInduction ==
  ASSUME NEW S, IsFiniteSet(S), NEW P, {} \in P,
         \A T \in SUBSET S : (T # {} /\ \A x \in T : T \ {x} \in P) => T \in P
  PROVE  \A T \in SUBSET S : T \in P
<1> DEFINE Bad == {n \in Nat : \E T \in SUBSET S : Cardinality(T) = n /\ T \notin P}
<1>1. ASSUME Bad # {} PROVE FALSE
  <2>1. PICK n \in Bad : \A m \in Bad : n <= m
    BY <1>1, SmallestNat
  <2>2. PICK T \in SUBSET S : Cardinality(T) = n /\ T \notin P
    BY <2>1
  <2>3. ASSUME NEW x \in T PROVE T \ {x} \in P
    <3>1. /\ T \ {x} \in SUBSET S
          /\ Cardinality(T \ {x}) \in Nat
          /\ Cardinality(T \ {x}) = n - 1
      BY <2>2, SmallerRest
    <3>2. n \in Nat
      OBVIOUS
    <3> HIDE DEF Bad
    <3>3. Cardinality(T \ {x}) \notin Bad
      BY <2>1, <3>1, <3>2
    <3> USE DEF Bad
    <3> QED BY <3>1, <3>3
  <2> QED BY <2>2, <2>3
<1>2. \A T \in SUBSET S : Cardinality(T) \in Nat
  BY FS_Subset, FS_CardinalityType
<1> QED BY <1>1, <1>2

(* It does not depend on the set that the subset is taken from. *)
LEMMA TotalLocal ==
  ASSUME NEW f, NEW S, IsFiniteSet(S), NEW T \in SUBSET S
  PROVE  Total(f, S)[T] = SumFunctionOnSet(f, T)
<1> DEFINE P == {U \in SUBSET T : Total(f, S)[U] = Total(f, T)[U]}
<1>1. IsFiniteSet(T)
  BY FS_Subset
<1>2. \A U \in SUBSET T : /\ Total(f, S)[U] = Step(f, Total(f, S), U)
                         /\ Total(f, T)[U] = Step(f, Total(f, T), U)
  BY <1>1, TotalStep
<1>3. {} \in P
  BY <1>2 DEF Step
<1>4. ASSUME NEW U \in SUBSET T, U # {}, \A x \in U : U \ {x} \in P PROVE U \in P
  BY <1>2, <1>4 DEF Step, Chosen
<1> HIDE DEF P
<1>5. \A U \in SUBSET T : U \in P
  BY <1>1, <1>3, <1>4, SubsetInduction
<1> QED BY <1>5, SumIsTotal DEF P

(* The fold takes a chosen element out of a non-empty set. *)
LEMMA SumChosen ==
  ASSUME NEW f, NEW S, IsFiniteSet(S), S # {}
  PROVE  /\ Chosen(S) \in S
         /\ SumFunctionOnSet(f, S) = f[Chosen(S)] + SumFunctionOnSet(f, S \ {Chosen(S)})
<1>1. Total(f, S)[S] = f[Chosen(S)] + Total(f, S)[S \ {Chosen(S)}]
  BY TotalStep DEF Step
<1>2. /\ Total(f, S)[S] = SumFunctionOnSet(f, S)
      /\ Total(f, S)[S \ {Chosen(S)}] = SumFunctionOnSet(f, S \ {Chosen(S)})
  BY TotalLocal
<1> QED BY <1>1, <1>2 DEF Chosen

(* The sum over no element. *)
LEMMA SumEmpty ==
  ASSUME NEW f
  PROVE  SumFunctionOnSet(f, {}) = 0
<1>1. IsFiniteSet({}) /\ {} \in SUBSET {}
  BY FS_EmptySet
<1>2. Total(f, {})[{}] = Step(f, Total(f, {}), {})
  BY <1>1, TotalStep
<1>3. Total(f, {})[{}] = SumFunctionOnSet(f, {})
  BY <1>1, TotalLocal
<1> QED BY <1>2, <1>3 DEF Step
(* A sum of integers is an integer. *)
LEMMA SumInt ==
  ASSUME NEW f, NEW S, IsFiniteSet(S), \A x \in S : f[x] \in Int
  PROVE  SumFunctionOnSet(f, S) \in Int
<1> DEFINE P == {T \in SUBSET S : SumFunctionOnSet(f, T) \in Int}
<1>1. {} \in P
  BY SumEmpty
<1>2. ASSUME NEW T \in SUBSET S, T # {}, \A x \in T : T \ {x} \in P PROVE T \in P
  <2>1. IsFiniteSet(T)
    BY FS_Subset
  <2>2. Chosen(T) \in T /\ SumFunctionOnSet(f, T) = f[Chosen(T)] + SumFunctionOnSet(f, T \ {Chosen(T)})
    BY <1>2, <2>1, SumChosen
  <2> QED BY <1>2, <2>2
<1> HIDE DEF P
<1>3. \A T \in SUBSET S : T \in P
  BY <1>1, <1>2, SubsetInduction
<1> QED BY <1>3 DEF P

(* Any element may be taken out first: the order of a sum does not matter. *)
LEMMA SumSplit ==
  ASSUME NEW f, NEW S, IsFiniteSet(S), \A x \in S : f[x] \in Int, NEW y \in S
  PROVE  SumFunctionOnSet(f, S) = f[y] + SumFunctionOnSet(f, S \ {y})
<1> DEFINE Sum(T) == SumFunctionOnSet(f, T)
           P == {T \in SUBSET S : \A z \in T : Sum(T) = f[z] + Sum(T \ {z})}
<1>1. \A T \in SUBSET S : Sum(T) \in Int
  BY FS_Subset, SumInt
<1>2. ASSUME NEW T \in SUBSET S, T # {}, \A x \in T : T \ {x} \in P PROVE T \in P
  <2>1. IsFiniteSet(T)
    BY FS_Subset
  <2>2. PICK x \in T : Sum(T) = f[x] + Sum(T \ {x})
    <3>1. Chosen(T) \in T /\ Sum(T) = f[Chosen(T)] + Sum(T \ {Chosen(T)})
      BY <1>2, <2>1, SumChosen
    <3> QED BY <3>1
  <2> HIDE DEF Sum
  <2>3. ASSUME NEW z \in T, z # x PROVE Sum(T) = f[z] + Sum(T \ {z})
    <3>1. Sum(T \ {x}) = f[z] + Sum((T \ {x}) \ {z})
      BY <1>2, <2>3
    <3>2. Sum(T \ {z}) = f[x] + Sum((T \ {z}) \ {x})
      BY <1>2, <2>3
    <3>3. (T \ {x}) \ {z} = (T \ {z}) \ {x} /\ (T \ {z}) \ {x} \in SUBSET S
      OBVIOUS
    <3> DEFINE n == Sum((T \ {z}) \ {x})
    <3>4. n \in Int /\ f[x] \in Int /\ f[z] \in Int
      BY <1>1, <3>3
    <3>5. Sum(T) = f[x] + (f[z] + n) /\ Sum(T \ {z}) = f[x] + n
      BY <2>2, <3>1, <3>2, <3>3
    <3> HIDE DEF n
    <3> QED BY <3>4, <3>5
  <2> QED BY <2>2, <2>3
<1> HIDE DEF P
<1>3. {} \in P
  BY DEF P
<1>4. \A T \in SUBSET S : T \in P
  BY <1>2, <1>3, SubsetInduction
<1> QED BY <1>4 DEF P

(* Functions that agree have the same sum. *)
LEMMA SumSame ==
  ASSUME NEW f, NEW g, NEW S, IsFiniteSet(S), \A x \in S : f[x] = g[x]
  PROVE  SumFunctionOnSet(f, S) = SumFunctionOnSet(g, S)
<1> DEFINE P == {T \in SUBSET S : SumFunctionOnSet(f, T) = SumFunctionOnSet(g, T)}
<1>1. {} \in P
  BY SumEmpty
<1>2. ASSUME NEW T \in SUBSET S, T # {}, \A x \in T : T \ {x} \in P PROVE T \in P
  <2>1. IsFiniteSet(T)
    BY FS_Subset
  <2>2. /\ Chosen(T) \in T
        /\ SumFunctionOnSet(f, T) = f[Chosen(T)] + SumFunctionOnSet(f, T \ {Chosen(T)})
        /\ SumFunctionOnSet(g, T) = g[Chosen(T)] + SumFunctionOnSet(g, T \ {Chosen(T)})
    BY <1>2, <2>1, SumChosen
  <2> QED BY <1>2, <2>2
<1> HIDE DEF P
<1>3. \A T \in SUBSET S : T \in P
  BY <1>1, <1>2, SubsetInduction
<1> QED BY <1>3 DEF P

(* What is bounded summand by summand, up to a factor of each side, is      *)
(* bounded in sum: fractions that are rounded down never add up to more.    *)
LEMMA SumScaled ==
  ASSUME NEW f, NEW g, NEW S, IsFiniteSet(S), NEW a \in Int, NEW b \in Int,
         \A x \in S : f[x] \in Int /\ g[x] \in Int /\ a * f[x] <= b * g[x]
  PROVE  a * SumFunctionOnSet(f, S) <= b * SumFunctionOnSet(g, S)
<1> DEFINE P == {T \in SUBSET S : a * SumFunctionOnSet(f, T) <= b * SumFunctionOnSet(g, T)}
<1>1. {} \in P
  <2>1. a * 0 <= b * 0
    OBVIOUS
  <2> QED BY <2>1, SumEmpty
<1>2. ASSUME NEW T \in SUBSET S, T # {}, \A x \in T : T \ {x} \in P PROVE T \in P
  <2> DEFINE F == SumFunctionOnSet(f, T \ {Chosen(T)})
             G == SumFunctionOnSet(g, T \ {Chosen(T)})
  <2>1. IsFiniteSet(T)
    BY FS_Subset
  <2>2. /\ Chosen(T) \in T
        /\ SumFunctionOnSet(f, T) = f[Chosen(T)] + F
        /\ SumFunctionOnSet(g, T) = g[Chosen(T)] + G
    BY <1>2, <2>1, SumChosen
  <2>3. IsFiniteSet(T \ {Chosen(T)})
    BY <2>1, FS_Subset
  <2>4. F \in Int /\ G \in Int
    BY <2>3, SumInt
  <2>5. a * F <= b * G
    BY <1>2, <2>2
  <2> HIDE DEF F, G, P
  <2>6. PICK m \in Int, n \in Int : m = f[Chosen(T)] /\ n = g[Chosen(T)] /\ a * m <= b * n
    BY <2>2
  <2>7. a * (m + F) <= b * (n + G)
    <3>1. a * (m + F) = a * m + a * F /\ b * (n + G) = b * n + b * G
      BY <2>4
    <3>2. a * m \in Int /\ a * F \in Int /\ b * n \in Int /\ b * G \in Int
      BY <2>4
    <3> QED BY <2>5, <2>6, <3>1, <3>2
  <2> QED BY <2>2, <2>6, <2>7 DEF P
<1> HIDE DEF P
<1>3. \A T \in SUBSET S : T \in P
  BY <1>1, <1>2, SubsetInduction
<1> QED BY <1>3 DEF P

(* A sum of natural numbers is a natural number. *)
LEMMA SumNat ==
  ASSUME NEW f, NEW S, IsFiniteSet(S), \A x \in S : f[x] \in Nat
  PROVE  SumFunctionOnSet(f, S) \in Nat
<1>1. 0 * SumFunctionOnSet(f, S) <= 1 * SumFunctionOnSet(f, S)
  BY SumScaled
<1> QED BY <1>1, SumInt

(* Changing the value of one element changes the sum by the difference. *)
LEMMA SumUpdate ==
  ASSUME NEW S, IsFiniteSet(S), NEW f \in [S -> Int], NEW y \in S, NEW v \in Int
  PROVE  SumFunction([f EXCEPT ![y] = v]) = SumFunction(f) - f[y] + v
<1> DEFINE g == [f EXCEPT ![y] = v]
           rest == S \ {y}
<1>1. g \in [S -> Int] /\ g[y] = v /\ \A x \in rest : g[x] = f[x]
  OBVIOUS
<1> HIDE DEF g
<1>2. SumFunctionOnSet(f, S) = f[y] + SumFunctionOnSet(f, rest)
  BY SumSplit
<1>3. SumFunctionOnSet(g, S) = v + SumFunctionOnSet(g, rest)
  BY <1>1, SumSplit
<1>4. IsFiniteSet(rest)
  BY FS_Subset
<1>5. SumFunctionOnSet(g, rest) = SumFunctionOnSet(f, rest) /\ SumFunctionOnSet(f, rest) \in Int
  BY <1>1, <1>4, SumSame, SumInt
<1> QED BY <1>1, <1>2, <1>3, <1>5 DEF SumFunction, g

(* Two elements taken out of a sum. *)
LEMMA SumSplitTwo ==
  ASSUME NEW S, IsFiniteSet(S), NEW f, \A z \in S : f[z] \in Nat,
         NEW x \in S, NEW y \in S, x # y
  PROVE  /\ SumFunctionOnSet(f, S \ {x, y}) \in Nat
         /\ SumFunctionOnSet(f, S) = f[x] + (f[y] + SumFunctionOnSet(f, S \ {x, y}))
<1> DEFINE without == S \ {x}
           others == without \ {y}
<1>1. IsFiniteSet(without) /\ IsFiniteSet(others) /\ others = S \ {x, y}
  BY FS_Subset
<1>2. SumFunctionOnSet(f, S) = f[x] + SumFunctionOnSet(f, without)
  BY SumSplit
<1>3. y \in without /\ \A z \in without : f[z] \in Int
  OBVIOUS
<1>4. \A z \in others : f[z] \in Nat
  OBVIOUS
<1> HIDE DEF without
<1>5. SumFunctionOnSet(f, without) = f[y] + SumFunctionOnSet(f, others)
  BY <1>1, <1>3, SumSplit
<1> HIDE DEF others
<1>6. SumFunctionOnSet(f, others) \in Nat
  BY <1>1, <1>4, SumNat
<1> QED BY <1>1, <1>2, <1>5, <1>6

(* What two elements have is at most what all have. *)
LEMMA SumOfTwo ==
  ASSUME NEW S, IsFiniteSet(S), NEW f \in [S -> Nat], NEW x \in S, NEW y \in S, x # y
  PROVE  f[x] + f[y] <= SumFunction(f)
<1>1. DOMAIN f = S /\ \A z \in S : f[z] \in Nat
  OBVIOUS
<1>2. /\ SumFunctionOnSet(f, S \ {x, y}) \in Nat
      /\ SumFunctionOnSet(f, S) = f[x] + (f[y] + SumFunctionOnSet(f, S \ {x, y}))
  BY <1>1, SumSplitTwo
<1> QED BY <1>1, <1>2 DEF SumFunction

(* Moving an amount from one element to another leaves the sum as it is. *)
LEMMA SumMoved ==
  ASSUME NEW S, IsFiniteSet(S), NEW f \in [S -> Nat], NEW x \in S, NEW y \in S, x # y,
         NEW n \in Nat, NEW h \in [S -> Nat], h[x] = f[x] - n, h[y] = f[y] + n,
         \A z \in S \ {x, y} : h[z] = f[z]
  PROVE  SumFunction(h) = SumFunction(f)
<1> DEFINE others == S \ {x, y}
<1>1. /\ DOMAIN f = S /\ \A z \in S : f[z] \in Nat
      /\ DOMAIN h = S /\ \A z \in S : h[z] \in Nat
  OBVIOUS
<1>2. SumFunctionOnSet(f, S) = f[x] + (f[y] + SumFunctionOnSet(f, others))
  BY <1>1, SumSplitTwo
<1>3. SumFunctionOnSet(h, S) = h[x] + (h[y] + SumFunctionOnSet(h, others))
  BY <1>1, SumSplitTwo
<1>4. IsFiniteSet(others)
  BY FS_Subset
<1>5. SumFunctionOnSet(f, others) \in Nat
  BY <1>1, SumSplitTwo
<1>6. \A z \in others : h[z] = f[z]
  OBVIOUS
<1> HIDE DEF others
<1>7. SumFunctionOnSet(h, others) = SumFunctionOnSet(f, others)
  BY <1>4, <1>6, SumSame
<1>8. SumFunctionOnSet(h, S) = SumFunctionOnSet(f, S)
  BY <1>1, <1>2, <1>3, <1>5, <1>7
<1> QED BY <1>1, <1>8 DEF SumFunction

(* What two functions give together element by element, they give in sum.   *)
LEMMA SumBoth ==
  ASSUME NEW f, NEW g, NEW h, NEW S, IsFiniteSet(S),
         \A x \in S : f[x] \in Nat /\ g[x] \in Nat /\ h[x] \in Nat /\ f[x] + g[x] <= h[x]
  PROVE  SumFunctionOnSet(f, S) + SumFunctionOnSet(g, S) <= SumFunctionOnSet(h, S)
<1> DEFINE P == {T \in SUBSET S :
                   SumFunctionOnSet(f, T) + SumFunctionOnSet(g, T) <= SumFunctionOnSet(h, T)}
<1>1. {} \in P  BY SumEmpty
<1>2. ASSUME NEW T \in SUBSET S, T # {}, \A x \in T : T \ {x} \in P PROVE T \in P
  <2> DEFINE y == Chosen(T)
             F == SumFunctionOnSet(f, T \ {y})
             G == SumFunctionOnSet(g, T \ {y})
             H == SumFunctionOnSet(h, T \ {y})
  <2>1. IsFiniteSet(T) /\ IsFiniteSet(T \ {y})  BY FS_Subset
  <2>2. /\ y \in T
        /\ SumFunctionOnSet(f, T) = f[y] + F
        /\ SumFunctionOnSet(g, T) = g[y] + G
        /\ SumFunctionOnSet(h, T) = h[y] + H
    BY <1>2, <2>1, SumChosen
  <2>3. F \in Nat /\ G \in Nat /\ H \in Nat  BY <2>1, SumNat
  <2>4. F + G <= H  BY <1>2, <2>2
  <2>5. f[y] \in Nat /\ g[y] \in Nat /\ h[y] \in Nat /\ f[y] + g[y] <= h[y]  BY <2>2
  <2> HIDE DEF F, G, H, y
  <2>6. (f[y] + F) + (g[y] + G) <= h[y] + H  BY <2>3, <2>4, <2>5
  <2> QED BY <2>2, <2>6
<1> HIDE DEF P
<1>3. \A T \in SUBSET S : T \in P  BY <1>1, <1>2, SubsetInduction
<1> QED BY <1>3 DEF P

(* The sum over a part is at most the sum over the whole.                    *)
LEMMA SumSubset ==
  ASSUME NEW f, NEW S, IsFiniteSet(S), \A x \in S : f[x] \in Nat, NEW R \in SUBSET S
  PROVE  SumFunctionOnSet(f, R) <= SumFunctionOnSet(f, S)
<1> DEFINE P == {T \in SUBSET S : SumFunctionOnSet(f, R \cap T) <= SumFunctionOnSet(f, T)}
<1>1. {} \in P
  <2>1. R \cap {} = {} /\ SumFunctionOnSet(f, {}) = 0  BY SumEmpty
  <2> QED BY <2>1
<1>2. ASSUME NEW T \in SUBSET S, T # {}, \A x \in T : T \ {x} \in P PROVE T \in P
  <2>1. PICK y : y \in T  BY <1>2
  <2>2. SumFunctionOnSet(f, R \cap (T \ {y})) <= SumFunctionOnSet(f, T \ {y})  BY <1>2, <2>1
  <2>3. IsFiniteSet(T) /\ IsFiniteSet(T \ {y}) /\ IsFiniteSet(R \cap T)
        /\ IsFiniteSet(R \cap (T \ {y}))
    BY FS_Subset
  <2>4. \A x \in T : f[x] \in Int /\ f[x] \in Nat  OBVIOUS
  <2>5. SumFunctionOnSet(f, T) = f[y] + SumFunctionOnSet(f, T \ {y})
    BY <2>1, <2>3, <2>4, SumSplit
  <2>6. /\ SumFunctionOnSet(f, T \ {y}) \in Nat
        /\ SumFunctionOnSet(f, R \cap (T \ {y})) \in Nat
    BY <2>3, <2>4, SumNat
  <2>7. f[y] \in Nat  BY <2>1, <2>4
  <2>8. SumFunctionOnSet(f, R \cap T) <= SumFunctionOnSet(f, T)
    <3>1. CASE y \notin R
      <4>1. R \cap T = R \cap (T \ {y})  BY <3>1
      <4>2. SumFunctionOnSet(f, R \cap T) = SumFunctionOnSet(f, R \cap (T \ {y}))  BY <4>1
      <4> QED BY <2>2, <2>5, <2>6, <2>7, <4>2
    <3>2. CASE y \in R
      <4>1. y \in R \cap T /\ (R \cap T) \ {y} = R \cap (T \ {y})  BY <2>1, <3>2
      <4>2. SumFunctionOnSet(f, R \cap T) = f[y] + SumFunctionOnSet(f, (R \cap T) \ {y})
        BY <2>3, <2>4, <4>1, SumSplit
      <4>3. SumFunctionOnSet(f, R \cap T) = f[y] + SumFunctionOnSet(f, R \cap (T \ {y}))
        BY <4>1, <4>2
      <4> QED BY <2>2, <2>5, <2>6, <2>7, <4>3
    <3> QED BY <3>1, <3>2
  <2> QED BY <2>8
<1> HIDE DEF P
<1>3. \A T \in SUBSET S : T \in P  BY <1>1, <1>2, SubsetInduction
<1>4. R \cap S = R  OBVIOUS
<1> QED BY <1>3, <1>4 DEF P

(* The sum over two sets that have nothing in common.                        *)
LEMMA SumUnion ==
  ASSUME NEW f, NEW A, NEW B, IsFiniteSet(A), IsFiniteSet(B), A \cap B = {},
         \A x \in A \cup B : f[x] \in Nat
  PROVE  SumFunctionOnSet(f, A \cup B) = SumFunctionOnSet(f, A) + SumFunctionOnSet(f, B)
<1> DEFINE P == {T \in SUBSET A :
                   SumFunctionOnSet(f, T \cup B) = SumFunctionOnSet(f, T) + SumFunctionOnSet(f, B)}
<1>1. {} \in P
  <2>1. {} \cup B = B /\ SumFunctionOnSet(f, {}) = 0  BY SumEmpty
  <2>2. SumFunctionOnSet(f, B) \in Nat  BY SumNat
  <2> QED BY <2>1, <2>2
<1>2. ASSUME NEW T \in SUBSET A, T # {}, \A x \in T : T \ {x} \in P PROVE T \in P
  <2>1. PICK y : y \in T  BY <1>2
  <2> DEFINE rest == T \ {y}
  <2>2. SumFunctionOnSet(f, rest \cup B) = SumFunctionOnSet(f, rest) + SumFunctionOnSet(f, B)
    BY <1>2, <2>1
  <2>3. IsFiniteSet(T) /\ IsFiniteSet(rest)  BY FS_Subset
  <2>4. IsFiniteSet(T \cup B) /\ (T \cup B) \ {y} = rest \cup B
    BY <2>1, <2>3, FS_Union
  <2>5. \A x \in T \cup B : f[x] \in Int /\ f[x] \in Nat  OBVIOUS
  <2>6. SumFunctionOnSet(f, T) = f[y] + SumFunctionOnSet(f, rest)
    BY <2>1, <2>3, <2>5, SumSplit
  <2>7. SumFunctionOnSet(f, T \cup B) = f[y] + SumFunctionOnSet(f, (T \cup B) \ {y})
    BY <2>1, <2>4, <2>5, SumSplit
  <2>8. SumFunctionOnSet(f, T \cup B) = f[y] + SumFunctionOnSet(f, rest \cup B)
    BY <2>4, <2>7
  <2>9. SumFunctionOnSet(f, rest) \in Nat /\ SumFunctionOnSet(f, B) \in Nat /\ f[y] \in Nat
    <3>1. SumFunctionOnSet(f, rest) \in Nat  BY <2>3, SumNat
    <3>2. SumFunctionOnSet(f, B) \in Nat  BY SumNat
    <3> QED BY <2>1, <3>1, <3>2
  <2>10. SumFunctionOnSet(f, T \cup B) = SumFunctionOnSet(f, T) + SumFunctionOnSet(f, B)
    BY <2>2, <2>6, <2>8, <2>9
  <2> QED BY <2>10
<1> HIDE DEF P
<1>3. \A T \in SUBSET A : T \in P  BY <1>1, <1>2, SubsetInduction
<1> QED BY <1>3 DEF P

(* A sum taken group by group: where every group is bounded, so is the whole. *)
LEMMA SumGrouped ==
  ASSUME NEW f, NEW S, IsFiniteSet(S), \A s \in S : f[s] \in Nat,
         NEW g, NEW T, IsFiniteSet(T), \A t \in T : g[t] \in Nat,
         NEW m, \A s \in S : m[s] \in T,
         \A t \in T : SumFunctionOnSet(f, {s \in S : m[s] = t}) <= g[t]
  PROVE  SumFunctionOnSet(f, S) <= SumFunctionOnSet(g, T)
<1> DEFINE Within(U) == {s \in S : m[s] \in U}
           P == {U \in SUBSET T : SumFunctionOnSet(f, Within(U)) <= SumFunctionOnSet(g, U)}
<1>1. {} \in P
  <2>1. Within({}) = {}  OBVIOUS
  <2>2. SumFunctionOnSet(f, {}) = 0 /\ SumFunctionOnSet(g, {}) = 0  BY SumEmpty
  <2> QED BY <2>1, <2>2
<1>2. ASSUME NEW U \in SUBSET T, U # {}, \A x \in U : U \ {x} \in P PROVE U \in P
  <2>1. PICK y : y \in U  BY <1>2
  <2> DEFINE rest == U \ {y}
             group == {s \in S : m[s] = y}
             others == Within(rest)
  <2>2. SumFunctionOnSet(f, others) <= SumFunctionOnSet(g, rest)  BY <1>2, <2>1
  <2>3. IsFiniteSet(U) /\ IsFiniteSet(rest) /\ IsFiniteSet(group) /\ IsFiniteSet(others)
    BY FS_Subset
  <2>4. Within(U) = group \cup others /\ group \cap others = {}  BY <2>1
  <2>5. /\ \A x \in U : g[x] \in Int /\ g[x] \in Nat
        /\ \A s \in group \cup others : f[s] \in Nat
    OBVIOUS
  <2>6. SumFunctionOnSet(f, Within(U)) = SumFunctionOnSet(f, group) + SumFunctionOnSet(f, others)
    <3> HIDE DEF group, others
    <3>1. SumFunctionOnSet(f, group \cup others)
            = SumFunctionOnSet(f, group) + SumFunctionOnSet(f, others)
      BY <2>3, <2>4, <2>5, SumUnion
    <3> QED BY <2>4, <3>1
  <2>7. SumFunctionOnSet(g, U) = g[y] + SumFunctionOnSet(g, rest)
    BY <2>1, <2>3, <2>5, SumSplit
  <2>8. SumFunctionOnSet(f, group) <= g[y]  BY <2>1
  <2>9. /\ SumFunctionOnSet(f, group) \in Nat /\ SumFunctionOnSet(f, others) \in Nat
        /\ SumFunctionOnSet(g, rest) \in Nat /\ g[y] \in Nat
    <3>1. SumFunctionOnSet(f, group) \in Nat  BY <2>3, SumNat
    <3>2. SumFunctionOnSet(f, others) \in Nat  BY <2>3, SumNat
    <3>3. SumFunctionOnSet(g, rest) \in Nat  BY <2>3, <2>5, SumNat
    <3> QED BY <2>1, <3>1, <3>2, <3>3
  <2>10. SumFunctionOnSet(f, Within(U)) <= SumFunctionOnSet(g, U)
    <3> HIDE DEF group, others, rest
    <3> QED BY <2>2, <2>6, <2>7, <2>8, <2>9
  <2> QED BY <2>10
<1> HIDE DEF P
<1>3. \A U \in SUBSET T : U \in P  BY <1>1, <1>2, SubsetInduction
<1>4. Within(T) = S  OBVIOUS
<1> QED BY <1>3, <1>4 DEF P

(* The same number for each.                                                 *)
LEMMA SumConstant ==
  ASSUME NEW f, NEW S, IsFiniteSet(S), NEW a \in Nat, \A x \in S : f[x] = a
  PROVE  SumFunctionOnSet(f, S) = Cardinality(S) * a
<1> DEFINE P == {T \in SUBSET S : SumFunctionOnSet(f, T) = Cardinality(T) * a}
<1>1. {} \in P
  <2>1. SumFunctionOnSet(f, {}) = 0 /\ Cardinality({}) = 0  BY SumEmpty, FS_EmptySet
  <2>2. 0 * a = 0  OBVIOUS
  <2> QED BY <2>1, <2>2
<1>2. ASSUME NEW T \in SUBSET S, T # {}, \A x \in T : T \ {x} \in P PROVE T \in P
  <2>1. PICK y : y \in T  BY <1>2
  <2> DEFINE rest == T \ {y}
  <2>2. SumFunctionOnSet(f, rest) = Cardinality(rest) * a  BY <1>2, <2>1
  <2>3. IsFiniteSet(T) /\ IsFiniteSet(rest)  BY FS_Subset
  <2>4. SumFunctionOnSet(f, T) = f[y] + SumFunctionOnSet(f, rest)
    <3>1. \A x \in T : f[x] \in Int  OBVIOUS
    <3> QED BY <2>1, <2>3, <3>1, SumSplit
  <2>5. PICK n \in Nat : n = Cardinality(rest) /\ Cardinality(T) = n + 1
    <3>1. Cardinality(rest) = Cardinality(T) - 1 /\ Cardinality(rest) \in Nat
          /\ Cardinality(T) \in Nat
      BY <2>1, <2>3, FS_RemoveElement, FS_CardinalityType
    <3> QED BY <3>1
  <2>6. f[y] = a  BY <2>1
  <2>7. (n + 1) * a = a + n * a  OBVIOUS
  <2>8. SumFunctionOnSet(f, T) = Cardinality(T) * a
    <3> HIDE DEF rest
    <3> QED BY <2>2, <2>4, <2>5, <2>6, <2>7
  <2> QED BY <2>8
<1> HIDE DEF P
<1>3. \A T \in SUBSET S : T \in P  BY <1>1, <1>2, SubsetInduction
<1> QED BY <1>3 DEF P

(* The sum over one element, or none.                                        *)
LEMMA SumOfAtMostOne ==
  ASSUME NEW f, NEW S, \A x, y \in S : x = y, NEW a \in Nat, \A x \in S : f[x] \in Nat /\ f[x] <= a
  PROVE  SumFunctionOnSet(f, S) <= a
<1>1. CASE S = {}  BY <1>1, SumEmpty
<1>2. CASE S # {}
  <2>1. PICK y : y \in S  BY <1>2
  <2>2. S = {y}  BY <2>1
  <2>3. IsFiniteSet(S)  BY <2>2, FS_Singleton
  <2>4. SumFunctionOnSet(f, S) = f[y] + SumFunctionOnSet(f, S \ {y})
    <3>1. \A x \in S : f[x] \in Int  OBVIOUS
    <3> QED BY <2>1, <2>3, <3>1, SumSplit
  <2>5. SumFunctionOnSet(f, S \ {y}) = 0
    <3>1. S \ {y} = {}  BY <2>2
    <3> QED BY <3>1, SumEmpty
  <2> QED BY <2>1, <2>4, <2>5
<1> QED BY <1>1, <1>2
============================================================================
