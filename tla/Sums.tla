-------------------------------- MODULE Sums --------------------------------
(***************************************************************************)
(* Sums over finite sets, with which stock, allocations, scores and faults *)
(* are counted: what SumFunctionOnSet of the community modules computes.   *)
(* It is a fold, hence a recursive function.  Induction over the sets it   *)
(* is defined on is the existence of a minimal counterexample, which the   *)
(* library states without an operator as a parameter (WFMin).              *)
(***************************************************************************)
EXTENDS Integers, FiniteSets, Functions, FiniteSetTheorems, WellFoundedInduction, TLAPS

(* What holds of a set when it holds of its proper subsets holds of every  *)
(* finite set.                                                             *)
LEMMA SubsetInduction ==
  ASSUME NEW S, IsFiniteSet(S), NEW X,
         \A T \in SUBSET S : (\A U \in SUBSET T : U # T => U \in X) => T \in X
  PROVE  \A T \in SUBSET S : T \in X
PROOF
<1> DEFINE Bad == (SUBSET S) \ X
<1> SUFFICES ASSUME Bad # {} PROVE FALSE
  OBVIOUS
<1>1. IsWellFoundedOn(StrictSubsetOrdering(S), FiniteSubsetsOf(S))
  BY FS_StrictSubsetOrderingWellFounded
<1>2. Bad \subseteq FiniteSubsetsOf(S)
  BY FS_Subset DEF FiniteSubsetsOf
<1>3. \E T \in Bad : \A U \in Bad : ~(<<U, T>> \in StrictSubsetOrdering(S))
  <2> HIDE DEF Bad
  <2> QED BY <1>1, <1>2, WFMin
<1>4. PICK T \in Bad : \A U \in Bad : ~(U \subseteq T /\ U # T)
  <2>1. PICK T \in Bad : \A U \in Bad : ~(<<U, T>> \in StrictSubsetOrdering(S))
    BY <1>3
  <2>2. \A U \in Bad : U \in SUBSET S
    OBVIOUS
  <2> HIDE DEF Bad
  <2>3. ASSUME NEW U \in Bad, U \subseteq T, U # T
        PROVE  FALSE
    <3>1. <<U, T>> \in StrictSubsetOrdering(S)
      BY <2>2, <2>3 DEF StrictSubsetOrdering
    <3> QED BY <2>1, <3>1
  <2> QED BY <2>3
<1>5. \A U \in SUBSET T : U # T => U \in X
  BY <1>4
<1> QED BY <1>4, <1>5

(* The same, an element at a time.                                         *)
LEMMA SetInduction ==
  ASSUME NEW S, IsFiniteSet(S), NEW X, {} \in X,
         \A T \in SUBSET S : \A x \in S \ T : T \in X => T \cup {x} \in X
  PROVE  S \in X
PROOF
<1>1. ASSUME NEW T \in SUBSET S, \A U \in SUBSET T : U # T => U \in X
      PROVE  T \in X
  <2>1. CASE T = {}
    BY <2>1
  <2>2. CASE T # {}
    <3>1. PICK x \in T : TRUE
      BY <2>2
    <3>2. T \ {x} \in X /\ (T \ {x}) \cup {x} = T
      BY <1>1, <3>1
    <3> QED BY <3>1, <3>2
  <2> QED BY <2>1, <2>2
<1> QED BY <1>1, SubsetInduction

-----------------------------------------------------------------------------
(* The recursive function behind a sum.                                    *)
PickFrom(s) == CHOOSE x \in s : TRUE
RestOf(s) == s \ {PickFrom(s)}
Iterates(f, T, g) ==
  g = [s \in SUBSET T |-> IF s = {} THEN 0 ELSE f[PickFrom(s)] + g[RestOf(s)]]

(* The fold takes an element of the set,                                   *)
LEMMA PickIsElement == ASSUME NEW s, s # {} PROVE PickFrom(s) \in s
BY DEF PickFrom

(* and goes on with the others.                                            *)
LEMMA RestIsSmaller == ASSUME NEW s, s # {} PROVE RestOf(s) \in SUBSET s /\ RestOf(s) # s
BY PickIsElement DEF RestOf

(* The sum of the community modules is such a function.                    *)
LEMMA SumIsIterate ==
  ASSUME NEW f, NEW T
  PROVE  SumFunctionOnSet(f, T) = (CHOOSE g : Iterates(f, T, g))[T]
BY Zenon DEF SumFunctionOnSet, FoldFunctionOnSet, MapThenFoldSet, Iterates, PickFrom, RestOf

(* Two such functions agree where both are defined.                        *)
LEMMA IteratesAgree ==
  ASSUME NEW f, NEW S, IsFiniteSet(S), NEW T, NEW g, NEW h,
         Iterates(f, S, g), Iterates(f, T, h)
  PROVE  \A s \in SUBSET (S \cap T) : g[s] = h[s]
PROOF
<1> DEFINE X == {s \in SUBSET (S \cap T) : g[s] = h[s]}
<1>1. IsFiniteSet(S \cap T)
  BY FS_Intersection
<1>2. ASSUME NEW s \in SUBSET (S \cap T), \A u \in SUBSET s : u # s => u \in X
      PROVE  s \in X
  <2>1. CASE s = {}
    BY <2>1 DEF Iterates
  <2>2. CASE s # {}
    <3>1. RestOf(s) \in X
      BY <1>2, <2>2, RestIsSmaller
    <3>2. g[s] = f[PickFrom(s)] + g[RestOf(s)] /\ h[s] = f[PickFrom(s)] + h[RestOf(s)]
      BY <2>2 DEF Iterates
    <3> QED BY <3>1, <3>2
  <2> QED BY <2>1, <2>2
<1>3. \A s \in SUBSET (S \cap T) : s \in X
  <2> HIDE DEF X
  <2> QED BY <1>1, <1>2, SubsetInduction
<1> QED BY <1>3

(* And there is one for every finite set.                                  *)
LEMMA IterateExists ==
  ASSUME NEW f, NEW S, IsFiniteSet(S)
  PROVE  \A T \in SUBSET S : \E g : Iterates(f, T, g)
PROOF
<1> DEFINE X == {T \in SUBSET S : \E g : Iterates(f, T, g)}
<1>1. ASSUME NEW T \in SUBSET S, \A U \in SUBSET T : U # T => U \in X
      PROVE  T \in X
  <2> DEFINE iter(U) == CHOOSE g : Iterates(f, U, g)
             Value(s) == IF s = {} THEN 0 ELSE f[PickFrom(s)] + iter(RestOf(s))[RestOf(s)]
             g == [s \in SUBSET T |-> Value(s)]
  <2>1. \A U \in SUBSET T : U # T => Iterates(f, U, iter(U))
    BY <1>1
  <2>2. ASSUME NEW s \in SUBSET T, s # {}
        PROVE  g[RestOf(s)] = iter(RestOf(s))[RestOf(s)]
    <3> DEFINE r == RestOf(s)
    <3>1. r \in SUBSET T /\ r # T
      BY <2>2, RestIsSmaller
    <3>2. Iterates(f, r, iter(r))
      BY <2>1, <3>1
    <3>3. CASE r = {}
      <4>1. iter(r)[{}] = 0
        BY <3>2, <3>3 DEF Iterates
      <4> QED BY <4>1, <3>1, <3>3
    <3>4. CASE r # {}
      <4>1. RestOf(r) \in SUBSET r /\ RestOf(r) # r
        BY <3>4, RestIsSmaller
      <4>2. Iterates(f, RestOf(r), iter(RestOf(r)))
        BY <2>1, <3>1, <4>1
      <4>3. IsFiniteSet(RestOf(r))
        BY <4>1, <3>1, FS_Subset
      <4>4. iter(RestOf(r))[RestOf(r)] = iter(r)[RestOf(r)]
        <5> HIDE DEF iter, r
        <5>1. RestOf(r) \in SUBSET (RestOf(r) \cap r)
          BY <4>1
        <5> QED BY <5>1, <3>2, <4>2, <4>3, IteratesAgree
      <4>5. iter(r)[r] = f[PickFrom(r)] + iter(r)[RestOf(r)]
        <5> HIDE DEF iter, r
        <5> QED BY <3>2, <3>4 DEF Iterates
      <4>6. Value(r) = iter(r)[r]
        <5> HIDE DEF iter, r
        <5> QED BY <3>4, <4>4, <4>5
      <4>7. g[r] = Value(r)
        <5> HIDE DEF Value, r
        <5> QED BY <3>1
      <4> QED BY <4>6, <4>7
    <3> QED BY <3>3, <3>4
  <2>3. \A s \in SUBSET T : g[s] = IF s = {} THEN 0 ELSE f[PickFrom(s)] + g[RestOf(s)]
    <3> HIDE DEF iter
    <3>1. \A s \in SUBSET T : g[s] = Value(s)
      OBVIOUS
    <3> HIDE DEF g
    <3> QED BY <2>2, <3>1
  <2>4. Iterates(f, T, g)
    <3>1. g = [s \in SUBSET T |-> g[s]]
      OBVIOUS
    <3> HIDE DEF g
    <3> QED BY <2>3, <3>1 DEF Iterates
  <2> QED BY <2>4
<1>2. \A T \in SUBSET S : T \in X
  <2> HIDE DEF X
  <2> QED BY <1>1, SubsetInduction
<1> QED BY <1>2

-----------------------------------------------------------------------------
(* The equations of a sum.                                                 *)
LEMMA SumUnfold ==
  ASSUME NEW f, NEW S, IsFiniteSet(S)
  PROVE  SumFunctionOnSet(f, S) =
           IF S = {} THEN 0 ELSE f[PickFrom(S)] + SumFunctionOnSet(f, RestOf(S))
PROOF
<1> DEFINE iter(U) == CHOOSE g : Iterates(f, U, g)
<1>1. Iterates(f, S, iter(S))
  BY IterateExists
<1>2. CASE S = {}
  <2> HIDE DEF iter
  <2>1. iter(S)[S] = 0
    BY <1>1, <1>2 DEF Iterates
  <2> USE DEF iter
  <2> QED BY <2>1, <1>2, SumIsIterate
<1>3. CASE S # {}
  <2>1. RestOf(S) \in SUBSET S
    BY <1>3, RestIsSmaller
  <2>2. Iterates(f, RestOf(S), iter(RestOf(S)))
    BY <2>1, IterateExists
  <2>3. iter(S)[S] = f[PickFrom(S)] + iter(S)[RestOf(S)]
    <3> HIDE DEF iter
    <3> QED BY <1>1, <1>3 DEF Iterates
  <2>4. iter(S)[RestOf(S)] = iter(RestOf(S))[RestOf(S)]
    <3> HIDE DEF iter
    <3>1. RestOf(S) \in SUBSET (S \cap RestOf(S))
      BY <2>1
    <3> QED BY <1>1, <2>2, <3>1, IteratesAgree
  <2>5. SumFunctionOnSet(f, S) = iter(S)[S] /\ SumFunctionOnSet(f, RestOf(S)) = iter(RestOf(S))[RestOf(S)]
    BY SumIsIterate
  <2> HIDE DEF iter
  <2> QED BY <1>3, <2>3, <2>4, <2>5
<1> QED BY <1>2, <1>3

(* Nothing adds up to zero.                                                *)
LEMMA SumEmpty == ASSUME NEW f PROVE SumFunctionOnSet(f, {}) = 0
BY SumUnfold, FS_EmptySet

(* The sum depends on the values in the set alone.                         *)
LEMMA SumAgree ==
  ASSUME NEW f, NEW g, NEW S, IsFiniteSet(S), \A x \in S : f[x] = g[x]
  PROVE  SumFunctionOnSet(f, S) = SumFunctionOnSet(g, S)
PROOF
<1> DEFINE X == {T \in SUBSET S : SumFunctionOnSet(f, T) = SumFunctionOnSet(g, T)}
<1>1. ASSUME NEW T \in SUBSET S, \A U \in SUBSET T : U # T => U \in X
      PROVE  T \in X
  <2>1. IsFiniteSet(T)
    BY FS_Subset
  <2>2. CASE T = {}
    BY <2>2, SumEmpty
  <2>3. CASE T # {}
    <3>1. RestOf(T) \in X /\ PickFrom(T) \in S
      BY <1>1, <2>3, RestIsSmaller, PickIsElement
    <3>2. /\ SumFunctionOnSet(f, T) = f[PickFrom(T)] + SumFunctionOnSet(f, RestOf(T))
          /\ SumFunctionOnSet(g, T) = g[PickFrom(T)] + SumFunctionOnSet(g, RestOf(T))
      BY <2>1, <2>3, SumUnfold
    <3>3. SumFunctionOnSet(f, RestOf(T)) = SumFunctionOnSet(g, RestOf(T))
      BY <3>1
    <3> HIDE DEF X
    <3>4. SumFunctionOnSet(f, T) = SumFunctionOnSet(g, T)
      BY <3>1, <3>2, <3>3
    <3> QED BY <3>4 DEF X
  <2> QED BY <2>2, <2>3
<1>2. \A T \in SUBSET S : T \in X
  <2> HIDE DEF X
  <2> QED BY <1>1, SubsetInduction
<1> QED BY <1>2

(* Integers add up to an integer.                                          *)
LEMMA SumInt ==
  ASSUME NEW f, NEW S, IsFiniteSet(S), \A x \in S : f[x] \in Int
  PROVE  SumFunctionOnSet(f, S) \in Int
PROOF
<1> DEFINE X == {T \in SUBSET S : SumFunctionOnSet(f, T) \in Int}
<1>1. ASSUME NEW T \in SUBSET S, \A U \in SUBSET T : U # T => U \in X
      PROVE  T \in X
  <2>1. IsFiniteSet(T)
    BY FS_Subset
  <2>2. CASE T = {}
    BY <2>2, SumEmpty
  <2>3. CASE T # {}
    <3>1. RestOf(T) \in X /\ PickFrom(T) \in S
      BY <1>1, <2>3, RestIsSmaller, PickIsElement
    <3>2. SumFunctionOnSet(f, T) = f[PickFrom(T)] + SumFunctionOnSet(f, RestOf(T))
      BY <2>1, <2>3, SumUnfold
    <3>3. SumFunctionOnSet(f, RestOf(T)) \in Int /\ f[PickFrom(T)] \in Int
      BY <3>1
    <3>4. SumFunctionOnSet(f, T) \in Int
      BY <3>2, <3>3
    <3> QED BY <3>4
  <2> QED BY <2>2, <2>3
<1>2. \A T \in SUBSET S : T \in X
  <2> HIDE DEF X
  <2> QED BY <1>1, SubsetInduction
<1> QED BY <1>2

(* Any element can be taken out first.                                     *)
LEMMA SumRemove ==
  ASSUME NEW f, NEW S, IsFiniteSet(S), \A x \in S : f[x] \in Int, NEW y \in S
  PROVE  SumFunctionOnSet(f, S) = f[y] + SumFunctionOnSet(f, S \ {y})
PROOF
<1> DEFINE Sum(T) == SumFunctionOnSet(f, T)
           X == {T \in SUBSET S : \A z \in T : Sum(T) = f[z] + Sum(T \ {z})}
<1>1. \A T \in SUBSET S : IsFiniteSet(T)
  BY FS_Subset
<1>2. \A T \in SUBSET S : Sum(T) \in Int
  BY <1>1, SumInt
<1>3. \A T \in SUBSET S : T # {} => Sum(T) = f[PickFrom(T)] + Sum(RestOf(T))
  BY <1>1, SumUnfold
<1> HIDE DEF Sum
<1>4. ASSUME NEW T \in SUBSET S, \A U \in SUBSET T : U # T => U \in X, NEW z \in T
      PROVE  Sum(T) = f[z] + Sum(T \ {z})
  <2> DEFINE p == PickFrom(T)
  <2>1. p \in T /\ RestOf(T) = T \ {p}
    BY PickIsElement DEF RestOf
  <2>2. Sum(T) = f[p] + Sum(T \ {p})
    BY <1>3, <2>1
  <2> HIDE DEF p
  <2>3. CASE z = p
    BY <2>2, <2>3
  <2>4. CASE z # p
    <3> DEFINE V == (T \ {p}) \ {z}
    <3>1. T \ {p} \in X /\ z \in T \ {p}
      BY <1>4, <2>1, <2>4
    <3>2. Sum(T \ {p}) = f[z] + Sum(V)
      BY <3>1
    <3>3. T \ {z} \in X /\ p \in T \ {z} /\ (T \ {z}) \ {p} = V
      BY <1>4, <2>1, <2>4
    <3>4. Sum(T \ {z}) = f[p] + Sum(V)
      BY <3>3
    <3>5. f[z] \in Int /\ f[p] \in Int /\ Sum(V) \in Int
      BY <1>2, <2>1
    <3> QED BY <2>2, <3>2, <3>4, <3>5
  <2> QED BY <2>3, <2>4
<1>5. \A T \in SUBSET S : T \in X
  <2>1. \A T \in SUBSET S : (\A U \in SUBSET T : U # T => U \in X) => T \in X
    BY <1>4
  <2> HIDE DEF X
  <2> QED BY <2>1, SubsetInduction
<1>6. S \in X
  BY <1>5
<1> QED BY <1>6 DEF Sum

(* One more element adds its value.                                        *)
LEMMA SumAdd ==
  ASSUME NEW f, NEW S, IsFiniteSet(S), NEW y, y \notin S, \A x \in S \cup {y} : f[x] \in Int
  PROVE  SumFunctionOnSet(f, S \cup {y}) = f[y] + SumFunctionOnSet(f, S)
PROOF
<1>1. IsFiniteSet(S \cup {y})
  BY FS_AddElement
<1>2. (S \cup {y}) \ {y} = S
  OBVIOUS
<1> QED BY <1>1, <1>2, SumRemove

(* One value changes.                                                      *)
LEMMA SumChange ==
  ASSUME NEW f, NEW g, NEW S, IsFiniteSet(S), NEW y \in S,
         \A x \in S : f[x] \in Int, g[y] \in Int, \A x \in S \ {y} : g[x] = f[x]
  PROVE  SumFunctionOnSet(g, S) = SumFunctionOnSet(f, S) - f[y] + g[y]
PROOF
<1>1. IsFiniteSet(S \ {y})
  BY FS_RemoveElement
<1>2. SumFunctionOnSet(g, S \ {y}) = SumFunctionOnSet(f, S \ {y})
  BY <1>1, SumAgree
<1>3. SumFunctionOnSet(f, S \ {y}) \in Int
  BY <1>1, SumInt
<1>4. SumFunctionOnSet(f, S) = f[y] + SumFunctionOnSet(f, S \ {y})
  BY SumRemove
<1>5. \A x \in S : g[x] \in Int
  OBVIOUS
<1>6. SumFunctionOnSet(g, S) = g[y] + SumFunctionOnSet(g, S \ {y})
  BY <1>5, SumRemove
<1>7. f[y] \in Int
  OBVIOUS
<1> QED BY <1>2, <1>3, <1>4, <1>6, <1>7

(* The sum of sums.                                                        *)
LEMMA SumPlus ==
  ASSUME NEW f, NEW g, NEW h, NEW S, IsFiniteSet(S),
         \A x \in S : f[x] \in Int /\ g[x] \in Int /\ h[x] = f[x] + g[x]
  PROVE  SumFunctionOnSet(h, S) = SumFunctionOnSet(f, S) + SumFunctionOnSet(g, S)
PROOF
<1> DEFINE F(T) == SumFunctionOnSet(f, T)
           G(T) == SumFunctionOnSet(g, T)
           H(T) == SumFunctionOnSet(h, T)
           X == {T \in SUBSET S : H(T) = F(T) + G(T)}
<1>1. F({}) = 0 /\ G({}) = 0 /\ H({}) = 0
  BY SumEmpty
<1>2. ASSUME NEW T \in SUBSET S, NEW x \in S \ T
      PROVE  /\ F(T \cup {x}) = f[x] + F(T) /\ F(T) \in Int
             /\ G(T \cup {x}) = g[x] + G(T) /\ G(T) \in Int
             /\ H(T \cup {x}) = h[x] + H(T)
  <2>1. IsFiniteSet(T)
    BY FS_Subset
  <2>2. \A z \in T \cup {x} : f[z] \in Int /\ g[z] \in Int /\ h[z] \in Int
    OBVIOUS
  <2> QED BY <2>1, <2>2, SumAdd, SumInt
<1> HIDE DEF F, G, H
<1>3. {} \in X
  BY <1>1
<1>4. \A T \in SUBSET S : \A x \in S \ T : T \in X => T \cup {x} \in X
  BY <1>2
<1>5. S \in X
  <2> HIDE DEF X
  <2> QED BY <1>3, <1>4, SetInduction
<1> QED BY <1>5 DEF F, G, H

(* Natural numbers add up to one that is zero only if all are, and no less *)
(* than any.                                                               *)
LEMMA SumNat ==
  ASSUME NEW f, NEW S, IsFiniteSet(S), \A x \in S : f[x] \in Nat
  PROVE  /\ SumFunctionOnSet(f, S) \in Nat
         /\ SumFunctionOnSet(f, S) = 0 <=> \A x \in S : f[x] = 0
         /\ \A x \in S : f[x] <= SumFunctionOnSet(f, S)
PROOF
<1> DEFINE F(T) == SumFunctionOnSet(f, T)
           X == {T \in SUBSET S : F(T) \in Nat /\ \A x \in T : f[x] <= F(T)}
           Y == {T \in SUBSET S : (\A x \in S : f[x] = 0) => F(T) = 0}
<1>1. F({}) = 0
  BY SumEmpty
<1>2. ASSUME NEW T \in SUBSET S, NEW x \in S \ T
      PROVE  F(T \cup {x}) = f[x] + F(T)
  <2>1. IsFiniteSet(T)
    BY FS_Subset
  <2> QED BY <2>1, SumAdd
<1> HIDE DEF F
<1>3. {} \in X /\ {} \in Y
  BY <1>1
<1>4. \A T \in SUBSET S : \A x \in S \ T : T \in X => T \cup {x} \in X
  <2> SUFFICES ASSUME NEW T \in SUBSET S, NEW x \in S \ T, T \in X
               PROVE  T \cup {x} \in X
    OBVIOUS
  <2>1. F(T \cup {x}) = f[x] + F(T) /\ f[x] \in Nat /\ F(T) \in Nat
    BY <1>2
  <2>2. \A z \in T : f[z] <= F(T) /\ f[z] \in Nat
    OBVIOUS
  <2>3. \A z \in T \cup {x} : f[z] <= F(T \cup {x})
    BY <2>1, <2>2
  <2> QED BY <2>1, <2>3
<1>5. \A T \in SUBSET S : \A x \in S \ T : T \in Y => T \cup {x} \in Y
  BY <1>2
<1>6. S \in X /\ S \in Y
  <2> HIDE DEF X, Y
  <2> QED BY <1>3, <1>4, <1>5, SetInduction
<1> QED BY <1>6 DEF F

(* Two sets without a common element.                                      *)
LEMMA SumUnion ==
  ASSUME NEW f, NEW A, IsFiniteSet(A), NEW B, IsFiniteSet(B), A \cap B = {},
         \A x \in A \cup B : f[x] \in Int
  PROVE  SumFunctionOnSet(f, A \cup B) = SumFunctionOnSet(f, A) + SumFunctionOnSet(f, B)
PROOF
<1> DEFINE F(T) == SumFunctionOnSet(f, T)
           X == {T \in SUBSET B : F(A \cup T) = F(A) + F(T)}
<1>1. F({}) = 0 /\ F(A) \in Int
  BY SumEmpty, SumInt
<1>2. ASSUME NEW T \in SUBSET B, NEW x \in B \ T
      PROVE  /\ F(T \cup {x}) = f[x] + F(T) /\ F(T) \in Int
             /\ F(A \cup (T \cup {x})) = f[x] + F(A \cup T)
  <2>1. IsFiniteSet(T) /\ IsFiniteSet(A \cup T)
    BY FS_Subset, FS_Union
  <2>2. x \notin A \cup T /\ A \cup (T \cup {x}) = (A \cup T) \cup {x}
    OBVIOUS
  <2>3. F((A \cup T) \cup {x}) = f[x] + F(A \cup T)
    BY <2>1, <2>2, SumAdd
  <2> QED BY <2>1, <2>2, <2>3, SumAdd, SumInt
<1>3. A \cup {} = A
  OBVIOUS
<1> HIDE DEF F
<1>4. {} \in X
  BY <1>1, <1>3
<1>5. ASSUME NEW T \in SUBSET B, NEW x \in B \ T, T \in X
      PROVE  T \cup {x} \in X
  <2>1. F(A \cup T) = F(A) + F(T)
    BY <1>5
  <2>2. f[x] \in Int /\ F(T) \in Int /\ F(A) \in Int
    BY <1>1, <1>2
  <2>3. /\ F(T \cup {x}) = f[x] + F(T)
        /\ F(A \cup (T \cup {x})) = f[x] + F(A \cup T)
    BY <1>2
  <2>4. F(A \cup (T \cup {x})) = F(A) + F(T \cup {x})
    BY <2>1, <2>2, <2>3
  <2> QED BY <2>4
<1>6. B \in X
  <2> HIDE DEF X
  <2> QED BY <1>4, <1>5, SetInduction
<1> QED BY <1>6 DEF F

(* What is zero outside a part of the set adds up to the sum of that part. *)
LEMMA SumSupport ==
  ASSUME NEW f, NEW S, IsFiniteSet(S), NEW T \in SUBSET S,
         \A x \in T : f[x] \in Int, \A x \in S \ T : f[x] = 0
  PROVE  SumFunctionOnSet(f, S) = SumFunctionOnSet(f, T)
PROOF
<1>1. IsFiniteSet(T) /\ IsFiniteSet(S \ T) /\ T \cup (S \ T) = S
  BY FS_Subset
<1>2. \A x \in T \cup (S \ T) : f[x] \in Int
  OBVIOUS
<1>3. SumFunctionOnSet(f, S) = SumFunctionOnSet(f, T) + SumFunctionOnSet(f, S \ T)
  BY <1>1, <1>2, SumUnion
<1>4. SumFunctionOnSet(f, S \ T) = 0
  <2>1. \A x \in S \ T : f[x] \in Nat /\ f[x] = 0
    OBVIOUS
  <2> QED BY <1>1, <2>1, SumNat
<1>5. SumFunctionOnSet(f, T) \in Int
  BY <1>1, SumInt
<1> QED BY <1>3, <1>4, <1>5
=============================================================================
