-------------------------- MODULE SponsorLedger_proofs --------------------------
(***************************************************************************)
(* The books of the events: sums, what the clerks keep, and the reports.   *)
(*                                                                         *)
(* The reports are sums over rows, which the community modules define by   *)
(* recursion on the subsets of a set.  Induction on the size of a subset   *)
(* is done here with the least number of a set that holds the              *)
(* counterexamples, which needs no operator to be instantiated.            *)
(***************************************************************************)
EXTENDS SponsorLedger, FiniteSetTheorems, TLAPS

-------------------------------------------------------------------------------
(* Induction over a set of numbers.                                        *)
LEMMA LeastNumber ==
  ASSUME NEW T, T \subseteq Nat, T # {}
  PROVE  \E n \in T : \A m \in T : n <= m
<1>1. PICK n \in T : \A m \in T : ~ (<<m, n>> \in OpToRel(<, Nat))
  BY NatLessThanWellFounded, WFMin
<1>2. \A m \in T : ~ (m < n)
  BY <1>1 DEF OpToRel
<1> QED BY <1>2

(* Induction over the natural numbers, for a set in the place of a          *)
(* property.                                                                *)
LEMMA SetInduction ==
  ASSUME NEW T, 0 \in T, \A n \in Nat : n \in T => n + 1 \in T
  PROVE  Nat \subseteq T
<1> DEFINE U == Nat \ T
<1> SUFFICES ASSUME U # {} PROVE FALSE
  OBVIOUS
<1>1. PICK n \in U : \A m \in U : n <= m
  <2>1. U \subseteq Nat
    OBVIOUS
  <2> HIDE DEF U
  <2> QED BY <2>1, LeastNumber
<1>2. n # 0 /\ n \in Nat
  BY <1>1
<1>3. n - 1 \in Nat /\ n - 1 \notin U
  BY <1>1, <1>2
<1>4. (n - 1) + 1 \in T
  BY <1>3
<1> QED BY <1>1, <1>2, <1>4

(***************************************************************************)
(* The sum of a function over a finite set.                                *)
(***************************************************************************)
One(s) == CHOOSE x \in s : TRUE

Summed(g, fun, S) ==
  g = [s \in SUBSET S |-> IF s = {} THEN 0 ELSE fun[One(s)] + g[s \ {One(s)}]]

UpTo(S, n) == {s \in SUBSET S : Cardinality(s) <= n}

(* A non-empty part of a finite set has an element, and is smaller without  *)
(* it.                                                                      *)
LEMMA SmallerRest ==
  ASSUME NEW S, IsFiniteSet(S), NEW s \in SUBSET S, s # {}
  PROVE  /\ One(s) \in s
         /\ IsFiniteSet(s) /\ Cardinality(s) \in Nat
         /\ s \ {One(s)} \in SUBSET S
         /\ Cardinality(s \ {One(s)}) = Cardinality(s) - 1
<1>1. One(s) \in s
  BY DEF One
<1>2. IsFiniteSet(s)
  BY FS_Subset
<1> QED BY <1>1, <1>2, FS_RemoveElement, FS_CardinalityType

(* There is a function that sums.                                          *)
LEMMA SummedExists ==
  ASSUME NEW fun, NEW S, IsFiniteSet(S)
  PROVE  \E g : Summed(g, fun, S)
<1> DEFINE Eq(g, n) == g = [s \in UpTo(S, n) |->
                              IF s = {} THEN 0 ELSE fun[One(s)] + g[s \ {One(s)}]]
           T == {n \in Nat : \E g : Eq(g, n)}
<1>1. 0 \in T
  <2> DEFINE g == [s \in UpTo(S, 0) |-> 0]
  <2>1. \A s \in UpTo(S, 0) : s = {}
    <3> SUFFICES ASSUME NEW s \in UpTo(S, 0), s # {} PROVE FALSE
      OBVIOUS
    <3>1. Cardinality(s) \in Nat /\ Cardinality(s \ {One(s)}) \in Nat
      BY SmallerRest, FS_Subset, FS_CardinalityType DEF UpTo
    <3> QED BY <3>1, SmallerRest DEF UpTo
  <2>2. Eq(g, 0)
    BY <2>1
  <2> QED BY <2>2
<1>2. ASSUME NEW n \in Nat, n \in T
      PROVE  n + 1 \in T
  <2>1. PICK g : Eq(g, n)
    BY <1>2
  <2> DEFINE h == [s \in UpTo(S, n + 1) |->
                     IF s = {} THEN 0 ELSE fun[One(s)] + g[s \ {One(s)}]]
  <2>2. ASSUME NEW s \in UpTo(S, n + 1), s # {}
        PROVE  h[s \ {One(s)}] = g[s \ {One(s)}]
    <3> DEFINE t == s \ {One(s)}
    <3>1. t \in UpTo(S, n) /\ t \in UpTo(S, n + 1)
      BY <2>2, SmallerRest DEF UpTo
    <3> QED BY <2>1, <3>1
  <2>3. Eq(h, n + 1)
    BY <2>2
  <2> HIDE DEF h
  <2> QED BY <2>3
<1>3. Cardinality(S) \in T
  <2>1. 0 \in T /\ \A n \in Nat : n \in T => n + 1 \in T
    BY <1>1, <1>2
  <2> HIDE DEF T
  <2> QED BY <2>1, SetInduction, FS_CardinalityType
<1>4. UpTo(S, Cardinality(S)) = SUBSET S
  BY FS_Subset DEF UpTo
<1> QED BY <1>3, <1>4 DEF Summed

(* Where two functions agree, so do their sums: over a set, and over parts *)
(* of two sets.                                                            *)
LEMMA SummedAgree ==
  ASSUME NEW fun1, NEW fun2, NEW S1, NEW S2, NEW g1, NEW g2, IsFiniteSet(S1),
         Summed(g1, fun1, S1), Summed(g2, fun2, S2),
         NEW T \in SUBSET S1, T \in SUBSET S2, \A x \in T : fun1[x] = fun2[x]
  PROVE  g1[T] = g2[T]
<1> DEFINE N == {n \in Nat : \A t \in SUBSET T : Cardinality(t) = n => g1[t] = g2[t]}
<1>0. IsFiniteSet(T) /\ Cardinality(T) \in Nat /\ Cardinality({}) = 0
  BY FS_Subset, FS_CardinalityType, FS_EmptySet
<1>1. 0 \in N
  <2> SUFFICES ASSUME NEW t \in SUBSET T, Cardinality(t) = 0
               PROVE  g1[t] = g2[t]
    BY DEF N
  <2>1. t = {}
    BY <1>0, FS_Subset, FS_EmptySet
  <2> QED BY <2>1 DEF Summed
<1>2. ASSUME NEW n \in Nat, n \in N
      PROVE  n + 1 \in N
  <2> SUFFICES ASSUME NEW t \in SUBSET T, Cardinality(t) = n + 1
               PROVE  g1[t] = g2[t]
    BY DEF N
  <2>1. t # {}
    BY <1>0
  <2>2. /\ One(t) \in T
        /\ t \ {One(t)} \in SUBSET T
        /\ Cardinality(t \ {One(t)}) = n
    <3>1. /\ One(t) \in t
          /\ Cardinality(t \ {One(t)}) = Cardinality(t) - 1
      BY <1>0, <2>1, SmallerRest
    <3> QED BY <3>1
  <2>3. g1[t \ {One(t)}] = g2[t \ {One(t)}]
    BY <1>2, <2>2
  <2>4. g1[t] = fun1[One(t)] + g1[t \ {One(t)}]
    BY <2>1 DEF Summed
  <2>5. g2[t] = fun2[One(t)] + g2[t \ {One(t)}]
    BY <2>1 DEF Summed
  <2> QED BY <2>2, <2>3, <2>4, <2>5
<1>3. Cardinality(T) \in N
  <2> HIDE DEF N
  <2> QED BY <1>0, <1>1, <1>2, SetInduction
<1> QED BY <1>3

(* A sum of members of a set closed under addition is a member of it.      *)
LEMMA SummedType ==
  ASSUME NEW fun, NEW S, NEW g, IsFiniteSet(S), Summed(g, fun, S),
         NEW V, 0 \in V, \A a, b \in V : a + b \in V, \A x \in S : fun[x] \in V
  PROVE  \A t \in SUBSET S : g[t] \in V
<1> DEFINE N == {n \in Nat : \A t \in SUBSET S : Cardinality(t) = n => g[t] \in V}
<1>0. \A t \in SUBSET S : IsFiniteSet(t) /\ Cardinality(t) \in Nat
  BY FS_Subset, FS_CardinalityType
<1>1. 0 \in N
  <2> SUFFICES ASSUME NEW t \in SUBSET S, Cardinality(t) = 0
               PROVE  g[t] \in V
    BY DEF N
  <2>1. t = {}
    BY <1>0, FS_EmptySet
  <2> QED BY <2>1 DEF Summed
<1>2. ASSUME NEW n \in Nat, n \in N
      PROVE  n + 1 \in N
  <2> SUFFICES ASSUME NEW t \in SUBSET S, Cardinality(t) = n + 1
               PROVE  g[t] \in V
    BY DEF N
  <2>1. t # {}
    BY FS_EmptySet
  <2>2. /\ One(t) \in t
        /\ t \ {One(t)} \in SUBSET S
        /\ Cardinality(t \ {One(t)}) = Cardinality(t) - 1
    BY <2>1, SmallerRest
  <2>3. g[t \ {One(t)}] \in V
    BY <1>2, <2>2
  <2>4. g[t] = fun[One(t)] + g[t \ {One(t)}]
    BY <2>1 DEF Summed
  <2> QED BY <2>2, <2>3, <2>4
<1> HIDE DEF N
<1>3. Nat \subseteq N
  BY <1>1, <1>2, SetInduction
<1> QED BY <1>0, <1>3 DEF N

(* The order of the summands does not matter.                              *)
LEMMA SummedRemove ==
  ASSUME NEW fun, NEW S, NEW g, IsFiniteSet(S), Summed(g, fun, S), \A x \in S : fun[x] \in Int
  PROVE  \A t \in SUBSET S : \A x \in t : g[t] = fun[x] + g[t \ {x}]
<1> DEFINE N == {n \in Nat : \A t \in SUBSET S : \A x \in t :
                               Cardinality(t) = n => g[t] = fun[x] + g[t \ {x}]}
<1>0. \A t \in SUBSET S : IsFiniteSet(t) /\ Cardinality(t) \in Nat
  BY FS_Subset, FS_CardinalityType
<1>i. \A t \in SUBSET S : g[t] \in Int
  <2>1. 0 \in Int /\ \A a, b \in Int : a + b \in Int
    OBVIOUS
  <2> QED BY <2>1, SummedType
<1>1. 0 \in N
  <2>1. ASSUME NEW t \in SUBSET S, NEW x \in t, Cardinality(t) = 0
        PROVE  FALSE
    BY <1>0, <2>1, FS_EmptySet
  <2> QED BY <2>1
<1>2. ASSUME NEW n \in Nat, n \in N
      PROVE  n + 1 \in N
  <2> SUFFICES ASSUME NEW t \in SUBSET S, NEW x \in t, Cardinality(t) = n + 1
               PROVE  g[t] = fun[x] + g[t \ {x}]
    BY DEF N
  <2> DEFINE y == One(t)
  <2>1. y \in t
    BY DEF One
  <2>2. g[t] = fun[y] + g[t \ {y}]
    BY DEF Summed
  <2>3. CASE x = y
    BY <2>2, <2>3
  <2>4. CASE x # y
    <3> HIDE DEF y
    <3>1. /\ t \ {y} \in SUBSET S /\ Cardinality(t \ {y}) = n /\ x \in t \ {y}
          /\ t \ {x} \in SUBSET S /\ Cardinality(t \ {x}) = n /\ y \in t \ {x}
      <4>1. IsFiniteSet(t)
        BY <1>0
      <4>2. Cardinality(t \ {y}) = Cardinality(t) - 1 /\ Cardinality(t \ {x}) = Cardinality(t) - 1
        BY <2>1, <4>1, FS_RemoveElement
      <4> QED BY <2>1, <2>4, <4>2
    <3>2. g[t \ {y}] = fun[x] + g[(t \ {y}) \ {x}]
      BY <1>2, <3>1
    <3>3. g[t \ {x}] = fun[y] + g[(t \ {x}) \ {y}]
      BY <1>2, <3>1
    <3>4. (t \ {y}) \ {x} = (t \ {x}) \ {y}
      OBVIOUS
    <3> DEFINE rest == g[(t \ {x}) \ {y}]
    <3>5. rest \in Int /\ fun[x] \in Int /\ fun[y] \in Int
      BY <1>i, <2>1
    <3>6. g[t] = fun[y] + (fun[x] + rest) /\ g[t \ {x}] = fun[y] + rest
      BY <2>2, <3>2, <3>3, <3>4
    <3> HIDE DEF rest
    <3> QED BY <3>5, <3>6
  <2> QED BY <2>3, <2>4
<1> HIDE DEF N
<1>3. Nat \subseteq N
  BY <1>1, <1>2, SetInduction
<1> QED BY <1>0, <1>3 DEF N

(* The same for the sums the modules are written with.                     *)
LEMMA SumIsSummed ==
  ASSUME NEW fun, NEW S, IsFiniteSet(S)
  PROVE  \E g : Summed(g, fun, S) /\ SumFunctionOnSet(fun, S) = g[S]
<1> DEFINE g == CHOOSE g : Summed(g, fun, S)
<1>1. Summed(g, fun, S)
  BY SummedExists
<1>2. SumFunctionOnSet(fun, S) = g[S]
  BY DEF SumFunctionOnSet, FoldFunctionOnSet, MapThenFoldSet, Summed, One
<1> QED BY <1>1, <1>2

(* The sum over nothing is zero.                                            *)
LEMMA SumOfNone == ASSUME NEW fun PROVE SumFunctionOnSet(fun, {}) = 0
<1>1. PICK g : Summed(g, fun, {}) /\ SumFunctionOnSet(fun, {}) = g[{}]
  BY SumIsSummed, FS_EmptySet
<1> QED BY <1>1 DEF Summed

(* Sums of integers are integers, of naturals naturals, of zeros zero.      *)
LEMMA SumType ==
  ASSUME NEW fun, NEW S, IsFiniteSet(S)
  PROVE  /\ (\A x \in S : fun[x] \in Int) => SumFunctionOnSet(fun, S) \in Int
         /\ (\A x \in S : fun[x] \in Nat) => SumFunctionOnSet(fun, S) \in Nat
         /\ (\A x \in S : fun[x] = 0) => SumFunctionOnSet(fun, S) = 0
<1>1. PICK g : Summed(g, fun, S) /\ SumFunctionOnSet(fun, S) = g[S]
  BY SumIsSummed
<1>2. 0 \in Int /\ (\A a, b \in Int : a + b \in Int) /\ 0 \in Nat /\ (\A a, b \in Nat : a + b \in Nat)
  OBVIOUS
<1>3. ASSUME \A x \in S : fun[x] \in Int PROVE g[S] \in Int
  BY <1>1, <1>2, <1>3, SummedType
<1>4. ASSUME \A x \in S : fun[x] \in Nat PROVE g[S] \in Nat
  BY <1>1, <1>2, <1>4, SummedType
<1>5. ASSUME \A x \in S : fun[x] = 0 PROVE g[S] = 0
  <2>1. 0 \in {0} /\ (\A a, b \in {0} : a + b \in {0}) /\ \A x \in S : fun[x] \in {0}
    BY <1>5
  <2>2. g[S] \in {0}
    BY <1>1, <2>1, SummedType
  <2> QED BY <2>2
<1> QED BY <1>1, <1>3, <1>4, <1>5

(* Functions that agree on a set have the same sum over it.                 *)
LEMMA SumAgree ==
  ASSUME NEW fun1, NEW fun2, NEW S, IsFiniteSet(S), \A x \in S : fun1[x] = fun2[x]
  PROVE  SumFunctionOnSet(fun1, S) = SumFunctionOnSet(fun2, S)
<1>1. PICK g1 : Summed(g1, fun1, S) /\ SumFunctionOnSet(fun1, S) = g1[S]
  BY SumIsSummed
<1>2. PICK g2 : Summed(g2, fun2, S) /\ SumFunctionOnSet(fun2, S) = g2[S]
  BY SumIsSummed
<1> QED BY <1>1, <1>2, SummedAgree

(* A sum is any one of its values and the sum of the rest.                  *)
LEMMA SumRemove ==
  ASSUME NEW fun, NEW S, IsFiniteSet(S), \A x \in S : fun[x] \in Int, NEW x \in S
  PROVE  SumFunctionOnSet(fun, S) = fun[x] + SumFunctionOnSet(fun, S \ {x})
<1>0. IsFiniteSet(S \ {x})
  BY FS_Subset
<1>1. PICK g1 : Summed(g1, fun, S) /\ SumFunctionOnSet(fun, S) = g1[S]
  BY SumIsSummed
<1>2. PICK g2 : Summed(g2, fun, S \ {x}) /\ SumFunctionOnSet(fun, S \ {x}) = g2[S \ {x}]
  BY <1>0, SumIsSummed
<1>3. g1[S \ {x}] = g2[S \ {x}]
  BY <1>1, <1>2, SummedAgree
<1>4. g1[S] = fun[x] + g1[S \ {x}]
  BY <1>1, SummedRemove
<1> QED BY <1>1, <1>2, <1>3, <1>4

(* One more summand, and one summand changed.                              *)
LEMMA SumAdd ==
  ASSUME NEW fun1, NEW fun2, NEW S, IsFiniteSet(S), NEW x, x \notin S,
         \A y \in S : fun1[y] = fun2[y], \A y \in S \cup {x} : fun2[y] \in Int
  PROVE  SumFunctionOnSet(fun2, S \cup {x}) = SumFunctionOnSet(fun1, S) + fun2[x]
<1>1. IsFiniteSet(S \cup {x}) /\ (S \cup {x}) \ {x} = S
  BY FS_AddElement
<1>2. SumFunctionOnSet(fun2, S \cup {x}) = fun2[x] + SumFunctionOnSet(fun2, S)
  BY <1>1, SumRemove
<1>3. SumFunctionOnSet(fun1, S) = SumFunctionOnSet(fun2, S)
  BY SumAgree
<1>4. SumFunctionOnSet(fun2, S) \in Int
  BY SumType
<1> QED BY <1>2, <1>3, <1>4

(* Changing one value changes the sum by as much.                           *)
LEMMA SumChange ==
  ASSUME NEW fun1, NEW fun2, NEW S, IsFiniteSet(S), NEW x \in S,
         \A y \in S \ {x} : fun1[y] = fun2[y],
         \A y \in S : fun1[y] \in Int /\ fun2[y] \in Int
  PROVE  SumFunctionOnSet(fun2, S) = SumFunctionOnSet(fun1, S) + (fun2[x] - fun1[x])
<1>1. IsFiniteSet(S \ {x})
  BY FS_Subset
<1>2. SumFunctionOnSet(fun1, S) = fun1[x] + SumFunctionOnSet(fun1, S \ {x})
  BY SumRemove
<1>3. SumFunctionOnSet(fun2, S) = fun2[x] + SumFunctionOnSet(fun2, S \ {x})
  BY SumRemove
<1>4. SumFunctionOnSet(fun1, S \ {x}) = SumFunctionOnSet(fun2, S \ {x})
  BY <1>1, SumAgree
<1>5. SumFunctionOnSet(fun1, S \ {x}) \in Int
  BY <1>1, SumType
<1> QED BY <1>2, <1>3, <1>4, <1>5

(* The sum over two parts is the sum of their sums.                        *)
LEMMA SumOfParts ==
  ASSUME NEW fun, NEW A, NEW B, IsFiniteSet(A), IsFiniteSet(B), A \cap B = {},
         \A x \in A \cup B : fun[x] \in Int
  PROVE  SumFunctionOnSet(fun, A \cup B) = SumFunctionOnSet(fun, A) + SumFunctionOnSet(fun, B)
<1> DEFINE N == {n \in Nat : \A b \in SUBSET B : Cardinality(b) = n =>
                   SumFunctionOnSet(fun, A \cup b) =
                     SumFunctionOnSet(fun, A) + SumFunctionOnSet(fun, b)}
<1>0. \A b \in SUBSET B : IsFiniteSet(b) /\ Cardinality(b) \in Nat /\ IsFiniteSet(A \cup b)
  BY FS_Subset, FS_CardinalityType, FS_Union
<1>i. \A b \in SUBSET B : SumFunctionOnSet(fun, b) \in Int
  BY <1>0, SumType
<1>a. SumFunctionOnSet(fun, A) \in Int
  BY SumType
<1>1. 0 \in N
  <2> SUFFICES ASSUME NEW b \in SUBSET B, Cardinality(b) = 0
               PROVE  SumFunctionOnSet(fun, A \cup b) =
                        SumFunctionOnSet(fun, A) + SumFunctionOnSet(fun, b)
    BY DEF N
  <2>1. b = {} /\ A \cup b = A
    BY <1>0, FS_EmptySet
  <2> QED BY <1>a, <2>1, SumOfNone
<1>2. ASSUME NEW n \in Nat, n \in N
      PROVE  n + 1 \in N
  <2> SUFFICES ASSUME NEW b \in SUBSET B, Cardinality(b) = n + 1
               PROVE  SumFunctionOnSet(fun, A \cup b) =
                        SumFunctionOnSet(fun, A) + SumFunctionOnSet(fun, b)
    BY DEF N
  <2>1. PICK x \in b : TRUE
    BY FS_EmptySet
  <2> DEFINE c == b \ {x}
  <2>b. IsFiniteSet(b) /\ x \in b /\ \A y \in b : fun[y] \in Int
    BY <1>0
  <2>2. Cardinality(c) = n /\ c \in SUBSET B
    <3>1. Cardinality(c) = Cardinality(b) - 1
      BY <2>b, FS_RemoveElement
    <3> QED BY <3>1
  <2>3. SumFunctionOnSet(fun, A \cup c) = SumFunctionOnSet(fun, A) + SumFunctionOnSet(fun, c)
    BY <1>2, <2>2
  <2>4. SumFunctionOnSet(fun, b) = fun[x] + SumFunctionOnSet(fun, c)
    BY <2>b, SumRemove
  <2>5. (A \cup b) \ {x} = A \cup c
    OBVIOUS
  <2>6. SumFunctionOnSet(fun, A \cup b) = fun[x] + SumFunctionOnSet(fun, (A \cup b) \ {x})
    BY <1>0, SumRemove
  <2>7. fun[x] \in Int /\ SumFunctionOnSet(fun, c) \in Int
    BY <1>i, <2>2
  <2> HIDE DEF c
  <2>8. SumFunctionOnSet(fun, A \cup b) = fun[x] + SumFunctionOnSet(fun, A \cup c)
    BY <2>5, <2>6
  <2>9. SumFunctionOnSet(fun, A \cup b)
          = fun[x] + (SumFunctionOnSet(fun, A) + SumFunctionOnSet(fun, c))
    BY <2>3, <2>8
  <2> QED BY <1>a, <2>4, <2>7, <2>9
<1> HIDE DEF N
<1>3. Nat \subseteq N
  BY <1>1, <1>2, SetInduction
<1> QED BY <1>0, <1>3 DEF N

(* The sum of naturals over a part is at most that of the whole.            *)
LEMMA SumOfPart ==
  ASSUME NEW fun, NEW S, IsFiniteSet(S), \A x \in S : fun[x] \in Nat, NEW T \in SUBSET S
  PROVE  SumFunctionOnSet(fun, T) <= SumFunctionOnSet(fun, S)
<1>1. IsFiniteSet(T) /\ IsFiniteSet(S \ T) /\ T \cup (S \ T) = S
  BY FS_Subset
<1>2. SumFunctionOnSet(fun, T) \in Nat /\ SumFunctionOnSet(fun, S \ T) \in Nat
  BY <1>1, SumType
<1>3. SumFunctionOnSet(fun, S) = SumFunctionOnSet(fun, T) + SumFunctionOnSet(fun, S \ T)
  BY <1>1, SumOfParts
<1> QED BY <1>2, <1>3

(* The sum of values below a bound is at most their number times the bound. *)
LEMMA SumBound ==
  ASSUME NEW fun, NEW S, IsFiniteSet(S), NEW top \in Nat,
         \A x \in S : fun[x] \in Int /\ fun[x] <= top
  PROVE  SumFunctionOnSet(fun, S) <= Cardinality(S) * top
<1> DEFINE N == {n \in Nat : \A t \in SUBSET S : Cardinality(t) = n =>
                               SumFunctionOnSet(fun, t) <= n * top}
<1>0. \A t \in SUBSET S : IsFiniteSet(t) /\ Cardinality(t) \in Nat
  BY FS_Subset, FS_CardinalityType
<1>1. 0 \in N
  <2> SUFFICES ASSUME NEW t \in SUBSET S, Cardinality(t) = 0
               PROVE  SumFunctionOnSet(fun, t) <= 0 * top
    BY DEF N
  <2>1. t = {}
    BY <1>0, FS_EmptySet
  <2> QED BY <2>1, SumOfNone
<1>2. ASSUME NEW n \in Nat, n \in N
      PROVE  n + 1 \in N
  <2> SUFFICES ASSUME NEW t \in SUBSET S, Cardinality(t) = n + 1
               PROVE  SumFunctionOnSet(fun, t) <= (n + 1) * top
    BY DEF N
  <2>1. PICK x \in t : TRUE
    BY FS_EmptySet
  <2> DEFINE rest == t \ {x}
  <2>2. IsFiniteSet(t) /\ x \in t /\ \A y \in t : fun[y] \in Int
    BY <1>0
  <2>3. Cardinality(rest) = n /\ rest \in SUBSET S
    <3>1. Cardinality(rest) = Cardinality(t) - 1
      BY <2>2, FS_RemoveElement
    <3> QED BY <3>1
  <2>4. SumFunctionOnSet(fun, t) = fun[x] + SumFunctionOnSet(fun, rest)
    BY <2>2, SumRemove
  <2>5. SumFunctionOnSet(fun, rest) <= n * top /\ SumFunctionOnSet(fun, rest) \in Int
    <3>1. \A y \in rest : fun[y] \in Int
      BY <2>2
    <3> QED BY <1>0, <1>2, <2>3, <3>1, SumType
  <2>6. fun[x] \in Int /\ fun[x] <= top
    OBVIOUS
  <2>7. (n + 1) * top = n * top + top /\ n * top \in Int
    OBVIOUS
  <2> HIDE DEF rest
  <2> QED BY <2>4, <2>5, <2>6, <2>7
<1> HIDE DEF N
<1>3. Nat \subseteq N
  BY <1>1, <1>2, SetInduction
<1> QED BY <1>0, <1>3 DEF N

(***************************************************************************)
(* The total of a row of amounts, when one is appended or one changes.     *)
(***************************************************************************)
LEMMA TotalType ==
  ASSUME NEW fun, IsFiniteSet(DOMAIN fun)
  PROVE  /\ (\A x \in DOMAIN fun : fun[x] \in Int) => Total(fun) \in Int
         /\ (\A x \in DOMAIN fun : fun[x] \in Nat) => Total(fun) \in Nat
         /\ (\A x \in DOMAIN fun : fun[x] = 0) => Total(fun) = 0
BY SumType DEF Total, SumFunction

(* The places of a sequence are finitely many.                              *)
LEMMA IntervalFinite == \A n \in Nat : IsFiniteSet(1..n)
<1>1. 1 \in Int /\ \A n \in Nat : n \in Int
  OBVIOUS
<1> QED BY <1>1, FS_Interval

(* A value more adds itself to the total.                                   *)
LEMMA TotalExtends ==
  ASSUME NEW n \in Nat, NEW fun1, NEW fun2, DOMAIN fun1 = 1..n, DOMAIN fun2 = 1..(n + 1),
         \A i \in 1..n : fun1[i] = fun2[i], \A i \in 1..(n + 1) : fun2[i] \in Int
  PROVE  Total(fun2) = Total(fun1) + fun2[n + 1]
<1> DEFINE S == 1..n
           x == n + 1
<1>1. IsFiniteSet(S) /\ x \notin S /\ 1..x = S \cup {x}
  BY IntervalFinite
<1>2. (\A i \in S : fun1[i] = fun2[i]) /\ (\A i \in S \cup {x} : fun2[i] \in Int)
  BY <1>1
<1>3. DOMAIN fun1 = S /\ DOMAIN fun2 = S \cup {x}
  BY <1>1
<1> HIDE DEF S, x
<1>4. SumFunctionOnSet(fun2, S \cup {x}) = SumFunctionOnSet(fun1, S) + fun2[x]
  BY <1>1, <1>2, SumAdd
<1>5. Total(fun2) = Total(fun1) + fun2[x]
  BY <1>3, <1>4 DEF Total, SumFunction
<1> QED BY <1>5 DEF x

(* A changed value changes the total by as much.                            *)
LEMMA TotalChanges ==
  ASSUME NEW fun1, NEW fun2, IsFiniteSet(DOMAIN fun1), DOMAIN fun2 = DOMAIN fun1,
         NEW x \in DOMAIN fun1, \A y \in DOMAIN fun1 \ {x} : fun1[y] = fun2[y],
         \A y \in DOMAIN fun1 : fun1[y] \in Int /\ fun2[y] \in Int
  PROVE  Total(fun2) = Total(fun1) + (fun2[x] - fun1[x])
BY SumChange DEF Total, SumFunction

(* The total of a sequence with an amount appended.                         *)
LEMMA TotalAppend ==
  ASSUME NEW s \in Seq(Int), NEW a \in Int
  PROVE  /\ Total(s) \in Int
         /\ Append(s, a) \in Seq(Int)
         /\ Total(Append(s, a)) = Total(s) + a
<1> DEFINE t == Append(s, a)
<1>1. /\ Len(s) \in Nat /\ DOMAIN s = 1..Len(s) /\ DOMAIN t = 1..(Len(s) + 1)
      /\ \A i \in 1..Len(s) : s[i] = t[i]
      /\ t[Len(s) + 1] = a
      /\ t \in Seq(Int)
  OBVIOUS
<1>2. \A i \in 1..(Len(s) + 1) : t[i] \in Int
  BY <1>1
<1> HIDE DEF t
<1>3. Total(t) = Total(s) + t[Len(s) + 1]
  BY <1>1, <1>2, TotalExtends
<1>4. IsFiniteSet(DOMAIN s) /\ \A i \in DOMAIN s : s[i] \in Int
  BY <1>1, IntervalFinite
<1>5. Total(s) \in Int
  BY <1>4, TotalType
<1> QED BY <1>1, <1>3, <1>5 DEF t

(* The amounts of refunds to flats are natural numbers.                     *)
LEMMA TotalOfNaturals ==
  ASSUME NEW s \in Seq(Nat)
  PROVE  /\ s \in Seq(Int) /\ Total(s) \in Nat
         /\ \A a \in Nat : Append(s, a) \in Seq(Nat)
<1>1. /\ Len(s) \in Nat /\ DOMAIN s = 1..Len(s) /\ s \in Seq(Int)
      /\ \A i \in DOMAIN s : s[i] \in Nat
  OBVIOUS
<1>2. IsFiniteSet(DOMAIN s)
  BY <1>1, IntervalFinite
<1>3. Total(s) \in Nat
  BY <1>1, <1>2, TotalType
<1> QED BY <1>1, <1>3

(* The total of the empty sequence is zero.                                 *)
LEMMA TotalOfNone == Total(<<>>) = 0
BY SumOfNone DEF Total, SumFunction

(***************************************************************************)
(* The books, and how each entry moves the closing balance of the ledger.  *)
(***************************************************************************)
AccountRow == [due : Nat, joined : BOOLEAN, paid : Nat, refunds : Seq(Nat)]

Gift == [amount : SponsorAmounts, returned : Seq(Int)]

Expense == [for : DOMAIN TitleOf, amount : Nat]

Book == [flats : [Flatlist -> AccountRow], gifts : Seq(Gift), spent : Seq(Expense)]

(* The rows of an event's book and how many they are.                       *)
LEMMA BookFields ==
  ASSUME NEW b \in Book
  PROVE  /\ b.flats \in [Flatlist -> AccountRow] /\ b.gifts \in Seq(Gift) /\ b.spent \in Seq(Expense)
         /\ IsFiniteSet(Flatlist) /\ DOMAIN b.flats = Flatlist
         /\ Len(b.gifts) \in Nat /\ DOMAIN b.gifts = 1..Len(b.gifts) /\ IsFiniteSet(DOMAIN b.gifts)
         /\ Len(b.spent) \in Nat /\ DOMAIN b.spent = 1..Len(b.spent) /\ IsFiniteSet(DOMAIN b.spent)
<1>1. b.flats \in [Flatlist -> AccountRow] /\ b.gifts \in Seq(Gift) /\ b.spent \in Seq(Expense)
  BY DEF Book
<1>2. /\ DOMAIN b.flats = Flatlist
      /\ Len(b.gifts) \in Nat /\ DOMAIN b.gifts = 1..Len(b.gifts)
      /\ Len(b.spent) \in Nat /\ DOMAIN b.spent = 1..Len(b.spent)
  BY <1>1
<1>3. IsFiniteSet(DOMAIN b.gifts) /\ IsFiniteSet(DOMAIN b.spent)
  BY <1>2, IntervalFinite
<1> QED BY <1>1, <1>2, <1>3, LedgerAssumption DEF Flatlist

(* The amounts in the rows of a book are natural numbers, except those of   *)
(* contributions and their returns.                                         *)
LEMMA BookRowsTyped ==
  ASSUME NEW b \in Book
  PROVE  /\ \A f \in Flatlist : /\ b.flats[f] \in AccountRow /\ b.flats[f].paid \in Nat
                                /\ b.flats[f].due \in Nat /\ Total(b.flats[f].refunds) \in Nat
         /\ \A i \in DOMAIN b.gifts : /\ b.gifts[i] \in Gift /\ b.gifts[i].amount \in Int
                                      /\ b.gifts[i].returned \in Seq(Int)
                                      /\ Total(b.gifts[i].returned) \in Int
         /\ \A i \in DOMAIN b.spent : b.spent[i] \in Expense /\ b.spent[i].amount \in Nat
<1>1. SponsorAmounts \subseteq Int
  BY LedgerAssumption
<1>2. ASSUME NEW f \in Flatlist
      PROVE  /\ b.flats[f] \in AccountRow /\ b.flats[f].paid \in Nat
             /\ b.flats[f].due \in Nat /\ b.flats[f].refunds \in Seq(Nat)
  BY BookFields DEF AccountRow
<1>3. ASSUME NEW i \in DOMAIN b.gifts
      PROVE  b.gifts[i] \in Gift /\ b.gifts[i].amount \in Int /\ b.gifts[i].returned \in Seq(Int)
  <2>1. b.gifts[i] \in Gift
    BY BookFields
  <2> QED BY <1>1, <2>1 DEF Gift
<1>4. ASSUME NEW i \in DOMAIN b.spent
      PROVE  b.spent[i] \in Expense /\ b.spent[i].amount \in Nat
  <2>1. b.spent[i] \in Expense
    BY BookFields
  <2> QED BY <2>1 DEF Expense
<1>5. 0 \in Int
  OBVIOUS
<1> QED BY <1>2, <1>3, <1>4, <1>5, TotalOfNaturals, TotalAppend

PaidBy(flats) == [f \in DOMAIN flats |-> flats[f].paid]

RefundedTo(flats) == [f \in DOMAIN flats |-> Total(flats[f].refunds)]

GivenIn(gifts) == [i \in DOMAIN gifts |-> gifts[i].amount]

ReturnedOf(gifts) == [i \in DOMAIN gifts |-> Total(gifts[i].returned)]

SpentIn(spent) == [i \in DOMAIN spent |-> spent[i].amount]

(* The sums the reports share are totals over the rows.                     *)
LEMMA SumsAre ==
  ASSUME NEW b
  PROVE  /\ Sums(b).paid = Total(PaidBy(b.flats))
         /\ Sums(b).refunded = Total(RefundedTo(b.flats))
         /\ Sums(b).given = Total(GivenIn(b.gifts))
         /\ Sums(b).returned = Total(ReturnedOf(b.gifts))
         /\ Sums(b).spent = Total(SpentIn(b.spent))
BY DEF Sums, PaidBy, RefundedTo, GivenIn, ReturnedOf, SpentIn

(* They are natural numbers, or integers where sponsors are concerned.      *)
LEMMA SumsTyped ==
  ASSUME NEW b \in Book
  PROVE  /\ Sums(b).paid \in Nat /\ Sums(b).refunded \in Nat /\ Sums(b).given \in Int
         /\ Sums(b).returned \in Int /\ Sums(b).spent \in Nat
<1>1. Total(PaidBy(b.flats)) \in Nat
  BY TotalType, BookFields, BookRowsTyped DEF PaidBy
<1>2. Total(RefundedTo(b.flats)) \in Nat
  BY TotalType, BookFields, BookRowsTyped DEF RefundedTo
<1>3. Total(GivenIn(b.gifts)) \in Int
  BY TotalType, BookFields, BookRowsTyped DEF GivenIn
<1>4. Total(ReturnedOf(b.gifts)) \in Int
  BY TotalType, BookFields, BookRowsTyped DEF ReturnedOf
<1>5. Total(SpentIn(b.spent)) \in Nat
  BY TotalType, BookFields, BookRowsTyped DEF SpentIn
<1> QED BY <1>1, <1>2, <1>3, <1>4, <1>5, SumsAre

(* A new contribution, of which nothing is returned yet.                   *)
LEMMA GiftMoves ==
  ASSUME NEW b \in Book, NEW a \in SponsorAmounts
  PROVE  LET gift == [amount |-> a, returned |-> <<>>]
             after == [b EXCEPT !.gifts = Append(@, gift)]
         IN  after \in Book /\ LedgerClosing(after) = LedgerClosing(b) + a
<1> DEFINE gift == [amount |-> a, returned |-> <<>>]
           gifts == Append(b.gifts, gift)
           after == [b EXCEPT !.gifts = Append(@, gift)]
           n == Len(b.gifts)
<1>1. a \in Int /\ gift \in Gift /\ gift.amount = a /\ gift.returned = <<>>
  BY LedgerAssumption DEF Gift
<1> HIDE DEF gift
<1>2. /\ n \in Nat /\ DOMAIN b.gifts = 1..n /\ b.gifts \in Seq(Gift)
  BY BookFields
<1>3. /\ gifts \in Seq(Gift) /\ DOMAIN gifts = 1..(n + 1) /\ gifts[n + 1] = gift
      /\ \A i \in 1..n : gifts[i] = b.gifts[i]
  BY <1>1, <1>2
<1>4. /\ after \in Book /\ after.gifts = gifts
      /\ after.flats = b.flats /\ after.spent = b.spent
  BY <1>3 DEF Book
<1> HIDE DEF gifts, after, n
<1>r. \A i \in DOMAIN gifts : gifts[i].amount \in Int /\ Total(gifts[i].returned) \in Int
  BY <1>4, BookRowsTyped
<1>5. Total(GivenIn(gifts)) = Total(GivenIn(b.gifts)) + a
  <2>1. DOMAIN GivenIn(gifts) = 1..(n + 1) /\ DOMAIN GivenIn(b.gifts) = 1..n
    BY <1>2, <1>3 DEF GivenIn
  <2>2. \A i \in 1..n : GivenIn(b.gifts)[i] = GivenIn(gifts)[i]
    BY <1>2, <1>3 DEF GivenIn
  <2>3. GivenIn(gifts)[n + 1] = a
    BY <1>1, <1>2, <1>3 DEF GivenIn
  <2>4. \A i \in 1..(n + 1) : GivenIn(gifts)[i] \in Int
    BY <1>3, <1>r DEF GivenIn
  <2> QED BY <1>2, <2>1, <2>2, <2>3, <2>4, TotalExtends
<1>6. Total(ReturnedOf(gifts)) = Total(ReturnedOf(b.gifts)) + 0
  <2>1. DOMAIN ReturnedOf(gifts) = 1..(n + 1) /\ DOMAIN ReturnedOf(b.gifts) = 1..n
    BY <1>2, <1>3 DEF ReturnedOf
  <2>2. \A i \in 1..n : ReturnedOf(b.gifts)[i] = ReturnedOf(gifts)[i]
    BY <1>2, <1>3 DEF ReturnedOf
  <2>3. ReturnedOf(gifts)[n + 1] = 0
    BY <1>1, <1>2, <1>3, TotalOfNone DEF ReturnedOf
  <2>4. \A i \in 1..(n + 1) : ReturnedOf(gifts)[i] \in Int
    BY <1>3, <1>r DEF ReturnedOf
  <2> QED BY <1>2, <2>1, <2>2, <2>3, <2>4, TotalExtends
<1>7. /\ Sums(after).given = Sums(b).given + a
      /\ Sums(after).returned = Sums(b).returned + 0
      /\ Sums(after).paid = Sums(b).paid
      /\ Sums(after).refunded = Sums(b).refunded
      /\ Sums(after).spent = Sums(b).spent
  BY <1>4, <1>5, <1>6, SumsAre
<1>8. LedgerClosing(after) = LedgerClosing(b) + a
  BY <1>1, <1>7, SumsTyped DEF LedgerClosing
<1> QED BY <1>4, <1>8 DEF after, gift

(* Some of contribution i goes back.                                       *)
LEMMA ReturnMoves ==
  ASSUME NEW b \in Book, NEW i \in DOMAIN b.gifts, NEW a \in Int
  PROVE  LET after == [b EXCEPT !.gifts[i].returned = Append(@, a)]
         IN  after \in Book /\ LedgerClosing(after) = LedgerClosing(b) - a
<1> DEFINE returned == Append(b.gifts[i].returned, a)
           gift == [b.gifts[i] EXCEPT !.returned = returned]
           gifts == [b.gifts EXCEPT ![i] = gift]
           after == [b EXCEPT !.gifts[i].returned = Append(@, a)]
<1>1. b.gifts[i] \in Gift /\ b.gifts[i].returned \in Seq(Int)
  BY BookRowsTyped DEF Gift
<1>2. /\ returned \in Seq(Int) /\ Total(returned) = Total(b.gifts[i].returned) + a
  BY <1>1, TotalAppend
<1>3. after = [b EXCEPT !.gifts = gifts]
  BY <1>1 DEF Book, Gift
<1> HIDE DEF returned
<1>4. gift \in Gift /\ gift.amount = b.gifts[i].amount /\ gift.returned = returned
  BY <1>1, <1>2 DEF Gift
<1> HIDE DEF gift
<1>5. /\ b.gifts \in Seq(Gift) /\ gifts \in Seq(Gift) /\ DOMAIN gifts = DOMAIN b.gifts
      /\ IsFiniteSet(DOMAIN b.gifts)
      /\ gifts[i] = gift /\ \A j \in DOMAIN b.gifts \ {i} : gifts[j] = b.gifts[j]
  BY <1>4, BookFields
<1> HIDE DEF gifts
<1>6. /\ after \in Book /\ after.gifts = gifts
      /\ after.flats = b.flats /\ after.spent = b.spent
  BY <1>3, <1>5 DEF Book
<1> HIDE DEF after
<1>7. GivenIn(gifts) = GivenIn(b.gifts)
  BY <1>4, <1>5 DEF GivenIn
<1>8. Total(ReturnedOf(gifts)) = Total(ReturnedOf(b.gifts)) + a
  <2>1. DOMAIN ReturnedOf(gifts) = DOMAIN b.gifts /\ DOMAIN ReturnedOf(b.gifts) = DOMAIN b.gifts
    BY <1>5 DEF ReturnedOf
  <2>2. \A j \in DOMAIN b.gifts \ {i} : ReturnedOf(b.gifts)[j] = ReturnedOf(gifts)[j]
    BY <1>5 DEF ReturnedOf
  <2>3. ReturnedOf(gifts)[i] = ReturnedOf(b.gifts)[i] + a
    BY <1>2, <1>4, <1>5 DEF ReturnedOf
  <2>4. \A j \in DOMAIN b.gifts : ReturnedOf(gifts)[j] \in Int /\ ReturnedOf(b.gifts)[j] \in Int
    BY <1>5, <1>6, BookRowsTyped DEF ReturnedOf
  <2>5. Total(ReturnedOf(gifts))
          = Total(ReturnedOf(b.gifts)) + (ReturnedOf(gifts)[i] - ReturnedOf(b.gifts)[i])
    BY <1>5, <2>1, <2>2, <2>4, TotalChanges
  <2> QED BY <2>3, <2>4, <2>5
<1>9. /\ Sums(after).given = Sums(b).given
      /\ Sums(after).returned = Sums(b).returned + a
      /\ Sums(after).paid = Sums(b).paid
      /\ Sums(after).refunded = Sums(b).refunded
      /\ Sums(after).spent = Sums(b).spent
  BY <1>6, <1>7, <1>8, SumsAre
<1>10. LedgerClosing(after) = LedgerClosing(b) - a
  BY <1>9, SumsTyped DEF LedgerClosing
<1> QED BY <1>6, <1>10 DEF after

(* An expense.                                                             *)
LEMMA ExpenseMoves ==
  ASSUME NEW b \in Book, NEW d \in DOMAIN TitleOf, NEW a \in Nat
  PROVE  LET after == [b EXCEPT !.spent = Append(@, [for |-> d, amount |-> a])]
         IN  after \in Book /\ LedgerClosing(after) = LedgerClosing(b) - a
<1> DEFINE expense == [for |-> d, amount |-> a]
           spent == Append(b.spent, expense)
           after == [b EXCEPT !.spent = Append(@, expense)]
           n == Len(b.spent)
<1>1. expense \in Expense /\ expense.amount = a
  BY DEF Expense
<1> HIDE DEF expense
<1>2. /\ n \in Nat /\ DOMAIN b.spent = 1..n /\ b.spent \in Seq(Expense)
  BY BookFields
<1>3. /\ spent \in Seq(Expense) /\ DOMAIN spent = 1..(n + 1) /\ spent[n + 1] = expense
      /\ \A i \in 1..n : spent[i] = b.spent[i]
  BY <1>1, <1>2
<1>4. /\ after \in Book /\ after.spent = spent
      /\ after.flats = b.flats /\ after.gifts = b.gifts
  BY <1>3 DEF Book
<1> HIDE DEF spent, after, n
<1>5. Total(SpentIn(spent)) = Total(SpentIn(b.spent)) + a
  <2>0. \A i \in DOMAIN spent : spent[i].amount \in Nat
    BY <1>4, BookRowsTyped
  <2>1. DOMAIN SpentIn(spent) = 1..(n + 1) /\ DOMAIN SpentIn(b.spent) = 1..n
    BY <1>2, <1>3 DEF SpentIn
  <2>2. \A i \in 1..n : SpentIn(b.spent)[i] = SpentIn(spent)[i]
    BY <1>2, <1>3 DEF SpentIn
  <2>3. SpentIn(spent)[n + 1] = a
    BY <1>1, <1>2, <1>3 DEF SpentIn
  <2>4. \A i \in 1..(n + 1) : SpentIn(spent)[i] \in Int
    BY <1>3, <2>0 DEF SpentIn
  <2> QED BY <1>2, <2>1, <2>2, <2>3, <2>4, TotalExtends
<1>6. /\ Sums(after).spent = Sums(b).spent + a
      /\ Sums(after).given = Sums(b).given
      /\ Sums(after).returned = Sums(b).returned
      /\ Sums(after).paid = Sums(b).paid
      /\ Sums(after).refunded = Sums(b).refunded
  BY <1>4, <1>5, SumsAre
<1>7. LedgerClosing(after) = LedgerClosing(b) - a
  BY <1>6, SumsTyped DEF LedgerClosing
<1> QED BY <1>4, <1>7 DEF after, expense

(* A flat's account is paid into or refunded from.                         *)
LEMMA AccountMoves ==
  ASSUME NEW b \in Book, NEW f \in Flatlist, NEW account \in AccountRow
  PROVE  LET after == [b EXCEPT !.flats[f] = account]
         IN  /\ after \in Book
             /\ LedgerClosing(after)
                  = LedgerClosing(b) + (account.paid - b.flats[f].paid)
                      - (Total(account.refunds) - Total(b.flats[f].refunds))
<1> DEFINE flats == [b.flats EXCEPT ![f] = account]
           after == [b EXCEPT !.flats[f] = account]
<1>1. after = [b EXCEPT !.flats = flats]
  BY DEF Book
<1>2. /\ flats \in [Flatlist -> AccountRow] /\ b.flats \in [Flatlist -> AccountRow]
      /\ DOMAIN flats = Flatlist /\ DOMAIN b.flats = Flatlist /\ IsFiniteSet(Flatlist)
      /\ flats[f] = account /\ \A g \in Flatlist \ {f} : flats[g] = b.flats[g]
  BY BookFields
<1> HIDE DEF flats
<1>3. /\ after \in Book /\ after.flats = flats
      /\ after.gifts = b.gifts /\ after.spent = b.spent
  BY <1>1, <1>2 DEF Book
<1> HIDE DEF after
<1>4. /\ \A g \in Flatlist : flats[g].paid \in Nat /\ Total(flats[g].refunds) \in Nat
      /\ \A g \in Flatlist : b.flats[g].paid \in Nat /\ Total(b.flats[g].refunds) \in Nat
  BY <1>3, BookRowsTyped
<1>5. Total(PaidBy(flats)) = Total(PaidBy(b.flats)) + (account.paid - b.flats[f].paid)
  <2>1. DOMAIN PaidBy(flats) = Flatlist /\ DOMAIN PaidBy(b.flats) = Flatlist
    BY <1>2 DEF PaidBy
  <2>2. \A g \in Flatlist \ {f} : PaidBy(b.flats)[g] = PaidBy(flats)[g]
    BY <1>2 DEF PaidBy
  <2>3. PaidBy(flats)[f] = account.paid /\ PaidBy(b.flats)[f] = b.flats[f].paid
    BY <1>2 DEF PaidBy
  <2>4. \A g \in Flatlist : PaidBy(b.flats)[g] \in Int /\ PaidBy(flats)[g] \in Int
    BY <1>2, <1>4 DEF PaidBy
  <2> QED BY <1>2, <2>1, <2>2, <2>3, <2>4, TotalChanges
<1>6. Total(RefundedTo(flats))
        = Total(RefundedTo(b.flats)) + (Total(account.refunds) - Total(b.flats[f].refunds))
  <2>1. DOMAIN RefundedTo(flats) = Flatlist /\ DOMAIN RefundedTo(b.flats) = Flatlist
    BY <1>2 DEF RefundedTo
  <2>2. \A g \in Flatlist \ {f} : RefundedTo(b.flats)[g] = RefundedTo(flats)[g]
    BY <1>2 DEF RefundedTo
  <2>3. RefundedTo(flats)[f] = Total(account.refunds)
        /\ RefundedTo(b.flats)[f] = Total(b.flats[f].refunds)
    BY <1>2 DEF RefundedTo
  <2>4. \A g \in Flatlist : RefundedTo(b.flats)[g] \in Int /\ RefundedTo(flats)[g] \in Int
    BY <1>2, <1>4 DEF RefundedTo
  <2> QED BY <1>2, <2>1, <2>2, <2>3, <2>4, TotalChanges
<1>7. /\ Sums(after).paid = Sums(b).paid + (account.paid - b.flats[f].paid)
      /\ Sums(after).refunded
           = Sums(b).refunded + (Total(account.refunds) - Total(b.flats[f].refunds))
      /\ Sums(after).given = Sums(b).given
      /\ Sums(after).returned = Sums(b).returned
      /\ Sums(after).spent = Sums(b).spent
  BY <1>3, <1>5, <1>6, SumsAre
<1>8. /\ account.paid \in Nat /\ b.flats[f].paid \in Nat
      /\ Total(account.refunds) \in Nat /\ Total(b.flats[f].refunds) \in Nat
  BY <1>2, <1>4
<1>9. LedgerClosing(after)
        = LedgerClosing(b) + (account.paid - b.flats[f].paid)
            - (Total(account.refunds) - Total(b.flats[f].refunds))
  BY <1>7, <1>8, SumsTyped DEF LedgerClosing
<1> QED BY <1>3, <1>9 DEF after

-------------------------------------------------------------------------------
(***************************************************************************)
(* What the clerks keep.  A return that has been checked still fits when   *)
(* it is committed, unless another of the same contribution was checked    *)
(* in between: a lone clerk's sum is not stale.                            *)
(***************************************************************************)
BenchEntry ==
  [kind : {"none", "gift", "return"}, event : EventIds, gift : Nat, amount : SponsorAmounts]

LedgerTypes ==
  /\ stage \in [EventIds -> Stages]
  /\ books \in [EventIds -> Book]
  /\ cash \in [EventIds -> Int]
  /\ bench \in [Clerks -> BenchEntry]
  /\ rushed \subseteq EventIds \X (1..MaxEntries)
  /\ entries \in 0..MaxEntries

Returning(c, e, i) == bench[c].kind = "return" /\ bench[c].event = e /\ bench[c].gift = i

ReturnsFit ==
  \A c \in Clerks, e \in EventIds, i \in Nat : Returning(c, e, i) =>
    /\ i \in DOMAIN books[e].gifts
    /\ books[e].gifts[i].amount # 0
    /\ <<e, i>> \notin rushed =>
         Total(books[e].gifts[i].returned) + bench[c].amount <= books[e].gifts[i].amount

ReturnsAlone ==
  \A c, d \in Clerks, e \in EventIds, i \in Nat :
    Returning(c, e, i) /\ Returning(d, e, i) /\ c # d => <<e, i>> \in rushed

GiftFits(gift, lone) ==
  /\ gift.amount = 0 => gift.returned = <<>>
  /\ lone => NotOverReturned(gift)

GiftsFit ==
  \A e \in EventIds : \A i \in DOMAIN books[e].gifts :
    GiftFits(books[e].gifts[i], <<e, i>> \notin rushed)

(* What an entry in hand may still return of contribution i; what lowers   *)
(* the sum of the returns is left out, for it may be lost on the way.      *)
Pending(entry, e, i) ==
  IF entry.kind = "return" /\ entry.event = e /\ entry.gift = i /\ entry.amount > 0
  THEN entry.amount ELSE 0

UnderWay(hands, e, i) == [c \in Clerks |-> Pending(hands[c], e, i)]

Excess == (Cardinality(Clerks) - 1) * Largest

OverlapFits ==
  \A e \in EventIds : \A i \in DOMAIN books[e].gifts :
    books[e].gifts[i].amount > 0 =>
      Total(books[e].gifts[i].returned) + Total(UnderWay(bench, e, i)) <= books[e].gifts[i].amount + Excess

GiftsIInv == ReturnsFit /\ ReturnsAlone /\ GiftsFit /\ OverlapFits

RefundsFit ==
  \A e \in EventIds, f \in Flatlist :
    Total(books[e].flats[f].refunds) <= books[e].flats[f].paid

CashAgrees == \A e \in EventIds : LedgerClosing(books[e]) = cash[e]

LedgerIInv == LedgerTypes /\ GiftsIInv /\ RefundsFit /\ CashAgrees

(* No entry in hand is pending with more than the largest amount.          *)
LEMMA PendingTyped ==
  ASSUME NEW entry \in BenchEntry, NEW e, NEW i
  PROVE  /\ Pending(entry, e, i) \in Nat /\ Pending(entry, e, i) <= Largest
         /\ entry.amount \in Int
         /\ entry.kind # "return" => Pending(entry, e, i) = 0
<1>1. entry.amount \in (-Largest)..Largest /\ Largest \in Nat
  BY LedgerAssumption DEF BenchEntry
<1> QED BY <1>1 DEF Pending

(* What is under way is a natural number.                                  *)
LEMMA UnderWayTyped ==
  ASSUME NEW hands \in [Clerks -> BenchEntry], NEW e, NEW i
  PROVE  /\ DOMAIN UnderWay(hands, e, i) = Clerks /\ IsFiniteSet(Clerks)
         /\ \A c \in Clerks : /\ UnderWay(hands, e, i)[c] = Pending(hands[c], e, i)
                              /\ UnderWay(hands, e, i)[c] \in Nat
         /\ Total(UnderWay(hands, e, i)) \in Nat
<1>1. DOMAIN UnderWay(hands, e, i) = Clerks /\ IsFiniteSet(Clerks)
  BY LedgerAssumption DEF UnderWay
<1>2. \A c \in Clerks : /\ UnderWay(hands, e, i)[c] = Pending(hands[c], e, i)
                        /\ UnderWay(hands, e, i)[c] \in Nat
  BY PendingTyped DEF UnderWay
<1> QED BY <1>1, <1>2, TotalType

(* One clerk's entry changes what is under way by what it is pending with; *)
(* what the other clerks are pending with fits the excess.                 *)
LEMMA UnderWayMoves ==
  ASSUME NEW hands \in [Clerks -> BenchEntry], NEW after \in [Clerks -> BenchEntry],
         NEW c \in Clerks, \A d \in Clerks \ {c} : after[d] = hands[d], NEW e, NEW i
  PROVE  /\ Total(UnderWay(after, e, i))
              = Total(UnderWay(hands, e, i)) + (Pending(after[c], e, i) - Pending(hands[c], e, i))
         /\ Total(UnderWay(after, e, i)) <= Pending(after[c], e, i) + Excess
         /\ Excess \in Nat
<1> DEFINE old == UnderWay(hands, e, i)
           new == UnderWay(after, e, i)
           Others == Clerks \ {c}
<1>2. /\ DOMAIN old = Clerks /\ DOMAIN new = Clerks /\ IsFiniteSet(Clerks)
      /\ \A d \in Clerks : /\ old[d] = Pending(hands[d], e, i) /\ old[d] \in Int
                           /\ new[d] = Pending(after[d], e, i) /\ new[d] \in Int
                           /\ new[d] <= Largest
  <2>1. \A d \in Clerks : Pending(after[d], e, i) <= Largest
    BY PendingTyped
  <2> QED BY <2>1, UnderWayTyped
<1>3. new[c] = Pending(after[c], e, i) /\ old[c] = Pending(hands[c], e, i)
      /\ \A d \in Others : old[d] = new[d]
  BY <1>2
<1> HIDE DEF old, new
<1>4. Total(new) = Total(old) + (new[c] - old[c])
  BY <1>2, <1>3, TotalChanges
<1>5. IsFiniteSet(Others) /\ Cardinality(Others) = Cardinality(Clerks) - 1
      /\ Cardinality(Others) \in Nat
  BY <1>2, FS_RemoveElement, FS_CardinalityType
<1>6. Largest \in Nat
  BY LedgerAssumption
<1>7. Excess = Cardinality(Others) * Largest /\ Excess \in Nat
  BY <1>5, <1>6 DEF Excess
<1>8. SumFunctionOnSet(new, Others) <= Excess /\ SumFunctionOnSet(new, Others) \in Int
  <2>1. SumFunctionOnSet(new, Others) <= Cardinality(Others) * Largest
    BY <1>2, <1>5, <1>6, SumBound
  <2> QED BY <1>2, <1>5, <1>7, <2>1, SumType
<1>9. Total(new) = new[c] + SumFunctionOnSet(new, Others)
  BY <1>2, SumRemove DEF Total, SumFunction
<1>10. Total(new) <= new[c] + Excess
  BY <1>2, <1>7, <1>8, <1>9
<1> QED BY <1>3, <1>4, <1>7, <1>10 DEF old, new

(* The property checked follows: nothing that is under way is negative.    *)
LEMMA GiftsHold == LedgerIInv => GiftsNotOverReturned
<1> SUFFICES ASSUME LedgerIInv, NEW e \in EventIds, NEW i \in DOMAIN books[e].gifts
             PROVE  LET gift == books[e].gifts[i] IN
                    /\ gift.amount = 0 => gift.returned = <<>>
                    /\ <<e, i>> \notin rushed => NotOverReturned(gift)
                    /\ OverReturnBounded(gift)
  BY DEF GiftsNotOverReturned
<1>1. GiftFits(books[e].gifts[i], <<e, i>> \notin rushed)
  BY DEF LedgerIInv, GiftsIInv, GiftsFit
<1>2. Total(UnderWay(bench, e, i)) \in Nat
  BY UnderWayTyped DEF LedgerIInv, LedgerTypes
<1>3. Total(books[e].gifts[i].returned) \in Int /\ books[e].gifts[i].amount \in Int
  BY BookRowsTyped DEF LedgerIInv, LedgerTypes
<1>4. Cardinality(Clerks) \in Nat /\ Excess \in Int
  BY LedgerAssumption, FS_CardinalityType DEF Excess
<1>5. OverReturnBounded(books[e].gifts[i])
  <2>1. books[e].gifts[i].amount > 0 =>
          Total(books[e].gifts[i].returned) + Total(UnderWay(bench, e, i))
            <= books[e].gifts[i].amount + Excess
    BY DEF LedgerIInv, GiftsIInv, OverlapFits
  <2>2. books[e].gifts[i].amount > 0 =>
          Total(books[e].gifts[i].returned) <= books[e].gifts[i].amount + Excess
    BY <1>2, <1>3, <1>4, <2>1
  <2> QED BY <2>2 DEF OverReturnBounded, Excess
<1> QED BY <1>1, <1>5 DEF GiftFits

(* An empty book agrees with empty hands.                                   *)
LEMMA LedgerStarts == LedgerInit => LedgerIInv
<1> SUFFICES ASSUME LedgerInit PROVE LedgerIInv
  OBVIOUS
<1> DEFINE first == [flats |-> Accounts, gifts |-> <<>>, spent |-> <<>>]
<1>1. /\ Accounts \in [Flatlist -> AccountRow]
      /\ \A f \in Flatlist : Accounts[f].paid = 0 /\ Accounts[f].refunds = <<>>
  <2>1. \A f \in Flatlist : Accounts[f] \in [due : Nat, joined : BOOLEAN, paid : {0}, refunds : {<<>>}]
    BY LedgerAssumption DEF Flatlist
  <2>2. <<>> \in Seq(Nat) /\ {0} \subseteq Nat
    OBVIOUS
  <2>3. [due : Nat, joined : BOOLEAN, paid : {0}, refunds : {<<>>}] \subseteq AccountRow
    BY <2>2 DEF AccountRow
  <2> QED BY <2>1, <2>3, LedgerAssumption DEF Flatlist
<1>2. /\ first \in Book /\ first.flats = Accounts /\ DOMAIN first.flats = Flatlist
      /\ first.gifts = <<>> /\ first.spent = <<>>
  BY <1>1 DEF Book
<1> HIDE DEF first
<1>3. /\ Sums(first).paid = 0 /\ Sums(first).refunded = 0 /\ Sums(first).given = 0
      /\ Sums(first).returned = 0 /\ Sums(first).spent = 0
  <2>1. Total(PaidBy(first.flats)) = 0 /\ Total(RefundedTo(first.flats)) = 0
    <3>1. IsFiniteSet(Flatlist)
      BY <1>2, BookFields
    <3> QED BY <1>1, <1>2, <3>1, TotalType, TotalOfNone DEF PaidBy, RefundedTo
  <2>2. /\ GivenIn(first.gifts) = <<>> /\ ReturnedOf(first.gifts) = <<>>
        /\ SpentIn(first.spent) = <<>>
    BY <1>2 DEF GivenIn, ReturnedOf, SpentIn
  <2> QED BY <2>1, <2>2, SumsAre, TotalOfNone
<1>4. LedgerClosing(first) = 0
  BY <1>3 DEF LedgerClosing
<1>5. \A e \in EventIds : books[e] = first
  BY DEF LedgerInit, first
<1>6. \A c \in Clerks : bench[c].kind = "none"
  BY DEF LedgerInit, EmptyBench
<1>7. LedgerTypes
  <2>1. books \in [EventIds -> Book]
    BY <1>2, <1>5 DEF LedgerInit
  <2>2. EmptyBench \in BenchEntry
    BY LedgerAssumption DEF EmptyBench, BenchEntry, EventIds
  <2> QED BY <2>1, <2>2, LedgerAssumption DEF LedgerInit, LedgerTypes
<1>8. GiftsIInv
  BY <1>2, <1>5, <1>6 DEF GiftsIInv, ReturnsFit, ReturnsAlone, GiftsFit, OverlapFits, Returning
<1>9. RefundsFit
  BY <1>1, <1>2, <1>5, TotalOfNone DEF RefundsFit
<1>10. CashAgrees
  BY <1>4, <1>5 DEF CashAgrees, LedgerInit
<1> QED BY <1>7, <1>8, <1>9, <1>10 DEF LedgerIInv

(* An entry of one book: its types and the cash follow from the lemmas     *)
(* above.                                                                  *)
LEMMA EntryBooked ==
  ASSUME LedgerIInv, NEW e \in EventIds, NEW after \in Book, NEW delta \in Int,
         books' = [books EXCEPT ![e] = after],
         cash' = [cash EXCEPT ![e] = @ + delta],
         LedgerClosing(after) = LedgerClosing(books[e]) + delta
  PROVE  /\ books' \in [EventIds -> Book]
         /\ cash' \in [EventIds -> Int]
         /\ CashAgrees'
<1>1. books \in [EventIds -> Book] /\ cash \in [EventIds -> Int] /\ CashAgrees
  BY DEF LedgerIInv, LedgerTypes
<1>2. books' \in [EventIds -> Book] /\ cash' \in [EventIds -> Int]
  BY <1>1
<1>3. CashAgrees'
  BY <1>1 DEF CashAgrees
<1> QED BY <1>2, <1>3

(* Steps that leave contributions and clerks alone keep what is said of     *)
(* returns.                                                                 *)
LEMMA GiftsFrame ==
  ASSUME LedgerIInv, books' \in [EventIds -> Book],
         \A e \in EventIds : books'[e].gifts = books[e].gifts, UNCHANGED <<bench, rushed>>
  PROVE  GiftsIInv'
<1>1. \A c, e, i : Returning(c, e, i)' <=> Returning(c, e, i)
  BY DEF Returning
<1> QED BY <1>1 DEF LedgerIInv, GiftsIInv, ReturnsFit, ReturnsAlone, GiftsFit, OverlapFits

(* Steps that leave the flats' rows alone keep refunds within payments.     *)
LEMMA FlatsFrame ==
  ASSUME LedgerIInv, \A e \in EventIds : books'[e].flats = books[e].flats
  PROVE  RefundsFit'
BY DEF LedgerIInv, RefundsFit

(* A session that ends leaves fewer returns under way.                     *)
LEMMA BenchCleared ==
  ASSUME LedgerIInv, NEW c \in Clerks, bench' = [bench EXCEPT ![c] = EmptyBench]
  PROVE  /\ bench' \in [Clerks -> BenchEntry]
         /\ \A d \in Clerks : bench'[d] = IF d = c THEN EmptyBench ELSE bench[d]
         /\ \A d \in Clerks, e \in EventIds, i \in Nat :
              Returning(d, e, i)' <=> Returning(d, e, i) /\ d # c
<1>1. EmptyBench \in BenchEntry /\ EmptyBench.kind = "none"
  BY LedgerAssumption DEF EmptyBench, BenchEntry, EventIds
<1> QED BY <1>1 DEF LedgerIInv, LedgerTypes, Returning

(* A clerk's entry that returns nothing leaves no more under way.           *)
LEMMA OverlapKept ==
  ASSUME LedgerIInv, NEW c \in Clerks, NEW entry \in BenchEntry, entry.kind # "return",
         bench' = [bench EXCEPT ![c] = entry]
  PROVE  \A e \in EventIds : \A i \in DOMAIN books[e].gifts :
           books[e].gifts[i].amount > 0 =>
             Total(books[e].gifts[i].returned) + Total(UnderWay(bench', e, i))
               <= books[e].gifts[i].amount + Excess
<1> SUFFICES ASSUME NEW e \in EventIds, NEW i \in DOMAIN books[e].gifts,
                    books[e].gifts[i].amount > 0
             PROVE  Total(books[e].gifts[i].returned) + Total(UnderWay(bench', e, i))
                      <= books[e].gifts[i].amount + Excess
  OBVIOUS
<1>1. /\ bench \in [Clerks -> BenchEntry] /\ bench' \in [Clerks -> BenchEntry]
      /\ bench'[c] = entry /\ \A d \in Clerks \ {c} : bench'[d] = bench[d]
  BY DEF LedgerIInv, LedgerTypes
<1>2. Pending(entry, e, i) = 0 /\ Pending(bench[c], e, i) \in Nat
  BY <1>1, PendingTyped
<1>3. /\ Total(UnderWay(bench', e, i))
           = Total(UnderWay(bench, e, i)) + (Pending(entry, e, i) - Pending(bench[c], e, i))
      /\ Excess \in Nat
  <2> DEFINE after == bench'
  <2>1. /\ after \in [Clerks -> BenchEntry] /\ after[c] = entry
        /\ \A d \in Clerks \ {c} : after[d] = bench[d]
    BY <1>1
  <2> HIDE DEF after
  <2>2. /\ Total(UnderWay(after, e, i))
             = Total(UnderWay(bench, e, i)) + (Pending(entry, e, i) - Pending(bench[c], e, i))
        /\ Excess \in Nat
    BY <1>1, <2>1, UnderWayMoves
  <2> QED BY <2>2 DEF after
<1>4. Total(UnderWay(bench, e, i)) \in Nat
  BY <1>1, UnderWayTyped
<1>5. Total(books[e].gifts[i].returned) \in Int /\ books[e].gifts[i].amount \in Int
  BY BookRowsTyped DEF LedgerIInv, LedgerTypes
<1>6. Total(books[e].gifts[i].returned) + Total(UnderWay(bench, e, i))
        <= books[e].gifts[i].amount + Excess
  BY DEF LedgerIInv, GiftsIInv, OverlapFits
<1> QED BY <1>2, <1>3, <1>4, <1>5, <1>6

(* Entries that only start, or end without a commit.                       *)
LEMMA ReadGiftKeeps ==
  ASSUME LedgerIInv, NEW c \in Clerks, NEW e \in EventIds, NEW a \in SponsorAmounts, NEW r,
         ReadGift(c, e, a, r)
  PROVE  LedgerIInv'
<1> DEFINE entry == [kind |-> "gift", event |-> e, gift |-> Len(books[e].gifts) + 1, amount |-> a]
<1>1. Len(books[e].gifts) \in Nat
  BY BookFields DEF LedgerIInv, LedgerTypes
<1>2. entry \in BenchEntry /\ entry.kind = "gift"
  BY <1>1 DEF BenchEntry
<1>3. bench' = [bench EXCEPT ![c] = entry] /\ UNCHANGED <<stage, books, cash, rushed>>
  BY DEF ReadGift
<1> HIDE DEF entry
<1>4. LedgerTypes'
  <2>1. entries' \in 0..MaxEntries
    BY LedgerAssumption DEF ReadGift, Entry, LedgerIInv, LedgerTypes
  <2> QED BY <1>2, <1>3, <2>1 DEF LedgerIInv, LedgerTypes
<1>5. \A d \in Clerks, f \in EventIds, i \in Nat :
        Returning(d, f, i)' => Returning(d, f, i) /\ bench'[d] = bench[d]
  BY <1>2, <1>3 DEF LedgerIInv, LedgerTypes, Returning
<1>6. GiftsIInv'
  <2>1. ReturnsFit' /\ ReturnsAlone' /\ GiftsFit'
    BY <1>3, <1>5 DEF LedgerIInv, GiftsIInv, ReturnsFit, ReturnsAlone, GiftsFit
  <2>2. OverlapFits'
    BY <1>2, <1>3, OverlapKept DEF OverlapFits
  <2> QED BY <2>1, <2>2 DEF GiftsIInv
<1>7. RefundsFit' /\ CashAgrees'
  BY <1>3 DEF LedgerIInv, RefundsFit, CashAgrees
<1> QED BY <1>4, <1>6, <1>7 DEF LedgerIInv

(* A clerk who is refused or loses the session leaves the books alone.      *)
LEMMA EndsWithoutCommit ==
  ASSUME LedgerIInv, NEW c \in Clerks, GiftRefused(c) \/ LoseSession(c)
  PROVE  LedgerIInv'
<1>1. bench' = [bench EXCEPT ![c] = EmptyBench] /\ UNCHANGED <<stage, books, cash, rushed, entries>>
  BY DEF GiftRefused, LoseSession
<1>2. LedgerTypes'
  BY <1>1, BenchCleared DEF LedgerIInv, LedgerTypes
<1>3. GiftsIInv'
  <2>0. \A d \in Clerks, e \in EventIds, i \in Nat :
          Returning(d, e, i)' => Returning(d, e, i) /\ bench'[d] = bench[d]
    BY <1>1, BenchCleared
  <2>1. ReturnsFit' /\ ReturnsAlone' /\ GiftsFit'
    BY <1>1, <2>0 DEF LedgerIInv, GiftsIInv, ReturnsFit, ReturnsAlone, GiftsFit
  <2>2. EmptyBench \in BenchEntry /\ EmptyBench.kind # "return"
    BY LedgerAssumption DEF EmptyBench, BenchEntry, EventIds
  <2>3. OverlapFits'
    BY <1>1, <2>2, OverlapKept DEF OverlapFits
  <2> QED BY <2>1, <2>3 DEF GiftsIInv
<1>4. RefundsFit' /\ CashAgrees'
  BY <1>1 DEF LedgerIInv, RefundsFit, CashAgrees
<1> QED BY <1>2, <1>3, <1>4 DEF LedgerIInv

(* A return is checked against what is left; if another is under way the   *)
(* contribution counts as rushed from here on.                             *)
LEMMA CheckReturnKeeps ==
  ASSUME LedgerIInv, NEW c \in Clerks, NEW e \in EventIds, NEW i \in 1..MaxEntries,
         NEW a \in SponsorAmounts, NEW r, CheckReturn(c, e, i, a, r)
  PROVE  LedgerIInv'
<1> DEFINE entry == [kind |-> "return", event |-> e, gift |-> i, amount |-> a]
<1>1. /\ i \in DOMAIN books[e].gifts /\ Returnable(books[e].gifts[i], a)
      /\ bench' = [bench EXCEPT ![c] = entry]
      /\ rushed' = IF OthersReturning(c, e, i) THEN rushed \cup {<<e, i>>} ELSE rushed
      /\ UNCHANGED <<stage, books, cash>>
  BY DEF CheckReturn
<1>2. /\ entry \in BenchEntry /\ entry.kind = "return" /\ entry.event = e /\ entry.gift = i
      /\ entry.amount = a /\ i \in Nat
  BY LedgerAssumption DEF BenchEntry
<1> HIDE DEF entry
<1>3. rushed \subseteq rushed' /\ rushed' \subseteq rushed \cup {<<e, i>>}
  BY <1>1
<1>4. LedgerTypes'
  <2>1. entries' \in 0..MaxEntries
    BY LedgerAssumption DEF CheckReturn, Entry, LedgerIInv, LedgerTypes
  <2> QED BY <1>1, <1>2, <1>3, <2>1 DEF LedgerIInv, LedgerTypes
<1>5. \A d \in Clerks : bench'[d] = IF d = c THEN entry ELSE bench[d]
  BY <1>1 DEF LedgerIInv, LedgerTypes
<1>6. ReturnsFit'
  <2> SUFFICES ASSUME NEW d \in Clerks, NEW f \in EventIds, NEW j \in Nat, Returning(d, f, j)'
               PROVE  /\ j \in DOMAIN books[f].gifts /\ books[f].gifts[j].amount # 0
                      /\ <<f, j>> \notin rushed' =>
                           Total(books[f].gifts[j].returned) + bench'[d].amount
                             <= books[f].gifts[j].amount
    BY <1>1 DEF ReturnsFit
  <2>1. CASE d = c
    <3>1. f = e /\ j = i /\ bench'[d].amount = a
      BY <1>2, <1>5, <2>1 DEF Returning
    <3> QED BY <1>1, <3>1 DEF Returnable
  <2>2. CASE d # c
    <3>1. Returning(d, f, j) /\ bench'[d] = bench[d]
      BY <1>5, <2>2 DEF Returning
    <3> QED BY <1>3, <3>1 DEF LedgerIInv, GiftsIInv, ReturnsFit
  <2> QED BY <2>1, <2>2
<1>7. ReturnsAlone'
  <2> SUFFICES ASSUME NEW d1 \in Clerks, NEW d2 \in Clerks, NEW f \in EventIds, NEW j \in Nat,
                      Returning(d1, f, j)', Returning(d2, f, j)', d1 # d2
               PROVE  <<f, j>> \in rushed'
    BY DEF ReturnsAlone
  <2>1. CASE d1 # c /\ d2 # c
    BY <1>3, <1>5, <2>1 DEF Returning, LedgerIInv, GiftsIInv, ReturnsAlone
  <2>2. ASSUME NEW d \in Clerks, d # c, Returning(d, f, j)', Returning(c, f, j)'
        PROVE  <<f, j>> \in rushed'
    <3>1. f = e /\ j = i
      BY <1>2, <1>5, <2>2 DEF Returning
    <3>2. Returning(d, e, i)
      BY <1>5, <2>2, <3>1 DEF Returning
    <3>3. OthersReturning(c, e, i)
      BY <2>2, <3>2 DEF OthersReturning, Returning
    <3> QED BY <1>1, <3>1, <3>3
  <2> QED BY <2>1, <2>2
<1>8. GiftsFit'
  BY <1>1, <1>3 DEF LedgerIInv, GiftsIInv, GiftsFit, GiftFits
<1>9. RefundsFit' /\ CashAgrees'
  BY <1>1 DEF LedgerIInv, RefundsFit, CashAgrees
<1>10. OverlapFits'
  <2> SUFFICES ASSUME NEW f \in EventIds, NEW j \in DOMAIN books[f].gifts,
                      books[f].gifts[j].amount > 0
               PROVE  Total(books[f].gifts[j].returned) + Total(UnderWay(bench', f, j))
                        <= books[f].gifts[j].amount + Excess
    BY <1>1 DEF OverlapFits
  <2>1. /\ bench \in [Clerks -> BenchEntry] /\ bench' \in [Clerks -> BenchEntry]
        /\ bench'[c] = entry /\ \A d \in Clerks \ {c} : bench'[d] = bench[d]
    BY <1>1, <1>2 DEF LedgerIInv, LedgerTypes
  <2>2. /\ Total(UnderWay(bench', f, j))
             = Total(UnderWay(bench, f, j)) + (Pending(entry, f, j) - Pending(bench[c], f, j))
        /\ Total(UnderWay(bench', f, j)) <= Pending(entry, f, j) + Excess
        /\ Excess \in Nat
    BY <2>1, UnderWayMoves
  <2>3. /\ Total(UnderWay(bench, f, j)) \in Nat /\ Pending(bench[c], f, j) \in Nat
        /\ Total(UnderWay(bench', f, j)) \in Nat
    BY <1>1, <1>2, <2>1, UnderWayTyped, PendingTyped
  <2>4. Total(books[f].gifts[j].returned) \in Int /\ books[f].gifts[j].amount \in Int /\ a \in Int
    BY LedgerAssumption, BookRowsTyped DEF LedgerIInv, LedgerTypes
  <2>5. CASE f = e /\ j = i /\ a > 0
    <3>1. Total(books[f].gifts[j].returned) + a <= books[f].gifts[j].amount
      BY <1>1, <2>5 DEF Returnable
    <3>2. Pending(entry, f, j) = a
      BY <1>2, <2>5 DEF Pending
    <3> QED BY <2>2, <2>3, <2>4, <3>1, <3>2
  <2>6. CASE ~ (f = e /\ j = i /\ a > 0)
    <3>1. Pending(entry, f, j) = 0
      BY <1>2, <2>6 DEF Pending
    <3>2. Total(books[f].gifts[j].returned) + Total(UnderWay(bench, f, j))
            <= books[f].gifts[j].amount + Excess
      BY DEF LedgerIInv, GiftsIInv, OverlapFits
    <3> QED BY <2>2, <2>3, <2>4, <3>1, <3>2
  <2> QED BY <2>5, <2>6
<1> QED BY <1>4, <1>6, <1>7, <1>8, <1>9, <1>10 DEF LedgerIInv, GiftsIInv

(* A contribution is entered under the next code: the ones before it, and  *)
(* what is under way against them, are as they were.                       *)
LEMMA CommitGiftKeeps ==
  ASSUME LedgerIInv, NEW c \in Clerks, CommitGift(c)
  PROVE  LedgerIInv'
<1> DEFINE e == bench[c].event
           a == bench[c].amount
           gift == [amount |-> a, returned |-> <<>>]
           after == [books[e] EXCEPT !.gifts = Append(@, gift)]
<1>1. e \in EventIds /\ a \in SponsorAmounts /\ a \in Int /\ books[e] \in Book
      /\ bench[c].kind = "gift"
  BY LedgerAssumption DEF LedgerIInv, LedgerTypes, BenchEntry, CommitGift
<1>2. after \in Book /\ LedgerClosing(after) = LedgerClosing(books[e]) + a
  BY <1>1, GiftMoves
<1>3. /\ books' = [books EXCEPT ![e] = after] /\ cash' = [cash EXCEPT ![e] = @ + a]
      /\ bench' = [bench EXCEPT ![c] = EmptyBench]
      /\ UNCHANGED <<stage, rushed, entries>>
  BY <1>1 DEF CommitGift, LedgerIInv, LedgerTypes
<1>4. after.flats = books[e].flats /\ after.gifts = Append(books[e].gifts, gift)
  BY <1>1 DEF Book
<1>5. /\ Len(books[e].gifts) \in Nat /\ DOMAIN books[e].gifts = 1..Len(books[e].gifts)
      /\ books[e].gifts \in Seq(Gift)
  BY <1>1, BookFields
<1>6. gift.amount = a /\ gift.returned = <<>>
  OBVIOUS
<1> HIDE DEF gift
<1>7. /\ DOMAIN after.gifts = 1..(Len(books[e].gifts) + 1)
      /\ after.gifts[Len(books[e].gifts) + 1] = gift
      /\ \A i \in DOMAIN books[e].gifts : i \in DOMAIN after.gifts /\ after.gifts[i] = books[e].gifts[i]
  BY <1>4, <1>5
<1> HIDE DEF e, a, after
<1>8. LedgerTypes' /\ CashAgrees'
  <2>0. a \in Int
    BY <1>1
  <2>1. /\ books' \in [EventIds -> Book] /\ cash' \in [EventIds -> Int] /\ CashAgrees'
    BY <2>0, <1>1, <1>2, <1>3, EntryBooked
  <2> QED BY <1>3, <2>1, BenchCleared DEF LedgerIInv, LedgerTypes
<1>9. RefundsFit'
  <2>1. \A f \in EventIds : books'[f].flats = books[f].flats
    BY <1>3, <1>4 DEF LedgerIInv, LedgerTypes
  <2> QED BY <2>1, FlatsFrame
<1>10. \A f \in EventIds : \A i \in DOMAIN books[f].gifts :
         i \in DOMAIN books'[f].gifts /\ books'[f].gifts[i] = books[f].gifts[i]
  BY <1>3, <1>7 DEF LedgerIInv, LedgerTypes
<1>11. \A d \in Clerks, f \in EventIds, i \in Nat :
         Returning(d, f, i)' => Returning(d, f, i) /\ bench'[d] = bench[d]
  BY <1>3, BenchCleared
<1>12. ReturnsFit' /\ ReturnsAlone'
  BY <1>3, <1>10, <1>11 DEF LedgerIInv, GiftsIInv, ReturnsFit, ReturnsAlone
<1>13. ASSUME NEW f \in EventIds, NEW i \in DOMAIN books'[f].gifts, i \notin DOMAIN books[f].gifts
       PROVE  books'[f].gifts[i] = gift
  <2>1. f = e
    BY <1>3, <1>13 DEF LedgerIInv, LedgerTypes
  <2>2. books'[f].gifts = after.gifts
    BY <1>1, <1>3, <2>1 DEF LedgerIInv, LedgerTypes
  <2>3. i = Len(books[e].gifts) + 1
    BY <1>5, <1>7, <1>13, <2>1, <2>2
  <2> QED BY <1>7, <2>2, <2>3
<1>14. GiftsFit'
  <2> SUFFICES ASSUME NEW f \in EventIds, NEW i \in DOMAIN books'[f].gifts
               PROVE  GiftFits(books'[f].gifts[i], <<f, i>> \notin rushed)
    BY <1>3 DEF GiftsFit
  <2>1. CASE i \in DOMAIN books[f].gifts
    BY <1>10, <2>1 DEF LedgerIInv, GiftsIInv, GiftsFit
  <2>2. CASE i \notin DOMAIN books[f].gifts
    BY <1>6, <1>13, <2>2 DEF GiftFits, NotOverReturned
  <2> QED BY <2>1, <2>2
<1>15. OverlapFits'
  <2> SUFFICES ASSUME NEW f \in EventIds, NEW i \in DOMAIN books'[f].gifts,
                      books'[f].gifts[i].amount > 0
               PROVE  Total(books'[f].gifts[i].returned) + Total(UnderWay(bench', f, i))
                        <= books'[f].gifts[i].amount + Excess
    BY DEF OverlapFits
  <2>0. EmptyBench \in BenchEntry /\ EmptyBench.kind # "return" /\ bench \in [Clerks -> BenchEntry]
    BY LedgerAssumption DEF EmptyBench, BenchEntry, EventIds, LedgerIInv, LedgerTypes
  <2>1. CASE i \in DOMAIN books[f].gifts
    BY <1>3, <1>10, <2>0, <2>1, OverlapKept
  <2>2. CASE i \notin DOMAIN books[f].gifts
    <3>1. books'[f].gifts[i].amount = a /\ books'[f].gifts[i].returned = <<>> /\ a > 0
      BY <1>6, <1>13, <2>2
    <3>2. i \in Nat
      BY <1>8, BookFields DEF LedgerTypes
    <3>3. \A d \in Clerks : ~ Returning(d, f, i)'
      BY <1>11, <2>2, <3>2 DEF LedgerIInv, GiftsIInv, ReturnsFit
    <3>4. \A d \in Clerks : Pending(bench'[d], f, i) = 0
      BY <3>3 DEF Returning, Pending
    <3>5. bench' \in [Clerks -> BenchEntry]
      BY <1>3, <2>0
    <3>6. Total(UnderWay(bench', f, i)) = 0
      BY <3>4, <3>5, UnderWayTyped, TotalType
    <3>7. Excess \in Nat
      BY <2>0, UnderWayMoves
    <3> QED BY <1>1, <3>1, <3>6, <3>7, TotalOfNone
  <2> QED BY <2>1, <2>2
<1> QED BY <1>8, <1>9, <1>12, <1>14, <1>15 DEF LedgerIInv, GiftsIInv

(* A return is committed: it fits unless the contribution was rushed, and  *)
(* no other is under way unless it was.                                    *)
LEMMA CommitReturnKeeps ==
  ASSUME LedgerIInv, NEW c \in Clerks, CommitReturn(c)
  PROVE  LedgerIInv'
<1> DEFINE e == bench[c].event
           i == bench[c].gift
           a == bench[c].amount
           after == [books[e] EXCEPT !.gifts[i].returned = Append(@, a)]
<1>1. e \in EventIds /\ i \in Nat /\ a \in Int /\ books[e] \in Book /\ Returning(c, e, i)
  BY LedgerAssumption DEF LedgerIInv, LedgerTypes, BenchEntry, CommitReturn, Returning
<1>2. /\ i \in DOMAIN books[e].gifts /\ books[e].gifts[i].amount # 0
      /\ <<e, i>> \notin rushed =>
           Total(books[e].gifts[i].returned) + a <= books[e].gifts[i].amount
  BY <1>1 DEF LedgerIInv, GiftsIInv, ReturnsFit
<1>3. after \in Book /\ LedgerClosing(after) = LedgerClosing(books[e]) - a
  BY <1>1, <1>2, ReturnMoves
<1>4. /\ books' = [books EXCEPT ![e] = after] /\ cash' = [cash EXCEPT ![e] = @ - a]
      /\ bench' = [bench EXCEPT ![c] = EmptyBench]
      /\ UNCHANGED <<stage, rushed, entries>>
  BY <1>1 DEF CommitReturn, LedgerIInv, LedgerTypes
<1>5. books[e].gifts[i] \in Gift /\ books[e].gifts[i].returned \in Seq(Int)
  BY <1>1, <1>2, BookRowsTyped DEF Gift
<1>6. /\ after.flats = books[e].flats
      /\ DOMAIN after.gifts = DOMAIN books[e].gifts
      /\ after.gifts[i].returned = Append(books[e].gifts[i].returned, a)
      /\ after.gifts[i].amount = books[e].gifts[i].amount
      /\ \A j \in DOMAIN books[e].gifts \ {i} : after.gifts[j] = books[e].gifts[j]
  BY <1>1, <1>2, <1>5, BookFields DEF Book, Gift
<1>7. Total(after.gifts[i].returned) = Total(books[e].gifts[i].returned) + a
  BY <1>1, <1>5, <1>6, TotalAppend
<1>8. \A d \in Clerks : Returning(d, e, i) /\ d # c => <<e, i>> \in rushed
  BY <1>1 DEF LedgerIInv, GiftsIInv, ReturnsAlone
<1> HIDE DEF e, i, a, after
<1>9. LedgerTypes' /\ CashAgrees'
  <2>0. -a \in Int
    BY <1>1
  <2>1. LedgerClosing(after) = LedgerClosing(books[e]) + (-a)
    BY <1>1, <1>3, SumsTyped DEF LedgerClosing
  <2>2. cash' = [cash EXCEPT ![e] = @ + (-a)]
    BY <1>1, <1>4 DEF LedgerIInv, LedgerTypes
  <2>3. /\ books' \in [EventIds -> Book] /\ cash' \in [EventIds -> Int] /\ CashAgrees'
    BY <1>1, <1>3, <1>4, <2>0, <2>1, <2>2, EntryBooked
  <2> QED BY <1>4, <2>3, BenchCleared DEF LedgerIInv, LedgerTypes
<1>10. RefundsFit'
  <2>1. \A f \in EventIds : books'[f].flats = books[f].flats
    BY <1>4, <1>6 DEF LedgerIInv, LedgerTypes
  <2> QED BY <2>1, FlatsFrame
<1>11. \A f \in EventIds :
         /\ DOMAIN books'[f].gifts = DOMAIN books[f].gifts
         /\ \A j \in DOMAIN books[f].gifts :
              <<f, j>> # <<e, i>> => books'[f].gifts[j] = books[f].gifts[j]
  BY <1>4, <1>6 DEF LedgerIInv, LedgerTypes
<1>12. \A d \in Clerks, f \in EventIds, j \in Nat :
         Returning(d, f, j)' => Returning(d, f, j) /\ d # c /\ bench'[d] = bench[d]
  BY <1>4, BenchCleared
<1>o. books'[e].gifts = after.gifts
  BY <1>1, <1>4 DEF LedgerIInv, LedgerTypes
<1>13. ReturnsFit' /\ ReturnsAlone'
  <2>1. ReturnsFit'
    <3> SUFFICES ASSUME NEW d \in Clerks, NEW f \in EventIds, NEW j \in Nat, Returning(d, f, j)'
                 PROVE  /\ j \in DOMAIN books'[f].gifts /\ books'[f].gifts[j].amount # 0
                        /\ <<f, j>> \notin rushed =>
                             Total(books'[f].gifts[j].returned) + bench'[d].amount
                               <= books'[f].gifts[j].amount
      BY <1>4 DEF ReturnsFit
    <3>1. Returning(d, f, j) /\ d # c /\ bench'[d] = bench[d]
      BY <1>12
    <3>2. j \in DOMAIN books[f].gifts /\ (<<f, j>> = <<e, i>> => <<f, j>> \in rushed)
      BY <1>8, <3>1 DEF LedgerIInv, GiftsIInv, ReturnsFit
    <3>3. /\ j \in DOMAIN books[f].gifts /\ books[f].gifts[j].amount # 0
          /\ <<f, j>> \notin rushed =>
               Total(books[f].gifts[j].returned) + bench[d].amount <= books[f].gifts[j].amount
      BY <3>1 DEF LedgerIInv, GiftsIInv, ReturnsFit
    <3>4. CASE <<f, j>> # <<e, i>>
      BY <1>11, <3>1, <3>3, <3>4
    <3>5. CASE f = e /\ j = i
      <4>1. DOMAIN books'[f].gifts = DOMAIN books[f].gifts
            /\ books'[f].gifts[j].amount = books[f].gifts[j].amount
        BY <1>o, <1>6, <3>5
      <4> QED BY <3>2, <3>3, <3>5, <4>1
    <3> QED BY <3>4, <3>5
  <2>2. ReturnsAlone'
    BY <1>4, <1>12 DEF LedgerIInv, GiftsIInv, ReturnsAlone
  <2> QED BY <2>1, <2>2
<1>14. GiftsFit'
  <2> SUFFICES ASSUME NEW f \in EventIds, NEW j \in DOMAIN books'[f].gifts
               PROVE  GiftFits(books'[f].gifts[j], <<f, j>> \notin rushed)
    BY <1>4 DEF GiftsFit
  <2>1. CASE <<f, j>> # <<e, i>>
    BY <1>11, <2>1 DEF LedgerIInv, GiftsIInv, GiftsFit
  <2>2. CASE f = e /\ j = i
    BY <1>o, <1>2, <1>6, <1>7, <2>2 DEF GiftFits, NotOverReturned
  <2> QED BY <2>1, <2>2
<1>15. OverlapFits'
  <2> SUFFICES ASSUME NEW f \in EventIds, NEW j \in DOMAIN books'[f].gifts,
                      books'[f].gifts[j].amount > 0
               PROVE  Total(books'[f].gifts[j].returned) + Total(UnderWay(bench', f, j))
                        <= books'[f].gifts[j].amount + Excess
    BY DEF OverlapFits
  <2>0. EmptyBench \in BenchEntry /\ EmptyBench.kind # "return" /\ bench \in [Clerks -> BenchEntry]
    BY LedgerAssumption DEF EmptyBench, BenchEntry, EventIds, LedgerIInv, LedgerTypes
  <2>1. CASE <<f, j>> # <<e, i>>
    BY <1>4, <1>11, <2>0, <2>1, OverlapKept
  <2>2. CASE f = e /\ j = i
    <3>0. /\ bench' \in [Clerks -> BenchEntry] /\ bench'[c] = EmptyBench
          /\ \A d \in Clerks \ {c} : bench'[d] = bench[d]
      BY <1>4, <2>0
    <3>1. /\ Total(UnderWay(bench', e, i))
               = Total(UnderWay(bench, e, i)) + (Pending(EmptyBench, e, i) - Pending(bench[c], e, i))
          /\ Excess \in Nat
      BY <2>0, <3>0, UnderWayMoves
    <3>2. Pending(EmptyBench, e, i) = 0 /\ Total(UnderWay(bench, e, i)) \in Nat
      BY <2>0, PendingTyped, UnderWayTyped
    <3>3. Pending(bench[c], e, i) \in Nat /\ a <= Pending(bench[c], e, i)
      BY <1>1, <2>0, PendingTyped DEF Returning, Pending, a
    <3>4. Total(books[e].gifts[i].returned) \in Int /\ books[e].gifts[i].amount \in Int
      BY <1>1, <1>2, BookRowsTyped
    <3>5. books[e].gifts[i].amount > 0
      BY <1>o, <1>6, <2>2
    <3>6. Total(books[e].gifts[i].returned) + Total(UnderWay(bench, e, i))
            <= books[e].gifts[i].amount + Excess
      BY <1>1, <1>2, <3>5 DEF LedgerIInv, GiftsIInv, OverlapFits
    <3>7. Total(books[e].gifts[i].returned) + a + Total(UnderWay(bench', e, i))
            <= books[e].gifts[i].amount + Excess
      BY <1>1, <3>1, <3>2, <3>3, <3>4, <3>6
    <3> QED BY <1>o, <1>6, <1>7, <2>2, <3>7
  <2> QED BY <2>1, <2>2
<1> QED BY <1>9, <1>10, <1>13, <1>14, <1>15 DEF LedgerIInv, GiftsIInv

(* An expense lowers the ledger's closing by what leaves the cash.          *)
LEMMA AddExpenseKeeps ==
  ASSUME LedgerIInv, NEW c \in Clerks, NEW e \in EventIds, NEW d \in DOMAIN TitleOf,
         NEW a \in Amounts, NEW r, AddExpense(c, e, d, a, r)
  PROVE  LedgerIInv'
<1> DEFINE after == [books[e] EXCEPT !.spent = Append(@, [for |-> d, amount |-> a])]
<1>1. a \in Nat /\ books[e] \in Book
  BY LedgerAssumption DEF LedgerIInv, LedgerTypes
<1>2. after \in Book /\ LedgerClosing(after) = LedgerClosing(books[e]) - a
  BY <1>1, ExpenseMoves
<1>3. /\ books' = [books EXCEPT ![e] = after] /\ cash' = [cash EXCEPT ![e] = @ - a]
      /\ UNCHANGED <<stage, bench, rushed>>
  BY DEF AddExpense, LedgerIInv, LedgerTypes
<1>4. after.flats = books[e].flats /\ after.gifts = books[e].gifts
  BY <1>1 DEF Book
<1> HIDE DEF after
<1>5. LedgerTypes' /\ CashAgrees'
  <2>0. -a \in Int
    BY <1>1
  <2>1. LedgerClosing(after) = LedgerClosing(books[e]) + (-a)
    BY <1>1, <1>2, SumsTyped DEF LedgerClosing
  <2>2. cash' = [cash EXCEPT ![e] = @ + (-a)]
    BY <1>1, <1>3 DEF LedgerIInv, LedgerTypes
  <2>3. /\ books' \in [EventIds -> Book] /\ cash' \in [EventIds -> Int] /\ CashAgrees'
    BY <1>1, <1>2, <1>3, <2>0, <2>1, <2>2, EntryBooked
  <2>4. entries' \in 0..MaxEntries
    BY LedgerAssumption DEF AddExpense, Entry, LedgerIInv, LedgerTypes
  <2> QED BY <1>3, <2>3, <2>4 DEF LedgerIInv, LedgerTypes
<1>6. \A f \in EventIds : books'[f].flats = books[f].flats /\ books'[f].gifts = books[f].gifts
  BY <1>3, <1>4 DEF LedgerIInv, LedgerTypes
<1>7. RefundsFit' /\ GiftsIInv'
  BY <1>3, <1>5, <1>6, FlatsFrame, GiftsFrame DEF LedgerTypes
<1> QED BY <1>5, <1>7 DEF LedgerIInv

(* A payment or a refund of a flat changes its account only; the refunds   *)
(* stay within what was paid.                                              *)
LEMMA AccountKeeps ==
  ASSUME LedgerIInv, NEW e \in EventIds, NEW f \in Flatlist, NEW account \in AccountRow,
         NEW delta \in Int, Total(account.refunds) <= account.paid,
         delta = (account.paid - books[e].flats[f].paid)
                   - (Total(account.refunds) - Total(books[e].flats[f].refunds)),
         books' = [books EXCEPT ![e].flats[f] = account],
         cash' = [cash EXCEPT ![e] = @ + delta],
         entries' \in 0..MaxEntries, UNCHANGED <<stage, bench, rushed>>
  PROVE  LedgerIInv'
<1> DEFINE after == [books[e] EXCEPT !.flats[f] = account]
<1>1. books[e] \in Book
  BY DEF LedgerIInv, LedgerTypes
<1>2. /\ after \in Book
      /\ LedgerClosing(after)
           = LedgerClosing(books[e]) + (account.paid - books[e].flats[f].paid)
               - (Total(account.refunds) - Total(books[e].flats[f].refunds))
  BY <1>1, AccountMoves
<1>3. books' = [books EXCEPT ![e] = after]
  BY DEF LedgerIInv, LedgerTypes
<1>4. /\ after.gifts = books[e].gifts /\ after.flats[f] = account
      /\ \A g \in Flatlist \ {f} : after.flats[g] = books[e].flats[g]
  BY <1>1, BookFields DEF Book
<1> HIDE DEF after
<1>5. LedgerTypes' /\ CashAgrees'
  <2>0. LedgerClosing(books[e]) \in Int
    BY <1>1, SumsTyped DEF LedgerClosing
  <2>1. /\ account.paid \in Nat /\ books[e].flats[f].paid \in Nat
        /\ Total(account.refunds) \in Nat /\ Total(books[e].flats[f].refunds) \in Nat
    BY <1>1, <1>2, <1>4, BookRowsTyped
  <2>2. LedgerClosing(after) = LedgerClosing(books[e]) + delta
    BY <1>2, <2>0, <2>1
  <2>3. /\ books' \in [EventIds -> Book] /\ cash' \in [EventIds -> Int] /\ CashAgrees'
    BY <1>2, <1>3, <2>2, EntryBooked
  <2> QED BY <2>3 DEF LedgerIInv, LedgerTypes
<1>6. GiftsIInv'
  <2>1. \A g \in EventIds : books'[g].gifts = books[g].gifts
    BY <1>3, <1>4 DEF LedgerIInv, LedgerTypes
  <2> QED BY <1>5, <2>1, GiftsFrame DEF LedgerTypes
<1>7. RefundsFit'
  <2> SUFFICES ASSUME NEW g \in EventIds, NEW h \in Flatlist
               PROVE  Total(books'[g].flats[h].refunds) <= books'[g].flats[h].paid
    BY DEF RefundsFit
  <2>1. CASE g = e /\ h = f
    BY <1>3, <1>4, <2>1 DEF LedgerIInv, LedgerTypes
  <2>2. CASE ~ (g = e /\ h = f)
    <3>1. books'[g].flats[h] = books[g].flats[h]
      BY <1>3, <1>4, <2>2 DEF LedgerIInv, LedgerTypes
    <3> QED BY <3>1 DEF LedgerIInv, RefundsFit
  <2> QED BY <2>1, <2>2
<1> QED BY <1>5, <1>6, <1>7 DEF LedgerIInv

(* A payment raises the closing by what enters the cash.                    *)
LEMMA PayFlatKeeps ==
  ASSUME LedgerIInv, NEW c \in Clerks, NEW e \in EventIds, NEW f \in Flatlist, NEW a \in Amounts,
         NEW r, PayFlat(c, e, f, a, r)
  PROVE  LedgerIInv'
<1> DEFINE before == books[e].flats[f]
           account == [before EXCEPT !.paid = @ + a]
<1>1. /\ before \in AccountRow /\ before.paid \in Nat /\ Total(before.refunds) \in Nat
      /\ Total(before.refunds) <= before.paid /\ a \in Nat
  BY LedgerAssumption, BookRowsTyped DEF LedgerIInv, LedgerTypes, RefundsFit
<1>2. /\ account \in AccountRow /\ account.paid = before.paid + a
      /\ account.refunds = before.refunds
  <2> DEFINE paid == before.paid + a
  <2>1. paid \in Nat
    BY <1>1
  <2> HIDE DEF before, paid
  <2>2. /\ [before EXCEPT !.paid = paid] \in AccountRow
        /\ [before EXCEPT !.paid = paid].paid = paid
        /\ [before EXCEPT !.paid = paid].refunds = before.refunds
    BY <1>1, <2>1 DEF AccountRow
  <2> QED BY <2>2 DEF paid
<1>3. /\ books' = [books EXCEPT ![e].flats[f] = account] /\ cash' = [cash EXCEPT ![e] = @ + a]
      /\ UNCHANGED <<stage, bench, rushed>>
  <2>1. books' = [books EXCEPT ![e].flats[f].paid = @ + a]
    BY DEF PayFlat
  <2> QED BY <2>1 DEF PayFlat, LedgerIInv, LedgerTypes, Book
<1>4. entries' \in 0..MaxEntries
  BY LedgerAssumption DEF PayFlat, Entry, LedgerIInv, LedgerTypes
<1> HIDE DEF account
<1>i. a \in Int
  BY <1>1
<1>5. /\ Total(account.refunds) <= account.paid
      /\ a = (account.paid - before.paid) - (Total(account.refunds) - Total(before.refunds))
  BY <1>1, <1>2
<1> QED BY <1>i, <1>2, <1>3, <1>4, <1>5, AccountKeeps

(* A refund was checked against the row it is written to, under its lock.   *)
LEMMA RefundFlatKeeps ==
  ASSUME LedgerIInv, NEW c \in Clerks, NEW e \in EventIds, NEW f \in Flatlist, NEW a \in Amounts,
         NEW r, RefundFlat(c, e, f, a, r)
  PROVE  LedgerIInv'
<1> DEFINE before == books[e].flats[f]
           account == [before EXCEPT !.refunds = Append(@, a)]
<1>1. /\ before \in AccountRow /\ before.paid \in Nat /\ before.refunds \in Seq(Nat)
      /\ Total(before.refunds) \in Nat /\ a \in Nat
  <2>1. /\ before \in AccountRow /\ before.paid \in Nat /\ Total(before.refunds) \in Nat
    BY BookRowsTyped DEF LedgerIInv, LedgerTypes
  <2> QED BY <2>1, LedgerAssumption DEF AccountRow
<1>2. /\ account.paid = before.paid /\ account.refunds = Append(before.refunds, a)
      /\ account \in AccountRow
  BY <1>1, TotalOfNaturals DEF AccountRow
<1>3. /\ books' = [books EXCEPT ![e].flats[f] = account] /\ cash' = [cash EXCEPT ![e] = @ - a]
      /\ UNCHANGED <<stage, bench, rushed>>
      /\ Total(before.refunds) + a <= before.paid
  <2>1. books' = [books EXCEPT ![e].flats[f].refunds = Append(@, a)]
    BY DEF RefundFlat
  <2> QED BY <2>1 DEF RefundFlat, LedgerIInv, LedgerTypes, Book
<1>4. entries' \in 0..MaxEntries
  BY LedgerAssumption DEF RefundFlat, Entry, LedgerIInv, LedgerTypes
<1> HIDE DEF account
<1>5. Total(account.refunds) = Total(before.refunds) + a
  <2>1. before.refunds \in Seq(Int) /\ a \in Int
    BY <1>1, TotalOfNaturals
  <2> QED BY <1>2, <2>1, TotalAppend
<1>6. /\ Total(account.refunds) <= account.paid
      /\ -a = (account.paid - before.paid) - (Total(account.refunds) - Total(before.refunds))
  BY <1>1, <1>2, <1>3, <1>5
<1>7. cash' = [cash EXCEPT ![e] = @ + (-a)]
  BY <1>1, <1>3 DEF LedgerIInv, LedgerTypes
<1>8. -a \in Int
  BY <1>1
<1> QED BY <1>1, <1>2, <1>3, <1>4, <1>6, <1>7, <1>8, AccountKeeps

(* Every clerk's step keeps the ledger's invariant.                         *)
LEMMA LedgerStep == LedgerIInv /\ [LedgerNext]_ledgerVars => LedgerIInv'
<1> SUFFICES ASSUME LedgerIInv, [LedgerNext]_ledgerVars PROVE LedgerIInv'
  OBVIOUS
<1>1. CASE UNCHANGED ledgerVars
  BY <1>1 DEF ledgerVars, LedgerIInv, LedgerTypes, GiftsIInv, ReturnsFit, ReturnsAlone, Returning,
     GiftsFit, OverlapFits, RefundsFit, CashAgrees
<1>2. ASSUME NEW c \in Clerks, Clerk(c)
      PROVE  LedgerIInv'
  BY <1>2, ReadGiftKeeps, CheckReturnKeeps, AddExpenseKeeps, PayFlatKeeps, RefundFlatKeeps,
     CommitGiftKeeps, CommitReturnKeeps, EndsWithoutCommit DEF Clerk
<1> QED BY <1>1, <1>2 DEF LedgerNext

-------------------------------------------------------------------------------
(***************************************************************************)
(* The reports agree in every state the clerks can reach.                  *)
(***************************************************************************)
LEMMA MaxOfTwo ==
  ASSUME NEW x \in Int, NEW y \in Int
  PROVE  Max({x, y}) = IF x >= y THEN x ELSE y
<1>1. \E m \in {x, y} : \A z \in {x, y} : m >= z
  OBVIOUS
<1>2. Max({x, y}) \in {x, y} /\ \A z \in {x, y} : Max({x, y}) >= z
  BY <1>1 DEF Max
<1> QED BY <1>2

(* The other reports' closings lie where the ledger's puts them.            *)
LEMMA ClosingsFollow ==
  ASSUME NEW b \in Book, NEW c \in Int, LedgerClosing(b) = c
  PROVE  /\ FinancialSummaryClosing(b) = c + ContributionRefunds(b)
         /\ EventSummaryClosing(b) = FinancialSummaryClosing(b)
         /\ PublicSummary(b).closing = FinancialSummaryClosing(b)
         /\ PublicSummary(b).income - PublicSummary(b).expenses = LedgerServiceClosing(b, 0)
         /\ PeriodLedgerClosing(b) = LedgerClosing(b) + ContributionRefunds(b)
         /\ SponsorContributions(b).total_cash = Total(SponsorWise(b))
<1>1. ContributionRefunds(b) = Sums(b).returned
  BY DEF ContributionRefunds, Sums
<1>2. /\ PublicSummary(b).closing = Sums(b).paid + Sums(b).given - Sums(b).spent - Sums(b).refunded
      /\ PublicSummary(b).income = Sums(b).paid + Sums(b).given
      /\ PublicSummary(b).expenses = Sums(b).spent + Sums(b).refunded
  BY DEF PublicSummary
<1>3. SponsorContributions(b).total_cash = Total(SponsorWise(b))
  BY DEF SponsorContributions, SponsorWise
<1> QED BY <1>1, <1>2, <1>3, SumsTyped
           DEF LedgerClosing, FinancialSummaryClosing, EventSummaryClosing, LedgerServiceClosing,
               PeriodLedgerClosing

(* The closing rows of the continuity report, which are summed as they go. *)
LEMMA ChainFollows ==
  ASSUME NEW n \in Nat, NEW chain \in [1..n -> Book]
  PROVE  \A e \in 1..n : LET row == ContinuityRows(chain)[e] IN
           row.closing - row.opening = FinancialSummaryClosing(chain[e])
<1> DEFINE P(g) == g = [i \in 0..n |->
                         IF i = 0 THEN 0
                         ELSE g[i - 1] + Sums(chain[i]).paid + Sums(chain[i]).given
                                - Sums(chain[i]).spent - Sums(chain[i]).refunded]
           step == [i \in 1..n |-> Sums(chain[i]).paid + Sums(chain[i]).given
                                     - Sums(chain[i]).spent - Sums(chain[i]).refunded]
           sum == [i \in 0..n |-> SumFunctionOnSet(step, 1..i)]
           closing == CHOOSE g : P(g)
<1>1. \A i \in 1..n : /\ Sums(chain[i]).paid \in Nat /\ Sums(chain[i]).given \in Int
                      /\ Sums(chain[i]).spent \in Nat /\ Sums(chain[i]).refunded \in Nat
                      /\ step[i] \in Int
  <2> SUFFICES ASSUME NEW i \in 1..n
               PROVE  /\ Sums(chain[i]).paid \in Nat /\ Sums(chain[i]).given \in Int
                      /\ Sums(chain[i]).spent \in Nat /\ Sums(chain[i]).refunded \in Nat
                      /\ step[i] \in Int
    OBVIOUS
  <2>1. chain[i] \in Book
    OBVIOUS
  <2> QED BY <2>1, SumsTyped
<1>2. \A i \in 0..n : sum[i] \in Int
  <2> SUFFICES ASSUME NEW i \in 0..n PROVE SumFunctionOnSet(step, 1..i) \in Int
    OBVIOUS
  <2>1. IsFiniteSet(1..i) /\ \A j \in 1..i : step[j] \in Int
    <3>1. i \in Nat /\ 1..i \subseteq 1..n
      OBVIOUS
    <3> HIDE DEF step
    <3> QED BY <1>1, <3>1, IntervalFinite
  <2> HIDE DEF step
  <2> QED BY <2>1, SumType
<1>3. sum[0] = 0
  <2>1. 1..0 = {}
    OBVIOUS
  <2> QED BY <2>1, SumOfNone
<1>4. ASSUME NEW i \in 1..n PROVE sum[i] = sum[i - 1] + step[i]
  <2> HIDE DEF step
  <2> DEFINE past == 1..(i - 1)
  <2>1. /\ IsFiniteSet(past) /\ 1..i = past \cup {i}
        /\ i \notin past /\ i - 1 \in 0..n /\ i \in 0..n
    <3>1. i - 1 \in Nat
      OBVIOUS
    <3> QED BY <3>1, IntervalFinite
  <2>2. \A j \in past \cup {i} : step[j] \in Int
    BY <1>1
  <2>3. sum[i] = SumFunctionOnSet(step, past \cup {i}) /\ sum[i - 1] = SumFunctionOnSet(step, past)
    BY <2>1
  <2> HIDE DEF past, sum
  <2>4. SumFunctionOnSet(step, past \cup {i}) = SumFunctionOnSet(step, past) + step[i]
    BY <2>1, <2>2, SumAdd
  <2> QED BY <2>3, <2>4
<1>5. P(sum)
  <2>1. DOMAIN sum = 0..n /\ sum = [i \in 0..n |-> sum[i]]
    OBVIOUS
  <2>2. ASSUME NEW i \in 0..n, i # 0
        PROVE  sum[i] = sum[i - 1] + Sums(chain[i]).paid + Sums(chain[i]).given
                                - Sums(chain[i]).spent - Sums(chain[i]).refunded
    <3>1. i \in 1..n /\ i - 1 \in 0..n
      BY <2>2
    <3>2. step[i] = Sums(chain[i]).paid + Sums(chain[i]).given
                                - Sums(chain[i]).spent - Sums(chain[i]).refunded
      BY <3>1
    <3>3. sum[i] = sum[i - 1] + step[i] /\ sum[i - 1] \in Int
      BY <1>2, <1>4, <3>1
    <3> HIDE DEF sum, step
    <3> QED BY <1>1, <3>1, <3>2, <3>3
  <2> HIDE DEF sum
  <2> QED BY <1>3, <2>1, <2>2
<1> HIDE DEF sum, step
<1>6. P(closing)
  BY <1>5
<1>7. ContinuityRows(chain) = [i \in 1..n |-> [opening |-> closing[i - 1], closing |-> closing[i]]]
  <2>1. Len(chain) = n /\ DOMAIN chain = 1..n
    OBVIOUS
  <2> QED BY <2>1 DEF ContinuityRows
<1> HIDE DEF closing
<1> DEFINE T == {i \in Nat : i <= n => closing[i] \in Int}
<1>8. 0 \in T
  BY <1>6
<1>9. ASSUME NEW i \in Nat, i \in T PROVE i + 1 \in T
  <2> SUFFICES ASSUME i + 1 <= n PROVE closing[i + 1] \in Int
    OBVIOUS
  <2>1. i + 1 \in 1..n /\ i + 1 \in 0..n /\ (i + 1) - 1 = i /\ i + 1 # 0 /\ closing[i] \in Int
    BY <1>9
  <2>2. closing[i + 1] = closing[i] + Sums(chain[i + 1]).paid + Sums(chain[i + 1]).given
                                - Sums(chain[i + 1]).spent - Sums(chain[i + 1]).refunded
    BY <1>6, <2>1
  <2> QED BY <1>1, <2>1, <2>2
<1> HIDE DEF T
<1>10. Nat \subseteq T
  BY <1>8, <1>9, SetInduction
<1>11. ASSUME NEW e \in 1..n
       PROVE  closing[e] - closing[e - 1] = FinancialSummaryClosing(chain[e])
  <2>1. e - 1 \in Nat /\ e - 1 <= n /\ e \in 0..n /\ e # 0
    OBVIOUS
  <2>2. closing[e - 1] \in Int
    BY <1>10, <2>1 DEF T
  <2>3. closing[e] = closing[e - 1] + Sums(chain[e]).paid + Sums(chain[e]).given
                                - Sums(chain[e]).spent - Sums(chain[e]).refunded
    BY <1>6, <2>1
  <2> QED BY <1>1, <2>2, <2>3 DEF FinancialSummaryClosing
<1> QED BY <1>7, <1>11

(* The sums of the blocks add up, whatever the blocks are.                 *)
LEMMA SumByPart ==
  ASSUME NEW fun, NEW part, NEW S, IsFiniteSet(S), \A x \in S : fun[x] \in Int,
         NEW K, IsFiniteSet(K)
  PROVE  LET Of(k) == {x \in S : part[x] = k}
             sums == [k \in K |-> SumFunctionOnSet(fun, Of(k))]
         IN  SumFunctionOnSet(sums, K) = SumFunctionOnSet(fun, {x \in S : part[x] \in K})
<1> DEFINE Of(k) == {x \in S : part[x] = k}
           In(L) == {x \in S : part[x] \in L}
           sums == [k \in K |-> SumFunctionOnSet(fun, Of(k))]
           N == {n \in Nat : \A L \in SUBSET K : Cardinality(L) = n =>
                               SumFunctionOnSet(sums, L) = SumFunctionOnSet(fun, In(L))}
<1>0. \A L \in SUBSET K : IsFiniteSet(L) /\ Cardinality(L) \in Nat
  BY FS_Subset, FS_CardinalityType
<1>s. \A T \in SUBSET S : IsFiniteSet(T) /\ SumFunctionOnSet(fun, T) \in Int
  BY FS_Subset, SumType
<1>k. \A k \in K : sums[k] = SumFunctionOnSet(fun, Of(k)) /\ sums[k] \in Int
  BY <1>s
<1> HIDE DEF sums
<1>1. 0 \in N
  <2> SUFFICES ASSUME NEW L \in SUBSET K, Cardinality(L) = 0
               PROVE  SumFunctionOnSet(sums, L) = SumFunctionOnSet(fun, In(L))
    BY DEF N
  <2>1. L = {}
    BY <1>0, FS_EmptySet
  <2>2. In(L) = {}
    BY <2>1
  <2> QED BY <2>1, <2>2, SumOfNone
<1>2. ASSUME NEW n \in Nat, n \in N
      PROVE  n + 1 \in N
  <2> SUFFICES ASSUME NEW L \in SUBSET K, Cardinality(L) = n + 1
               PROVE  SumFunctionOnSet(sums, L) = SumFunctionOnSet(fun, In(L))
    BY DEF N
  <2>1. PICK k \in L : TRUE
    BY FS_EmptySet
  <2> DEFINE M == L \ {k}
  <2>2. IsFiniteSet(L) /\ \A l \in L : sums[l] \in Int
    BY <1>0, <1>k
  <2>3. Cardinality(M) = Cardinality(L) - 1 /\ M \in SUBSET K
    BY <2>2, FS_RemoveElement
  <2>4. SumFunctionOnSet(sums, M) = SumFunctionOnSet(fun, In(M))
    BY <1>2, <2>3
  <2>5. SumFunctionOnSet(sums, L) = sums[k] + SumFunctionOnSet(sums, M)
    BY <2>2, SumRemove
  <2>6. In(L) = In(M) \cup Of(k) /\ In(M) \cap Of(k) = {}
    OBVIOUS
  <2>7. In(M) \in SUBSET S /\ Of(k) \in SUBSET S
    OBVIOUS
  <2> HIDE DEF In, Of, M
  <2>8. SumFunctionOnSet(fun, In(M) \cup Of(k))
          = SumFunctionOnSet(fun, In(M)) + SumFunctionOnSet(fun, Of(k))
    <3>1. IsFiniteSet(In(M)) /\ IsFiniteSet(Of(k)) /\ \A x \in In(M) \cup Of(k) : fun[x] \in Int
      BY <1>s, <2>7
    <3> QED BY <2>6, <3>1, SumOfParts
  <2>9. SumFunctionOnSet(fun, In(M)) \in Int /\ SumFunctionOnSet(fun, Of(k)) \in Int
        /\ sums[k] = SumFunctionOnSet(fun, Of(k))
    BY <1>s, <1>k, <2>7
  <2> QED BY <2>4, <2>5, <2>6, <2>8, <2>9
<1> HIDE DEF N
<1>3. Nat \subseteq N
  BY <1>1, <1>2, SetInduction
<1>4. SumFunctionOnSet(sums, K) = SumFunctionOnSet(fun, In(K))
  BY <1>0, <1>3 DEF N
<1> QED BY <1>4 DEF sums

(* A mapped sum is the sum of the amounts as a function.                   *)
LEMMA BlockContributionIs ==
  ASSUME NEW b \in Book, NEW k
  PROVE  BlockContribution(b, k) = SumFunctionOnSet(PaidBy(b.flats), FlatsOf(b, k))
<1> DEFINE S == FlatsOf(b, k)
           P(g) == g = [s \in SUBSET S |->
                          IF s = {} THEN 0 ELSE b.flats[One(s)].paid + g[s \ {One(s)}]]
           h == CHOOSE g : P(g)
<1>1. BlockContribution(b, k) = h[S]
  BY DEF BlockContribution, MapThenSumSet, MapThenFoldSet, One
<1>2. IsFiniteSet(S) /\ S \subseteq DOMAIN b.flats
  BY BookFields, FS_Subset DEF FlatsOf
<1> HIDE DEF S
<1>3. PICK g : Summed(g, PaidBy(b.flats), S) /\ SumFunctionOnSet(PaidBy(b.flats), S) = g[S]
  BY <1>2, SumIsSummed
<1>4. \A s \in SUBSET S : s # {} => PaidBy(b.flats)[One(s)] = b.flats[One(s)].paid
  BY <1>2 DEF PaidBy, One
<1>5. \A x : P(x) <=> Summed(x, PaidBy(b.flats), S)
  BY <1>4 DEF Summed
<1>6. P(h)
  BY <1>3, <1>5
<1> HIDE DEF P, h
<1>7. Summed(h, PaidBy(b.flats), S)
  BY <1>5, <1>6
<1> QED BY <1>1, <1>2, <1>3, <1>7, SummedAgree DEF S

(* What a description cost is the sum over its rows.                        *)
LEMMA SpentOnIs ==
  ASSUME NEW b \in Book, NEW d
  PROVE  SpentOn(b, d) = SumFunctionOnSet(SpentIn(b.spent), {i \in DOMAIN b.spent : b.spent[i].for = d})
<1> DEFINE S == {i \in DOMAIN b.spent : b.spent[i].for = d}
           P(g) == g = [s \in SUBSET S |->
                          IF s = {} THEN 0 ELSE b.spent[One(s)].amount + g[s \ {One(s)}]]
           h == CHOOSE g : P(g)
<1>1. SpentOn(b, d) = h[S]
  BY DEF SpentOn, MapThenSumSet, MapThenFoldSet, One
<1>2. IsFiniteSet(S) /\ S \subseteq DOMAIN b.spent
  BY BookFields, FS_Subset
<1> HIDE DEF S
<1>3. PICK g : Summed(g, SpentIn(b.spent), S) /\ SumFunctionOnSet(SpentIn(b.spent), S) = g[S]
  BY <1>2, SumIsSummed
<1>4. \A s \in SUBSET S : s # {} => SpentIn(b.spent)[One(s)] = b.spent[One(s)].amount
  BY <1>2 DEF SpentIn, One
<1>5. \A x : P(x) <=> Summed(x, SpentIn(b.spent), S)
  BY <1>4 DEF Summed
<1>6. P(h)
  BY <1>3, <1>5
<1> HIDE DEF P, h
<1>7. Summed(h, SpentIn(b.spent), S)
  BY <1>5, <1>6
<1> QED BY <1>1, <1>2, <1>3, <1>7, SummedAgree DEF S

(* Blocks, counted by either report, add up to the flats.                   *)
LEMMA BlocksFollow ==
  ASSUME NEW b \in Book
  PROVE  LET Blocks == {BlockOf[f] : f \in Flatlist} IN
         /\ Total([k \in Blocks |-> BlockContribution(b, k)]) = Sums(b).paid
         /\ \A k \in Blocks : BlockWise(b, k) = BlockPaymentRow(b, k).paid
<1> DEFINE Blocks == {BlockOf[f] : f \in Flatlist}
           block == [f \in Flatlist |-> BlockOf[f]]
           paid == PaidBy(b.flats)
           sums == [k \in Blocks |-> SumFunctionOnSet(paid, {f \in Flatlist : BlockOf[f] = k})]
<1>1. IsFiniteSet(Flatlist) /\ DOMAIN b.flats = Flatlist
  BY BookFields
<1>2. IsFiniteSet(Blocks)
  <2>1. block \in Surjection(Flatlist, Blocks)
    BY DEF Surjection
  <2> HIDE DEF block, Blocks
  <2> QED BY <1>1, <2>1, FS_Surjection
<1>3. \A f \in Flatlist : paid[f] \in Int
  BY <1>1, BookRowsTyped DEF PaidBy
<1>4. [k \in Blocks |-> BlockContribution(b, k)] = sums
  <2>1. \A k \in Blocks : FlatsOf(b, k) = {f \in Flatlist : BlockOf[f] = k}
    BY <1>1 DEF FlatsOf
  <2>2. \A k \in Blocks : BlockContribution(b, k) = sums[k]
    BY <2>1, BlockContributionIs
  <2> HIDE DEF Blocks
  <2> QED BY <2>2
<1>5. SumFunctionOnSet(sums, Blocks) = SumFunctionOnSet(paid, {f \in Flatlist : BlockOf[f] \in Blocks})
  <2> HIDE DEF paid, Blocks
  <2> QED BY <1>1, <1>2, <1>3, SumByPart
<1>6. {f \in Flatlist : BlockOf[f] \in Blocks} = Flatlist
  OBVIOUS
<1>7. Sums(b).paid = SumFunctionOnSet(paid, Flatlist)
  BY <1>1, SumsAre DEF Total, SumFunction, PaidBy
<1>8. Total([k \in Blocks |-> BlockContribution(b, k)]) = SumFunctionOnSet(sums, Blocks)
  BY <1>4 DEF Total, SumFunction
<1>9. \A k \in Blocks : BlockWise(b, k) = BlockPaymentRow(b, k).paid
  BY DEF BlockWise, BlockPaymentRow
<1> QED BY <1>5, <1>6, <1>7, <1>8, <1>9

(* The reports on a flat agree on who owes, as long as its refunds fit its  *)
(* payments.                                                                *)
LEMMA FlatsFollow ==
  ASSUME NEW b \in Book, NEW f \in Flatlist, Total(b.flats[f].refunds) <= b.flats[f].paid
  PROVE  /\ Len(b.flats[f].refunds) <= 1 => FlatPaymentRow(b, f).paid = b.flats[f].paid
         /\ f \in PendingFlats(b) <=> b.flats[f].joined /\ MyBalance(b, f) > 0
         /\ ReminderAmount(b, f) > 0 <=> f \in PendingFlats(b)
         /\ f \in PendingFlats(b) => f \in PendingPayments(b)
         /\ MyPaymentStatus(b, f) = "paid" => f \notin PendingPayments(b)
         /\ NetPaid(b, f) >= 0
         /\ f \in PendingFlats(b) => f \in Participation(b).participating
<1> DEFINE due == b.flats[f].due
           paid == b.flats[f].paid
           refunded == Total(b.flats[f].refunds)
<1>1. /\ due \in Nat /\ paid \in Nat /\ refunded \in Nat /\ f \in DOMAIN b.flats
      /\ b.flats[f].joined \in BOOLEAN /\ Len(b.flats[f].refunds) \in Nat
  <2>1. b.flats[f] \in AccountRow
    BY BookRowsTyped
  <2> QED BY <2>1, BookFields, BookRowsTyped DEF AccountRow
<1>2. Remaining(b, f) = due - paid - refunded /\ Remaining(b, f) \in Int
  BY <1>1 DEF Remaining
<1>3. (f \in PendingFlats(b)) <=> (b.flats[f].joined /\ due > 0 /\ Remaining(b, f) > 0)
  BY <1>1 DEF PendingFlats
<1>4. Remaining(b, f) > 0 => due > 0 /\ due > paid
  <2> HIDE DEF due, paid, refunded
  <2> QED BY <1>1, <1>2
<1>5. (MyBalance(b, f) > 0) <=> (Remaining(b, f) > 0)
  <2>1. 0 \in Int
    OBVIOUS
  <2>2. MyBalance(b, f) = IF 0 >= Remaining(b, f) THEN 0 ELSE Remaining(b, f)
    BY <1>2, <2>1, MaxOfTwo DEF MyBalance
  <2> QED BY <1>2, <2>2
<1>6. ReminderAmount(b, f) = IF b.flats[f].joined THEN MyBalance(b, f) ELSE 0
  BY DEF ReminderAmount, MyBalance
<1>7. (f \in PendingPayments(b)) <=> (due > paid)
  BY <1>1 DEF PendingPayments
<1>8. ASSUME Len(b.flats[f].refunds) <= 1
      PROVE  FlatPaymentRow(b, f).paid = paid
  <2>1. 1 \in Int /\ Len(b.flats[f].refunds) \in Int
    BY <1>1
  <2>2. Max({1, Len(b.flats[f].refunds)}) = 1
    BY <1>8, <2>1, MaxOfTwo
  <2> QED BY <1>1, <2>2 DEF FlatPaymentRow
<1>9. MyPaymentStatus(b, f) = "paid" => due <= paid
  BY DEF MyPaymentStatus
<1>10. NetPaid(b, f) >= 0
  BY <1>1 DEF NetPaid
<1>11. f \in Participation(b).participating <=> b.flats[f].joined
  BY <1>1 DEF Participation
<1> HIDE DEF due, paid, refunded
<1>12. /\ (f \in PendingFlats(b)) <=> (b.flats[f].joined /\ MyBalance(b, f) > 0)
       /\ (ReminderAmount(b, f) > 0) <=> (f \in PendingFlats(b))
       /\ f \in PendingFlats(b) => f \in PendingPayments(b)
       /\ f \in PendingFlats(b) => f \in Participation(b).participating
  BY <1>3, <1>4, <1>5, <1>6, <1>7, <1>11
<1>13. MyPaymentStatus(b, f) = "paid" => f \notin PendingPayments(b)
  BY <1>1, <1>7, <1>9
<1> QED BY <1>8, <1>10, <1>12, <1>13 DEF paid

(* No title is shown with more than was spent.                              *)
LEMMA ExpensesFollow ==
  ASSUME NEW b \in Book, NEW d, NEW shown \in ExpenseShown(b, TitleOf[d])
  PROVE  shown <= Sums(b).spent
<1>1. PICK t : shown = SpentOn(b, t)
  BY DEF ExpenseShown
<1> DEFINE part == {i \in DOMAIN b.spent : b.spent[i].for = t}
<1>2. IsFiniteSet(DOMAIN b.spent) /\ \A i \in DOMAIN b.spent : SpentIn(b.spent)[i] \in Nat
  BY BookFields, BookRowsTyped DEF SpentIn
<1>3. SumFunctionOnSet(SpentIn(b.spent), part) <= SumFunctionOnSet(SpentIn(b.spent), DOMAIN b.spent)
  BY <1>2, SumOfPart
<1>4. Sums(b).spent = SumFunctionOnSet(SpentIn(b.spent), DOMAIN b.spent)
  BY SumsAre DEF Total, SumFunction, SpentIn
<1> QED BY <1>1, <1>3, <1>4, SpentOnIs

(* The invariant of the ledger is enough for all reports to reconcile.      *)
LEMMA LedgerReconciles == LedgerIInv => ReportsReconcile
<1> SUFFICES ASSUME LedgerIInv PROVE ReportsReconcile
  OBVIOUS
<1>1. /\ \A e \in EventIds : books[e] \in Book /\ cash[e] \in Int /\ LedgerClosing(books[e]) = cash[e]
      /\ NumEvents \in Nat
  BY LedgerAssumption DEF LedgerIInv, LedgerTypes, CashAgrees
<1>2. ClosingsAgree
  BY <1>1, ClosingsFollow DEF ClosingsAgree
<1>3. ChainAgrees
  <2> DEFINE chain == [e \in EventIds |-> books[e]]
  <2>1. chain \in [1..NumEvents -> Book] /\ \A e \in EventIds : chain[e] = books[e]
    BY <1>1 DEF EventIds
  <2> HIDE DEF chain
  <2>2. \A e \in 1..NumEvents : LET row == ContinuityRows(chain)[e] IN
           row.closing - row.opening = FinancialSummaryClosing(chain[e])
    BY <1>1, <2>1, ChainFollows
  <2>3. \A e \in EventIds :
          ContinuityRows(chain)[e].closing - ContinuityRows(chain)[e].opening
            = FinancialSummaryClosing(books[e])
    BY <2>1, <2>2 DEF EventIds
  <2> QED BY <2>3 DEF ChainAgrees, chain
<1>4. FlatsAgree
  <2> SUFFICES ASSUME NEW e \in EventIds
               PROVE  LET b == books[e]
                          Blocks == {BlockOf[f] : f \in Flatlist}
                      IN
                      /\ Total([k \in Blocks |-> BlockContribution(b, k)]) = Sums(b).paid
                      /\ \A k \in Blocks : BlockWise(b, k) = BlockPaymentRow(b, k).paid
                      /\ \A f \in Flatlist :
                           /\ Len(b.flats[f].refunds) <= 1 =>
                                FlatPaymentRow(b, f).paid = b.flats[f].paid
                           /\ f \in PendingFlats(b) <=> b.flats[f].joined /\ MyBalance(b, f) > 0
                           /\ ReminderAmount(b, f) > 0 <=> f \in PendingFlats(b)
                           /\ f \in PendingFlats(b) => f \in PendingPayments(b)
                           /\ MyPaymentStatus(b, f) = "paid" => f \notin PendingPayments(b)
                           /\ NetPaid(b, f) >= 0
                           /\ f \in PendingFlats(b) => f \in Participation(b).participating
                      /\ \A d \in DOMAIN TitleOf :
                           \A shown \in ExpenseShown(b, TitleOf[d]) : shown <= Sums(b).spent
    BY DEF FlatsAgree
  <2>1. books[e] \in Book
    BY <1>1
  <2>2. \A f \in Flatlist : Total(books[e].flats[f].refunds) <= books[e].flats[f].paid
    BY DEF LedgerIInv, RefundsFit
  <2>3. \A d \in DOMAIN TitleOf :
          \A shown \in ExpenseShown(books[e], TitleOf[d]) : shown <= Sums(books[e]).spent
    BY <2>1, ExpensesFollow
  <2> QED BY <2>1, <2>2, <2>3, BlocksFollow, FlatsFollow
<1> QED BY <1>2, <1>3, <1>4 DEF ReportsReconcile

(* The types in the invariant are the module's.                             *)
LEMMA LedgerTyped == LedgerIInv => LedgerTypeOK
<1> SUFFICES ASSUME LedgerIInv PROVE LedgerTypeOK
  OBVIOUS
<1>1. ASSUME NEW e \in EventIds
      PROVE  /\ \A i \in DOMAIN books[e].gifts : books[e].gifts[i].amount \in SponsorAmounts
             /\ \A i \in DOMAIN books[e].spent : books[e].spent[i].for \in DOMAIN TitleOf
             /\ cash[e] \in Int
  <2>1. books[e] \in Book /\ cash[e] \in Int
    BY DEF LedgerIInv, LedgerTypes
  <2> QED BY <2>1, BookRowsTyped DEF Gift, Expense
<1>2. \A c \in Clerks : bench[c].kind \in {"none", "gift", "return"} /\ bench[c].event \in EventIds
  BY DEF LedgerIInv, LedgerTypes, BenchEntry
<1> QED BY <1>1, <1>2 DEF LedgerIInv, LedgerTypes, LedgerTypeOK
===============================================================================
