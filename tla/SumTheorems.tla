---------------------------- MODULE SumTheorems -----------------------------
(***************************************************************************)
(* Sums over finite sets, as SumFunctionOnSet of Functions defines them:   *)
(* what one more element adds, that a part is not more than the whole, and *)
(* that the order in which the elements are taken does not matter.         *)
(*                                                                         *)
(* Induction is stated for sets in place of predicates.                    *)
(***************************************************************************)
EXTENDS Integers, Functions, FiniteSetTheorems, WellFoundedInduction, TLAPS

LEMMA LeastNumber ==
  ASSUME NEW T, T \subseteq Nat, T # {}
  PROVE  \E x \in T : \A y \in T : x <= y
<1>1. IsWellFoundedOn({p \in Nat \X Nat : p[1] < p[2]}, Nat)
  BY NatLessThanWellFounded DEF OpToRel
<1>2. PICK x \in T : \A y \in T : ~(<<y, x>> \in {p \in Nat \X Nat : p[1] < p[2]})
  BY <1>1, WFMin
<1>3. \A y \in T : ~(y < x)
  BY <1>2
<1> QED BY <1>3

LEMMA NumbersByInduction ==
  ASSUME NEW T, 0 \in T, \A n \in Nat : n \in T => n + 1 \in T
  PROVE  Nat \subseteq T
<1> SUFFICES ASSUME NEW k \in Nat \ T PROVE FALSE
  OBVIOUS
<1>1. PICK x \in Nat \ T : \A y \in Nat \ T : x <= y
  BY LeastNumber
<1>2. x # 0 /\ x - 1 \in Nat /\ x - 1 \notin Nat \ T
  BY <1>1
<1> QED BY <1>2

LEMMA SubsetsByInduction ==
  ASSUME NEW S, IsFiniteSet(S), NEW P, {} \in P,
         \A T \in SUBSET S : T # {} /\ (\A x \in T : T \ {x} \in P) => T \in P
  PROVE  SUBSET S \subseteq P
<1> SUFFICES ASSUME NEW bad \in (SUBSET S) \ P PROVE FALSE
  OBVIOUS
<1> DEFINE Sizes == {Cardinality(T) : T \in (SUBSET S) \ P}
<1>1. \A T \in SUBSET S : IsFiniteSet(T) /\ Cardinality(T) \in Nat
  BY FS_Subset, FS_CardinalityType
<1>2. Sizes \subseteq Nat /\ Sizes # {}
  BY <1>1
<1>3. PICK n \in Sizes : \A m \in Sizes : n <= m
  <2> HIDE DEF Sizes
  <2> QED BY <1>2, LeastNumber
<1>4. PICK T \in (SUBSET S) \ P : Cardinality(T) = n
  OBVIOUS
<1>5. T # {}
  BY <1>4
<1>6. ASSUME NEW x \in T PROVE T \ {x} \in P
  <2>1. Cardinality(T \ {x}) = n - 1
    BY <1>1, <1>4, FS_RemoveElement
  <2>2. n \in Nat
    BY <1>1, <1>4
  <2>3. ~(n <= n - 1)
    BY <2>2
  <2> QED BY <1>3, <1>4, <2>1, <2>3
<1> QED BY <1>4, <1>5, <1>6

-----------------------------------------------------------------------------
(* The recursion that SumFunctionOnSet stands for *)

Some(s) == CHOOSE x \in s : TRUE

\* f adds the elements of s, Some element first.
Adds(v, f, s) == IF s = {} THEN 0 ELSE v[Some(s)] + f[s \ {Some(s)}]

LEMMA AdderExists ==
  ASSUME NEW v, NEW S, IsFiniteSet(S)
  PROVE  \E f : f = [s \in SUBSET S |-> Adds(v, f, s)]
<1> DEFINE Upto(n) == {s \in SUBSET S : Cardinality(s) <= n}
           T == {n \in Nat : \E f : f = [s \in Upto(n) |-> Adds(v, f, s)]}
<1>1. \A s \in SUBSET S : IsFiniteSet(s) /\ Cardinality(s) \in Nat
  BY FS_Subset, FS_CardinalityType
<1>2. 0 \in T
  <2>1. Upto(0) = {{}}
    BY <1>1, FS_EmptySet
  <2> DEFINE f == [s \in Upto(0) |-> 0]
  <2>2. f = [s \in Upto(0) |-> Adds(v, f, s)]
    BY <2>1 DEF Adds
  <2> QED BY <2>2
<1>3. ASSUME NEW n \in Nat, n \in T PROVE n + 1 \in T
  <2>1. PICK f : f = [s \in Upto(n) |-> Adds(v, f, s)]
    BY <1>3
  <2> DEFINE g == [s \in Upto(n + 1) |-> Adds(v, f, s)]
  <2>2. ASSUME NEW s \in Upto(n + 1) PROVE Adds(v, f, s) = Adds(v, g, s)
    <3>1. CASE s = {}
      BY <3>1 DEF Adds
    <3>2. CASE s # {}
      <4> DEFINE r == s \ {Some(s)}
      <4>1. Some(s) \in s
        BY <3>2 DEF Some
      <4>2. r \in SUBSET S /\ Cardinality(r) = Cardinality(s) - 1
        BY <1>1, <4>1, FS_RemoveElement
      <4>3. r \in Upto(n) /\ r \in Upto(n + 1)
        BY <1>1, <4>2
      <4> HIDE DEF r, Upto
      <4>4. f[r] = Adds(v, f, r) /\ g[r] = Adds(v, f, r)
        BY <2>1, <4>3
      <4> HIDE DEF g
      <4> QED BY <3>2, <4>4 DEF Adds, r
    <3> QED BY <3>1, <3>2
  <2>3. g = [s \in Upto(n + 1) |-> Adds(v, g, s)]
    BY <2>2
  <2> HIDE DEF g, Upto
  <2>4. \E h : h = [s \in Upto(n + 1) |-> Adds(v, h, s)]
    BY <2>3
  <2> QED BY <2>4
<1>4. Cardinality(S) \in Nat /\ Cardinality(S) \in T
  <2> HIDE DEF T
  <2> QED BY <1>1, <1>2, <1>3, NumbersByInduction
<1>5. Upto(Cardinality(S)) = SUBSET S
  BY FS_Subset
<1> QED BY <1>4, <1>5

LEMMA SumUnfolds ==
  ASSUME NEW v, NEW S, IsFiniteSet(S)
  PROVE  \E f : /\ f = [s \in SUBSET S |-> Adds(v, f, s)]
                /\ SumFunctionOnSet(v, S) = f[S]
<1> DEFINE f == CHOOSE f : f = [s \in SUBSET S |-> Adds(v, f, s)]
<1>1. f = [s \in SUBSET S |-> Adds(v, f, s)]
  BY AdderExists
<1>2. SumFunctionOnSet(v, S) = f[S]
  BY DEF SumFunctionOnSet, FoldFunctionOnSet, MapThenFoldSet, Adds, Some
<1> QED BY <1>1, <1>2

-----------------------------------------------------------------------------
(* The sum *)

LEMMA SumUnfoldsAtSome ==
  ASSUME NEW v, NEW S, IsFiniteSet(S), S # {}
  PROVE  SumFunctionOnSet(v, S) = v[Some(S)] + SumFunctionOnSet(v, S \ {Some(S)})
<1>1. PICK f : /\ f = [s \in SUBSET S |-> Adds(v, f, s)]
               /\ SumFunctionOnSet(v, S) = f[S]
  BY SumUnfolds
<1> DEFINE R == S \ {Some(S)}
<1>2. IsFiniteSet(R)
  BY FS_RemoveElement
<1>3. PICK g : /\ g = [s \in SUBSET R |-> Adds(v, g, s)]
               /\ SumFunctionOnSet(v, R) = g[R]
  BY <1>2, SumUnfolds
<1> DEFINE P == {s \in SUBSET R : f[s] = g[s]}
<1>4. ASSUME NEW s \in SUBSET R, s # {}, \A x \in s : s \ {x} \in P
      PROVE  s \in P
  <2>1. s \ {Some(s)} \in P
    BY <1>4 DEF Some
  <2>2. f[s] = Adds(v, f, s) /\ g[s] = Adds(v, g, s)
    BY <1>1, <1>3
  <2> QED BY <1>4, <2>1, <2>2 DEF Adds
<1>5. {} \in P
  BY <1>1, <1>3 DEF Adds
<1>6. R \in P
  <2> HIDE DEF P
  <2> QED BY <1>2, <1>4, <1>5, SubsetsByInduction
<1> QED BY <1>1, <1>3, <1>6 DEF Adds

LEMMA SumOfNothing == \A v : SumFunctionOnSet(v, {}) = 0
<1> SUFFICES ASSUME NEW v PROVE SumFunctionOnSet(v, {}) = 0
  OBVIOUS
<1>1. PICK f : /\ f = [s \in SUBSET {} |-> Adds(v, f, s)]
               /\ SumFunctionOnSet(v, {}) = f[{}]
  BY FS_EmptySet, SumUnfolds
<1> QED BY <1>1 DEF Adds

LEMMA SumIsNat ==
  ASSUME NEW S, IsFiniteSet(S), NEW v, \A x \in S : v[x] \in Nat
  PROVE  SumFunctionOnSet(v, S) \in Nat
<1> DEFINE P == {s \in SUBSET S : SumFunctionOnSet(v, s) \in Nat}
<1>1. {} \in P
  BY SumOfNothing
<1>2. ASSUME NEW s \in SUBSET S, s # {}, \A x \in s : s \ {x} \in P
      PROVE  s \in P
  <2>1. Some(s) \in s /\ IsFiniteSet(s)
    BY <1>2, FS_Subset DEF Some
  <2>2. SumFunctionOnSet(v, s) = v[Some(s)] + SumFunctionOnSet(v, s \ {Some(s)})
    BY <1>2, <2>1, SumUnfoldsAtSome
  <2>3. v[Some(s)] \in Nat /\ SumFunctionOnSet(v, s \ {Some(s)}) \in Nat
    BY <1>2, <2>1
  <2> QED BY <2>2, <2>3
<1>3. S \in P
  <2> HIDE DEF P
  <2> QED BY <1>1, <1>2, SubsetsByInduction
<1> QED BY <1>3

\* Whichever element is taken out first.
LEMMA SumWithout ==
  ASSUME NEW S, IsFiniteSet(S), NEW v, \A x \in S : v[x] \in Nat
  PROVE  \A x \in S :
           SumFunctionOnSet(v, S) = v[x] + SumFunctionOnSet(v, S \ {x})
<1> DEFINE Sum(s) == SumFunctionOnSet(v, s)
           P == {s \in SUBSET S : \A x \in s : Sum(s) = v[x] + Sum(s \ {x})}
<1>1. {} \in P
  OBVIOUS
<1>2. ASSUME NEW s \in SUBSET S, s # {}, \A x \in s : s \ {x} \in P
      PROVE  s \in P
  <2> SUFFICES ASSUME NEW x \in s PROVE Sum(s) = v[x] + Sum(s \ {x})
    OBVIOUS
  <2> DEFINE c == Some(s)
  <2>1. c \in s /\ IsFiniteSet(s)
    BY FS_Subset DEF Some
  <2>2. Sum(s) = v[c] + Sum(s \ {c})
    BY <2>1, SumUnfoldsAtSome
  <2> HIDE DEF c
  <2>3. CASE x # c
    <3>1. Sum(s \ {c}) = v[x] + Sum((s \ {c}) \ {x})
      BY <1>2, <2>1, <2>3
    <3>2. Sum(s \ {x}) = v[c] + Sum((s \ {x}) \ {c})
      BY <1>2, <2>1, <2>3
    <3>3. (s \ {c}) \ {x} = (s \ {x}) \ {c}
      OBVIOUS
    <3>4. v[x] \in Nat /\ v[c] \in Nat /\ Sum((s \ {c}) \ {x}) \in Nat
      BY <2>1, SumIsNat, FS_Subset
    <3> HIDE DEF Sum
    <3> QED BY <2>2, <3>1, <3>2, <3>3, <3>4
  <2> QED BY <2>2, <2>3
<1>3. S \in P
  <2> HIDE DEF P
  <2> QED BY <1>1, <1>2, SubsetsByInduction
<1> QED BY <1>3

LEMMA SumWith ==
  ASSUME NEW S, IsFiniteSet(S), NEW x, x \notin S, NEW v,
         \A y \in S \cup {x} : v[y] \in Nat
  PROVE  SumFunctionOnSet(v, S \cup {x}) = SumFunctionOnSet(v, S) + v[x]
<1>1. IsFiniteSet(S \cup {x}) /\ (S \cup {x}) \ {x} = S
  BY FS_AddElement
<1>2. SumFunctionOnSet(v, S \cup {x}) = v[x] + SumFunctionOnSet(v, S)
  BY <1>1, SumWithout
<1>3. SumFunctionOnSet(v, S) \in Nat
  BY SumIsNat
<1> QED BY <1>2, <1>3

\* A part is no more than the whole, also where the whole weighs more, and the
\* parts of the one are told apart in the other.
LEMMA SumInto ==
  ASSUME NEW S, IsFiniteSet(S), NEW T, IsFiniteSet(T), NEW v, NEW w,
         \A x \in S : v[x] \in Nat, \A y \in T : w[y] \in Nat,
         NEW f \in [S -> T],
         \A x, y \in S : f[x] = f[y] => x = y,
         \A x \in S : v[x] <= w[f[x]]
  PROVE  SumFunctionOnSet(v, S) <= SumFunctionOnSet(w, T)
<1> DEFINE Img(s) == {f[x] : x \in s}
           P == {s \in SUBSET S :
                   \A t \in SUBSET T : Img(s) \subseteq t =>
                     SumFunctionOnSet(v, s) <= SumFunctionOnSet(w, t)}
<1>1. {} \in P
  <2>1. \A t \in SUBSET T : SumFunctionOnSet(w, t) \in Nat
    BY SumIsNat, FS_Subset
  <2> QED BY <2>1, SumOfNothing
<1>2. ASSUME NEW s \in SUBSET S, s # {}, \A x \in s : s \ {x} \in P
      PROVE  s \in P
  <2> SUFFICES ASSUME NEW t \in SUBSET T, Img(s) \subseteq t
               PROVE  SumFunctionOnSet(v, s) <= SumFunctionOnSet(w, t)
    OBVIOUS
  <2>1. PICK x \in s : TRUE
    BY <1>2
  <2>2. f[x] \in t /\ Img(s \ {x}) \subseteq t \ {f[x]} /\ t \ {f[x]} \in SUBSET T
    OBVIOUS
  <2>3. SumFunctionOnSet(v, s \ {x}) <= SumFunctionOnSet(w, t \ {f[x]})
    BY <1>2, <2>2
  <2>4. IsFiniteSet(s) /\ IsFiniteSet(t)
    BY FS_Subset
  <2>5. /\ SumFunctionOnSet(v, s) = v[x] + SumFunctionOnSet(v, s \ {x})
        /\ SumFunctionOnSet(w, t) = w[f[x]] + SumFunctionOnSet(w, t \ {f[x]})
    BY <2>2, <2>4, SumWithout
  <2>6. /\ SumFunctionOnSet(v, s \ {x}) \in Nat
        /\ SumFunctionOnSet(w, t \ {f[x]}) \in Nat
        /\ v[x] \in Nat /\ w[f[x]] \in Nat /\ v[x] <= w[f[x]]
    BY <2>2, <2>4, SumIsNat, FS_Subset
  <2> QED BY <2>3, <2>5, <2>6
<1>3. S \in P
  <2> HIDE DEF P
  <2> QED BY <1>1, <1>2, SubsetsByInduction
<1> QED BY <1>3

LEMMA SumOfPart ==
  ASSUME NEW T, IsFiniteSet(T), NEW S \in SUBSET T, NEW v, NEW w,
         \A x \in S : v[x] \in Nat, \A y \in T : w[y] \in Nat,
         \A x \in S : v[x] <= w[x]
  PROVE  SumFunctionOnSet(v, S) <= SumFunctionOnSet(w, T)
<1> DEFINE f == [x \in S |-> x]
<1>1. f \in [S -> T] /\ IsFiniteSet(S)
  BY FS_Subset
<1>2. /\ \A x, y \in S : f[x] = f[y] => x = y
      /\ \A x \in S : v[x] <= w[f[x]]
  OBVIOUS
<1> HIDE DEF f
<1> QED BY <1>1, <1>2, SumInto

\* Only the weights of the elements count.
LEMMA SameSum ==
  ASSUME NEW S, IsFiniteSet(S), NEW v, NEW w,
         \A x \in S : v[x] \in Nat /\ v[x] = w[x]
  PROVE  SumFunctionOnSet(v, S) = SumFunctionOnSet(w, S)
<1>1. /\ SumFunctionOnSet(v, S) <= SumFunctionOnSet(w, S)
      /\ SumFunctionOnSet(w, S) <= SumFunctionOnSet(v, S)
  BY SumOfPart
<1>2. SumFunctionOnSet(v, S) \in Nat /\ SumFunctionOnSet(w, S) \in Nat
  BY SumIsNat
<1> QED BY <1>1, <1>2

\* Two sums of integers over a set add up to the sum of the sums.
LEMMA SumOfSums ==
  ASSUME NEW S, IsFiniteSet(S), NEW u, NEW v, NEW w,
         \A x \in S : u[x] \in Int /\ v[x] \in Int /\ w[x] = u[x] + v[x]
  PROVE  /\ SumFunctionOnSet(u, S) \in Int /\ SumFunctionOnSet(v, S) \in Int
         /\ SumFunctionOnSet(w, S) = SumFunctionOnSet(u, S) + SumFunctionOnSet(v, S)
<1> DEFINE OK(s) == /\ SumFunctionOnSet(u, s) \in Int /\ SumFunctionOnSet(v, s) \in Int
                    /\ SumFunctionOnSet(w, s) = SumFunctionOnSet(u, s) + SumFunctionOnSet(v, s)
           P == {s \in SUBSET S : OK(s)}
<1>1. {} \in P
  BY SumOfNothing
<1>2. ASSUME NEW s \in SUBSET S, s # {}, \A x \in s : s \ {x} \in P
      PROVE  s \in P
  <2>1. IsFiniteSet(s) /\ Some(s) \in s
    BY <1>2, FS_Subset DEF Some
  <2>2. /\ SumFunctionOnSet(u, s) = u[Some(s)] + SumFunctionOnSet(u, s \ {Some(s)})
        /\ SumFunctionOnSet(v, s) = v[Some(s)] + SumFunctionOnSet(v, s \ {Some(s)})
        /\ SumFunctionOnSet(w, s) = w[Some(s)] + SumFunctionOnSet(w, s \ {Some(s)})
    BY <1>2, <2>1, SumUnfoldsAtSome
  <2>3. OK(s \ {Some(s)})
    BY <1>2, <2>1
  <2>4. u[Some(s)] \in Int /\ v[Some(s)] \in Int /\ w[Some(s)] = u[Some(s)] + v[Some(s)]
    BY <2>1
  <2>5. OK(s)
    BY <2>2, <2>3, <2>4
  <2> QED
    BY <2>5
<1> HIDE DEF OK
<1>3. S \in P
  <2> HIDE DEF P
  <2> QED
    BY <1>1, <1>2, SubsetsByInduction
<1> QED
  BY <1>3 DEF OK
=============================================================================
