------------------------------ MODULE SumTheorems ------------------------------
(***************************************************************************)
(* Facts about the sums of the community modules (SumFunctionOnSet), for   *)
(* any finite set of indices and any integer-valued function.              *)
(*                                                                         *)
(* The sum is a recursive function over the subsets of its indices. That   *)
(* it exists, and every fact about it, is an induction on the number of    *)
(* indices. The induction theorems of the library take an operator; the    *)
(* least element of a set of counterexamples, Smallest, needs none.        *)
(***************************************************************************)
EXTENDS Functions, FiniteSetTheorems, WellFoundedInduction, TLAPS

(* A set of natural numbers has a least element.                           *)
LEMMA Smallest ==
    ASSUME NEW T \in SUBSET Nat, T # {}
    PROVE  \E n \in T : \A m \in T : n <= m
<1>1. IsWellFoundedOn(OpToRel(<, Nat), Nat)
    BY NatLessThanWellFounded
<1>2. PICK n \in T : \A m \in T : ~ (<<m, n>> \in OpToRel(<, Nat))
    BY <1>1, WFMin
<1>3. \A m \in T : ~ (m < n)
    BY <1>2 DEF OpToRel
<1>4. n \in Nat /\ \A m \in T : m \in Nat
    OBVIOUS
<1>5. \A m \in T : n <= m
    BY <1>3, <1>4
<1>. QED BY <1>5

(* A set of natural numbers without 0 that contains the predecessor of each *)
(* of its elements is empty: induction, for a set of counterexamples.      *)
LEMMA NoCounterexample ==
    ASSUME NEW T \in SUBSET Nat, 0 \notin T, \A n \in Nat : n + 1 \in T => n \in T
    PROVE  T = {}
<1> SUFFICES ASSUME T # {} PROVE FALSE
    OBVIOUS
<1>1. PICK n \in T : \A m \in T : n <= m
    BY Smallest
<1>2. n \in Nat /\ n # 0
    OBVIOUS
<1>3. n - 1 \in Nat /\ (n - 1) + 1 = n
    BY <1>2
<1>4. n - 1 \in T
    BY <1>3
<1>. QED BY <1>1, <1>2, <1>4

--------------------------------------------------------------------------------
(* The recursion of the sum, element by element.                           *)
Picked(s) == CHOOSE x \in s : TRUE

SumOf(g, f, s) == IF s = {} THEN 0 ELSE f[Picked(s)] + g[s \ {Picked(s)}]

Iterates(g, f, S) == g = [s \in SUBSET S |-> SumOf(g, f, s)]

Integral(f, S) == IsFiniteSet(S) /\ \A x \in S : f[x] \in Int

(* The community operator is the value of that recursive function.         *)
LEMMA SumIsIterated ==
    ASSUME NEW f, NEW S
    PROVE  SumFunctionOnSet(f, S) = (CHOOSE g : Iterates(g, f, S))[S]
BY DEF SumFunctionOnSet, FoldFunctionOnSet, MapThenFoldSet, Iterates, SumOf, Picked

(* A non-empty set loses its picked element.                               *)
LEMMA PickedIsIn ==
    ASSUME NEW s, IsFiniteSet(s), s # {}
    PROVE  /\ Picked(s) \in s /\ IsFiniteSet(s \ {Picked(s)})
           /\ Cardinality(s) \in Nat \ {0}
           /\ Cardinality(s \ {Picked(s)}) = Cardinality(s) - 1
<1>1. Picked(s) \in s
    BY DEF Picked
<1>. QED BY <1>1, FS_RemoveElement, FS_CardinalityType, FS_EmptySet

(* The recursive function exists.                                          *)
LEMMA IterExists ==
    ASSUME NEW f, NEW S, Integral(f, S)
    PROVE  \E g \in [SUBSET S -> Int] : Iterates(g, f, S)
<1>0. \A s \in SUBSET S : IsFiniteSet(s) /\ Cardinality(s) \in Nat /\ Cardinality(s) <= Cardinality(S)
    BY FS_Subset, FS_CardinalityType DEF Integral
<1> DEFINE Upto(g, n) == \A s \in SUBSET S : Cardinality(s) <= n => g[s] = SumOf(g, f, s)
           Bad == {n \in Nat : ~ \E g \in [SUBSET S -> Int] : Upto(g, n)}
<1>1. 0 \notin Bad
    <2> DEFINE g == [s \in SUBSET S |-> 0]
    <2>1. g \in [SUBSET S -> Int]
        OBVIOUS
    <2>2. ASSUME NEW s \in SUBSET S, Cardinality(s) <= 0 PROVE g[s] = SumOf(g, f, s)
        <3>1. s = {}
            BY <1>0, <2>2, FS_EmptySet
        <3>. QED BY <3>1 DEF SumOf
    <2>3. Upto(g, 0)
        BY <2>2
    <2>. QED BY <2>1, <2>3
<1>2. ASSUME NEW n \in Nat, n \notin Bad PROVE n + 1 \notin Bad
    <2>1. PICK g \in [SUBSET S -> Int] : Upto(g, n)
        BY <1>2
    <2> DEFINE h == [s \in SUBSET S |-> IF Cardinality(s) = n + 1 THEN SumOf(g, f, s) ELSE g[s]]
    <2>2. ASSUME NEW s \in SUBSET S, s # {}
          PROVE  /\ Picked(s) \in S /\ s \ {Picked(s)} \in SUBSET S
                 /\ Cardinality(s \ {Picked(s)}) = Cardinality(s) - 1
        BY <1>0, <2>2, PickedIsIn
    <2>3. \A s \in SUBSET S : SumOf(g, f, s) \in Int
        <3>1. ASSUME NEW s \in SUBSET S, s # {} PROVE f[Picked(s)] + g[s \ {Picked(s)}] \in Int
            <4>1. f[Picked(s)] \in Int /\ g[s \ {Picked(s)}] \in Int
                BY <2>2, <3>1 DEF Integral
            <4>. QED BY <4>1
        <3>. QED BY <3>1 DEF SumOf
    <2>4. h \in [SUBSET S -> Int]
        BY <2>3
    <2>5. ASSUME NEW s \in SUBSET S, Cardinality(s) <= n + 1 PROVE h[s] = SumOf(h, f, s)
        <3>1. CASE s = {}
            <4>1. Cardinality(s) = 0 /\ h[s] = g[s]
                BY <3>1, FS_EmptySet
            <4>2. g[s] = SumOf(g, f, s)
                BY <2>1, <4>1
            <4>. QED BY <3>1, <4>1, <4>2 DEF SumOf
        <3>2. CASE s # {}
            <4>1. h[s \ {Picked(s)}] = g[s \ {Picked(s)}]
                BY <1>0, <2>2, <2>5, <3>2
            <4>2. SumOf(h, f, s) = SumOf(g, f, s)
                BY <4>1, <3>2 DEF SumOf
            <4>3. h[s] = SumOf(g, f, s)
                BY <1>0, <2>1, <2>5
            <4>. QED BY <4>2, <4>3
        <3>. QED BY <3>1, <3>2
    <2>6. Upto(h, n + 1)
        BY <2>5
    <2>. QED BY <2>4, <2>6
<1>3. Bad = {}
    <2>1. Bad \in SUBSET Nat
        OBVIOUS
    <2> HIDE DEF Bad
    <2>. QED BY <1>1, <1>2, <2>1, NoCounterexample
<1>4. PICK g \in [SUBSET S -> Int] : Upto(g, Cardinality(S))
    BY <1>0, <1>3
<1>5. \A s \in SUBSET S : g[s] = SumOf(g, f, s)
    BY <1>0, <1>4
<1>. QED BY <1>5 DEF Iterates

(* Two such functions agree wherever both are defined and their summands    *)
(* agree.                                                                  *)
LEMMA IterUnique ==
    ASSUME NEW e, NEW f, NEW S, NEW T \in SUBSET S, IsFiniteSet(S), NEW g, NEW h,
           Iterates(g, e, S), Iterates(h, f, T), \A x \in T : e[x] = f[x]
    PROVE  \A s \in SUBSET T : g[s] = h[s]
<1>0. \A s \in SUBSET T : IsFiniteSet(s) /\ Cardinality(s) \in Nat
    BY FS_Subset, FS_CardinalityType
<1> DEFINE Bad == {n \in Nat : \E s \in SUBSET T : Cardinality(s) = n /\ g[s] # h[s]}
<1>1. \A s \in SUBSET T : g[s] = SumOf(g, e, s) /\ h[s] = SumOf(h, f, s)
    BY DEF Iterates
<1>2. 0 \notin Bad
    BY <1>0, <1>1, FS_EmptySet DEF SumOf
<1>3. ASSUME NEW n \in Nat, n + 1 \in Bad PROVE n \in Bad
    <2>1. PICK s \in SUBSET T : Cardinality(s) = n + 1 /\ g[s] # h[s]
        BY <1>3
    <2>2. s # {} /\ IsFiniteSet(s)
        BY <1>0, <1>1, <2>1 DEF SumOf
    <2>3. Picked(s) \in T /\ s \ {Picked(s)} \in SUBSET T /\ Cardinality(s \ {Picked(s)}) = n
        <3>1. Picked(s) \in s /\ Cardinality(s \ {Picked(s)}) = Cardinality(s) - 1
            BY <2>2, PickedIsIn
        <3>. QED BY <2>1, <3>1
    <2>4. g[s \ {Picked(s)}] # h[s \ {Picked(s)}]
        BY <1>1, <2>1, <2>2, <2>3 DEF SumOf
    <2>. QED BY <2>3, <2>4
<1>4. Bad = {}
    <2>1. Bad \in SUBSET Nat
        OBVIOUS
    <2> HIDE DEF Bad
    <2>. QED BY <1>2, <1>3, <2>1, NoCounterexample
<1>. QED BY <1>0, <1>4

(* The sum over a set is the value of any function of the recursion, on any*)
(* larger set.                                                             *)
LEMMA SumIsValue ==
    ASSUME NEW f, NEW S, NEW T \in SUBSET S, Integral(f, S), NEW g, Iterates(g, f, S)
    PROVE  SumFunctionOnSet(f, T) = g[T]
<1>1. Integral(f, T)
    BY FS_Subset DEF Integral
<1>2. PICK h : h = CHOOSE k : Iterates(k, f, T)
    OBVIOUS
<1>3. Iterates(h, f, T)
    BY <1>1, <1>2, IterExists
<1>4. g[T] = h[T]
    BY <1>3, IterUnique DEF Integral
<1>. QED BY <1>2, <1>4, SumIsIterated

(* Nothing sums to zero, and the sum is an integer.                        *)
LEMMA SumEmpty == \A f : SumFunctionOnSet(f, {}) = 0
<1> SUFFICES ASSUME NEW f PROVE SumFunctionOnSet(f, {}) = 0
    OBVIOUS
<1>1. Integral(f, {})
    BY FS_EmptySet DEF Integral
<1>2. PICK g : Iterates(g, f, {})
    BY <1>1, IterExists
<1>3. SumFunctionOnSet(f, {}) = g[{}]
    BY <1>1, <1>2, SumIsValue
<1>. QED BY <1>2, <1>3 DEF Iterates, SumOf

LEMMA SumType ==
    ASSUME NEW f, NEW S, Integral(f, S)
    PROVE  SumFunctionOnSet(f, S) \in Int
<1>1. PICK g \in [SUBSET S -> Int] : Iterates(g, f, S)
    BY IterExists
<1>2. SumFunctionOnSet(f, S) = g[S]
    BY <1>1, SumIsValue
<1>. QED BY <1>2

(* Functions that agree on the indices have the same sum.                  *)
LEMMA SumSame ==
    ASSUME NEW e, NEW f, NEW S, Integral(e, S), \A x \in S : e[x] = f[x]
    PROVE  SumFunctionOnSet(e, S) = SumFunctionOnSet(f, S)
<1>1. Integral(f, S)
    BY DEF Integral
<1>2. PICK g : Iterates(g, e, S)
    BY IterExists
<1>3. PICK h : Iterates(h, f, S)
    BY <1>1, IterExists
<1>4. g[S] = h[S]
    BY <1>2, <1>3, IterUnique DEF Integral
<1>. QED BY <1>1, <1>2, <1>3, <1>4, SumIsValue

(* The recursion, seen from outside.                                       *)
LEMMA SumPicked ==
    ASSUME NEW f, NEW S, Integral(f, S), S # {}
    PROVE  SumFunctionOnSet(f, S) = f[Picked(S)] + SumFunctionOnSet(f, S \ {Picked(S)})
<1>1. PICK g : Iterates(g, f, S)
    BY IterExists
<1>2. g[S] = f[Picked(S)] + g[S \ {Picked(S)}]
    BY <1>1 DEF Iterates, SumOf
<1>. QED BY <1>1, <1>2, SumIsValue

(* The order in which the indices are taken does not matter.               *)
LEMMA SumRemove ==
    ASSUME NEW f, NEW S, Integral(f, S), NEW x \in S
    PROVE  SumFunctionOnSet(f, S) = f[x] + SumFunctionOnSet(f, S \ {x})
<1> DEFINE Differs(s) == \E y \in s : SumFunctionOnSet(f, s) # f[y] + SumFunctionOnSet(f, s \ {y})
           Bad == {n \in Nat : \E s \in SUBSET S : Cardinality(s) = n /\ Differs(s)}
<1>0. \A s \in SUBSET S : Integral(f, s) /\ IsFiniteSet(s) /\ Cardinality(s) \in Nat
    BY FS_Subset, FS_CardinalityType DEF Integral
<1>1. 0 \notin Bad
    BY <1>0, FS_EmptySet
<1>2. ASSUME NEW n \in Nat, n + 1 \in Bad PROVE n \in Bad
    <2>0. PICK s \in SUBSET S : Cardinality(s) = n + 1 /\ Differs(s)
        BY <1>2
    <2>1. PICK y \in s : SumFunctionOnSet(f, s) # f[y] + SumFunctionOnSet(f, s \ {y})
        BY <2>0
    <2>2. s # {} /\ IsFiniteSet(s) /\ Integral(f, s)
        BY <1>0
    <2>p. PICK c : c = Picked(s)
        OBVIOUS
    <2>3. /\ c \in s /\ Cardinality(s \ {c}) = n
          /\ SumFunctionOnSet(f, s) = f[c] + SumFunctionOnSet(f, s \ {c})
        <3>1. c \in s /\ Cardinality(s \ {c}) = Cardinality(s) - 1
            BY <2>2, <2>p, PickedIsIn
        <3>2. SumFunctionOnSet(f, s) = f[c] + SumFunctionOnSet(f, s \ {c})
            BY <2>2, <2>p, SumPicked
        <3>. QED BY <2>0, <3>1, <3>2
    <2>4. y # c
        BY <2>1, <2>3
    <2>5. s \ {y} \in SUBSET S /\ s \ {c} \in SUBSET S /\ c \in s \ {y} /\ y \in s \ {c}
        BY <2>3, <2>4
    <2>6. Cardinality(s \ {y}) = n
        BY <2>0, <2>2, FS_RemoveElement
    <2>7. SUFFICES ASSUME ~Differs(s \ {y}), ~Differs(s \ {c}) PROVE FALSE
        BY <2>3, <2>5, <2>6
    <2>8. SumFunctionOnSet(f, s \ {y}) = f[c] + SumFunctionOnSet(f, (s \ {y}) \ {c})
        BY <2>5, <2>7
    <2>9. SumFunctionOnSet(f, s \ {c}) = f[y] + SumFunctionOnSet(f, (s \ {c}) \ {y})
        BY <2>5, <2>7
    <2>10. (s \ {c}) \ {y} = (s \ {y}) \ {c}
        OBVIOUS
    <2>11. f[c] \in Int /\ f[y] \in Int /\ SumFunctionOnSet(f, (s \ {y}) \ {c}) \in Int
        <3>1. (s \ {y}) \ {c} \in SUBSET S
            OBVIOUS
        <3>. QED BY <1>0, <2>3, <3>1, SumType DEF Integral
    <2>12. \A a, b, r \in Int : a + (b + r) = b + (a + r)
        OBVIOUS
    <2>13. SumFunctionOnSet(f, s) = f[c] + (f[y] + SumFunctionOnSet(f, (s \ {y}) \ {c}))
        BY <2>3, <2>9, <2>10
    <2>14. SumFunctionOnSet(f, s) = f[y] + (f[c] + SumFunctionOnSet(f, (s \ {y}) \ {c}))
        BY <2>11, <2>12, <2>13
    <2>. QED BY <2>1, <2>8, <2>14
<1>3. Bad = {}
    <2>1. Bad \in SUBSET Nat
        OBVIOUS
    <2> HIDE DEF Bad
    <2>. QED BY <1>1, <1>2, <2>1, NoCounterexample
<1>. QED BY <1>0, <1>3

(* One more index adds its summand.                                        *)
LEMMA SumAdd ==
    ASSUME NEW f, NEW S, NEW x, x \notin S, Integral(f, S \cup {x})
    PROVE  SumFunctionOnSet(f, S \cup {x}) = f[x] + SumFunctionOnSet(f, S)
<1>1. (S \cup {x}) \ {x} = S
    OBVIOUS
<1>2. SumFunctionOnSet(f, S \cup {x}) = f[x] + SumFunctionOnSet(f, (S \cup {x}) \ {x})
    BY SumRemove
<1>. QED BY <1>1, <1>2

(* Grouping: the sizes of the classes add up to the number of elements in   *)
(* some class. class maps the elements of R to their classes, f the classes *)
(* to their sizes.                                                         *)
Members(R, class, T) == {o \in R : class[o] \in T}

\* (the sizes of the classes in S add up to the members of S)
LEMMA SumOfClasses ==
    ASSUME NEW R, IsFiniteSet(R), NEW class, NEW S, IsFiniteSet(S), NEW f,
           \A x \in S : f[x] = Cardinality(Members(R, class, {x}))
    PROVE  SumFunctionOnSet(f, S) = Cardinality(Members(R, class, S))
<1> DEFINE In(s) == Members(R, class, s)
           Bad == {n \in Nat : \E s \in SUBSET S : /\ Cardinality(s) = n
                                               /\ SumFunctionOnSet(f, s) # Cardinality(In(s))}
<1>0. \A x : IsFiniteSet(In({x})) /\ Cardinality(In({x})) \in Nat
    BY FS_Subset, FS_CardinalityType DEF Members
<1>1. \A s \in SUBSET S : /\ Integral(f, s) /\ IsFiniteSet(s) /\ Cardinality(s) \in Nat
                          /\ IsFiniteSet(In(s)) /\ Cardinality(In(s)) \in Nat
    <2> SUFFICES ASSUME NEW s \in SUBSET S
                 PROVE  /\ Integral(f, s) /\ IsFiniteSet(s) /\ Cardinality(s) \in Nat
                        /\ IsFiniteSet(In(s)) /\ Cardinality(In(s)) \in Nat
        OBVIOUS
    <2>1. IsFiniteSet(s) /\ Cardinality(s) \in Nat
        BY FS_Subset, FS_CardinalityType
    <2>2. ASSUME NEW x \in s PROVE f[x] \in Int
        <3>1. f[x] = Cardinality(In({x}))
            OBVIOUS
        <3>2. Cardinality(In({x})) \in Nat
            BY <1>0
        <3>. QED BY <3>1, <3>2
    <2>3. In(s) \in SUBSET R
        BY DEF Members
    <2>4. IsFiniteSet(In(s)) /\ Cardinality(In(s)) \in Nat
        BY <2>3, FS_Subset, FS_CardinalityType
    <2>. QED BY <2>1, <2>2, <2>4 DEF Integral
<1>2. 0 \notin Bad
    <2>1. \A s \in SUBSET S : Cardinality(s) = 0 => s = {}
        BY <1>1, FS_EmptySet
    <2>2. Cardinality(In({})) = 0
        BY FS_EmptySet DEF Members
    <2>. QED BY <2>1, <2>2, SumEmpty
<1>3. ASSUME NEW n \in Nat, n + 1 \in Bad PROVE n \in Bad
    <2>1. PICK s \in SUBSET S : Cardinality(s) = n + 1 /\ SumFunctionOnSet(f, s) # Cardinality(In(s))
        BY <1>3
    <2>2. s # {} /\ Integral(f, s) /\ IsFiniteSet(s)
        BY <1>1, <2>1, FS_EmptySet
    <2>3. PICK c \in s : TRUE
        BY <2>2
    <2>4. s \ {c} \in SUBSET S /\ Cardinality(s \ {c}) = n
        <3>1. Cardinality(s \ {c}) = Cardinality(s) - 1
            BY <2>2, FS_RemoveElement
        <3>. QED BY <2>1, <3>1
    <2>5. SumFunctionOnSet(f, s) = f[c] + SumFunctionOnSet(f, s \ {c})
        BY <2>2, SumRemove
    <2>6. Cardinality(In(s)) = f[c] + Cardinality(In(s \ {c}))
        <3>1. In(s) = In({c}) \cup In(s \ {c})
            BY DEF Members
        <3>2. In({c}) \cap In(s \ {c}) = {}
            BY DEF Members
        <3> DEFINE P == In({c})
                   Q == In(s \ {c})
        <3>3. IsFiniteSet(P) /\ IsFiniteSet(Q) /\ Cardinality(P) \in Nat /\ Cardinality(Q) \in Nat
            BY <1>0, <1>1, <2>4
        <3>4. In(s) = P \cup Q /\ P \cap Q = {} /\ f[c] = Cardinality(P)
            BY <3>1, <3>2
        <3> HIDE DEF P, Q, In
        <3>5. Cardinality(P \cup Q) = Cardinality(P) + Cardinality(Q) - Cardinality(P \cap Q)
            BY <3>3, FS_Union
        <3>6. Cardinality(P \cap Q) = 0
            BY <3>4, FS_EmptySet
        <3>7. Cardinality(In(s)) = Cardinality(P) + Cardinality(Q)
            BY <3>3, <3>4, <3>5, <3>6
        <3>. QED BY <3>4, <3>7 DEF Q
    <2>7. SumFunctionOnSet(f, s \ {c}) # Cardinality(In(s \ {c}))
        BY <2>1, <2>5, <2>6
    <2>. QED BY <2>4, <2>7
<1>4. Bad = {}
    <2>1. Bad \in SUBSET Nat
        OBVIOUS
    <2> HIDE DEF Bad
    <2>. QED BY <1>2, <1>3, <2>1, NoCounterexample
<1>. QED BY <1>1, <1>4
================================================================================
