---------------------------- MODULE SumTheorems -----------------------------
(***************************************************************************)
(* Lemmas about SumFunctionOnSet, the sum of what a function gives for the *)
(* members of a finite set, each proved on the smallest set it could fail  *)
(* for; and about the ranks of the members of a finite set.                *)
(***************************************************************************)
EXTENDS Integers, Functions, FiniteSetTheorems, WellFoundedInduction, TLAPS

\* Of numbers there is a smallest.
LEMMA SmallestNumber ==
    ASSUME NEW Bad, Bad # {}, Bad \subseteq Nat
    PROVE  \E n \in Bad : \A m \in Bad : n <= m
<1> DEFINE Less == {ss \in Nat \X Nat : ss[1] < ss[2]}
<1>1. IsWellFoundedOn(Less, Nat)
    BY NatLessThanWellFounded DEF OpToRel
<1>2. PICK n \in Bad : \A m \in Bad : <<m, n>> \notin Less
    <2> HIDE DEF Less
    <2> QED BY <1>1, WFMin, Zenon
<1>3. \A m \in Bad : m \in Nat /\ n \in Nat /\ ~(m < n)
    BY <1>2
<1> QED BY <1>3

\* Of finite sets there is a smallest.
LEMMA SmallestSet ==
    ASSUME NEW Bad, Bad # {}, \A T \in Bad : IsFiniteSet(T)
    PROVE  \E T \in Bad : \A U \in Bad : ~(Cardinality(U) < Cardinality(T))
<1> DEFINE Sizes == {Cardinality(T) : T \in Bad}
<1>1. Sizes \subseteq Nat /\ Sizes # {}
    BY FS_CardinalityType
<1>2. PICK n \in Sizes : \A m \in Sizes : n <= m
    <2> HIDE DEF Sizes
    <2> QED BY <1>1, SmallestNumber, Zenon
<1>3. PICK T \in Bad : n = Cardinality(T)
    OBVIOUS
<1>4. \A U \in Bad : ~(Cardinality(U) < Cardinality(T))
    <2> TAKE U \in Bad
    <2>1. Cardinality(U) \in Sizes /\ Cardinality(U) \in Nat /\ n \in Nat
        BY <1>1
    <2>2. n <= Cardinality(U)
        BY <1>2, <2>1
    <2> QED BY <1>3, <2>1, <2>2
<1> QED BY <1>4

-----------------------------------------------------------------------------
(* The recursion *)

Some(s) == CHOOSE x \in s : TRUE
Less1(s) == s \ {Some(s)}

\* One step of the sum over a set, on the sums over smaller ones.
Step(f, g, s) == IF s = {} THEN 0 ELSE f[Some(s)] + g[Less1(s)]

Sums(f, D) == CHOOSE g : g = [s \in D |-> Step(f, g, s)]

LEMMA Unfold ==
    ASSUME NEW f, NEW S
    PROVE  SumFunctionOnSet(f, S) = Sums(f, SUBSET S)[S]
BY DEF SumFunctionOnSet, FoldFunctionOnSet, MapThenFoldSet, Sums, Step, Some, Less1

LEMMA OneLess ==
    ASSUME NEW S, IsFiniteSet(S), S # {}
    PROVE  /\ Some(S) \in S /\ Less1(S) \subseteq S /\ IsFiniteSet(Less1(S))
           /\ Cardinality(Less1(S)) \in Nat /\ Cardinality(S) = Cardinality(Less1(S)) + 1
<1>1. Some(S) \in S
    BY DEF Some
<1>2. IsFiniteSet(Less1(S)) /\ Cardinality(Less1(S)) = Cardinality(S) - 1
    BY <1>1, FS_RemoveElement DEF Less1
<1> QED BY <1>1, <1>2, FS_CardinalityType DEF Less1

\* There are the sums over all parts of a set.
LEMMA SumsExist ==
    ASSUME NEW f, NEW S, IsFiniteSet(S)
    PROVE  \A T \in SUBSET S : Sums(f, SUBSET S)[T] = Step(f, Sums(f, SUBSET S), T)
<1> DEFINE Upto(n) == {s \in SUBSET S : Cardinality(s) <= n}
           Bad == {n \in Nat : ~\E g : g = [s \in Upto(n) |-> Step(f, g, s)]}
           Less == {ss \in Nat \X Nat : ss[1] < ss[2]}
<1>1. ASSUME NEW n \in Bad, \A m \in Bad : <<m, n>> \notin Less PROVE FALSE
    <2>1. \E g : n = 0 \/ g = [s \in Upto(n - 1) |-> Step(f, g, s)]
        <3>1. CASE n = 0
            BY <3>1
        <3>2. CASE n # 0
            <4>1. n - 1 \in Nat /\ n - 1 < n
                BY <3>2
            <4>2. n - 1 \notin Bad
                BY <1>1, <4>1
            <4> QED BY <4>1, <4>2
        <3> QED BY <3>1, <3>2
    <2>2. PICK g : n = 0 \/ g = [s \in Upto(n - 1) |-> Step(f, g, s)]
        BY <2>1
    <2> DEFINE h == [s \in Upto(n) |-> Step(f, g, s)]
    <2>3. ASSUME NEW s \in Upto(n) PROVE Step(f, g, s) = Step(f, h, s)
        <3>1. CASE s = {}
            BY <3>1 DEF Step
        <3>2. CASE s # {}
            <4>1. IsFiniteSet(s) /\ Cardinality(s) \in Nat
                BY FS_Subset, FS_CardinalityType
            <4>2. Less1(s) \subseteq S /\ Cardinality(Less1(s)) \in Nat
                    /\ Cardinality(s) = Cardinality(Less1(s)) + 1
                BY <3>2, <4>1, OneLess
            <4>3. n # 0 /\ Less1(s) \in Upto(n) /\ Less1(s) \in Upto(n - 1)
                BY <4>1, <4>2
            <4>4. g[Less1(s)] = Step(f, g, Less1(s))
                BY <2>2, <4>3, Zenon
            <4>5. h[Less1(s)] = Step(f, g, Less1(s))
                BY <4>3, Zenon
            <4> QED BY <3>2, <4>4, <4>5 DEF Step
        <3> QED BY <3>1, <3>2
    <2>4. h = [s \in Upto(n) |-> Step(f, h, s)]
        <3> HIDE DEF Upto
        <3> QED BY <2>3, Zenon
    <2> QED BY <1>1, <2>4, Zenon
<1>2. Bad = {}
    <2>1. IsWellFoundedOn(Less, Nat)
        BY NatLessThanWellFounded DEF OpToRel
    <2>2. Bad \subseteq Nat
        OBVIOUS
    <2> HIDE DEF Less, Bad
    <2> QED BY <1>1, <2>1, <2>2, WFMin, Zenon
<1>3. Upto(Cardinality(S)) = SUBSET S /\ Cardinality(S) \in Nat
    BY FS_Subset, FS_CardinalityType
<1>4. \E g : g = [s \in SUBSET S |-> Step(f, g, s)]
    <2>1. \A n \in Nat : \E g : g = [s \in Upto(n) |-> Step(f, g, s)]
        <3> HIDE DEF Upto
        <3> QED BY <1>2, Zenon
    <2>2. PICK g : g = [s \in Upto(Cardinality(S)) |-> Step(f, g, s)]
        <3> HIDE DEF Upto
        <3> QED BY <1>3, <2>1, Zenon
    <2> HIDE DEF Upto
    <2>3. g = [s \in SUBSET S |-> Step(f, g, s)]
        BY <1>3, <2>2, Zenon
    <2> QED BY <2>3, Zenon
<1>5. Sums(f, SUBSET S) = [s \in SUBSET S |-> Step(f, Sums(f, SUBSET S), s)]
    BY <1>4, Zenon DEF Sums
<1> DEFINE sums == Sums(f, SUBSET S)
<1>6. sums = [s \in SUBSET S |-> Step(f, sums, s)]
    BY <1>5, Zenon
<1> HIDE DEF sums
<1>7. \A T \in SUBSET S : sums[T] = Step(f, sums, T)
    BY <1>6
<1> QED BY <1>7, Zenon DEF sums

\* They are the same among the parts of a smaller set.
LEMMA SumsWithin ==
    ASSUME NEW f, NEW S, IsFiniteSet(S), NEW T \in SUBSET S
    PROVE  Sums(f, SUBSET S)[T] = SumFunctionOnSet(f, T)
<1> DEFINE Bad == {U \in SUBSET T : Sums(f, SUBSET S)[U] # Sums(f, SUBSET T)[U]}
<1>1. IsFiniteSet(T)
    BY FS_Subset
<1>2. ASSUME NEW U \in Bad, \A V \in Bad : ~(Cardinality(V) < Cardinality(U)) PROVE FALSE
    <2>0. U \in SUBSET S /\ U \in SUBSET T
        OBVIOUS
    <2>1. /\ Sums(f, SUBSET S)[U] = Step(f, Sums(f, SUBSET S), U)
          /\ Sums(f, SUBSET T)[U] = Step(f, Sums(f, SUBSET T), U)
        <3>1. Sums(f, SUBSET S)[U] = Step(f, Sums(f, SUBSET S), U)
            <4> HIDE DEF Bad
            <4> QED BY <2>0, SumsExist, IsFiniteSet(S), ZenonT(30)
        <3>2. Sums(f, SUBSET T)[U] = Step(f, Sums(f, SUBSET T), U)
            BY <1>1, <2>0, SumsExist, ZenonT(30)
        <3> QED BY <3>1, <3>2
    <2>2. U # {}
        BY <2>1 DEF Step
    <2>3. /\ IsFiniteSet(U) /\ Less1(U) \subseteq T
          /\ Cardinality(Less1(U)) \in Nat /\ Cardinality(U) = Cardinality(Less1(U)) + 1
        BY <1>1, <2>2, FS_Subset, OneLess
    <2>4. Sums(f, SUBSET S)[Less1(U)] = Sums(f, SUBSET T)[Less1(U)]
        <3>1. Less1(U) \notin Bad
            <4> HIDE DEF Bad
            <4> QED BY <1>2, <2>3
        <3> QED BY <2>3, <3>1, Zenon
    <2> QED BY <2>1, <2>4 DEF Step
<1>3. Bad = {}
    <2>1. \A U \in Bad : IsFiniteSet(U)
        BY <1>1, FS_Subset
    <2> HIDE DEF Bad
    <2> QED BY <1>2, <2>1, SmallestSet, Zenon
<1>4. T \in SUBSET T
    OBVIOUS
<1> QED BY <1>3, <1>4, Unfold, Zenon

\* How a sum is found.
LEMMA SumStep ==
    ASSUME NEW f, NEW S, IsFiniteSet(S)
    PROVE  SumFunctionOnSet(f, S) =
             IF S = {} THEN 0 ELSE f[Some(S)] + SumFunctionOnSet(f, Less1(S))
<1>1. SumFunctionOnSet(f, S) = Step(f, Sums(f, SUBSET S), S)
    BY Unfold, SumsExist, S \in SUBSET S, Zenon
<1>2. Sums(f, SUBSET S)[Less1(S)] = SumFunctionOnSet(f, Less1(S))
    BY SumsWithin DEF Less1
<1> QED BY <1>1, <1>2 DEF Step

-----------------------------------------------------------------------------
(* What a sum is *)

THEOREM SumEmpty == \A f : SumFunctionOnSet(f, {}) = 0
BY SumStep, FS_EmptySet

\* The sum of numbers is a number.
THEOREM SumIsInt ==
    ASSUME NEW f, NEW S, IsFiniteSet(S), \A x \in S : f[x] \in Int
    PROVE  SumFunctionOnSet(f, S) \in Int
<1> DEFINE Bad == {T \in SUBSET S : SumFunctionOnSet(f, T) \notin Int}
<1>1. ASSUME NEW U \in Bad, \A V \in Bad : ~(Cardinality(V) < Cardinality(U)) PROVE FALSE
    <2>1. IsFiniteSet(U)
        BY FS_Subset
    <2>2. U # {}
        BY SumEmpty
    <2>3. /\ Less1(U) \subseteq S /\ Some(U) \in S /\ Cardinality(Less1(U)) \in Nat
          /\ Cardinality(U) = Cardinality(Less1(U)) + 1
        BY <2>1, <2>2, OneLess
    <2>4. SumFunctionOnSet(f, Less1(U)) \in Int
        BY <1>1, <2>3
    <2>5. SumFunctionOnSet(f, U) = f[Some(U)] + SumFunctionOnSet(f, Less1(U))
        BY <2>1, <2>2, SumStep
    <2> QED BY <2>3, <2>4, <2>5
<1>2. Bad = {}
    <2>1. \A U \in Bad : IsFiniteSet(U)
        BY FS_Subset
    <2> HIDE DEF Bad
    <2> QED BY <1>1, <2>1, SmallestSet, Zenon
<1> QED BY <1>2

\* And of numbers not negative, not negative.
THEOREM SumIsNat ==
    ASSUME NEW f, NEW S, IsFiniteSet(S), \A x \in S : f[x] \in Nat
    PROVE  SumFunctionOnSet(f, S) \in Nat
<1> DEFINE Bad == {T \in SUBSET S : SumFunctionOnSet(f, T) \notin Nat}
<1>1. ASSUME NEW U \in Bad, \A V \in Bad : ~(Cardinality(V) < Cardinality(U)) PROVE FALSE
    <2>1. IsFiniteSet(U)
        BY FS_Subset
    <2>2. U # {}
        BY SumEmpty
    <2>3. /\ Less1(U) \subseteq S /\ Some(U) \in S /\ Cardinality(Less1(U)) \in Nat
          /\ Cardinality(U) = Cardinality(Less1(U)) + 1
        BY <2>1, <2>2, OneLess
    <2>4. SumFunctionOnSet(f, Less1(U)) \in Nat
        BY <1>1, <2>3
    <2>5. SumFunctionOnSet(f, U) = f[Some(U)] + SumFunctionOnSet(f, Less1(U))
        BY <2>1, <2>2, SumStep
    <2> QED BY <2>3, <2>4, <2>5
<1>2. Bad = {}
    <2>1. \A U \in Bad : IsFiniteSet(U)
        BY FS_Subset
    <2> HIDE DEF Bad
    <2> QED BY <1>1, <2>1, SmallestSet, Zenon
<1> QED BY <1>2

\* Whichever member is taken out first.
THEOREM SumTakeOut ==
    ASSUME NEW f, NEW S, IsFiniteSet(S), \A x \in S : f[x] \in Int, NEW a \in S
    PROVE  SumFunctionOnSet(f, S) = f[a] + SumFunctionOnSet(f, S \ {a})
<1> DEFINE Bad == {T \in SUBSET S : \E b \in T :
                     SumFunctionOnSet(f, T) # f[b] + SumFunctionOnSet(f, T \ {b})}
<1>1. ASSUME NEW U \in Bad, \A V \in Bad : ~(Cardinality(V) < Cardinality(U)) PROVE FALSE
    <2>1. IsFiniteSet(U)
        BY FS_Subset
    <2>2. PICK b \in U : SumFunctionOnSet(f, U) # f[b] + SumFunctionOnSet(f, U \ {b})
        OBVIOUS
    <2> DEFINE c == Some(U)
    <2>3. /\ Less1(U) \subseteq S /\ c \in U /\ Cardinality(Less1(U)) \in Nat
          /\ Cardinality(U) = Cardinality(Less1(U)) + 1 /\ Less1(U) = U \ {c}
        BY <2>1, <2>2, OneLess DEF Less1
    <2>4. SumFunctionOnSet(f, U) = f[c] + SumFunctionOnSet(f, U \ {c})
        BY <2>1, <2>2, <2>3, SumStep
    <2> HIDE DEF c
    <2>5. b # c
        BY <2>2, <2>4
    <2>6. Cardinality(U \ {b}) < Cardinality(U) /\ IsFiniteSet(U \ {b})
        <3>1. Cardinality(U \ {b}) = Cardinality(U) - 1 /\ IsFiniteSet(U \ {b})
            BY <2>1, FS_RemoveElement
        <3> QED BY <2>3, <3>1
    <2>7. SumFunctionOnSet(f, U \ {b}) = f[c] + SumFunctionOnSet(f, (U \ {b}) \ {c})
        BY <1>1, <2>3, <2>5, <2>6
    <2>8. SumFunctionOnSet(f, U \ {c}) = f[b] + SumFunctionOnSet(f, (U \ {c}) \ {b})
        BY <1>1, <2>3, <2>5
    <2>9. (U \ {b}) \ {c} = (U \ {c}) \ {b}
        OBVIOUS
    <2>10. SumFunctionOnSet(f, (U \ {c}) \ {b}) \in Int /\ f[b] \in Int /\ f[c] \in Int
        <3>1. IsFiniteSet((U \ {c}) \ {b}) /\ (U \ {c}) \ {b} \subseteq S
            BY <2>1, FS_Subset
        <3> QED BY <2>3, <3>1, SumIsInt
    <2> QED BY <2>2, <2>4, <2>7, <2>8, <2>9, <2>10
<1>2. Bad = {}
    <2>1. \A U \in Bad : IsFiniteSet(U)
        BY FS_Subset
    <2> HIDE DEF Bad
    <2> QED BY <1>1, <2>1, SmallestSet, Zenon
<1> QED BY <1>2

\* The same numbers, the same sum.
THEOREM SumSame ==
    ASSUME NEW f, NEW g, NEW S, IsFiniteSet(S), \A x \in S : f[x] = g[x]
    PROVE  SumFunctionOnSet(f, S) = SumFunctionOnSet(g, S)
<1> DEFINE Bad == {T \in SUBSET S : SumFunctionOnSet(f, T) # SumFunctionOnSet(g, T)}
<1>1. ASSUME NEW U \in Bad, \A V \in Bad : ~(Cardinality(V) < Cardinality(U)) PROVE FALSE
    <2>1. IsFiniteSet(U)
        BY FS_Subset
    <2>2. U # {}
        BY SumEmpty
    <2>3. /\ Less1(U) \subseteq S /\ Some(U) \in S /\ Cardinality(Less1(U)) \in Nat
          /\ Cardinality(U) = Cardinality(Less1(U)) + 1
        BY <2>1, <2>2, OneLess
    <2>4. SumFunctionOnSet(f, Less1(U)) = SumFunctionOnSet(g, Less1(U))
        BY <1>1, <2>3
    <2>5. SumFunctionOnSet(f, U) = f[Some(U)] + SumFunctionOnSet(f, Less1(U))
        BY <2>1, <2>2, SumStep
    <2>6. SumFunctionOnSet(g, U) = g[Some(U)] + SumFunctionOnSet(g, Less1(U))
        BY <2>1, <2>2, SumStep
    <2> QED BY <2>3, <2>4, <2>5, <2>6
<1>2. Bad = {}
    <2>1. \A U \in Bad : IsFiniteSet(U)
        BY FS_Subset
    <2> HIDE DEF Bad
    <2> QED BY <1>1, <2>1, SmallestSet, Zenon
<1> QED BY <1>2

\* What is added to each is added to the sum.
THEOREM SumPlus ==
    ASSUME NEW f, NEW g, NEW h, NEW S, IsFiniteSet(S),
           \A x \in S : f[x] \in Int /\ g[x] \in Int /\ h[x] = f[x] + g[x]
    PROVE  SumFunctionOnSet(h, S) = SumFunctionOnSet(f, S) + SumFunctionOnSet(g, S)
<1> DEFINE Bad == {T \in SUBSET S : SumFunctionOnSet(h, T) #
                        SumFunctionOnSet(f, T) + SumFunctionOnSet(g, T)}
<1>1. ASSUME NEW U \in Bad, \A V \in Bad : ~(Cardinality(V) < Cardinality(U)) PROVE FALSE
    <2>1. IsFiniteSet(U)
        BY FS_Subset
    <2>2. U # {}
        <3>1. /\ SumFunctionOnSet(f, {}) = 0 /\ SumFunctionOnSet(g, {}) = 0
              /\ SumFunctionOnSet(h, {}) = 0
            BY SumEmpty
        <3>2. {} \notin Bad
            BY <3>1
        <3> QED BY <3>2, Zenon
    <2>3. /\ Less1(U) \subseteq S /\ Some(U) \in S /\ Cardinality(Less1(U)) \in Nat
          /\ Cardinality(U) = Cardinality(Less1(U)) + 1 /\ IsFiniteSet(Less1(U))
        BY <2>1, <2>2, OneLess
    <2>4. SumFunctionOnSet(h, Less1(U)) =
            SumFunctionOnSet(f, Less1(U)) + SumFunctionOnSet(g, Less1(U))
        BY <1>1, <2>3
    <2>5. SumFunctionOnSet(f, U) = f[Some(U)] + SumFunctionOnSet(f, Less1(U))
        BY <2>1, <2>2, SumStep
    <2>6. SumFunctionOnSet(g, U) = g[Some(U)] + SumFunctionOnSet(g, Less1(U))
        BY <2>1, <2>2, SumStep
    <2>7. SumFunctionOnSet(h, U) = h[Some(U)] + SumFunctionOnSet(h, Less1(U))
        BY <2>1, <2>2, SumStep
    <2>8. SumFunctionOnSet(f, Less1(U)) \in Int /\ SumFunctionOnSet(g, Less1(U)) \in Int
        BY <2>3, SumIsInt
    <2> QED BY <2>3, <2>4, <2>5, <2>6, <2>7, <2>8
<1>2. Bad = {}
    <2>1. \A U \in Bad : IsFiniteSet(U)
        BY FS_Subset
    <2> HIDE DEF Bad
    <2> QED BY <1>1, <2>1, SmallestSet, Zenon
<1> QED BY <1>2

-----------------------------------------------------------------------------
(* Ranks: how many of a finite set come before each in a strict total order. *)

RankIn(S, R, i) == Cardinality({j \in S : <<j, i>> \in R}) + 1

\* In a strict total order the ranks of n things are the numbers up to n, each once.
LEMMA RankOnto ==
    ASSUME NEW S, IsFiniteSet(S), NEW R,
           \A i \in S : <<i, i>> \notin R,
           \A i, j \in S : i # j => <<i, j>> \in R \/ <<j, i>> \in R,
           \A i, j, k \in S : <<i, j>> \in R /\ <<j, k>> \in R => <<i, k>> \in R
    PROVE  /\ Cardinality(S) \in Nat
           /\ \A i \in S : RankIn(S, R, i) \in 1..Cardinality(S)
           /\ \A i, j \in S : RankIn(S, R, i) = RankIn(S, R, j) => i = j
           /\ \A k \in 1..Cardinality(S) : \E i \in S : RankIn(S, R, i) = k
<1> DEFINE Before(i) == {j \in S : <<j, i>> \in R}
           f == [i \in S |-> RankIn(S, R, i)]
<1>1. Cardinality(S) \in Nat
    BY FS_CardinalityType
<1>2. ASSUME NEW i \in S
      PROVE  IsFiniteSet(Before(i)) /\ Cardinality(Before(i)) \in Nat
             /\ Cardinality(Before(i)) < Cardinality(S)
    <2>1. IsFiniteSet(Before(i)) /\ Cardinality(Before(i)) <= Cardinality(S)
          /\ (Cardinality(S) = Cardinality(Before(i)) => S = Before(i))
        BY FS_Subset
    <2>2. S # Before(i)
        OBVIOUS
    <2>3. Cardinality(Before(i)) \in Nat
        BY <2>1, FS_CardinalityType
    <2> HIDE DEF Before
    <2> QED BY <1>1, <2>1, <2>2, <2>3
<1>3. \A i \in S : RankIn(S, R, i) = Cardinality(Before(i)) + 1
    BY DEF RankIn
<1>4. ASSUME NEW i \in S, NEW j \in S, <<i, j>> \in R
      PROVE  Cardinality(Before(i)) < Cardinality(Before(j))
    <2>1. Before(i) \in SUBSET Before(j)
        BY <1>4
    <2>2. i \in Before(j) /\ i \notin Before(i)
        BY <1>4
    <2>3. Cardinality(Before(i)) <= Cardinality(Before(j))
          /\ (Cardinality(Before(j)) = Cardinality(Before(i)) => Before(j) = Before(i))
        BY <1>2, <2>1, FS_Subset
    <2>4. Cardinality(Before(i)) \in Nat /\ Cardinality(Before(j)) \in Nat
        BY <1>2
    <2> HIDE DEF Before
    <2> QED BY <2>2, <2>3, <2>4
<1>5. \A i \in S : RankIn(S, R, i) \in 1..Cardinality(S)
    <2> TAKE i \in S
    <2> HIDE DEF Before
    <2> QED BY <1>1, <1>2, <1>3
<1>6. \A i, j \in S : RankIn(S, R, i) = RankIn(S, R, j) => i = j
    <2> SUFFICES ASSUME NEW i \in S, NEW j \in S, i # j
                 PROVE  RankIn(S, R, i) # RankIn(S, R, j)
        OBVIOUS
    <2>1. Cardinality(Before(i)) \in Nat /\ Cardinality(Before(j)) \in Nat
        BY <1>2
    <2>2. \/ Cardinality(Before(i)) < Cardinality(Before(j))
          \/ Cardinality(Before(j)) < Cardinality(Before(i))
        <3> HIDE DEF Before
        <3> QED BY <1>4
    <2> HIDE DEF Before
    <2> QED BY <1>3, <2>1, <2>2
<1>7. ASSUME NEW k \in 1..Cardinality(S) PROVE \E i \in S : RankIn(S, R, i) = k
    <2>1. f \in Injection(S, 1..Cardinality(S))
        BY <1>5, <1>6 DEF Injection, IsInjective
    <2>2. IsFiniteSet(1..Cardinality(S)) /\ Cardinality(1..Cardinality(S)) = Cardinality(S)
        BY <1>1, FS_Interval
    <2>3. f \in Surjection(S, 1..Cardinality(S))
        <3> HIDE DEF f
        <3> QED BY <2>1, <2>2, FS_Injection
    <2>4. \E i \in S : f[i] = k
        <3> HIDE DEF f
        <3> QED BY <2>3 DEF Surjection
    <2> QED BY <2>4
<1> QED BY <1>1, <1>5, <1>6, <1>7

\* Each of the numbers up to n is a rank.
LEMMA RankReached ==
    ASSUME NEW S, IsFiniteSet(S), NEW R,
           \A i \in S : <<i, i>> \notin R,
           \A i, j \in S : i # j => <<i, j>> \in R \/ <<j, i>> \in R,
           \A i, j, k \in S : <<i, j>> \in R /\ <<j, k>> \in R => <<i, k>> \in R
    PROVE  \A k \in 1..Cardinality(S) : \E i \in S : RankIn(S, R, i) = k
BY RankOnto

\* So for numbers, in their usual order.
LEMMA NumbersOnto ==
    ASSUME NEW P, IsFiniteSet(P), P \subseteq Nat
    PROVE  \A k \in 1..Cardinality(P) : \E j \in P : Cardinality({i \in P : i < j}) + 1 = k
<1> DEFINE R == {ij \in P \X P : ij[1] < ij[2]}
<1>1. \A i \in P : <<i, i>> \notin R
    OBVIOUS
<1>2. \A i, j \in P : i # j => <<i, j>> \in R \/ <<j, i>> \in R
    OBVIOUS
<1>3. \A i, j, k \in P : <<i, j>> \in R /\ <<j, k>> \in R => <<i, k>> \in R
    OBVIOUS
<1>4. ASSUME NEW j \in P PROVE RankIn(P, R, j) = Cardinality({i \in P : i < j}) + 1
    <2>1. {i \in P : <<i, j>> \in R} = {i \in P : i < j}
        OBVIOUS
    <2> QED BY <2>1 DEF RankIn
<1> HIDE DEF R
<1>5. \A k \in 1..Cardinality(P) : \E j \in P : RankIn(P, R, j) = k
    BY <1>1, <1>2, <1>3, RankReached, Zenon
<1> QED BY <1>4, <1>5
=============================================================================
