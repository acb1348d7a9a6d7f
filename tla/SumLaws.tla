------------------------------ MODULE SumLaws ------------------------------
(***************************************************************************)
(* What SumFunctionOnSet of module Functions adds up to, over any finite   *)
(* set.  The books of several components are such sums over their rows.    *)
(*                                                                         *)
(* The library defines the sum by a function over the subsets of the set,  *)
(* which gives up one chosen element after the other.  The laws below make *)
(* the choice disappear.  They are proved by contradiction, from a         *)
(* smallest subset that breaks them (SmallestSubset).                      *)
(***************************************************************************)
EXTENDS Functions, FiniteSetTheorems, TLAPS

\* The element a fold takes first.
Chosen(s) == CHOOSE x \in s : TRUE

\* g gives the sum of f over every subset of S.
SumTable(f, S, g) ==
    g = [s \in SUBSET S |-> IF s = {} THEN 0 ELSE f[Chosen(s)] + g[s \ {Chosen(s)}]]

\* The sum of the library, from the table its definition recurses over.
LEMMA SumIsTable ==
    ASSUME NEW f, NEW S
    PROVE  SumFunctionOnSet(f, S) = (CHOOSE g : SumTable(f, S, g))[S]
BY DEF SumFunctionOnSet, FoldFunctionOnSet, MapThenFoldSet, SumTable, Chosen

\* The element that a nonempty set gives up first is one of its own.
LEMMA ChosenIn == ASSUME NEW S, S # {} PROVE Chosen(S) \in S
BY DEF Chosen

\* Among some subsets of a finite set one contains no other: what holds of a set as soon
\* as it holds of its proper subsets holds of every finite set.
LEMMA SmallestSubset ==
    ASSUME NEW S, IsFiniteSet(S), NEW B \in SUBSET SUBSET S, B # {}
    PROVE  \E U \in B : \A V \in B : V \subseteq U => V = U
<1>1. IsWellFoundedOn(StrictSubsetOrdering(S), SUBSET S)
  BY FS_StrictSubsetOrderingWellFounded, FS_FiniteSubsetsOfFinite
<1>2. B \subseteq SUBSET S
  OBVIOUS
<1>3. PICK U \in B : \A V \in B : <<V, U>> \notin StrictSubsetOrdering(S)
  BY <1>1, <1>2, WFMin
<1>4. ASSUME NEW V \in B, V \subseteq U PROVE V = U
  <2>1. <<V, U>> \notin StrictSubsetOrdering(S)
    BY <1>3
  <2>2. <<V, U>> \in (SUBSET S) \X (SUBSET S)
    BY <1>2
  <2> QED
    BY <2>1, <2>2, <1>4 DEF StrictSubsetOrdering
<1> QED
  BY <1>4

\* What a table says of one subset.
LEMMA TableLaw ==
    ASSUME NEW f, NEW S, NEW g, SumTable(f, S, g), NEW s \in SUBSET S
    PROVE  g[s] = IF s = {} THEN 0 ELSE f[Chosen(s)] + g[s \ {Chosen(s)}]
BY DEF SumTable

\* Two tables of one function agree wherever both are defined.
LEMMA TablesAgree ==
    ASSUME NEW f, NEW S, NEW T, IsFiniteSet(S), NEW g, NEW h, SumTable(f, S, g), SumTable(f, T, h)
    PROVE  \A s \in SUBSET (S \cap T) : g[s] = h[s]
<1> DEFINE B == {s \in SUBSET (S \cap T) : g[s] # h[s]}
<1> SUFFICES ASSUME B # {} PROVE FALSE
  OBVIOUS
<1>1. PICK U \in B : \A V \in B : V \subseteq U => V = U
  <2>1. B \in SUBSET SUBSET S
    OBVIOUS
  <2> HIDE DEF B
  <2> QED
    BY <2>1, SmallestSubset
<1>2. U # {}
  BY TableLaw, U \in SUBSET S, U \in SUBSET T
<1>3. g[U \ {Chosen(U)}] = h[U \ {Chosen(U)}]
  BY <1>1, <1>2, ChosenIn
<1>4. g[U] = h[U]
  <2>1. g[U] = f[Chosen(U)] + g[U \ {Chosen(U)}]
    BY <1>2, TableLaw, U \in SUBSET S
  <2>2. h[U] = f[Chosen(U)] + h[U \ {Chosen(U)}]
    <3>1. U \in SUBSET T
      OBVIOUS
    <3>2. h[U] = IF U = {} THEN 0 ELSE f[Chosen(U)] + h[U \ {Chosen(U)}]
      BY <3>1, TableLaw
    <3> QED
      BY <1>2, <3>2
  <2> QED
    BY <1>3, <2>1, <2>2
<1> QED
  BY <1>4

\* The table that the definition of the sum picks.
TheTable(f, S) == CHOOSE g : SumTable(f, S, g)

\* A finite set has a table.
LEMMA TableExists ==
    ASSUME NEW f, NEW S, IsFiniteSet(S)
    PROVE  SumTable(f, S, TheTable(f, S))
<1> DEFINE B == {U \in SUBSET S : ~SumTable(f, U, TheTable(f, U))}
<1> SUFFICES ASSUME B # {} PROVE FALSE
  OBVIOUS
<1>1. PICK U \in B : \A V \in B : V \subseteq U => V = U
  <2>1. B \in SUBSET SUBSET S
    OBVIOUS
  <2> HIDE DEF B
  <2> QED
    BY <2>1, SmallestSubset
<1>2. \A V \in SUBSET U : V # U => SumTable(f, V, TheTable(f, V))
  BY <1>1
<1> DEFINE G == [s \in SUBSET U |-> IF s = {} THEN 0
                    ELSE f[Chosen(s)] + TheTable(f, s \ {Chosen(s)})[s \ {Chosen(s)}]]
<1>3. \A s \in SUBSET U : s # U => G[s] = TheTable(f, s)[s]
  <2> TAKE s \in SUBSET U
  <2> HAVE s # U
  <2> DEFINE r == s \ {Chosen(s)}
  <2>1. SumTable(f, s, TheTable(f, s))
    BY <1>2
  <2>2. CASE s = {}
    BY <2>1, <2>2, TableLaw
  <2>3. CASE s # {}
    <3>1. r \in SUBSET U /\ r # U /\ r \in SUBSET s
      BY ChosenIn
    <3>2. SumTable(f, r, TheTable(f, r))
      BY <3>1, <1>2
    <3>3. IsFiniteSet(r)
      BY <3>1, FS_Subset
    <3>4. TheTable(f, r)[r] = TheTable(f, s)[r]
      BY <3>1, <3>2, <3>3, <2>1, TablesAgree
    <3>5. TheTable(f, s)[s] = f[Chosen(s)] + TheTable(f, s)[r]
      BY <2>1, <2>3, TableLaw
    <3> QED
      BY <3>4, <3>5, <2>3
  <2> QED
    BY <2>2, <2>3
<1>4. \A s \in SUBSET U : s # {} => TheTable(f, s \ {Chosen(s)})[s \ {Chosen(s)}] = G[s \ {Chosen(s)}]
  BY <1>3, ChosenIn
<1>5. G = [s \in SUBSET U |-> IF s = {} THEN 0 ELSE f[Chosen(s)] + G[s \ {Chosen(s)}]]
  BY <1>4
<1>6. SumTable(f, U, G)
  BY <1>5 DEF SumTable
<1>7. SumTable(f, U, TheTable(f, U))
  BY <1>6 DEF TheTable
<1> QED
  BY <1>7

\* The sum is the last entry of the table.
LEMMA SumIsInTable ==
    ASSUME NEW f, NEW S
    PROVE  SumFunctionOnSet(f, S) = TheTable(f, S)[S]
BY SumIsTable DEF TheTable

\* Nothing sums up to zero.
LEMMA SumOfNone ==
    ASSUME NEW f
    PROVE  SumFunctionOnSet(f, {}) = 0
<1>1. IsFiniteSet({})
  BY FS_EmptySet
<1>2. SumTable(f, {}, TheTable(f, {}))
  BY <1>1, TableExists
<1> QED
  BY <1>2, TableLaw, SumIsInTable

\* The sum gives up the chosen element first.
LEMMA SumPicks ==
    ASSUME NEW f, NEW S, IsFiniteSet(S), S # {}
    PROVE  SumFunctionOnSet(f, S) = f[Chosen(S)] + SumFunctionOnSet(f, S \ {Chosen(S)})
<1> DEFINE r == S \ {Chosen(S)}
<1>1. IsFiniteSet(r)
  BY FS_Subset
<1>2. SumTable(f, S, TheTable(f, S))
  BY TableExists
<1>3. SumTable(f, r, TheTable(f, r))
  BY <1>1, TableExists
<1>4. TheTable(f, r)[r] = TheTable(f, S)[r]
  BY <1>1, <1>2, <1>3, TablesAgree
<1>5. TheTable(f, S)[S] = f[Chosen(S)] + TheTable(f, S)[r]
  BY <1>2, TableLaw
<1> HIDE DEF r
<1>6. SumFunctionOnSet(f, S) = TheTable(f, S)[S] /\ SumFunctionOnSet(f, r) = TheTable(f, r)[r]
  BY SumIsInTable
<1> QED
  BY <1>4, <1>5, <1>6 DEF r

\* A sum of integers is one.
LEMMA SumInt ==
    ASSUME NEW S, IsFiniteSet(S), NEW f, \A x \in S : f[x] \in Int
    PROVE  SumFunctionOnSet(f, S) \in Int
<1> DEFINE B == {U \in SUBSET S : SumFunctionOnSet(f, U) \notin Int}
<1> SUFFICES ASSUME B # {} PROVE FALSE
  OBVIOUS
<1>1. PICK U \in B : \A V \in B : V \subseteq U => V = U
  <2>1. B \in SUBSET SUBSET S
    OBVIOUS
  <2> HIDE DEF B
  <2> QED
    BY <2>1, SmallestSubset
<1>2. U # {}
  BY SumOfNone
<1>3. SumFunctionOnSet(f, U \ {Chosen(U)}) \in Int
  BY <1>1, <1>2, ChosenIn
<1>4. f[Chosen(U)] \in Int
  BY <1>2, ChosenIn
<1>5. IsFiniteSet(U)
  BY FS_Subset
<1> QED
  BY <1>2, <1>3, <1>4, <1>5, SumPicks

\* Any element can be taken out first.
LEMMA SumRemoves ==
    ASSUME NEW S, IsFiniteSet(S), NEW f, \A x \in S : f[x] \in Int, NEW x \in S
    PROVE  SumFunctionOnSet(f, S) = f[x] + SumFunctionOnSet(f, S \ {x})
<1> DEFINE Good(U) == \A y \in U : SumFunctionOnSet(f, U) = f[y] + SumFunctionOnSet(f, U \ {y})
           B == {U \in SUBSET S : ~Good(U)}
<1> SUFFICES ASSUME B # {} PROVE FALSE
  OBVIOUS
<1>1. PICK U \in B : \A V \in B : V \subseteq U => V = U
  <2>1. B \in SUBSET SUBSET S
    OBVIOUS
  <2> HIDE DEF B
  <2> QED
    BY <2>1, SmallestSubset
<1>2. PICK y \in U : SumFunctionOnSet(f, U) # f[y] + SumFunctionOnSet(f, U \ {y})
  OBVIOUS
<1> DEFINE c == Chosen(U)
<1>3. c \in U /\ U # {}
  BY <1>2, ChosenIn
<1>4. IsFiniteSet(U) /\ IsFiniteSet(U \ {y}) /\ IsFiniteSet(U \ {c}) /\ IsFiniteSet((U \ {y}) \ {c})
  <2>1. U \in SUBSET S /\ U \ {y} \in SUBSET S /\ U \ {c} \in SUBSET S /\ (U \ {y}) \ {c} \in SUBSET S
    OBVIOUS
  <2> QED
    BY <2>1, FS_Subset
<1>5. SumFunctionOnSet(f, U) = f[c] + SumFunctionOnSet(f, U \ {c})
  BY <1>3, <1>4, SumPicks
<1>6. y # c
  BY <1>2, <1>5
<1> HIDE DEF c
<1>7. SumFunctionOnSet(f, U \ {c}) = f[y] + SumFunctionOnSet(f, (U \ {y}) \ {c})
  <2>1. Good(U \ {c})
    BY <1>1, <1>3
  <2>2. (U \ {c}) \ {y} = (U \ {y}) \ {c}
    OBVIOUS
  <2> QED
    BY <2>1, <2>2, <1>6
<1>8. SumFunctionOnSet(f, U \ {y}) = f[c] + SumFunctionOnSet(f, (U \ {y}) \ {c})
  <2>1. Good(U \ {y})
    BY <1>1, <1>2
  <2> QED
    BY <2>1, <1>6, <1>3
<1>9. f[c] \in Int /\ f[y] \in Int /\ SumFunctionOnSet(f, (U \ {y}) \ {c}) \in Int
  BY <1>3, <1>4, SumInt
<1> QED
  BY <1>2, <1>5, <1>7, <1>8, <1>9

\* The sum depends on the values on its set only.
LEMMA SumAgrees ==
    ASSUME NEW S, IsFiniteSet(S), NEW f, NEW g, \A x \in S : f[x] = g[x]
    PROVE  SumFunctionOnSet(f, S) = SumFunctionOnSet(g, S)
<1> DEFINE B == {U \in SUBSET S : SumFunctionOnSet(f, U) # SumFunctionOnSet(g, U)}
<1> SUFFICES ASSUME B # {} PROVE FALSE
  OBVIOUS
<1>1. PICK U \in B : \A V \in B : V \subseteq U => V = U
  <2>1. B \in SUBSET SUBSET S
    OBVIOUS
  <2> HIDE DEF B
  <2> QED
    BY <2>1, SmallestSubset
<1>2. U # {}
  BY SumOfNone
<1>3. SumFunctionOnSet(f, U \ {Chosen(U)}) = SumFunctionOnSet(g, U \ {Chosen(U)})
  BY <1>1, <1>2, ChosenIn
<1>4. f[Chosen(U)] = g[Chosen(U)]
  BY <1>2, ChosenIn
<1>5. IsFiniteSet(U)
  BY FS_Subset
<1> QED
  BY <1>2, <1>3, <1>4, <1>5, SumPicks

\* Larger values, larger sum.
LEMMA SumMonotone ==
    ASSUME NEW S, IsFiniteSet(S), NEW f, NEW g,
           \A x \in S : f[x] \in Int /\ g[x] \in Int /\ f[x] <= g[x]
    PROVE  SumFunctionOnSet(f, S) <= SumFunctionOnSet(g, S)
<1> DEFINE B == {U \in SUBSET S : ~(SumFunctionOnSet(f, U) <= SumFunctionOnSet(g, U))}
<1> SUFFICES ASSUME B # {} PROVE FALSE
  OBVIOUS
<1>1. PICK U \in B : \A V \in B : V \subseteq U => V = U
  <2>1. B \in SUBSET SUBSET S
    OBVIOUS
  <2> HIDE DEF B
  <2> QED
    BY <2>1, SmallestSubset
<1>2. U # {}
  BY SumOfNone
<1> DEFINE r == U \ {Chosen(U)}
<1>3. SumFunctionOnSet(f, r) <= SumFunctionOnSet(g, r)
  BY <1>1, <1>2, ChosenIn
<1>4. f[Chosen(U)] \in Int /\ g[Chosen(U)] \in Int /\ f[Chosen(U)] <= g[Chosen(U)]
  BY <1>2, ChosenIn
<1>5. IsFiniteSet(U) /\ IsFiniteSet(r)
  <2>1. U \in SUBSET S /\ r \in SUBSET S
    OBVIOUS
  <2> QED
    BY <2>1, FS_Subset
<1>6. SumFunctionOnSet(f, r) \in Int /\ SumFunctionOnSet(g, r) \in Int
  BY <1>5, SumInt
<1>7. /\ SumFunctionOnSet(f, U) = f[Chosen(U)] + SumFunctionOnSet(f, r)
      /\ SumFunctionOnSet(g, U) = g[Chosen(U)] + SumFunctionOnSet(g, r)
  BY <1>2, <1>5, SumPicks
<1>8. SumFunctionOnSet(f, U) <= SumFunctionOnSet(g, U)
  BY <1>3, <1>4, <1>6, <1>7
<1> QED
  BY <1>8

\* Zeros sum up to zero.
LEMMA SumOfZeros ==
    ASSUME NEW S, IsFiniteSet(S), NEW f, \A x \in S : f[x] = 0
    PROVE  SumFunctionOnSet(f, S) = 0
<1> DEFINE B == {U \in SUBSET S : SumFunctionOnSet(f, U) # 0}
<1> SUFFICES ASSUME B # {} PROVE FALSE
  OBVIOUS
<1>1. PICK U \in B : \A V \in B : V \subseteq U => V = U
  <2>1. B \in SUBSET SUBSET S
    OBVIOUS
  <2> HIDE DEF B
  <2> QED
    BY <2>1, SmallestSubset
<1>2. U # {}
  BY SumOfNone
<1>3. SumFunctionOnSet(f, U \ {Chosen(U)}) = 0
  BY <1>1, <1>2, ChosenIn
<1>4. f[Chosen(U)] = 0
  BY <1>2, ChosenIn
<1>5. IsFiniteSet(U)
  BY FS_Subset
<1> QED
  BY <1>2, <1>3, <1>4, <1>5, SumPicks

\* A sum of natural numbers is one.
LEMMA SumNat ==
    ASSUME NEW S, IsFiniteSet(S), NEW f, \A x \in S : f[x] \in Nat
    PROVE  SumFunctionOnSet(f, S) \in Nat
<1> DEFINE z == [x \in S |-> 0]
<1>1. SumFunctionOnSet(z, S) = 0
  BY SumOfZeros
<1>2. SumFunctionOnSet(z, S) <= SumFunctionOnSet(f, S)
  <2>1. \A x \in S : z[x] \in Int /\ f[x] \in Int /\ z[x] <= f[x]
    OBVIOUS
  <2> HIDE DEF z
  <2> QED
    BY <2>1, SumMonotone
<1>3. SumFunctionOnSet(f, S) \in Int
  BY SumInt
<1> QED
  BY <1>1, <1>2, <1>3

\* Two functions that differ in one place at most.
LEMMA SumChanges ==
    ASSUME NEW S, IsFiniteSet(S), NEW f, NEW g, NEW x \in S,
           \A y \in S : f[y] \in Int /\ g[y] \in Int,
           \A y \in S \ {x} : f[y] = g[y]
    PROVE  SumFunctionOnSet(g, S) = SumFunctionOnSet(f, S) - f[x] + g[x]
<1> DEFINE r == S \ {x}
<1>1. IsFiniteSet(r)
  BY FS_Subset
<1>2. SumFunctionOnSet(f, r) = SumFunctionOnSet(g, r)
  BY <1>1, SumAgrees
<1>3. SumFunctionOnSet(f, r) \in Int
  BY <1>1, SumInt
<1>4. /\ SumFunctionOnSet(f, S) = f[x] + SumFunctionOnSet(f, r)
      /\ SumFunctionOnSet(g, S) = g[x] + SumFunctionOnSet(g, r)
  BY SumRemoves
<1>5. f[x] \in Int /\ g[x] \in Int
  OBVIOUS
<1> QED
  BY <1>2, <1>3, <1>4, <1>5

\* What is left out counts for nothing.
LEMMA SumOnFewer ==
    ASSUME NEW S, IsFiniteSet(S), NEW T \in SUBSET S, NEW f,
           \A x \in S : f[x] \in Int, \A x \in S \ T : f[x] = 0
    PROVE  SumFunctionOnSet(f, T) = SumFunctionOnSet(f, S)
<1> DEFINE B == {U \in SUBSET S : T \subseteq U /\ SumFunctionOnSet(f, U) # SumFunctionOnSet(f, T)}
<1> SUFFICES ASSUME B # {} PROVE FALSE
  OBVIOUS
<1>1. PICK U \in B : \A V \in B : V \subseteq U => V = U
  <2>1. B \in SUBSET SUBSET S
    OBVIOUS
  <2> HIDE DEF B
  <2> QED
    BY <2>1, SmallestSubset
<1>2. PICK x \in U : x \notin T
  OBVIOUS
<1>3. SumFunctionOnSet(f, U \ {x}) = SumFunctionOnSet(f, T)
  BY <1>1, <1>2
<1>4. IsFiniteSet(U) /\ IsFiniteSet(T)
  BY FS_Subset
<1>5. SumFunctionOnSet(f, U) = f[x] + SumFunctionOnSet(f, U \ {x})
  BY <1>4, SumRemoves
<1>6. f[x] = 0
  BY <1>2
<1>7. SumFunctionOnSet(f, T) \in Int
  BY <1>4, SumInt
<1> QED
  BY <1>3, <1>5, <1>6, <1>7

=============================================================================
