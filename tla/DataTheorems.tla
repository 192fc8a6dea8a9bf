---------------------------- MODULE DataTheorems ----------------------------
(***************************************************************************)
(* What the proofs need to know about natural numbers, finite sets and     *)
(* sums.  The induction theorems of the library take a predicate; here the *)
(* predicate is a set, which a first-order prover can be given.            *)
(***************************************************************************)
EXTENDS Integers, Functions, FiniteSetTheorems, WellFoundedInduction, TLAPS

(* A set of naturals that is not empty has a least element.                  *)
LEMMA LeastNumber ==
    ASSUME NEW T \in SUBSET Nat, T # {}
    PROVE  \E m \in T : \A k \in T : m <= k
<1>1. IsWellFoundedOn(OpToRel(<, Nat), Nat)
    BY NatLessThanWellFounded, Zenon
<1>2. PICK m \in T : \A k \in T : <<k, m>> \notin OpToRel(<, Nat)
    BY <1>1, WFMin, Zenon
<1>3. ASSUME NEW k \in T PROVE m <= k
    <2>1. ~(k < m)
        BY <1>2, Zenon DEF OpToRel
    <2> QED  BY <2>1
<1> QED  BY <1>3

(* Induction over the naturals.                                              *)
LEMMA NatSetInduction ==
    ASSUME NEW T, 0 \in T, \A n \in Nat : n \in T => n + 1 \in T
    PROVE  Nat \subseteq T
<1> SUFFICES ASSUME Nat \ T # {} PROVE FALSE
    OBVIOUS
<1>1. PICK m \in Nat \ T : \A k \in Nat \ T : m <= k
    BY LeastNumber
<1>2. m - 1 \in Nat /\ m - 1 \in T
    BY <1>1
<1> QED  BY <1>1, <1>2

(* Induction over the subsets of a finite set: each from those with one      *)
(* element less.                                                             *)
LEMMA SubsetInduction ==
    ASSUME NEW S, IsFiniteSet(S), NEW P, {} \in P,
           \A s \in SUBSET S : s # {} /\ (\A x \in s : s \ {x} \in P) => s \in P
    PROVE  SUBSET S \subseteq P
<1> DEFINE Size(n) == \A s \in SUBSET S : Cardinality(s) = n => s \in P
           T == {n \in Nat : Size(n)}
<1>1. \A s \in SUBSET S : IsFiniteSet(s) /\ Cardinality(s) \in Nat
    BY FS_Subset, FS_CardinalityType
<1>2. 0 \in T
    BY <1>1, FS_EmptySet
<1>3. ASSUME NEW n \in Nat, n \in T PROVE n + 1 \in T
    <2>1. ASSUME NEW s \in SUBSET S, Cardinality(s) = n + 1 PROVE s \in P
        <3>1. s # {}
            BY <2>1, FS_EmptySet
        <3>2. ASSUME NEW x \in s PROVE s \ {x} \in P
            <4>1. Cardinality(s \ {x}) = n
                BY <1>1, <2>1, FS_RemoveElement
            <4> QED  BY <1>3, <4>1
        <3> QED  BY <3>1, <3>2
    <2> QED  BY <2>1
<1>4. Nat \subseteq T
    <2> HIDE DEF T
    <2> QED  BY <1>2, <1>3, NatSetInduction
<1> QED  BY <1>1, <1>4

-----------------------------------------------------------------------------
(* Sums over finite sets: SumFunctionOnSet of the community modules is the   *)
(* value at S of a function on the subsets of S.                             *)

Pick(s) == CHOOSE x \in s : TRUE

Summing(f, D, g) ==
    g = [s \in D |-> IF s = {} THEN 0 ELSE f[Pick(s)] + g[s \ {Pick(s)}]]

LEMMA SumExpanded ==
    ASSUME NEW f, NEW S
    PROVE  SumFunctionOnSet(f, S) = (CHOOSE g : Summing(f, SUBSET S, g))[S]
BY Zenon DEF SumFunctionOnSet, FoldFunctionOnSet, MapThenFoldSet, Summing, Pick

(* There is such a function.                                                 *)
LEMMA SummingExists ==
    ASSUME NEW f, NEW S, IsFiniteSet(S)
    PROVE  \E g : Summing(f, SUBSET S, g)
<1> DEFINE Level(n) == {s \in SUBSET S : Cardinality(s) <= n}
           T == {n \in Nat : \E g : Summing(f, Level(n), g)}
<1>1. \A s \in SUBSET S : IsFiniteSet(s) /\ Cardinality(s) \in Nat /\ Cardinality(s) <= Cardinality(S)
    BY FS_Subset, FS_CardinalityType
<1>2. \A s \in SUBSET S : s # {} => Pick(s) \in s /\ Cardinality(s \ {Pick(s)}) = Cardinality(s) - 1
    BY <1>1, FS_RemoveElement DEF Pick
<1>3. 0 \in T
    <2>1. \A s \in Level(0) : s = {}
        BY <1>1, FS_EmptySet
    <2> DEFINE g == [s \in Level(0) |-> 0]
    <2>2. Summing(f, Level(0), g)
        BY <2>1, Zenon DEF Summing
    <2> QED  BY <2>2
<1>4. ASSUME NEW n \in Nat, n \in T PROVE n + 1 \in T
    <2>1. PICK g : Summing(f, Level(n), g)
        BY <1>4
    <2> DEFINE h == [s \in Level(n + 1) |-> IF s = {} THEN 0 ELSE f[Pick(s)] + g[s \ {Pick(s)}]]
    <2>2. ASSUME NEW s \in Level(n + 1), s # {} PROVE h[s \ {Pick(s)}] = g[s \ {Pick(s)}]
        <3> DEFINE t == s \ {Pick(s)}
        <3>1. t \in Level(n) /\ t \in Level(n + 1)
            BY <1>1, <1>2, <2>2
        <3>2. g[t] = IF t = {} THEN 0 ELSE f[Pick(t)] + g[t \ {Pick(t)}]
            BY <2>1, <3>1, Zenon DEF Summing
        <3>3. h[t] = IF t = {} THEN 0 ELSE f[Pick(t)] + g[t \ {Pick(t)}]
            BY <3>1, Zenon
        <3> QED  BY <3>2, <3>3, Zenon
    <2>3. Summing(f, Level(n + 1), h)
        BY <2>2, Zenon DEF Summing
    <2> HIDE DEF h, Level
    <2> QED  BY <2>3
<1>5. Nat \subseteq T
    <2> HIDE DEF T
    <2> QED  BY <1>3, <1>4, NatSetInduction
<1>6. Cardinality(S) \in T /\ Level(Cardinality(S)) = SUBSET S
    BY <1>1, <1>5
<1> QED  BY <1>6

LEMMA SumSumming ==
    ASSUME NEW f, NEW S, IsFiniteSet(S)
    PROVE  \E g : Summing(f, SUBSET S, g) /\ SumFunctionOnSet(f, S) = g[S]
<1> DEFINE g == CHOOSE x : Summing(f, SUBSET S, x)
<1>1. Summing(f, SUBSET S, g)
    BY SummingExists, Zenon
<1>2. SumFunctionOnSet(f, S) = g[S]
    BY SumExpanded, Zenon
<1> QED  BY <1>1, <1>2, Zenon

(* Two such functions agree where both are defined.                          *)
LEMMA SummingUnique ==
    ASSUME NEW f, NEW S, IsFiniteSet(S), NEW R \in SUBSET S, NEW g, NEW h,
           Summing(f, SUBSET S, g), Summing(f, SUBSET R, h)
    PROVE  g[R] = h[R]
<1> DEFINE P == {s \in SUBSET R : g[s] = h[s]}
<1>1. IsFiniteSet(R)
    BY FS_Subset
<1>2. ASSUME NEW s \in SUBSET R
      PROVE  /\ g[s] = IF s = {} THEN 0 ELSE f[Pick(s)] + g[s \ {Pick(s)}]
             /\ h[s] = IF s = {} THEN 0 ELSE f[Pick(s)] + h[s \ {Pick(s)}]
    <2>1. s \in SUBSET S
        OBVIOUS
    <2> QED  BY <2>1, Zenon DEF Summing
<1>3. {} \in P
    BY <1>2
<1>4. ASSUME NEW s \in SUBSET R, s # {}, \A x \in s : s \ {x} \in P PROVE s \in P
    <2>1. Pick(s) \in s
        BY <1>4, Zenon DEF Pick
    <2>2. g[s \ {Pick(s)}] = h[s \ {Pick(s)}]
        BY <1>4, <2>1
    <2> QED  BY <1>2, <1>4, <2>2
<1>5. SUBSET R \subseteq P
    <2> HIDE DEF P
    <2> QED  BY <1>1, <1>3, <1>4, SubsetInduction
<1> QED  BY <1>5

LEMMA SumEmpty == ASSUME NEW f PROVE SumFunctionOnSet(f, {}) = 0
<1>1. PICK g : Summing(f, SUBSET {}, g) /\ SumFunctionOnSet(f, {}) = g[{}]
    BY SumSumming, FS_EmptySet
<1> QED  BY <1>1, Zenon DEF Summing

(* The sum over a set that is not empty, taken apart at the element CHOOSE   *)
(* picks.                                                                    *)
LEMMA SumUnfold ==
    ASSUME NEW f, NEW S, IsFiniteSet(S), S # {}
    PROVE  SumFunctionOnSet(f, S) = f[Pick(S)] + SumFunctionOnSet(f, S \ {Pick(S)})
<1> DEFINE R == S \ {Pick(S)}
<1>1. IsFiniteSet(R)
    BY FS_Subset
<1>2. PICK g : Summing(f, SUBSET S, g) /\ SumFunctionOnSet(f, S) = g[S]
    BY SumSumming
<1>3. PICK h : Summing(f, SUBSET R, h) /\ SumFunctionOnSet(f, R) = h[R]
    BY <1>1, SumSumming
<1>4. g[R] = h[R]
    <2>1. R \in SUBSET S
        OBVIOUS
    <2> HIDE DEF R
    <2> QED  BY <1>2, <1>3, <2>1, SummingUnique
<1>5. g[S] = f[Pick(S)] + g[R]
    BY <1>2, Zenon DEF Summing
<1> QED  BY <1>2, <1>3, <1>4, <1>5, Zenon

LEMMA SumInt ==
    ASSUME NEW f, NEW S, IsFiniteSet(S), \A x \in S : f[x] \in Int
    PROVE  SumFunctionOnSet(f, S) \in Int
<1> DEFINE P == {s \in SUBSET S : SumFunctionOnSet(f, s) \in Int}
<1>1. {} \in P
    BY SumEmpty
<1>2. ASSUME NEW s \in SUBSET S, s # {}, \A x \in s : s \ {x} \in P PROVE s \in P
    <2>1. Pick(s) \in s /\ IsFiniteSet(s)
        BY <1>2, FS_Subset DEF Pick
    <2>2. SumFunctionOnSet(f, s) = f[Pick(s)] + SumFunctionOnSet(f, s \ {Pick(s)})
        BY <1>2, <2>1, SumUnfold
    <2>3. SumFunctionOnSet(f, s \ {Pick(s)}) \in Int
        BY <1>2, <2>1
    <2> QED  BY <2>1, <2>2, <2>3
<1>3. SUBSET S \subseteq P
    <2> HIDE DEF P
    <2> QED  BY <1>1, <1>2, SubsetInduction
<1> QED  BY <1>3

(* The sum over a set, taken apart at any of its elements.                   *)
LEMMA SumRemove ==
    ASSUME NEW f, NEW S, IsFiniteSet(S), \A x \in S : f[x] \in Int, NEW a \in S
    PROVE  SumFunctionOnSet(f, S) = f[a] + SumFunctionOnSet(f, S \ {a})
<1> DEFINE P == {s \in SUBSET S : \A x \in s : SumFunctionOnSet(f, s) = f[x] + SumFunctionOnSet(f, s \ {x})}
<1>1. {} \in P
    OBVIOUS
<1>2. ASSUME NEW s \in SUBSET S, s # {}, \A x \in s : s \ {x} \in P,
             NEW b \in s
      PROVE  SumFunctionOnSet(f, s) = f[b] + SumFunctionOnSet(f, s \ {b})
    <2> DEFINE p == Pick(s)
               rest == s \ {p, b}
    <2>1. p \in s /\ IsFiniteSet(s) /\ IsFiniteSet(rest)
        BY <1>2, FS_Subset DEF Pick
    <2>2. SumFunctionOnSet(f, s) = f[p] + SumFunctionOnSet(f, s \ {p})
        BY <1>2, <2>1, SumUnfold
    <2>3. CASE p # b
        <3>1. SumFunctionOnSet(f, s \ {p}) = f[b] + SumFunctionOnSet(f, rest)
            <4>1. s \ {p} \in P /\ b \in s \ {p} /\ (s \ {p}) \ {b} = rest
                BY <1>2, <2>1, <2>3
            <4> QED  BY <4>1
        <3>2. SumFunctionOnSet(f, s \ {b}) = f[p] + SumFunctionOnSet(f, rest)
            <4>1. s \ {b} \in P /\ p \in s \ {b} /\ (s \ {b}) \ {p} = rest
                BY <1>2, <2>1, <2>3
            <4> QED  BY <4>1
        <3>3. SumFunctionOnSet(f, rest) \in Int /\ f[p] \in Int /\ f[b] \in Int
            BY <2>1, SumInt
        <3> HIDE DEF rest, p
        <3> QED  BY <2>2, <3>1, <3>2, <3>3
    <2> QED  BY <2>2, <2>3
<1>3. SUBSET S \subseteq P
    <2>1. \A s \in SUBSET S : s # {} /\ (\A x \in s : s \ {x} \in P) => s \in P
        BY <1>2
    <2> HIDE DEF P
    <2> QED  BY <1>1, <2>1, SubsetInduction
<1> QED  BY <1>3

LEMMA SumAdd ==
    ASSUME NEW f, NEW S, IsFiniteSet(S), NEW a, a \notin S, \A x \in S \cup {a} : f[x] \in Int
    PROVE  SumFunctionOnSet(f, S \cup {a}) = SumFunctionOnSet(f, S) + f[a]
<1>1. IsFiniteSet(S \cup {a}) /\ (S \cup {a}) \ {a} = S
    BY FS_AddElement
<1>2. SumFunctionOnSet(f, S \cup {a}) = f[a] + SumFunctionOnSet(f, S)
    BY <1>1, SumRemove
<1> QED  BY <1>2, SumInt

(* The sum depends on the values at the elements only.                       *)
LEMMA SumEqual ==
    ASSUME NEW f, NEW g, NEW S, IsFiniteSet(S), \A x \in S : f[x] = g[x]
    PROVE  SumFunctionOnSet(f, S) = SumFunctionOnSet(g, S)
<1> DEFINE P == {s \in SUBSET S : SumFunctionOnSet(f, s) = SumFunctionOnSet(g, s)}
<1>1. {} \in P
    BY SumEmpty
<1>2. ASSUME NEW s \in SUBSET S, s # {}, \A x \in s : s \ {x} \in P PROVE s \in P
    <2>1. Pick(s) \in s /\ IsFiniteSet(s)
        BY <1>2, FS_Subset DEF Pick
    <2>2. /\ SumFunctionOnSet(f, s) = f[Pick(s)] + SumFunctionOnSet(f, s \ {Pick(s)})
          /\ SumFunctionOnSet(g, s) = g[Pick(s)] + SumFunctionOnSet(g, s \ {Pick(s)})
        BY <1>2, <2>1, SumUnfold
    <2>3. SumFunctionOnSet(f, s \ {Pick(s)}) = SumFunctionOnSet(g, s \ {Pick(s)}) /\ f[Pick(s)] = g[Pick(s)]
        BY <1>2, <2>1
    <2> QED  BY <2>2, <2>3
<1>3. SUBSET S \subseteq P
    <2> HIDE DEF P
    <2> QED  BY <1>1, <1>2, SubsetInduction
<1> QED  BY <1>3
LEMMA SumOfFunction ==
    ASSUME NEW f, NEW g, IsFiniteSet(DOMAIN f), \A x \in DOMAIN f : f[x] = g[x]
    PROVE  SumFunction(f) = SumFunctionOnSet(g, DOMAIN f)
BY SumEqual DEF SumFunction

(* The sum over two sets with no element in common.                          *)
LEMMA SumUnion ==
    ASSUME NEW f, NEW S, IsFiniteSet(S), NEW T, IsFiniteSet(T), S \cap T = {},
           \A x \in S \cup T : f[x] \in Int
    PROVE  SumFunctionOnSet(f, S \cup T) = SumFunctionOnSet(f, S) + SumFunctionOnSet(f, T)
<1> DEFINE P == {t \in SUBSET T : SumFunctionOnSet(f, S \cup t) = SumFunctionOnSet(f, S) + SumFunctionOnSet(f, t)}
<1>1. {} \in P
    BY SumEmpty, SumInt
<1>2. ASSUME NEW t \in SUBSET T, t # {}, \A x \in t : t \ {x} \in P PROVE t \in P
    <2>1. PICK a : a \in t
        BY <1>2
    <2>2. IsFiniteSet(t) /\ IsFiniteSet(S \cup t) /\ IsFiniteSet(t \ {a})
        BY FS_Subset, FS_Union
    <2>3. SumFunctionOnSet(f, t) = f[a] + SumFunctionOnSet(f, t \ {a})
        BY <2>1, <2>2, SumRemove
    <2>4. SumFunctionOnSet(f, S \cup t) = f[a] + SumFunctionOnSet(f, S \cup (t \ {a}))
        <3>1. (S \cup t) \ {a} = S \cup (t \ {a})
            BY <2>1
        <3>2. SumFunctionOnSet(f, S \cup t) = f[a] + SumFunctionOnSet(f, (S \cup t) \ {a})
            BY <2>1, <2>2, SumRemove
        <3> QED  BY <3>1, <3>2
    <2>5. SumFunctionOnSet(f, S \cup (t \ {a})) = SumFunctionOnSet(f, S) + SumFunctionOnSet(f, t \ {a})
        BY <1>2, <2>1
    <2>6. f[a] \in Int /\ SumFunctionOnSet(f, S) \in Int /\ SumFunctionOnSet(f, t \ {a}) \in Int
        BY <2>1, <2>2, SumInt
    <2> QED  BY <2>3, <2>4, <2>5, <2>6
<1>3. SUBSET T \subseteq P
    <2> HIDE DEF P
    <2> QED  BY <1>1, <1>2, SubsetInduction
<1> QED  BY <1>3

LEMMA SumNegated ==
    ASSUME NEW f, NEW g, NEW S, IsFiniteSet(S), \A x \in S : f[x] \in Int /\ g[x] = - f[x]
    PROVE  SumFunctionOnSet(g, S) = - SumFunctionOnSet(f, S)
<1> DEFINE P == {s \in SUBSET S : SumFunctionOnSet(g, s) = - SumFunctionOnSet(f, s)}
<1>1. {} \in P
    BY SumEmpty
<1>2. ASSUME NEW s \in SUBSET S, s # {}, \A x \in s : s \ {x} \in P PROVE s \in P
    <2>1. PICK a : a \in s
        BY <1>2
    <2>2. IsFiniteSet(s) /\ IsFiniteSet(s \ {a}) /\ f[a] \in Int /\ g[a] = - f[a]
        BY <2>1, FS_Subset
    <2>3. SumFunctionOnSet(f, s) = f[a] + SumFunctionOnSet(f, s \ {a})
        BY <2>1, <2>2, SumRemove
    <2>4. SumFunctionOnSet(g, s) = g[a] + SumFunctionOnSet(g, s \ {a})
        <3>1. \A x \in s : g[x] \in Int
            OBVIOUS
        <3> QED  BY <2>1, <2>2, <3>1, SumRemove
    <2>5. SumFunctionOnSet(g, s \ {a}) = - SumFunctionOnSet(f, s \ {a})
        BY <1>2, <2>1
    <2>6. SumFunctionOnSet(f, s \ {a}) \in Int
        BY <2>2, SumInt
    <2> QED  BY <2>2, <2>3, <2>4, <2>5, <2>6
<1>3. SUBSET S \subseteq P
    <2> HIDE DEF P
    <2> QED  BY <1>1, <1>2, SubsetInduction
<1> QED  BY <1>3

LEMMA ImageFinite ==
    ASSUME NEW f, IsFiniteSet(DOMAIN f)
    PROVE  IsFiniteSet({f[x] : x \in DOMAIN f})
<1> DEFINE T == {f[x] : x \in DOMAIN f}
           g == [x \in DOMAIN f |-> f[x]]
<1>1. g \in Surjection(DOMAIN f, T)
    BY DEF Surjection
<1> HIDE DEF T, g
<1>2. IsFiniteSet(T)
    BY <1>1, FS_Surjection
<1> QED  BY <1>2 DEF T

(* Summing the parts of a partition first, then the parts' sums, is summing  *)
(* at once.                                                                  *)
LEMMA SumOfParts ==
    ASSUME NEW f, NEW S, IsFiniteSet(S), \A x \in S : f[x] \in Int,
           NEW keys, IsFiniteSet(keys), NEW part, NEW sums,
           \A k \in keys : part[k] \in SUBSET S /\ sums[k] = SumFunctionOnSet(f, part[k]),
           \A x \in S : \E k \in keys : x \in part[k],
           \A j, k \in keys : j # k => part[j] \cap part[k] = {}
    PROVE  SumFunctionOnSet(sums, keys) = SumFunctionOnSet(f, S)
<1> DEFINE Within(ks) == {x \in S : \E k \in ks : x \in part[k]}
           P == {ks \in SUBSET keys : SumFunctionOnSet(sums, ks) = SumFunctionOnSet(f, Within(ks))}
<1>1. ASSUME NEW ks \in SUBSET keys PROVE IsFiniteSet(Within(ks)) /\ IsFiniteSet(ks)
    <2>1. Within(ks) \in SUBSET S
        OBVIOUS
    <2> HIDE DEF Within
    <2> QED  BY <2>1, FS_Subset
<1>2. ASSUME NEW k \in keys PROVE IsFiniteSet(part[k]) /\ sums[k] \in Int
    <2>1. IsFiniteSet(part[k])
        BY FS_Subset
    <2>2. \A x \in part[k] : f[x] \in Int
        OBVIOUS
    <2> QED  BY <2>1, <2>2, SumInt
<1>3. {} \in P
    <2>1. Within({}) = {}
        OBVIOUS
    <2> QED  BY <2>1, SumEmpty
<1>4. ASSUME NEW ks \in SUBSET keys, ks # {}, \A k \in ks : ks \ {k} \in P PROVE ks \in P
    <2>1. PICK k : k \in ks
        BY <1>4
    <2>2. SumFunctionOnSet(sums, ks) = sums[k] + SumFunctionOnSet(sums, ks \ {k})
        <3>1. IsFiniteSet(ks) /\ \A j \in ks : sums[j] \in Int
            BY <1>1, <1>2
        <3> QED  BY <2>1, <3>1, SumRemove
    <2>3. SumFunctionOnSet(sums, ks \ {k}) = SumFunctionOnSet(f, Within(ks \ {k}))
        BY <1>4, <2>1
    <2>4. Within(ks) = part[k] \cup Within(ks \ {k}) /\ part[k] \cap Within(ks \ {k}) = {}
        BY <2>1
    <2>5. /\ IsFiniteSet(part[k]) /\ IsFiniteSet(Within(ks \ {k}))
          /\ \A x \in part[k] \cup Within(ks \ {k}) : f[x] \in Int
        <3>1. ks \ {k} \in SUBSET keys /\ k \in keys
            BY <2>1
        <3>2. IsFiniteSet(part[k]) /\ IsFiniteSet(Within(ks \ {k}))
            BY <1>1, <1>2, <3>1
        <3>3. \A x \in part[k] \cup Within(ks \ {k}) : f[x] \in Int
            BY <3>1
        <3> QED  BY <3>2, <3>3
    <2> HIDE DEF Within
    <2>6. SumFunctionOnSet(f, part[k] \cup Within(ks \ {k})) = SumFunctionOnSet(f, part[k]) + SumFunctionOnSet(f, Within(ks \ {k}))
        <3> DEFINE A == part[k]
                   B == Within(ks \ {k})
        <3>1. A \cap B = {} /\ IsFiniteSet(A) /\ IsFiniteSet(B) /\ \A x \in A \cup B : f[x] \in Int
            BY <2>4, <2>5
        <3> HIDE DEF A, B
        <3>2. SumFunctionOnSet(f, A \cup B) = SumFunctionOnSet(f, A) + SumFunctionOnSet(f, B)
            BY <3>1, SumUnion
        <3> QED  BY <3>2 DEF A, B
    <2>7. SumFunctionOnSet(sums, ks) = SumFunctionOnSet(f, Within(ks))
        <3>1. sums[k] = SumFunctionOnSet(f, part[k])
            BY <2>1
        <3> QED  BY <2>2, <2>3, <2>4, <2>6, <3>1
    <2> QED  BY <2>7 DEF Within
<1>5. SUBSET keys \subseteq P
    <2> HIDE DEF P
    <2> QED  BY <1>3, <1>4, SubsetInduction
<1>6. Within(keys) = S
    OBVIOUS
<1> QED  BY <1>5, <1>6
=============================================================================
