------------------------------ MODULE LedgerProofs ------------------------------
(***************************************************************************)
(* Proofs about Ledger, for any accounts, holds, keys, threads and amounts *)
(* and any number of requests.                                             *)
(***************************************************************************)
EXTENDS Ledger, FiniteSetTheorems, WellFoundedInduction, TLAPS

(* Sums over finite sets. *)

\* Induction over the naturals, for a set of them.
LEMMA NatSetInduction ==
  ASSUME NEW N \in SUBSET Nat, 0 \in N, \A n \in N : n + 1 \in N
  PROVE  N = Nat
<1> DEFINE R   == OpToRel(<, Nat)
           Bad == Nat \ N
<1> SUFFICES ASSUME Bad # {} PROVE FALSE
  OBVIOUS
<1>1. IsWellFoundedOn(R, Nat)
  BY NatLessThanWellFounded
<1>2. \A m, n \in Nat : m < n => <<m, n>> \in R
  BY DEF OpToRel
<1> HIDE DEF R
<1>3. PICK n \in Bad : \A m \in Bad : <<m, n>> \notin R
  <2>1. Bad \subseteq Nat
    OBVIOUS
  <2> HIDE DEF Bad
  <2>2. QED
    BY <1>1, <2>1, WFMin
<1>4. n # 0 /\ n - 1 \in Nat /\ n - 1 < n /\ n \in Nat
  OBVIOUS
<1>5. n - 1 \in N
  BY <1>2, <1>3, <1>4
<1>6. QED
  BY <1>4, <1>5

\* Among subsets of a finite set one is smallest: induction over finite sets.
LEMMA SmallestSet ==
  ASSUME NEW S, IsFiniteSet(S), NEW F \in SUBSET SUBSET S, F # {}
  PROVE  \E T \in F : \A U \in F : U \subseteq T => U = T
<1> DEFINE R == StrictSubsetOrdering(S)
<1>1. IsWellFoundedOn(R, FiniteSubsetsOf(S)) /\ FiniteSubsetsOf(S) = SUBSET S
  BY FS_StrictSubsetOrderingWellFounded, FS_FiniteSubsetsOfFinite
<1>2. IsWellFoundedOn(R, SUBSET S)
  BY <1>1
<1> HIDE DEF R
<1>3. PICK T \in F : \A U \in F : <<U, T>> \notin R
  BY <1>2, WFMin
<1>4. \A U \in F : U \subseteq T /\ U # T => <<U, T>> \in R
  BY DEF R, StrictSubsetOrdering
<1>5. \A U \in F : U \subseteq T => U = T
  BY <1>3, <1>4
<1>6. QED
  BY <1>5

\* The recursive definition behind a sum.
First(s) == CHOOSE x \in s : TRUE
SumStep(f, s, g) == IF s = {} THEN 0 ELSE f[First(s)] + g[s \ {First(s)}]
IsSum(f, S, g) == g = [s \in SUBSET S |-> SumStep(f, s, g)]

LEMMA SumIsRec ==
  ASSUME NEW f, NEW S
  PROVE SumFunctionOnSet(f, S) = (CHOOSE g : IsSum(f, S, g))[S]
  BY DEF SumFunctionOnSet, FoldFunctionOnSet, MapThenFoldSet, IsSum, SumStep, First

LEMMA FirstIn == ASSUME NEW s, s # {} PROVE First(s) \in s
  BY DEF First

\* A function satisfies the recursive definition ...
LEMMA RecExists ==
  ASSUME NEW S, IsFiniteSet(S), NEW f
  PROVE  \E g : IsSum(f, S, g)
<1> DEFINE UpTo(n) == \E g : /\ g = [s \in SUBSET S |-> g[s]]
                             /\ \A s \in SUBSET S : Cardinality(s) <= n => g[s] = SumStep(f, s, g)
           N == {n \in Nat : UpTo(n)}
<1>1. \A s \in SUBSET S : IsFiniteSet(s) /\ Cardinality(s) \in Nat /\ Cardinality(s) <= Cardinality(S)
  BY FS_Subset, FS_CardinalityType
<1>2. \A s \in SUBSET S : s # {} => /\ s \ {First(s)} \in SUBSET S
                                    /\ Cardinality(s \ {First(s)}) = Cardinality(s) - 1
                                    /\ Cardinality(s) > 0
  <2> TAKE s \in SUBSET S
  <2> HAVE s # {}
  <2>1. First(s) \in s
    BY FirstIn
  <2>2. Cardinality(s \ {First(s)}) = Cardinality(s) - 1 /\ Cardinality(s) # 0
    BY <1>1, <2>1, FS_RemoveElement, FS_EmptySet
  <2>3. QED
    BY <1>1, <2>1, <2>2
<1>3. 0 \in N
  <2> DEFINE g == [s \in SUBSET S |-> 0]
  <2>1. g = [s \in SUBSET S |-> g[s]]
    OBVIOUS
  <2>2. \A s \in SUBSET S : Cardinality(s) <= 0 => g[s] = SumStep(f, s, g)
    BY <1>1, FS_EmptySet DEF SumStep
  <2> HIDE DEF g
  <2>3. QED
    BY <2>1, <2>2
<1>4. \A n \in N : n + 1 \in N
  <2> TAKE n \in N
  <2>0. n \in Nat
    OBVIOUS
  <2>1. PICK g : /\ g = [s \in SUBSET S |-> g[s]]
                 /\ \A s \in SUBSET S : Cardinality(s) <= n => g[s] = SumStep(f, s, g)
    OBVIOUS
  <2> DEFINE h == [s \in SUBSET S |-> IF Cardinality(s) <= n THEN g[s] ELSE SumStep(f, s, g)]
  <2>2. h = [s \in SUBSET S |-> h[s]]
    OBVIOUS
  <2>3. \A s \in SUBSET S : Cardinality(s) <= n => h[s] = g[s]
    OBVIOUS
  <2>4. \A s \in SUBSET S : Cardinality(s) <= n + 1 => h[s] = SumStep(f, s, g)
    BY <2>1
  <2>5. \A s \in SUBSET S : Cardinality(s) <= n + 1 => SumStep(f, s, h) = SumStep(f, s, g)
    <3> TAKE s \in SUBSET S
    <3> HAVE Cardinality(s) <= n + 1
    <3> HIDE DEF h
    <3>1. CASE s = {}
      BY <3>1 DEF SumStep
    <3>2. CASE s # {}
      <4>1. s \ {First(s)} \in SUBSET S /\ Cardinality(s \ {First(s)}) <= n
        <5> HIDE DEF N, UpTo
        <5>1. Cardinality(s) \in Nat /\ Cardinality(s \ {First(s)}) = Cardinality(s) - 1
          BY <1>1, <1>2, <3>2
        <5>2. s \ {First(s)} \in SUBSET S
          BY <1>2, <3>2
        <5>3. QED
          BY <2>0, <5>1, <5>2
      <4>2. QED
        BY <2>3, <3>2, <4>1 DEF SumStep
    <3>3. QED
      BY <3>1, <3>2
  <2> HIDE DEF h
  <2>6. UpTo(n + 1)
    BY <2>2, <2>4, <2>5
  <2> HIDE DEF UpTo
  <2>7. QED
    BY <2>0, <2>6
<1>5. Cardinality(S) \in N
  <2>1. N = Nat
    <3>1. N \in SUBSET Nat
      OBVIOUS
    <3> HIDE DEF N
    <3>2. QED
      BY <1>3, <1>4, <3>1, NatSetInduction
  <2>2. QED
    BY <1>1, <2>1
<1>6. PICK g : /\ g = [s \in SUBSET S |-> g[s]]
               /\ \A s \in SUBSET S : Cardinality(s) <= Cardinality(S) => g[s] = SumStep(f, s, g)
  BY <1>5
<1>7. \A s \in SUBSET S : g[s] = SumStep(f, s, g)
  BY <1>1, <1>6
<1>8. g = [s \in SUBSET S |-> SumStep(f, s, g)]
  BY <1>6, <1>7
<1>9. QED
  BY <1>8 DEF IsSum

\* ... only one does ...
LEMMA RecUnique ==
  ASSUME NEW S, IsFiniteSet(S), NEW f, NEW g, NEW h, IsSum(f, S, g), IsSum(f, S, h)
  PROVE  g = h
<1> DEFINE Bad == {s \in SUBSET S : g[s] # h[s]}
<1>1. ASSUME Bad # {} PROVE FALSE
  <2>1. PICK T \in Bad : \A U \in Bad : U \subseteq T => U = T
    <3>1. Bad \in SUBSET SUBSET S
      OBVIOUS
    <3> HIDE DEF Bad
    <3>2. QED
      BY <1>1, <3>1, SmallestSet
  <2>2. /\ T \in SUBSET S
        /\ g[T] = SumStep(f, T, g) /\ h[T] = SumStep(f, T, h) /\ g[T] # h[T]
    BY DEF IsSum
  <2>3. T # {}
    BY <2>2 DEF SumStep
  <2>4. /\ T \ {First(T)} \in SUBSET S /\ T \ {First(T)} \subseteq T
        /\ T \ {First(T)} # T
    BY <2>2, <2>3, FirstIn
  <2>5. g[T \ {First(T)}] = h[T \ {First(T)}]
    BY <2>1, <2>4
  <2>6. QED
    BY <2>2, <2>3, <2>5 DEF SumStep
<1>2. \A s \in SUBSET S : g[s] = h[s]
  BY <1>1
<1>3. QED
  BY <1>2 DEF IsSum

\* ... and so the sum satisfies it.
LEMMA SumEquation ==
  ASSUME NEW S, IsFiniteSet(S), NEW f, NEW T \in SUBSET S
  PROVE  SumFunctionOnSet(f, T) =
           IF T = {} THEN 0 ELSE f[First(T)] + SumFunctionOnSet(f, T \ {First(T)})
<1>1. PICK g : IsSum(f, T, g)
  BY RecExists, FS_Subset
<1>2. SumFunctionOnSet(f, T) = g[T]
  BY <1>1, SumIsRec, RecUnique, FS_Subset
<1>3. g[T] = SumStep(f, T, g)
  BY <1>1 DEF IsSum
<1>4. CASE T = {}
  BY <1>2, <1>3, <1>4 DEF SumStep
<1>5. CASE T # {}
  <2> DEFINE W == T \ {First(T)}
             h == [s \in SUBSET W |-> g[s]]
  <2>1. W \subseteq T /\ IsFiniteSet(T) /\ IsFiniteSet(W)
    BY FS_Subset
  <2>2. IsSum(f, W, h)
    <3>1. ASSUME NEW s \in SUBSET W PROVE g[s] = SumStep(f, s, h)
      <4>1. g[s] = SumStep(f, s, g)
        BY <1>1, <2>1 DEF IsSum
      <4>2. s # {} => h[s \ {First(s)}] = g[s \ {First(s)}]
        OBVIOUS
      <4>3. QED
        BY <4>1, <4>2 DEF SumStep
    <3>2. QED
      BY <3>1 DEF IsSum
  <2>3. SumFunctionOnSet(f, W) = h[W]
    <3> HIDE DEF h, W
    <3> QED BY <2>1, <2>2, SumIsRec, RecUnique
  <2>4. QED
    BY <1>2, <1>3, <1>5, <2>3 DEF SumStep
<1>6. QED
  BY <1>4, <1>5

LEMMA SumEmpty ==
  ASSUME NEW f
  PROVE  SumFunctionOnSet(f, {}) = 0
  BY SumEquation, FS_EmptySet

LEMMA SumType ==
  ASSUME NEW S, IsFiniteSet(S), NEW f, \A x \in S : f[x] \in Int
  PROVE  SumFunctionOnSet(f, S) \in Int
<1> DEFINE Bad == {s \in SUBSET S : SumFunctionOnSet(f, s) \notin Int}
<1> SUFFICES ASSUME Bad # {} PROVE FALSE
  BY Zenon
<1>1. PICK T \in Bad : \A U \in Bad : U \subseteq T => U = T
  <2>1. Bad \in SUBSET SUBSET S
    OBVIOUS
  <2> HIDE DEF Bad
  <2>2. QED
    BY <2>1, SmallestSet
<1>2. T \in SUBSET S /\ SumFunctionOnSet(f, T) \notin Int
  OBVIOUS
<1>3. T # {}
  BY <1>2, SumEmpty
<1>4. T \ {First(T)} \in SUBSET S /\ T \ {First(T)} \subseteq T /\ T \ {First(T)} # T
      /\ First(T) \in S
  BY <1>2, <1>3, FirstIn
<1>5. SumFunctionOnSet(f, T \ {First(T)}) \in Int
  BY <1>1, <1>4
<1>6. QED
  BY <1>2, <1>3, <1>4, <1>5, SumEquation

\* The sum does not depend on the order in which elements are chosen.
LEMMA SumRemove ==
  ASSUME NEW S, IsFiniteSet(S), NEW f, \A x \in S : f[x] \in Int, NEW a \in S
  PROVE  SumFunctionOnSet(f, S) = f[a] + SumFunctionOnSet(f, S \ {a})
<1> DEFINE Bad == {s \in SUBSET S : \E x \in s :
                     SumFunctionOnSet(f, s) # f[x] + SumFunctionOnSet(f, s \ {x})}
<1> SUFFICES ASSUME Bad # {} PROVE FALSE
  BY Zenon
<1>1. PICK T \in Bad : \A U \in Bad : U \subseteq T => U = T
  <2>1. Bad \in SUBSET SUBSET S
    OBVIOUS
  <2> HIDE DEF Bad
  <2>2. QED
    BY <2>1, SmallestSet
<1>2. PICK x \in T : SumFunctionOnSet(f, T) # f[x] + SumFunctionOnSet(f, T \ {x})
  OBVIOUS
<1> DEFINE y == First(T)
<1>3. T \in SUBSET S /\ x \in S /\ y \in T /\ y \in S
  BY FirstIn
<1>4. SumFunctionOnSet(f, T) = f[y] + SumFunctionOnSet(f, T \ {y})
  BY <1>3, SumEquation
<1> HIDE DEF y
<1>5. x # y
  BY <1>2, <1>4
<1>6. /\ T \ {x} \in SUBSET S /\ T \ {x} # T /\ T \ {x} \subseteq T /\ y \in T \ {x}
      /\ T \ {y} \in SUBSET S /\ T \ {y} # T /\ T \ {y} \subseteq T /\ x \in T \ {y}
      /\ (T \ {x}) \ {y} = (T \ {y}) \ {x}
  BY <1>3, <1>5
<1>7. /\ SumFunctionOnSet(f, T \ {y}) = f[x] + SumFunctionOnSet(f, (T \ {y}) \ {x})
      /\ SumFunctionOnSet(f, T \ {x}) = f[y] + SumFunctionOnSet(f, (T \ {x}) \ {y})
  BY <1>1, <1>6
<1>8. /\ SumFunctionOnSet(f, (T \ {y}) \ {x}) \in Int
      /\ f[x] \in Int /\ f[y] \in Int
  <2>1. IsFiniteSet((T \ {y}) \ {x})
    BY <1>3, <1>6, FS_Subset
  <2>2. \A z \in (T \ {y}) \ {x} : f[z] \in Int
    BY <1>3
  <2>3. QED
    BY <1>3, <2>1, <2>2, SumType
<1>9. QED
  BY <1>2, <1>4, <1>6, <1>7, <1>8

LEMMA SumZero ==
  ASSUME NEW S, IsFiniteSet(S), NEW f, \A x \in S : f[x] = 0
  PROVE  SumFunctionOnSet(f, S) = 0
<1> DEFINE Bad == {s \in SUBSET S : SumFunctionOnSet(f, s) # 0}
<1> SUFFICES ASSUME Bad # {} PROVE FALSE
  BY Zenon
<1>1. PICK T \in Bad : \A U \in Bad : U \subseteq T => U = T
  <2>1. Bad \in SUBSET SUBSET S
    OBVIOUS
  <2> HIDE DEF Bad
  <2>2. QED
    BY <2>1, SmallestSet
<1>2. T \in SUBSET S /\ SumFunctionOnSet(f, T) # 0
  OBVIOUS
<1>3. T # {}
  BY <1>2, SumEmpty
<1> DEFINE W == T \ {First(T)}
<1>4. W \in SUBSET S /\ W \subseteq T /\ W # T /\ First(T) \in S
  BY <1>2, <1>3, FirstIn
<1>5. /\ SumFunctionOnSet(f, W) = 0
      /\ SumFunctionOnSet(f, T) = f[First(T)] + SumFunctionOnSet(f, W)
  BY <1>1, <1>2, <1>3, <1>4, SumEquation
<1>6. QED
  BY <1>2, <1>4, <1>5

LEMMA SumSame ==
  ASSUME NEW S, IsFiniteSet(S), NEW f, NEW g, \A x \in S : f[x] = g[x]
  PROVE  SumFunctionOnSet(f, S) = SumFunctionOnSet(g, S)
<1> DEFINE Bad == {s \in SUBSET S : SumFunctionOnSet(f, s) # SumFunctionOnSet(g, s)}
<1> SUFFICES ASSUME Bad # {} PROVE FALSE
  BY Zenon
<1>1. PICK T \in Bad : \A U \in Bad : U \subseteq T => U = T
  <2>1. Bad \in SUBSET SUBSET S
    OBVIOUS
  <2> HIDE DEF Bad
  <2>2. QED
    BY <2>1, SmallestSet
<1>2. T \in SUBSET S /\ SumFunctionOnSet(f, T) # SumFunctionOnSet(g, T)
  OBVIOUS
<1>3. T # {}
  BY <1>2, SumEmpty
<1> DEFINE W == T \ {First(T)}
<1>4. W \in SUBSET S /\ W \subseteq T /\ W # T /\ First(T) \in S
  BY <1>2, <1>3, FirstIn
<1>5. /\ SumFunctionOnSet(f, W) = SumFunctionOnSet(g, W)
      /\ SumFunctionOnSet(f, T) = f[First(T)] + SumFunctionOnSet(f, W)
      /\ SumFunctionOnSet(g, T) = g[First(T)] + SumFunctionOnSet(g, W)
  BY <1>1, <1>2, <1>3, <1>4, SumEquation
<1>6. QED
  BY <1>2, <1>4, <1>5

\* A part of a sum of naturals is no more than the whole.
LEMMA SumPart ==
  ASSUME NEW S, IsFiniteSet(S), NEW f, \A x \in S : f[x] \in Nat, NEW P \in SUBSET S
  PROVE  SumFunctionOnSet(f, P) <= SumFunctionOnSet(f, S)
<1> DEFINE Bad == {s \in SUBSET S : /\ P \subseteq s
                                    /\ ~ (SumFunctionOnSet(f, P) <= SumFunctionOnSet(f, s))}
<1> SUFFICES ASSUME Bad # {} PROVE FALSE
  BY Zenon
<1>1. PICK T \in Bad : \A U \in Bad : U \subseteq T => U = T
  <2>1. Bad \in SUBSET SUBSET S
    OBVIOUS
  <2> HIDE DEF Bad
  <2>2. QED
    BY <2>1, SmallestSet
<1>2. /\ T \in SUBSET S /\ P \subseteq T
      /\ ~(SumFunctionOnSet(f, P) <= SumFunctionOnSet(f, T))
  OBVIOUS
<1>3. SumFunctionOnSet(f, P) \in Int
  BY SumType, FS_Subset
<1>4. PICK x \in T : x \notin P
  BY <1>2, <1>3
<1>5. /\ T \ {x} \in SUBSET S /\ T \ {x} \subseteq T /\ T \ {x} # T /\ P \subseteq T \ {x}
      /\ x \in S
  BY <1>2, <1>4
<1>6. SumFunctionOnSet(f, P) <= SumFunctionOnSet(f, T \ {x})
  BY <1>1, <1>5
<1>7. SumFunctionOnSet(f, T) = f[x] + SumFunctionOnSet(f, T \ {x})
  BY <1>2, SumRemove, FS_Subset
<1>8. SumFunctionOnSet(f, T \ {x}) \in Int /\ f[x] \in Nat
  <2>1. IsFiniteSet(T \ {x}) /\ \A y \in T \ {x} : f[y] \in Int
    BY <1>5, FS_Subset
  <2>2. QED
    BY <1>5, <2>1, SumType
<1>9. QED
  BY <1>2, <1>3, <1>6, <1>7, <1>8

\* A value added at one place is added to the sum.
LEMMA SumAdd ==
  ASSUME NEW S, IsFiniteSet(S), NEW D, S \subseteq D, NEW f \in [D -> Int],
         NEW a \in D, NEW d \in Int
  PROVE  SumFunctionOnSet(Add(f, a, d), S) =
           IF a \in S THEN SumFunctionOnSet(f, S) + d ELSE SumFunctionOnSet(f, S)
<1> DEFINE g == Add(f, a, d)
<1>1. g \in [D -> Int] /\ g[a] = f[a] + d /\ \A x \in D \ {a} : g[x] = f[x]
  BY DEF Add
<1> HIDE DEF g
<1>2. SumFunctionOnSet(g, S \ {a}) = SumFunctionOnSet(f, S \ {a})
      /\ SumFunctionOnSet(f, S \ {a}) \in Int
  <2>1. IsFiniteSet(S \ {a}) /\ \A x \in S \ {a} : g[x] = f[x] /\ f[x] \in Int
    BY <1>1, FS_RemoveElement
  <2>2. QED
    BY <2>1, SumSame, SumType
<1>3. CASE a \in S
  <2>1. /\ SumFunctionOnSet(g, S) = g[a] + SumFunctionOnSet(g, S \ {a})
        /\ SumFunctionOnSet(f, S) = f[a] + SumFunctionOnSet(f, S \ {a})
    BY <1>1, <1>3, SumRemove
  <2>2. f[a] \in Int
    OBVIOUS
  <2>3. SumFunctionOnSet(g, S) = SumFunctionOnSet(f, S) + d
    BY <1>1, <1>2, <2>1, <2>2
  <2>4. QED
    BY <1>3, <2>3 DEF g
<1>4. CASE a \notin S
  <2>1. S \ {a} = S
    BY <1>4
  <2>2. QED
    BY <1>2, <1>4, <2>1 DEF g
<1>5. QED
  BY <1>3, <1>4

\* What a set of hold rows amounts to.
LEMMA AmountIsSum ==
  ASSUME NEW rows, NEW H, IsFiniteSet(H)
  PROVE  LET f == [h \in H |-> rows[h].amount]
         IN  /\ AmountOf(rows, H) = SumFunctionOnSet(f, H)
             /\ \A h \in H : f[h] = rows[h].amount
  BY DEF AmountOf, SumFunction

LEMMA AmountType ==
  ASSUME NEW rows, NEW H, IsFiniteSet(H), \A h \in H : rows[h].amount \in Int
  PROVE  AmountOf(rows, H) \in Int
<1> DEFINE f == [h \in H |-> rows[h].amount]
<1>1. AmountOf(rows, H) = SumFunctionOnSet(f, H)
  BY AmountIsSum
<1>2. \A h \in H : f[h] \in Int
  OBVIOUS
<1> HIDE DEF f
<1>3. QED
  BY <1>1, <1>2, SumType

LEMMA AmountEmpty ==
  ASSUME NEW rows
  PROVE  AmountOf(rows, {}) = 0
  BY AmountIsSum, SumEmpty, FS_EmptySet

\* Fewer rows, which are as they were, amount to no more.
LEMMA AmountFewer ==
  ASSUME NEW rows, NEW later, NEW H, IsFiniteSet(H), NEW G \in SUBSET H,
         \A h \in H : rows[h].amount \in Nat, \A h \in G : later[h] = rows[h]
  PROVE  AmountOf(later, G) <= AmountOf(rows, H)
<1> DEFINE f == [h \in H |-> rows[h].amount]
           g == [h \in G |-> later[h].amount]
<1>1. IsFiniteSet(G)
  BY FS_Subset
<1>2. AmountOf(rows, H) = SumFunctionOnSet(f, H) /\ AmountOf(later, G) = SumFunctionOnSet(g, G)
  BY <1>1, AmountIsSum
<1>3. \A h \in G : g[h] = f[h]
  OBVIOUS
<1>4. \A h \in H : f[h] \in Nat
  OBVIOUS
<1> HIDE DEF f, g
<1>5. SumFunctionOnSet(g, G) = SumFunctionOnSet(f, G)
  BY <1>1, <1>3, SumSame
<1>6. SumFunctionOnSet(f, G) <= SumFunctionOnSet(f, H)
  BY <1>4, SumPart
<1>7. QED
  BY <1>2, <1>5, <1>6

LEMMA AmountRemove ==
  ASSUME NEW rows, NEW H, IsFiniteSet(H), \A h \in H : rows[h].amount \in Int, NEW x \in H
  PROVE  AmountOf(rows, H) = rows[x].amount + AmountOf(rows, H \ {x})
<1> DEFINE f == [h \in H |-> rows[h].amount]
           g == [h \in H \ {x} |-> rows[h].amount]
<1>1. IsFiniteSet(H \ {x})
  BY FS_RemoveElement
<1>2. /\ AmountOf(rows, H) = SumFunctionOnSet(f, H)
      /\ AmountOf(rows, H \ {x}) = SumFunctionOnSet(g, H \ {x})
  BY <1>1, AmountIsSum
<1>3. \A h \in H \ {x} : g[h] = f[h]
  OBVIOUS
<1>4. f[x] = rows[x].amount /\ \A h \in H : f[h] \in Int
  OBVIOUS
<1> HIDE DEF f, g
<1>5. SumFunctionOnSet(g, H \ {x}) = SumFunctionOnSet(f, H \ {x})
  BY <1>1, <1>3, SumSame
<1>6. SumFunctionOnSet(f, H) = f[x] + SumFunctionOnSet(f, H \ {x})
  BY <1>4, SumRemove
<1>7. QED
  BY <1>2, <1>4, <1>5, <1>6

(* The ledger. *)

LEMMA ExpireType ==
  ASSUME TypeOK, ExpireStaleHolds
  PROVE  /\ holds' \in [Hold -> {NoHold} \union HoldRow]
         /\ \A h \in Hold : /\ (holds[h] = NoHold) <=> (holds'[h] = NoHold)
                            /\ holds[h] # NoHold => holds'[h].account = holds[h].account
                            /\ holds'[h].status = "active" => Active(h)
  BY DEF TypeOK, ExpireStaleHolds, Active, HoldRow, NoHold, Statuses

LEMMA SetStatusType ==
  ASSUME TypeOK, NEW h \in Hold, NEW st \in Statuses, holds[h] # NoHold, SetStatus(h, st)
  PROVE  /\ holds' \in [Hold -> {NoHold} \union HoldRow]
         /\ \A g \in Hold : /\ (holds[g] = NoHold) <=> (holds'[g] = NoHold)
                            /\ holds[g] # NoHold => holds'[g].account = holds[g].account
                            /\ g # h => holds'[g] = holds[g]
         /\ holds'[h].status = st
<1>1. holds[h] \in HoldRow
  BY DEF TypeOK
<1>2. holds' = [holds EXCEPT ![h] = [holds[h] EXCEPT !.status = st]]
  BY DEF SetStatus
<1>3. [holds[h] EXCEPT !.status = st] \in HoldRow
  BY <1>1 DEF HoldRow
<1>4. /\ [holds[h] EXCEPT !.status = st].account = holds[h].account
      /\ [holds[h] EXCEPT !.status = st].status = st
      /\ [holds[h] EXCEPT !.status = st] # NoHold
  BY <1>1 DEF HoldRow, NoHold
<1>5. QED
  BY <1>1, <1>2, <1>3, <1>4 DEF TypeOK

\* Which handler a request belongs to, from where it stands.
LEMMA RequestKind ==
  ASSUME TypeOK
  PROVE  /\ At("transfer", "check") \/ At("transfer", "remember") => req \in TransferReq
         /\ At("hold", "check") \/ At("hold", "insert") => req \in HoldReq
         /\ At("capture", "check") => req \in AskedReq
         /\ At("capture", "settle") => req \in CaptureReq
         /\ req.pc \in {"debit", "credit", "debitRow", "creditRow"} =>
              req \in TransferReq \union CaptureReq
         /\ req.pc \in {"credited", "created"} => req \in CreateReq
  BY DEF TypeOK, At, Idle, CreateReq, TransferReq, HoldReq, AskedReq, CaptureReq

\* Every variable keeps its type, and what a request refers to exists.
LEMMA TypeStep ==
  ASSUME TypeOK, Existence, [Next]_vars
  PROVE  TypeOK' /\ Existence'
<1> USE LedgerAssumption DEF tables, memory
<1>0. /\ Amount \subseteq Int /\ Opening \subseteq Int
      /\ \A r \in TransferReq \union CaptureReq :
           /\ r.from \in Account /\ r.to \in Account /\ r.amount \in Amount
           /\ r.tag \in Key \union Hold \union {NoKey}
  BY DEF TransferReq, CaptureReq
<1>1. ASSUME NEW a \in Account, NEW amount \in Opening, CreateAccount(a, amount)
      PROVE  TypeOK' /\ Existence'
  <2> DEFINE r == [op |-> "create", pc |-> "credited", from |-> a, to |-> a,
                   amount |-> amount, tag |-> a]
  <2>0. amount \in Int /\ r \in CreateReq /\ r.from = r.to
    BY DEF CreateReq
  <2>a. req' = IF amount > 0 THEN r ELSE Idle
    BY <1>1 DEF CreateAccount
  <2> HIDE DEF r
  <2>1. req' \in {Idle} \union CreateReq /\ (req' \in CreateReq => req'.from = req'.to)
    BY <2>0, <2>a DEF Idle, CreateReq
  <2>2. TypeOK'
    BY <1>1, <2>0, <2>1 DEF CreateAccount, TypeOK
  <2>3. QED
    BY <1>1, <2>1, <2>2 DEF CreateAccount, Existence, TypeOK, Idle, CreateReq,
           TransferReq, HoldReq, AskedReq, CaptureReq
<1>2. ASSUME NEW key \in Key \union {NoKey}, NEW body \in Body, StartTransfer(key, body)
      PROVE  TypeOK' /\ Existence'
  <2>1. req' \in TransferReq /\ req'.pc = "check"
    BY <1>2 DEF StartTransfer, Start, TransferReq, Body
  <2>2. TypeOK'
    BY <1>2, <2>1, ExpireType DEF StartTransfer, Start, TypeOK
  <2>3. QED
    BY <1>2, <2>1, <2>2, ExpireType
      DEF StartTransfer, Start, Existence, TypeOK, Idle, CreateReq, TransferReq,
          HoldReq, AskedReq, CaptureReq
<1>3. ASSUME NEW h \in Hold, NEW a \in Account, NEW amount \in Amount,
              NEW expires \in 0..MaxTime + 1, StartHold(h, a, amount, expires)
      PROVE  TypeOK' /\ Existence'
  <2>1. req' \in HoldReq /\ req'.pc = "check" /\ req'.tag = h
    BY <1>3 DEF StartHold, Start, HoldReq
  <2>2. TypeOK'
    BY <1>3, <2>1, ExpireType DEF StartHold, Start, TypeOK
  <2>3. QED
    BY <1>3, <2>1, <2>2, ExpireType
      DEF StartHold, Start, Existence, TypeOK, Idle, CreateReq, TransferReq,
          HoldReq, AskedReq, CaptureReq
<1>4. ASSUME NEW h \in Hold, NEW to \in Account, NEW amount \in Amount \union {0},
              StartCapture(h, to, amount)
      PROVE  TypeOK' /\ Existence'
  <2>1. req' \in AskedReq
    BY <1>4 DEF StartCapture, Start, AskedReq
  <2>2. TypeOK'
    BY <1>4, <2>1, ExpireType DEF StartCapture, Start, TypeOK
  <2>3. QED
    BY <1>4, <2>1, <2>2, ExpireType
      DEF StartCapture, Start, Existence, TypeOK, Idle, CreateReq, TransferReq,
          HoldReq, AskedReq, CaptureReq
<1>5. CASE CheckTransfer
  <2>1. req \in TransferReq
    BY <1>5, RequestKind DEF CheckTransfer
  <2>2. \/ req' = Idle
        \/ req' \in TransferReq /\ req'.pc = "debit" /\ req'.from \in accounts
    BY <1>5, <2>1 DEF CheckTransfer, TransferReq, At, Goto
  <2>3. TypeOK'
    BY <1>5, <2>1, <2>2 DEF CheckTransfer, TypeOK
  <2>4. QED
    BY <1>5, <2>1, <2>2, <2>3 DEF CheckTransfer, Existence, TypeOK, Idle,
           CreateReq, TransferReq, HoldReq, AskedReq, CaptureReq
<1>6. CASE CheckHold
  <2>1. req \in HoldReq
    BY <1>6, RequestKind DEF CheckHold
  <2>2. \/ req' = Idle
        \/ /\ req' \in HoldReq /\ req'.pc = "insert"
           /\ req'.from \in accounts /\ req'.tag = req.tag
    BY <1>6, <2>1 DEF CheckHold, HoldReq, At, Goto
  <2>3. TypeOK'
    BY <1>6, <2>1, <2>2 DEF CheckHold, TypeOK
  <2>4. QED
    BY <1>6, <2>1, <2>2, <2>3 DEF CheckHold, Existence, TypeOK, Idle, CreateReq,
           TransferReq, HoldReq, AskedReq, CaptureReq
<1>7. CASE InsertHold
  <2>1. req \in HoldReq /\ req.pc = "insert"
    BY <1>7, RequestKind DEF InsertHold, At
  <2> DEFINE row == [account |-> req.from, amount |-> req.amount,
                     expires |-> req.expires, status |-> "active"]
  <2>2. row \in HoldRow /\ row.account \in accounts /\ row # NoHold
    BY <2>1 DEF HoldReq, HoldRow, Statuses, Existence, NoHold
  <2>3. holds' = [holds EXCEPT ![req.tag] = row] /\ req.tag \in Hold
    BY <1>7, <2>1 DEF InsertHold, HoldReq
  <2> HIDE DEF row
  <2>4. TypeOK'
    BY <1>7, <2>2, <2>3 DEF InsertHold, TypeOK
  <2>5. QED
    BY <1>7, <2>2, <2>3, <2>4 DEF InsertHold, Existence, TypeOK, Idle, CreateReq,
           TransferReq, HoldReq, AskedReq, CaptureReq
<1>8. CASE CheckCapture
  <2>1. req \in AskedReq /\ req.tag \in Hold
    BY <1>8, RequestKind DEF CheckCapture, AskedReq
  <2>2. holds[req.tag] = NoHold \/ holds[req.tag] \in HoldRow
    BY <2>1 DEF TypeOK
  <2>3. \/ req' = Idle
        \/ /\ req' \in CaptureReq /\ req'.pc = "debit" /\ req'.from \in accounts
           /\ holds[req'.tag] # NoHold
    BY <1>8, <2>1, <2>2 DEF CheckCapture, AskedReq, CaptureReq, HoldRow, NoHold,
           Active, TypeOK
  <2>4. TypeOK'
    BY <1>8, <2>3 DEF CheckCapture, TypeOK
  <2>5. QED
    BY <1>8, <2>3, <2>4 DEF CheckCapture, Existence, TypeOK, Idle, CreateReq,
           TransferReq, HoldReq, AskedReq, CaptureReq
<1>9. CASE Debit
  <2>0. req \in TransferReq \union CaptureReq
    BY <1>9, RequestKind DEF Debit, Credit, PostDebit, PostCredit, PostRow
  <2>1. /\ req \in TransferReq \union CaptureReq
        /\ req.from \in Account /\ req.amount \in Int /\ req.tag \in Key \union Hold \union {NoKey}
    BY <1>0, <2>0
  <2>2. /\ req \in TransferReq => req' \in TransferReq
        /\ req \in CaptureReq => req' \in CaptureReq
        /\ req'.pc = "credit" /\ req'.from = req.from /\ req'.tag = req.tag
    BY <1>9, <2>1 DEF Debit, Goto, TransferReq, CaptureReq
  <2>3. balance' \in [Account -> Int] /\ debits' \in [Key \union Hold -> Nat]
    BY <1>9, <2>1 DEF Debit, Add, TypeOK
  <2>4. TypeOK'
    BY <1>9, <2>1, <2>2, <2>3 DEF Debit, TypeOK
  <2>5. QED
    BY <1>9, <2>1, <2>2, <2>4 DEF Debit, Add, Existence, TypeOK, Idle, CreateReq,
           TransferReq, HoldReq, AskedReq, CaptureReq
<1>10. CASE Credit
  <2>0. req \in TransferReq \union CaptureReq
    BY <1>10, RequestKind DEF Debit, Credit, PostDebit, PostCredit, PostRow
  <2>1. /\ req \in TransferReq \union CaptureReq
        /\ req.to \in Account /\ req.amount \in Int
    BY <1>0, <2>0
  <2>2. /\ req \in TransferReq => req' \in TransferReq /\ req'.pc = "debitRow"
        /\ req \in CaptureReq => req' \in CaptureReq /\ req'.pc = "settle"
        /\ req'.from = req.from /\ req'.tag = req.tag
    BY <1>10, <2>1 DEF Credit, Goto, TransferReq, CaptureReq
  <2>3. balance' \in [Account -> Int] /\ stray' \in [Account -> Int]
    BY <1>10, <2>1 DEF Credit, Add, TypeOK
  <2>4. TypeOK'
    BY <1>10, <2>1, <2>2, <2>3 DEF Credit, TypeOK
  <2>5. QED
    BY <1>10, <2>1, <2>2, <2>4
      DEF Credit, Add, Existence, TypeOK, Idle, CreateReq, TransferReq, HoldReq,
          AskedReq, CaptureReq
<1>11. CASE Settle
  <2>1. req \in CaptureReq /\ req.tag \in Hold /\ holds[req.tag] # NoHold
    BY <1>11, RequestKind DEF Settle, CaptureReq, Existence
  <2>2. req' \in CaptureReq /\ req'.pc = "debitRow" /\ req'.from = req.from /\ req'.tag = req.tag
    BY <1>11, <2>1 DEF Settle, Goto, CaptureReq
  <2>3. SetStatus(req.tag, "captured") /\ "captured" \in Statuses
    BY <1>11 DEF Settle, Statuses
  <2>4. TypeOK'
    BY <1>11, <2>1, <2>2, <2>3, SetStatusType DEF Settle, TypeOK
  <2>5. QED
    BY <1>11, <2>1, <2>2, <2>3, <2>4, SetStatusType
      DEF Settle, At, Existence, TypeOK, Idle, CreateReq, TransferReq, HoldReq,
          AskedReq, CaptureReq
<1>12. CASE PostDebit
  <2>0. req \in TransferReq \union CaptureReq
    BY <1>12, RequestKind DEF Debit, Credit, PostDebit, PostCredit, PostRow
  <2>1. /\ req \in TransferReq \union CaptureReq
        /\ req.from \in Account /\ req.amount \in Int
    BY <1>0, <2>0
  <2>2. /\ req \in TransferReq => req' \in TransferReq
        /\ req \in CaptureReq => req' \in CaptureReq
        /\ req'.pc = "creditRow" /\ req'.from = req.from /\ req'.tag = req.tag
    BY <1>12, <2>1 DEF PostDebit, Goto, TransferReq, CaptureReq
  <2>3. posted' \in [Account -> Int]
    BY <1>12, <2>1 DEF PostDebit, PostRow, Add, TypeOK
  <2>4. TypeOK'
    BY <1>12, <2>1, <2>2, <2>3 DEF PostDebit, PostRow, TypeOK
  <2>5. QED
    BY <1>12, <2>1, <2>2, <2>4
      DEF PostDebit, PostRow, Existence, TypeOK, Idle, CreateReq, TransferReq,
          HoldReq, AskedReq, CaptureReq
<1>13. CASE PostCredit
  <2>0. req \in TransferReq \union CaptureReq
    BY <1>13, RequestKind DEF Debit, Credit, PostDebit, PostCredit, PostRow
  <2>1. /\ req \in TransferReq \union CaptureReq
        /\ req.to \in Account /\ req.amount \in Int
    BY <1>0, <2>0
  <2>2. /\ \/ req' = Idle
           \/ req' \in TransferReq /\ req'.pc = "remember"
        /\ answers' \in [Hold -> SUBSET {"captured", "voided"}]
    BY <1>13, <2>1 DEF PostCredit, AfterCredit, Goto, TransferReq, CaptureReq,
           TypeOK
  <2>3. posted' \in [Account -> Int]
    BY <1>13, <2>1 DEF PostCredit, PostRow, Add, TypeOK
  <2>4. TypeOK'
    BY <1>13, <2>1, <2>2, <2>3 DEF PostCredit, PostRow, TypeOK
  <2>5. QED
    BY <1>13, <2>1, <2>2, <2>4
      DEF PostCredit, PostRow, Existence, TypeOK, Idle, CreateReq, TransferReq,
          HoldReq, AskedReq, CaptureReq
<1>14. CASE PostOpening
  <2>1. req \in CreateReq /\ req.to \in Account /\ req.amount \in Int
    BY <1>14, RequestKind DEF PostOpening, PostRow, CreateReq
  <2>2. \/ req' = Idle
        \/ req' \in CreateReq /\ req'.from = req.from /\ req'.to = req.to
    BY <1>14, <2>1 DEF PostOpening, Goto, CreateReq
  <2>3. posted' \in [Account -> Int]
    BY <1>14, <2>1 DEF PostOpening, PostRow, Add, TypeOK
  <2>4. TypeOK'
    BY <1>14, <2>1, <2>2, <2>3 DEF PostOpening, PostRow, TypeOK
  <2>5. QED
    BY <1>14, <2>1, <2>2, <2>4
      DEF PostOpening, PostRow, Existence, TypeOK, Idle, CreateReq, TransferReq,
          HoldReq, AskedReq, CaptureReq
<1>15. CASE Remember
  <2>1. req \in TransferReq
    BY <1>15, RequestKind DEF Remember
  <2>2. keys' \in [Key -> {NoBody} \union Body]
    BY <1>15, <2>1 DEF Remember, TransferReq, Body, TypeOK
  <2>3. TypeOK'
    BY <1>15, <2>2 DEF Remember, TypeOK
  <2>4. QED
    BY <1>15, <2>3 DEF Remember, Existence, TypeOK, Idle, CreateReq, TransferReq,
           HoldReq, AskedReq, CaptureReq
<1>16. ASSUME NEW d \in Thread, NEW h \in Hold, StartVoid(d, h)
      PROVE  TypeOK' /\ Existence'
  <2>1. TypeOK'
    BY <1>16, ExpireType DEF StartVoid, TypeOK
  <2>2. QED
    BY <1>16, <2>1, ExpireType
      DEF StartVoid, Existence, TypeOK, Idle, CreateReq, TransferReq, HoldReq,
          AskedReq, CaptureReq
<1>17. ASSUME NEW d \in Thread, CheckVoid(d)
      PROVE  TypeOK' /\ Existence'
  <2>1. thread[d] \in [pc : {"check", "update"}, hold : Hold]
    BY <1>17 DEF CheckVoid, TypeOK, Idle
  <2>2. /\ thread' \in [Thread -> {Idle} \union [pc : {"check", "update"}, hold : Hold]]
        /\ \A e \in Thread \ {d} : thread'[e] = thread[e]
        /\ thread'[d].pc = "update" => holds[thread'[d].hold] # NoHold
    BY <1>17, <2>1 DEF CheckVoid, TypeOK, Idle, Active, NoHold
  <2>3. TypeOK'
    BY <1>17, <2>2 DEF CheckVoid, TypeOK
  <2>4. QED
    BY <1>17, <2>2, <2>3 DEF CheckVoid, Existence, TypeOK
<1>18. ASSUME NEW d \in Thread, UpdateVoid(d)
      PROVE  TypeOK' /\ Existence'
  <2>1. thread[d].hold \in Hold /\ holds[thread[d].hold] # NoHold
    BY <1>18 DEF UpdateVoid, Existence, TypeOK, Idle
  <2>2. SetStatus(thread[d].hold, "voided") /\ "voided" \in Statuses
    BY <1>18 DEF UpdateVoid, Statuses
  <2>3. /\ thread' \in [Thread -> {Idle} \union [pc : {"check", "update"}, hold : Hold]]
        /\ \A e \in Thread : thread'[e].pc = "update" => thread'[e] = thread[e]
        /\ answers' \in [Hold -> SUBSET {"captured", "voided"}]
    BY <1>18, <2>1 DEF UpdateVoid, TypeOK, Idle
  <2>4. TypeOK'
    BY <1>18, <2>1, <2>2, <2>3, SetStatusType DEF UpdateVoid, TypeOK
  <2>5. QED
    BY <1>18, <2>1, <2>2, <2>3, <2>4, SetStatusType
      DEF UpdateVoid, Existence, TypeOK, Idle, CreateReq, TransferReq, HoldReq,
          AskedReq, CaptureReq
<1>19. CASE GetAccount
  <2>1. TypeOK'
    BY <1>19, ExpireType DEF GetAccount, TypeOK
  <2>2. QED
    BY <1>19, <2>1, ExpireType
      DEF GetAccount, Existence, TypeOK, Idle, CreateReq, TransferReq, HoldReq,
          AskedReq, CaptureReq
<1>20. CASE Tick
  <2>1. TypeOK'
    BY <1>20 DEF Tick, TypeOK
  <2>2. QED
    BY <1>20, <2>1 DEF Tick, Existence
<1>21. CASE Cut
  <2>1. req.pc \notin {"check", "insert", "debit"} =>
          {req.from, req.to, req.tag} \subseteq Account \union Hold \union Key \union {NoKey}
    BY <1>21 DEF Cut, TypeOK, Idle, CreateReq, TransferReq, HoldReq, AskedReq,
           CaptureReq
  <2>2. TypeOK'
    BY <1>21, <2>1 DEF Cut, TypeOK
  <2>3. QED
    BY <1>21, <2>2 DEF Cut, Existence, TypeOK, Idle, CreateReq, TransferReq,
           HoldReq, AskedReq, CaptureReq
<1>22. ASSUME NEW d \in Thread, CutThread(d)
      PROVE  TypeOK' /\ Existence'
  <2>1. TypeOK'
    BY <1>22 DEF CutThread, TypeOK
  <2>2. QED
    BY <1>22, <2>1 DEF CutThread, Existence, TypeOK, Idle
<1>23. CASE UNCHANGED vars
  <2>1. TypeOK'
    BY <1>23 DEF vars, TypeOK
  <2>2. QED
    BY <1>23, <2>1 DEF vars, Existence
<1>24. QED
  BY <1>1, <1>2, <1>3, <1>4, <1>5, <1>6, <1>7, <1>8, <1>9, <1>10, <1>11, <1>12,
     <1>13, <1>14, <1>15, <1>16, <1>17, <1>18, <1>19, <1>20, <1>21, <1>22, <1>23
    DEF Next, EventLoop, Threads

\* What was cut stays so.
LEMMA CutGrows ==
  ASSUME [Next]_vars
  PROVE  cut \subseteq cut'
<1> USE DEF memory
<1>1. ASSUME NEW a \in Account, NEW amount \in Opening, CreateAccount(a, amount)
      PROVE  cut \subseteq cut'
  BY <1>1 DEF CreateAccount
<1>2. ASSUME NEW key \in Key \union {NoKey}, NEW body \in Body, StartTransfer(key, body)
      PROVE  cut \subseteq cut'
  BY <1>2 DEF StartTransfer, Start
<1>3. ASSUME NEW h \in Hold, NEW a \in Account, NEW amount \in Amount,
               NEW expires \in 0..MaxTime + 1, StartHold(h, a, amount, expires)
      PROVE  cut \subseteq cut'
  BY <1>3 DEF StartHold, Start
<1>4. ASSUME NEW h \in Hold, NEW to \in Account, NEW amount \in Amount \union {0},
               StartCapture(h, to, amount)
      PROVE  cut \subseteq cut'
  BY <1>4 DEF StartCapture, Start
<1>5. CASE CheckTransfer
  BY <1>5 DEF CheckTransfer, At, Goto
<1>6. CASE CheckHold
  BY <1>6 DEF CheckHold, At, Goto
<1>7. CASE InsertHold
  BY <1>7 DEF InsertHold, At
<1>8. CASE CheckCapture
  BY <1>8 DEF CheckCapture, At
<1>9. CASE Debit
  BY <1>9 DEF Debit, Goto, Add
<1>10. CASE Credit
  BY <1>10 DEF Credit, Goto, Add
<1>11. CASE Settle
  BY <1>11 DEF Settle, At, Goto
<1>12. CASE PostDebit
  BY <1>12 DEF PostDebit, PostRow, Goto, Add
<1>13. CASE PostCredit
  BY <1>13 DEF PostCredit, PostRow, AfterCredit, Goto, Add
<1>14. CASE PostOpening
  BY <1>14 DEF PostOpening, PostRow, Goto, Add
<1>15. CASE Remember
  BY <1>15 DEF Remember, At
<1>16. ASSUME NEW d \in Thread, NEW h \in Hold, StartVoid(d, h)
      PROVE  cut \subseteq cut'
  BY <1>16 DEF StartVoid
<1>17. ASSUME NEW d \in Thread, CheckVoid(d)
      PROVE  cut \subseteq cut'
  BY <1>17 DEF CheckVoid
<1>18. ASSUME NEW d \in Thread, UpdateVoid(d)
      PROVE  cut \subseteq cut'
  BY <1>18 DEF UpdateVoid
<1>19. CASE GetAccount
  BY <1>19 DEF GetAccount
<1>20. CASE Tick
  BY <1>20 DEF Tick
<1>21. CASE Cut
  BY <1>21 DEF Cut
<1>22. ASSUME NEW d \in Thread, CutThread(d)
      PROVE  cut \subseteq cut'
  BY <1>22 DEF CutThread
<1>23. CASE UNCHANGED vars
  BY <1>23 DEF vars
<1>24. QED
  BY <1>1, <1>2, <1>3, <1>4, <1>5, <1>6, <1>7, <1>8, <1>9, <1>10, <1>11, <1>12,
     <1>13, <1>14, <1>15, <1>16, <1>17, <1>18, <1>19, <1>20, <1>21, <1>22, <1>23
    DEF Next, EventLoop, Threads

\* A key and the request that carries it go through their states together.
LEMMA KeyStep ==
  ASSUME TypeOK, TypeOK', Existence, KeyInv, [Next]_vars
  PROVE  KeyInv'
<1> SUFFICES ASSUME NEW k \in Key, k \notin cut'
             PROVE  KeyOK(k)'
  BY DEF KeyInv
<1> USE LedgerAssumption DEF tables, memory
<1>0. k \in Key \ cut /\ KeyOK(k)
  BY CutGrows DEF KeyInv
<1>1. ASSUME NEW a \in Account, NEW amount \in Opening, CreateAccount(a, amount)
      PROVE  KeyOK(k)'
  BY <1>1, <1>0 DEF CreateAccount, KeyOK, TypeOK, Idle, CreateReq, TransferReq,
         HoldReq, AskedReq, CaptureReq
<1>2. ASSUME NEW key \in Key \union {NoKey}, NEW body \in Body, StartTransfer(key, body)
      PROVE  KeyOK(k)'
  BY <1>2, <1>0 DEF StartTransfer, Start, KeyOK, TypeOK, Idle, CreateReq,
         TransferReq, HoldReq, AskedReq, CaptureReq
<1>3. ASSUME NEW h \in Hold, NEW a \in Account, NEW amount \in Amount,
               NEW expires \in 0..MaxTime + 1, StartHold(h, a, amount, expires)
      PROVE  KeyOK(k)'
  BY <1>3, <1>0 DEF StartHold, Start, KeyOK, TypeOK, Idle, CreateReq,
         TransferReq, HoldReq, AskedReq, CaptureReq
<1>4. ASSUME NEW h \in Hold, NEW to \in Account, NEW amount \in Amount \union {0},
               StartCapture(h, to, amount)
      PROVE  KeyOK(k)'
  BY <1>4, <1>0 DEF StartCapture, Start, KeyOK, TypeOK, Idle, CreateReq,
         TransferReq, HoldReq, AskedReq, CaptureReq
<1>5. CASE CheckTransfer
  BY <1>5, <1>0 DEF CheckTransfer, At, Goto, KeyOK, TypeOK, Idle, CreateReq,
         TransferReq, HoldReq, AskedReq, CaptureReq
<1>6. CASE CheckHold
  BY <1>6, <1>0 DEF CheckHold, At, Goto, KeyOK, TypeOK, Idle, CreateReq,
         TransferReq, HoldReq, AskedReq, CaptureReq
<1>7. CASE InsertHold
  BY <1>7, <1>0 DEF InsertHold, At, KeyOK, TypeOK, Idle, CreateReq, TransferReq,
         HoldReq, AskedReq, CaptureReq
<1>8. CASE CheckCapture
  BY <1>8, <1>0 DEF CheckCapture, At, KeyOK, TypeOK, Idle, CreateReq,
         TransferReq, HoldReq, AskedReq, CaptureReq
<1>9. CASE Debit
  BY <1>9, <1>0 DEF Debit, Goto, Add, KeyOK, TypeOK, Idle, CreateReq,
         TransferReq, HoldReq, AskedReq, CaptureReq
<1>10. CASE Credit
  BY <1>10, <1>0 DEF Credit, Goto, Add, KeyOK, TypeOK, Idle, CreateReq,
         TransferReq, HoldReq, AskedReq, CaptureReq
<1>11. CASE Settle
  BY <1>11, <1>0 DEF Settle, At, Goto, KeyOK, TypeOK, Idle, CreateReq,
         TransferReq, HoldReq, AskedReq, CaptureReq
<1>12. CASE PostDebit
  BY <1>12, <1>0 DEF PostDebit, PostRow, Goto, Add, KeyOK, TypeOK, Idle,
         CreateReq, TransferReq, HoldReq, AskedReq, CaptureReq
<1>13. CASE PostCredit
  BY <1>13, <1>0 DEF PostCredit, PostRow, AfterCredit, Goto, Add, KeyOK, TypeOK,
         Idle, CreateReq, TransferReq, HoldReq, AskedReq, CaptureReq
<1>14. CASE PostOpening
  BY <1>14, <1>0 DEF PostOpening, PostRow, Goto, Add, KeyOK, TypeOK, Idle,
         CreateReq, TransferReq, HoldReq, AskedReq, CaptureReq
<1>15. CASE Remember
  <2>1. req \in TransferReq /\ req.pc = "remember"
    BY <1>15, RequestKind DEF Remember, At
  <2>2. [from |-> req.from, to |-> req.to, amount |-> req.amount] # NoBody
    BY <2>1 DEF TransferReq, NoBody
  <2>3. keys'[k] = IF k = req.tag THEN [from |-> req.from, to |-> req.to, amount |-> req.amount]
                   ELSE keys[k]
    BY <1>15 DEF Remember, TypeOK
  <2>4. req' = Idle /\ debits' = debits
    BY <1>15 DEF Remember
  <2>5. QED
    BY <1>0, <2>1, <2>2, <2>3, <2>4 DEF KeyOK, Idle, TransferReq
<1>16. ASSUME NEW d \in Thread, NEW h \in Hold, StartVoid(d, h)
      PROVE  KeyOK(k)'
  BY <1>16, <1>0 DEF StartVoid, KeyOK, TypeOK, Idle, CreateReq, TransferReq,
         HoldReq, AskedReq, CaptureReq
<1>17. ASSUME NEW d \in Thread, CheckVoid(d)
      PROVE  KeyOK(k)'
  BY <1>17, <1>0 DEF CheckVoid, KeyOK, TypeOK, Idle, CreateReq, TransferReq,
         HoldReq, AskedReq, CaptureReq
<1>18. ASSUME NEW d \in Thread, UpdateVoid(d)
      PROVE  KeyOK(k)'
  BY <1>18, <1>0 DEF UpdateVoid, KeyOK, TypeOK, Idle, CreateReq, TransferReq,
         HoldReq, AskedReq, CaptureReq
<1>19. CASE GetAccount
  BY <1>19, <1>0 DEF GetAccount, KeyOK, TypeOK, Idle, CreateReq, TransferReq,
         HoldReq, AskedReq, CaptureReq
<1>20. CASE Tick
  BY <1>20, <1>0 DEF Tick, KeyOK, TypeOK, Idle, CreateReq, TransferReq, HoldReq,
         AskedReq, CaptureReq
<1>21. CASE Cut
  BY <1>21, <1>0 DEF Cut, KeyOK, TypeOK, Idle, CreateReq, TransferReq, HoldReq,
         AskedReq, CaptureReq
<1>22. ASSUME NEW d \in Thread, CutThread(d)
      PROVE  KeyOK(k)'
  BY <1>22, <1>0 DEF CutThread, KeyOK, TypeOK, Idle, CreateReq, TransferReq,
         HoldReq, AskedReq, CaptureReq
<1>23. CASE UNCHANGED vars
  BY <1>23, <1>0 DEF vars, KeyOK, TypeOK, Idle, CreateReq, TransferReq, HoldReq,
         AskedReq, CaptureReq
<1>24. QED
  BY <1>1, <1>2, <1>3, <1>4, <1>5, <1>6, <1>7, <1>8, <1>9, <1>10, <1>11, <1>12,
     <1>13, <1>14, <1>15, <1>16, <1>17, <1>18, <1>19, <1>20, <1>21, <1>22, <1>23
    DEF Next, EventLoop, Threads

\* A hold and the capture of it go through their states together.
LEMMA HoldStep ==
  ASSUME TypeOK, TypeOK', Existence, HoldInv, [Next]_vars
  PROVE  HoldInv'
<1> SUFFICES ASSUME NEW h \in Hold, h \notin cut'
             PROVE  HoldOK(h)'
  BY DEF HoldInv
<1> USE LedgerAssumption DEF tables, memory
<1>0. h \in Hold \ cut /\ HoldOK(h)
  BY CutGrows DEF HoldInv
<1>1. ASSUME NEW a \in Account, NEW amount \in Opening, CreateAccount(a, amount)
      PROVE  HoldOK(h)'
  BY <1>1, <1>0 DEF CreateAccount, HoldOK, Active, Existence, TypeOK, Idle,
         CreateReq, TransferReq, HoldReq, AskedReq, CaptureReq
<1>2. ASSUME NEW key \in Key \union {NoKey}, NEW body \in Body, StartTransfer(key, body)
      PROVE  HoldOK(h)'
  <2>1. req = Idle /\ req' \notin CaptureReq /\ debits' = debits /\ ExpireStaleHolds
    BY <1>2 DEF StartTransfer, Start, CaptureReq
  <2>2. QED
    BY <1>0, <2>1, ExpireType DEF HoldOK, Active, Idle, CaptureReq
<1>3. ASSUME NEW g \in Hold, NEW a \in Account, NEW amount \in Amount,
               NEW expires \in 0..MaxTime + 1, StartHold(g, a, amount, expires)
      PROVE  HoldOK(h)'
  <2>1. req = Idle /\ req' \notin CaptureReq /\ debits' = debits /\ ExpireStaleHolds
    BY <1>3 DEF StartHold, Start, CaptureReq
  <2>2. QED
    BY <1>0, <2>1, ExpireType DEF HoldOK, Active, Idle, CaptureReq
<1>4. ASSUME NEW g \in Hold, NEW to \in Account, NEW amount \in Amount \union {0},
               StartCapture(g, to, amount)
      PROVE  HoldOK(h)'
  <2>1. req = Idle /\ req' \notin CaptureReq /\ debits' = debits /\ ExpireStaleHolds
    BY <1>4 DEF StartCapture, Start, CaptureReq
  <2>2. QED
    BY <1>0, <2>1, ExpireType DEF HoldOK, Active, Idle, CaptureReq
<1>5. CASE CheckTransfer
  BY <1>5, <1>0 DEF CheckTransfer, At, Goto, HoldOK, Active, Existence, TypeOK,
         Idle, CreateReq, TransferReq, HoldReq, AskedReq, CaptureReq
<1>6. CASE CheckHold
  BY <1>6, <1>0 DEF CheckHold, At, Goto, HoldOK, Active, Existence, TypeOK, Idle,
         CreateReq, TransferReq, HoldReq, AskedReq, CaptureReq
<1>7. CASE InsertHold
  BY <1>7, <1>0 DEF InsertHold, At, HoldOK, Active, Existence, TypeOK, Idle,
         CreateReq, TransferReq, HoldReq, AskedReq, CaptureReq
<1>8. CASE CheckCapture
  BY <1>8, <1>0 DEF CheckCapture, At, HoldOK, Active, Existence, TypeOK, Idle,
         CreateReq, TransferReq, HoldReq, AskedReq, CaptureReq
<1>9. CASE Debit
  BY <1>9, <1>0 DEF Debit, Goto, Add, HoldOK, Active, Existence, TypeOK, Idle,
         CreateReq, TransferReq, HoldReq, AskedReq, CaptureReq
<1>10. CASE Credit
  BY <1>10, <1>0 DEF Credit, Goto, Add, HoldOK, Active, Existence, TypeOK, Idle,
         CreateReq, TransferReq, HoldReq, AskedReq, CaptureReq
<1>11. CASE Settle
  <2>1. req \in CaptureReq /\ req.tag \in Hold /\ holds[req.tag] # NoHold /\ req.pc = "settle"
    BY <1>11, RequestKind DEF Settle, At, CaptureReq, Existence
  <2>2. /\ req' \in CaptureReq /\ req'.pc = "debitRow" /\ req'.tag = req.tag
        /\ debits' = debits
    BY <1>11, <2>1 DEF Settle, Goto, CaptureReq
  <2>3. SetStatus(req.tag, "captured") /\ "captured" \in Statuses
    BY <1>11 DEF Settle, Statuses
  <2>4. QED
    BY <1>0, <2>1, <2>2, <2>3, SetStatusType DEF HoldOK, Active
<1>12. CASE PostDebit
  BY <1>12, <1>0 DEF PostDebit, PostRow, Goto, Add, HoldOK, Active, Existence,
         TypeOK, Idle, CreateReq, TransferReq, HoldReq, AskedReq, CaptureReq
<1>13. CASE PostCredit
  BY <1>13, <1>0 DEF PostCredit, PostRow, AfterCredit, Goto, Add, HoldOK, Active,
         Existence, TypeOK, Idle, CreateReq, TransferReq, HoldReq, AskedReq,
         CaptureReq
<1>14. CASE PostOpening
  BY <1>14, <1>0 DEF PostOpening, PostRow, Goto, Add, HoldOK, Active, Existence,
         TypeOK, Idle, CreateReq, TransferReq, HoldReq, AskedReq, CaptureReq
<1>15. CASE Remember
  BY <1>15, <1>0 DEF Remember, At, HoldOK, Active, Existence, TypeOK, Idle,
         CreateReq, TransferReq, HoldReq, AskedReq, CaptureReq
<1>16. ASSUME NEW d \in Thread, NEW g \in Hold, StartVoid(d, g)
      PROVE  HoldOK(h)'
  <2>1. req' = req /\ debits' = debits /\ ExpireStaleHolds
    BY <1>16 DEF StartVoid
  <2>2. QED
    BY <1>0, <2>1, ExpireType DEF HoldOK, Active
<1>17. ASSUME NEW d \in Thread, CheckVoid(d)
      PROVE  HoldOK(h)'
  BY <1>17, <1>0 DEF CheckVoid, HoldOK, Active, Existence, TypeOK, Idle,
         CreateReq, TransferReq, HoldReq, AskedReq, CaptureReq
<1>18. ASSUME NEW d \in Thread, UpdateVoid(d)
      PROVE  HoldOK(h)'
  <2>1. /\ thread[d].hold \in Hold /\ holds[thread[d].hold] # NoHold
        /\ req' = req /\ debits' = debits
    BY <1>18 DEF UpdateVoid, Existence, TypeOK, Idle
  <2>2. SetStatus(thread[d].hold, "voided") /\ "voided" \in Statuses
    BY <1>18 DEF UpdateVoid, Statuses
  <2>3. QED
    BY <1>0, <2>1, <2>2, SetStatusType DEF HoldOK, Active
<1>19. CASE GetAccount
  <2>1. req' = req /\ debits' = debits /\ ExpireStaleHolds
    BY <1>19 DEF GetAccount
  <2>2. QED
    BY <1>0, <2>1, ExpireType DEF HoldOK, Active
<1>20. CASE Tick
  BY <1>20, <1>0 DEF Tick, HoldOK, Active, Existence, TypeOK, Idle, CreateReq,
         TransferReq, HoldReq, AskedReq, CaptureReq
<1>21. CASE Cut
  BY <1>21, <1>0 DEF Cut, HoldOK, Active, Existence, TypeOK, Idle, CreateReq,
         TransferReq, HoldReq, AskedReq, CaptureReq
<1>22. ASSUME NEW d \in Thread, CutThread(d)
      PROVE  HoldOK(h)'
  BY <1>22, <1>0 DEF CutThread, HoldOK, Active, Existence, TypeOK, Idle,
         CreateReq, TransferReq, HoldReq, AskedReq, CaptureReq
<1>23. CASE UNCHANGED vars
  BY <1>23, <1>0 DEF vars, HoldOK, Active, Existence, TypeOK, Idle, CreateReq,
         TransferReq, HoldReq, AskedReq, CaptureReq
<1>24. QED
  BY <1>1, <1>2, <1>3, <1>4, <1>5, <1>6, <1>7, <1>8, <1>9, <1>10, <1>11, <1>12,
     <1>13, <1>14, <1>15, <1>16, <1>17, <1>18, <1>19, <1>20, <1>21, <1>22, <1>23
    DEF Next, EventLoop, Threads

\* Balances, rows and stray credits of an account move together.
LEMMA BalanceStep ==
  ASSUME TypeOK, TypeOK', Existence, BalanceInv, [Next]_vars
  PROVE  BalanceInv'
<1> SUFFICES ASSUME NEW a \in Account, a \notin cut'
             PROVE  BalanceOK(a)'
  BY DEF BalanceInv
<1> USE LedgerAssumption DEF tables, memory
<1>0. a \in Account \ cut /\ BalanceOK(a)
  BY CutGrows DEF BalanceInv
<1>m. /\ Amount \subseteq Int
      /\ \A r \in CreateReq : r.amount \in Int
      /\ \A r \in TransferReq \union CaptureReq : r.amount \in Amount
  BY DEF CreateReq, TransferReq, CaptureReq
<1>k. req.pc \in {"credit", "settle", "debitRow", "creditRow", "created"} =>
        req \in CreateReq \union TransferReq \union CaptureReq
  BY DEF TypeOK, Idle, HoldReq, AskedReq
<1>n. /\ balance[a] \in Int /\ opening[a] \in Int /\ posted[a] \in Int /\ stray[a] \in Int
      /\ req.pc \in {"credit", "settle", "debitRow", "creditRow", "created"} => req.amount \in Int
  BY <1>m, <1>k DEF TypeOK
<1>1. ASSUME NEW b \in Account, NEW amount \in Opening, CreateAccount(b, amount)
      PROVE  BalanceOK(a)'
  BY <1>1, <1>0, <1>n DEF CreateAccount, BalanceOK, Drift, Existence, TypeOK,
         Idle, CreateReq, TransferReq, HoldReq, AskedReq, CaptureReq
<1>2. ASSUME NEW key \in Key \union {NoKey}, NEW body \in Body, StartTransfer(key, body)
      PROVE  BalanceOK(a)'
  BY <1>2, <1>0, <1>n DEF StartTransfer, Start, BalanceOK, Drift, Existence,
         TypeOK, Idle, CreateReq, TransferReq, HoldReq, AskedReq, CaptureReq
<1>3. ASSUME NEW g \in Hold, NEW b \in Account, NEW amount \in Amount,
               NEW expires \in 0..MaxTime + 1, StartHold(g, b, amount, expires)
      PROVE  BalanceOK(a)'
  BY <1>3, <1>0, <1>n DEF StartHold, Start, BalanceOK, Drift, Existence, TypeOK,
         Idle, CreateReq, TransferReq, HoldReq, AskedReq, CaptureReq
<1>4. ASSUME NEW g \in Hold, NEW to \in Account, NEW amount \in Amount \union {0},
               StartCapture(g, to, amount)
      PROVE  BalanceOK(a)'
  BY <1>4, <1>0, <1>n DEF StartCapture, Start, BalanceOK, Drift, Existence,
         TypeOK, Idle, CreateReq, TransferReq, HoldReq, AskedReq, CaptureReq
<1>5. CASE CheckTransfer
  BY <1>5, <1>0, <1>n DEF CheckTransfer, At, Goto, BalanceOK, Drift, Existence,
         TypeOK, Idle, CreateReq, TransferReq, HoldReq, AskedReq, CaptureReq
<1>6. CASE CheckHold
  BY <1>6, <1>0, <1>n DEF CheckHold, At, Goto, BalanceOK, Drift, Existence,
         TypeOK, Idle, CreateReq, TransferReq, HoldReq, AskedReq, CaptureReq
<1>7. CASE InsertHold
  BY <1>7, <1>0, <1>n DEF InsertHold, At, BalanceOK, Drift, Existence, TypeOK,
         Idle, CreateReq, TransferReq, HoldReq, AskedReq, CaptureReq
<1>8. CASE CheckCapture
  BY <1>8, <1>0, <1>n DEF CheckCapture, At, BalanceOK, Drift, Existence, TypeOK,
         Idle, CreateReq, TransferReq, HoldReq, AskedReq, CaptureReq
<1>9. CASE Debit
  BY <1>9, <1>0, <1>n DEF Debit, Goto, Add, BalanceOK, Drift, Existence, TypeOK,
         Idle, CreateReq, TransferReq, HoldReq, AskedReq, CaptureReq
<1>10. CASE Credit
  BY <1>10, <1>0, <1>n DEF Credit, Goto, Add, BalanceOK, Drift, Existence,
         TypeOK, Idle, CreateReq, TransferReq, HoldReq, AskedReq, CaptureReq
<1>11. CASE Settle
  BY <1>11, <1>0, <1>n DEF Settle, At, Goto, BalanceOK, Drift, Existence, TypeOK,
         Idle, CreateReq, TransferReq, HoldReq, AskedReq, CaptureReq
<1>12. CASE PostDebit
  BY <1>12, <1>0, <1>n DEF PostDebit, PostRow, Goto, Add, BalanceOK, Drift,
         Existence, TypeOK, Idle, CreateReq, TransferReq, HoldReq, AskedReq,
         CaptureReq
<1>13. CASE PostCredit
  BY <1>13, <1>0, <1>n DEF PostCredit, PostRow, AfterCredit, Goto, Add,
         BalanceOK, Drift, Existence, TypeOK, Idle, CreateReq, TransferReq,
         HoldReq, AskedReq, CaptureReq
<1>14. CASE PostOpening
  BY <1>14, <1>0, <1>n DEF PostOpening, PostRow, Goto, Add, BalanceOK, Drift,
         Existence, TypeOK, Idle, CreateReq, TransferReq, HoldReq, AskedReq,
         CaptureReq
<1>15. CASE Remember
  BY <1>15, <1>0, <1>n DEF Remember, At, BalanceOK, Drift, Existence, TypeOK,
         Idle, CreateReq, TransferReq, HoldReq, AskedReq, CaptureReq
<1>16. ASSUME NEW d \in Thread, NEW g \in Hold, StartVoid(d, g)
      PROVE  BalanceOK(a)'
  BY <1>16, <1>0, <1>n DEF StartVoid, BalanceOK, Drift, Existence, TypeOK, Idle,
         CreateReq, TransferReq, HoldReq, AskedReq, CaptureReq
<1>17. ASSUME NEW d \in Thread, CheckVoid(d)
      PROVE  BalanceOK(a)'
  BY <1>17, <1>0, <1>n DEF CheckVoid, BalanceOK, Drift, Existence, TypeOK, Idle,
         CreateReq, TransferReq, HoldReq, AskedReq, CaptureReq
<1>18. ASSUME NEW d \in Thread, UpdateVoid(d)
      PROVE  BalanceOK(a)'
  BY <1>18, <1>0, <1>n DEF UpdateVoid, BalanceOK, Drift, Existence, TypeOK, Idle,
         CreateReq, TransferReq, HoldReq, AskedReq, CaptureReq
<1>19. CASE GetAccount
  BY <1>19, <1>0, <1>n DEF GetAccount, BalanceOK, Drift, Existence, TypeOK, Idle,
         CreateReq, TransferReq, HoldReq, AskedReq, CaptureReq
<1>20. CASE Tick
  BY <1>20, <1>0, <1>n DEF Tick, BalanceOK, Drift, Existence, TypeOK, Idle,
         CreateReq, TransferReq, HoldReq, AskedReq, CaptureReq
<1>21. CASE Cut
  BY <1>21, <1>0, <1>n DEF Cut, BalanceOK, Drift, Existence, TypeOK, Idle,
         CreateReq, TransferReq, HoldReq, AskedReq, CaptureReq
<1>22. ASSUME NEW d \in Thread, CutThread(d)
      PROVE  BalanceOK(a)'
  BY <1>22, <1>0, <1>n DEF CutThread, BalanceOK, Drift, Existence, TypeOK, Idle,
         CreateReq, TransferReq, HoldReq, AskedReq, CaptureReq
<1>23. CASE UNCHANGED vars
  BY <1>23, <1>0, <1>n DEF vars, BalanceOK, Drift, Existence, TypeOK, Idle,
         CreateReq, TransferReq, HoldReq, AskedReq, CaptureReq
<1>24. QED
  BY <1>1, <1>2, <1>3, <1>4, <1>5, <1>6, <1>7, <1>8, <1>9, <1>10, <1>11, <1>12,
     <1>13, <1>14, <1>15, <1>16, <1>17, <1>18, <1>19, <1>20, <1>21, <1>22, <1>23
    DEF Next, EventLoop, Threads

\* Nothing is held anew: a hold that is active later is as it was.
HoldsShrink ==
  /\ now <= now'
  /\ \A h \in Hold : Active(h)' => Active(h) /\ holds'[h] = holds[h]

LEMMA RowTypes ==
  ASSUME TypeOK
  PROVE  \A h \in Hold : Active(h) =>
           /\ holds[h] \in HoldRow /\ holds[h].account \in accounts
           /\ holds[h].amount \in Nat /\ holds[h].amount > 0
<1>1. \A h \in Hold : Active(h) => holds[h] \in HoldRow /\ holds[h] # NoHold
  BY DEF TypeOK, Active, HoldRow, NoHold
<1>2. \A row \in HoldRow : row.amount \in Amount
  BY DEF HoldRow
<1>3. \A amount \in Amount : amount \in Nat /\ amount > 0
  BY LedgerAssumption
<1>4. QED
  BY <1>1, <1>2, <1>3 DEF TypeOK

LEMMA RowTypesNext ==
  ASSUME TypeOK'
  PROVE  \A h \in Hold : Active(h)' =>
           /\ holds'[h].account \in accounts'
           /\ holds'[h].amount \in Int
<1>1. \A h \in Hold : Active(h)' => holds'[h] \in HoldRow /\ holds'[h] # NoHold
  BY DEF TypeOK, Active, HoldRow, NoHold
<1>2. \A row \in HoldRow : row.amount \in Amount
  BY DEF HoldRow
<1>3. Amount \subseteq Int
  BY LedgerAssumption
<1>4. QED
  BY <1>1, <1>2, <1>3 DEF TypeOK

\* Every step but the insertion of a hold.
LEMMA ShrinkSteps ==
  ASSUME TypeOK, [Next]_vars, ~InsertHold
  PROVE  HoldsShrink
<1>1. ASSUME UNCHANGED holds, now' \in {now, now + 1}
      PROVE  HoldsShrink
  BY <1>1 DEF HoldsShrink, Active, TypeOK
<1>2. ASSUME ExpireStaleHolds, UNCHANGED now
      PROVE  HoldsShrink
  BY <1>2 DEF HoldsShrink, ExpireStaleHolds, Active, TypeOK, HoldRow, NoHold
<1>3. ASSUME NEW h \in Hold, NEW st \in {"captured", "voided"}, SetStatus(h, st),
             UNCHANGED now
      PROVE  HoldsShrink
  <2>1. \A g \in Hold : g # h => holds'[g] = holds[g]
    BY <1>3 DEF SetStatus, TypeOK
  <2>2. ~Active(h)'
    BY <1>3 DEF SetStatus, Active, TypeOK, HoldRow, NoHold
  <2>3. QED
    BY <1>3, <2>1, <2>2 DEF HoldsShrink, Active, TypeOK
<1>4. ASSUME \E a \in Account, amount \in Opening : CreateAccount(a, amount)
      PROVE  HoldsShrink
  BY <1>4, <1>1 DEF CreateAccount
<1>5. ASSUME \E key \in Key \union {NoKey}, body \in Body : StartTransfer(key, body)
      PROVE  HoldsShrink
  BY <1>5, <1>2 DEF StartTransfer, Start
<1>6. ASSUME \E h \in Hold, a \in Account, amount \in Amount, expires \in 0..MaxTime + 1 :
               StartHold(h, a, amount, expires)
      PROVE  HoldsShrink
  BY <1>6, <1>2 DEF StartHold, Start
<1>7. ASSUME \E h \in Hold, to \in Account, amount \in Amount \union {0} :
               StartCapture(h, to, amount)
      PROVE  HoldsShrink
  BY <1>7, <1>2 DEF StartCapture, Start
<1>8. CASE CheckTransfer \/ CheckHold \/ CheckCapture \/ Debit \/ Credit
  BY <1>8, <1>1 DEF CheckTransfer, CheckHold, CheckCapture, Debit, Credit, tables
<1>9. CASE Settle
  <2>1. req.tag \in Hold
    BY <1>9, RequestKind DEF Settle, CaptureReq
  <2>2. QED
    BY <1>9, <1>3, <2>1 DEF Settle
<1>10. CASE PostDebit \/ PostCredit \/ PostOpening \/ Remember
  BY <1>10, <1>1 DEF PostDebit, PostCredit, PostOpening, PostRow, Remember, tables
<1>11. ASSUME NEW d \in Thread, (\E h \in Hold : StartVoid(d, h)) \/ CheckVoid(d) \/ UpdateVoid(d)
       PROVE  HoldsShrink
  <2>1. CASE \E h \in Hold : StartVoid(d, h)
    BY <2>1, <1>2 DEF StartVoid
  <2>2. CASE CheckVoid(d)
    BY <2>2, <1>1 DEF CheckVoid, tables
  <2>3. CASE UpdateVoid(d)
    <3>1. thread[d].hold \in Hold
      BY <2>3 DEF UpdateVoid, TypeOK, Idle
    <3>2. QED
      BY <2>3, <3>1, <1>3 DEF UpdateVoid
  <2>4. QED
    BY <1>11, <2>1, <2>2, <2>3
<1>12. CASE GetAccount
  BY <1>12, <1>2 DEF GetAccount
<1>13. CASE Tick \/ Cut \/ (\E d \in Thread : CutThread(d)) \/ UNCHANGED vars
  BY <1>13, <1>1 DEF Tick, Cut, CutThread, vars, tables
<1>14. QED
  BY <1>4, <1>5, <1>6, <1>7, <1>8, <1>9, <1>10, <1>11, <1>12, <1>13
    DEF Next, EventLoop, Threads

\* What is tied up of an account shrinks with its holds.
\* The holds that count against an account only go.
LEMMA HoldsOfShrinks ==
  ASSUME TypeOK, TypeOK', HoldsShrink, NEW a
  PROVE  HoldsOf(a)' \subseteq HoldsOf(a)
<1>1. \A h \in Hold : Active(h) => holds[h].expires \in Int
  BY RowTypes, LedgerAssumption DEF HoldRow
<1>2. now \in Int /\ now' \in Int /\ now <= now'
  BY LedgerAssumption DEF TypeOK, HoldsShrink
<1>3. ASSUME NEW h \in HoldsOf(a)'
      PROVE  h \in HoldsOf(a)
  <2>1. h \in Hold /\ Active(h)' /\ holds'[h].account = a /\ holds'[h].expires > now'
    BY <1>3 DEF HoldsOf
  <2>2. Active(h) /\ holds'[h] = holds[h]
    BY <2>1 DEF HoldsShrink
  <2>3. QED
    BY <1>1, <1>2, <2>1, <2>2 DEF HoldsOf
<1>4. QED
  BY <1>3

LEMMA TiedShrinks ==
  ASSUME TypeOK, TypeOK', HoldsShrink, NEW a,
         NEW H, H \subseteq HoldsOf(a), NEW G, G \subseteq H, G \subseteq HoldsOf(a)'
  PROVE  /\ AmountOf(holds, H) \in Int /\ AmountOf(holds', G) \in Int
         /\ AmountOf(holds', G) <= AmountOf(holds, H)
<1>1. H \subseteq Hold /\ \A h \in H : Active(h)
  BY DEF HoldsOf
<1>2. \A h \in G : h \in Hold /\ Active(h)'
  BY DEF HoldsOf
<1>3. /\ IsFiniteSet(H) /\ IsFiniteSet(G)
      /\ \A h \in H : holds[h].amount \in Nat
      /\ \A h \in G : holds'[h] = holds[h]
  BY <1>1, <1>2, RowTypes, IdsAreFinite, FS_Subset DEF HoldsShrink
<1>4. \A h \in H : holds[h].amount \in Int
  BY <1>3
<1>5. \A h \in G : holds'[h].amount \in Int
  BY <1>3, <1>4
<1>6. QED
  BY <1>3, <1>4, <1>5, AmountType, AmountFewer

\* A step that leaves balances no lower and ties up no more keeps holds covered.
LEMMA CoverKept ==
  ASSUME TypeOK, TypeOK', HoldsAreCovered, HoldsShrink,
         accounts' = accounts, opening' = opening, cut \subseteq cut',
         \A a \in Account : balance'[a] >= balance[a],
         \A h \in Hold : req.pc \in {"credit", "settle"} /\ req.tag = h =>
           \/ req'.pc \in {"credit", "settle"} /\ req'.tag = h
           \/ ~Active(h)'
           \/ holds[h].account \in cut'
  PROVE  HoldsAreCovered'
<1> SUFFICES ASSUME NEW a \in accounts', a \notin cut', opening'[a] >= 0
             PROVE  balance'[a] >= AmountOf(holds', Tied(a)')
  BY DEF HoldsAreCovered, TiedUp
<1>1. a \in accounts /\ a \notin cut /\ opening[a] >= 0 /\ a \in Account
  BY DEF TypeOK
<1>2. balance[a] >= AmountOf(holds, Tied(a))
  BY <1>1 DEF HoldsAreCovered, TiedUp
<1>3. Tied(a)' \subseteq Tied(a)
  <2>1. ASSUME NEW h \in Tied(a)'
        PROVE  h \in Tied(a)
    <3>1. /\ h \in HoldsOf(a)' /\ h \in HoldsOf(a)
          /\ ~(req'.pc \in {"credit", "settle"} /\ req'.tag = h)
      BY <2>1, HoldsOfShrinks DEF Tied
    <3>2. h \in Hold /\ Active(h)' /\ holds[h].account = a
      BY <3>1 DEF HoldsOf
    <3>3. QED
      BY <3>1, <3>2 DEF Tied
  <2>2. QED
    BY <2>1
<1>4. Tied(a) \subseteq HoldsOf(a) /\ Tied(a)' \subseteq HoldsOf(a)'
  BY DEF Tied
<1>5. /\ AmountOf(holds, Tied(a)) \in Int /\ AmountOf(holds', Tied(a)') \in Int
      /\ AmountOf(holds', Tied(a)') <= AmountOf(holds, Tied(a))
  <2> DEFINE G == Tied(a)'
             H == Tied(a)
  <2>1. H \subseteq HoldsOf(a) /\ G \subseteq HoldsOf(a)' /\ G \subseteq H
    BY <1>3, <1>4
  <2> HIDE DEF G, H
  <2>2. /\ AmountOf(holds, H) \in Int /\ AmountOf(holds', G) \in Int
        /\ AmountOf(holds', G) <= AmountOf(holds, H)
    BY <2>1, TiedShrinks
  <2>3. QED
    BY <2>2 DEF G, H
<1>6. balance[a] \in Int /\ balance'[a] \in Int /\ balance'[a] >= balance[a]
  BY <1>1 DEF TypeOK
<1>7. QED
  BY <1>2, <1>5, <1>6

\* A step that leaves the request and the balances alone keeps what it may take.
LEMMA ClaimKept ==
  ASSUME TypeOK, TypeOK', Existence, ClaimInv, HoldsShrink, req' = req, cut' = cut,
         balance' = balance, opening' = opening,
         \A h \in Hold : holds[h] # NoHold => holds'[h].account = holds[h].account
  PROVE  ClaimInv'
<1>1. ASSUME NEW a, NEW amount, amount \in Int, NEW tag, Affords(a, amount, tag)
      PROVE  a \in Account /\ a \notin cut' /\ opening'[a] >= 0 =>
               balance'[a] >= amount + AmountOf(holds', HoldsOf(a)' \ {tag})
  <2> SUFFICES ASSUME a \in Account, a \notin cut', opening'[a] >= 0
               PROVE  balance'[a] >= amount + AmountOf(holds', HoldsOf(a)' \ {tag})
    OBVIOUS
  <2> DEFINE H == HoldsOf(a) \ {tag}
             G == HoldsOf(a)' \ {tag}
  <2>1. H \subseteq HoldsOf(a) /\ G \subseteq H /\ G \subseteq HoldsOf(a)'
    BY HoldsOfShrinks
  <2>2. balance[a] >= amount + AmountOf(holds, H)
    BY <1>1 DEF Affords
  <2>3. balance'[a] \in Int /\ balance'[a] = balance[a]
    BY DEF TypeOK
  <2> HIDE DEF G, H
  <2>4. /\ AmountOf(holds, H) \in Int /\ AmountOf(holds', G) \in Int
        /\ AmountOf(holds', G) <= AmountOf(holds, H)
    BY <2>1, TiedShrinks
  <2>5. balance'[a] >= amount + AmountOf(holds', G)
    BY <1>1, <2>2, <2>3, <2>4
  <2>6. QED
    BY <2>5 DEF G
<1>2. req' \in CaptureReq => req'.from = holds'[req'.tag].account
  BY DEF ClaimInv, CaptureReq, Existence
<1>3. ASSUME req.pc \in {"debit", "insert"}, NEW a, a = req.from, NEW amount, amount = req.amount,
             NEW tag, tag = req.tag
      PROVE  a \notin cut' /\ opening'[a] >= 0 =>
               balance'[a] >= amount + AmountOf(holds', HoldsOf(a)' \ {tag})
  <2>1. Affords(a, amount, tag)
    BY <1>3 DEF ClaimInv
  <2>2. a \in Account /\ amount \in Amount
    BY <1>3 DEF TypeOK, Idle, CreateReq, TransferReq, HoldReq, AskedReq, CaptureReq
  <2>3. amount \in Int
    BY <2>2, LedgerAssumption
  <2>4. QED
    BY <1>1, <2>1, <2>2, <2>3
<1>4. ASSUME At("capture", "check"), NEW tag, tag = req.tag, Active(tag)',
             NEW a, a = holds'[tag].account, NEW amount, amount = holds'[tag].amount
      PROVE  a \notin cut' /\ opening'[a] >= 0 =>
               balance'[a] >= amount + AmountOf(holds', HoldsOf(a)' \ {tag})
  <2>1. tag \in Hold
    BY <1>4, RequestKind DEF AskedReq
  <2>2. Active(tag) /\ holds'[tag] = holds[tag]
    BY <1>4, <2>1 DEF HoldsShrink
  <2>3. Affords(a, amount, tag)
    BY <1>4, <2>2 DEF ClaimInv
  <2>4. a \in Account /\ amount \in Int
    BY <1>4, <2>1, <2>2, RowTypes DEF TypeOK
  <2>5. QED
    BY <1>1, <2>3, <2>4
<1>5. QED
  BY <1>2, <1>3, <1>4 DEF ClaimInv, Affords, At

\* Active holds stay covered, and so does what a request was told it may take.
LEMMA CoverStep ==
  ASSUME TypeOK, TypeOK', Existence, HoldsAreCovered, ClaimInv, HoldInv, [Next]_vars
  PROVE  HoldsAreCovered' /\ ClaimInv'
<1> USE LedgerAssumption DEF tables, memory
<1>t. TypeOK /\ [Next]_vars
  OBVIOUS
<1>0. cut \subseteq cut' /\ (~InsertHold => HoldsShrink)
  BY CutGrows, ShrinkSteps
<1>n. /\ balance \in [Account -> Int] /\ opening \in [Account -> Int] /\ accounts \subseteq Account
      /\ \A b \in Account : balance[b] >= balance[b]
      /\ Amount \subseteq Nat \ {0}
  BY DEF TypeOK
<1>1. ASSUME NEW a \in Account, NEW amount \in Opening, CreateAccount(a, amount)
      PROVE  HoldsAreCovered' /\ ClaimInv'
  <2>1. req = Idle /\ holds' = holds /\ now' = now /\ cut' = cut /\ a \notin accounts
        /\ req'.pc \notin {"check", "debit", "insert", "credit", "settle"} /\ req' \notin CaptureReq
    BY <1>1 DEF CreateAccount, Idle, CaptureReq
  <2>2. ClaimInv'
    BY <2>1 DEF ClaimInv, At
  <2>3. ASSUME NEW b \in accounts', b \notin cut', opening'[b] >= 0
        PROVE  balance'[b] >= AmountOf(holds', Tied(b)')
    <3>1. Tied(b)' = HoldsOf(b) /\ Tied(b) = HoldsOf(b)
      BY <2>1 DEF Tied, HoldsOf, Active, Idle
    <3>2. CASE b = a
      <4>1. HoldsOf(b) = {}
        BY <2>1, <3>2, RowTypes DEF HoldsOf
      <4>2. balance'[b] >= 0
        BY <1>1, <1>n, <2>3, <3>2 DEF CreateAccount
      <4>3. QED
        BY <3>1, <4>1, <4>2, AmountEmpty
    <3>3. CASE b # a
      <4>1. b \in accounts /\ balance'[b] = balance[b] /\ opening'[b] = opening[b]
        BY <1>1, <1>n, <2>3, <3>3 DEF CreateAccount
      <4>2. balance[b] >= AmountOf(holds, Tied(b))
        BY <2>1, <2>3, <4>1 DEF HoldsAreCovered, TiedUp
      <4>3. QED
        BY <2>1, <3>1, <4>1, <4>2
    <3>4. QED
      BY <3>2, <3>3
  <2>4. QED
    BY <2>2, <2>3 DEF HoldsAreCovered, TiedUp
<1>2. ASSUME NEW key \in Key \union {NoKey}, NEW body \in Body, StartTransfer(key, body)
      PROVE  HoldsAreCovered' /\ ClaimInv'
  <2>1. /\ req = Idle /\ req'.pc = "check" /\ req'.op = "transfer" /\ req' \notin CaptureReq
        /\ accounts' = accounts /\ opening' = opening /\ balance' = balance /\ ~InsertHold
    BY <1>2 DEF StartTransfer, Start, CaptureReq, InsertHold, At, Idle
  <2>2. ClaimInv'
    BY <2>1 DEF ClaimInv, At
  <2>3. HoldsAreCovered'
    BY <1>0, <1>n, <2>1, CoverKept DEF Idle
  <2>4. QED
    BY <2>2, <2>3
<1>3. ASSUME NEW h \in Hold, NEW a \in Account, NEW amount \in Amount,
              NEW expires \in 0..MaxTime + 1, StartHold(h, a, amount, expires)
      PROVE  HoldsAreCovered' /\ ClaimInv'
  <2>1. /\ req = Idle /\ req'.pc = "check" /\ req'.op = "hold" /\ req' \notin CaptureReq
        /\ accounts' = accounts /\ opening' = opening /\ balance' = balance /\ ~InsertHold
    BY <1>3 DEF StartHold, Start, CaptureReq, InsertHold, At, Idle
  <2>2. ClaimInv'
    BY <2>1 DEF ClaimInv, At
  <2>3. HoldsAreCovered'
    BY <1>0, <1>n, <2>1, CoverKept DEF Idle
  <2>4. QED
    BY <2>2, <2>3
<1>4. ASSUME NEW h \in Hold, NEW to \in Account, NEW amount \in Amount \union {0},
              StartCapture(h, to, amount)
      PROVE  HoldsAreCovered' /\ ClaimInv'
  <2>1. /\ req = Idle /\ req'.pc = "check" /\ req'.tag = h /\ req' \notin CaptureReq
        /\ accounts' = accounts /\ opening' = opening /\ balance' = balance /\ ~InsertHold
        /\ ExpireStaleHolds /\ now' = now
    BY <1>4 DEF StartCapture, Start, CaptureReq, InsertHold, At, Idle
  <2>2. HoldsAreCovered'
    BY <1>0, <1>n, <2>1, CoverKept DEF Idle
  <2>3. ASSUME Active(h)', NEW a, a = holds'[h].account, NEW m, m = holds'[h].amount,
               a \notin cut', opening'[a] >= 0
        PROVE  balance'[a] >= m + AmountOf(holds', HoldsOf(a)' \ {h})
    <3> DEFINE H == HoldsOf(a)'
    <3>1. a \in accounts' /\ m \in Int /\ H \subseteq Hold
      BY <1>4, <2>3, RowTypesNext DEF HoldsOf
    <3>2. h \in H
      BY <2>1, <2>3, RowTypes DEF HoldsOf, ExpireStaleHolds, Active, TypeOK, HoldRow
    <3>3. Tied(a)' = H
      BY <2>1 DEF Tied
    <3>4. balance'[a] >= AmountOf(holds', H)
      BY <2>2, <2>3, <3>1, <3>3 DEF HoldsAreCovered, TiedUp
    <3>5. IsFiniteSet(H) /\ \A g \in H : holds'[g].amount \in Int
      BY <3>1, IdsAreFinite, FS_Subset, RowTypesNext DEF HoldsOf
    <3> HIDE DEF H
    <3>6. AmountOf(holds', H) = m + AmountOf(holds', H \ {h})
      BY <2>3, <3>2, <3>5, AmountRemove
    <3>7. QED
      BY <3>4, <3>6 DEF H
  <2>4. ClaimInv'
    BY <2>1, <2>3 DEF ClaimInv, At, Affords
  <2>5. QED
    BY <2>2, <2>4
<1>5. CASE CheckTransfer
  <2>1. req \in TransferReq /\ ~InsertHold /\ req.pc = "check"
    BY <1>5, RequestKind DEF CheckTransfer, InsertHold, At
  <2>2. /\ accounts' = accounts /\ opening' = opening /\ balance' = balance /\ cut' = cut
        /\ holds' = holds /\ now' = now
    BY <1>5 DEF CheckTransfer
  <2>3. HoldsAreCovered'
    BY <1>0, <1>n, <2>1, <2>2, CoverKept
  <2>4. CASE req' = Idle
    BY <2>3, <2>4 DEF ClaimInv, At, Idle, CaptureReq
  <2>5. CASE req' # Idle
    <3>1. /\ req'.pc = "debit" /\ req' \notin CaptureReq /\ req'.tag = req.tag
          /\ req'.from = req.from /\ req'.amount = req.amount
          /\ balance[req.from] - Reserved(req.from) >= req.amount
      BY <1>5, <2>1, <2>5 DEF CheckTransfer, Goto, At, TransferReq, CaptureReq, Available
    <3>2. ASSUME NEW a, a = req.from, NEW m, m = req.amount, NEW tag, tag = req.tag
          PROVE  balance[a] >= m + AmountOf(holds, HoldsOf(a) \ {tag})
      <4>1. tag \notin Hold /\ HoldsOf(a) \ {tag} = HoldsOf(a)
        BY <2>1, <3>2 DEF TransferReq, HoldsOf
      <4>2. IsFiniteSet(HoldsOf(a)) /\ \A g \in HoldsOf(a) : holds[g].amount \in Int
        BY IdsAreFinite, FS_Subset, RowTypes DEF HoldsOf
      <4>3. AmountOf(holds, HoldsOf(a)) \in Int
        BY <4>2, AmountType
      <4>4. balance[a] \in Int /\ m \in Int
        BY <2>1, <1>n, <3>2 DEF TransferReq
      <4>5. balance[a] - AmountOf(holds, HoldsOf(a)) >= m
        BY <3>1, <3>2 DEF Reserved
      <4>6. balance[a] >= m + AmountOf(holds, HoldsOf(a))
        BY <4>3, <4>4, <4>5
      <4>7. QED
        BY <4>1, <4>6
    <3>3. ClaimInv'
      BY <2>2, <3>1, <3>2 DEF ClaimInv, At, Affords, HoldsOf, Active
    <3>4. QED
      BY <2>3, <3>3
  <2>6. QED
    BY <2>4, <2>5
<1>6. CASE CheckHold
  <2>1. req \in HoldReq /\ ~InsertHold /\ req.pc = "check"
    BY <1>6, RequestKind DEF CheckHold, InsertHold, At
  <2>2. /\ accounts' = accounts /\ opening' = opening /\ balance' = balance /\ cut' = cut
        /\ holds' = holds /\ now' = now
    BY <1>6 DEF CheckHold
  <2>3. HoldsAreCovered'
    BY <1>0, <1>n, <2>1, <2>2, CoverKept
  <2>4. CASE req' = Idle
    BY <2>3, <2>4 DEF ClaimInv, At, Idle, CaptureReq
  <2>5. CASE req' # Idle
    <3>1. /\ req'.pc = "insert" /\ req' \notin CaptureReq /\ req'.tag = req.tag
          /\ req'.from = req.from /\ req'.amount = req.amount
          /\ req.amount <= balance[req.from] - Reserved(req.from)
      BY <1>6, <2>1, <2>5 DEF CheckHold, Goto, At, HoldReq, CaptureReq, Available
    <3>2. ASSUME NEW a, a = req.from, NEW m, m = req.amount, NEW tag, tag = req.tag
          PROVE  balance[a] >= m + AmountOf(holds, HoldsOf(a) \ {tag})
      <4>1. HoldsOf(a) \ {tag} = HoldsOf(a)
        BY <2>1, <3>2 DEF Existence, HoldsOf, Active, NoHold
      <4>2. IsFiniteSet(HoldsOf(a)) /\ \A g \in HoldsOf(a) : holds[g].amount \in Int
        BY IdsAreFinite, FS_Subset, RowTypes DEF HoldsOf
      <4>3. AmountOf(holds, HoldsOf(a)) \in Int
        BY <4>2, AmountType
      <4>4. balance[a] \in Int /\ m \in Int
        BY <2>1, <1>n, <3>2 DEF HoldReq
      <4>5. m <= balance[a] - AmountOf(holds, HoldsOf(a))
        BY <3>1, <3>2 DEF Reserved
      <4>6. balance[a] >= m + AmountOf(holds, HoldsOf(a))
        BY <4>3, <4>4, <4>5
      <4>7. QED
        BY <4>1, <4>6
    <3>3. ClaimInv'
      BY <2>2, <3>1, <3>2 DEF ClaimInv, At, Affords, HoldsOf, Active
    <3>4. QED
      BY <2>3, <3>3
  <2>6. QED
    BY <2>4, <2>5
<1>7. CASE InsertHold
  <2>1. req \in HoldReq /\ req.pc = "insert" /\ holds[req.tag] = NoHold
    BY <1>7, RequestKind DEF InsertHold, At, Existence
  <2>2. /\ accounts' = accounts /\ opening' = opening /\ balance' = balance /\ cut' = cut
        /\ req' = Idle /\ now' = now
    BY <1>7 DEF InsertHold
  <2>3. ClaimInv'
    BY <2>2 DEF ClaimInv, At, Idle, CaptureReq
  <2>4. PICK x, from, m : x = req.tag /\ from = req.from /\ m = req.amount
    OBVIOUS
  <2>5. /\ x \in Hold /\ m \in Nat /\ holds'[x].amount = m /\ holds'[x].account = from
        /\ \A g \in Hold \ {x} : holds'[g] = holds[g]
        /\ \A b : x \notin HoldsOf(b)
    <3>1. x \in Hold /\ m \in Amount
      BY <2>1, <2>4 DEF HoldReq
    <3>2. m \in Nat
      BY <1>n, <3>1
    <3>3. \A b : x \notin HoldsOf(b)
      BY <2>1, <2>4 DEF HoldsOf, Active, NoHold
    <3>4. QED
      BY <1>7, <2>4, <3>1, <3>2, <3>3 DEF InsertHold, TypeOK
  <2>6. ASSUME NEW b \in accounts, b \notin cut, opening[b] >= 0
        PROVE  balance[b] >= AmountOf(holds', Tied(b)')
    <3> DEFINE H == HoldsOf(b)
               G == HoldsOf(b)'
    <3>1. Tied(b)' = G /\ Tied(b) = H
      BY <2>1, <2>2 DEF Tied, Idle
    <3>2. /\ G \ {x} \subseteq H /\ (x \in G => from = b) /\ x \notin H
          /\ H \subseteq Hold /\ G \subseteq Hold
      BY <2>2, <2>5 DEF HoldsOf, Active
    <3>3. /\ \A g \in H : holds[g].amount \in Nat
          /\ \A g \in G : holds'[g].amount \in Int
          /\ \A g \in G \ {x} : holds'[g] = holds[g]
      BY <2>5, <3>2, RowTypes, RowTypesNext DEF HoldsOf
    <3>4. balance[b] >= AmountOf(holds, H) /\ balance[b] \in Int
      BY <1>n, <2>6, <3>1 DEF HoldsAreCovered, TiedUp
    <3>5. from = b => balance[b] >= m + AmountOf(holds, H \ {x})
      BY <2>1, <2>4, <2>6 DEF ClaimInv, Affords
    <3> HIDE DEF G, H
    <3>6. /\ IsFiniteSet(H) /\ IsFiniteSet(G) /\ IsFiniteSet(G \ {x})
          /\ \A g \in H : holds[g].amount \in Int
          /\ \A g \in G \ {x} : holds'[g].amount \in Int
          /\ H \ {x} = H
      BY <3>2, <3>3, IdsAreFinite, FS_Subset, FS_RemoveElement
    <3>7. /\ AmountOf(holds, H) \in Int /\ AmountOf(holds', G \ {x}) \in Int
          /\ AmountOf(holds', G \ {x}) <= AmountOf(holds, H)
      BY <3>2, <3>3, <3>6, AmountType, AmountFewer
    <3>8. CASE x \in G
      <4>1. AmountOf(holds', G) = m + AmountOf(holds', G \ {x})
        BY <2>5, <3>3, <3>6, <3>8, AmountRemove
      <4>2. balance[b] >= m + AmountOf(holds, H)
        BY <3>2, <3>5, <3>6, <3>8
      <4>3. AmountOf(holds', G) <= m + AmountOf(holds, H)
        BY <2>5, <3>7, <4>1
      <4>4. balance[b] >= AmountOf(holds', G)
        BY <2>5, <3>4, <3>7, <4>1, <4>2, <4>3
      <4>5. QED
        BY <3>1, <4>4
    <3>9. CASE x \notin G
      <4>1. G \ {x} = G
        BY <3>9
      <4>2. QED
        BY <3>1, <3>4, <3>7, <4>1
    <3>10. QED
      BY <3>8, <3>9
  <2>7. HoldsAreCovered'
    BY <2>2, <2>6 DEF HoldsAreCovered, TiedUp
  <2>8. QED
    BY <2>3, <2>7
<1>8. CASE CheckCapture
  <2>1. /\ req \in AskedReq /\ req.tag \in Hold /\ ~InsertHold
        /\ req.pc = "check" /\ req.op = "capture"
    BY <1>8, RequestKind DEF CheckCapture, InsertHold, At, AskedReq
  <2>2. /\ accounts' = accounts /\ opening' = opening /\ balance' = balance /\ cut' = cut
        /\ holds' = holds /\ now' = now
    BY <1>8 DEF CheckCapture
  <2>3. HoldsAreCovered'
    BY <1>0, <1>n, <2>1, <2>2, CoverKept
  <2>4. CASE ~Active(req.tag)
    <3>1. req' = Idle
      BY <1>8, <2>4 DEF CheckCapture
    <3>2. QED
      BY <2>3, <3>1 DEF ClaimInv, At, Idle, CaptureReq
  <2>5. CASE req' = Idle
    BY <2>3, <2>5 DEF ClaimInv, At, Idle, CaptureReq
  <2>6. CASE Active(req.tag) /\ req' # Idle
    <3>1. PICK x : x = req.tag
      OBVIOUS
    <3>2. x \in Hold /\ Active(x)
      BY <2>1, <2>6, <3>1
    <3>3. PICK from, m, r : from = holds[x].account /\ m = holds[x].amount /\ r = req'.amount
      OBVIOUS
    <3>4. m \in Nat /\ m > 0 /\ from \in Account
      BY <1>n, <3>2, <3>3, RowTypes
    <3>5. /\ req'.pc = "debit" /\ req'.tag = x /\ req'.from = from
          /\ req.amount <= m /\ r = IF req.amount = 0 THEN m ELSE req.amount
      BY <1>8, <2>6, <3>1, <3>3 DEF CheckCapture
    <3>6. req.amount \in Nat
      <4>1. req.amount \in Amount \union {0}
        BY <2>1 DEF AskedReq
      <4>2. \A n \in Amount \union {0} : n \in Nat
        BY <1>n
      <4>3. QED
        BY <4>1, <4>2, Zenon
    <3>7. r \in Nat /\ r <= m
      BY <3>4, <3>5, <3>6
    <3> DEFINE H == HoldsOf(from) \ {x}
    <3>8. IsFiniteSet(H) /\ \A g \in H : holds[g].amount \in Int
      BY IdsAreFinite, FS_Subset, RowTypes DEF HoldsOf
    <3>9. from \notin cut /\ opening[from] >= 0 => balance[from] >= m + AmountOf(holds, H)
      BY <2>1, <3>1, <3>2, <3>3 DEF ClaimInv, At, Affords
    <3>10. balance[from] \in Int
      BY <1>n, <3>4
    <3> HIDE DEF H
    <3>11. AmountOf(holds, H) \in Int
      BY <3>8, AmountType
    <3>12. from \notin cut /\ opening[from] >= 0 => balance[from] >= r + AmountOf(holds, H)
      BY <3>4, <3>7, <3>9, <3>10, <3>11
    <3>13. from \notin cut' /\ opening'[from] >= 0 =>
             balance'[from] >= r + AmountOf(holds', HoldsOf(from)' \ {x})
      BY <2>2, <3>12 DEF H, HoldsOf, Active
    <3>14. ClaimInv'
      BY <2>2, <3>3, <3>5, <3>13 DEF ClaimInv, At, Affords
    <3>15. QED
      BY <2>3, <3>14
  <2>7. QED
    BY <2>4, <2>5, <2>6
<1>9. CASE Debit
  <2>1. /\ req \in TransferReq \union CaptureReq /\ req.pc = "debit" /\ ~InsertHold
        /\ req.from \in accounts /\ req.tag \in Key \union Hold \union {NoKey}
        /\ req.amount \in Amount
    BY <1>9, RequestKind DEF Debit, InsertHold, At, Existence, TransferReq, CaptureReq
  <2>2. PICK x, from, m : x = req.tag /\ from = req.from /\ m = req.amount
    OBVIOUS
  <2>3. /\ accounts' = accounts /\ opening' = opening /\ cut' = cut /\ holds' = holds
        /\ now' = now /\ req'.pc = "credit" /\ req'.tag = x /\ req'.from = req.from
        /\ req' \in CaptureReq => req \in CaptureReq
        /\ m \in Nat /\ from \in accounts
    BY <1>9, <1>n, <2>1, <2>2 DEF Debit, Goto, TransferReq, CaptureReq
  <2>4. ClaimInv'
    BY <2>2, <2>3 DEF ClaimInv, At
  <2>5. /\ balance' \in [Account -> Int] /\ balance'[from] = balance[from] - m
        /\ \A b \in Account \ {from} : balance'[b] = balance[b]
    BY <1>9, <1>n, <2>2, <2>3 DEF Debit, Add
  <2>6. ASSUME NEW b \in accounts, b \notin cut, opening[b] >= 0
        PROVE  balance'[b] >= AmountOf(holds', Tied(b)')
    <3> DEFINE H == HoldsOf(b)
    <3>1. Tied(b)' = H \ {x} /\ Tied(b) = H
      BY <2>1, <2>3 DEF Tied, HoldsOf, Active
    <3>2. /\ IsFiniteSet(H) /\ IsFiniteSet(H \ {x})
          /\ \A g \in H : holds[g].amount \in Nat /\ holds[g].amount \in Int
      BY IdsAreFinite, FS_Subset, FS_RemoveElement, RowTypes DEF HoldsOf
    <3>3. balance[b] >= AmountOf(holds, H) /\ balance[b] \in Int
      BY <1>n, <2>6, <3>1 DEF HoldsAreCovered, TiedUp
    <3>4. b = from => balance[b] >= m + AmountOf(holds, H \ {x})
      BY <2>1, <2>2, <2>6 DEF ClaimInv, Affords
    <3> HIDE DEF H
    <3>5. /\ AmountOf(holds, H) \in Int /\ AmountOf(holds, H \ {x}) \in Int
          /\ AmountOf(holds, H \ {x}) <= AmountOf(holds, H)
      <4>1. H \ {x} \in SUBSET H /\ \A g \in H \ {x} : holds[g].amount \in Int
        BY <3>2
      <4>2. QED
        BY <3>2, <4>1, AmountType, AmountFewer
    <3>6. balance'[b] >= AmountOf(holds, H \ {x})
      BY <1>n, <2>3, <2>5, <3>3, <3>4, <3>5
    <3>7. QED
      BY <2>3, <3>1, <3>6
  <2>7. HoldsAreCovered'
    BY <2>3, <2>6 DEF HoldsAreCovered, TiedUp
  <2>8. QED
    BY <2>4, <2>7
<1>10. CASE Credit
  <2>1. /\ req \in TransferReq \union CaptureReq /\ req.pc = "credit" /\ ~InsertHold
        /\ req.amount \in Amount
    BY <1>10, RequestKind DEF Credit, InsertHold, At, TransferReq, CaptureReq
  <2>2. /\ accounts' = accounts /\ opening' = opening /\ cut' = cut /\ holds' = holds
        /\ req'.tag = req.tag /\ req'.from = req.from
        /\ req'.pc \in {"settle", "debitRow"} /\ (req \in CaptureReq => req'.pc = "settle")
        /\ (req' \in CaptureReq => req \in CaptureReq)
    BY <1>10, <2>1 DEF Credit, Goto, TransferReq, CaptureReq
  <2>3. ClaimInv'
    BY <2>2 DEF ClaimInv, At
  <2>4. \A b \in Account : balance'[b] >= balance[b]
    <3>1. req.amount \in Nat
      BY <1>n, <2>1
    <3>2. balance' = balance \/ balance' = Add(balance, req.to, req.amount)
      BY <1>10 DEF Credit
    <3>3. QED
      BY <1>n, <3>1, <3>2 DEF Add
  <2>5. \A h \in Hold : req.tag = h => req \in CaptureReq
    BY <2>1 DEF TransferReq
  <2>6. HoldsAreCovered'
    BY <1>0, <2>1, <2>2, <2>4, <2>5, CoverKept
  <2>7. QED
    BY <2>3, <2>6
<1>11. CASE Settle
  <2>1. /\ req \in CaptureReq /\ req.pc = "settle" /\ ~InsertHold /\ req.tag \in Hold
        /\ holds[req.tag] # NoHold
    BY <1>11, RequestKind DEF Settle, InsertHold, At, CaptureReq, Existence
  <2>2. /\ accounts' = accounts /\ opening' = opening /\ cut' = cut /\ balance' = balance
        /\ req'.tag = req.tag /\ req'.from = req.from /\ req'.pc = "debitRow"
    BY <1>11, <2>1 DEF Settle, Goto, CaptureReq
  <2>3. PICK x : x = req.tag
    OBVIOUS
  <2>4. SetStatus(x, "captured") /\ "captured" \in Statuses /\ x \in Hold /\ holds[x] # NoHold
    BY <1>11, <2>1, <2>3 DEF Settle, Statuses, SetStatus
  <2>5. ~Active(x)' /\ holds'[x].account = holds[x].account
    BY <2>4, SetStatusType DEF Active
  <2>6. ClaimInv'
    BY <2>1, <2>2, <2>3, <2>5 DEF ClaimInv, At
  <2>7. HoldsAreCovered'
    <3>1. \A h \in Hold : req.tag = h => ~Active(h)'
      BY <2>3, <2>5
    <3>2. QED
      BY <1>0, <1>n, <2>1, <2>2, <3>1, CoverKept
  <2>8. QED
    BY <2>6, <2>7
<1>12. CASE PostDebit \/ PostCredit \/ PostOpening \/ Remember
  <2>1. /\ req.pc \in {"debitRow", "creditRow", "credited", "created", "remember"}
        /\ ~InsertHold /\ accounts' = accounts /\ opening' = opening /\ cut' = cut
        /\ balance' = balance /\ holds' = holds
    BY <1>12 DEF PostDebit, PostCredit, PostOpening, PostRow, Remember, InsertHold, At
  <2>2. HoldsAreCovered'
    BY <1>0, <1>n, <2>1, CoverKept
  <2>3. /\ req'.pc \notin {"debit", "insert", "check"}
        /\ req' \in CaptureReq => req \in CaptureReq /\ req'.from = req.from /\ req'.tag = req.tag
    <3>1. CASE PostDebit
      <4>1. req \in TransferReq \union CaptureReq
        BY <3>1, RequestKind DEF PostDebit, PostRow
      <4>2. QED
        BY <3>1, <4>1 DEF PostDebit, Goto, TransferReq, CaptureReq
    <3>2. CASE PostCredit
      <4>1. req \in TransferReq \union CaptureReq
        BY <3>2, RequestKind DEF PostCredit, PostRow
      <4>2. QED
        BY <3>2, <4>1 DEF PostCredit, AfterCredit, Goto, TransferReq, CaptureReq, Idle
    <3>3. CASE PostOpening
      <4>1. req \in CreateReq
        BY <3>3, RequestKind DEF PostOpening, PostRow
      <4>2. QED
        BY <3>3, <4>1 DEF PostOpening, Goto, CreateReq, CaptureReq, Idle
    <3>4. CASE Remember
      BY <3>4 DEF Remember, CaptureReq, Idle
    <3>5. QED
      BY <1>12, <3>1, <3>2, <3>3, <3>4
  <2>4. ClaimInv'
    BY <2>1, <2>3 DEF ClaimInv, At
  <2>5. QED
    BY <2>2, <2>4
<1>13. CASE Cut
  <2>1. /\ accounts' = accounts /\ opening' = opening /\ holds' = holds
        /\ balance' = balance /\ req' = Idle
    BY <1>13 DEF Cut
  <2>2. HoldsShrink
    BY <1>13 DEF Cut, HoldsShrink, Active, TypeOK
  <2>3. ClaimInv'
    BY <2>1 DEF ClaimInv, At, Idle, CaptureReq
  <2>4. ASSUME NEW h \in Hold, req.pc \in {"credit", "settle"}, req.tag = h
        PROVE  holds[h].account \in cut'
    <3>1. req \in CaptureReq
      BY <2>4 DEF TypeOK, Idle, CreateReq, TransferReq, HoldReq, AskedReq
    <3>2. req.from \in cut'
      BY <1>13, <2>4 DEF Cut
    <3>3. QED
      BY <2>4, <3>1, <3>2 DEF ClaimInv
  <2>5. HoldsAreCovered'
    BY <1>0, <1>n, <2>1, <2>2, <2>4, CoverKept
  <2>6. QED
    BY <2>3, <2>5
<1>14. CASE Threads \/ Tick \/ (\E d \in Thread : CutThread(d)) \/ UNCHANGED vars
  <2>1. /\ accounts' = accounts /\ opening' = opening /\ cut' = cut
        /\ balance' = balance /\ req' = req
    BY <1>14 DEF Threads, StartVoid, CheckVoid, UpdateVoid, GetAccount, Tick, CutThread, vars
  <2>2. ~InsertHold
    BY <2>1 DEF InsertHold, At, Idle
  <2>3. \A h \in Hold : holds[h] # NoHold => holds'[h].account = holds[h].account
    <3>1. CASE ExpireStaleHolds
      BY <3>1, ExpireType
    <3>2. CASE UNCHANGED holds
      BY <3>2
    <3>3. ASSUME NEW d \in Thread, UpdateVoid(d)
          PROVE  \A h \in Hold : holds[h] # NoHold => holds'[h].account = holds[h].account
      BY <3>3 DEF UpdateVoid, SetStatus, TypeOK, HoldRow, NoHold
    <3>4. QED
      BY <1>14, <3>1, <3>2, <3>3
        DEF Threads, StartVoid, CheckVoid, GetAccount, Tick, CutThread, vars
  <2>4. HoldsAreCovered'
    BY <1>0, <1>n, <2>1, <2>2, CoverKept
  <2>5. ClaimInv'
    BY <1>0, <2>1, <2>2, <2>3, ClaimKept
  <2>6. QED
    BY <2>4, <2>5
<1>15. QED
  BY <1>1, <1>2, <1>3, <1>4, <1>5, <1>6, <1>7, <1>8, <1>9, <1>10, <1>11, <1>12, <1>13,
     <1>14
    DEF Next, EventLoop

\* Money moves from account to account, and from row to row.
LEMMA MoneyStep ==
  ASSUME TypeOK, TypeOK', Existence, MoneyInv, [Next]_vars
  PROVE  MoneyInv'
<1> USE DEF tables, memory
<1>n. /\ balance \in [Account -> Int] /\ opening \in [Account -> Int]
      /\ posted \in [Account -> Int] /\ accounts \in SUBSET Account
      /\ IsFiniteSet(Account) /\ IsFiniteSet(accounts)
      /\ SumFunctionOnSet(balance, accounts) \in Int
      /\ SumFunctionOnSet(opening, accounts) \in Int
      /\ SumFunctionOnSet(posted, Account) \in Int
  <2>1. /\ balance \in [Account -> Int] /\ opening \in [Account -> Int]
        /\ posted \in [Account -> Int] /\ accounts \in SUBSET Account
    BY DEF TypeOK
  <2>2. IsFiniteSet(Account) /\ IsFiniteSet(accounts)
    BY <2>1, IdsAreFinite, FS_Subset
  <2>3. QED
    BY <2>1, <2>2, SumType
<1>k. req.pc \in {"debit", "credit", "debitRow", "creditRow", "credited", "created"} =>
        /\ req \in CreateReq \union TransferReq \union CaptureReq
        /\ req.from \in Account /\ req.to \in Account /\ req.amount \in Int
        /\ (req.pc \in {"debit", "credit"} => req.amount \in Nat)
  <2>1. Amount \subseteq Nat
    BY LedgerAssumption
  <2>2. req.pc \in {"debit", "credit", "debitRow", "creditRow", "credited", "created"} =>
          /\ req \in CreateReq \union TransferReq \union CaptureReq
          /\ req.from \in Account /\ req.to \in Account
          /\ req \in CreateReq => req.amount \in Int /\ req.pc \notin {"debit", "credit"}
          /\ req \notin CreateReq => req.amount \in Amount
    BY DEF TypeOK, Idle, CreateReq, TransferReq, HoldReq, AskedReq, CaptureReq
  <2>3. \A amount \in Amount : amount \in Nat /\ amount \in Int
    BY <2>1
  <2>4. QED
    BY <2>2, <2>3
<1>c. cut' = {} => cut = {}
  BY CutGrows
<1>1. ASSUME UNCHANGED <<accounts, balance, opening, posted>>,
             req.pc \notin {"credit", "creditRow", "created"},
             req'.pc \notin {"credit", "creditRow", "created"}
      PROVE  MoneyInv'
  BY <1>1, <1>n, <1>c DEF MoneyInv, InTransit, Unposted
<1>2. ASSUME NEW a \in Account, NEW amount \in Opening, CreateAccount(a, amount)
      PROVE  MoneyInv'
  <2>1. /\ a \notin accounts /\ req = Idle /\ posted' = posted /\ cut' = cut
        /\ accounts' = accounts \union {a} /\ amount \in Int
        /\ balance' = [balance EXCEPT ![a] = amount]
        /\ opening' = [opening EXCEPT ![a] = amount]
        /\ req'.pc \notin {"credit", "creditRow", "created"}
    BY <1>2, LedgerAssumption DEF CreateAccount, Idle
  <2>2. /\ balance' \in [Account -> Int] /\ opening' \in [Account -> Int]
        /\ balance'[a] = amount /\ opening'[a] = amount
        /\ \A b \in accounts : balance'[b] = balance[b] /\ opening'[b] = opening[b]
    BY <1>n, <2>1
  <2>3. /\ IsFiniteSet(accounts \union {a}) /\ (accounts \union {a}) \ {a} = accounts
        /\ accounts \union {a} \subseteq Account
    BY <1>n, <2>1, FS_AddElement
  <2>4. /\ SumFunctionOnSet(balance', accounts \union {a}) =
             amount + SumFunctionOnSet(balance, accounts)
        /\ SumFunctionOnSet(opening', accounts \union {a}) =
             amount + SumFunctionOnSet(opening, accounts)
    <3> DEFINE S == accounts \union {a}
               b2 == balance'
               o2 == opening'
    <3>1. /\ IsFiniteSet(S) /\ S \ {a} = accounts /\ a \in S
          /\ \A x \in S : b2[x] \in Int /\ o2[x] \in Int
      BY <2>2, <2>3
    <3>2. /\ SumFunctionOnSet(b2, accounts) = SumFunctionOnSet(balance, accounts)
          /\ SumFunctionOnSet(o2, accounts) = SumFunctionOnSet(opening, accounts)
      BY <1>n, <2>2, SumSame
    <3>3. b2[a] = amount /\ o2[a] = amount
      BY <2>2
    <3> HIDE DEF S, b2, o2
    <3>4. /\ SumFunctionOnSet(b2, S) = b2[a] + SumFunctionOnSet(b2, S \ {a})
          /\ SumFunctionOnSet(o2, S) = o2[a] + SumFunctionOnSet(o2, S \ {a})
      BY <3>1, SumRemove
    <3>5. QED
      BY <3>1, <3>2, <3>3, <3>4 DEF S, b2, o2
  <2>5. SumFunctionOnSet(balance, accounts) <= SumFunctionOnSet(opening, accounts)
    BY <1>n, <2>1 DEF MoneyInv, InTransit, Idle
  <2>6. SumFunctionOnSet(balance', accounts') <= SumFunctionOnSet(opening', accounts')
        /\ SumFunctionOnSet(balance', accounts') \in Int
    BY <1>n, <2>1, <2>4, <2>5
  <2>7. cut' = {} => SumFunctionOnSet(posted', Account) = 0
    BY <2>1 DEF MoneyInv, Unposted, Idle
  <2>8. QED
    BY <2>1, <2>6, <2>7 DEF MoneyInv, InTransit, Unposted
<1>3. CASE Debit
  <2>1. /\ req.pc = "debit" /\ req'.pc = "credit" /\ req'.amount = req.amount
        /\ accounts' = accounts /\ opening' = opening /\ posted' = posted /\ cut' = cut
        /\ balance' = Add(balance, req.from, -req.amount) /\ req.from \in accounts
    BY <1>3, <1>k DEF Debit, Goto, CreateReq, TransferReq, CaptureReq, Existence
  <2>2. SumFunctionOnSet(balance', accounts) = SumFunctionOnSet(balance, accounts) - req.amount
    <3> DEFINE m == -req.amount
    <3>1. m \in Int /\ req.from \in Account
      BY <1>k, <2>1
    <3> HIDE DEF m
    <3>2. SumFunctionOnSet(Add(balance, req.from, m), accounts) =
            SumFunctionOnSet(balance, accounts) + m
      BY <1>n, <2>1, <3>1, SumAdd
    <3>3. QED
      BY <1>k, <1>n, <2>1, <3>2 DEF m
  <2>3. QED
    BY <1>n, <1>k, <2>1, <2>2 DEF MoneyInv, InTransit, Unposted
<1>4. CASE Credit
  <2>1. /\ req.pc = "credit" /\ req'.pc \in {"settle", "debitRow"}
        /\ accounts' = accounts /\ opening' = opening /\ posted' = posted /\ cut' = cut
        /\ balance' = IF req.to \in accounts THEN Add(balance, req.to, req.amount) ELSE balance
    BY <1>4, <1>k DEF Credit, Goto, CreateReq, TransferReq, CaptureReq
  <2>2. SumFunctionOnSet(balance', accounts) \in
          {SumFunctionOnSet(balance, accounts) + req.amount, SumFunctionOnSet(balance, accounts)}
    BY <1>k, <1>n, <2>1, SumAdd
  <2>3. QED
    BY <1>n, <1>k, <2>1, <2>2 DEF MoneyInv, InTransit, Unposted
<1>5. CASE CheckTransfer \/ CheckHold \/ InsertHold \/ CheckCapture \/ Settle \/ Remember
  <2>1. /\ UNCHANGED <<accounts, balance, opening, posted>>
        /\ req.pc \in {"check", "insert", "settle", "remember"}
        /\ req'.pc \in {"idle", "debit", "insert", "debitRow"}
    <3>1. CASE CheckTransfer
      <4>1. req \in TransferReq
        BY <3>1, RequestKind DEF CheckTransfer
      <4>2. QED
        BY <3>1, <4>1 DEF CheckTransfer, At, Goto, Idle, TransferReq
    <3>2. CASE CheckHold
      <4>1. req \in HoldReq
        BY <3>2, RequestKind DEF CheckHold
      <4>2. QED
        BY <3>2, <4>1 DEF CheckHold, At, Goto, Idle, HoldReq
    <3>3. CASE Settle
      <4>1. req \in CaptureReq
        BY <3>3, RequestKind DEF Settle
      <4>2. QED
        BY <3>3, <4>1 DEF Settle, At, Goto, Idle, CaptureReq
    <3>4. CASE InsertHold \/ CheckCapture \/ Remember
      BY <3>4 DEF InsertHold, CheckCapture, Remember, At, Idle
    <3>5. QED
      BY <1>5, <3>1, <3>2, <3>3, <3>4
  <2>2. QED
    BY <1>1, <2>1
<1>6. ASSUME NEW pc, NEW a \in Account, NEW m \in Int, PostRow(pc, a, m)
      PROVE  /\ UNCHANGED <<accounts, balance, opening, cut>> /\ req.pc = pc
             /\ SumFunctionOnSet(posted', Account) = SumFunctionOnSet(posted, Account) + m
  BY <1>6, <1>n, SumAdd DEF PostRow
<1>7. CASE PostDebit
  <2>1. /\ req'.pc = "creditRow" /\ req'.amount = req.amount
        /\ PostRow("debitRow", req.from, -req.amount)
    BY <1>7, <1>k DEF PostDebit, PostRow, Goto, CreateReq, TransferReq, CaptureReq
  <2>2. PICK from, m : from = req.from /\ m = -req.amount
    OBVIOUS
  <2>3. from \in Account /\ m \in Int /\ req.amount \in Int /\ PostRow("debitRow", from, m)
    BY <1>7, <1>k, <2>1, <2>2 DEF PostDebit, PostRow
  <2>4. /\ UNCHANGED <<accounts, balance, opening, cut>> /\ req.pc = "debitRow"
        /\ SumFunctionOnSet(posted', Account) = SumFunctionOnSet(posted, Account) + m
    BY <1>6, <2>3
  <2>5. QED
    BY <1>n, <2>1, <2>2, <2>3, <2>4 DEF MoneyInv, InTransit, Unposted
<1>8. CASE PostCredit
  <2>1. PICK to, m : to = req.to /\ m = req.amount
    OBVIOUS
  <2>2. to \in Account /\ m \in Int /\ PostRow("creditRow", to, m)
    BY <1>8, <1>k, <2>1 DEF PostCredit, PostRow
  <2>3. /\ UNCHANGED <<accounts, balance, opening, cut>> /\ req.pc = "creditRow"
        /\ SumFunctionOnSet(posted', Account) = SumFunctionOnSet(posted, Account) + m
    BY <1>6, <2>2
  <2>4. req'.pc \in {"idle", "remember"}
    BY <1>8, <1>k, <2>3 DEF PostCredit, AfterCredit, Goto, Idle, CreateReq, TransferReq,
           CaptureReq
  <2>5. QED
    BY <1>n, <2>1, <2>2, <2>3, <2>4 DEF MoneyInv, InTransit, Unposted
<1>9. CASE PostOpening
  <2>1. req \in CreateReq
    BY <1>9, RequestKind DEF PostOpening, PostRow
  <2>2. PICK to, m : to = req.to /\ m = req.amount
    OBVIOUS
  <2>3. CASE PostRow("credited", req.to, req.amount) /\ Goto("created")
    <3>1. /\ to \in Account /\ m \in Int /\ PostRow("credited", to, m)
          /\ req'.pc = "created" /\ req'.amount = m
      BY <2>1, <2>2, <2>3 DEF Goto, CreateReq
    <3>2. /\ UNCHANGED <<accounts, balance, opening, cut>> /\ req.pc = "credited"
          /\ SumFunctionOnSet(posted', Account) = SumFunctionOnSet(posted, Account) + m
      BY <1>6, <3>1
    <3>3. QED
      BY <1>n, <3>1, <3>2 DEF MoneyInv, InTransit, Unposted
  <2>4. CASE PostRow("created", req.to, -req.amount) /\ req' = Idle
    <3>1. PICK n : n = -m
      OBVIOUS
    <3>2. /\ to \in Account /\ m \in Int /\ n \in Int /\ PostRow("created", to, n)
      BY <2>1, <2>2, <2>4, <3>1 DEF CreateReq
    <3>3. /\ UNCHANGED <<accounts, balance, opening, cut>> /\ req.pc = "created"
          /\ SumFunctionOnSet(posted', Account) = SumFunctionOnSet(posted, Account) + n
      BY <1>6, <3>2
    <3>4. QED
      BY <1>n, <2>2, <2>4, <3>1, <3>2, <3>3 DEF MoneyInv, InTransit, Unposted, Idle
  <2>5. QED
    BY <1>9, <2>3, <2>4 DEF PostOpening
<1>10. CASE Cut
  <2>1. /\ UNCHANGED <<accounts, balance, opening, posted>> /\ req'.pc = "idle"
        /\ req.pc \in {"credit", "creditRow", "created"} => cut' # {}
    BY <1>10 DEF Cut, Idle
  <2>2. SumFunctionOnSet(balance, accounts) <= SumFunctionOnSet(opening, accounts)
    BY <1>n, <1>k DEF MoneyInv, InTransit
  <2>3. cut' = {} => SumFunctionOnSet(posted, Account) = 0
    BY <1>c, <2>1 DEF MoneyInv, Unposted
  <2>4. QED
    BY <1>n, <2>1, <2>2, <2>3 DEF MoneyInv, InTransit, Unposted
<1>11. CASE UNCHANGED <<accounts, balance, opening, posted, req, cut>>
  BY <1>11 DEF MoneyInv, InTransit, Unposted
<1>12. CASE \/ \E key \in Key \union {NoKey}, body \in Body : StartTransfer(key, body)
            \/ \E h \in Hold, a \in Account, amount \in Amount, expires \in 0..MaxTime + 1 :
                 StartHold(h, a, amount, expires)
            \/ \E h \in Hold, to \in Account, amount \in Amount \union {0} :
                 StartCapture(h, to, amount)
  <2>1. /\ UNCHANGED <<accounts, balance, opening, posted>>
        /\ req.pc = "idle" /\ req'.pc = "check"
    BY <1>12 DEF StartTransfer, StartHold, StartCapture, Start, Idle
  <2>2. QED
    BY <1>1, <2>1
<1>13. CASE Threads \/ Tick \/ (\E d \in Thread : CutThread(d)) \/ UNCHANGED vars
  BY <1>11, <1>13 DEF Threads, StartVoid, CheckVoid, UpdateVoid, GetAccount, Tick, CutThread,
         vars
<1>14. QED
  BY <1>2, <1>3, <1>4, <1>5, <1>7, <1>8, <1>9, <1>10, <1>12, <1>13 DEF Next, EventLoop

LEMMA InvInit ==
  ASSUME Init
  PROVE  /\ TypeOK /\ Existence /\ KeyInv /\ HoldInv /\ BalanceInv
         /\ HoldsAreCovered /\ ClaimInv /\ MoneyInv
<1>1. TypeOK
  BY LedgerAssumption DEF Init, TypeOK
<1>2. req = Idle /\ req.pc = "idle"
  BY DEF Init, Idle
<1>3. req \notin CreateReq \union TransferReq \union HoldReq \union CaptureReq
  BY <1>2 DEF CreateReq, TransferReq, HoldReq, CaptureReq
<1>4. Existence
  BY <1>2, <1>3 DEF Init, Existence, Idle
<1>5. KeyInv
  BY <1>3 DEF Init, KeyInv, KeyOK
<1>6. HoldInv
  BY <1>3 DEF Init, HoldInv, HoldOK
<1>7. BalanceInv
  BY <1>2 DEF Init, BalanceInv, BalanceOK, Drift
<1>8. HoldsAreCovered /\ ClaimInv
  BY <1>2, <1>3 DEF Init, HoldsAreCovered, ClaimInv, At
<1>9. MoneyInv
  <2>1. \A x \in Account : posted[x] = 0
    BY DEF Init
  <2>2. SumFunctionOnSet(posted, Account) = 0
    BY <2>1, IdsAreFinite, SumZero
  <2>3. QED
    BY <1>2, <2>2, SumEmpty DEF Init, MoneyInv, InTransit, Unposted
<1>10. QED
  BY <1>1, <1>4, <1>5, <1>6, <1>7, <1>8, <1>9

\* Every variable keeps its type, for any accounts, holds, keys and threads.
THEOREM TypeCorrect == Spec => []TypeOK
<1>1. Init => TypeOK /\ Existence
  BY InvInit
<1>2. TypeOK /\ Existence /\ [Next]_vars => TypeOK' /\ Existence'
  BY TypeStep
<1>3. QED
  BY <1>1, <1>2, PTL DEF Spec

\* The inductive invariant: what the request on the event loop refers to
\* exists, each key, hold and account is where that request left it, what the
\* request was told it may take is there, and what it has moved so far is the
\* difference between the totals.
THEOREM LedgerInvariant ==
  Spec => [](/\ TypeOK /\ Existence /\ KeyInv /\ HoldInv /\ BalanceInv
             /\ HoldsAreCovered /\ ClaimInv /\ MoneyInv)
<1> DEFINE Inv == /\ TypeOK /\ Existence /\ KeyInv /\ HoldInv /\ BalanceInv
                  /\ HoldsAreCovered /\ ClaimInv /\ MoneyInv
<1>1. Init => Inv
  BY InvInit
<1>2. Inv /\ [Next]_vars => Inv'
  BY TypeStep, KeyStep, HoldStep, BalanceStep, CoverStep, MoneyStep
<1>3. QED
  BY <1>1, <1>2, PTL DEF Spec

\* A key moves money at most once, if no request that carried it was cut:
\* transfer, however often its clients retry.
THEOREM RetriesAreSafe == Spec => []KeyMovesMoneyOnce
<1>1. TypeOK /\ KeyInv => KeyMovesMoneyOnce
  BY DEF TypeOK, KeyInv, KeyOK, KeyMovesMoneyOnce, Idle, CreateReq, TransferReq,
         HoldReq, AskedReq, CaptureReq
<1>2. QED
  BY <1>1, LedgerInvariant, PTL

\* A hold is debited at most once, if its capture was not cut: capture_hold,
\* whatever void_hold and expiry do to the hold meanwhile.
THEOREM CapturesAreSafe == Spec => []HoldIsDebitedOnce
<1>1. HoldInv => HoldIsDebitedOnce
  BY DEF HoldInv, HoldOK, HoldIsDebitedOnce
<1>2. QED
  BY <1>1, LedgerInvariant, PTL

\* Every balance is explained by its opening deposit and its ledger rows.
THEOREM BalancesAreExplained == Spec => []LedgerExplainsBalance
<1>1. TypeOK /\ BalanceInv => LedgerExplainsBalance
  BY DEF TypeOK, BalanceInv, BalanceOK, Drift, LedgerExplainsBalance, Moving
<1>2. QED
  BY <1>1, LedgerInvariant, PTL

\* No account is overdrawn and active holds stay covered, unless a capture of
\* the account was cut: transfer, create_hold and capture_hold against voids,
\* expiry and lost requests.
THEOREM HoldsStayCovered == Spec => []HoldsAreCovered
  BY LedgerInvariant, PTL

\* Balances never add up to more than was paid in, and with no request cut or
\* under way the ledger rows add up to zero.
THEOREM MoneyOnlyMoves == Spec => []MoneyIsNotCreated
<1>1. TypeOK /\ MoneyInv => MoneyIsNotCreated
  <2> SUFFICES ASSUME TypeOK, MoneyInv
               PROVE  MoneyIsNotCreated
    OBVIOUS
  <2>1. /\ accounts \in SUBSET Account
        /\ \A x \in accounts : balance[x] \in Int /\ opening[x] \in Int
    BY DEF TypeOK
  <2>2. SumFunctionOnSet(balance, accounts) \in Int /\ SumFunctionOnSet(opening, accounts) \in Int
    BY <2>1, IdsAreFinite, FS_Subset, SumType
  <2>3. InTransit \in Nat
    <3>1. req.pc = "credit" => req.amount \in Amount
      BY DEF TypeOK, Idle, CreateReq, TransferReq, HoldReq, AskedReq, CaptureReq
    <3>2. \A amount \in Amount : amount \in Nat
      BY LedgerAssumption
    <3>3. QED
      BY <3>1, <3>2 DEF InTransit
  <2>4. QED
    BY <2>2, <2>3 DEF MoneyInv, MoneyIsNotCreated, Moving, Unposted
<1>2. QED
  BY <1>1, LedgerInvariant, PTL
================================================================================
