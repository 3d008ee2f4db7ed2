---------------------------- MODULE LibrariesProofs ----------------------------
(***************************************************************************)
(* Proofs about Libraries: the graph and the answers of the vector index,  *)
(* for any ids, vectors, codebooks and levels; the filter of the column    *)
(* reader, for any range, and its decoder, for any pages; and what the     *)
(* runtime makes of any module file, cut short or not.                     *)
(***************************************************************************)
EXTENDS Libraries, FiniteSetTheorems, SequenceTheorems, WellFoundedInduction, TLAPS

--------------------------------------------------------------------------------
(* Sequences. *)

IsSeq(s) == \E S : s \in Seq(S)

LEMMA SeqLength == ASSUME NEW s, IsSeq(s) PROVE Len(s) \in Nat /\ DOMAIN s = 1 .. Len(s) /\ (s = <<>> <=> Len(s) = 0)
<1>1. PICK S : s \in Seq(S)
  BY DEF IsSeq
<1>2. QED
  BY <1>1, EmptySeq

LEMMA Appended ==
  ASSUME NEW s, IsSeq(s), NEW x
  PROVE  /\ IsSeq(Append(s, x)) /\ Len(Append(s, x)) = Len(s) + 1
         /\ \A i \in 1 .. Len(s) : Append(s, x)[i] = s[i]
         /\ Append(s, x)[Len(s) + 1] = x
<1>1. PICK S : s \in Seq(S)
  BY DEF IsSeq
<1>2. s \in Seq(S \union {x}) /\ x \in S \union {x}
  BY <1>1, SeqMonotonic
<1>3. Append(s, x) \in Seq(S \union {x})
  BY <1>2
<1>4. QED
  BY <1>2, <1>3 DEF IsSeq

\* A vector that has grown is the old one, and then empty elements.
LEMMA Resized ==
  ASSUME NEW X, <<>> \in X, NEW s \in Seq(X), NEW n \in Nat
  PROVE  /\ Resize(s, n) \in Seq(X) /\ Len(s) \in Nat
         /\ Len(Resize(s, n)) = IF n <= Len(s) THEN Len(s) ELSE n
         /\ \A i \in 1 .. Len(s) : Resize(s, n)[i] = s[i]
         /\ \A i \in 1 .. n : i > Len(s) => Resize(s, n)[i] = <<>>
<1>1. Len(s) \in Nat
  OBVIOUS
<1>2. CASE n <= Len(s)
  BY <1>1, <1>2 DEF Resize
<1>3. CASE ~(n <= Len(s))
  <2> DEFINE m == n - Len(s)
             e == [i \in 1 .. m |-> <<>>]
  <2>1. m \in Nat
    BY <1>1, <1>3
  <2>2. Resize(s, n) = s \o e
    BY <1>3 DEF Resize
  <2> HIDE DEF m
  <2>3. e \in Seq(X) /\ Len(e) = m /\ \A i \in 1 .. m : e[i] = <<>>
    BY <2>1
  <2> HIDE DEF e
  <2>4. /\ s \o e \in Seq(X) /\ Len(s \o e) = Len(s) + m
        /\ \A i \in 1 .. Len(s) + m : (s \o e)[i] = IF i <= Len(s) THEN s[i] ELSE e[i - Len(s)]
    BY <2>3, ConcatProperties
  <2>5. Len(s) + m = n
    BY <1>1, <2>1 DEF m
  <2>6. \A i \in 1 .. Len(s) : i \in 1 .. Len(s) + m /\ i <= Len(s)
    BY <1>1, <2>1
  <2>7. \A i \in 1 .. n : i > Len(s) => i \in 1 .. Len(s) + m /\ ~(i <= Len(s)) /\ i - Len(s) \in 1 .. m
    BY <1>1, <2>1, <2>5
  <2>8. QED
    BY <1>1, <1>3, <2>2, <2>3, <2>4, <2>5, <2>6, <2>7
<1>4. QED
  BY <1>2, <1>3

--------------------------------------------------------------------------------
(* A layer of the graph. *)

LEMMA OccursType == ASSUME NEW s \in Seq(Nat), NEW m PROVE Occurs(s, m) \in Nat
<1>1. IsFiniteSet(1 .. Len(s)) /\ DOMAIN s = 1 .. Len(s)
  BY FS_Interval
<1>2. IsFiniteSet({i \in DOMAIN s : s[i] = m})
  BY <1>1, FS_Subset
<1>3. QED
  BY <1>2, FS_CardinalityType DEF Occurs

LEMMA OccursAppend ==
  ASSUME NEW s \in Seq(Nat), NEW x \in Nat, NEW m
  PROVE  Occurs(Append(s, x), m) = IF x = m THEN Occurs(s, m) + 1 ELSE Occurs(s, m)
<1> DEFINE A == {i \in DOMAIN s : s[i] = m}
           t == Append(s, x)
           B == {i \in DOMAIN t : t[i] = m}
<1>1. Len(s) \in Nat /\ DOMAIN s = 1 .. Len(s) /\ DOMAIN t = 1 .. Len(s) + 1
  OBVIOUS
<1>2. (\A i \in 1 .. Len(s) : t[i] = s[i]) /\ t[Len(s) + 1] = x
  OBVIOUS
<1> HIDE DEF t
<1>3. \A i \in 1 .. Len(s) + 1 : i = Len(s) + 1 \/ i \in 1 .. Len(s)
  BY <1>1
<1>4. Len(s) + 1 \notin 1 .. Len(s) /\ Len(s) + 1 \in 1 .. Len(s) + 1 /\ \A i \in 1 .. Len(s) : i \in 1 .. Len(s) + 1
  BY <1>1
<1>5. IsFiniteSet(A) /\ Len(s) + 1 \notin A
  <2>1. IsFiniteSet(1 .. Len(s))
    BY <1>1, FS_Interval
  <2>2. QED
    BY <1>1, <1>4, <2>1, FS_Subset
<1>6. CASE x = m
  <2>1. B = A \union {Len(s) + 1}
    BY <1>1, <1>2, <1>3, <1>4, <1>6
  <2> HIDE DEF A, B
  <2>2. Cardinality(B) = Cardinality(A) + 1
    BY <1>5, <2>1, FS_AddElement
  <2>3. QED
    BY <1>6, <2>2 DEF Occurs, A, B, t
<1>7. CASE x # m
  <2>1. B = A
    BY <1>1, <1>2, <1>3, <1>4, <1>7
  <2>2. QED
    BY <1>7, <2>1 DEF Occurs, t
<1>8. QED
  BY <1>6, <1>7

LEMMA OccursNot ==
  ASSUME NEW s \in Seq(Nat), NEW m, \A i \in DOMAIN s : s[i] # m
  PROVE  Occurs(s, m) = 0
<1>1. {i \in DOMAIN s : s[i] = m} = {}
  OBVIOUS
<1>2. QED
  BY <1>1, FS_EmptySet DEF Occurs

\* The nodes have rows, others list nothing, and nothing but nodes is listed;
\* an edge is at both ends as often, and there is one out of each part.
LayerInv(layer, nodes) ==
  /\ layer \in Seq(Seq(Nat)) /\ nodes \subseteq Nat
  /\ \A n \in nodes : n + 1 \in 1 .. Len(layer)
  /\ \A r \in 1 .. Len(layer) : \A i \in DOMAIN layer[r] : r - 1 \in nodes /\ layer[r][i] \in nodes
  /\ \A n, m \in nodes : Occurs(layer[n + 1], m) = Occurs(layer[m + 1], n)
  /\ \A S \in (SUBSET nodes) \ {{}, nodes} : \E n \in S, m \in nodes \ S : Occurs(layer[n + 1], m) > 0

LEMMA LayerResized ==
  ASSUME NEW layer, NEW nodes, LayerInv(layer, nodes), NEW size \in Nat
  PROVE  LayerInv(Resize(layer, size), nodes) /\ Len(Resize(layer, size)) >= size /\ Len(Resize(layer, size)) \in Nat
<1> DEFINE big == Resize(layer, size)
<1>1. layer \in Seq(Seq(Nat)) /\ nodes \subseteq Nat
  BY DEF LayerInv
<1>2. /\ big \in Seq(Seq(Nat)) /\ Len(layer) \in Nat
      /\ Len(big) = IF size <= Len(layer) THEN Len(layer) ELSE size
      /\ \A i \in 1 .. Len(layer) : big[i] = layer[i]
      /\ \A i \in 1 .. size : i > Len(layer) => big[i] = <<>>
  <2> DEFINE X == Seq(Nat)
  <2>1. <<>> \in X /\ layer \in Seq(X)
    BY <1>1
  <2> HIDE DEF X
  <2>2. /\ big \in Seq(X) /\ Len(layer) \in Nat
        /\ Len(big) = IF size <= Len(layer) THEN Len(layer) ELSE size
        /\ \A i \in 1 .. Len(layer) : big[i] = layer[i]
        /\ \A i \in 1 .. size : i > Len(layer) => big[i] = <<>>
    BY <2>1, Resized
  <2>3. QED
    BY <2>2 DEF X
<1> HIDE DEF big
<1>3. \A r \in 1 .. Len(layer) : r \in 1 .. Len(big)
  BY <1>2
<1>4. ASSUME NEW r \in 1 .. Len(big) PROVE r \in 1 .. Len(layer) \/ big[r] = <<>>
  BY <1>2
<1>5. \A n \in nodes : n + 1 \in 1 .. Len(layer) /\ big[n + 1] = layer[n + 1]
  BY <1>2 DEF LayerInv
<1>6. \A r \in 1 .. Len(big) : \A i \in DOMAIN big[r] : r - 1 \in nodes /\ big[r][i] \in nodes
  <2> TAKE r \in 1 .. Len(big)
  <2>1. CASE r \in 1 .. Len(layer)
    <3>1. big[r] = layer[r]
      BY <1>2, <2>1
    <3>2. QED
      BY <2>1, <3>1 DEF LayerInv
  <2>2. CASE big[r] = <<>>
    BY <2>2
  <2>3. QED
    BY <1>4, <2>1, <2>2
<1>7. \A n, m \in nodes : Occurs(big[n + 1], m) = Occurs(layer[n + 1], m)
  BY <1>5
<1>8. LayerInv(big, nodes)
  <2>1. \A n \in nodes : n + 1 \in 1 .. Len(big)
    BY <1>3, <1>5
  <2>2. \A n, m \in nodes : Occurs(big[n + 1], m) = Occurs(big[m + 1], n)
    BY <1>7 DEF LayerInv
  <2>3. \A S \in (SUBSET nodes) \ {{}, nodes} : \E n \in S, m \in nodes \ S : Occurs(big[n + 1], m) > 0
    <3> TAKE S \in (SUBSET nodes) \ {{}, nodes}
    <3>1. PICK n \in S, m \in nodes \ S : Occurs(layer[n + 1], m) > 0
      BY DEF LayerInv
    <3>2. n \in nodes /\ m \in nodes
      OBVIOUS
    <3>3. Occurs(big[n + 1], m) > 0
      BY <1>7, <3>1, <3>2
    <3>4. QED
      BY <3>3
  <2>4. QED
    BY <1>1, <1>2, <1>6, <2>1, <2>2, <2>3 DEF LayerInv
<1>9. QED
  BY <1>2, <1>8 DEF big

\* A new node and an edge to one that is there.
LEMMA LayerLinked ==
  ASSUME NEW layer, NEW nodes, LayerInv(layer, nodes), NEW id \in Nat, id \notin nodes, id + 1 <= Len(layer),
         NEW e \in nodes
  PROVE  LayerInv(Linked(layer, id, e), nodes \union {id})
<1> DEFINE new == Linked(layer, id, e)
           all == nodes \union {id}
<1>1. layer \in Seq(Seq(Nat)) /\ nodes \subseteq Nat /\ Len(layer) \in Nat /\ DOMAIN layer = 1 .. Len(layer)
  BY DEF LayerInv
<1>2. id # e /\ e \in Nat /\ id + 1 # e + 1 /\ id + 1 \in 1 .. Len(layer) /\ e + 1 \in 1 .. Len(layer)
  BY <1>1 DEF LayerInv
<1>3. layer[id + 1] \in Seq(Nat) /\ layer[e + 1] \in Seq(Nat)
  BY <1>1, <1>2
<1>4. Append(layer[id + 1], e) \in Seq(Nat) /\ Append(layer[e + 1], id) \in Seq(Nat)
  BY <1>2, <1>3
<1>5. new = [layer EXCEPT ![id + 1] = Append(layer[id + 1], e), ![e + 1] = Append(layer[e + 1], id)]
  BY <1>1, <1>2 DEF Linked
<1>6. /\ new \in Seq(Seq(Nat)) /\ Len(new) = Len(layer)
      /\ \A r \in 1 .. Len(layer) : new[r] = IF r = e + 1 THEN Append(layer[e + 1], id)
                                             ELSE IF r = id + 1 THEN Append(layer[id + 1], e) ELSE layer[r]
  <2> DEFINE X == Seq(Nat)
             x == Append(layer[id + 1], e)
             y == Append(layer[e + 1], id)
             p == id + 1
             q == e + 1
             one == [layer EXCEPT ![p] = x]
             two == [one EXCEPT ![q] = y]
  <2>1. new = two /\ layer \in Seq(X) /\ p \in 1 .. Len(layer) /\ q \in 1 .. Len(layer) /\ p # q /\ x \in X /\ y \in X
    BY <1>1, <1>2, <1>4, <1>5
  <2> HIDE DEF new, X, x, y, p, q
  <2>2. /\ one \in Seq(X) /\ Len(one) = Len(layer)
        /\ \A r \in 1 .. Len(layer) : one[r] = IF r = p THEN x ELSE layer[r]
    BY <2>1
  <2> HIDE DEF one
  <2>3. /\ two \in Seq(X) /\ Len(two) = Len(layer)
        /\ \A r \in 1 .. Len(layer) : two[r] = IF r = q THEN y ELSE one[r]
    BY <2>1, <2>2
  <2> HIDE DEF two
  <2>4. \A r \in 1 .. Len(layer) : new[r] = IF r = q THEN y ELSE IF r = p THEN x ELSE layer[r]
    BY <2>1, <2>2, <2>3
  <2>5. QED
    BY <2>1, <2>3, <2>4 DEF X, x, y, p, q
<1> HIDE DEF new
<1>7. \A n \in all : n \in Nat /\ n + 1 \in 1 .. Len(layer) /\ layer[n + 1] \in Seq(Nat)
  BY <1>1, <1>2 DEF LayerInv
<1>8. \A n \in nodes : n # id
  OBVIOUS
<1>9. /\ new[e + 1] = Append(layer[e + 1], id) /\ new[id + 1] = Append(layer[id + 1], e)
      /\ \A n \in all : n # e /\ n # id => new[n + 1] = layer[n + 1]
  <2>1. \A n \in all : n # e /\ n # id => n + 1 # e + 1 /\ n + 1 # id + 1 /\ n + 1 \in 1 .. Len(layer)
    BY <1>2, <1>7
  <2>2. QED
    BY <1>2, <1>6, <2>1
\* Before, the new node was nowhere.
<1>10. /\ \A m : Occurs(layer[id + 1], m) = 0
       /\ \A n \in all : Occurs(layer[n + 1], id) = 0
  <2>1. \A i \in DOMAIN layer[id + 1] : FALSE
    BY <1>2 DEF LayerInv
  <2>2. \A n \in all : \A i \in DOMAIN layer[n + 1] : layer[n + 1][i] # id
    BY <1>7, <1>8 DEF LayerInv
  <2>3. QED
    BY <1>3, <1>7, <2>1, <2>2, OccursNot
<1>11. \A n, m \in all : Occurs(layer[n + 1], m) \in Nat
  BY <1>7, OccursType
<1>12. \A n, m \in all :
         Occurs(new[n + 1], m) = IF (n = e /\ m = id) \/ (n = id /\ m = e) THEN Occurs(layer[n + 1], m) + 1
                                 ELSE Occurs(layer[n + 1], m)
  <2>1. \A m \in all : Occurs(new[e + 1], m) = IF id = m THEN Occurs(layer[e + 1], m) + 1 ELSE Occurs(layer[e + 1], m)
    BY <1>3, <1>9, OccursAppend
  <2>2. \A m \in all : Occurs(new[id + 1], m) = IF e = m THEN Occurs(layer[id + 1], m) + 1 ELSE Occurs(layer[id + 1], m)
    BY <1>2, <1>3, <1>9, OccursAppend
  <2>3. QED
    BY <1>2, <1>9, <2>1, <2>2
<1>13. all \subseteq Nat /\ \A n \in all : n + 1 \in 1 .. Len(new)
  BY <1>6, <1>7
<1>14. \A r \in 1 .. Len(new) : \A i \in DOMAIN new[r] : r - 1 \in all /\ new[r][i] \in all
  <2> TAKE r \in 1 .. Len(new)
  <2> TAKE i \in DOMAIN new[r]
  <2>1. CASE r = e + 1
    <3>1. DOMAIN layer[e + 1] = 1 .. Len(layer[e + 1]) /\ DOMAIN new[r] = 1 .. Len(layer[e + 1]) + 1 /\ Len(layer[e + 1]) \in Nat
      BY <1>2, <1>3, <1>9, <2>1
    <3>2. new[r][i] = id \/ (i \in DOMAIN layer[e + 1] /\ new[r][i] = layer[e + 1][i])
      <4>1. i = Len(layer[e + 1]) + 1 \/ i \in 1 .. Len(layer[e + 1])
        BY <3>1
      <4>2. QED
        <5>1. IsSeq(layer[e + 1])
          BY <1>3 DEF IsSeq
        <5>2. new[r] = Append(layer[e + 1], id)
          BY <1>9, <2>1
        <5>3. QED
          BY <3>1, <4>1, <5>1, <5>2, Appended
    <3>3. r - 1 = e
      BY <1>2, <2>1
    <3>4. QED
      BY <1>2, <3>2, <3>3 DEF LayerInv
  <2>2. CASE r = id + 1
    <3>1. DOMAIN layer[id + 1] = 1 .. Len(layer[id + 1]) /\ DOMAIN new[r] = 1 .. Len(layer[id + 1]) + 1 /\ Len(layer[id + 1]) \in Nat
      BY <1>2, <1>3, <1>9, <2>2
    <3>2. new[r][i] = e \/ (i \in DOMAIN layer[id + 1] /\ new[r][i] = layer[id + 1][i])
      <4>1. i = Len(layer[id + 1]) + 1 \/ i \in 1 .. Len(layer[id + 1])
        BY <3>1
      <4>2. QED
        <5>1. IsSeq(layer[id + 1])
          BY <1>3 DEF IsSeq
        <5>2. new[r] = Append(layer[id + 1], e)
          BY <1>9, <2>2
        <5>3. QED
          BY <3>1, <4>1, <5>1, <5>2, Appended
    <3>3. r - 1 = id
      BY <1>2, <2>2
    <3>4. QED
      BY <1>2, <3>2, <3>3 DEF LayerInv
  <2>3. CASE r # e + 1 /\ r # id + 1
    BY <1>6, <2>3 DEF LayerInv
  <2>4. QED
    BY <2>1, <2>2, <2>3
<1>15. \A n, m \in all : Occurs(new[n + 1], m) = Occurs(new[m + 1], n)
  <2>1. \A n, m \in nodes : Occurs(layer[n + 1], m) = Occurs(layer[m + 1], n)
    BY DEF LayerInv
  <2>2. \A n \in all : Occurs(layer[n + 1], id) = Occurs(layer[id + 1], n)
    BY <1>10
  <2>3. \A n, m \in all : Occurs(layer[n + 1], m) = Occurs(layer[m + 1], n)
    BY <2>1, <2>2
  <2>4. QED
    BY <1>12, <2>3
<1>16. ASSUME NEW S \in (SUBSET all) \ {{}, all} PROVE \E n \in S, m \in all \ S : Occurs(new[n + 1], m) > 0
  <2>1. CASE S = {id}
    <3>1. e \in all \ S /\ Occurs(new[id + 1], e) = Occurs(layer[id + 1], e) + 1 /\ Occurs(layer[id + 1], e) \in Nat
      BY <1>2, <1>11, <1>12, <2>1
    <3>2. QED
      BY <2>1, <3>1
  <2>2. CASE S = nodes
    <3>1. id \in all \ S /\ e \in S /\ Occurs(new[e + 1], id) = Occurs(layer[e + 1], id) + 1 /\ Occurs(layer[e + 1], id) \in Nat
      BY <1>2, <1>11, <1>12, <2>2
    <3>2. QED
      BY <3>1
  <2>3. CASE S # {id} /\ S # nodes
    <3> DEFINE P == S \ {id}
    <3>1. P \in (SUBSET nodes) \ {{}, nodes}
      BY <2>3
    <3>2. PICK n \in P, m \in nodes \ P : Occurs(layer[n + 1], m) > 0
      BY <3>1 DEF LayerInv
    <3>3. n \in S /\ m \in all \ S /\ n \in all /\ m \in all
      BY <1>8
    <3>4. Occurs(new[n + 1], m) > 0
      BY <1>11, <1>12, <3>2, <3>3
    <3>5. QED
      BY <3>3, <3>4
  <2>4. QED
    BY <2>1, <2>2, <2>3
<1>17. QED
  BY <1>6, <1>13, <1>14, <1>15, <1>16 DEF LayerInv, new

\* A layer with one node.
LEMMA LayerOfOne ==
  ASSUME NEW id \in Nat
  PROVE  LayerInv(Resize(<<>>, id + 1), {id})
<1> DEFINE new == Resize(<<>>, id + 1)
<1>1. /\ new \in Seq(Seq(Nat)) /\ Len(new) = id + 1
      /\ \A r \in 1 .. Len(new) : new[r] = <<>>
  <2> DEFINE X == Seq(Nat)
  <2>1. <<>> \in X
    OBVIOUS
  <2> HIDE DEF X
  <2>2. <<>> \in Seq(X) /\ Len(<<>>) = 0 /\ id + 1 \in Nat
    BY EmptySeq
  <2>3. PICK s, n : s = <<>> /\ n = id + 1 /\ s \in Seq(X) /\ n \in Nat /\ Len(s) = 0
    BY <2>2
  <2>4. /\ Resize(s, n) \in Seq(X) /\ Len(Resize(s, n)) = IF n <= Len(s) THEN Len(s) ELSE n
        /\ \A i \in 1 .. n : i > Len(s) => Resize(s, n)[i] = <<>>
    <3>1. n \in Nat /\ s \in Seq(X)
      BY <2>3
    <3>2. QED
      BY ONLY <2>1, <3>1, Resized
  <2>5. new = Resize(s, n)
    BY <2>3
  <2> HIDE DEF new
  <2>6. QED
    BY <2>3, <2>4, <2>5 DEF X
<1> HIDE DEF new
<1>2. \A r \in 1 .. Len(new) : \A i \in DOMAIN new[r] : FALSE
  BY <1>1
<1>3. id + 1 \in 1 .. Len(new)
  BY <1>1
<1>4. (SUBSET {id}) \ {{}, {id}} = {}
  OBVIOUS
<1>5. QED
  BY <1>1, <1>2, <1>3, <1>4 DEF LayerInv, new

--------------------------------------------------------------------------------
(* The graph. *)

\* One vector, code and level for each insertion, as many layers as the top
\* level says, the entry node on all of them, and every layer in one piece.
IndexInv ==
  /\ IsSeq(codes) /\ IsSeq(levels) /\ IsSeq(stored)
  /\ Len(codes) = Len(stored) /\ Len(levels) = Len(stored)
  /\ \A i \in 1 .. Len(stored) : levels[i] \in 0 .. maxLevel /\ stored[i].id \in Nat
  /\ maxLevel \in Int /\ graph \in Seq(Seq(Seq(Nat))) /\ Len(graph) = maxLevel + 1
  /\ Len(stored) = 0 => maxLevel = -1
  /\ Len(stored) # 0 => \E i \in 1 .. Len(stored) : stored[i].id = enter /\ levels[i] = maxLevel
  /\ \A l \in 0 .. maxLevel : LayerInv(graph[l + 1], NodesAt(l))

LEMMA NodesAtIs ==
  ASSUME IndexInv, NEW l, NEW n
  PROVE  n \in NodesAt(l) <=> \E i \in 1 .. Len(stored) : stored[i].id = n /\ levels[i] >= l
<1>1. DOMAIN levels = 1 .. Len(stored)
  BY SeqLength DEF IndexInv
<1>2. QED
  BY <1>1 DEF NodesAt

LEMMA InsertKeeps ==
  ASSUME IndexInv, NEW id \in Nat, NEW vector, NEW level \in Nat, \A i \in DOMAIN stored : stored[i].id # id,
         Insert(id, vector, level)
  PROVE  IndexInv'
<1> DEFINE N == Len(stored)
           book == IF pq = <<>> THEN Blank ELSE pq
           new == [id |-> id, vector |-> vector, book |-> book]
           layers == Resize(graph, level + 1)
           rows == WithRows(id, level)
           top == IF level > maxLevel THEN level ELSE maxLevel
<1>1. /\ IsSeq(codes) /\ IsSeq(levels) /\ IsSeq(stored) /\ Len(codes) = N /\ Len(levels) = N /\ N \in Nat
      /\ \A i \in 1 .. N : levels[i] \in 0 .. maxLevel /\ stored[i].id \in Nat /\ stored[i].id # id
      /\ maxLevel \in Int /\ graph \in Seq(Seq(Seq(Nat))) /\ Len(graph) = maxLevel + 1 /\ Len(graph) \in Nat
      /\ codes = <<>> <=> N = 0
  BY SMTT(20), SeqLength DEF IndexInv
<1>2. /\ codes' = Append(codes, Encode(book, vector)) /\ levels' = Append(levels, level)
      /\ stored' = Append(stored, new)
      /\ graph' = [l \in DOMAIN rows |-> IF codes # <<>> /\ l - 1 \in Shared(level)
                                          THEN Linked(rows[l], id, enter) ELSE rows[l]]
      /\ IF codes = <<>> \/ level > maxLevel THEN enter' = id /\ maxLevel' = level
                                             ELSE UNCHANGED <<enter, maxLevel>>
  BY DEF Insert
<1>3. new.id = id
  OBVIOUS
<1> HIDE DEF book, new
<1>4. /\ IsSeq(codes') /\ Len(codes') = N + 1
      /\ IsSeq(levels') /\ Len(levels') = N + 1 /\ levels'[N + 1] = level
      /\ \A i \in 1 .. N : levels'[i] = levels[i]
      /\ IsSeq(stored') /\ Len(stored') = N + 1 /\ stored'[N + 1].id = id
      /\ \A i \in 1 .. N : stored'[i] = stored[i]
  BY <1>1, <1>2, <1>3, Appended
<1>5. maxLevel' = top /\ enter' = (IF level > maxLevel THEN id ELSE enter) /\ top \in Nat /\ level <= top /\ maxLevel <= top
  <2>1. N = 0 => maxLevel = -1
    BY DEF IndexInv
  <2>2. codes = <<>> => level > maxLevel
    BY <1>1, <2>1
  <2>3. maxLevel \in Int /\ maxLevel >= -1
    BY <1>1
  <2>4. QED
    BY <1>2, <2>2, <2>3
<1>6. \A i \in 1 .. N + 1 : i = N + 1 \/ i \in 1 .. N
  BY <1>1
<1>7. \A i \in 1 .. N + 1 : levels'[i] \in 0 .. top /\ stored'[i].id \in Nat
  <2>1. \A i \in 1 .. N : levels'[i] \in 0 .. maxLevel /\ stored'[i].id \in Nat
    BY <1>1, <1>4
  <2>2. \A i \in 1 .. N : levels'[i] \in 0 .. top
    BY <1>1, <1>5, <2>1
  <2>3. levels'[N + 1] \in 0 .. top /\ stored'[N + 1].id \in Nat
    BY <1>4, <1>5
  <2>4. QED
    BY <1>6, <2>1, <2>2, <2>3
<1>8. ASSUME NEW l \in Int PROVE NodesAt(l)' = NodesAt(l) \union (IF level >= l THEN {id} ELSE {})
  <2>1. DOMAIN levels' = 1 .. N + 1
    BY <1>4, SeqLength
  <2>2. \A n : n \in NodesAt(l)' <=> \E i \in 1 .. N + 1 : stored'[i].id = n /\ levels'[i] >= l
    BY <2>1 DEF NodesAt
  <2>3. \A n : n \in NodesAt(l) <=> \E i \in 1 .. N : stored[i].id = n /\ levels[i] >= l
    BY NodesAtIs
  <2>4. \A n : n \in NodesAt(l)' <=> n \in NodesAt(l) \/ (n = id /\ level >= l)
    <3>1. \A i \in 1 .. N : i \in 1 .. N + 1
      BY <1>1
    <3>2. N + 1 \in 1 .. N + 1
      BY <1>1
    <3>3. ASSUME NEW n, n \in NodesAt(l)' PROVE n \in NodesAt(l) \/ (n = id /\ level >= l)
      <4>1. PICK i \in 1 .. N + 1 : stored'[i].id = n /\ levels'[i] >= l
        BY <2>2, <3>3
      <4>2. CASE i = N + 1
        BY <1>4, <4>1, <4>2
      <4>3. CASE i \in 1 .. N
        BY <1>4, <2>3, <4>1, <4>3
      <4>4. QED
        BY <1>6, <4>2, <4>3
    <3>4. ASSUME NEW n, n \in NodesAt(l) PROVE n \in NodesAt(l)'
      <4>1. PICK i \in 1 .. N : stored[i].id = n /\ levels[i] >= l
        BY <2>3, <3>4
      <4>2. stored'[i].id = n /\ levels'[i] >= l
        BY <1>4, <4>1
      <4>3. QED
        BY <2>2, <3>1, <4>2
    <3>5. level >= l => id \in NodesAt(l)'
      BY <1>4, <2>2, <3>2
    <3>6. QED
      BY <3>3, <3>4, <3>5
  <2>5. QED
    BY <2>4
<1>9. /\ layers \in Seq(Seq(Seq(Nat))) /\ Len(layers) = top + 1
      /\ \A r \in 1 .. maxLevel + 1 : layers[r] = graph[r]
      /\ \A r \in 1 .. level + 1 : r > maxLevel + 1 => layers[r] = <<>>
  <2> DEFINE X == Seq(Seq(Nat))
             n == level + 1
  <2>1. <<>> \in X /\ graph \in Seq(X) /\ n \in Nat
    BY <1>1
  <2> HIDE DEF X, n
  <2>2. /\ Resize(graph, n) \in Seq(X)
        /\ Len(Resize(graph, n)) = IF n <= Len(graph) THEN Len(graph) ELSE n
        /\ \A i \in 1 .. Len(graph) : Resize(graph, n)[i] = graph[i]
        /\ \A i \in 1 .. n : i > Len(graph) => Resize(graph, n)[i] = <<>>
    BY ONLY <2>1, Resized
  <2>3. (IF n <= Len(graph) THEN Len(graph) ELSE n) = top + 1
    BY <1>1 DEF n
  <2>4. QED
    BY <1>1, <2>2, <2>3 DEF X, n
<1>10. /\ DOMAIN rows = 1 .. top + 1
       /\ \A r \in 1 .. top + 1 : rows[r] = IF r <= level + 1 THEN Resize(layers[r], id + 1) ELSE layers[r]
  <2>1. rows = [l \in DOMAIN layers |-> IF l <= level + 1 THEN Resize(layers[l], id + 1) ELSE layers[l]]
    BY DEF WithRows
  <2> HIDE DEF layers, rows
  <2>2. DOMAIN layers = 1 .. top + 1
    BY <1>9
  <2>3. QED
    BY <2>1, <2>2
<1> HIDE DEF layers, rows, top
<1>11. ASSUME NEW l \in 0 .. top PROVE LayerInv(graph'[l + 1], NodesAt(l)')
  <2> DEFINE r == l + 1
  <2>1. r \in 1 .. top + 1 /\ r - 1 = l /\ l \in Nat
    BY <1>5
  <2>2. graph'[r] = IF codes # <<>> /\ l \in Shared(level) THEN Linked(rows[r], id, enter) ELSE rows[r]
    BY <1>2, <1>10, <2>1
  <2>3. l \in Shared(level) <=> l <= level /\ l <= maxLevel
    BY <2>1 DEF Shared
  <2>4. CASE l > level
    <3>1. l <= maxLevel /\ l \in 0 .. maxLevel /\ r \in 1 .. maxLevel + 1 /\ ~(r <= level + 1) /\ ~(level >= l)
      BY <1>1, <1>5, <2>1, <2>4 DEF top
    <3>2. graph'[r] = graph[r]
      BY <1>9, <1>10, <2>1, <2>2, <2>3, <2>4, <3>1
    <3>3. NodesAt(l)' = NodesAt(l)
      <4>1. NodesAt(l)' = NodesAt(l) \union (IF level >= l THEN {id} ELSE {})
        BY <1>8, <2>1
      <4>2. QED
        BY <3>1, <4>1
    <3>4. LayerInv(graph[l + 1], NodesAt(l))
      BY <3>1 DEF IndexInv
    <3>5. QED
      BY <3>2, <3>3, <3>4
  <2>5. CASE l <= level /\ l <= maxLevel
    <3>1. l \in 0 .. maxLevel /\ r \in 1 .. maxLevel + 1 /\ r <= level + 1 /\ level >= l /\ maxLevel \in Nat
      BY <1>1, <2>1, <2>5
    <3>2. LayerInv(graph[r], NodesAt(l))
      BY <3>1 DEF IndexInv
    <3>3. PICK size \in Nat : size = id + 1
      OBVIOUS
    <3>4. /\ LayerInv(Resize(graph[r], size), NodesAt(l)) /\ Len(Resize(graph[r], size)) >= size
      BY <3>2, LayerResized
    <3>5. rows[r] = Resize(graph[r], size)
      BY <1>9, <1>10, <2>1, <3>1, <3>3
    <3>6. N # 0 /\ codes # <<>>
      <4>1. N = 0 => maxLevel = -1
        BY DEF IndexInv
      <4>2. QED
        BY <1>1, <3>1, <4>1
    <3>7. enter \in NodesAt(l)
      <4>1. PICK i \in 1 .. N : stored[i].id = enter /\ levels[i] = maxLevel
        BY <3>6 DEF IndexInv
      <4>2. levels[i] >= l
        BY <3>1, <4>1
      <4>3. QED
        BY <4>1, <4>2, NodesAtIs
    <3>8. id \notin NodesAt(l)
      BY <1>1, NodesAtIs
    <3>9. LayerInv(Linked(rows[r], id, enter), NodesAt(l) \union {id})
      BY <3>3, <3>4, <3>5, <3>7, <3>8, LayerLinked
    <3>10. NodesAt(l)' = NodesAt(l) \union {id}
      BY <1>8, <2>1, <3>1
    <3>11. graph'[r] = Linked(rows[r], id, enter)
      BY <2>2, <2>3, <2>5, <3>6
    <3>12. QED
      BY <3>9, <3>10, <3>11
  <2>6. CASE l <= level /\ l > maxLevel
    <3>1. r \in 1 .. level + 1 /\ r > maxLevel + 1 /\ r <= level + 1 /\ level >= l
      BY <1>1, <2>1, <2>6
    <3>2. rows[r] = Resize(<<>>, id + 1)
      BY <1>9, <1>10, <2>1, <3>1
    <3>3. graph'[r] = rows[r]
      BY <1>1, <2>1, <2>2, <2>3, <2>6
    <3>4. NodesAt(l) = {}
      <4>1. \A i \in 1 .. N : ~(levels[i] >= l)
        BY <1>1, <2>1, <2>6
      <4>2. QED
        BY <4>1, NodesAtIs
    <3>5. NodesAt(l)' = {id}
      BY <1>8, <2>1, <3>1, <3>4
    <3>6. QED
      BY <3>2, <3>3, <3>5, LayerOfOne
  <2>7. QED
    BY <1>1, <2>1, <2>4, <2>5, <2>6
<1>12. graph' \in Seq(Seq(Seq(Nat))) /\ Len(graph') = top + 1
  <2>1. \A r \in 1 .. top + 1 : graph'[r] \in Seq(Seq(Nat))
    <3> TAKE r \in 1 .. top + 1
    <3>1. r - 1 \in 0 .. top /\ (r - 1) + 1 = r
      BY <1>5
    <3>2. LayerInv(graph'[r], NodesAt(r - 1)')
      BY <1>11, <3>1
    <3>3. QED
      BY <3>2 DEF LayerInv
  <2> DEFINE X == Seq(Seq(Nat))
  <2>2. DOMAIN graph' = 1 .. top + 1 /\ graph' = [r \in 1 .. top + 1 |-> graph'[r]]
    BY <1>2, <1>10
  <2>3. graph' \in [1 .. top + 1 -> X] /\ top + 1 \in Nat
    BY <1>5, <2>1, <2>2
  <2> HIDE DEF X
  <2>4. graph' \in Seq(X) /\ Len(graph') = top + 1
    BY <2>3
  <2>5. QED
    BY <2>4 DEF X
<1>13. \E i \in 1 .. N + 1 : stored'[i].id = enter' /\ levels'[i] = top
  <2>1. CASE level > maxLevel
    <3>1. N + 1 \in 1 .. N + 1
      BY <1>1
    <3>2. enter' = id /\ top = level
      BY <1>5, <2>1 DEF top
    <3>3. QED
      BY <1>4, <3>1, <3>2
  <2>2. CASE ~(level > maxLevel)
    <3>1. N # 0
      BY <1>1, <2>2 DEF IndexInv
    <3>2. PICK i \in 1 .. N : stored[i].id = enter /\ levels[i] = maxLevel
      BY <3>1 DEF IndexInv
    <3>3. i \in 1 .. N + 1
      BY <1>1
    <3>4. QED
      BY <1>4, <1>5, <2>2, <3>2, <3>3 DEF top
  <2>3. QED
    BY <2>1, <2>2
<1>14. IndexInv'
  <2>1. maxLevel' \in Int /\ N + 1 # 0
    BY <1>1, <1>5
  <2>2. QED
    BY <1>4, <1>5, <1>7, <1>11, <1>12, <1>13, <2>1 DEF IndexInv
<1>15. QED
  BY <1>14

LEMMA IndexSteps == IndexInv /\ (IndexNext \/ UNCHANGED indexVars) => IndexInv'
<1> SUFFICES ASSUME IndexInv, IndexNext \/ UNCHANGED indexVars PROVE IndexInv'
  OBVIOUS
<1>1. ASSUME UNCHANGED <<codes, graph, levels, enter, maxLevel, stored>> PROVE IndexInv'
  BY <1>1 DEF IndexInv, NodesAt
<1>2. CASE BuildPQ
  BY <1>1, <1>2 DEF BuildPQ
<1>3. CASE TrainSubspace
  BY <1>1, <1>3 DEF TrainSubspace
<1>4. CASE UNCHANGED indexVars
  BY <1>1, <1>4 DEF indexVars
<1>5. ASSUME NEW id \in NodeId, NEW vector \in Vector, NEW level \in SelectRandomLevel,
             \A i \in DOMAIN stored : stored[i].id # id, Insert(id, vector, level)
      PROVE  IndexInv'
  BY <1>5, InsertKeeps, VectorAssumption DEF SelectRandomLevel
<1>6. ASSUME NEW query \in Vector, NEW k \in 1 .. MaxResults, SearchKNN(query, k) PROVE IndexInv'
  BY <1>1, <1>6 DEF SearchKNN
<1>7. QED
  BY <1>2, <1>3, <1>4, <1>5, <1>6 DEF IndexNext

LEMMA IndexInitial == IndexInit => IndexInv
<1> SUFFICES ASSUME IndexInit PROVE IndexInv
  OBVIOUS
<1>1. codes = <<>> /\ graph = <<>> /\ levels = <<>> /\ stored = <<>> /\ maxLevel = -1
  BY DEF IndexInit
<1>2. <<>> \in Seq(Nat) /\ <<>> \in Seq(Seq(Seq(Nat))) /\ Len(<<>>) = 0
  OBVIOUS
<1>3. IsSeq(<<>>)
  BY <1>2 DEF IsSeq
<1>4. QED
  BY <1>1, <1>2, <1>3 DEF IndexInv

--------------------------------------------------------------------------------
(* The filter. *)

\* Every file is opened with the same row group.
GroupsInv == groups \in {<<>>, <<<<[min |-> 0, max |-> 999], [min |-> 100, max |-> 10999]>>>>}

LEMMA GroupsSteps == GroupsInv /\ [Next]_vars => GroupsInv'
<1> SUFFICES ASSUME GroupsInv, [Next]_vars PROVE GroupsInv'
  OBVIOUS
<1>1. CASE UNCHANGED groups
  BY <1>1 DEF GroupsInv
<1>2. CASE Open
  BY <1>2 DEF GroupsInv, Open
<1>3. PageNext => UNCHANGED groups
  BY DEF PageNext, ReadPage, ReadBatch
<1>4. [Next]_vars => UNCHANGED columnVars \/ PageNext \/ Open
  BY DEF Next, vars
<1>5. QED
  BY <1>1, <1>2, <1>3, <1>4 DEF columnVars

\* A filter drops no row of the first column that matches it; of the second, all
\* with a range below the least of its statistics, and none with any other.
LEMMA FilterLoses ==
  ASSUME GroupsInv, NEW gt \in Int, NEW lt \in Int
  PROVE  LosesLowRows(gt, lt)
<1>1. CASE groups = <<>>
  <2>1. Rows(1) = {}
    BY <1>1 DEF Rows
  <2>2. QED
    BY <2>1 DEF LosesLowRows, Matches, ReadInt32Column, ReadInt64Column
<1>2. CASE groups = <<<<[min |-> 0, max |-> 999], [min |-> 100, max |-> 10999]>>>>
  <2>1. Rows(1) = 1 .. 1000
    BY <1>2 DEF Rows, NumRows
  <2>2. groups[1][1].min = 0 /\ groups[1][1].max = 999 /\ groups[1][2].min = 100 /\ groups[1][2].max = 10999
    BY <1>2
  <2>3. 1 \in DOMAIN groups[1] /\ 2 \in DOMAIN groups[1]
    BY <1>2
  <2>4. \A c, i : i \in Kept(c, gt, lt) <=> i \in Rows(1) /\ EvaluateFilter(c, gt, lt, 1)[i] = 1
    BY DEF Kept
  <2>5. \A c : c \in DOMAIN groups[1] =>
          \A i \in Rows(1) : EvaluateFilter(c, gt, lt, 1)[i] = 1 <=> ~Pruned(groups[1][c], gt, lt)
    BY DEF EvaluateFilter
  <2>6. /\ \A i : i \in Kept(1, gt, lt) <=> i \in Rows(1) /\ ~Pruned(groups[1][1], gt, lt)
        /\ \A i : i \in Kept(2, gt, lt) <=> i \in Rows(1) /\ ~Pruned(groups[1][2], gt, lt)
    BY ONLY <2>3, <2>4, <2>5
  <2>7. \A i : i \in Matches(ReadInt32Column(1), gt, lt) <=> i \in Rows(1) /\ i - 1 \in gt .. lt
    <3>1. /\ DOMAIN ReadInt32Column(1) = Rows(1)
          /\ \A i \in Rows(1) : ReadInt32Column(1)[i] = i - 1
      BY DEF ReadInt32Column
    <3>2. \A i : i \in Matches(ReadInt32Column(1), gt, lt)
                   <=> i \in DOMAIN ReadInt32Column(1) /\ ReadInt32Column(1)[i] \in gt .. lt
      BY DEF Matches
    <3>3. QED
      BY ONLY <3>1, <3>2
  <2>8. \A i : i \in Matches(ReadInt64Column(1), gt, lt) <=> i \in Rows(1) /\ (i - 1) * 10 \in gt .. lt
    <3>1. /\ DOMAIN ReadInt64Column(1) = Rows(1)
          /\ \A i \in Rows(1) : ReadInt64Column(1)[i] = (i - 1) * 10
      BY DEF ReadInt64Column
    <3>2. \A i : i \in Matches(ReadInt64Column(1), gt, lt)
                   <=> i \in DOMAIN ReadInt64Column(1) /\ ReadInt64Column(1)[i] \in gt .. lt
      BY DEF Matches
    <3>3. QED
      BY ONLY <3>1, <3>2
  <2>9. \A i \in Rows(1) : i - 1 \in gt .. lt => ~Pruned(groups[1][1], gt, lt)
    BY <2>1, <2>2 DEF Pruned
  <2>10. \A i \in Rows(1) : (i - 1) * 10 \in gt .. lt /\ ~(lt < 100) => ~Pruned(groups[1][2], gt, lt)
    BY <2>1, <2>2 DEF Pruned
  <2>11. lt < 100 => Pruned(groups[1][2], gt, lt)
    BY <2>2 DEF Pruned
  <2>12. Matches(ReadInt32Column(1), gt, lt) \subseteq Kept(1, gt, lt)
    BY ONLY <2>6, <2>7, <2>9
  <2>13. lt < 100 => Kept(2, gt, lt) = {}
    BY ONLY <2>6, <2>11
  <2>14. ~(lt < 100) => Matches(ReadInt64Column(1), gt, lt) \subseteq Kept(2, gt, lt)
    BY ONLY <2>6, <2>8, <2>10
  <2>15. QED
    BY <2>12, <2>13, <2>14 DEF LosesLowRows
<1>3. QED
  BY <1>1, <1>2 DEF GroupsInv

--------------------------------------------------------------------------------
LEMMA IndexInvariant == Spec => []IndexInv
<1>1. Init => IndexInv
  BY IndexInitial DEF Init
<1>2. [Next]_vars => IndexNext \/ UNCHANGED indexVars
  BY DEF Next, vars
<1>3. IndexInv /\ [Next]_vars => IndexInv'
  BY <1>2, IndexSteps
<1>4. QED
  BY <1>1, <1>3, PTL DEF Spec

\* However many vectors are inserted, in whatever order and on whatever levels,
\* every layer stays in one piece and has the entry node (HNSWIndex::Insert).
THEOREM GraphStaysConnected == Spec => []LayersAreConnected
<1>1. IndexInv => LayersAreConnected
  <2> SUFFICES ASSUME IndexInv, NEW l \in 0 .. maxLevel
               PROVE  /\ enter \in NodesAt(l)
                      /\ \A n, m \in NodesAt(l) : Edges(l, n, m) = Edges(l, m, n)
                      /\ \A S \in (SUBSET NodesAt(l)) \ {{}, NodesAt(l)} :
                           \E n \in S, m \in NodesAt(l) \ S : Edges(l, n, m) > 0
    BY DEF LayersAreConnected
  <2>1. LayerInv(graph[l + 1], NodesAt(l))
    BY DEF IndexInv
  <2>2. Len(stored) # 0 /\ maxLevel \in Int
    BY DEF IndexInv
  <2>3. PICK i \in 1 .. Len(stored) : stored[i].id = enter /\ levels[i] = maxLevel
    BY <2>2 DEF IndexInv
  <2>4. enter \in NodesAt(l)
    BY <2>2, <2>3, NodesAtIs
  <2>5. QED
    BY <2>1, <2>4 DEF LayerInv, Edges
<1>2. QED
  BY <1>1, IndexInvariant, PTL

\* Which matching rows a filter drops, for every range over the integers, those of
\* the property among them: none of the first column, and of the second all if the
\* range ends below 100, none if it does not (ParquetReader::EvaluateFilter).  The
\* groups that are kept are kept whole, the rows that do not match included.
THEOREM FilterLosesLowRows ==
  Spec => []OnlyLowRowsAreLost /\ [](\A gt, lt \in Int : LosesLowRows(gt, lt))
<1>1. Init => GroupsInv
  BY DEF Init, ColumnInit, GroupsInv
<1>2. GroupsInv => \A gt, lt \in Int : LosesLowRows(gt, lt)
  BY FilterLoses
<1>3. (\A gt, lt \in Int : LosesLowRows(gt, lt)) => OnlyLowRowsAreLost
  BY DEF OnlyLowRowsAreLost, Bounds
<1>4. QED
  BY <1>1, <1>2, <1>3, GroupsSteps, PTL DEF Spec

--------------------------------------------------------------------------------
(* Sums over finite sets. *)

\* Induction over the naturals, for a set of them.
LEMMA NatSetInduction ==
  ASSUME NEW N \in SUBSET Nat, 0 \in N, \A n \in N : n + 1 \in N
  PROVE  N = Nat
<1> DEFINE R   == OpToRel(<, Nat)
           Bad == Nat \ N
<1> SUFFICES ASSUME Bad # {} PROVE FALSE
  OBVIOUS
<1>1. IsWellFoundedOn(R, Nat)
  BY NatLessThanWellFounded
<1>2. \A m, n \in Nat : m < n => <<m, n>> \in R
  BY DEF OpToRel
<1> HIDE DEF R
<1>3. PICK n \in Bad : \A m \in Bad : <<m, n>> \notin R
  <2>1. Bad \subseteq Nat
    OBVIOUS
  <2> HIDE DEF Bad
  <2>2. QED
    BY <1>1, <2>1, WFMin
<1>4. n # 0 /\ n - 1 \in Nat /\ n - 1 < n /\ n \in Nat
  OBVIOUS
<1>5. n - 1 \in N
  BY <1>2, <1>3, <1>4
<1>6. QED
  BY <1>4, <1>5

\* Among subsets of a finite set one is smallest: induction over finite sets.
LEMMA SmallestSet ==
  ASSUME NEW S, IsFiniteSet(S), NEW F \in SUBSET SUBSET S, F # {}
  PROVE  \E T \in F : \A U \in F : U \subseteq T => U = T
<1> DEFINE R == StrictSubsetOrdering(S)
<1>1. IsWellFoundedOn(R, FiniteSubsetsOf(S)) /\ FiniteSubsetsOf(S) = SUBSET S
  BY FS_StrictSubsetOrderingWellFounded, FS_FiniteSubsetsOfFinite
<1>2. IsWellFoundedOn(R, SUBSET S)
  BY <1>1
<1> HIDE DEF R
<1>3. PICK T \in F : \A U \in F : <<U, T>> \notin R
  BY <1>2, WFMin
<1>4. \A U \in F : U \subseteq T /\ U # T => <<U, T>> \in R
  BY DEF R, StrictSubsetOrdering
<1>5. \A U \in F : U \subseteq T => U = T
  BY <1>3, <1>4
<1>6. QED
  BY <1>5

\* The recursive definition behind a sum.
First(s) == CHOOSE x \in s : TRUE
SumStep(f, s, g) == IF s = {} THEN 0 ELSE f[First(s)] + g[s \ {First(s)}]
IsSum(f, S, g) == g = [s \in SUBSET S |-> SumStep(f, s, g)]

LEMMA SumIsRec ==
  ASSUME NEW f, NEW S
  PROVE SumFunctionOnSet(f, S) = (CHOOSE g : IsSum(f, S, g))[S]
  BY DEF SumFunctionOnSet, FoldFunctionOnSet, MapThenFoldSet, IsSum, SumStep, First

LEMMA FirstIn == ASSUME NEW s, s # {} PROVE First(s) \in s
  BY DEF First

\* A function satisfies the recursive definition.
LEMMA RecExists ==
  ASSUME NEW S, IsFiniteSet(S), NEW f
  PROVE  \E g : IsSum(f, S, g)
<1> DEFINE UpTo(n) == \E g : /\ g = [s \in SUBSET S |-> g[s]]
                             /\ \A s \in SUBSET S : Cardinality(s) <= n => g[s] = SumStep(f, s, g)
           N == {n \in Nat : UpTo(n)}
<1>1. \A s \in SUBSET S : IsFiniteSet(s) /\ Cardinality(s) \in Nat /\ Cardinality(s) <= Cardinality(S)
  BY FS_Subset, FS_CardinalityType
<1>2. \A s \in SUBSET S : s # {} => /\ s \ {First(s)} \in SUBSET S
                                    /\ Cardinality(s \ {First(s)}) = Cardinality(s) - 1
                                    /\ Cardinality(s) > 0
  <2> TAKE s \in SUBSET S
  <2> HAVE s # {}
  <2>1. First(s) \in s
    BY FirstIn
  <2>2. Cardinality(s \ {First(s)}) = Cardinality(s) - 1 /\ Cardinality(s) # 0
    BY <1>1, <2>1, FS_RemoveElement, FS_EmptySet
  <2>3. QED
    BY <1>1, <2>1, <2>2
<1>3. 0 \in N
  <2> DEFINE g == [s \in SUBSET S |-> 0]
  <2>1. g = [s \in SUBSET S |-> g[s]]
    OBVIOUS
  <2>2. \A s \in SUBSET S : Cardinality(s) <= 0 => g[s] = SumStep(f, s, g)
    BY <1>1, FS_EmptySet DEF SumStep
  <2> HIDE DEF g
  <2>3. QED
    BY <2>1, <2>2
<1>4. \A n \in N : n + 1 \in N
  <2> TAKE n \in N
  <2>0. n \in Nat
    OBVIOUS
  <2>1. PICK g : /\ g = [s \in SUBSET S |-> g[s]]
                 /\ \A s \in SUBSET S : Cardinality(s) <= n => g[s] = SumStep(f, s, g)
    OBVIOUS
  <2> DEFINE h == [s \in SUBSET S |-> IF Cardinality(s) <= n THEN g[s] ELSE SumStep(f, s, g)]
  <2>2. h = [s \in SUBSET S |-> h[s]]
    OBVIOUS
  <2>3. \A s \in SUBSET S : Cardinality(s) <= n => h[s] = g[s]
    OBVIOUS
  <2>4. \A s \in SUBSET S : Cardinality(s) <= n + 1 => h[s] = SumStep(f, s, g)
    BY <2>1
  <2>5. \A s \in SUBSET S : Cardinality(s) <= n + 1 => SumStep(f, s, h) = SumStep(f, s, g)
    <3> TAKE s \in SUBSET S
    <3> HAVE Cardinality(s) <= n + 1
    <3> HIDE DEF h
    <3>1. CASE s = {}
      BY <3>1 DEF SumStep
    <3>2. CASE s # {}
      <4>1. s \ {First(s)} \in SUBSET S /\ Cardinality(s \ {First(s)}) <= n
        <5> HIDE DEF N, UpTo
        <5>1. Cardinality(s) \in Nat /\ Cardinality(s \ {First(s)}) = Cardinality(s) - 1
          BY <1>1, <1>2, <3>2
        <5>2. s \ {First(s)} \in SUBSET S
          BY <1>2, <3>2
        <5>3. QED
          BY <2>0, <5>1, <5>2
      <4>2. QED
        BY <2>3, <3>2, <4>1 DEF SumStep
    <3>3. QED
      BY <3>1, <3>2
  <2> HIDE DEF h
  <2>6. UpTo(n + 1)
    BY <2>2, <2>4, <2>5
  <2> HIDE DEF UpTo
  <2>7. QED
    BY <2>0, <2>6
<1>5. Cardinality(S) \in N
  <2>1. N = Nat
    <3>1. N \in SUBSET Nat
      OBVIOUS
    <3> HIDE DEF N
    <3>2. QED
      BY <1>3, <1>4, <3>1, NatSetInduction
  <2>2. QED
    BY <1>1, <2>1
<1>6. PICK g : /\ g = [s \in SUBSET S |-> g[s]]
               /\ \A s \in SUBSET S : Cardinality(s) <= Cardinality(S) => g[s] = SumStep(f, s, g)
  BY <1>5
<1>7. \A s \in SUBSET S : g[s] = SumStep(f, s, g)
  BY <1>1, <1>6
<1>8. g = [s \in SUBSET S |-> SumStep(f, s, g)]
  BY <1>6, <1>7
<1>9. QED
  BY <1>8 DEF IsSum

\* Any function that satisfies it has integers for values, and so has the sum.
LEMMA SumType ==
  ASSUME NEW S, IsFiniteSet(S), NEW f, \A x \in S : f[x] \in Int
  PROVE  SumFunctionOnSet(f, S) \in Int
<1>1. \E g : IsSum(f, S, g)
  BY RecExists
<1>2. PICK g : IsSum(f, S, g) /\ SumFunctionOnSet(f, S) = g[S]
  BY <1>1, SumIsRec
<1> DEFINE Bad == {s \in SUBSET S : g[s] \notin Int}
<1>3. ASSUME Bad # {} PROVE FALSE
  <2>1. PICK T \in Bad : \A U \in Bad : U \subseteq T => U = T
    <3>1. Bad \in SUBSET SUBSET S
      OBVIOUS
    <3> HIDE DEF Bad
    <3>2. QED
      BY <1>3, <3>1, SmallestSet
  <2>2. T \in SUBSET S /\ g[T] = SumStep(f, T, g) /\ g[T] \notin Int
    BY <1>2 DEF IsSum
  <2>3. T # {}
    BY <2>2 DEF SumStep
  <2>4. /\ T \ {First(T)} \in SUBSET S /\ T \ {First(T)} \subseteq T /\ T \ {First(T)} # T
        /\ First(T) \in S
    BY <2>2, <2>3, FirstIn
  <2>5. g[T \ {First(T)}] \in Int
    BY <2>1, <2>4
  <2>6. f[First(T)] \in Int
    BY <2>4
  <2>7. QED
    BY <2>2, <2>3, <2>5, <2>6 DEF SumStep
<1>4. QED
  BY <1>2, <1>3

--------------------------------------------------------------------------------
(* Functions defined step by step. *)

LEMMA UpTo ==
  ASSUME NEW n \in Nat, NEW P, 0 \in P, \A i \in 1 .. n : i - 1 \in P => i \in P
  PROVE  \A i \in 0 .. n : i \in P
<1> DEFINE N == {i \in Nat : i <= n => i \in P}
<1>1. N \in SUBSET Nat /\ 0 \in N
  OBVIOUS
<1>2. ASSUME NEW i \in N PROVE i + 1 \in N
  <2>1. i \in Nat /\ i + 1 \in Nat /\ (i + 1) - 1 = i /\ (i + 1 <= n => i <= n /\ i + 1 \in 1 .. n)
    OBVIOUS
  <2>2. i + 1 <= n => i + 1 \in P
    BY <2>1
  <2>3. QED
    BY <2>1, <2>2
<1>3. N = Nat
  <2> HIDE DEF N
  <2>1. QED
    BY <1>1, <1>2, NatSetInduction
<1>4. QED
  BY <1>3

\* g makes each value from the one before it, beginning with base.
Steps(n, X, base, step) == n \in Nat /\ base \in X /\ step \in [1 .. n -> [X -> X]]
Stepwise(n, base, step, g) == g[0] = base /\ \A i \in 1 .. n : g[i] = step[i][g[i - 1]]

LEMMA StepwiseExists ==
  ASSUME NEW n, NEW X, NEW base, NEW step, Steps(n, X, base, step)
  PROVE  \E g : g \in [0 .. n -> X] /\ Stepwise(n, base, step, g)
<1> USE DEF Steps
<1> DEFINE Up(m) == \E g \in [0 .. n -> X] : g[0] = base /\ \A i \in 1 .. n : i <= m => g[i] = step[i][g[i - 1]]
           P == {m \in 0 .. n : Up(m)}
<1>1. 0 \in P
  <2> DEFINE g == [i \in 0 .. n |-> base]
  <2>1. g \in [0 .. n -> X] /\ g[0] = base /\ \A i \in 1 .. n : ~(i <= 0)
    OBVIOUS
  <2> HIDE DEF g
  <2>2. Up(0) /\ 0 \in 0 .. n
    BY <2>1
  <2> HIDE DEF Up
  <2>3. QED
    BY <2>2
<1>2. ASSUME NEW m \in 1 .. n, m - 1 \in P PROVE m \in P
  <2>1. Up(m - 1)
    BY <1>2
  <2>2. PICK g \in [0 .. n -> X] : g[0] = base /\ \A i \in 1 .. n : i <= m - 1 => g[i] = step[i][g[i - 1]]
    BY <2>1
  <2> DEFINE v == step[m][g[m - 1]]
             h == [g EXCEPT ![m] = v]
  <2>3. m - 1 \in 0 .. n /\ m \in 0 .. n /\ m # 0 /\ v \in X
    OBVIOUS
  <2> HIDE DEF v
  <2>4. h \in [0 .. n -> X] /\ \A i \in 0 .. n : h[i] = IF i = m THEN v ELSE g[i]
    BY <2>3
  <2> HIDE DEF h
  <2>5. ASSUME NEW i \in 1 .. n, i <= m PROVE h[i] = step[i][h[i - 1]]
    <3>1. i \in 0 .. n /\ i - 1 \in 0 .. n /\ i - 1 # m /\ i \in Int /\ m \in Int
      BY <2>5
    <3>2. h[i - 1] = g[i - 1]
      BY <2>4, <3>1
    <3>3. CASE i = m
      BY <2>4, <3>1, <3>2, <3>3 DEF v
    <3>4. CASE i # m
      <4>1. i <= m - 1 /\ h[i] = g[i]
        BY <2>4, <2>5, <3>1, <3>4
      <4>2. QED
        BY <2>2, <3>2, <4>1
    <3>5. QED
      BY <3>3, <3>4
  <2>6. h[0] = base
    BY <2>2, <2>3, <2>4
  <2>7. Up(m)
    BY <2>4, <2>5, <2>6
  <2> HIDE DEF Up
  <2>8. QED
    BY <2>3, <2>7
<1> HIDE DEF P
<1>3. n \in P
  <2>1. \A i \in 0 .. n : i \in P
    BY <1>1, <1>2, UpTo
  <2>2. QED
    BY <2>1
<1>4. Up(n)
  BY <1>3 DEF P
<1>5. QED
  BY <1>4 DEF Stepwise

--------------------------------------------------------------------------------
(* Distances. *)

Book == [1 .. Subspaces -> [1 .. Centroids -> [1 .. SubDim -> Int]]]

LEMMA SubType == ASSUME NEW v \in Vector, NEW m \in 1 .. Subspaces PROVE Sub(v, m) \in [1 .. SubDim -> Int]
<1> DEFINE a == (m - 1) * SubDim
           z == m * SubDim
<1>1. v \in Seq(Int) /\ Len(v) = Subspaces * SubDim /\ Subspaces \in Nat /\ SubDim \in Nat \ {0}
  BY VectorAssumption
<1>2. a \in Nat /\ z = a + SubDim
  BY <1>1
<1>3. z <= Len(v) /\ z \in Nat
  <2>1. m * SubDim <= Subspaces * SubDim
    BY <1>1
  <2>2. QED
    BY <1>1, <1>2, <2>1
<1>4. Sub(v, m) = SubSeq(v, a + 1, z)
  BY DEF Sub
<1> HIDE DEF a, z
<1>5. SubSeq(v, a + 1, z) = [i \in 1 .. SubDim |-> v[i + a]]
  BY <1>1, <1>2, <1>3
<1>6. \A i \in 1 .. SubDim : i + a \in 1 .. Len(v)
  BY <1>1, <1>2, <1>3
<1>7. \A i \in 1 .. SubDim : v[i + a] \in Int
  BY <1>1, <1>6
<1>8. QED
  BY <1>4, <1>5, <1>7

LEMMA DistanceType ==
  ASSUME NEW a \in [1 .. SubDim -> Int], NEW b \in [1 .. SubDim -> Int]
  PROVE  L2Distance(a, b) \in Int
<1> DEFINE f == [d \in DOMAIN a |-> (a[d] - b[d]) * (a[d] - b[d])]
<1>1. DOMAIN f = 1 .. SubDim /\ IsFiniteSet(1 .. SubDim)
  BY VectorAssumption, FS_Interval
<1>2. \A d \in 1 .. SubDim : f[d] \in Int
  OBVIOUS
<1>3. L2Distance(a, b) = SumFunctionOnSet(f, DOMAIN f)
  BY DEF L2Distance, SumFunction
<1> HIDE DEF f
<1>4. QED
  BY <1>1, <1>2, <1>3, SumType

\* Of finitely many integers one is the first of the least.
LEMMA FirstLeast ==
  ASSUME NEW n \in Nat \ {0}, NEW d \in [1 .. n -> Int]
  PROVE  \E c \in 1 .. n : \A e \in 1 .. n : d[c] < d[e] \/ (d[c] = d[e] /\ c <= e)
<1> DEFINE Best(i) == \E c \in 1 .. i : \A e \in 1 .. i : d[c] < d[e] \/ (d[c] = d[e] /\ c <= e)
           P == {i \in 0 .. n : i = 0 \/ Best(i)}
<1>1. 0 \in P
  OBVIOUS
<1>2. ASSUME NEW i \in 1 .. n, i - 1 \in P PROVE i \in P
  <2>1. CASE i = 1
    <3>1. Best(1)
      OBVIOUS
    <3> HIDE DEF Best
    <3>2. QED
      BY <2>1, <3>1
  <2>2. CASE i # 1
    <3>1. PICK c \in 1 .. i - 1 : \A e \in 1 .. i - 1 : d[c] < d[e] \/ (d[c] = d[e] /\ c <= e)
      <4>1. i - 1 # 0
        BY <2>2
      <4>2. Best(i - 1)
        BY <1>2, <4>1
      <4>3. QED
        BY <4>2
    <3>2. /\ c \in 1 .. i /\ i \in 1 .. i /\ c \in 1 .. n /\ c <= i /\ d[c] \in Int /\ d[i] \in Int
          /\ \A e \in 1 .. i : e = i \/ e \in 1 .. i - 1
          /\ \A e \in 1 .. i : d[e] \in Int
      OBVIOUS
    <3>3. CASE d[c] <= d[i]
      <4>1. \A e \in 1 .. i : d[c] < d[e] \/ (d[c] = d[e] /\ c <= e)
        BY <3>1, <3>2, <3>3
      <4>2. QED
        BY <3>2, <4>1
    <3>4. CASE d[i] < d[c]
      <4>1. \A e \in 1 .. i : d[i] < d[e] \/ (d[i] = d[e] /\ i <= e)
        BY <3>1, <3>2, <3>4
      <4>2. QED
        BY <3>2, <4>1
    <3>5. QED
      BY <3>2, <3>3, <3>4
  <2>3. QED
    BY <2>1, <2>2
<1> HIDE DEF P
<1>3. n \in P
  <2>1. \A i \in 0 .. n : i \in P
    BY <1>1, <1>2, UpTo
  <2>2. QED
    BY <2>1
<1>4. QED
  BY <1>3 DEF P

LEMMA NearestType ==
  ASSUME NEW centroids \in [1 .. Centroids -> [1 .. SubDim -> Int]], NEW sub \in [1 .. SubDim -> Int]
  PROVE  Nearest(centroids, sub) \in 1 .. Centroids
<1> DEFINE d == [c \in 1 .. Centroids |-> L2Distance(sub, centroids[c])]
<1>1. d \in [1 .. Centroids -> Int]
  BY DistanceType
<1>2. \A c \in 1 .. Centroids : d[c] = L2Distance(sub, centroids[c])
  OBVIOUS
<1> HIDE DEF d
<1>3. \E c \in 1 .. Centroids : \A e \in 1 .. Centroids : d[c] < d[e] \/ (d[c] = d[e] /\ c <= e)
  BY <1>1, FirstLeast, VectorAssumption
<1>4. \E c \in 1 .. Centroids : \A e \in 1 .. Centroids :
        \/ L2Distance(sub, centroids[c]) < L2Distance(sub, centroids[e])
        \/ L2Distance(sub, centroids[c]) = L2Distance(sub, centroids[e]) /\ c <= e
  BY <1>2, <1>3
<1>5. QED
  BY <1>4 DEF Nearest

\* The distance to a code that a table of distances gives is that to the
\* centroids the code names.
LEMMA TableDistance ==
  ASSUME NEW book \in Book, NEW query \in Vector, NEW v \in Vector
  PROVE  LET code == Encode(book, v)
         IN  /\ AsymmetricDistance(QueryTable(book, query), code) \in Int
             /\ AsymmetricDistance(QueryTable(book, query), code)
                  = SumFunction([m \in 1 .. Subspaces |-> L2Distance(Sub(query, m), book[m][code[m]])])
<1> DEFINE code == Encode(book, v)
           table == QueryTable(book, query)
           f == [m \in 1 .. Subspaces |-> table[m][code[m]]]
           g == [m \in 1 .. Subspaces |-> L2Distance(Sub(query, m), book[m][code[m]])]
<1>1. \A m \in 1 .. Subspaces : code[m] \in 1 .. Centroids
  <2> TAKE m \in 1 .. Subspaces
  <2>1. book[m] \in [1 .. Centroids -> [1 .. SubDim -> Int]]
    BY DEF Book
  <2>2. code[m] = Nearest(book[m], Sub(v, m))
    BY DEF Encode
  <2>3. QED
    BY <2>1, <2>2, SubType, NearestType
<1> HIDE DEF code
<1>2. \A m \in 1 .. Subspaces : table[m][code[m]] = L2Distance(Sub(query, m), book[m][code[m]])
  BY <1>1 DEF QueryTable
<1> HIDE DEF table
<1>3. f = g
  BY <1>2
<1>4. \A m \in 1 .. Subspaces : g[m] \in Int
  <2> TAKE m \in 1 .. Subspaces
  <2>1. book[m][code[m]] \in [1 .. SubDim -> Int]
    BY <1>1 DEF Book
  <2>2. QED
    BY <2>1, SubType, DistanceType
<1>5. DOMAIN g = 1 .. Subspaces /\ IsFiniteSet(1 .. Subspaces)
  BY VectorAssumption, FS_Interval
<1>6. AsymmetricDistance(table, code) = SumFunction(f)
  BY DEF AsymmetricDistance
<1> HIDE DEF f, g
<1>7. SumFunction(g) \in Int
  BY <1>4, <1>5, SumType DEF SumFunction
<1>8. QED
  BY <1>3, <1>6, <1>7 DEF g, table, code

--------------------------------------------------------------------------------
(* The queue of candidates. *)

\* Of the first n nodes q holds k, or all if there are fewer, and none that is
\* left out is nearer.
IsTop(far, k, n, q) ==
  /\ q \subseteq 0 .. n - 1 /\ IsFiniteSet(q)
  /\ Cardinality(q) = IF n < k THEN n ELSE k
  /\ n <= k => q = 0 .. n - 1
  /\ \A a \in q, b \in (0 .. n - 1) \ q : far[a] <= far[b]

LEMMA DropKeepsTop ==
  ASSUME NEW N \in Nat, NEW far \in [0 .. N - 1 -> Int], NEW k \in Nat \ {0}, NEW n \in 1 .. N,
         NEW q, IsTop(far, k, n - 1, q), NEW r \in DropFarthest(far, q \union {n - 1}, k)
  PROVE  IsTop(far, k, n, r)
<1> DEFINE s == q \union {n - 1}
<1>1. /\ q \subseteq 0 .. n - 2 /\ IsFiniteSet(q)
      /\ Cardinality(q) = IF n - 1 < k THEN n - 1 ELSE k
      /\ n - 1 <= k => q = 0 .. n - 2
      /\ \A a \in q, b \in (0 .. n - 2) \ q : far[a] <= far[b]
  BY DEF IsTop
<1>2. n - 1 \notin q
  BY <1>1
<1>3. IsFiniteSet(s) /\ Cardinality(s) = Cardinality(q) + 1 /\ s \subseteq 0 .. n - 1
  <2>1. s \subseteq 0 .. n - 1
    BY <1>1
  <2>2. QED
    BY <1>1, <1>2, <2>1, FS_AddElement
<1>4. \A b \in 0 .. n - 1 : b = n - 1 \/ b \in 0 .. n - 2
  OBVIOUS
<1>5. CASE Cardinality(s) <= k
  <2>1. r = s
    BY <1>5 DEF DropFarthest
  <2>2. n <= k
    BY <1>1, <1>3, <1>5
  <2>3. q = 0 .. n - 2
    BY <1>1, <2>2
  <2>4. s = 0 .. n - 1
    BY <1>3, <1>4, <2>3
  <2>5. Cardinality(s) = IF n < k THEN n ELSE k
    BY <1>1, <1>3, <2>2
  <2> HIDE DEF s
  <2>6. QED
    BY <1>3, <2>1, <2>4, <2>5 DEF IsTop
<1>6. CASE ~(Cardinality(s) <= k)
  <2>1. PICK x \in s : r = s \ {x} /\ \A o \in s : far[x] >= far[o]
    BY <1>6 DEF DropFarthest
  <2>2. k <= n - 1 /\ Cardinality(q) = k
    BY <1>1, <1>3, <1>6
  <2>3. IsFiniteSet(r) /\ Cardinality(r) = k /\ r \subseteq 0 .. n - 1
    <3>1. IsFiniteSet(r) /\ Cardinality(r) = Cardinality(s) - 1
      BY <1>3, <2>1, FS_RemoveElement
    <3>2. QED
      BY <1>3, <2>1, <2>2, <3>1
  <2>4. ASSUME NEW a \in r, NEW b \in (0 .. n - 1) \ r PROVE far[a] <= far[b]
    <3>0. a \in s /\ far[a] <= far[x]
      BY <1>3, <2>1
    <3>1. /\ a \in 0 .. N - 1 /\ b \in 0 .. N - 1 /\ x \in 0 .. N - 1
          /\ far[a] \in Int /\ far[b] \in Int /\ far[x] \in Int
      BY <1>3, <2>1, <3>0
    <3>2. CASE b = x
      BY <3>0, <3>2
    <3>3. CASE b # x
      <4>1. b \notin s
        BY <2>1, <3>3
      <4>2. b \in (0 .. n - 2) \ q
        BY <1>4, <4>1
      <4>3. CASE a \in q
        BY <1>1, <4>2, <4>3
      <4>4. CASE a = n - 1
        <5>1. x \in q
          BY <2>1, <4>4
        <5>2. far[x] <= far[b]
          BY <1>1, <4>2, <5>1
        <5>3. QED
          BY <3>0, <3>1, <5>2
      <4>5. QED
        BY <3>0, <4>3, <4>4
    <3>4. QED
      BY <3>2, <3>3
  <2>5. ~(n <= k) /\ ~(n < k)
    BY <2>2
  <2>6. QED
    BY <2>3, <2>4, <2>5 DEF IsTop
<1>7. QED
  BY <1>5, <1>6

LEMMA DropsWithin ==
  ASSUME NEW far, NEW s, NEW k
  PROVE  DropFarthest(far, s, k) \subseteq SUBSET s
BY DEF DropFarthest

\* What may be kept after node n is pushed.
Pushed(far, k, n, tops) == UNION {DropFarthest(far, q \union {n - 1}, k) : q \in tops}

LEMMA PushedIs ==
  ASSUME NEW far, NEW k, NEW n, NEW tops, NEW r
  PROVE  r \in Pushed(far, k, n, tops) <=> \E q \in tops : r \in DropFarthest(far, q \union {n - 1}, k)
BY Zenon DEF Pushed

LEMMA TopCandidatesAre ==
  ASSUME Len(codes) \in Nat, NEW far \in [0 .. Len(codes) - 1 -> Int], NEW k \in Nat \ {0}
  PROVE  \A q \in TopCandidates(far, k) : IsTop(far, k, Len(codes), q)
<1> DEFINE N == Len(codes)
           X == SUBSET SUBSET (0 .. N - 1)
           IsTops(c) == c = [n \in 0 .. N |-> IF n = 0 THEN {{}} ELSE Pushed(far, k, n, c[n - 1])]
           step == [n \in 1 .. N |-> [qs \in X |-> Pushed(far, k, n, qs)]]
<1>1. N \in Nat /\ {{}} \in X
  OBVIOUS
<1>2. \A n \in 1 .. N, qs \in X : Pushed(far, k, n, qs) \in X
  <2> TAKE n \in 1 .. N, qs \in X
  <2>1. ASSUME NEW r \in Pushed(far, k, n, qs) PROVE r \subseteq 0 .. N - 1
    <3>1. PICK q \in qs : r \in DropFarthest(far, q \union {n - 1}, k)
      BY <2>1, PushedIs
    <3>2. r \subseteq q \union {n - 1}
      BY <3>1, DropsWithin
    <3>3. n - 1 \in 0 .. N - 1 /\ q \subseteq 0 .. N - 1
      OBVIOUS
    <3>4. QED
      BY <3>2, <3>3
  <2>2. QED
    BY <2>1
<1>3. TopCandidates(far, k) = (CHOOSE c : IsTops(c))[N]
  BY DEF TopCandidates, Pushed
<1> HIDE DEF X
<1>4. step \in [1 .. N -> [X -> X]] /\ \A n \in 1 .. N, qs \in X : step[n][qs] = Pushed(far, k, n, qs)
  BY <1>2
<1> HIDE DEF step
<1>5. PICK g : g \in [0 .. N -> X] /\ Stepwise(N, {{}}, step, g)
  <2> HIDE DEF N
  <2>1. Steps(N, X, {{}}, step)
    BY <1>1, <1>4 DEF Steps
  <2>2. QED
    BY <2>1, StepwiseExists
<1>6. \A n \in 0 .. N : n # 0 => n \in 1 .. N /\ n - 1 \in 0 .. N
  BY <1>1
<1>7. IsTops(g)
  <2> HIDE DEF N
  <2>1. \A n \in 0 .. N : n # 0 => step[n][g[n - 1]] = Pushed(far, k, n, g[n - 1])
    BY <1>4, <1>5, <1>6
  <2>2. \A n \in 0 .. N : g[n] = IF n = 0 THEN {{}} ELSE Pushed(far, k, n, g[n - 1])
    BY <1>5, <1>6, <2>1 DEF Stepwise
  <2>3. QED
    BY <1>5, <2>2
<1>8. PICK c : IsTops(c) /\ TopCandidates(far, k) = c[N]
  <2> HIDE DEF IsTops
  <2>1. QED
    BY <1>3, <1>7
<1>9. c[0] = {{}} /\ \A n \in 1 .. N : c[n] = Pushed(far, k, n, c[n - 1])
  <2>1. 0 \in 0 .. N /\ \A n \in 1 .. N : n \in 0 .. N /\ n # 0
    BY <1>1
  <2> HIDE DEF N
  <2>2. QED
    BY <1>8, <2>1
<1> DEFINE P == {n \in 0 .. N : \A q \in c[n] : IsTop(far, k, n, q)}
<1> HIDE DEF IsTops
<1>10. 0 \in P
  <2>1. IsTop(far, k, 0, {})
    BY FS_EmptySet DEF IsTop
  <2>2. \A q \in c[0] : q = {}
    BY <1>9
  <2>3. \A q \in c[0] : IsTop(far, k, 0, q)
    BY <2>1, <2>2
  <2>4. 0 \in 0 .. N
    BY <1>1
  <2> HIDE DEF N
  <2>5. QED
    BY <2>3, <2>4
<1>11. ASSUME NEW n \in 1 .. N, n - 1 \in P PROVE n \in P
  <2>1. ASSUME NEW r \in c[n] PROVE IsTop(far, k, n, r)
    <3>0. r \in Pushed(far, k, n, c[n - 1])
      BY <1>9, <2>1
    <3>1. PICK q \in c[n - 1] : r \in DropFarthest(far, q \union {n - 1}, k)
      BY <3>0, PushedIs
    <3>2. IsTop(far, k, n - 1, q)
      BY <1>11
    <3>3. far \in [0 .. N - 1 -> Int]
      OBVIOUS
    <3> HIDE DEF N
    <3>4. QED
      BY <1>1, <3>1, <3>2, <3>3, DropKeepsTop
  <2>2. n \in 0 .. N
    OBVIOUS
  <2>3. QED
    BY <2>1, <2>2
<1> HIDE DEF P
<1>12. N \in P
  <2> HIDE DEF N
  <2>1. \A n \in 0 .. N : n \in P
    BY <1>1, <1>10, <1>11, UpTo
  <2>2. N \in 0 .. N
    BY <1>1
  <2>3. QED
    BY <2>1, <2>2
<1>13. QED
  BY <1>8, <1>12 DEF P

\* Each is no farther than the next one, and so than any later one.
LEMMA Sorted ==
  ASSUME NEW n \in Nat, NEW d \in [1 .. n -> Int], \A i \in 1 .. n - 1 : d[i] <= d[i + 1],
         NEW i \in 1 .. n, NEW j \in 1 .. n, i < j
  PROVE  d[i] <= d[j]
<1> DEFINE P == {m \in 0 .. n : \A e \in 1 .. m : d[e] <= d[m]}
<1>1. 0 \in P
  OBVIOUS
<1>2. ASSUME NEW m \in 1 .. n, m - 1 \in P PROVE m \in P
  <2>1. ASSUME NEW e \in 1 .. m, e # m PROVE d[e] <= d[m]
    <3>1. e \in 1 .. m - 1 /\ m - 1 \in 1 .. n - 1 /\ (m - 1) + 1 = m
      BY <2>1
    <3>2. d[e] <= d[m - 1]
      BY <1>2, <3>1
    <3>3. d[m - 1] <= d[(m - 1) + 1]
      BY <3>1
    <3>4. d[e] \in Int /\ d[m - 1] \in Int /\ d[m] \in Int
      BY <3>1
    <3>5. QED
      BY <3>1, <3>2, <3>3, <3>4
  <2>2. d[m] <= d[m] /\ m \in 0 .. n
    OBVIOUS
  <2>3. QED
    BY <2>1, <2>2
<1> HIDE DEF P
<1>3. j \in P
  <2>1. \A m \in 0 .. n : m \in P
    BY <1>1, <1>2, UpTo
  <2>2. QED
    BY <2>1
<1>4. i \in 1 .. j
  OBVIOUS
<1>5. QED
  BY <1>3, <1>4 DEF P

LEMMA Orderings ==
  ASSUME NEW q, IsFiniteSet(q), NEW ids \in SetToSeqs(q)
  PROVE  /\ Len(ids) = Cardinality(q) /\ DOMAIN ids = 1 .. Len(ids) /\ Len(ids) \in Nat
         /\ \A i, j \in DOMAIN ids : i # j => ids[i] # ids[j]
         /\ \A i \in DOMAIN ids : ids[i] \in q
         /\ \A n \in q : \E i \in DOMAIN ids : ids[i] = n
<1> DEFINE D == 1 .. Cardinality(q)
<1>1. ids \in [D -> q] /\ \A i, j \in D : i # j => ids[i] # ids[j]
  BY DEF SetToSeqs
<1>2. Cardinality(q) \in Nat
  BY FS_CardinalityType
<1>3. Len(ids) = Cardinality(q)
  BY <1>1, <1>2
<1>4. IsFiniteSet(D) /\ Cardinality(D) = Cardinality(q)
  BY <1>2, FS_Interval
<1> HIDE DEF D
<1>5. ids \in Injection(D, q)
  BY <1>1 DEF Injection, IsInjective
<1>6. ids \in Surjection(D, q)
  BY <1>4, <1>5, FS_Injection
<1>7. \A n \in q : \E i \in D : ids[i] = n
  BY <1>6 DEF Surjection
<1>8. QED
  BY <1>1, <1>2, <1>3, <1>7 DEF D

--------------------------------------------------------------------------------
(* The answers. *)

\* There is a codebook as soon as one is trained or used, and each code is that of the
\* vector inserted then, by the codebook of then.
CodesInv ==
  /\ pq \in Book \/ (pq = <<>> /\ training = 0 /\ Len(stored) = 0)
  /\ training \in 0 .. Subspaces
  /\ \A i \in 1 .. Len(stored) :
       /\ stored[i].vector \in Vector /\ stored[i].book \in Book
       /\ codes[i] = Encode(stored[i].book, stored[i].vector)

AnswerInv == IndexInv /\ CodesInv /\ AnswersAreNearest

LEMMA CodesInitial == IndexInit => CodesInv /\ AnswersAreNearest
<1> SUFFICES ASSUME IndexInit PROVE CodesInv /\ AnswersAreNearest
  OBVIOUS
<1>1. pq = <<>> /\ training = 0 /\ stored = <<>> /\ Len(stored) = 0 /\ found.k = 0
  BY DEF IndexInit, Nothing
<1>2. 0 \in 0 .. Subspaces
  BY VectorAssumption
<1>3. QED
  BY <1>1, <1>2 DEF CodesInv, AnswersAreNearest

LEMMA InsertKeepsCodes ==
  ASSUME IndexInv, CodesInv, NEW id, NEW vector \in Vector, NEW level, Insert(id, vector, level)
  PROVE  CodesInv'
<1> DEFINE N == Len(stored)
           book == IF pq = <<>> THEN Blank ELSE pq
           new == [id |-> id, vector |-> vector, book |-> book]
<1>1. IsSeq(codes) /\ IsSeq(stored) /\ Len(codes) = N /\ N \in Nat
  BY SeqLength DEF IndexInv
<1>2. pq' = book /\ codes' = Append(codes, Encode(book, vector)) /\ stored' = Append(stored, new)
  BY DEF Insert
<1>3. Blank \in Book
  BY DEF Blank, Book
<1>4. book \in Book
  BY <1>3 DEF CodesInv
<1>5. new.vector = vector /\ new.book = book
  OBVIOUS
<1> HIDE DEF book, new
<1>6. /\ Len(stored') = N + 1
      /\ \A i \in 1 .. N : codes'[i] = codes[i] /\ stored'[i] = stored[i]
      /\ codes'[N + 1] = Encode(book, vector) /\ stored'[N + 1] = new
  BY <1>1, <1>2, Appended
<1>7. \A i \in 1 .. N + 1 : i = N + 1 \/ i \in 1 .. N
  BY <1>1
<1>8. ASSUME NEW i \in 1 .. N + 1
      PROVE  /\ stored'[i].vector \in Vector /\ stored'[i].book \in Book
             /\ codes'[i] = Encode(stored'[i].book, stored'[i].vector)
  <2>1. CASE i = N + 1
    BY <1>4, <1>5, <1>6, <2>1
  <2>2. CASE i \in 1 .. N
    BY <1>6, <2>2 DEF CodesInv
  <2>3. QED
    BY <1>7, <2>1, <2>2
<1>9. pq' \in Book /\ training' = training /\ training \in 0 .. Subspaces
  BY <1>2, <1>4 DEF Insert, CodesInv
<1>10. CodesInv' <=> /\ pq' \in Book \/ (pq' = <<>> /\ training' = 0 /\ Len(stored') = 0)
                     /\ training' \in 0 .. Subspaces
                     /\ \A i \in 1 .. Len(stored') :
                          /\ stored'[i].vector \in Vector /\ stored'[i].book \in Book
                          /\ codes'[i] = Encode(stored'[i].book, stored'[i].vector)
  BY DEF CodesInv
<1>11. QED
  BY <1>6, <1>8, <1>9, <1>10

\* What AnswersAreNearest says of a search just done.
IsNearest(query, k, ids) ==
  /\ Len(ids) = IF k < Len(stored) THEN k ELSE Len(stored)
  /\ \A i, j \in DOMAIN ids : i < j => ids[i] # ids[j] /\ Distance(query, ids[i]) <= Distance(query, ids[j])
  /\ \A i \in DOMAIN ids : ids[i] \in 0 .. Len(stored) - 1
  /\ \A i \in DOMAIN ids, n \in 0 .. Len(stored) - 1 :
       (\A j \in DOMAIN ids : ids[j] # n) => Distance(query, ids[i]) <= Distance(query, n)

LEMMA AnswerIsNearest ==
  ASSUME IndexInv, CodesInv, NEW query \in Vector, NEW k \in Nat \ {0}, NEW ids \in Answers(query, k),
         \A i \in DOMAIN stored : stored[i].book = pq
  PROVE  IsNearest(query, k, ids)
<1> DEFINE N == Len(codes)
           table == QueryTable(pq, query)
           far == [n \in 0 .. N - 1 |-> AsymmetricDistance(table, codes[n + 1])]
<1>1. N \in Nat /\ Len(stored) = N /\ DOMAIN stored = 1 .. N /\ (codes = <<>> <=> N = 0)
  BY SeqLength DEF IndexInv
<1>2. CASE codes = <<>>
  <2>1. ids = <<>>
    BY <1>2 DEF Answers
  <2>2. Len(ids) = 0 /\ DOMAIN ids = {} /\ N = 0
    BY <1>1, <1>2, <2>1
  <2>3. QED
    BY <1>1, <2>2 DEF IsNearest
<1>3. CASE codes # <<>>
  <2>1. N # 0 /\ pq \in Book
    BY <1>1, <1>3 DEF CodesInv
  <2>2. ASSUME NEW n \in 0 .. N - 1 PROVE far[n] \in Int /\ far[n] = Distance(query, n)
    <3>1. n + 1 \in 1 .. N
      BY <1>1
    <3>2. stored[n + 1].vector \in Vector /\ codes[n + 1] = Encode(pq, stored[n + 1].vector)
      BY <1>1, <3>1 DEF CodesInv
    <3>3. far[n] = AsymmetricDistance(QueryTable(pq, query), Encode(pq, stored[n + 1].vector))
      BY <3>2
    <3> HIDE DEF far
    <3>4. QED
      BY <2>1, <3>2, <3>3, TableDistance DEF Distance
  <2>3. far \in [0 .. N - 1 -> Int]
    BY <2>2
  <2>4. PICK q \in TopCandidates(far, k) :
          ids \in SetToSeqs(q) /\ \A i \in 1 .. Len(ids) - 1 : far[ids[i]] <= far[ids[i + 1]]
    BY <1>3 DEF Answers
  <2> HIDE DEF far, table
  <2>5. IsTop(far, k, N, q)
    BY <1>1, <2>3, <2>4, TopCandidatesAre
  <2> HIDE DEF N
  <2>6. /\ q \subseteq 0 .. N - 1 /\ IsFiniteSet(q) /\ Cardinality(q) = IF N < k THEN N ELSE k
        /\ \A a \in q, b \in (0 .. N - 1) \ q : far[a] <= far[b]
    BY <2>5 DEF IsTop
  <2>7. /\ Len(ids) = Cardinality(q) /\ DOMAIN ids = 1 .. Len(ids) /\ Len(ids) \in Nat
        /\ \A i, j \in DOMAIN ids : i # j => ids[i] # ids[j]
        /\ \A i \in DOMAIN ids : ids[i] \in q
        /\ \A n \in q : \E i \in DOMAIN ids : ids[i] = n
    BY <2>4, <2>6, Orderings
  <2>8. ASSUME NEW i \in DOMAIN ids, NEW j \in DOMAIN ids, i < j PROVE far[ids[i]] <= far[ids[j]]
    <3> DEFINE d == [e \in 1 .. Len(ids) |-> far[ids[e]]]
    <3>1. \A e \in 1 .. Len(ids) : d[e] = far[ids[e]] /\ ids[e] \in 0 .. N - 1
      BY <2>6, <2>7
    <3>2. d \in [1 .. Len(ids) -> Int]
      BY <2>3, <3>1
    <3>3. \A e \in 1 .. Len(ids) - 1 : e \in 1 .. Len(ids) /\ e + 1 \in 1 .. Len(ids)
      BY <2>7
    <3> HIDE DEF d
    <3>4. \A e \in 1 .. Len(ids) - 1 : d[e] <= d[e + 1]
      BY <2>4, <3>1, <3>3
    <3>5. d[i] <= d[j]
      BY <2>7, <2>8, <3>2, <3>4, Sorted
    <3>6. QED
      BY <2>7, <3>1, <3>5
  <2>9. \A i, j \in DOMAIN ids : i < j => i # j
    BY <2>7
  <2>10. \A i \in DOMAIN ids : ids[i] \in 0 .. N - 1
    BY <2>6, <2>7
  <2>11. \A i, j \in DOMAIN ids :
           i < j => ids[i] # ids[j] /\ Distance(query, ids[i]) <= Distance(query, ids[j])
    BY <2>2, <2>7, <2>8, <2>9, <2>10
  <2>12. ASSUME NEW i \in DOMAIN ids, NEW n \in 0 .. N - 1, \A j \in DOMAIN ids : ids[j] # n
         PROVE  Distance(query, ids[i]) <= Distance(query, n)
    <3>1. n \in (0 .. N - 1) \ q /\ ids[i] \in q
      BY <2>7, <2>12
    <3>2. far[ids[i]] <= far[n]
      BY <2>6, <3>1
    <3>3. QED
      BY <2>2, <2>10, <3>2
  <2>13. Len(ids) = IF k < N THEN k ELSE N
    BY <1>1, <2>6, <2>7
  <2>14. QED
    BY <1>1, <2>10, <2>11, <2>12, <2>13 DEF IsNearest
<1>4. QED
  BY <1>2, <1>3

LEMMA AnswerSteps == AnswerInv /\ (IndexNext \/ UNCHANGED indexVars) => AnswerInv'
<1> SUFFICES ASSUME AnswerInv, IndexNext \/ UNCHANGED indexVars PROVE AnswerInv'
  OBVIOUS
<1>1. IndexInv /\ CodesInv /\ AnswersAreNearest /\ IndexInv'
  BY IndexSteps DEF AnswerInv
<1>2. ASSUME found' = Nothing PROVE AnswersAreNearest'
  <2>1. found'.k = 0
    BY <1>2 DEF Nothing
  <2>2. QED
    BY <2>1 DEF AnswersAreNearest
<1>3. CASE BuildPQ
  <2>1. pq' \in Book
    BY <1>3 DEF BuildPQ, Blank, Book
  <2>2. training' \in 0 .. Subspaces
    BY <1>3, VectorAssumption DEF BuildPQ
  <2>3. UNCHANGED <<codes, stored>> /\ found' = Nothing
    BY <1>3 DEF BuildPQ
  <2>4. CodesInv'
    BY <1>1, <2>1, <2>2, <2>3 DEF CodesInv
  <2>5. QED
    BY <1>1, <1>2, <2>3, <2>4 DEF AnswerInv
<1>4. CASE TrainSubspace
  <2>1. training \in 1 .. Subspaces /\ pq \in Book
    BY <1>1, <1>4, VectorAssumption DEF TrainSubspace, CodesInv
  <2>2. PICK book \in Codebook : pq' = [pq EXCEPT ![training] = book[training]]
    BY <1>4 DEF TrainSubspace
  <2>3. book[training] \in [1 .. Centroids -> [1 .. SubDim -> Int]]
    BY <2>1, VectorAssumption
  <2>4. pq' \in Book
    BY <2>1, <2>2, <2>3 DEF Book
  <2>5. training' \in 0 .. Subspaces
    BY <1>4, <2>1, VectorAssumption DEF TrainSubspace
  <2>6. UNCHANGED <<codes, stored>> /\ found' = Nothing
    BY <1>4 DEF TrainSubspace
  <2>7. CodesInv'
    BY <1>1, <2>4, <2>5, <2>6 DEF CodesInv
  <2>8. QED
    BY <1>1, <1>2, <2>6, <2>7 DEF AnswerInv
<1>5. CASE UNCHANGED indexVars
  <2>1. UNCHANGED <<pq, training, codes, stored, found>>
    BY <1>5 DEF indexVars
  <2>2. CodesInv'
    BY <1>1, <2>1 DEF CodesInv
  <2>3. AnswersAreNearest'
    <3>1. \A query, n : Distance(query, n)' = Distance(query, n)
      BY <2>1 DEF Distance
    <3>2. QED
      BY <1>1, <2>1, <3>1 DEF AnswersAreNearest
  <2>4. QED
    BY <1>1, <2>2, <2>3 DEF AnswerInv
<1>6. ASSUME NEW id \in NodeId, NEW vector \in Vector, NEW level \in SelectRandomLevel, Insert(id, vector, level)
      PROVE  AnswerInv'
  <2>1. CodesInv'
    BY <1>1, <1>6, InsertKeepsCodes
  <2>2. found' = Nothing
    BY <1>6 DEF Insert
  <2>3. QED
    BY <1>1, <1>2, <2>1, <2>2 DEF AnswerInv
<1>7. ASSUME NEW query \in Vector, NEW k \in 1 .. MaxResults, SearchKNN(query, k) PROVE AnswerInv'
  <2>1. UNCHANGED <<pq, training, codes, stored>>
    BY <1>7 DEF SearchKNN
  <2>2. PICK ids \in Answers(query, k) : found' = [query |-> query, k |-> k, ids |-> ids]
    BY <1>7 DEF SearchKNN
  <2>3. found'.query = query /\ found'.k = k /\ found'.ids = ids
    BY <2>2
  <2>4. k \in Nat \ {0}
    BY VectorAssumption
  <2>5. CodesInv'
    BY <1>1, <2>1 DEF CodesInv
  <2>6. (\A i \in DOMAIN stored : stored[i].book = pq) => IsNearest(query, k, ids)
    BY <1>1, <2>2, <2>4, AnswerIsNearest
  <2>7. AnswersAreNearest'
    <3>1. ASSUME NEW n PROVE Distance(query, n)' = Distance(query, n)
      BY <2>1 DEF Distance
    <3>2. AnswersAreNearest' <=>
            (k > 0 /\ (\A i \in DOMAIN stored : stored[i].book = pq) => IsNearest(query, k, ids))
      BY <2>1, <2>3, <3>1 DEF AnswersAreNearest, IsNearest
    <3>3. QED
      BY <2>6, <3>2
  <2>8. QED
    BY <1>1, <2>5, <2>7 DEF AnswerInv
<1>8. QED
  BY <1>3, <1>4, <1>5, <1>6, <1>7 DEF IndexNext

\* Whatever was inserted and whatever the codebook, a search answers with the k
\* vectors nearest as far as their codes tell, nearest first (SearchKNN).
THEOREM SearchIsExact == Spec => []AnswersAreNearest
<1>1. Init => AnswerInv
  BY IndexInitial, CodesInitial DEF Init, AnswerInv
<1>2. [Next]_vars => IndexNext \/ UNCHANGED indexVars
  BY DEF Next, vars
<1>3. AnswerInv /\ [Next]_vars => AnswerInv'
  BY <1>2, AnswerSteps
<1>4. AnswerInv => AnswersAreNearest
  BY DEF AnswerInv
<1>5. QED
  BY <1>1, <1>3, <1>4, PTL DEF Spec

--------------------------------------------------------------------------------
(* Digits. *)

Bases == {2, 128, 256}

\* Taking a digit off, and putting one on.
LEMMA Split ==
  ASSUME NEW base \in Bases, NEW x \in Nat
  PROVE  /\ base \in Nat /\ x \div base \in Nat /\ x % base \in 0 .. base - 1
         /\ base * (x \div base) + (x % base) = x
<1>1. CASE base = 2
  BY <1>1
<1>2. CASE base = 128
  BY <1>2
<1>3. CASE base = 256
  BY <1>3
<1>4. QED
  BY <1>1, <1>2, <1>3 DEF Bases

LEMMA Joined ==
  ASSUME NEW base \in Bases, NEW x, NEW y, NEW d, x \in Nat, y \in Nat, d \in 0 .. base - 1, y = base * x + d
  PROVE  y \div base = x /\ y % base = d
<1>1. CASE base = 2
  BY <1>1
<1>2. CASE base = 128
  BY <1>2
<1>3. CASE base = 256
  BY <1>3
<1>4. QED
  BY <1>1, <1>2, <1>3 DEF Bases

\* Two functions that go the same steps are the same.
LEMMA StepwiseOnce ==
  ASSUME NEW n \in Nat, NEW base, NEW step, NEW g, NEW h, NEW m \in 0 .. n,
         Stepwise(n, base, step, g), Stepwise(m, base, step, h)
  PROVE  \A i \in 0 .. m : h[i] = g[i]
<1> DEFINE P == {i \in 0 .. m : h[i] = g[i]}
<1>1. 0 \in P
  BY DEF Stepwise
<1>2. ASSUME NEW i \in 1 .. m, i - 1 \in P PROVE i \in P
  BY <1>2 DEF Stepwise
<1> HIDE DEF P
<1>3. \A i \in 0 .. m : i \in P
  BY <1>1, <1>2, UpTo
<1>4. QED
  BY <1>3 DEF P

LEMMA ShiftIs ==
  ASSUME NEW base \in Bases, NEW x \in Nat
  PROVE  /\ Shift(x, base, 0) = x
         /\ \A k \in Nat : Shift(x, base, k) \in Nat
         /\ \A k \in Nat \ {0} : Shift(x, base, k) = Shift(x, base, k - 1) \div base
<1>0. \A y \in Nat : y \div base \in Nat
  BY Split
<1> DEFINE step(k) == [i \in 1 .. k |-> [y \in Nat |-> y \div base]]
           IsShift(k, c) == c = [i \in 0 .. k |-> IF i = 0 THEN x ELSE c[i - 1] \div base]
<1>1. ASSUME NEW k \in Nat
      PROVE  \E c \in [0 .. k -> Nat] : c[0] = x /\ (\A i \in 1 .. k : c[i] = c[i - 1] \div base) /\ Shift(x, base, k) = c[k]
  <2>1. step(k) \in [1 .. k -> [Nat -> Nat]] /\ \A i \in 1 .. k, y \in Nat : step(k)[i][y] = y \div base
    BY <1>0
  <2> HIDE DEF step
  <2>2. Steps(k, Nat, x, step(k))
    BY <2>1 DEF Steps
  <2>3. PICK g : g \in [0 .. k -> Nat] /\ Stepwise(k, x, step(k), g)
    BY <2>2, StepwiseExists
  <2>4. \A i \in 0 .. k : i # 0 => i \in 1 .. k /\ i - 1 \in 0 .. k
    OBVIOUS
  <2>5. \A i \in 0 .. k : g[i] = IF i = 0 THEN x ELSE g[i - 1] \div base
    BY <2>1, <2>3, <2>4 DEF Stepwise
  <2>6. IsShift(k, g)
    BY <2>3, <2>5
  <2>7. Shift(x, base, k) = (CHOOSE c : IsShift(k, c))[k]
    BY DEF Shift
  <2>8. PICK c : IsShift(k, c) /\ Shift(x, base, k) = c[k]
    <3> HIDE DEF IsShift
    <3>1. QED
      BY <2>6, <2>7
  <2>9. c[0] = x /\ \A i \in 1 .. k : c[i] = c[i - 1] \div base
    BY <2>4, <2>8
  <2> DEFINE P == {i \in 0 .. k : c[i] \in Nat}
  <2>10. 0 \in P
    BY <2>9
  <2>11. ASSUME NEW i \in 1 .. k, i - 1 \in P PROVE i \in P
    BY <1>0, <2>9, <2>11
  <2> HIDE DEF P
  <2>12. \A i \in 0 .. k : i \in P
    BY <2>10, <2>11, UpTo
  <2>13. \A i \in 0 .. k : c[i] \in Nat
    BY <2>12 DEF P
  <2>14. c = [i \in 0 .. k |-> c[i]]
    BY <2>8
  <2>15. QED
    BY <2>8, <2>9, <2>13, <2>14
<1> HIDE DEF step, IsShift
<1>2. Shift(x, base, 0) = x
  BY <1>1
<1>3. ASSUME NEW k \in Nat PROVE Shift(x, base, k) \in Nat
  <2>1. PICK c : c \in [0 .. k -> Nat] /\ Shift(x, base, k) = c[k]
    BY <1>1
  <2>2. k \in 0 .. k
    OBVIOUS
  <2>3. QED
    BY <2>1, <2>2
<1>4. ASSUME NEW k \in Nat \ {0} PROVE Shift(x, base, k) = Shift(x, base, k - 1) \div base
  <2>1. k \in Nat /\ k - 1 \in Nat /\ k - 1 \in 0 .. k
    OBVIOUS
  <2>2. PICK c : c \in [0 .. k -> Nat] /\ c[0] = x /\ (\A i \in 1 .. k : c[i] = c[i - 1] \div base) /\ Shift(x, base, k) = c[k]
    BY <1>1, <2>1
  <2>3. PICK b : b \in [0 .. k - 1 -> Nat] /\ b[0] = x /\ (\A i \in 1 .. k - 1 : b[i] = b[i - 1] \div base) /\ Shift(x, base, k - 1) = b[k - 1]
    BY <1>1, <2>1
  <2> DEFINE s == [i \in 1 .. k |-> [y \in Nat |-> y \div base]]
  <2>4. \A i \in 1 .. k, y \in Nat : s[i][y] = y \div base
    OBVIOUS
  <2> HIDE DEF s
  <2>5. \A i \in 1 .. k : i - 1 \in 0 .. k
    OBVIOUS
  <2>6. Stepwise(k, x, s, c)
    BY <2>2, <2>4, <2>5 DEF Stepwise
  <2>7. \A i \in 1 .. k - 1 : i \in 1 .. k /\ i - 1 \in 0 .. k - 1
    OBVIOUS
  <2>8. Stepwise(k - 1, x, s, b)
    BY <2>3, <2>4, <2>7 DEF Stepwise
  <2>9. \A i \in 0 .. k - 1 : b[i] = c[i]
    BY <2>1, <2>6, <2>8, StepwiseOnce
  <2>10. k \in 1 .. k /\ k - 1 \in 0 .. k - 1
    OBVIOUS
  <2>11. QED
    BY <2>2, <2>3, <2>9, <2>10
<1>5. QED
  BY <1>2, <1>3, <1>4

\* Putting digits together, the highest first.
LEMMA NumberIs ==
  ASSUME NEW base \in Bases, NEW d \in Seq(Nat)
  PROVE  \E h \in [0 .. Len(d) -> Nat] :
           /\ h[0] = 0 /\ \A i \in 1 .. Len(d) : h[i] = base * h[i - 1] + d[Len(d) - i + 1]
           /\ Number(d, base) = h[Len(d)]
<1> DEFINE n == Len(d)
           step == [i \in 1 .. n |-> [y \in Nat |-> base * y + d[n - i + 1]]]
           IsNumber(c) == c = [i \in 0 .. n |-> IF i = 0 THEN 0 ELSE base * c[i - 1] + d[n - i + 1]]
<1>1. n \in Nat /\ \A i \in 1 .. n : n - i + 1 \in 1 .. n /\ d[n - i + 1] \in Nat
  <2>1. n \in Nat /\ \A i \in 1 .. n : n - i + 1 \in 1 .. n
    OBVIOUS
  <2>2. \A i \in 1 .. n : d[i] \in Nat
    OBVIOUS
  <2>3. QED
    BY <2>1, <2>2
<1>2. base \in Nat
  BY DEF Bases
<1>3. Number(d, base) = (CHOOSE c : IsNumber(c))[n]
  BY DEF Number
<1> HIDE DEF n
<1>4. ASSUME NEW i \in 1 .. n, NEW y \in Nat PROVE base * y + d[n - i + 1] \in Nat
  <2>1. base * y \in Nat
    BY <1>2
  <2>2. d[n - i + 1] \in Nat
    BY <1>1
  <2> HIDE DEF n
  <2>3. QED
    BY ONLY <2>1, <2>2
<1>5. step \in [1 .. n -> [Nat -> Nat]] /\ \A i \in 1 .. n, y \in Nat : step[i][y] = base * y + d[n - i + 1]
  BY <1>4
<1> HIDE DEF step
<1>6. PICK g : g \in [0 .. n -> Nat] /\ Stepwise(n, 0, step, g)
  <2>1. Steps(n, Nat, 0, step)
    BY <1>1, <1>5 DEF Steps
  <2>2. QED
    BY <2>1, StepwiseExists
<1>7. \A i \in 0 .. n : i # 0 => i \in 1 .. n /\ i - 1 \in 0 .. n
  BY <1>1
<1>8. \A i \in 0 .. n : g[i] = IF i = 0 THEN 0 ELSE base * g[i - 1] + d[n - i + 1]
  BY <1>5, <1>6, <1>7 DEF Stepwise
<1>9. IsNumber(g)
  BY <1>6, <1>8
<1>10. PICK c : IsNumber(c) /\ Number(d, base) = c[n]
  <2> HIDE DEF IsNumber
  <2>1. QED
    BY <1>3, <1>9
<1>11. c = [i \in 0 .. n |-> c[i]] /\ 0 \in 0 .. n
  BY <1>1, <1>10
<1>12. c[0] = 0 /\ \A i \in 1 .. n : c[i] = base * c[i - 1] + d[n - i + 1]
  BY <1>1, <1>7, <1>10
<1> DEFINE P == {i \in 0 .. n : c[i] \in Nat}
<1>13. 0 \in P
  BY <1>11, <1>12
<1>14. ASSUME NEW i \in 1 .. n, i - 1 \in P PROVE i \in P
  BY <1>1, <1>4, <1>12, <1>14
<1> HIDE DEF P, IsNumber
<1>15. \A i \in 0 .. n : i \in P
  BY <1>1, <1>13, <1>14, UpTo
<1>16. c \in [0 .. n -> Nat]
  BY <1>11, <1>15 DEF P
<1>17. QED
  BY <1>10, <1>12, <1>16 DEF n

\* A number has the digits that it was put together from, and no more.
LEMMA DigitsOfNumber ==
  ASSUME NEW base \in Bases, NEW d \in Seq(Nat), \A i \in 1 .. Len(d) : d[i] \in 0 .. base - 1
  PROVE  /\ Number(d, base) \in Nat /\ Shift(Number(d, base), base, Len(d)) = 0
         /\ \A k \in 0 .. Len(d) - 1 : Digit(Number(d, base), base, k) = d[k + 1]
<1> DEFINE n == Len(d)
           x == Number(d, base)
<1>1. PICK h : h \in [0 .. n -> Nat] /\ h[0] = 0 /\ (\A i \in 1 .. n : h[i] = base * h[i - 1] + d[n - i + 1]) /\ x = h[n]
  BY NumberIs
<1>2. n \in Nat /\ \A i \in 1 .. n : d[i] \in 0 .. base - 1
  OBVIOUS
<1> HIDE DEF n
<1>3. x \in Nat
  BY <1>1, <1>2
<1> HIDE DEF x
<1>4. ASSUME NEW i \in 1 .. n PROVE h[i] \div base = h[i - 1] /\ h[i] % base = d[n - i + 1]
  <2>1. i - 1 \in 0 .. n /\ n - i + 1 \in 1 .. n
    BY <1>2
  <2>2. h[i - 1] \in Nat /\ d[n - i + 1] \in 0 .. base - 1
    BY <1>1, <1>2, <2>1
  <2>3. h[i] = base * h[i - 1] + d[n - i + 1]
    BY <1>1
  <2>4. h[i] \in Nat
    BY <1>1, <1>2
  <2>5. QED
    BY <2>2, <2>3, <2>4, Joined
<1> DEFINE P == {k \in 0 .. n : Shift(x, base, k) = h[n - k]}
<1>5. 0 \in P
  BY <1>1, <1>2, <1>3, ShiftIs
<1>6. ASSUME NEW k \in 1 .. n, k - 1 \in P PROVE k \in P
  <2>1. k \in Nat \ {0} /\ n - (k - 1) \in 1 .. n /\ n - (k - 1) - 1 = n - k
    BY <1>2
  <2>2. Shift(x, base, k) = Shift(x, base, k - 1) \div base
    BY <1>3, <2>1, ShiftIs
  <2>3. QED
    BY <1>4, <1>6, <2>1, <2>2
<1> HIDE DEF P
<1>7. \A k \in 0 .. n : k \in P
  BY <1>2, <1>5, <1>6, UpTo
<1>8. \A k \in 0 .. n : Shift(x, base, k) = h[n - k]
  BY <1>7 DEF P
<1>9. Shift(x, base, n) = 0
  BY <1>1, <1>2, <1>8
<1>10. ASSUME NEW k \in 0 .. n - 1 PROVE Digit(x, base, k) = d[k + 1]
  <2>1. n - k \in 1 .. n /\ k \in 0 .. n /\ n - (n - k) + 1 = k + 1
    BY <1>2
  <2>2. QED
    BY <1>4, <1>8, <2>1 DEF Digit
<1>11. QED
  BY <1>3, <1>9, <1>10 DEF n, x

\* And the digits of a number make it again, if they are enough.
LEMMA NumberOfDigits ==
  ASSUME NEW base \in Bases, NEW x \in Nat, NEW d \in Seq(Nat), Shift(x, base, Len(d)) = 0,
         \A i \in 1 .. Len(d) : d[i] = Digit(x, base, i - 1)
  PROVE  Number(d, base) = x
<1> DEFINE n == Len(d)
<1>1. PICK h : h \in [0 .. n -> Nat] /\ h[0] = 0 /\ (\A i \in 1 .. n : h[i] = base * h[i - 1] + d[n - i + 1]) /\ Number(d, base) = h[n]
  BY NumberIs
<1>2. n \in Nat /\ Shift(x, base, n) = 0 /\ \A i \in 1 .. n : d[i] = Digit(x, base, i - 1)
  OBVIOUS
<1> HIDE DEF n
<1> DEFINE P == {i \in 0 .. n : h[i] = Shift(x, base, n - i)}
<1>3. 0 \in P
  BY <1>1, <1>2
<1>4. ASSUME NEW i \in 1 .. n, i - 1 \in P PROVE i \in P
  <2>1. n - (i - 1) \in Nat \ {0} /\ n - (i - 1) - 1 = n - i /\ n - i \in Nat /\ n - i + 1 \in 1 .. n
        /\ n - i + 1 - 1 = n - i /\ n - (i - 1) = n - i + 1
    BY <1>2
  <2>2. Shift(x, base, n - i + 1) = Shift(x, base, n - i) \div base /\ Shift(x, base, n - i) \in Nat
    BY <2>1, ShiftIs
  <2>3. d[n - i + 1] = Shift(x, base, n - i) % base
    BY <1>2, <2>1 DEF Digit
  <2>4. h[i] = base * (Shift(x, base, n - i) \div base) + (Shift(x, base, n - i) % base)
    BY <1>1, <1>4, <2>1, <2>2, <2>3
  <2>5. QED
    BY <2>2, <2>4, Split
<1> HIDE DEF P
<1>5. \A i \in 0 .. n : i \in P
  BY <1>2, <1>3, <1>4, UpTo
<1>6. n \in P /\ n - n = 0
  BY <1>2, <1>5
<1>7. QED
  BY <1>1, <1>6, ShiftIs DEF P

\* Digits are digits, and beyond the highest there are zeros only.
LEMMA DigitType ==
  ASSUME NEW base \in Bases, NEW x \in Nat
  PROVE  \A k \in Nat : Digit(x, base, k) \in 0 .. base - 1 /\ Digit(x, base, k) \in Nat
<1>1. ASSUME NEW k \in Nat PROVE Digit(x, base, k) \in 0 .. base - 1
  BY ShiftIs, Split DEF Digit
<1>2. base \in Nat
  BY Split
<1>3. QED
  BY <1>1, <1>2

--------------------------------------------------------------------------------
(* Spans. *)

LEMMA Catenated ==
  ASSUME NEW S, NEW a \in Seq(S), NEW b \in Seq(S)
  PROVE  /\ a \o b \in Seq(S) /\ Len(a) \in Nat /\ Len(b) \in Nat /\ Len(a \o b) = Len(a) + Len(b)
         /\ \A i \in 1 .. Len(a) : (a \o b)[i] = a[i]
         /\ \A i \in 1 .. Len(b) : (a \o b)[Len(a) + i] = b[i]
<1>1. /\ a \o b \in Seq(S) /\ Len(a) \in Nat /\ Len(b) \in Nat /\ Len(a \o b) = Len(a) + Len(b)
      /\ \A i \in 1 .. Len(a) + Len(b) : (a \o b)[i] = IF i <= Len(a) THEN a[i] ELSE b[i - Len(a)]
  BY ConcatProperties
<1>2. ASSUME NEW i \in 1 .. Len(b) PROVE (a \o b)[Len(a) + i] = b[i]
  <2>1. Len(a) + i \in 1 .. Len(a) + Len(b) /\ ~(Len(a) + i <= Len(a)) /\ Len(a) + i - Len(a) = i
    BY <1>1
  <2>2. QED
    BY <1>1, <2>1
<1>3. ASSUME NEW i \in 1 .. Len(a) PROVE (a \o b)[i] = a[i]
  <2>1. i \in 1 .. Len(a) + Len(b) /\ i <= Len(a)
    BY <1>1
  <2>2. QED
    BY <1>1, <2>1
<1>4. QED
  BY <1>1, <1>2, <1>3

\* The first n elements, and the others.
LEMMA Prefix ==
  ASSUME NEW S, NEW s \in Seq(S), NEW n \in 0 .. Len(s)
  PROVE  SubSeq(s, 1, n) \in Seq(S) /\ Len(SubSeq(s, 1, n)) = n /\ \A i \in 1 .. n : SubSeq(s, 1, n)[i] = s[i]
<1>1. SubSeq(s, 1, n) = [i \in 1 .. n |-> s[i]] /\ n \in Nat
  OBVIOUS
<1>2. \A i \in 1 .. n : s[i] \in S
  OBVIOUS
<1>3. QED
  BY <1>1, <1>2

LEMMA RestIs ==
  ASSUME NEW S, NEW s \in Seq(S), NEW n \in 0 .. Len(s)
  PROVE  Rest(s, n) \in Seq(S) /\ Len(Rest(s, n)) = Len(s) - n /\ \A i \in 1 .. Len(s) - n : Rest(s, n)[i] = s[n + i]
<1>1. Len(s) \in Nat /\ n \in Nat /\ Len(s) - n \in Nat /\ (Len(s) - (n + 1)) + 1 = Len(s) - n
  OBVIOUS
<1>2. Rest(s, n) = [i \in 1 .. (Len(s) - (n + 1)) + 1 |-> s[i + (n + 1) - 1]]
  BY <1>1 DEF Rest
<1>3. \A i \in 1 .. Len(s) - n : i + (n + 1) - 1 = n + i /\ n + i \in 1 .. Len(s)
  BY <1>1
<1>4. PICK m \in Nat : m = Len(s) - n
  BY <1>1
<1>5. Rest(s, n) = [i \in 1 .. m |-> s[n + i]]
  BY <1>1, <1>2, <1>3, <1>4
<1>6. \A i \in 1 .. m : s[n + i] \in S
  BY <1>3, <1>4
<1>7. Rest(s, n) \in Seq(S) /\ Len(Rest(s, n)) = m /\ \A i \in 1 .. m : Rest(s, n)[i] = s[n + i]
  BY <1>5, <1>6
<1>8. QED
  BY <1>4, <1>7

LEMMA Same ==
  ASSUME NEW S, NEW a \in Seq(S), NEW b \in Seq(S), Len(a) = Len(b), \A i \in 1 .. Len(a) : a[i] = b[i]
  PROVE  a = b
BY SeqEqual

LEMMA Parts ==
  ASSUME NEW S, NEW a \in Seq(S), NEW b \in Seq(S)
  PROVE  SubSeq(a \o b, 1, Len(a)) = a /\ Rest(a \o b, Len(a)) = b
<1> DEFINE c == a \o b
           x == SubSeq(c, 1, Len(a))
           y == Rest(c, Len(a))
<1>1. /\ c \in Seq(S) /\ Len(a) \in Nat /\ Len(b) \in Nat /\ Len(c) = Len(a) + Len(b)
      /\ \A i \in 1 .. Len(a) : c[i] = a[i]
      /\ \A i \in 1 .. Len(b) : c[Len(a) + i] = b[i]
  BY Catenated
<1> HIDE DEF c
<1>2. Len(a) \in 0 .. Len(c) /\ Len(c) - Len(a) = Len(b)
  BY <1>1
<1>3. x \in Seq(S) /\ Len(x) = Len(a) /\ \A i \in 1 .. Len(a) : x[i] = c[i]
  BY <1>1, <1>2, Prefix
<1>4. y \in Seq(S) /\ Len(y) = Len(c) - Len(a) /\ \A i \in 1 .. Len(c) - Len(a) : y[i] = c[Len(a) + i]
  BY <1>1, <1>2, RestIs
<1> HIDE DEF x, y
<1>5. x = a
  BY <1>1, <1>3, Same
<1>6. y = b
  BY <1>1, <1>2, <1>4, Same
<1>7. QED
  BY <1>5, <1>6 DEF x, y, c

LEMMA Together ==
  ASSUME NEW S, NEW s \in Seq(S), NEW n \in 0 .. Len(s)
  PROVE  SubSeq(s, 1, n) \o Rest(s, n) = s
<1> DEFINE x == SubSeq(s, 1, n)
           y == Rest(s, n)
           c == x \o y
<1>1. x \in Seq(S) /\ Len(x) = n /\ (\A i \in 1 .. n : x[i] = s[i]) /\ Len(s) \in Nat /\ n \in Nat
  BY Prefix
<1>2. y \in Seq(S) /\ Len(y) = Len(s) - n /\ \A i \in 1 .. Len(s) - n : y[i] = s[n + i]
  BY RestIs
<1> HIDE DEF x, y
<1>3. /\ c \in Seq(S) /\ Len(c) = Len(x) + Len(y)
      /\ \A i \in 1 .. Len(x) : c[i] = x[i]
      /\ \A i \in 1 .. Len(y) : c[Len(x) + i] = y[i]
  BY <1>1, <1>2, Catenated
<1> HIDE DEF c
<1>4. Len(c) = Len(s)
  BY <1>1, <1>2, <1>3
<1>5. ASSUME NEW i \in 1 .. Len(c) PROVE c[i] = s[i]
  <2>1. CASE i <= n
    BY <1>1, <1>3, <2>1
  <2>2. CASE ~(i <= n)
    <3>1. PICK j : j = i - n
      OBVIOUS
    <3>2. j \in 1 .. Len(s) - n /\ i = n + j
      BY <1>1, <1>4, <2>2, <3>1
    <3>3. QED
      BY <1>1, <1>2, <1>3, <3>2
  <2>3. QED
    BY <2>1, <2>2
<1>6. c = s
  BY <1>3, <1>4, <1>5, Same
<1>7. QED
  BY <1>6 DEF c, x, y

LEMMA Grouped ==
  ASSUME NEW S, NEW a \in Seq(S), NEW b \in Seq(S), NEW c \in Seq(S)
  PROVE  (a \o b) \o c = a \o (b \o c)
BY ConcatAssociative

LEMMA Nothing0 ==
  ASSUME NEW S, NEW a \in Seq(S)
  PROVE  a \o <<>> = a /\ <<>> \o a = a /\ <<>> \in Seq(S) /\ (Len(a) = 0 => a = <<>>)
BY ConcatEmptySeq, EmptySeq

--------------------------------------------------------------------------------
(* One sequence after the other. *)

\* What comes before a position, what comes after it, and the whole.
Laid(S, seqs, p, r) ==
  LET n == Len(seqs)
  IN  /\ p \in [0 .. n -> Seq(S)] /\ p[0] = <<>> /\ \A i \in 1 .. n : p[i] = p[i - 1] \o seqs[i]
      /\ r \in [0 .. n -> Seq(S)] /\ r[n] = <<>> /\ \A i \in 1 .. n : r[i - 1] = seqs[i] \o r[i]
      /\ r[0] = FlattenSeq(seqs) /\ p[n] = FlattenSeq(seqs)
      /\ \A i \in 0 .. n : p[i] \o r[i] = FlattenSeq(seqs)

LEMMA Flattened ==
  ASSUME NEW S, NEW seqs, seqs \in Seq(Seq(S))
  PROVE  /\ \E p, r : Laid(S, seqs, p, r)
         /\ FlattenSeq(seqs) \in Seq(S)
<1> DEFINE n == Len(seqs)
           all == FlattenSeq(seqs)
           up == [i \in 1 .. n |-> [x \in Seq(S) |-> x \o seqs[i]]]
           down == [i \in 1 .. n |-> [x \in Seq(S) |-> seqs[n - i + 1] \o x]]
           IsFlat(c) == c = [i \in 1 .. n |-> IF i = 1 THEN seqs[i] ELSE c[i - 1] \o seqs[i]]
<1>1. n \in Nat /\ (\A i \in 1 .. n : seqs[i] \in Seq(S)) /\ (n = 0 => seqs = <<>>)
  BY EmptySeq
<1>2. all = IF n = 0 THEN seqs ELSE (CHOOSE c : IsFlat(c))[n]
  BY DEF FlattenSeq
<1> HIDE DEF n, all
<1>3. <<>> \in Seq(S) /\ \A i \in 1 .. n : n - i + 1 \in 1 .. n
  BY <1>1
<1>4. \A i \in 1 .. n, x \in Seq(S) : x \o seqs[i] \in Seq(S) /\ seqs[n - i + 1] \o x \in Seq(S)
  BY <1>1, <1>3, Catenated
<1>5. up \in [1 .. n -> [Seq(S) -> Seq(S)]] /\ \A i \in 1 .. n, x \in Seq(S) : up[i][x] = x \o seqs[i]
  BY <1>4
<1>6. down \in [1 .. n -> [Seq(S) -> Seq(S)]] /\ \A i \in 1 .. n, x \in Seq(S) : down[i][x] = seqs[n - i + 1] \o x
  BY <1>4
<1> HIDE DEF up, down
<1>7. PICK p : p \in [0 .. n -> Seq(S)] /\ Stepwise(n, <<>>, up, p)
  <2>1. Steps(n, Seq(S), <<>>, up)
    BY <1>1, <1>3, <1>5 DEF Steps
  <2>2. QED
    BY <2>1, StepwiseExists
<1>8. PICK q : q \in [0 .. n -> Seq(S)] /\ Stepwise(n, <<>>, down, q)
  <2>1. Steps(n, Seq(S), <<>>, down)
    BY <1>1, <1>3, <1>6 DEF Steps
  <2>2. QED
    BY <2>1, StepwiseExists
<1>9. p[0] = <<>> /\ \A i \in 1 .. n : p[i] = p[i - 1] \o seqs[i]
  <2>1. \A i \in 1 .. n : i - 1 \in 0 .. n
    BY <1>1
  <2>2. QED
    BY <1>5, <1>7, <2>1 DEF Stepwise
<1> DEFINE r == [i \in 0 .. n |-> q[n - i]]
<1>10. \A i \in 0 .. n : n - i \in 0 .. n /\ r[i] = q[n - i]
  BY <1>1
<1>11. r \in [0 .. n -> Seq(S)]
  BY <1>8, <1>10
<1>12. r[n] = <<>>
  <2>1. n \in 0 .. n /\ n - n = 0
    BY <1>1
  <2>2. QED
    BY <1>8, <1>10, <2>1 DEF Stepwise
<1>13. ASSUME NEW i \in 1 .. n PROVE r[i - 1] = seqs[i] \o r[i]
  <2>1. PICK k : k = n - i + 1
    OBVIOUS
  <2>2. k \in 1 .. n /\ n - (i - 1) = k /\ n - i = k - 1 /\ n - k + 1 = i /\ k - 1 \in 0 .. n /\ i - 1 \in 0 .. n /\ i \in 0 .. n
    BY <1>1, <2>1
  <2>3. q[k] = down[k][q[k - 1]]
    BY <1>8, <2>2 DEF Stepwise
  <2>4. q[k] = seqs[i] \o q[k - 1]
    BY <1>6, <1>8, <2>2, <2>3
  <2>5. QED
    BY <1>10, <2>2, <2>4
<1> HIDE DEF r
<1> DEFINE P == {i \in 0 .. n : p[i] \o r[i] = r[0]}
<1>14. 0 \in P
  <2>1. r[0] \in Seq(S) /\ 0 \in 0 .. n
    BY <1>1, <1>11
  <2>2. <<>> \o r[0] = r[0]
    BY <2>1, Nothing0
  <2>3. QED
    BY <1>9, <2>1, <2>2
<1>15. ASSUME NEW i \in 1 .. n, i - 1 \in P PROVE i \in P
  <2>1. i - 1 \in 0 .. n /\ i \in 0 .. n
    BY <1>1
  <2>2. p[i - 1] \in Seq(S) /\ r[i] \in Seq(S) /\ seqs[i] \in Seq(S)
    BY <1>1, <1>7, <1>11, <2>1
  <2>3. (p[i - 1] \o seqs[i]) \o r[i] = p[i - 1] \o (seqs[i] \o r[i])
    <3>1. PICK x, y, z : x = p[i - 1] /\ y = seqs[i] /\ z = r[i]
      OBVIOUS
    <3>2. x \in Seq(S) /\ y \in Seq(S) /\ z \in Seq(S)
      BY <2>2, <3>1
    <3>3. (x \o y) \o z = x \o (y \o z)
      BY <3>2, Grouped
    <3>4. QED
      BY <3>1, <3>3
  <2>4. p[i] \o r[i] = p[i - 1] \o r[i - 1]
    BY <1>9, <1>13, <2>3
  <2>5. QED
    BY <1>15, <2>1, <2>4
<1> HIDE DEF P
<1>16. \A i \in 0 .. n : i \in P
  BY <1>1, <1>14, <1>15, UpTo
<1>17. \A i \in 0 .. n : p[i] \o r[i] = r[0]
  BY <1>16 DEF P
<1>18. p[n] = r[0]
  <2>1. n \in 0 .. n
    BY <1>1
  <2>2. p[n] \in Seq(S)
    BY <1>7, <2>1
  <2>3. p[n] \o <<>> = p[n]
    BY <2>2, Nothing0
  <2>4. QED
    BY <1>12, <1>17, <2>1, <2>3
<1>19. p[n] = all
  <2>1. CASE n = 0
    BY <1>1, <1>2, <1>9, <2>1
  <2>2. CASE n # 0
    <3>1. \A i \in 1 .. n : i # 1 => i - 1 \in 1 .. n
      BY <1>1
    <3> DEFINE g == [i \in 1 .. n |-> p[i]]
    <3>2. \A i \in 1 .. n : g[i] = IF i = 1 THEN seqs[i] ELSE g[i - 1] \o seqs[i]
      <4>1. \A i \in 1 .. n : <<>> \o seqs[i] = seqs[i]
        BY <1>1, Nothing0
      <4>2. \A i \in 1 .. n : i = 1 => i - 1 = 0
        OBVIOUS
      <4>3. ASSUME NEW i \in 1 .. n PROVE g[i] = IF i = 1 THEN seqs[i] ELSE g[i - 1] \o seqs[i]
        <5>1. g[i] = p[i] /\ p[i] = p[i - 1] \o seqs[i]
          BY <1>9
        <5>2. CASE i = 1
          BY <1>9, <4>1, <4>2, <5>1, <5>2
        <5>3. CASE i # 1
          <6>1. g[i - 1] = p[i - 1]
            BY <3>1, <5>3
          <6>2. QED
            BY <5>1, <5>3, <6>1
        <5>4. QED
          BY <5>2, <5>3
      <4>4. QED
        BY <4>3
    <3>3. IsFlat(g)
      BY <3>2
    <3>4. PICK c : IsFlat(c) /\ all = c[n]
      <4> HIDE DEF IsFlat, g
      <4>1. QED
        BY <1>2, <2>2, <3>3
    <3>5. \A i \in 1 .. n : c[i] = IF i = 1 THEN seqs[i] ELSE c[i - 1] \o seqs[i]
      BY <3>4
    <3> DEFINE Q == {i \in 0 .. n : i = 0 \/ c[i] = g[i]}
    <3>6. 0 \in Q
      BY <1>1
    <3>7. ASSUME NEW i \in 1 .. n, i - 1 \in Q PROVE i \in Q
      <4>1. i - 1 = 0 => i = 1
        OBVIOUS
      <4>2. i # 1 => c[i - 1] = g[i - 1]
        BY <3>7, <4>1
      <4>3. c[i] = g[i]
        BY <3>2, <3>5, <4>2
      <4>4. QED
        BY <4>3
    <3> HIDE DEF Q
    <3>8. \A i \in 0 .. n : i \in Q
      BY <1>1, <3>6, <3>7, UpTo
    <3>9. n \in Q /\ n \in 1 .. n
      BY <1>1, <2>2, <3>8
    <3>10. QED
      BY <2>2, <3>4, <3>9 DEF Q
  <2>3. QED
    BY <2>1, <2>2
<1>20. all \in Seq(S)
  BY <1>1, <1>7, <1>19
<1>21. Laid(S, seqs, p, r)
  BY <1>7, <1>9, <1>11, <1>12, <1>13, <1>17, <1>18, <1>19 DEF Laid, n, all
<1>22. QED
  BY <1>20, <1>21 DEF all

--------------------------------------------------------------------------------
(* Integers of groups of seven bits. *)

\* A set of numbers has a least one.
LEMMA LeastOf ==
  ASSUME NEW S \in SUBSET Nat, S # {}
  PROVE  Min(S) \in S /\ Min(S) \in Nat /\ \A n \in S : Min(S) <= n
<1> DEFINE R == OpToRel(<, Nat)
<1>1. IsWellFoundedOn(R, Nat)
  BY NatLessThanWellFounded
<1>2. \A m, n \in Nat : m < n => <<m, n>> \in R
  BY DEF OpToRel
<1> HIDE DEF R
<1>3. PICK n \in S : \A m \in S : <<m, n>> \notin R
  <2>1. S \subseteq Nat
    OBVIOUS
  <2>2. QED
    BY <1>1, <2>1, WFMin
<1>4. \A m \in S : m \in Nat /\ n \in Nat /\ ~(m < n)
  BY <1>2, <1>3
<1>5. n \in S /\ n \in Nat /\ \A m \in S : n <= m
  BY <1>3, <1>4
<1>6. QED
  BY <1>5 DEF Min

\* The size of an integer is told by the first byte below 128.
LEMMA SizeIs ==
  ASSUME NEW bytes \in Seq(Nat), NEW k \in 1 .. Len(bytes), bytes[k] < 128, \A i \in 1 .. k - 1 : bytes[i] >= 128
  PROVE  VarSize(bytes) = k
<1> DEFINE I == {i \in 1 .. Len(bytes) : bytes[i] < 128}
<1>1. k \in I /\ I \in SUBSET Nat
  OBVIOUS
<1>2. I # {}
  BY <1>1
<1>3. VarSize(bytes) = IF (IF I # {} THEN Min(I) ELSE 0) = 0 THEN Len(bytes) ELSE IF I # {} THEN Min(I) ELSE 0
  BY DEF VarSize, SelectInSeq
<1> HIDE DEF I
<1>4. Min(I) \in I /\ Min(I) <= k /\ Min(I) \in Nat
  BY <1>1, <1>2, LeastOf
<1>5. PICK m : m = Min(I)
  OBVIOUS
<1>6. m \in 1 .. Len(bytes) /\ bytes[m] < 128 /\ m <= k
  BY <1>4, <1>5 DEF I
<1>7. m \in Nat /\ ~(m \in 1 .. k - 1)
  <2>1. \A i \in 1 .. k - 1 : bytes[i] \in Nat
    OBVIOUS
  <2>2. QED
    BY <1>6, <2>1
<1>8. m = k /\ m # 0
  BY <1>6, <1>7
<1>9. QED
  BY <1>2, <1>3, <1>5, <1>8

\* Without one it is the whole.
LEMMA SizeOfAll ==
  ASSUME NEW bytes \in Seq(Nat), \A i \in 1 .. Len(bytes) : bytes[i] >= 128
  PROVE  VarSize(bytes) = Len(bytes)
<1>1. {i \in 1 .. Len(bytes) : bytes[i] < 128} = {}
  <2>1. \A i \in 1 .. Len(bytes) : bytes[i] \in Nat
    OBVIOUS
  <2>2. QED
    BY <2>1
<1>2. QED
  BY <1>1 DEF VarSize, SelectInSeq

LEMMA OneDigit ==
  ASSUME NEW base \in Bases, NEW d \in Seq(Nat), Len(d) = 1
  PROVE  Number(d, base) = d[1]
<1>1. PICK h : h \in [0 .. Len(d) -> Nat] /\ h[0] = 0 /\ (\A i \in 1 .. Len(d) : h[i] = base * h[i - 1] + d[Len(d) - i + 1])
               /\ Number(d, base) = h[Len(d)]
  BY NumberIs
<1>2. base \in Nat /\ \A i \in 1 .. Len(d) : d[i] \in Nat
  BY SMTT(20) DEF Bases
<1>3. h[1] = base * h[1 - 1] + d[Len(d) - 1 + 1] /\ 1 - 1 = 0 /\ Len(d) - 1 + 1 = 1
  BY <1>1
<1>4. base * 0 = 0 /\ d[1] \in Nat
  BY <1>2
<1>5. QED
  BY <1>1, <1>3, <1>4

LEMMA TwoDigits ==
  ASSUME NEW d \in Seq(Nat), Len(d) = 2
  PROVE  Number(d, 128) = d[1] + 128 * d[2] /\ Number(d, 256) = d[1] + 256 * d[2]
<1>1. ASSUME NEW base \in {128, 256} PROVE Number(d, base) = d[1] + base * d[2]
  <2>0. base \in Bases
    BY DEF Bases
  <2>1. PICK h : h \in [0 .. Len(d) -> Nat] /\ h[0] = 0 /\ (\A i \in 1 .. Len(d) : h[i] = base * h[i - 1] + d[Len(d) - i + 1])
                 /\ Number(d, base) = h[Len(d)]
    BY <2>0, NumberIs
  <2>2. d[1] \in Nat /\ d[2] \in Nat /\ base \in Nat
    <3>1. \A i \in 1 .. Len(d) : d[i] \in Nat
      BY SMTT(20)
    <3>2. QED
      BY <3>1
  <2>3. h[1] = base * h[0] + d[2] /\ h[2] = base * h[1] + d[1] /\ h[0] = 0
    <3>1. 1 \in 1 .. Len(d) /\ 2 \in 1 .. Len(d) /\ 1 - 1 = 0 /\ 2 - 1 = 1 /\ Len(d) - 1 + 1 = 2 /\ Len(d) - 2 + 1 = 1
      OBVIOUS
    <3>2. h[1] = base * h[1 - 1] + d[Len(d) - 1 + 1] /\ h[2] = base * h[2 - 1] + d[Len(d) - 2 + 1]
      BY <2>1, <3>1
    <3>3. QED
      BY <2>1, <3>1, <3>2
  <2>4. base * 0 = 0
    BY <2>2
  <2>5. h[1] = d[2]
    BY <2>2, <2>3, <2>4
  <2>6. h[2] = base * d[2] + d[1]
    BY <2>3, <2>5
  <2>7. base * d[2] \in Nat
    BY <2>2
  <2>8. QED
    BY <2>1, <2>2, <2>6, <2>7
<1>2. QED
  BY <1>1

\* What reads an integer of one byte, and of two.
LEMMA OneByteRead ==
  ASSUME NEW low \in Nat, low < 128, NEW rest \in Seq(Nat)
  PROVE  LET s == <<low>> \o rest
         IN  s \in Seq(Nat) /\ Len(s) = Len(rest) + 1 /\ Number(Groups(s), 128) = low /\ Rest(s, VarSize(s)) = rest
<1> DEFINE b == <<low>>
           s == b \o rest
<1>1. b \in Seq(Nat) /\ Len(b) = 1 /\ b[1] = low /\ low \in Nat
  OBVIOUS
<1> HIDE DEF b
<1>2. /\ s \in Seq(Nat) /\ Len(rest) \in Nat /\ Len(s) = 1 + Len(rest)
      /\ \A i \in 1 .. 1 : s[i] = b[i]
  <2>1. /\ s \in Seq(Nat) /\ Len(rest) \in Nat /\ Len(s) = Len(b) + Len(rest)
        /\ \A i \in 1 .. Len(b) : s[i] = b[i]
    <3>1. b \in Seq(Nat)
      BY <1>1
    <3>2. QED
      BY <3>1, Catenated
  <2>2. QED
    BY <1>1, <2>1
<1>3. Rest(s, Len(b)) = rest
  BY <1>1, Parts
<1> HIDE DEF s
<1>4. s[1] = low
  BY <1>1, <1>2
<1>5. VarSize(s) = 1
  <2>1. 1 \in 1 .. Len(s) /\ s[1] < 128 /\ \A i \in 1 .. 1 - 1 : s[i] >= 128
    BY <1>2, <1>4
  <2>2. QED
    BY <1>2, <2>1, SizeIs
<1>6. Groups(s) \in Seq(Nat) /\ Len(Groups(s)) = 1 /\ Groups(s)[1] = low
  <2>1. low % 128 = low
    OBVIOUS
  <2>2. Groups(s) = [i \in 1 .. 1 |-> s[i] % 128]
    BY <1>5 DEF Groups
  <2>3. \A i \in 1 .. 1 : s[i] % 128 = low /\ low \in Nat
    BY <1>1, <1>4, <2>1
  <2>4. QED
    BY <2>2, <2>3
<1>7. Number(Groups(s), 128) = low
  BY <1>6, OneDigit DEF Bases
<1>8. QED
  BY <1>1, <1>2, <1>3, <1>5, <1>7 DEF s, b

LEMMA TwoBytesRead ==
  ASSUME NEW low \in Nat, NEW high \in Nat, low < 128, high < 128, NEW rest \in Seq(Nat)
  PROVE  LET s == <<low + 128, high>> \o rest
         IN  /\ s \in Seq(Nat) /\ Len(s) = Len(rest) + 2 /\ Number(Groups(s), 128) = low + 128 * high
             /\ Rest(s, VarSize(s)) = rest
<1> DEFINE b == <<low + 128, high>>
           s == b \o rest
<1>1. b \in Seq(Nat) /\ Len(b) = 2 /\ b[1] = low + 128 /\ b[2] = high /\ low \in Nat /\ high \in Nat
  OBVIOUS
<1> HIDE DEF b
<1>2. /\ s \in Seq(Nat) /\ Len(rest) \in Nat /\ Len(s) = 2 + Len(rest)
      /\ \A i \in 1 .. 2 : s[i] = b[i]
  <2>1. /\ s \in Seq(Nat) /\ Len(rest) \in Nat /\ Len(s) = Len(b) + Len(rest)
        /\ \A i \in 1 .. Len(b) : s[i] = b[i]
    <3>1. b \in Seq(Nat)
      BY <1>1
    <3>2. QED
      BY <3>1, Catenated
  <2>2. QED
    BY <1>1, <2>1
<1>3. Rest(s, Len(b)) = rest
  BY <1>1, Parts
<1> HIDE DEF s
<1>4. s[1] = low + 128 /\ s[2] = high
  BY <1>1, <1>2
<1>5. VarSize(s) = 2
  <2>1. 2 \in 1 .. Len(s) /\ s[2] < 128 /\ \A i \in 1 .. 2 - 1 : s[i] >= 128
    BY <1>2, <1>4
  <2>2. QED
    BY <1>2, <2>1, SizeIs
<1>6. Groups(s) \in Seq(Nat) /\ Len(Groups(s)) = 2 /\ Groups(s)[1] = low /\ Groups(s)[2] = high
  <2>1. (low + 128) % 128 = low /\ high % 128 = high
    OBVIOUS
  <2>2. Groups(s) = [i \in 1 .. 2 |-> s[i] % 128]
    BY <1>5 DEF Groups
  <2>3. \A i \in 1 .. 2 : s[i] % 128 \in Nat
    BY <1>4, <2>1
  <2>4. Groups(s) \in Seq(Nat) /\ Len(Groups(s)) = 2
    BY <2>2, <2>3
  <2>5. QED
    BY <1>4, <2>1, <2>2, <2>4
<1>7. Number(Groups(s), 128) = low + 128 * high
  BY <1>6, TwoDigits
<1>8. QED
  BY <1>1, <1>2, <1>3, <1>5, <1>7 DEF s, b

--------------------------------------------------------------------------------
(* Loops: what holds after each turn. *)

\* good[i] is where turn i of f leads from good[i - 1], with f[i] the turn.
Leads(n, good, f) == \A i \in 1 .. n : \A x \in good[i - 1] : f[i][x] \in good[i]

\* g is what there is after each turn.
Loop(n, base, good, f, g) ==
  /\ g = [i \in 0 .. n |-> g[i]] /\ g[0] = base
  /\ \A i \in 1 .. n : g[i] = f[i][g[i - 1]]
  /\ \A i \in 0 .. n : g[i] \in good[i]

LEMMA LoopExists ==
  ASSUME NEW n \in Nat, NEW good, NEW base, NEW f, base \in good[0], Leads(n, good, f)
  PROVE  \E g : Loop(n, base, good, f, g)
<1> DEFINE X == UNION {good[i] : i \in 0 .. n}
           step == [i \in 1 .. n |-> [x \in X |-> IF x \in good[i - 1] THEN f[i][x] ELSE x]]
<1>1. \A i \in 1 .. n : i \in 0 .. n /\ i - 1 \in 0 .. n
  OBVIOUS
<1>2. \A i \in 1 .. n : \A x \in good[i - 1] : f[i][x] \in good[i] /\ f[i][x] \in X /\ x \in X
  BY <1>1 DEF Leads
<1>3. /\ step \in [1 .. n -> [X -> X]]
      /\ \A i \in 1 .. n : \A x \in good[i - 1] : step[i][x] = f[i][x]
  BY <1>2
<1>4. base \in X
  OBVIOUS
<1> HIDE DEF step, X
<1>5. PICK g : g \in [0 .. n -> X] /\ Stepwise(n, base, step, g)
  <2>1. Steps(n, X, base, step)
    BY <1>3, <1>4 DEF Steps
  <2>2. QED
    BY <2>1, StepwiseExists
<1> DEFINE P == {i \in 0 .. n : g[i] \in good[i]}
<1>6. 0 \in P
  BY <1>5 DEF Stepwise
<1>7. ASSUME NEW i \in 1 .. n, i - 1 \in P PROVE i \in P
  BY <1>1, <1>2, <1>3, <1>5, <1>7 DEF Stepwise
<1> HIDE DEF P
<1>8. \A i \in 0 .. n : i \in P
  BY <1>6, <1>7, UpTo
<1>9. \A i \in 0 .. n : g[i] \in good[i]
  BY <1>8 DEF P
<1>10. \A i \in 1 .. n : g[i] = f[i][g[i - 1]]
  BY <1>1, <1>3, <1>5, <1>9 DEF Stepwise
<1>11. g = [i \in 0 .. n |-> g[i]] /\ g[0] = base
  BY <1>5 DEF Stepwise
<1>12. Loop(n, base, good, f, g)
  BY <1>9, <1>10, <1>11 DEF Loop
<1>13. QED
  BY <1>12

LEMMA LoopLeads ==
  ASSUME NEW n \in Nat, NEW good, NEW f, NEW c, c[0] \in good[0], Leads(n, good, f),
         \A i \in 1 .. n : c[i - 1] \in good[i - 1] => c[i] = f[i][c[i - 1]]
  PROVE  \A i \in 0 .. n : c[i] \in good[i]
<1> DEFINE P == {i \in 0 .. n : c[i] \in good[i]}
<1>1. 0 \in P
  OBVIOUS
<1>2. ASSUME NEW i \in 1 .. n, i - 1 \in P PROVE i \in P
  BY <1>2 DEF Leads
<1> HIDE DEF P
<1>3. \A i \in 0 .. n : i \in P
  BY <1>1, <1>2, UpTo
<1>4. QED
  BY <1>3 DEF P

--------------------------------------------------------------------------------
(* Values side by side. *)

\* Positions of bits, for each of the widths.
LEMMA Positions ==
  ASSUME NEW w \in 1 .. 9, NEW q \in Nat, NEW j \in 0 .. w - 1
  PROVE  /\ q * w \in Nat /\ q * w + j \in Nat /\ (q * w + j) \div w = q /\ (q * w + j) % w = j
         /\ ((8 * q) * w) \div 8 = q * w /\ (q + 1) * w = q * w + w
<1>1. CASE w = 1
  BY <1>1
<1>2. CASE w = 2
  BY <1>2
<1>3. CASE w = 3
  BY <1>3
<1>4. CASE w = 4
  BY <1>4
<1>5. CASE w = 5
  BY <1>5
<1>6. CASE w = 6
  BY <1>6
<1>7. CASE w = 7
  BY <1>7
<1>8. CASE w = 8
  BY <1>8
<1>9. CASE w = 9
  BY <1>9
<1>10. w \in {1, 2, 3, 4, 5, 6, 7, 8, 9}
  OBVIOUS
<1>11. QED
  BY <1>1, <1>2, <1>3, <1>4, <1>5, <1>6, <1>7, <1>8, <1>9, <1>10

LEMMA BitPositions ==
  ASSUME NEW w \in 1 .. 9, NEW g \in Nat, NEW i \in 1 .. 8, NEW j \in 0 .. w - 1
  PROVE  LET k == (i - 1) * w + j
         IN  /\ k \in 0 .. 8 * w - 1 /\ k \div 8 \in 0 .. w - 1 /\ k % 8 \in 0 .. 7
             /\ 8 * (g * w + (k \div 8)) + (k % 8) = (8 * g + (i - 1)) * w + j
<1>1. CASE w = 1
  BY <1>1
<1>2. CASE w = 2
  BY <1>2
<1>3. CASE w = 3
  BY <1>3
<1>4. CASE w = 4
  BY <1>4
<1>5. CASE w = 5
  BY <1>5
<1>6. CASE w = 6
  BY <1>6
<1>7. CASE w = 7
  BY <1>7
<1>8. CASE w = 8
  BY <1>8
<1>9. CASE w = 9
  BY <1>9
<1>10. w \in {1, 2, 3, 4, 5, 6, 7, 8, 9}
  OBVIOUS
<1>11. QED
  BY <1>1, <1>2, <1>3, <1>4, <1>5, <1>6, <1>7, <1>8, <1>9, <1>10

LEMMA InGroups ==
  ASSUME NEW w \in 1 .. 9, NEW n \in Nat, NEW b \in 1 .. n * w, NEW t \in 0 .. 7
  PROVE  LET k == 8 * (b - 1) + t IN k \in Nat /\ k \div w \in 0 .. 8 * n - 1 /\ k % w \in 0 .. w - 1
<1>1. CASE w = 1
  BY <1>1
<1>2. CASE w = 2
  BY <1>2
<1>3. CASE w = 3
  BY <1>3
<1>4. CASE w = 4
  BY <1>4
<1>5. CASE w = 5
  BY <1>5
<1>6. CASE w = 6
  BY <1>6
<1>7. CASE w = 7
  BY <1>7
<1>8. CASE w = 8
  BY <1>8
<1>9. CASE w = 9
  BY <1>9
<1>10. w \in {1, 2, 3, 4, 5, 6, 7, 8, 9}
  OBVIOUS
<1>11. QED
  BY <1>1, <1>2, <1>3, <1>4, <1>5, <1>6, <1>7, <1>8, <1>9, <1>10

\* Bit k of the values side by side.
BitOf(values, k) == Digit(values[(k \div width) + 1], 2, k % width)

LEMMA NumberType ==
  ASSUME NEW base \in Bases, NEW d \in Seq(Nat)
  PROVE  Number(d, base) \in Nat
<1>1. PICK h : h \in [0 .. Len(d) -> Nat] /\ Number(d, base) = h[Len(d)]
  BY NumberIs
<1>2. Len(d) \in 0 .. Len(d)
  OBVIOUS
<1>3. QED
  BY <1>1, <1>2

LEMMA PackedIs ==
  ASSUME NEW values \in Seq(Nat), NEW n \in Nat, Len(values) = 8 * n, width \in 1 .. 9
  PROVE  LET bytes == PackedBytes(values)
         IN  /\ bytes \in Seq(Nat) /\ Len(bytes) = n * width
             /\ \A b \in 1 .. n * width, t \in 0 .. 7 : Digit(bytes[b], 2, t) = BitOf(values, 8 * (b - 1) + t)
<1> DEFINE d(b) == [t \in 1 .. 8 |-> BitOf(values, 8 * (b - 1) + t - 1)]
           bytes == PackedBytes(values)
<1>1. bytes = [b \in 1 .. (Len(values) * width) \div 8 |-> Number(d(b), 2)]
  BY DEF PackedBytes, BitOf
<1>2. n * width \in Nat /\ (Len(values) * width) \div 8 = n * width
  <2>1. 0 \in 0 .. width - 1
    OBVIOUS
  <2>2. n * width \in Nat /\ ((8 * n) * width) \div 8 = n * width
    BY <2>1, Positions
  <2>3. QED
    BY <2>2
<1>3. bytes = [b \in 1 .. n * width |-> Number(d(b), 2)]
  BY <1>1, <1>2
<1> HIDE DEF bytes
<1>4. ASSUME NEW b \in 1 .. n * width
      PROVE  d(b) \in Seq(Nat) /\ Len(d(b)) = 8 /\ \A t \in 1 .. 8 : d(b)[t] = BitOf(values, 8 * (b - 1) + t - 1) /\ d(b)[t] \in 0 .. 2 - 1
  <2>1. ASSUME NEW t \in 1 .. 8 PROVE BitOf(values, 8 * (b - 1) + t - 1) \in 0 .. 2 - 1 /\ BitOf(values, 8 * (b - 1) + t - 1) \in Nat
    <3>1. PICK k : k = 8 * (b - 1) + (t - 1)
      OBVIOUS
    <3>2. t - 1 \in 0 .. 7 /\ 8 * (b - 1) + t - 1 = k
      BY <1>2, <3>1
    <3>3. k \in Nat /\ k \div width \in 0 .. 8 * n - 1 /\ k % width \in 0 .. width - 1
      BY <3>1, <3>2, InGroups
    <3>4. values[(k \div width) + 1] \in Nat /\ k % width \in Nat
      <4>1. (k \div width) + 1 \in 1 .. Len(values)
        BY <3>3
      <4>2. QED
        BY <3>3, <4>1
    <3>5. 2 \in Bases
      BY DEF Bases
    <3>6. Digit(values[(k \div width) + 1], 2, k % width) \in 0 .. 2 - 1
      BY <3>4, <3>5, DigitType
    <3>7. BitOf(values, k) \in 0 .. 2 - 1
      BY <3>6 DEF BitOf
    <3>8. BitOf(values, k) \in Nat
      BY ONLY <3>7
    <3>9. QED
      BY <3>2, <3>7, <3>8
  <2>2. QED
    BY <2>1
<1>5. ASSUME NEW b \in 1 .. n * width
      PROVE  bytes[b] \in Nat /\ \A t \in 0 .. 7 : Digit(bytes[b], 2, t) = BitOf(values, 8 * (b - 1) + t)
  <2>1. bytes[b] = Number(d(b), 2)
    BY <1>3
  <2>2. PICK e : e = d(b)
    OBVIOUS
  <2>3. e \in Seq(Nat) /\ Len(e) = 8 /\ \A t \in 1 .. 8 : e[t] = BitOf(values, 8 * (b - 1) + t - 1) /\ e[t] \in 0 .. 2 - 1
    BY <1>4, <2>2
  <2> HIDE DEF d
  <2>4. 2 \in Bases
    BY DEF Bases
  <2>5. Number(e, 2) \in Nat /\ \A t \in 0 .. Len(e) - 1 : Digit(Number(e, 2), 2, t) = e[t + 1]
    BY <2>3, <2>4, DigitsOfNumber
  <2>6. ASSUME NEW t \in 0 .. 7 PROVE Digit(Number(e, 2), 2, t) = BitOf(values, 8 * (b - 1) + t)
    <3>1. t \in 0 .. Len(e) - 1 /\ t + 1 \in 1 .. 8 /\ 8 * (b - 1) + (t + 1) - 1 = 8 * (b - 1) + t
      BY <1>2, <2>3
    <3>2. QED
      BY <2>3, <2>5, <3>1
  <2>7. QED
    BY <2>1, <2>2, <2>5, <2>6
<1>6. bytes \in Seq(Nat) /\ Len(bytes) = n * width
  BY <1>2, <1>3, <1>5
<1>7. QED
  BY <1>5, <1>6 DEF bytes

LEMMA UnpackType ==
  ASSUME NEW bytes \in Seq(Nat), NEW w \in 1 .. 9
  PROVE  Unpack8(bytes, w) \in Seq(Nat) /\ Len(Unpack8(bytes, w)) = 8
<1>1. 2 \in Bases
  BY DEF Bases
<1>2. ASSUME NEW k \in Nat PROVE BufferBit(bytes, k) \in Nat
  <2>1. CASE k < 8 * Least(8, Len(bytes))
    <3>1. (k \div 8) + 1 \in 1 .. Len(bytes) /\ k % 8 \in Nat
      BY <2>1 DEF Least
    <3>2. bytes[(k \div 8) + 1] \in Nat
      BY <3>1
    <3>3. Digit(bytes[(k \div 8) + 1], 2, k % 8) \in Nat
      BY <1>1, <3>1, <3>2, DigitType
    <3>4. QED
      BY <2>1, <3>3 DEF BufferBit
  <2>2. CASE ~(k < 8 * Least(8, Len(bytes)))
    BY <2>2 DEF BufferBit
  <2>3. QED
    BY <2>1, <2>2
<1>3. ASSUME NEW i \in 1 .. 8
      PROVE  Number([j \in 1 .. w |-> BufferBit(bytes, (i - 1) * w + j - 1)], 2) \in Nat
  <2>1. ASSUME NEW j \in 1 .. w PROVE BufferBit(bytes, (i - 1) * w + j - 1) \in Nat
    <3>1. i - 1 \in Nat /\ j - 1 \in 0 .. w - 1
      OBVIOUS
    <3>2. (i - 1) * w \in Nat /\ (i - 1) * w + (j - 1) \in Nat
      BY <3>1, Positions
    <3>3. (i - 1) * w + j - 1 \in Nat
      BY <3>2
    <3>4. QED
      BY <1>2, <3>3
  <2>2. [j \in 1 .. w |-> BufferBit(bytes, (i - 1) * w + j - 1)] \in Seq(Nat)
    BY <2>1
  <2>3. QED
    BY <1>1, <2>2, NumberType
<1>4. QED
  BY <1>3 DEF Unpack8

LEMMA Unpacked ==
  ASSUME NEW values \in Seq(Nat), NEW n \in Nat, Len(values) = 8 * n, width \in 1 .. 8,
         \A i \in 1 .. Len(values) : Shift(values[i], 2, width) = 0,
         NEW stream \in Seq(Nat), NEW g \in 0 .. n - 1, width <= Len(stream),
         \A b \in 1 .. width : stream[b] = PackedBytes(values)[g * width + b]
  PROVE  \A i \in 1 .. 8 : Unpack8(stream, width)[i] = values[8 * g + i]
<1> DEFINE bytes == PackedBytes(values)
           bits(i) == [j \in 1 .. width |-> BufferBit(stream, (i - 1) * width + j - 1)]
<1>0. width \in 1 .. 9 /\ g \in Nat /\ 2 \in Bases /\ g * width \in Nat /\ n * width \in Nat /\ (g + 1) * width = g * width + width
  <2>1. width \in 1 .. 9 /\ 0 \in 0 .. width - 1 /\ g \in Nat
    OBVIOUS
  <2>2. g * width \in Nat /\ (g + 1) * width = g * width + width
    BY <2>1, Positions
  <2>3. n * width \in Nat
    BY <2>1, Positions
  <2>4. QED
    BY <2>1, <2>2, <2>3 DEF Bases
<1>1. \A b \in 1 .. n * width, t \in 0 .. 7 : Digit(bytes[b], 2, t) = BitOf(values, 8 * (b - 1) + t)
  BY <1>0, PackedIs
<1>2. \A b \in 1 .. width : g * width + b \in 1 .. n * width
  <2>1. g + 1 <= n
    OBVIOUS
  <2>2. (g + 1) * width <= n * width
    <3>1. PICK m \in Nat : n = (g + 1) + m
      BY <2>1
    <3>2. m * width \in Nat
      OBVIOUS
    <3>3. CASE width = 1
      BY <3>1, <3>3
    <3>4. CASE width = 2
      BY <3>1, <3>4
    <3>5. CASE width = 3
      BY <3>1, <3>5
    <3>6. CASE width = 4
      BY <3>1, <3>6
    <3>7. CASE width = 5
      BY <3>1, <3>7
    <3>8. CASE width = 6
      BY <3>1, <3>8
    <3>9. CASE width = 7
      BY <3>1, <3>9
    <3>10. CASE width = 8
      BY <3>1, <3>10
    <3>11. QED
      BY <3>3, <3>4, <3>5, <3>6, <3>7, <3>8, <3>9, <3>10
  <2>3. PICK x, y, z : x = g * width /\ y = n * width /\ z = (g + 1) * width
    OBVIOUS
  <2>4. x \in Nat /\ y \in Nat /\ z = x + width /\ z <= y /\ width \in Nat
    BY <1>0, <2>2, <2>3
  <2>5. \A b \in 1 .. width : x + b \in 1 .. y
    BY ONLY <2>4
  <2>6. QED
    BY <2>3, <2>5
<1> HIDE DEF bytes
<1>3. ASSUME NEW i \in 1 .. 8, NEW j \in 1 .. width
      PROVE  BufferBit(stream, (i - 1) * width + j - 1) = Digit(values[8 * g + i], 2, j - 1)
  <2> DEFINE k == (i - 1) * width + (j - 1)
  <2>0. j - 1 \in 0 .. width - 1 /\ 8 * g + (i - 1) \in Nat /\ (8 * g + (i - 1)) + 1 = 8 * g + i
    BY <1>0
  <2>1. /\ k \in 0 .. 8 * width - 1 /\ k \div 8 \in 0 .. width - 1 /\ k % 8 \in 0 .. 7
        /\ 8 * (g * width + (k \div 8)) + (k % 8) = (8 * g + (i - 1)) * width + (j - 1)
    BY <1>0, <2>0, BitPositions
  <2>2. (i - 1) * width + j - 1 = k
    <3>1. (i - 1) * width \in Nat
      <4>1. i - 1 \in Nat
        OBVIOUS
      <4>2. QED
        BY <1>0, <2>0, <4>1, Positions
    <3>2. QED
      BY <3>1
  <2> HIDE DEF k
  <2>3. k < 8 * Least(8, Len(stream))
    <3>1. k \in 0 .. 8 * width - 1
      BY <2>1
    <3>2. Len(stream) \in Nat /\ width \in 1 .. 8 /\ width <= Len(stream)
      OBVIOUS
    <3>3. QED
      BY ONLY <3>1, <3>2 DEF Least
  <2>4. PICK q : q = k \div 8
    OBVIOUS
  <2>5. q + 1 \in 1 .. width /\ stream[q + 1] = bytes[g * width + (q + 1)] /\ g * width + (q + 1) \in 1 .. n * width
        /\ g * width + (q + 1) - 1 = g * width + q
    <3>1. q + 1 \in 1 .. width
      BY <2>1, <2>4
    <3>2. PICK x : x = g * width
      OBVIOUS
    <3>3. x \in Nat /\ q \in 0 .. width - 1 /\ width \in Nat
      BY <1>0, <2>1, <2>4, <3>2
    <3>4. x + (q + 1) - 1 = x + q
      BY ONLY <3>3
    <3>5. stream[q + 1] = bytes[x + (q + 1)]
      BY <3>1, <3>2 DEF bytes
    <3>6. x + (q + 1) \in 1 .. n * width
      BY <1>2, <3>1, <3>2
    <3>7. QED
      BY <3>1, <3>2, <3>4, <3>5, <3>6
  <2>6. Digit(stream[q + 1], 2, k % 8) = BitOf(values, (8 * g + (i - 1)) * width + (j - 1))
    <3>1. PICK b, t : b = g * width + (q + 1) /\ t = k % 8
      OBVIOUS
    <3>2. b \in 1 .. n * width /\ t \in 0 .. 7
      BY <2>1, <2>5, <3>1
    <3>3. Digit(bytes[b], 2, t) = BitOf(values, 8 * (b - 1) + t)
      BY <1>1, <3>2
    <3>4. b - 1 = g * width + q
      BY <2>5, <3>1
    <3>5. Digit(stream[q + 1], 2, k % 8) = BitOf(values, 8 * (g * width + q) + (k % 8))
      BY <2>5, <3>1, <3>3, <3>4
    <3>6. QED
      BY <2>1, <2>4, <3>5
  <2>7. ((8 * g + (i - 1)) * width + (j - 1)) \div width = 8 * g + (i - 1) /\ ((8 * g + (i - 1)) * width + (j - 1)) % width = j - 1
    BY <1>0, <2>0, Positions
  <2>8. BitOf(values, (8 * g + (i - 1)) * width + (j - 1)) = Digit(values[8 * g + i], 2, j - 1)
    BY <2>0, <2>7 DEF BitOf
  <2>9. BufferBit(stream, k) = Digit(stream[q + 1], 2, k % 8)
    BY <2>3, <2>4 DEF BufferBit
  <2>10. QED
    BY <2>2, <2>6, <2>8, <2>9
<1>4. ASSUME NEW i \in 1 .. 8 PROVE Number(bits(i), 2) = values[8 * g + i]
  <2>1. PICK v, d : v = values[8 * g + i] /\ d = bits(i)
    OBVIOUS
  <2>2. 8 * g + i \in 1 .. Len(values)
    BY <1>0
  <2>3. v \in Nat /\ Shift(v, 2, width) = 0
    BY <2>1, <2>2
  <2>4. \A j \in 1 .. width : Digit(v, 2, j - 1) \in Nat
    <3>1. \A j \in 1 .. width : j - 1 \in Nat
      OBVIOUS
    <3>2. QED
      BY <1>0, <2>3, <3>1, DigitType
  <2>5. d = [j \in 1 .. width |-> Digit(v, 2, j - 1)]
    BY <1>3, <2>1
  <2>6. d \in Seq(Nat) /\ Len(d) = width /\ \A j \in 1 .. Len(d) : d[j] = Digit(v, 2, j - 1)
    BY <2>4, <2>5
  <2>7. Number(d, 2) = v
    BY <1>0, <2>3, <2>6, NumberOfDigits
  <2>8. QED
    BY <2>1, <2>7
<1>5. QED
  BY <1>4 DEF Unpack8

LEMMA Spans ==
  ASSUME NEW w \in 1 .. 9, NEW n \in Nat, NEW g \in 1 .. n
  PROVE  /\ (g - 1) * w \in Nat /\ g * w \in Nat /\ n * w \in Nat
         /\ (g - 1) * w + w = g * w /\ g * w <= n * w
<1>1. CASE w = 1
  BY <1>1
<1>2. CASE w = 2
  BY <1>2
<1>3. CASE w = 3
  BY <1>3
<1>4. CASE w = 4
  BY <1>4
<1>5. CASE w = 5
  BY <1>5
<1>6. CASE w = 6
  BY <1>6
<1>7. CASE w = 7
  BY <1>7
<1>8. CASE w = 8
  BY <1>8
<1>9. CASE w = 9
  BY <1>9
<1>10. w \in {1, 2, 3, 4, 5, 6, 7, 8, 9}
  OBVIOUS
<1>11. QED
  BY <1>1, <1>2, <1>3, <1>4, <1>5, <1>6, <1>7, <1>8, <1>9, <1>10

LEMMA RestOfRest ==
  ASSUME NEW S, NEW s \in Seq(S), NEW m \in 0 .. Len(s), NEW k \in 0 .. Len(s) - m
  PROVE  Rest(Rest(s, m), k) = Rest(s, m + k)
<1> DEFINE t == Rest(s, m)
           a == Rest(t, k)
           b == Rest(s, m + k)
<1>0. m \in Nat /\ k \in Nat /\ Len(s) \in Nat /\ m + k \in 0 .. Len(s)
  OBVIOUS
<1>1. t \in Seq(S) /\ Len(t) = Len(s) - m /\ \A i \in 1 .. Len(s) - m : t[i] = s[m + i]
  BY RestIs
<1>2. b \in Seq(S) /\ Len(b) = Len(s) - (m + k) /\ \A i \in 1 .. Len(s) - (m + k) : b[i] = s[(m + k) + i]
  BY <1>0, RestIs
<1> HIDE DEF t, b
<1>3. a \in Seq(S) /\ Len(a) = Len(t) - k /\ \A i \in 1 .. Len(t) - k : a[i] = t[k + i]
  BY SMTT(20), <1>1, RestIs
<1> HIDE DEF a
<1>4. Len(a) = Len(b)
  BY <1>0, <1>1, <1>2, <1>3
<1>5. ASSUME NEW i \in 1 .. Len(a) PROVE a[i] = b[i]
  <2>1. k + i \in 1 .. Len(s) - m /\ i \in 1 .. Len(s) - (m + k) /\ m + (k + i) = (m + k) + i /\ i \in 1 .. Len(t) - k
    BY <1>0, <1>1, <1>2, <1>3
  <2>2. QED
    BY <1>1, <1>2, <1>3, <2>1
<1>6. a = b
  BY <1>2, <1>3, <1>4, <1>5, Same
<1>7. QED
  BY <1>6 DEF a, b, t

\* What is decoded, and what follows, after g groups of these values.
GroupsRead(values, decoded, total, stream, g) ==
  {x \in Seq(Nat) \X Seq(Nat) :
     /\ Len(x[1]) = Least(total, Len(decoded) + 8 * g)
     /\ Len(x[1]) < total => x[2] = Rest(stream, g * width)
     /\ width <= 8 => \A i \in 1 .. Len(x[1]) : x[1][i] = (decoded \o values)[i]}

LEMMA NextGroupRead ==
  ASSUME NEW values \in Seq(Nat), NEW n \in Nat, Len(values) = 8 * n, width \in 1 .. 9,
         \A i \in 1 .. Len(values) : Shift(values[i], 2, width) = 0,
         NEW rest \in Seq(Nat), NEW decoded \in Seq(Nat), NEW total \in Nat,
         NEW g \in 1 .. n,
         NEW x \in GroupsRead(values, decoded, total, PackedBytes(values) \o rest, g - 1)
  PROVE  NextGroup(x, width, total) \in GroupsRead(values, decoded, total, PackedBytes(values) \o rest, g)
<1> DEFINE bytes == PackedBytes(values)
           stream == bytes \o rest
           all == decoded \o values
           L == Len(decoded)
<1>0. L \in Nat /\ g - 1 \in Nat /\ g \in Nat /\ Len(values) \in Nat
  OBVIOUS
<1>1. /\ x \in Seq(Nat) \X Seq(Nat) /\ Len(x[1]) = Least(total, L + 8 * (g - 1))
      /\ Len(x[1]) < total => x[2] = Rest(stream, (g - 1) * width)
      /\ width <= 8 => \A i \in 1 .. Len(x[1]) : x[1][i] = all[i]
  BY DEF GroupsRead
<1>2. bytes \in Seq(Nat) /\ Len(bytes) = n * width
  BY PackedIs
<1>3. /\ stream \in Seq(Nat) /\ Len(stream) = Len(bytes) + Len(rest) /\ Len(rest) \in Nat
      /\ \A i \in 1 .. Len(bytes) : stream[i] = bytes[i]
  <2> HIDE DEF bytes
  <2>1. QED
    BY <1>2, Catenated
<1>4. /\ \A i \in 1 .. Len(values) : all[L + i] = values[i]
  BY Catenated
<1>5. /\ (g - 1) * width \in Nat /\ g * width \in Nat /\ n * width \in Nat
      /\ (g - 1) * width + width = g * width /\ g * width <= n * width
  BY Spans
<1> HIDE DEF bytes, stream, all, L
<1>6. CASE Len(x[1]) >= total
  <2>1. NextGroup(x, width, total) = x
    BY <1>6 DEF NextGroup
  <2>2. Len(x[1]) = total /\ Least(total, L + 8 * g) = total
    <3>1. Len(x[1]) \in Nat
      BY <1>1
    <3>2. QED
      BY ONLY SMTT(20), <1>0, <1>1, <1>6, <3>1, total \in Nat DEF Least
  <2>3. ~(Len(x[1]) < total)
    BY <2>2
  <2>4. x \in GroupsRead(values, decoded, total, stream, g)
    BY <1>1, <2>2, <2>3 DEF GroupsRead, L, all
  <2>5. QED
    BY <2>1, <2>4 DEF GroupsRead, L, all, stream, bytes
<1>7. CASE ~(Len(x[1]) >= total)
  <2> DEFINE e == x[1]
             s == x[2]
             u == Unpack8(s, width)
             k == Least(8, total - Len(e))
             v == SubSeq(u, 1, k)
             y == <<e \o v, Rest(s, width)>>
  <2>1. NextGroup(x, width, total) = y
    BY <1>7 DEF NextGroup
  <2>2. e \in Seq(Nat) /\ s \in Seq(Nat) /\ Len(e) \in Nat
    BY <1>1
  <2>3. Len(e) < total /\ Len(e) = L + 8 * (g - 1) /\ s = Rest(stream, (g - 1) * width)
    <3>1. Len(e) < total
      BY <1>7, <2>2
    <3>2. QED
      BY <1>0, <1>1, <3>1 DEF Least
  <2>4. PICK p, q : p = (g - 1) * width /\ q = g * width
    OBVIOUS
  <2>5. p \in Nat /\ q \in Nat /\ p + width = q /\ q <= Len(bytes) /\ Len(bytes) \in Nat /\ width \in Nat
    BY <1>2, <1>5, <2>4
  <2>6. p \in 0 .. Len(stream) /\ width \in 0 .. Len(stream) - p /\ Len(stream) - p >= width
    BY ONLY <1>3, <2>5
  <2>7. s = Rest(stream, p)
    BY <2>3, <2>4
  <2>8. Len(s) = Len(stream) - p /\ \A b \in 1 .. Len(stream) - p : s[b] = stream[p + b]
    <3>1. Len(Rest(stream, p)) = Len(stream) - p /\ \A b \in 1 .. Len(stream) - p : Rest(stream, p)[b] = stream[p + b]
      BY ONLY <1>3, <2>6, RestIs
    <3>2. QED
      BY <2>7, <3>1
  <2>9. \A b \in 1 .. width : s[b] = bytes[p + b]
    <3>1. \A b \in 1 .. width : b \in 1 .. Len(stream) - p /\ p + b \in 1 .. Len(bytes)
      BY ONLY <1>3, <2>5, <2>6
    <3>2. QED
      BY <1>3, <2>8, <3>1
  <2>10. Rest(s, width) = Rest(stream, q)
    BY <1>3, <2>5, <2>6, <2>7, RestOfRest
  <2>11. u \in Seq(Nat) /\ Len(u) = 8
    BY <2>2, UnpackType
  <2>12. width <= 8 => \A i \in 1 .. 8 : u[i] = values[8 * (g - 1) + i]
    <3>1. SUFFICES ASSUME width <= 8 PROVE \A i \in 1 .. 8 : u[i] = values[8 * (g - 1) + i]
      OBVIOUS
    <3>2. width \in 1 .. 8 /\ g - 1 \in 0 .. n - 1 /\ width <= Len(s)
      BY <2>6, <2>8, <3>1
    <3>3. \A b \in 1 .. width : s[b] = PackedBytes(values)[(g - 1) * width + b]
      BY <2>4, <2>9 DEF bytes
    <3> HIDE DEF s
    <3>4. QED
      BY ZenonT(40), <2>2, <3>2, <3>3, Unpacked
  <2>13. k \in 0 .. 8 /\ Len(e) + k = Least(total, L + 8 * g)
    BY <1>0, <2>2, <2>3 DEF Least
  <2> HIDE DEF e, s, u, k
  <2>14. v \in Seq(Nat) /\ Len(v) = k /\ \A i \in 1 .. k : v[i] = u[i]
    <3>1. PICK a \in Seq(Nat), m \in 0 .. 8 : a = u /\ m = k /\ Len(a) = 8
      BY <2>11, <2>13
    <3>2. SubSeq(a, 1, m) \in Seq(Nat) /\ Len(SubSeq(a, 1, m)) = m /\ \A i \in 1 .. m : SubSeq(a, 1, m)[i] = a[i]
      <4>1. m \in 0 .. Len(a)
        BY <3>1
      <4>2. QED
        BY ONLY <4>1, Prefix
    <3>3. QED
      BY <3>1, <3>2
  <2> HIDE DEF v
  <2>15. /\ e \o v \in Seq(Nat) /\ Len(e \o v) = Len(e) + k
         /\ \A i \in 1 .. Len(e) : (e \o v)[i] = e[i]
         /\ \A i \in 1 .. k : (e \o v)[Len(e) + i] = v[i]
    <3>1. PICK a \in Seq(Nat), b \in Seq(Nat) : a = e /\ b = v
      BY <2>2, <2>14
    <3>2. /\ a \o b \in Seq(Nat) /\ Len(a \o b) = Len(a) + Len(b)
          /\ \A i \in 1 .. Len(a) : (a \o b)[i] = a[i]
          /\ \A i \in 1 .. Len(b) : (a \o b)[Len(a) + i] = b[i]
      BY Catenated
    <3>3. QED
      BY <2>14, <3>1, <3>2
  <2>16. width <= 8 => \A i \in 1 .. Len(e) + k : (e \o v)[i] = all[i]
    <3>1. SUFFICES ASSUME width <= 8, NEW i \in 1 .. Len(e) + k PROVE (e \o v)[i] = all[i]
      OBVIOUS
    <3>2. CASE i \in 1 .. Len(e)
      BY <1>1, <2>15, <3>1, <3>2 DEF e
    <3>3. CASE i \notin 1 .. Len(e)
      <4>1. PICK j : j = i - Len(e)
        OBVIOUS
      <4>2. j \in 1 .. k /\ j \in 1 .. 8 /\ i = Len(e) + j /\ i = L + (8 * (g - 1) + j) /\ 8 * (g - 1) + j \in 1 .. Len(values)
        BY <1>0, <2>2, <2>3, <2>13, <3>3, <4>1
      <4>3. (e \o v)[i] = u[j]
        BY <2>14, <2>15, <4>2
      <4>4. QED
        BY <1>4, <2>12, <3>1, <4>2, <4>3
    <3>4. QED
      BY <3>2, <3>3
  <2>17. Rest(s, width) \in Seq(Nat)
    BY <2>2, <2>5, <2>6, <2>8, RestIs
  <2>18. y \in Seq(Nat) \X Seq(Nat) /\ y[1] = e \o v /\ y[2] = Rest(stream, g * width)
    BY <2>4, <2>10, <2>15, <2>17
  <2> HIDE DEF y
  <2>19. QED
    BY <2>1, <2>13, <2>15, <2>16, <2>18 DEF GroupsRead, L, all, stream, bytes
<1>8. QED
  BY <1>6, <1>7

LEMMA PackedRunIs ==
  ASSUME NEW values \in Seq(Nat), NEW n \in Nat, Len(values) = 8 * n, width \in 1 .. 9,
         \A i \in 1 .. Len(values) : Shift(values[i], 2, width) = 0,
         NEW rest \in Seq(Nat), NEW decoded \in Seq(Nat), NEW total \in Nat, Len(decoded) <= total
  PROVE  PackedRun(n, PackedBytes(values) \o rest, width, decoded, total)
           \in GroupsRead(values, decoded, total, PackedBytes(values) \o rest, n)
<1> DEFINE stream == PackedBytes(values) \o rest
           good == [g \in 0 .. n |-> GroupsRead(values, decoded, total, stream, g)]
           turn == [g \in 1 .. n |-> [x \in good[g - 1] |-> NextGroup(x, width, total)]]
           start == <<decoded, stream>>
           IsRead(c) == c = [g \in 0 .. n |-> IF g = 0 THEN <<decoded, stream>> ELSE NextGroup(c[g - 1], width, total)]
<1>1. start \in good[0]
  <2>1. PackedBytes(values) \in Seq(Nat)
    BY PackedIs
  <2>2. stream \in Seq(Nat) /\ Len(stream) \in Nat
    <3>1. PICK b \in Seq(Nat) : b = PackedBytes(values)
      BY <2>1
    <3>2. b \o rest \in Seq(Nat)
      BY Catenated
    <3>3. QED
      BY <3>1, <3>2
  <2> HIDE DEF stream
  <2>3. Rest(stream, 0 * width) = stream
    <3>1. 0 * width = 0 /\ 0 \in 0 .. Len(stream)
      BY <2>2
    <3>2. SubSeq(stream, 1, 0) \o Rest(stream, 0) = stream
      BY <2>2, <3>1, Together
    <3>3. SubSeq(stream, 1, 0) = <<>> /\ Rest(stream, 0) \in Seq(Nat)
      <4>1. SubSeq(stream, 1, 0) \in Seq(Nat) /\ Len(SubSeq(stream, 1, 0)) = 0
        BY <2>2, <3>1, Prefix
      <4>2. Rest(stream, 0) \in Seq(Nat)
        BY <2>2, <3>1, RestIs
      <4>3. QED
        BY <4>1, <4>2, EmptySeq
    <3>4. QED
      BY <3>1, <3>2, <3>3, Nothing0
  <2>4. Least(total, Len(decoded) + 8 * 0) = Len(decoded)
    BY DEF Least
  <2>5. \A i \in 1 .. Len(decoded) : decoded[i] = (decoded \o values)[i]
    BY Catenated
  <2>6. start \in Seq(Nat) \X Seq(Nat) /\ start[1] = decoded /\ start[2] = stream
    BY <2>2
  <2> HIDE DEF start
  <2>7. start \in GroupsRead(values, decoded, total, stream, 0)
    BY <2>3, <2>4, <2>5, <2>6 DEF GroupsRead
  <2>8. QED
    BY <2>7
<1>2. ASSUME NEW g \in 1 .. n, NEW x \in good[g - 1]
      PROVE  turn[g][x] = NextGroup(x, width, total) /\ turn[g][x] \in good[g]
  <2>1. g - 1 \in 0 .. n /\ g \in 0 .. n
    OBVIOUS
  <2>2. x \in GroupsRead(values, decoded, total, stream, g - 1)
    BY <2>1
  <2>3. NextGroup(x, width, total) \in GroupsRead(values, decoded, total, stream, g)
    BY <2>2, NextGroupRead
  <2>4. QED
    BY <2>1, <2>3
<1>3. PackedRun(n, stream, width, decoded, total) = (CHOOSE c : IsRead(c))[n]
  BY DEF PackedRun
<1>4. good[n] = GroupsRead(values, decoded, total, stream, n)
  OBVIOUS
<1> HIDE DEF good, turn, stream, start
<1>5. Leads(n, good, turn)
  BY <1>2 DEF Leads
<1>6. PICK h : Loop(n, start, good, turn, h)
  BY <1>1, <1>5, LoopExists
<1>7. \A i \in 0 .. n : i # 0 => i \in 1 .. n /\ i - 1 \in 0 .. n
  OBVIOUS
<1>8. \A i \in 0 .. n : h[i] = IF i = 0 THEN <<decoded, stream>> ELSE NextGroup(h[i - 1], width, total)
  BY <1>2, <1>6, <1>7 DEF start, Loop
<1>9. IsRead(h)
  BY <1>6, <1>8 DEF Loop
<1>10. PICK c : IsRead(c) /\ PackedRun(n, stream, width, decoded, total) = c[n]
  <2> HIDE DEF IsRead
  <2>1. QED
    BY <1>3, <1>9
<1>11. c[0] = start /\ \A i \in 1 .. n : c[i] = NextGroup(c[i - 1], width, total)
  <2>1. \A i \in 1 .. n : i \in 0 .. n /\ i # 0
    OBVIOUS
  <2>2. QED
    <3>1. \A g \in 0 .. n : c[g] = IF g = 0 THEN <<decoded, stream>> ELSE NextGroup(c[g - 1], width, total)
      BY <1>10
    <3>2. c[0] = <<decoded, stream>>
      BY <3>1
    <3>3. QED
      BY <2>1, <3>1, <3>2 DEF start
<1>12. \A i \in 1 .. n : c[i - 1] \in good[i - 1] => c[i] = turn[i][c[i - 1]]
  BY <1>2, <1>11
<1> HIDE DEF IsRead
<1>13. \A i \in 0 .. n : c[i] \in good[i]
  BY <1>1, <1>5, <1>11, <1>12, LoopLeads
<1>14. n \in 0 .. n
  OBVIOUS
<1>15. QED
  BY <1>4, <1>10, <1>13, <1>14 DEF stream

--------------------------------------------------------------------------------
(* Runs. *)

LEMMA HeaderRead ==
  ASSUME NEW n \in Nat, TwoBytes(n), NEW rest \in Seq(Nat)
  PROVE  /\ HeaderBytes(n) \in Seq(Nat) /\ Len(HeaderBytes(n)) \in 1 .. 2
         /\ Header(HeaderBytes(n) \o rest) = <<n, rest>>
<1>1. CASE n < 128
  <2>1. HeaderBytes(n) = <<n>> /\ n \in Nat /\ n < 128
    BY <1>1 DEF HeaderBytes
  <2>2. PICK low \in Nat : low = n /\ low < 128
    BY <2>1
  <2>3. LET s == <<low>> \o rest IN Number(Groups(s), 128) = low /\ Rest(s, VarSize(s)) = rest
    BY <2>2, OneByteRead
  <2>4. QED
    BY <2>1, <2>2, <2>3 DEF Header
<1>2. CASE ~(n < 128)
  <2>1. PICK low \in Nat, high \in Nat : low = n % 128 /\ high = n \div 128 /\ low < 128 /\ high < 128
    BY DEF TwoBytes
  <2>2. low < 128 /\ high < 128 /\ low + 128 * high = n /\ low \in Nat /\ high \in Nat
    BY <2>1
  <2>3. HeaderBytes(n) = <<low + 128, high>>
    BY <1>2, <2>1 DEF HeaderBytes
  <2>4. LET s == <<low + 128, high>> \o rest IN Number(Groups(s), 128) = low + 128 * high /\ Rest(s, VarSize(s)) = rest
    BY <2>2, TwoBytesRead
  <2>5. <<low + 128, high>> \in Seq(Nat) /\ Len(<<low + 128, high>>) = 2
    BY <2>2
  <2>6. QED
    BY <2>2, <2>3, <2>4, <2>5 DEF Header
<1>3. QED
  BY <1>1, <1>2

\* A value of at most eight bits is a byte.
LEMMA Fits ==
  ASSUME NEW v \in Nat, NEW w \in 1 .. 8, Shift(v, 2, w) = 0
  PROVE  v < 256
<1> DEFINE s(k) == Shift(v, 2, k)
<1>1. 2 \in Bases
  BY DEF Bases
<1>2. s(0) = v
  BY <1>1, ShiftIs
<1>3. \A k \in Nat \ {0} : s(k) = s(k - 1) \div 2
  BY <1>1, ShiftIs
<1>4. \A k \in Nat : s(k) \in Nat
  BY <1>1, ShiftIs
<1>5. s(w) = 0
  OBVIOUS
<1> HIDE DEF s
<1>6. /\ s(1) = v \div 2 /\ s(2) = s(1) \div 2 /\ s(3) = s(2) \div 2 /\ s(4) = s(3) \div 2
      /\ s(5) = s(4) \div 2 /\ s(6) = s(5) \div 2 /\ s(7) = s(6) \div 2 /\ s(8) = s(7) \div 2
  <2>1. ASSUME NEW k \in 1 .. 8, NEW j, j = k - 1 PROVE s(k) = s(j) \div 2
    BY <1>3, <2>1
  <2>2. QED
    BY <1>2, <2>1
<1>7. s(1) \in Nat /\ s(2) \in Nat /\ s(3) \in Nat /\ s(4) \in Nat /\ s(5) \in Nat /\ s(6) \in Nat /\ s(7) \in Nat /\ s(8) \in Nat
  BY <1>4
<1>8. s(8) = 0
  <2>1. w \in {1, 2, 3, 4, 5, 6, 7, 8}
    OBVIOUS
  <2>2. s(1) = 0 \/ s(2) = 0 \/ s(3) = 0 \/ s(4) = 0 \/ s(5) = 0 \/ s(6) = 0 \/ s(7) = 0 \/ s(8) = 0
    BY <1>5, <2>1
  <2>3. QED
    BY ONLY <1>6, <1>7, <2>2
<1>9. QED
  BY <1>6, <1>7, <1>8

\* What is decoded, and what follows, after these values.
ValuesRead(values, decoded, total, rest) ==
  {x \in Seq(Nat) \X Seq(Nat) :
     /\ Len(x[1]) = Least(total, Len(decoded) + Len(values))
     /\ Len(x[1]) < total => x[2] = rest
     /\ width <= 8 => \A i \in 1 .. Len(x[1]) : x[1][i] = (decoded \o values)[i]}

\* The room that is left.
LEMMA Room ==
  ASSUME NEW total \in Nat, NEW had \in Nat, NEW n \in Nat, had < total, n >= 1
  PROVE  Least(n, total - had) \in 1 .. n /\ had + Least(n, total - had) = Least(total, had + n)
BY DEF Least

\* The bytes of a value, and the value of those bytes.
LEMMA BytesOfValue ==
  ASSUME NEW v \in Nat, width \in 1 .. 9
  PROVE  LET bytes == [i \in 1 .. (width + 7) \div 8 |-> Digit(v, 256, i - 1)]
         IN  /\ bytes \in Seq(Nat) /\ Len(bytes) = ValueBytes(width) /\ ValueBytes(width) \in 1 .. 2
             /\ Number(bytes, 256) \in Nat
             /\ width <= 8 /\ Shift(v, 2, width) = 0 => Number(bytes, 256) = v
<1> DEFINE m == (width + 7) \div 8
           bytes == [i \in 1 .. m |-> Digit(v, 256, i - 1)]
<1>0. m \in 1 .. 2 /\ 256 \in Bases /\ (width <= 8 => m = 1)
  BY DEF Bases
<1> HIDE DEF m
<1>1. bytes \in Seq(Nat) /\ Len(bytes) = m /\ \A i \in 1 .. m : bytes[i] = Digit(v, 256, i - 1)
  <2>1. \A i \in 1 .. m : Digit(v, 256, i - 1) \in Nat
    <3>1. \A i \in 1 .. m : i - 1 \in Nat
      OBVIOUS
    <3>2. QED
      BY <1>0, <3>1, DigitType
  <2>2. QED
    BY <1>0, <2>1
<1> HIDE DEF bytes
<1>2. Number(bytes, 256) \in Nat
  BY <1>0, <1>1, NumberType
<1>3. ASSUME width <= 8, Shift(v, 2, width) = 0 PROVE Number(bytes, 256) = v
  <2>1. width \in 1 .. 8
    BY <1>3
  <2>2. v < 256
    BY <1>3, <2>1, Fits
  <2>3. Len(bytes) = 1 /\ bytes[1] = Digit(v, 256, 0)
    <3>1. 1 \in 1 .. m /\ 1 - 1 = 0
      BY <1>0
    <3>2. QED
      BY <1>0, <1>1, <1>3, <3>1
  <2>4. Number(bytes, 256) = bytes[1]
    BY <1>0, <1>1, <2>3, OneDigit
  <2>5. Digit(v, 256, 0) = v % 256
    BY <1>0, ShiftIs DEF Digit
  <2>6. v % 256 = v
    BY <2>2
  <2>7. QED
    BY <2>3, <2>4, <2>5, <2>6
<1>4. m = ValueBytes(width)
  BY DEF m, ValueBytes
<1>5. QED
  BY <1>0, <1>1, <1>2, <1>3, <1>4 DEF bytes, m

\* What is decoded so far, and copies of a value.
LEMMA Copied ==
  ASSUME NEW decoded \in Seq(Nat), NEW value \in Nat, NEW k \in Nat
  PROVE  LET e == decoded \o [c \in 1 .. k |-> value]
         IN  /\ e \in Seq(Nat) /\ Len(e) = Len(decoded) + k
             /\ \A i \in 1 .. Len(decoded) : e[i] = decoded[i]
             /\ \A i \in 1 .. k : e[Len(decoded) + i] = value
<1>0. [c \in 1 .. k |-> value] \in Seq(Nat)
  OBVIOUS
<1>1. PICK b \in Seq(Nat) : b = [c \in 1 .. k |-> value]
  BY <1>0
<1>1a. Len(b) = k /\ \A c \in 1 .. k : b[c] = value
  BY <1>1
<1>2. /\ decoded \o b \in Seq(Nat) /\ Len(decoded \o b) = Len(decoded) + Len(b)
      /\ \A i \in 1 .. Len(decoded) : (decoded \o b)[i] = decoded[i]
      /\ \A i \in 1 .. Len(b) : (decoded \o b)[Len(decoded) + i] = b[i]
  BY Catenated
<1>3. QED
  BY <1>1, <1>1a, <1>2

LEMMA CopiesAre ==
  ASSUME NEW values \in Seq(Nat), NEW value \in Nat, NEW decoded \in Seq(Nat), NEW k \in 1 .. Len(values),
         width <= 8 => \A i \in 1 .. Len(values) : values[i] = value
  PROVE  LET e == decoded \o [c \in 1 .. k |-> value]
         IN  /\ e \in Seq(Nat) /\ Len(e) = Len(decoded) + k
             /\ width <= 8 => \A i \in 1 .. Len(e) : e[i] = (decoded \o values)[i]
<1> DEFINE e == decoded \o [c \in 1 .. k |-> value]
<1>1. k \in Nat /\ Len(decoded) \in Nat /\ \A j \in 1 .. k : j \in 1 .. Len(values)
  OBVIOUS
<1>2. PICK n : n = Len(decoded)
  OBVIOUS
<1>3. /\ e \in Seq(Nat) /\ Len(e) = n + k
      /\ \A i \in 1 .. n : e[i] = decoded[i]
      /\ \A i \in 1 .. k : e[n + i] = value
  BY <1>1, <1>2, Copied
<1> HIDE DEF e
<1>4. /\ \A i \in 1 .. n : (decoded \o values)[i] = decoded[i]
      /\ \A i \in 1 .. Len(values) : (decoded \o values)[n + i] = values[i]
  BY <1>2, Catenated
<1>5. ASSUME width <= 8, NEW i \in 1 .. n + k PROVE e[i] = (decoded \o values)[i]
  <2>1. CASE i \in 1 .. n
    BY ONLY <1>3, <1>4, <2>1
  <2>2. CASE i \notin 1 .. n
    <3>1. PICK j : j = i - n
      OBVIOUS
    <3>2. j \in 1 .. k /\ i = n + j
      BY ONLY <1>1, <1>2, <2>2, <3>1, i \in 1 .. n + k
    <3>3. values[j] = value
      BY <1>1, <1>5, <3>2
    <3>4. QED
      BY ONLY <1>1, <1>3, <1>4, <3>2, <3>3
  <2>3. QED
    BY <2>1, <2>2
<1>6. QED
  BY <1>2, <1>3, <1>5 DEF e

LEMMA CopiesRead ==
  ASSUME NEW values \in Seq(Nat), Len(values) >= 1, NEW value \in Nat,
         width <= 8 => \A i \in 1 .. Len(values) : values[i] = value,
         NEW rest \in Seq(Nat), NEW decoded \in Seq(Nat), NEW total \in Nat, Len(decoded) < total
  PROVE  <<decoded \o [c \in 1 .. Least(Len(values), total - Len(decoded)) |-> value], rest>>
           \in ValuesRead(values, decoded, total, rest)
<1>1. PICK k : k = Least(Len(values), total - Len(decoded))
  OBVIOUS
<1>2. k \in 1 .. Len(values) /\ Len(decoded) + k = Least(total, Len(decoded) + Len(values))
  <2>1. Len(values) \in Nat /\ Len(decoded) \in Nat
    OBVIOUS
  <2>2. QED
    BY <1>1, <2>1, Room
<1>3. PICK e : e = decoded \o [c \in 1 .. k |-> value]
  OBVIOUS
<1>4. /\ e \in Seq(Nat) /\ Len(e) = Len(decoded) + k
      /\ width <= 8 => \A i \in 1 .. Len(e) : e[i] = (decoded \o values)[i]
  BY <1>2, <1>3, CopiesAre
<1> DEFINE x == <<e, rest>>
<1>5. x \in Seq(Nat) \X Seq(Nat) /\ x[1] = e /\ x[2] = rest
  BY <1>4
<1> HIDE DEF x
<1>6. x \in ValuesRead(values, decoded, total, rest)
  BY <1>2, <1>4, <1>5 DEF ValuesRead
<1>7. QED
  BY <1>1, <1>3, <1>6 DEF x

LEMMA RepeatedRunIs ==
  ASSUME NEW values \in Seq(Nat), Len(values) >= 1, width \in 1 .. 9,
         \A i \in 1 .. Len(values) : Shift(values[i], 2, width) = 0 /\ values[i] = values[1],
         NEW rest \in Seq(Nat), NEW decoded \in Seq(Nat), NEW total \in Nat, Len(decoded) < total,
         NEW bytes \in Seq(Nat), bytes = [i \in 1 .. (width + 7) \div 8 |-> Digit(values[1], 256, i - 1)]
  PROVE  RepeatedRun(Len(values), bytes \o rest, width, decoded, total) \in ValuesRead(values, decoded, total, rest)
<1>1. PICK v : v = values[1] /\ v \in Nat /\ Shift(v, 2, width) = 0
  <2>1. 1 \in 1 .. Len(values)
    OBVIOUS
  <2>2. values[1] \in Nat
    BY <2>1
  <2>3. QED
    BY <2>1, <2>2
<1>2. /\ Len(bytes) = ValueBytes(width) /\ ValueBytes(width) \in 1 .. 2
      /\ Number(bytes, 256) \in Nat
      /\ width <= 8 => Number(bytes, 256) = v
  BY <1>1, BytesOfValue
<1>3. PICK value, m : value = Number(bytes, 256) /\ m = Len(bytes)
  OBVIOUS
<1>4. SubSeq(bytes \o rest, 1, m) = bytes /\ Rest(bytes \o rest, m) = rest
  BY <1>3, Parts
<1>5. Len(bytes \o rest) = m + Len(rest) /\ Len(rest) \in Nat
  BY <1>3, Catenated
<1>6. Least(ValueBytes(width), Len(bytes \o rest)) = m
  BY ONLY <1>2, <1>3, <1>5 DEF Least
<1>7. RepeatedRun(Len(values), bytes \o rest, width, decoded, total) =
        <<decoded \o [c \in 1 .. Least(Len(values), total - Len(decoded)) |-> value], rest>>
  BY ONLY <1>3, <1>4, <1>6 DEF RepeatedRun
<1>8. width <= 8 => \A i \in 1 .. Len(values) : values[i] = value
  BY <1>1, <1>2, <1>3
<1>9. value \in Nat
  BY <1>2, <1>3
<1>10. <<decoded \o [c \in 1 .. Least(Len(values), total - Len(decoded)) |-> value], rest>>
         \in ValuesRead(values, decoded, total, rest)
  BY <1>8, <1>9, CopiesRead
<1>11. QED
  BY ONLY <1>7, <1>10

LEMMA GroupedBytes ==
  ASSUME NEW a \in Seq(Nat), NEW b \in Seq(Nat), NEW c \in Seq(Nat)
  PROVE  (a \o b) \o c = a \o (b \o c) /\ b \o c \in Seq(Nat)
BY Grouped, Catenated

LEMMA AtLeastOne == ASSUME NEW a, NEW b \in Nat, NEW c, a \in 1 .. 2, c = a + b PROVE c >= 1 /\ c # 0
OBVIOUS

LEMMA Longer ==
  ASSUME NEW head \in Seq(Nat), NEW t \in Seq(Nat), Len(head) \in 1 .. 2
  PROVE  head \o t \in Seq(Nat) /\ Len(head \o t) >= 1 /\ head \o t # <<>>
<1>1. PICK c : c = Len(head \o t)
  OBVIOUS
<1>2. c = Len(head) + Len(t) /\ Len(t) \in Nat
  BY <1>1, Catenated
<1>3. c >= 1 /\ c # 0
  BY <1>2, AtLeastOne
<1>4. head \o t # <<>>
  BY <1>1, <1>3
<1>5. head \o t \in Seq(Nat)
  BY Catenated
<1>6. QED
  BY ONLY <1>1, <1>3, <1>4, <1>5

\* A header and what it announces.
LEMMA HeadedRun ==
  ASSUME NEW n \in Nat, TwoBytes(n), NEW t \in Seq(Nat), NEW w, NEW decoded, NEW total, ~(Len(decoded) >= total)
  PROVE  NextRun(<<decoded, HeaderBytes(n) \o t>>, w, total) =
           IF n % 2 = 0 THEN RepeatedRun(n \div 2, t, w, decoded, total)
           ELSE PackedRun(n \div 2, t, w, decoded, total)
<1>1. PICK head \in Seq(Nat) : head = HeaderBytes(n)
  BY HeaderRead
<1>2. Header(head \o t) = <<n, t>>
  BY <1>1, HeaderRead
<1>3. head \o t # <<>>
  <2>1. Len(head) \in 1 .. 2
    BY <1>1, HeaderRead
  <2>2. QED
    BY <2>1, Longer
<1> DEFINE x == <<decoded, head \o t>>
<1>4. x[1] = decoded /\ x[2] = head \o t
  OBVIOUS
<1> HIDE DEF x
<1>5. Header(x[2])[1] = n /\ Header(x[2])[2] = t
  BY ONLY <1>2, <1>4
<1>6. NextRun(x, w, total) = IF n % 2 = 0 THEN RepeatedRun(n \div 2, t, w, decoded, total)
                             ELSE PackedRun(n \div 2, t, w, decoded, total)
  BY <1>3, <1>4, <1>5 DEF NextRun
<1>7. QED
  BY <1>1, <1>6 DEF x

LEMMA HeadedRuns ==
  ASSUME NEW n \in Nat, TwoBytes(n)
  PROVE  \A t \in Seq(Nat) : \A w, decoded, total :
           ~(Len(decoded) >= total) =>
             NextRun(<<decoded, HeaderBytes(n) \o t>>, w, total) =
               IF n % 2 = 0 THEN RepeatedRun(n \div 2, t, w, decoded, total)
               ELSE PackedRun(n \div 2, t, w, decoded, total)
BY Zenon, HeadedRun

\* The bytes of a run are a header and a body.
Body(values, packed) ==
  IF packed THEN PackedBytes(values) ELSE [i \in 1 .. (width + 7) \div 8 |-> Digit(values[1], 256, i - 1)]
HeaderOf(values, packed) == IF packed THEN 2 * (Len(values) \div 8) + 1 ELSE 2 * Len(values)

LEMMA RunType ==
  ASSUME NEW run, IsRun(run)
  PROVE  /\ run.values \in Seq(Nat) /\ Len(run.values) >= 1 /\ TwoBytes(2 * Len(run.values))
         /\ \A i \in 1 .. Len(run.values) : Shift(run.values[i], 2, width) = 0
         /\ run.packed => Len(run.values) % 8 = 0
         /\ ~run.packed => \A i \in 1 .. Len(run.values) : run.values[i] = run.values[1]
         /\ RunBytes(run) = HeaderBytes(HeaderOf(run.values, run.packed)) \o Body(run.values, run.packed)
<1>1. /\ run.values \in Seq(Nat) /\ run.values # <<>> /\ TwoBytes(2 * Len(run.values))
      /\ \A i \in DOMAIN run.values : Shift(run.values[i], 2, width) = 0
  BY Zenon DEF IsRun
<1>2. /\ run.packed => Len(run.values) % 8 = 0
      /\ run.packed \/ \A i \in DOMAIN run.values : run.values[i] = run.values[1]
  BY Zenon DEF IsRun
<1>3. DOMAIN run.values = 1 .. Len(run.values) /\ Len(run.values) >= 1
  BY ONLY <1>1
<1>4. \A i \in 1 .. Len(run.values) : Shift(run.values[i], 2, width) = 0
  BY ONLY <1>1, <1>3
<1>5. run.packed => Len(run.values) % 8 = 0
  BY Zenon, <1>2
<1>6. ASSUME ~run.packed PROVE \A i \in 1 .. Len(run.values) : run.values[i] = run.values[1]
  <2>1. \A i \in DOMAIN run.values : run.values[i] = run.values[1]
    BY Zenon, <1>2, <1>6
  <2>2. QED
    BY ONLY <1>3, <2>1
<1>7. RunBytes(run) = HeaderBytes(HeaderOf(run.values, run.packed)) \o Body(run.values, run.packed)
  <2>1. CASE run.packed
    BY Zenon, <2>1 DEF RunBytes, HeaderOf, Body
  <2>2. CASE ~run.packed
    BY Zenon, <2>2 DEF RunBytes, HeaderOf, Body
  <2>3. QED
    BY Zenon, <2>1, <2>2
<1>8. QED
  BY Zenon, <1>1, <1>3, <1>4, <1>5, <1>6, <1>7

LEMMA RunIs ==
  ASSUME NEW run, IsRun(run), width \in 1 .. 9
  PROVE  /\ RunBytes(run) \in Seq(Nat) /\ Len(RunBytes(run)) >= 1
         /\ \A rest \in Seq(Nat), decoded \in Seq(Nat), total \in Nat :
              Len(decoded) < total =>
                NextRun(<<decoded, RunBytes(run) \o rest>>, width, total) \in ValuesRead(run.values, decoded, total, rest)
<1>1. PICK values \in Seq(Nat) : values = run.values
  BY Zenon, RunType
<1>2. PICK packed : packed = run.packed
  OBVIOUS
<1>3. Len(values) >= 1 /\ TwoBytes(2 * Len(values)) /\ \A i \in 1 .. Len(values) : Shift(values[i], 2, width) = 0
  BY Zenon, <1>1, RunType
<1>4. /\ packed => Len(values) % 8 = 0
      /\ ~packed => \A i \in 1 .. Len(values) : values[i] = values[1]
      /\ RunBytes(run) = HeaderBytes(HeaderOf(values, packed)) \o Body(values, packed)
  BY Zenon, <1>1, <1>2, RunType
<1>5. PICK body, n : body = Body(values, packed) /\ n = HeaderOf(values, packed)
  OBVIOUS
<1>6. /\ body \in Seq(Nat) /\ n \in Nat /\ TwoBytes(n)
      /\ \A rest \in Seq(Nat), decoded \in Seq(Nat), total \in Nat :
           Len(decoded) < total =>
             (IF n % 2 = 0 THEN RepeatedRun(n \div 2, body \o rest, width, decoded, total)
              ELSE PackedRun(n \div 2, body \o rest, width, decoded, total)) \in ValuesRead(values, decoded, total, rest)
  <2>1. CASE packed
    <3>1. PICK g \in Nat : Len(values) = 8 * g /\ n = 2 * g + 1
      <4>1. Len(values) % 8 = 0 /\ Len(values) \in Nat
        BY <1>4, <2>1
      <4>2. PICK g \in Nat : Len(values) = 8 * g
        BY <4>1
      <4>3. n = 2 * (Len(values) \div 8) + 1
        BY Zenon, <1>5, <2>1 DEF HeaderOf
      <4>4. QED
        BY <4>2, <4>3
    <3>2. n \in Nat /\ TwoBytes(n) /\ n \div 2 = g /\ n % 2 # 0
      BY <1>3, <3>1 DEF TwoBytes
    <3>3. body = PackedBytes(values)
      BY Zenon, <1>5, <2>1 DEF Body
    <3>4. body \in Seq(Nat) /\ Len(body) = g * width
      BY <3>1, <3>3, PackedIs
    <3>5. ASSUME NEW rest \in Seq(Nat), NEW decoded \in Seq(Nat), NEW total \in Nat, Len(decoded) < total
          PROVE  PackedRun(g, body \o rest, width, decoded, total) \in ValuesRead(values, decoded, total, rest)
      <4>1. Len(decoded) <= total
        BY <3>5
      <4>2. PackedRun(g, PackedBytes(values) \o rest, width, decoded, total)
              \in GroupsRead(values, decoded, total, PackedBytes(values) \o rest, g)
        BY <1>3, <3>1, <4>1, PackedRunIs
      <4>3. Rest(body \o rest, Len(body)) = rest
        BY <3>4, Parts
      <4>4. Rest(body \o rest, g * width) = rest
        BY ONLY <3>4, <4>3
      <4>5. GroupsRead(values, decoded, total, body \o rest, g) = ValuesRead(values, decoded, total, rest)
        BY ONLY <3>1, <4>4 DEF GroupsRead, ValuesRead
      <4>6. QED
        BY ONLY <3>3, <4>2, <4>5
    <3>6. QED
      BY ONLY <3>2, <3>4, <3>5
  <2>2. CASE ~packed
    <3>1. \A i \in 1 .. Len(values) : Shift(values[i], 2, width) = 0 /\ values[i] = values[1]
      BY <1>3, <1>4, <2>2
    <3>2. Len(values) >= 1
      BY <1>3
    <3>3. n = 2 * Len(values)
      BY Zenon, <1>5, <2>2 DEF HeaderOf
    <3>4. n \in Nat /\ TwoBytes(n) /\ n \div 2 = Len(values) /\ n % 2 = 0
      BY <1>3, <3>3
    <3>5. body = [i \in 1 .. (width + 7) \div 8 |-> Digit(values[1], 256, i - 1)]
      BY Zenon, <1>5, <2>2 DEF Body
    <3>6. body \in Seq(Nat)
      <4>1. values[1] \in Nat
        BY <3>2
      <4>2. QED
        BY <3>5, <4>1, BytesOfValue
    <3>7. ASSUME NEW rest \in Seq(Nat), NEW decoded \in Seq(Nat), NEW total \in Nat, Len(decoded) < total
          PROVE  RepeatedRun(Len(values), body \o rest, width, decoded, total) \in ValuesRead(values, decoded, total, rest)
      BY <3>1, <3>2, <3>5, <3>6, <3>7, RepeatedRunIs
    <3>8. QED
      BY ONLY <3>4, <3>6, <3>7
  <2>3. QED
    BY <2>1, <2>2
<1>7. RunBytes(run) = HeaderBytes(n) \o body
  BY Zenon, <1>4, <1>5
<1>8. PICK head \in Seq(Nat), b \in Seq(Nat), h \in Nat : head = HeaderBytes(h) /\ b = body /\ h = n
  <2>1. HeaderBytes(n) \in Seq(Nat)
    BY <1>6, HeaderRead
  <2>2. QED
    BY <1>6, <2>1
<1>9. head \o b \in Seq(Nat) /\ Len(head \o b) >= 1 /\ RunBytes(run) = head \o b
  <2>1. Len(head) \in 1 .. 2
    BY <1>6, <1>8, HeaderRead
  <2>2. RunBytes(run) = head \o b
    BY <1>7, <1>8
  <2>3. QED
    BY <2>1, <2>2, Longer
<1>10. \A rest \in Seq(Nat) : (head \o b) \o rest = head \o (b \o rest) /\ b \o rest \in Seq(Nat)
  BY GroupedBytes
<1>11. \A t \in Seq(Nat) : \A w, decoded, total :
         ~(Len(decoded) >= total) =>
           NextRun(<<decoded, HeaderBytes(h) \o t>>, w, total) =
             IF h % 2 = 0 THEN RepeatedRun(h \div 2, t, w, decoded, total)
             ELSE PackedRun(h \div 2, t, w, decoded, total)
  <2>1. TwoBytes(h)
    BY <1>6, <1>8
  <2>2. QED
    BY Zenon, <2>1, HeadedRuns
<1>12. ASSUME NEW rest \in Seq(Nat), NEW decoded \in Seq(Nat), NEW total \in Nat, Len(decoded) < total
       PROVE  NextRun(<<decoded, RunBytes(run) \o rest>>, width, total) \in ValuesRead(values, decoded, total, rest)
  <2>1. ~(Len(decoded) >= total)
    BY <1>12
  <2>2. PICK t \in Seq(Nat) : t = b \o rest
    BY <1>10
  <2>3. NextRun(<<decoded, HeaderBytes(h) \o t>>, width, total) =
          IF h % 2 = 0 THEN RepeatedRun(h \div 2, t, width, decoded, total)
          ELSE PackedRun(h \div 2, t, width, decoded, total)
    BY Zenon, <1>11, <2>1
  <2>4. (IF h % 2 = 0 THEN RepeatedRun(h \div 2, body \o rest, width, decoded, total)
         ELSE PackedRun(h \div 2, body \o rest, width, decoded, total)) \in ValuesRead(values, decoded, total, rest)
    BY Zenon, <1>6, <1>8, <1>12
  <2>5. RunBytes(run) \o rest = HeaderBytes(h) \o t
    BY ZenonT(40), <1>8, <1>9, <1>10, <2>2
  <2>6. QED
    BY Zenon, <1>8, <2>2, <2>3, <2>4, <2>5
<1>13. QED
  BY Zenon, <1>1, <1>9, <1>12

--------------------------------------------------------------------------------
(* Pages. *)

\* Once the count is reached, what follows is left alone.
LEMMA ReadFull ==
  ASSUME NEW p \in Seq(Nat), NEW v \in Seq(Nat), NEW decoded \in Seq(Nat), NEW total \in Nat, NEW rest, NEW after,
         NEW x, x \in ValuesRead(p, decoded, total, rest), Len(x[1]) >= total
  PROVE  x \in ValuesRead(p \o v, decoded, total, after)
<1>a. /\ x \in Seq(Nat) \X Seq(Nat)
      /\ Len(x[1]) = Least(total, Len(decoded) + Len(p))
      /\ width <= 8 => \A i \in 1 .. Len(x[1]) : x[1][i] = (decoded \o p)[i]
  BY DEF ValuesRead
<1>b. x[1] \in Seq(Nat)
  BY ONLY <1>a
<1>1. Len(x[1]) \in Nat
  BY ONLY <1>b
<1>2. PICK n \in Nat, m \in Nat : n = Len(decoded) + Len(p) /\ m = Len(v)
  <2>1. Len(decoded) + Len(p) \in Nat /\ Len(v) \in Nat
    BY Catenated
  <2>2. QED
    BY <2>1
<1>3. PICK all \in Seq(Nat) : all = decoded \o p /\ Len(all) = n
  <2>1. decoded \o p \in Seq(Nat) /\ Len(decoded \o p) = n
    BY <1>2, Catenated
  <2>2. QED
    BY <2>1
<1>4. decoded \o (p \o v) = all \o v
  BY SMTT(20), <1>3, GroupedBytes
<1>5. \A i \in 1 .. n : (all \o v)[i] = all[i]
  BY <1>3, Catenated
<1>6. Len(p \o v) = Len(p) + Len(v) /\ Len(p) \in Nat /\ Len(v) \in Nat /\ Len(decoded) \in Nat
  BY Catenated
<1>7. Len(decoded) + Len(p \o v) = n + m
  BY ONLY <1>2, <1>6
<1>8. Len(x[1]) = total /\ Least(total, n + m) = total /\ Least(total, n) <= n
  <2>1. Len(x[1]) = Least(total, n) /\ Len(x[1]) \in Nat /\ Len(x[1]) >= total
    BY ONLY <1>a, <1>1, <1>2, Len(x[1]) >= total
  <2>2. QED
    <3>1. PICK k \in Nat : k = Len(x[1])
      BY <2>1
    <3>2. Least(total, n) = k
      BY ONLY <2>1, <3>1
    <3>3. k >= total \/ k < total
      BY ONLY k \in Nat, total \in Nat
    <3>4. QED
      BY ONLY <2>1, <3>1, <3>2, <3>3, n \in Nat, m \in Nat, total \in Nat DEF Least
<1>9. \A i \in 1 .. Len(x[1]) : i \in 1 .. n
  BY ONLY <1>a, <1>1, <1>2, <1>8
<1>10. ~(Len(x[1]) < total)
  BY <1>1, <1>a
<1>11. width <= 8 => \A i \in 1 .. Len(x[1]) : x[1][i] = (decoded \o (p \o v))[i]
  BY ONLY <1>a, <1>3, <1>4, <1>5, <1>9
<1>12. Len(x[1]) = Least(total, Len(decoded) + Len(p \o v))
  BY ONLY <1>7, <1>8
<1>13. QED
  BY ONLY <1>a, <1>10, <1>11, <1>12 DEF ValuesRead

\* Values read after values.
LEMMA ReadMore ==
  ASSUME NEW p \in Seq(Nat), NEW v \in Seq(Nat), NEW decoded \in Seq(Nat), NEW total \in Nat, NEW rest, NEW after,
         NEW x, x \in ValuesRead(p, decoded, total, rest), Len(x[1]) < total,
         NEW y, y \in ValuesRead(v, x[1], total, after)
  PROVE  y \in ValuesRead(p \o v, decoded, total, after)
<1>a. /\ x \in Seq(Nat) \X Seq(Nat)
      /\ Len(x[1]) = Least(total, Len(decoded) + Len(p))
      /\ width <= 8 => \A i \in 1 .. Len(x[1]) : x[1][i] = (decoded \o p)[i]
  BY DEF ValuesRead
<1>b. x[1] \in Seq(Nat)
  BY ONLY <1>a
<1>1. Len(x[1]) \in Nat
  BY ONLY <1>b
<1>2. PICK n \in Nat, m \in Nat : n = Len(decoded) + Len(p) /\ m = Len(v)
  <2>1. Len(decoded) + Len(p) \in Nat /\ Len(v) \in Nat
    BY Catenated
  <2>2. QED
    BY <2>1
<1>3. Len(x[1]) = n
  <2>1. Len(x[1]) = Least(total, n) /\ Len(x[1]) \in Nat /\ Len(x[1]) < total
    BY ONLY <1>a, <1>1, <1>2, Len(x[1]) < total
  <2>2. QED
    <3>1. PICK k \in Nat : k = Len(x[1])
      BY <2>1
    <3>2. Least(total, n) = k
      BY ONLY <2>1, <3>1
    <3>3. k >= total \/ k < total
      BY ONLY k \in Nat, total \in Nat
    <3>4. QED
      BY ONLY <2>1, <3>1, <3>2, <3>3, n \in Nat, m \in Nat, total \in Nat DEF Least
<1>4. PICK all \in Seq(Nat) : all = decoded \o p /\ Len(all) = n
  <2>1. decoded \o p \in Seq(Nat) /\ Len(decoded \o p) = n
    BY <1>2, Catenated
  <2>2. QED
    BY <2>1
<1>5. decoded \o (p \o v) = all \o v
  BY SMTT(20), <1>4, GroupedBytes
<1>6. width <= 8 => x[1] = all
  BY ONLY ZenonT(40), <1>a, <1>b, <1>3, <1>4, Same
<1>7. Len(p \o v) = Len(p) + Len(v) /\ Len(p) \in Nat /\ Len(v) \in Nat /\ Len(decoded) \in Nat
  BY Catenated
<1>8. Len(decoded) + Len(p \o v) = n + m
  BY ONLY <1>2, <1>7
<1>9. /\ y \in Seq(Nat) \X Seq(Nat)
      /\ Len(y[1]) = Least(total, Len(x[1]) + Len(v))
      /\ Len(y[1]) < total => y[2] = after
      /\ width <= 8 => \A i \in 1 .. Len(y[1]) : y[1][i] = (x[1] \o v)[i]
  BY ONLY y \in ValuesRead(v, x[1], total, after) DEF ValuesRead
<1>10. Len(y[1]) = Least(total, Len(decoded) + Len(p \o v))
  BY ONLY <1>2, <1>3, <1>8, <1>9
<1>11. width <= 8 => \A i \in 1 .. Len(y[1]) : y[1][i] = (decoded \o (p \o v))[i]
  BY ONLY <1>5, <1>6, <1>9
<1>12. QED
  BY ONLY <1>9, <1>10, <1>11 DEF ValuesRead

\* Nothing is read when the count is reached, nor at the end.
LEMMA NothingRead ==
  ASSUME NEW x, NEW total, x[2] = <<>> \/ Len(x[1]) >= total
  PROVE  NextRun(x, width, total) = x
BY Zenon DEF NextRun

\* A turn of the loop over runs.
LEMMA TurnRead ==
  ASSUME NEW run, IsRun(run), width \in 1 .. 9, NEW p \in Seq(Nat), NEW decoded \in Seq(Nat), NEW total \in Nat,
         NEW before, NEW after \in Seq(Nat), before = RunBytes(run) \o after,
         NEW x, x \in ValuesRead(p, decoded, total, before)
  PROVE  NextRun(x, width, total) \in ValuesRead(p \o run.values, decoded, total, after)
<1>1. x \in Seq(Nat) \X Seq(Nat) /\ (Len(x[1]) < total => x[2] = before)
  BY ONLY x \in ValuesRead(p, decoded, total, before) DEF ValuesRead
<1>2. PICK d \in Seq(Nat), n \in Nat : d = x[1] /\ n = Len(d)
  BY ONLY <1>1
<1>3. PICK v \in Seq(Nat) : v = run.values
  BY Zenon, RunType
<1>4. CASE n >= total
  <2>1. NextRun(x, width, total) = x
    BY Zenon, <1>2, <1>4, NothingRead
  <2>2. x \in ValuesRead(p \o v, decoded, total, after)
    BY Zenon, <1>2, <1>4, ReadFull
  <2>3. QED
    BY Zenon, <1>3, <2>1, <2>2
<1>5. CASE ~(n >= total)
  <2>1. n < total
    BY ONLY <1>5, n \in Nat, total \in Nat
  <2>2. x = <<d, RunBytes(run) \o after>>
    BY ONLY <1>1, <1>2, <2>1, before = RunBytes(run) \o after
  <2>3. NextRun(<<d, RunBytes(run) \o after>>, width, total) \in ValuesRead(v, d, total, after)
    BY Zenon, <1>2, <1>3, <2>1, RunIs
  <2>4. NextRun(x, width, total) \in ValuesRead(v, x[1], total, after)
    BY Zenon, <1>2, <2>2, <2>3
  <2>5. NextRun(x, width, total) \in ValuesRead(p \o v, decoded, total, after)
    BY Zenon, <1>2, <2>1, <2>4, ReadMore
  <2>6. QED
    BY Zenon, <1>3, <2>5
<1>6. QED
  BY <1>4, <1>5

\* Each of the sequences put together takes an element at least.
LEMMA AtLeast ==
  ASSUME NEW seqs, seqs \in Seq(Seq(Nat)), \A i \in 1 .. Len(seqs) : Len(seqs[i]) >= 1
  PROVE  Len(seqs) \in Nat /\ Len(FlattenSeq(seqs)) \in Nat /\ Len(seqs) <= Len(FlattenSeq(seqs))
<1>1. PICK n \in Nat : n = Len(seqs)
  OBVIOUS
<1>2. PICK p, r : Laid(Nat, seqs, p, r)
  BY Flattened
<1>3. /\ p \in [0 .. n -> Seq(Nat)] /\ p[0] = <<>> /\ p[n] = FlattenSeq(seqs)
      /\ \A i \in 1 .. n : p[i] = p[i - 1] \o seqs[i]
  BY Zenon, <1>1, <1>2 DEF Laid
<1>4. ASSUME NEW i \in 1 .. n
      PROVE  seqs[i] \in Seq(Nat) /\ Len(seqs[i]) \in Nat /\ Len(seqs[i]) >= 1
  BY <1>1
<1> DEFINE P == {i \in 0 .. n : Len(p[i]) >= i}
<1>5. 0 \in P
  BY ONLY <1>3, n \in Nat
<1>6. ASSUME NEW i \in 1 .. n, i - 1 \in P PROVE i \in P
  <2>1. i - 1 \in 0 .. n /\ i \in 0 .. n
    BY ONLY i \in 1 .. n, n \in Nat
  <2>2. PICK a \in Seq(Nat), b \in Seq(Nat) : a = p[i - 1] /\ b = seqs[i]
    BY ONLY <1>3, <1>4, <2>1
  <2>3. Len(a \o b) = Len(a) + Len(b) /\ Len(a) \in Nat /\ Len(b) \in Nat
    BY ONLY Catenated, a \in Seq(Nat), b \in Seq(Nat)
  <2>4. p[i] = a \o b
    BY Zenon, <1>3, <2>2
  <2>5. Len(a) >= i - 1
    BY Zenon, <1>6, <2>2
  <2>6. Len(b) >= 1
    BY Zenon, <1>4, <2>2
  <2>7. Len(a \o b) >= i
    BY ONLY <2>1, <2>3, <2>5, <2>6, n \in Nat
  <2>8. Len(p[i]) >= i
    BY Zenon, <2>4, <2>7
  <2>9. QED
    BY Zenon, <2>1, <2>8
<1> HIDE DEF P
<1>7. \A i \in 0 .. n : i \in P
  BY Zenon, <1>5, <1>6, UpTo
<1>8. n \in 0 .. n
  OBVIOUS
<1>9. Len(p[n]) >= n
  BY Zenon, <1>7, <1>8 DEF P
<1>10. p[n] \in Seq(Nat)
  BY ONLY <1>3, <1>8
<1>11. Len(p[n]) \in Nat
  BY ONLY <1>10
<1>12. QED
  BY ONLY <1>1, <1>3, <1>9, <1>11

\* Positions in the runs, as the turns go on.
LEMMA Turns ==
  ASSUME NEW n \in Nat, NEW size \in Nat, n <= size
  PROVE  /\ Least(0, n) = 0 /\ Least(size, n) = n /\ 0 \in 0 .. size /\ size \in 0 .. size /\ n \in 0 .. n /\ 0 \in 0 .. n
         /\ \A k \in 0 .. size : Least(k, n) \in 0 .. n
         /\ \A k \in 1 .. size : /\ k - 1 \in 0 .. size /\ k \in 0 .. size
                                 /\ \/ k \in 1 .. n /\ Least(k, n) = k /\ Least(k - 1, n) = k - 1
                                    \/ Least(k, n) = n /\ Least(k - 1, n) = n
BY DEF Least

LEMMA PageIs ==
  ASSUME NEW n \in Nat, NEW runs, DOMAIN runs = 1 .. n, \A i \in DOMAIN runs : IsRun(runs[i]), width \in 1 .. 9,
         NEW decoded \in Seq(Nat), NEW total \in Nat, Len(decoded) <= total
  PROVE  /\ Values(runs) \in Seq(Nat)
         /\ \E x \in ValuesRead(Values(runs), decoded, total, <<>>) :
              DecodeRLE(PageBytes(runs), width, decoded, total) = x[1]
<1> DEFINE B == [i \in DOMAIN runs |-> RunBytes(runs[i])]
           V == [i \in DOMAIN runs |-> runs[i].values]
           page == FlattenSeq(B)
<1>1. \A i \in 1 .. n : /\ IsRun(runs[i]) /\ RunBytes(runs[i]) \in Seq(Nat) /\ Len(RunBytes(runs[i])) >= 1
                        /\ runs[i].values \in Seq(Nat)
  BY Zenon, RunIs, RunType
<1>2. /\ B \in Seq(Seq(Nat)) /\ Len(B) = n /\ \A i \in 1 .. n : B[i] = RunBytes(runs[i]) /\ Len(B[i]) >= 1
  <2>1. B = [i \in 1 .. n |-> RunBytes(runs[i])]
    BY Zenon
  <2>2. QED
    BY ONLY <1>1, <2>1, n \in Nat
<1>3. V \in Seq(Seq(Nat)) /\ Len(V) = n /\ \A i \in 1 .. n : V[i] = runs[i].values
  <2>1. V = [i \in 1 .. n |-> runs[i].values]
    BY Zenon
  <2>2. QED
    BY ONLY <1>1, <2>1, n \in Nat
<1>4. Values(runs) = FlattenSeq(V)
  BY Zenon DEF Values
<1> HIDE DEF B, V
<1>5. PICK pb, rb : Laid(Nat, B, pb, rb)
  BY <1>2, Flattened
<1>6. PICK pv, rv : Laid(Nat, V, pv, rv)
  BY <1>3, Flattened
<1>7. /\ rb \in [0 .. n -> Seq(Nat)] /\ rb[n] = <<>> /\ rb[0] = page
      /\ \A i \in 1 .. n : rb[i - 1] = RunBytes(runs[i]) \o rb[i]
  BY Zenon, <1>2, <1>5 DEF Laid
<1>8. /\ pv \in [0 .. n -> Seq(Nat)] /\ pv[0] = <<>> /\ pv[n] = Values(runs)
      /\ \A i \in 1 .. n : pv[i] = pv[i - 1] \o runs[i].values
  BY Zenon, <1>3, <1>4, <1>6 DEF Laid
<1>9. \A i \in 0 .. n : rb[i] \in Seq(Nat) /\ pv[i] \in Seq(Nat)
  BY ONLY <1>7, <1>8
<1>10. PICK size \in Nat : size = Len(page) /\ n <= size
  BY Zenon, <1>2, AtLeast
<1> HIDE DEF page
<1> DEFINE good == [k \in 0 .. size |-> ValuesRead(pv[Least(k, n)], decoded, total, rb[Least(k, n)])]
           turn == [k \in 1 .. size |-> [x \in good[k - 1] |-> NextRun(x, width, total)]]
           start == <<decoded, page>>
           IsRead(c) == c = [k \in 0 .. size |-> IF k = 0 THEN <<decoded, page>> ELSE NextRun(c[k - 1], width, total)]
<1>11. start \in good[0]
  <2>1. good[0] = ValuesRead(<<>>, decoded, total, page)
    BY ONLY <1>7, <1>8, <1>10, n \in Nat, Turns
  <2>2. PICK d \in Nat : d = Len(decoded) /\ Least(total, d + 0) = d
    <3>1. PICK d \in Nat : d = Len(decoded)
      OBVIOUS
    <3>2. d <= total
      BY Zenon, <3>1
    <3>3. Least(total, d + 0) = d
      BY ONLY <3>2, d \in Nat, total \in Nat DEF Least
    <3>4. QED
      BY Zenon, <3>1, <3>3
  <2>3. decoded \o <<>> = decoded
    BY Zenon, Nothing0
  <2>4. rb[0] \in Seq(Nat)
    BY ONLY <1>9, n \in Nat
  <2>5. start \in Seq(Nat) \X Seq(Nat) /\ start[1] = decoded /\ start[2] = page
    BY ONLY <1>7, <2>4, decoded \in Seq(Nat)
  <2> HIDE DEF start, good
  <2>6. Len(start[1]) = Least(total, Len(decoded) + Len(<<>>))
    BY ONLY <2>2, <2>5
  <2>7. start \in ValuesRead(<<>>, decoded, total, page)
    BY ONLY <2>3, <2>5, <2>6 DEF ValuesRead
  <2>8. QED
    BY Zenon, <2>1, <2>7
<1>12. ASSUME NEW k \in 1 .. size, NEW x \in good[k - 1]
       PROVE  turn[k][x] = NextRun(x, width, total) /\ turn[k][x] \in good[k]
  <2>1. k - 1 \in 0 .. size /\ k \in 0 .. size
    BY ONLY k \in 1 .. size, size \in Nat
  <2>2. turn[k][x] = NextRun(x, width, total)
    BY Zenon
  <2>3. good[k - 1] = ValuesRead(pv[Least(k - 1, n)], decoded, total, rb[Least(k - 1, n)])
    BY Zenon, <2>1
  <2>4. good[k] = ValuesRead(pv[Least(k, n)], decoded, total, rb[Least(k, n)])
    BY Zenon, <2>1
  <2> HIDE DEF good, turn
  <2>5. NextRun(x, width, total) \in good[k]
    <3>1. CASE k \in 1 .. n /\ Least(k, n) = k /\ Least(k - 1, n) = k - 1
      <4>1. k - 1 \in 0 .. n /\ k \in 0 .. n
        BY ONLY <3>1, n \in Nat
      <4>2. PICK p \in Seq(Nat), after \in Seq(Nat) : p = pv[k - 1] /\ after = rb[k]
        BY Zenon, <1>9, <4>1
      <4>3. x \in ValuesRead(p, decoded, total, RunBytes(runs[k]) \o after)
        BY Zenon, <1>7, <2>3, <3>1, <4>2
      <4>4. NextRun(x, width, total) \in ValuesRead(p \o runs[k].values, decoded, total, after)
        <5>1. PICK run : run = runs[k] /\ IsRun(run)
          BY Zenon, <1>1, <3>1
        <5>2. NextRun(x, width, total) \in ValuesRead(p \o run.values, decoded, total, after)
          BY Zenon, <4>3, <5>1, TurnRead
        <5>3. QED
          BY Zenon, <5>1, <5>2
      <4>5. good[k] = ValuesRead(p \o runs[k].values, decoded, total, after)
        BY Zenon, <1>8, <2>4, <3>1, <4>2
      <4>6. QED
        BY Zenon, <4>4, <4>5
    <3>2. CASE Least(k, n) = n /\ Least(k - 1, n) = n
      <4>1. good[k] = good[k - 1]
        BY Zenon, <2>3, <2>4, <3>2
      <4>2. x \in ValuesRead(pv[n], decoded, total, <<>>)
        BY Zenon, <1>7, <2>3, <3>2
      <4>3. x \in Seq(Nat) \X Seq(Nat) /\ (Len(x[1]) < total => x[2] = <<>>)
        BY ONLY <4>2 DEF ValuesRead
      <4>4. PICK m \in Nat : m = Len(x[1])
        BY ONLY <4>3
      <4>5. m < total \/ m >= total
        BY ONLY m \in Nat, total \in Nat
      <4>6. x[2] = <<>> \/ Len(x[1]) >= total
        BY Zenon, <4>3, <4>4, <4>5
      <4>7. QED
        BY Zenon, <4>1, <4>6, NothingRead
    <3>3. QED
      BY Zenon, <1>10, <3>1, <3>2, Turns
  <2>6. QED
    BY Zenon, <2>2, <2>5
<1>13. DecodeRLE(page, width, decoded, total) = (CHOOSE c : IsRead(c))[size][1]
  BY Zenon, <1>10 DEF DecodeRLE
<1>14. good[size] = ValuesRead(Values(runs), decoded, total, <<>>)
  BY ONLY <1>7, <1>8, <1>10, n \in Nat, Turns
<1> HIDE DEF good, turn, start
<1>15. Leads(size, good, turn)
  BY Zenon, <1>12 DEF Leads
<1>16. PICK h : Loop(size, start, good, turn, h)
  BY Zenon, <1>11, <1>15, LoopExists
<1>17. \A i \in 0 .. size : i # 0 => i \in 1 .. size /\ i - 1 \in 0 .. size
  BY ONLY size \in Nat
<1>18. \A i \in 0 .. size : h[i] = IF i = 0 THEN <<decoded, page>> ELSE NextRun(h[i - 1], width, total)
  BY <1>12, <1>16, <1>17 DEF start, Loop
<1>19. IsRead(h)
  BY <1>16, <1>18 DEF Loop
<1>20. PICK c : IsRead(c) /\ DecodeRLE(page, width, decoded, total) = c[size][1]
  <2> HIDE DEF IsRead
  <2>1. QED
    BY Zenon, <1>13, <1>19
<1>21. c[0] = start /\ \A i \in 1 .. size : c[i] = NextRun(c[i - 1], width, total)
  <2>1. \A i \in 1 .. size : i \in 0 .. size /\ i # 0
    BY ONLY size \in Nat
  <2>2. \A g \in 0 .. size : c[g] = IF g = 0 THEN <<decoded, page>> ELSE NextRun(c[g - 1], width, total)
    BY ONLY <1>20
  <2>3. c[0] = <<decoded, page>>
    BY ONLY <2>2, size \in Nat
  <2>4. QED
    BY Zenon, <2>1, <2>2, <2>3 DEF start
<1> HIDE DEF IsRead
<1>22. \A i \in 1 .. size : c[i - 1] \in good[i - 1] => c[i] = turn[i][c[i - 1]]
  BY Zenon, <1>12, <1>21
<1>23. \A i \in 0 .. size : c[i] \in good[i]
  BY Zenon, <1>11, <1>15, <1>21, <1>22, LoopLeads
<1>24. c[size] \in ValuesRead(Values(runs), decoded, total, <<>>)
  <2>1. size \in 0 .. size
    BY ONLY size \in Nat
  <2>2. QED
    BY Zenon, <1>14, <1>23, <2>1
<1>25. Values(runs) \in Seq(Nat)
  BY ONLY <1>8, <1>9, n \in Nat
<1>26. page = PageBytes(runs)
  BY Zenon DEF page, B, PageBytes
<1>27. QED
  BY Zenon, <1>20, <1>24, <1>25, <1>26

\* Where the groups of a batch begin.
LEMMA BatchSpans ==
  ASSUME NEW w \in 1 .. 9, NEW g \in 1 .. 4, NEW size, size = 4 * w
  PROVE  /\ size \in Nat /\ (g - 1) * w \in 0 .. size /\ size - ((g - 1) * w) >= w
         /\ \A b \in 1 .. w : b \in 1 .. size - ((g - 1) * w)
<1>1. g \in {1, 2, 3, 4}
  OBVIOUS
<1>2. CASE g = 1
  BY <1>2
<1>3. CASE g = 2
  BY <1>3
<1>4. CASE g = 3
  BY <1>4
<1>5. CASE g = 4
  BY <1>5
<1>6. QED
  BY <1>1, <1>2, <1>3, <1>4, <1>5

\* A group of a batch.
LEMMA GroupOfBatch ==
  ASSUME NEW values \in Seq(Nat), Len(values) = 32, width \in 1 .. 9, NEW g \in 1 .. 4,
         \A i \in 1 .. Len(values) : Shift(values[i], 2, width) = 0
  PROVE  LET u == Unpack8(Rest(PackedBytes(values), (g - 1) * width), width)
         IN  /\ u \in Seq(Nat) /\ Len(u) = 8
             /\ width <= 8 => \A i \in 1 .. 8 : u[i] = values[8 * (g - 1) + i]
<1>1. PICK n \in Nat : n = 4 /\ Len(values) = 8 * n
  OBVIOUS
<1>2. PICK bytes \in Seq(Nat) : bytes = PackedBytes(values) /\ Len(bytes) = n * width
  BY Zenon, <1>1, PackedIs
<1>3. PICK from \in Nat : /\ from = (g - 1) * width /\ from \in 0 .. Len(bytes) /\ Len(bytes) - from >= width
                          /\ \A b \in 1 .. width : b \in 1 .. Len(bytes) - from
  <2>1. Len(bytes) = 4 * width
    BY Zenon, <1>1, <1>2
  <2>2. PICK size : size = Len(bytes) /\ size = 4 * width
    BY Zenon, <2>1
  <2>3. /\ size \in Nat /\ (g - 1) * width \in 0 .. size /\ size - ((g - 1) * width) >= width
        /\ \A b \in 1 .. width : b \in 1 .. size - ((g - 1) * width)
    BY Zenon, <2>2, BatchSpans
  <2>4. (g - 1) * width \in Nat
    BY ONLY <2>3
  <2>5. QED
    BY Zenon, <2>2, <2>3, <2>4
<1>4. PICK stream \in Seq(Nat) : /\ stream = Rest(bytes, from) /\ Len(stream) = Len(bytes) - from
                                 /\ \A i \in 1 .. Len(bytes) - from : stream[i] = bytes[from + i]
  <2>1. PICK at \in 0 .. Len(bytes) : at = from
    BY Zenon, <1>3
  <2>2. Rest(bytes, at) \in Seq(Nat) /\ Len(Rest(bytes, at)) = Len(bytes) - at
        /\ \A i \in 1 .. Len(bytes) - at : Rest(bytes, at)[i] = bytes[at + i]
    BY ONLY RestIs, bytes \in Seq(Nat), at \in 0 .. Len(bytes)
  <2>3. QED
    BY Zenon, <2>1, <2>2
<1>5. Unpack8(stream, width) \in Seq(Nat) /\ Len(Unpack8(stream, width)) = 8
  BY Zenon, UnpackType
<1>6. ASSUME width <= 8 PROVE \A i \in 1 .. 8 : Unpack8(stream, width)[i] = values[8 * (g - 1) + i]
  <2>1. width \in 1 .. 8
    BY ONLY <1>6, width \in 1 .. 9
  <2>2. g - 1 \in 0 .. n - 1
    BY ONLY <1>1, g \in 1 .. 4
  <2>3. PICK k \in 0 .. n - 1 : k = g - 1
    BY <2>2
  <2>4. width <= Len(stream)
    <3>1. PICK m \in Nat : m = Len(stream)
      BY ONLY stream \in Seq(Nat)
    <3>2. m >= width
      BY Zenon, <1>3, <1>4, <3>1
    <3>3. width <= m
      BY ONLY <3>2, m \in Nat, width \in 1 .. 9
    <3>4. QED
      BY Zenon, <3>1, <3>3
  <2>5. \A b \in 1 .. width : stream[b] = PackedBytes(values)[(k * width) + b]
    BY Zenon, <1>2, <1>3, <1>4, <2>3
  <2>6. \A i \in 1 .. 8 : Unpack8(stream, width)[i] = values[8 * k + i]
    BY ONLY <1>1, <2>1, <2>4, <2>5, Unpacked, values \in Seq(Nat), stream \in Seq(Nat), n \in Nat, k \in 0 .. n - 1,
       \A i \in 1 .. Len(values) : Shift(values[i], 2, width) = 0
  <2>7. QED
    BY Zenon, <2>3, <2>6
<1>7. stream = Rest(PackedBytes(values), (g - 1) * width)
  BY Zenon, <1>2, <1>3, <1>4
<1>8. QED
  BY Zenon, <1>5, <1>6, <1>7

\* Values after values.
LEMMA MoreValues ==
  ASSUME NEW values \in Seq(Nat), NEW a \in Seq(Nat), NEW b \in Seq(Nat),
         \A i \in 1 .. Len(a) : a[i] = values[i], \A i \in 1 .. Len(b) : b[i] = values[Len(a) + i]
  PROVE  \A i \in 1 .. Len(a) + Len(b) : (a \o b)[i] = values[i]
<1>1. /\ \A i \in 1 .. Len(a) : (a \o b)[i] = a[i]
      /\ \A i \in 1 .. Len(b) : (a \o b)[Len(a) + i] = b[i]
  BY ONLY Catenated, a \in Seq(Nat), b \in Seq(Nat)
<1>2. PICK m \in Nat, k \in Nat : m = Len(a) /\ k = Len(b)
  BY ONLY a \in Seq(Nat), b \in Seq(Nat)
<1>3. ASSUME NEW i \in 1 .. m + k PROVE (a \o b)[i] = values[i]
  <2>1. CASE i \in 1 .. m
    BY Zenon, <1>1, <1>2, <2>1
  <2>2. CASE i \notin 1 .. m
    <3>1. PICK j : j = i - m
      OBVIOUS
    <3>2. j \in 1 .. k /\ i = m + j
      BY ONLY <2>2, <3>1, i \in 1 .. m + k, m \in Nat, k \in Nat
    <3>3. QED
      BY Zenon, <1>1, <1>2, <3>2
  <2>3. QED
    BY Zenon, <2>1, <2>2
<1>4. QED
  BY Zenon, <1>2, <1>3

LEMMA BatchIs ==
  ASSUME NEW values \in Seq(Nat), Len(values) = 32, width \in 1 .. 9,
         \A i \in 1 .. Len(values) : Shift(values[i], 2, width) = 0
  PROVE  LET u == Unpack32(PackedBytes(values), width)
         IN  /\ u \in Seq(Nat) /\ Len(u) = 32
             /\ width <= 8 => u = values
<1> DEFINE U == [g \in 1 .. 4 |-> Unpack8(Rest(PackedBytes(values), (g - 1) * width), width)]
<1>1. \A g \in 1 .. 4 : /\ U[g] \in Seq(Nat) /\ Len(U[g]) = 8
                        /\ width <= 8 => \A i \in 1 .. 8 : U[g][i] = values[8 * (g - 1) + i]
  BY Zenon, GroupOfBatch
<1>2. Unpack32(PackedBytes(values), width) = FlattenSeq(U)
  BY Zenon DEF Unpack32
<1>3. DOMAIN U = 1 .. 4 /\ U = [g \in 1 .. 4 |-> U[g]]
  BY Zenon
<1> HIDE DEF U
<1>4. U \in Seq(Seq(Nat)) /\ Len(U) = 4
  BY ONLY <1>1, <1>3
<1>5. PICK p, r : Laid(Nat, U, p, r)
  BY <1>4, Flattened
<1>6. /\ p[0] = <<>> /\ p[4] = FlattenSeq(U)
      /\ \A g \in 1 .. 4 : p[g] = p[g - 1] \o U[g]
  BY Zenon, <1>4, <1>5 DEF Laid
<1> DEFINE P == {g \in 0 .. 4 : /\ p[g] \in Seq(Nat) /\ Len(p[g]) = 8 * g
                                /\ width <= 8 => \A i \in 1 .. 8 * g : p[g][i] = values[i]}
<1>7. 0 \in P
  <2>1. p[0] \in Seq(Nat) /\ Len(p[0]) = 0
    BY ONLY <1>6
  <2>2. 0 \in 0 .. 4 /\ 8 * 0 = 0 /\ \A i \in 1 .. 8 * 0 : FALSE
    OBVIOUS
  <2>3. QED
    BY Zenon, <2>1, <2>2
<1>8. ASSUME NEW g \in 1 .. 4, g - 1 \in P PROVE g \in P
  <2>1. PICK k \in Nat : k = g - 1 /\ k + 1 = g /\ g \in 0 .. 4
    BY ONLY g \in 1 .. 4
  <2>2. PICK a \in Seq(Nat) : a = p[k] /\ Len(a) = 8 * k /\ (width <= 8 => \A i \in 1 .. 8 * k : a[i] = values[i])
    BY Zenon, <1>8, <2>1
  <2>3. PICK b \in Seq(Nat) : b = U[g] /\ Len(b) = 8 /\ (width <= 8 => \A i \in 1 .. 8 : b[i] = values[8 * k + i])
    BY Zenon, <1>1, <2>1
  <2>4. p[g] = a \o b
    BY Zenon, <1>6, <2>1, <2>2, <2>3
  <2>5. /\ p[g] \in Seq(Nat) /\ Len(p[g]) = 8 * g
        /\ width <= 8 => \A i \in 1 .. 8 * g : p[g][i] = values[i]
    <3>1. /\ a \o b \in Seq(Nat) /\ Len(a \o b) = 8 * (k + 1)
          /\ width <= 8 => \A i \in 1 .. 8 * (k + 1) : (a \o b)[i] = values[i]
      <4>1. a \o b \in Seq(Nat) /\ Len(a \o b) = Len(a) + Len(b)
        BY ONLY Catenated, a \in Seq(Nat), b \in Seq(Nat)
      <4>2. PICK m \in Nat : m = 8 * k /\ m + 8 = 8 * (k + 1)
        BY ONLY k \in Nat
      <4>3. Len(a) = m /\ Len(b) = 8
        BY Zenon, <2>2, <2>3, <4>2
      <4>4. ASSUME width <= 8 PROVE \A i \in 1 .. Len(a) + Len(b) : (a \o b)[i] = values[i]
        <5>1. \A i \in 1 .. Len(a) : a[i] = values[i]
          BY Zenon, <2>2, <4>4
        <5>2. \A i \in 1 .. Len(b) : b[i] = values[Len(a) + i]
          BY Zenon, <2>2, <2>3, <4>4
        <5>3. QED
          BY Zenon, <5>1, <5>2, MoreValues
      <4>5. QED
        BY Zenon, <4>1, <4>2, <4>3, <4>4
    <3>2. QED
      BY Zenon, <2>1, <2>4, <3>1
  <2>6. QED
    BY Zenon, <2>1, <2>5
<1> HIDE DEF P
<1>9. PICK n \in Nat : n = 4 /\ 8 * n = 32 /\ n \in 0 .. n
  OBVIOUS
<1>10. \A g \in 0 .. n : g \in P
  BY Zenon, <1>7, <1>8, <1>9, UpTo
<1>11. /\ p[4] \in Seq(Nat) /\ Len(p[4]) = 32
       /\ width <= 8 => \A i \in 1 .. 32 : p[4][i] = values[i]
  <2>1. /\ p[n] \in Seq(Nat) /\ Len(p[n]) = 8 * n
        /\ width <= 8 => \A i \in 1 .. 8 * n : p[n][i] = values[i]
    BY Zenon, <1>9, <1>10 DEF P
  <2>2. QED
    BY ONLY <1>9, <2>1
<1>12. width <= 8 => p[4] = values
  <2>1. PICK a \in Seq(Nat) : a = p[4]
    BY Zenon, <1>11
  <2>2. Len(a) = 32 /\ (width <= 8 => \A i \in 1 .. 32 : a[i] = values[i])
    BY ONLY <1>11, <2>1
  <2>3. width <= 8 => a = values
    BY ONLY <2>2, Same, a \in Seq(Nat), values \in Seq(Nat), Len(values) = 32
  <2>4. QED
    BY Zenon, <2>1, <2>3
<1>13. QED
  BY Zenon, <1>2, <1>6, <1>11, <1>12

\* What is written and what is decoded, of a part of some values.
LEMMA PartLength ==
  ASSUME NEW o \in Seq(Nat), NEW v \in Seq(Nat), NEW n \in 1 .. Len(v)
  PROVE  Least(Len(o) + n, Len(o) + Len(v)) = Len(o) + n
<1>1. PICK m \in Nat, k \in Nat : m = Len(o) /\ k = Len(v)
  BY ONLY o \in Seq(Nat), v \in Seq(Nat)
<1>2. n \in 1 .. k /\ n \in Nat
  BY ONLY <1>1, n \in 1 .. Len(v), k \in Nat
<1>3. Least(m + n, m + k) = m + n
  BY ONLY <1>2, m \in Nat, k \in Nat DEF Least
<1>4. QED
  BY Zenon, <1>1, <1>3

LEMMA PartOf ==
  ASSUME NEW o \in Seq(Nat), NEW v \in Seq(Nat), NEW n \in 1 .. Len(v), NEW e \in Seq(Nat),
         Len(e) = Len(o) + n, \A i \in 1 .. Len(e) : e[i] = (o \o v)[i]
  PROVE  e = o \o SubSeq(v, 1, n)
<1>1. PICK m \in Nat, k \in Nat : m = Len(o) /\ k = Len(v)
  BY ONLY o \in Seq(Nat), v \in Seq(Nat)
<1>2. n \in 1 .. k /\ n \in Nat
  BY ONLY <1>1, n \in 1 .. Len(v), k \in Nat
<1>4. Len(e) = m + n
  BY Zenon, <1>1
<1>5. PICK s \in Seq(Nat) : s = SubSeq(v, 1, n) /\ Len(s) = n /\ \A i \in 1 .. n : s[i] = v[i]
  <2>1. n \in 0 .. Len(v)
    BY ONLY <1>1, <1>2
  <2>2. SubSeq(v, 1, n) \in Seq(Nat) /\ Len(SubSeq(v, 1, n)) = n /\ \A i \in 1 .. n : SubSeq(v, 1, n)[i] = v[i]
    BY ONLY Prefix, v \in Seq(Nat), <2>1
  <2>3. QED
    BY Zenon, <2>2
<1>6. /\ o \o s \in Seq(Nat) /\ Len(o \o s) = Len(o) + Len(s)
      /\ \A i \in 1 .. Len(o) : (o \o s)[i] = o[i]
      /\ \A i \in 1 .. Len(s) : (o \o s)[Len(o) + i] = s[i]
  BY ONLY Catenated, o \in Seq(Nat), s \in Seq(Nat)
<1>7. /\ \A i \in 1 .. Len(o) : (o \o v)[i] = o[i]
      /\ \A i \in 1 .. Len(v) : (o \o v)[Len(o) + i] = v[i]
  BY ONLY Catenated, o \in Seq(Nat), v \in Seq(Nat)
<1>8. ASSUME NEW i \in 1 .. m + n PROVE (o \o s)[i] = (o \o v)[i]
  <2>1. CASE i \in 1 .. m
    BY Zenon, <1>1, <1>6, <1>7, <2>1
  <2>2. CASE i \notin 1 .. m
    <3>1. PICK j : j = i - m
      OBVIOUS
    <3>2. j \in 1 .. n /\ j \in 1 .. k /\ i = m + j
      BY ONLY <1>2, <2>2, <3>1, i \in 1 .. m + n, m \in Nat, k \in Nat
    <3>3. QED
      BY Zenon, <1>1, <1>5, <1>6, <1>7, <3>2
  <2>3. QED
    BY Zenon, <2>1, <2>2
<1>9. e = o \o s
  <2>1. PICK w \in Seq(Nat) : w = o \o s
    BY Zenon, <1>6
  <2>2. Len(e) = Len(w)
    BY Zenon, <1>1, <1>4, <1>5, <1>6, <2>1
  <2>3. \A i \in 1 .. Len(e) : e[i] = w[i]
    BY Zenon, <1>4, <1>8, <2>1
  <2>4. e = w
    BY ONLY <2>2, <2>3, Same, e \in Seq(Nat), w \in Seq(Nat)
  <2>5. QED
    BY Zenon, <2>1, <2>4
<1>10. QED
  BY Zenon, <1>5, <1>9

\* The column is what was written of it.
ColumnsInv ==
  /\ out \in Seq(Nat) /\ wrote \in Seq(Nat) /\ width \in Widths
  /\ ColumnsAreDecoded

LEMMA PageKeepsColumns ==
  ASSUME ColumnsInv, NEW k \in Nat, NEW runs, DOMAIN runs = 1 .. k, NEW n, ReadPage(runs, n)
  PROVE  ColumnsInv'
<1>1. /\ out \in Seq(Nat) /\ wrote \in Seq(Nat) /\ width \in Widths /\ Len(out) = Len(wrote)
      /\ (width <= 8 => out = wrote) /\ width \in 1 .. 9
  BY ColumnAssumption DEF ColumnsInv, ColumnsAreDecoded
<1>2. /\ \A i \in DOMAIN runs : IsRun(runs[i])
      /\ n \in 1 .. Len(Values(runs)) /\ width' = width /\ wrote' = wrote \o SubSeq(Values(runs), 1, n)
      /\ out' = DecodeRLE(PageBytes(runs), width, out, Len(out) + n)
  BY Zenon DEF ReadPage
<1>3. PICK o \in Seq(Nat), w \in Seq(Nat) : o = out /\ w = wrote
  BY Zenon, <1>1
<1>4. PICK m \in Nat : m = n
  BY ONLY <1>2
<1>5. PICK total \in Nat : total = Len(o) + m /\ Len(o) <= total
  BY ONLY o \in Seq(Nat), m \in Nat
<1>6. /\ Values(runs) \in Seq(Nat)
      /\ \E x \in ValuesRead(Values(runs), o, total, <<>>) :
           DecodeRLE(PageBytes(runs), width, o, total) = x[1]
  <2>1. DOMAIN runs = 1 .. k /\ (\A i \in DOMAIN runs : IsRun(runs[i])) /\ width \in 1 .. 9 /\ Len(o) <= total
    BY Zenon, <1>1, <1>2, <1>5
  <2>2. Values(runs) \in Seq(Nat)
    BY Zenon, <2>1, PageIs
  <2>3. \E x \in ValuesRead(Values(runs), o, total, <<>>) : DecodeRLE(PageBytes(runs), width, o, total) = x[1]
    BY ONLY <2>1, PageIs, k \in Nat, o \in Seq(Nat), total \in Nat
  <2>4. QED
    BY Zenon, <2>2, <2>3
<1>7. PICK v \in Seq(Nat) : v = Values(runs)
  BY Zenon, <1>6
<1>8. PICK x \in ValuesRead(v, o, total, <<>>) : out' = x[1]
  BY Zenon, <1>2, <1>3, <1>4, <1>5, <1>6, <1>7
<1>9. /\ x \in Seq(Nat) \X Seq(Nat) /\ Len(x[1]) = Least(total, Len(o) + Len(v))
      /\ width <= 8 => \A i \in 1 .. Len(x[1]) : x[1][i] = (o \o v)[i]
  BY ONLY x \in ValuesRead(v, o, total, <<>>) DEF ValuesRead
<1>10. PICK e \in Seq(Nat) : e = x[1]
  BY ONLY <1>9
<1>11. m \in 1 .. Len(v)
  BY Zenon, <1>2, <1>4, <1>7
<1>12. PICK l \in 1 .. Len(v) : l = m
  BY Zenon, <1>11
<1>13. Len(e) = Least(Len(o) + l, Len(o) + Len(v)) /\ (width <= 8 => \A i \in 1 .. Len(e) : e[i] = (o \o v)[i])
  BY Zenon, <1>5, <1>9, <1>10, <1>12
<1>14. PICK s : s = SubSeq(v, 1, l)
  OBVIOUS
<1>15. Len(e) = Len(o) + l /\ (width <= 8 => e = o \o s)
  <2>1. Len(e) = Len(o) + l
    BY Zenon, <1>13, PartLength
  <2>2. ASSUME width <= 8 PROVE e = o \o s
    BY Zenon, <1>13, <1>14, <2>1, <2>2, PartOf
  <2>3. QED
    BY Zenon, <2>1, <2>2
<1>16. s \in Seq(Nat) /\ Len(s) = l
  <2>1. l \in 0 .. Len(v)
    BY ONLY l \in 1 .. Len(v), v \in Seq(Nat)
  <2>2. QED
    BY ONLY <1>14, <2>1, v \in Seq(Nat), Prefix
<1>17. w \o s \in Seq(Nat) /\ Len(w \o s) = Len(w) + l
  <2>1. PICK t \in Seq(Nat) : t = s
    BY Zenon, <1>16
  <2>2. w \o t \in Seq(Nat) /\ Len(w \o t) = Len(w) + Len(t)
    BY ONLY Catenated, w \in Seq(Nat), t \in Seq(Nat)
  <2>3. QED
    BY Zenon, <1>16, <2>1, <2>2
<1>18. out' = e /\ wrote' = w \o s
  BY Zenon, <1>2, <1>3, <1>4, <1>7, <1>8, <1>10, <1>12, <1>14
<1>19. Len(out') = Len(wrote')
  BY Zenon, <1>1, <1>3, <1>15, <1>17, <1>18
<1>20. width' <= 8 => out' = wrote'
  BY Zenon, <1>1, <1>2, <1>3, <1>13, <1>15, <1>18
<1>21. out' \in Seq(Nat) /\ wrote' \in Seq(Nat) /\ width' \in Widths
  BY Zenon, <1>1, <1>2, <1>17, <1>18
<1>22. QED
  BY Zenon, <1>19, <1>20, <1>21 DEF ColumnsInv, ColumnsAreDecoded

LEMMA BatchKeepsColumns ==
  ASSUME ColumnsInv, NEW values, ReadBatch(values)
  PROVE  ColumnsInv'
<1>1. /\ out \in Seq(Nat) /\ wrote \in Seq(Nat) /\ width \in Widths /\ Len(out) = Len(wrote)
      /\ (width <= 8 => out = wrote) /\ width \in 1 .. 9
  BY ColumnAssumption DEF ColumnsInv, ColumnsAreDecoded
<1>2. /\ Len(values) = 32 /\ IsRun([packed |-> TRUE, values |-> values])
      /\ width' = width /\ wrote' = wrote \o values /\ out' = out \o Unpack32(PackedBytes(values), width)
  BY Zenon DEF ReadBatch
<1>3. PICK v \in Seq(Nat) : v = values /\ \A i \in 1 .. Len(v) : Shift(v[i], 2, width) = 0
  <2>1. PICK run : run = [packed |-> TRUE, values |-> values]
    OBVIOUS
  <2>2. run.values = values
    BY ONLY <2>1
  <2>3. run.values \in Seq(Nat) /\ \A i \in 1 .. Len(run.values) : Shift(run.values[i], 2, width) = 0
    BY Zenon, <1>2, <2>1, RunType
  <2>4. QED
    BY Zenon, <2>2, <2>3
<1>4. PICK u \in Seq(Nat) : u = Unpack32(PackedBytes(v), width) /\ Len(u) = Len(v) /\ (width <= 8 => u = v)
  <2>1. Len(v) = 32
    BY Zenon, <1>2, <1>3
  <2>2. LET b == Unpack32(PackedBytes(v), width) IN b \in Seq(Nat) /\ Len(b) = 32 /\ (width <= 8 => b = v)
    BY ONLY <1>1, <1>3, <2>1, v \in Seq(Nat), BatchIs
  <2>3. QED
    BY Zenon, <2>1, <2>2
<1>5. PICK o \in Seq(Nat), w \in Seq(Nat) : o = out /\ w = wrote
  BY Zenon, <1>1
<1>6. o \o u \in Seq(Nat) /\ Len(o \o u) = Len(o) + Len(u)
  BY ONLY Catenated, o \in Seq(Nat), u \in Seq(Nat)
<1>7. w \o v \in Seq(Nat) /\ Len(w \o v) = Len(w) + Len(v)
  BY ONLY Catenated, w \in Seq(Nat), v \in Seq(Nat)
<1>8. out' = o \o u /\ wrote' = w \o v
  BY Zenon, <1>2, <1>3, <1>4, <1>5
<1>9. Len(out') = Len(wrote') /\ (width' <= 8 => out' = wrote')
  BY Zenon, <1>1, <1>2, <1>4, <1>5, <1>6, <1>7, <1>8
<1>10. out' \in Seq(Nat) /\ wrote' \in Seq(Nat) /\ width' \in Widths
  BY Zenon, <1>1, <1>2, <1>6, <1>7, <1>8
<1>11. QED
  BY Zenon, <1>9, <1>10 DEF ColumnsInv, ColumnsAreDecoded

LEMMA ColumnsInitial == ColumnInit => ColumnsInv
BY DEF ColumnInit, ColumnsInv, ColumnsAreDecoded

LEMMA ColumnsStay == ColumnsInv /\ UNCHANGED <<width, out, wrote>> => ColumnsInv'
BY Zenon DEF ColumnsInv, ColumnsAreDecoded

\* Whatever pages and batches a writer lays out, of runs of either kind, the values
\* come back; beyond eight bits, as many of them (BitUnpackSIMD::DecodeRLE, Unpack32).
THEOREM ColumnsComeBack == Spec => []ColumnsAreDecoded
<1>1. Init => ColumnsInv
  BY Zenon, ColumnsInitial DEF Init
<1>2. ColumnsInv /\ [Next]_vars => ColumnsInv'
  <2>1. SUFFICES ASSUME ColumnsInv, [Next]_vars PROVE ColumnsInv'
    OBVIOUS
  <2>2. CASE PageNext
    <3>1. CASE \E n \in 1 .. MaxRuns : \E runs \in [1 .. n -> Runs(width)], short \in Short :
                 ReadPage(runs, Len(Values(runs)) - short)
      <4>1. PICK n \in 1 .. MaxRuns : \E runs \in [1 .. n -> Runs(width)], short \in Short :
                                        ReadPage(runs, Len(Values(runs)) - short)
        BY Zenon, <3>1
      <4>2. PICK runs \in [1 .. n -> Runs(width)], short \in Short : ReadPage(runs, Len(Values(runs)) - short)
        BY Zenon, <4>1
      <4>3. PICK k \in Nat : k = n
        BY LibrariesAssumption
      <4>4. DOMAIN runs = 1 .. k
        BY Zenon, <4>3
      <4>5. QED
        BY Zenon, <2>1, <4>2, <4>4, PageKeepsColumns
    <3>2. CASE \E a, b \in {r \in Runs(width) : Len(r.values) = 16} : ReadBatch(a.values \o b.values)
      BY Zenon, <2>1, <3>2, BatchKeepsColumns
    <3>3. QED
      BY Zenon, <2>2, <3>1, <3>2 DEF PageNext
  <2>3. CASE Open
    <3>1. UNCHANGED <<width, out, wrote>>
      BY ONLY <2>3 DEF Open
    <3>2. QED
      BY Zenon, <2>1, <3>1, ColumnsStay
  <2>4. CASE UNCHANGED columnVars
    BY Zenon, <2>1, <2>4, ColumnsStay DEF columnVars
  <2>5. QED
    BY Zenon, <2>1, <2>2, <2>3, <2>4 DEF Next, vars
<1>3. ColumnsInv => ColumnsAreDecoded
  BY Zenon DEF ColumnsInv
<1>4. QED
  BY <1>1, <1>2, <1>3, PTL DEF Spec

--------------------------------------------------------------------------------
(* Files of sections are read as they were written (wasm_parser.cpp).  First the *)
(* parts of which items are made.                                                *)

LEMMA SmallType == /\ \A n \in Small : n \in Nat /\ n < 128
                   /\ \A n \in Byte : n \in Nat
                   /\ FuncTag \in Nat
BY DEF Small, Byte, FuncTag

LEMMA ByteSeq == ASSUME NEW s \in Seq(Byte) PROVE s \in Seq(Nat)
<1>1. \A x \in Byte : x \in Nat
  BY Zenon, SmallType
<1>2. QED
  BY ONLY <1>1, s \in Seq(Byte)

LEMMA OneMore ==
  ASSUME NEW x \in Nat, NEW rest \in Seq(Nat)
  PROVE  /\ <<x>> \o rest \in Seq(Nat) /\ <<x>> \o rest # <<>> /\ Len(<<x>> \o rest) = Len(rest) + 1
         /\ Head(<<x>> \o rest) = x /\ Tail(<<x>> \o rest) = rest
<1>1. <<x>> \in Seq(Nat) /\ Len(<<x>>) = 1 /\ <<x>>[1] = x
  OBVIOUS
<1>2. PICK one \in Seq(Nat) : one = <<x>> /\ Len(one) = 1 /\ one[1] = x
  BY Zenon, <1>1
<1>3. PICK s \in Seq(Nat) : /\ s = one \o rest /\ Len(s) = Len(one) + Len(rest)
                            /\ \A i \in 1 .. Len(one) : s[i] = one[i]
                            /\ \A i \in 1 .. Len(rest) : s[Len(one) + i] = rest[i]
  <2>1. /\ one \o rest \in Seq(Nat) /\ Len(one \o rest) = Len(one) + Len(rest)
        /\ \A i \in 1 .. Len(one) : (one \o rest)[i] = one[i]
        /\ \A i \in 1 .. Len(rest) : (one \o rest)[Len(one) + i] = rest[i]
    BY ONLY Catenated, one \in Seq(Nat), rest \in Seq(Nat)
  <2>2. QED
    BY Zenon, <2>1
<1>4. PICK n \in Nat : n = Len(rest)
  BY ONLY rest \in Seq(Nat)
<1>5. Len(s) = n + 1 /\ s[1] = x /\ \A i \in 1 .. n : s[i + 1] = rest[i]
  BY ONLY <1>2, <1>3, <1>4
<1>6. s # <<>> /\ Head(s) = x /\ Tail(s) \in Seq(Nat) /\ Len(Tail(s)) = n /\ \A i \in 1 .. n : Tail(s)[i] = s[i + 1]
  BY ONLY <1>5, s \in Seq(Nat), n \in Nat
<1>7. PICK t \in Seq(Nat) : t = Tail(s) /\ Len(t) = Len(rest) /\ \A i \in 1 .. Len(rest) : t[i] = rest[i]
  BY Zenon, <1>4, <1>5, <1>6
<1>8. t = rest
  BY ONLY <1>7, Same, t \in Seq(Nat), rest \in Seq(Nat)
<1>9. QED
  BY Zenon, <1>2, <1>3, <1>4, <1>5, <1>6, <1>7, <1>8

LEMMA IntegerRead ==
  ASSUME NEW n \in Small, NEW pad, NEW rest \in Seq(Nat)
  PROVE  /\ Integer(n, pad) \in Seq(Nat) /\ Len(Integer(n, pad)) = IF pad THEN 2 ELSE 1
         /\ ReadVarUint32(Integer(n, pad) \o rest) = <<n, rest>>
<1>1. n \in Nat /\ n < 128
  BY Zenon, SmallType
<1>2. PICK low \in Nat, none \in Nat : low = n /\ low < 128 /\ none = 0 /\ none < 128
  BY <1>1
<1>3. CASE pad
  <2>1. Integer(n, pad) = <<low + 128, none>>
    BY Zenon, <1>2, <1>3 DEF Integer
  <2>2. <<low + 128, none>> \in Seq(Nat) /\ Len(<<low + 128, none>>) = 2
    BY ONLY low \in Nat, none \in Nat
  <2>3. LET s == <<low + 128, none>> \o rest
        IN  Number(Groups(s), 128) = low + 128 * none /\ Rest(s, VarSize(s)) = rest
    BY ONLY <1>2, TwoBytesRead, low \in Nat, none \in Nat, rest \in Seq(Nat)
  <2>4. low + 128 * none = n
    BY ONLY <1>2, low \in Nat
  <2>5. QED
    BY Zenon, <1>3, <2>1, <2>2, <2>3, <2>4 DEF ReadVarUint32
<1>4. CASE ~pad
  <2>1. Integer(n, pad) = <<low>>
    BY Zenon, <1>2, <1>4 DEF Integer
  <2>2. <<low>> \in Seq(Nat) /\ Len(<<low>>) = 1
    BY ONLY low \in Nat
  <2>3. LET s == <<low>> \o rest
        IN  Number(Groups(s), 128) = low /\ Rest(s, VarSize(s)) = rest
    BY Zenon, <1>2, OneByteRead
  <2>4. QED
    BY Zenon, <1>2, <1>4, <2>1, <2>2, <2>3 DEF ReadVarUint32
<1>5. QED
  BY Zenon, <1>3, <1>4

LEMMA BytesRead ==
  ASSUME NEW data \in Seq(Nat), Len(data) \in Small, NEW pad, NEW rest \in Seq(Nat)
  PROVE  /\ Bytes(data, pad) \in Seq(Nat)
         /\ ReadBytes(Bytes(data, pad) \o rest) = <<data, rest>> /\ ReadString(Bytes(data, pad) \o rest) = <<data, rest>>
<1>1. PICK n \in Small : n = Len(data)
  BY Zenon
<1>2. PICK head \in Seq(Nat) : head = Integer(n, pad)
  <2>1. <<>> \in Seq(Nat)
    OBVIOUS
  <2>2. QED
    BY Zenon, <2>1, IntegerRead
<1>3. Bytes(data, pad) = head \o data
  BY Zenon, <1>1, <1>2 DEF Bytes
<1>4. head \o data \in Seq(Nat) /\ (head \o data) \o rest = head \o (data \o rest) /\ data \o rest \in Seq(Nat)
  <2>1. head \o data \in Seq(Nat)
    BY ONLY Catenated, head \in Seq(Nat), data \in Seq(Nat)
  <2>2. QED
    BY Zenon, <2>1, GroupedBytes
<1>5. PICK tail \in Seq(Nat) : tail = data \o rest
  BY Zenon, <1>4
<1>6. ReadVarUint32(head \o tail) = <<n, tail>>
  BY Zenon, <1>2, IntegerRead
<1>7. SubSeq(tail, 1, n) = data /\ Rest(tail, n) = rest
  <2>1. SubSeq(data \o rest, 1, Len(data)) = data /\ Rest(data \o rest, Len(data)) = rest
    BY Zenon, Parts
  <2>2. QED
    BY Zenon, <1>1, <1>5, <2>1
<1>8. ~(Len(tail) < n)
  <2>1. PICK a \in Nat, b \in Nat : a = Len(data) /\ b = Len(rest)
    BY ONLY data \in Seq(Nat), rest \in Seq(Nat)
  <2>2. Len(data \o rest) = Len(data) + Len(rest)
    BY ONLY Catenated, data \in Seq(Nat), rest \in Seq(Nat)
  <2>3. Len(tail) = a + b /\ n = a
    BY Zenon, <1>1, <1>5, <2>1, <2>2
  <2>4. QED
    BY ONLY <2>3, a \in Nat, b \in Nat
<1>9. <<n, tail>>[1] = n /\ <<n, tail>>[2] = tail
  OBVIOUS
<1>10. ReadBytes(head \o tail) = <<data, rest>>
  BY Zenon, <1>6, <1>7, <1>9 DEF ReadBytes
<1>11. ReadString(head \o tail) = <<data, rest>>
  BY Zenon, <1>6, <1>8, <1>9, <1>10 DEF ReadString
<1>12. QED
  BY Zenon, <1>3, <1>4, <1>5, <1>10, <1>11

--------------------------------------------------------------------------------
(* Items. *)

LEMMA Sections4 ==
  /\ TypeSection # FunctionSection /\ TypeSection # ExportSection /\ TypeSection # CodeSection
  /\ FunctionSection # ExportSection /\ FunctionSection # CodeSection /\ ExportSection # CodeSection
BY DEF TypeSection, FunctionSection, ExportSection, CodeSection

LEMMA ItemsOfType ==
  ASSUME NEW item, NEW pad
  PROVE  /\ ItemBytes(TypeSection, item, pad) = <<FuncTag>> \o Bytes(item.params, pad) \o Bytes(item.returns, pad)
         /\ Item(TypeSection, pad) = [params : Data, returns : Data]
         /\ \A stream : ReadItem(TypeSection, stream) = ReadType(stream)
BY Zenon, Sections4 DEF ItemBytes, Item, ReadItem

LEMMA ItemsOfFunction ==
  ASSUME NEW item, NEW pad
  PROVE  /\ ItemBytes(FunctionSection, item, pad) = Integer(item, pad)
         /\ Item(FunctionSection, pad) = Small
         /\ \A stream : ReadItem(FunctionSection, stream) = ReadVarUint32(stream)
BY Zenon, Sections4 DEF ItemBytes, Item, ReadItem

LEMMA ItemsOfExport ==
  ASSUME NEW item, NEW pad
  PROVE  /\ ItemBytes(ExportSection, item, pad) = Bytes(item.name, pad) \o <<item.kind>> \o Integer(item.index, pad)
         /\ Item(ExportSection, pad) = [name : Data, kind : Byte, index : Small]
         /\ \A stream : ReadItem(ExportSection, stream) = ReadExport(stream)
BY Zenon, Sections4 DEF ItemBytes, Item, ReadItem

LEMMA ItemsOfCode ==
  ASSUME NEW item, NEW pad
  PROVE  /\ ItemBytes(CodeSection, item, pad) = Bytes(BodyBytes(item, pad), pad)
         /\ Item(CodeSection, pad) = {body \in [locals : Seq(Small \X Byte), code : Seq(Byte)] :
                                        Len(body.locals) \in Small /\ Len(BodyBytes(body, pad)) \in Small}
         /\ \A stream : ReadItem(CodeSection, stream) = ReadBody(stream)
BY Zenon, Sections4 DEF ItemBytes, Item, ReadItem

Known == {TypeSection, FunctionSection, ExportSection, CodeSection}

LEMMA OtherItems ==
  ASSUME NEW item, NEW pad, NEW id, id \notin Known
  PROVE  /\ ItemBytes(id, item, pad) = <<item>> /\ Item(id, pad) = Byte
         /\ \A m, items : WithItems(m, id, items) = m
BY DEF ItemBytes, Item, WithItems, Known, TypeSection, FunctionSection, ExportSection, CodeSection

LEMMA DataType == ASSUME NEW d \in Data PROVE d \in Seq(Nat) /\ Len(d) \in Small
<1>1. d \in Seq(Byte) /\ Len(d) \in Small
  BY Zenon DEF Data
<1>2. QED
  BY Zenon, <1>1, ByteSeq

\* Three parts and what follows them.
LEMMA Regrouped ==
  ASSUME NEW a \in Seq(Nat), NEW b \in Seq(Nat), NEW c \in Seq(Nat)
  PROVE  (a \o b) \o c = a \o (b \o c)
BY Zenon, GroupedBytes

LEMMA TwoParts == ASSUME NEW a \in Seq(Nat), NEW b \in Seq(Nat) PROVE a \o b \in Seq(Nat)
BY ONLY Catenated, a \in Seq(Nat), b \in Seq(Nat)

Regroups(a, b, c, rest) == (a \o b \o c) \o rest = a \o (b \o (c \o rest))

LEMMA ThreeParts ==
  ASSUME NEW a \in Seq(Nat), NEW b \in Seq(Nat), NEW c \in Seq(Nat), NEW rest \in Seq(Nat)
  PROVE  Regroups(a, b, c, rest)
<1>1. PICK ab \in Seq(Nat), cr \in Seq(Nat) : ab = a \o b /\ cr = c \o rest
  BY Zenon, TwoParts
<1>2. (ab \o c) \o rest = ab \o (c \o rest)
  BY Zenon, Regrouped
<1>3. (a \o b) \o cr = a \o (b \o cr)
  BY ZenonT(40), Regrouped
<1>4. QED
  BY Zenon, <1>1, <1>2, <1>3 DEF Regroups

LEMMA ThreeType ==
  ASSUME NEW a \in Seq(Nat), NEW b \in Seq(Nat), NEW c \in Seq(Nat)
  PROVE  a \o b \o c \in Seq(Nat)
<1>1. PICK ab \in Seq(Nat) : ab = a \o b
  BY Zenon, TwoParts
<1>2. ab \o c \in Seq(Nat)
  BY Zenon, TwoParts
<1>3. QED
  BY Zenon, <1>1, <1>2

LEMMA DataRead ==
  ASSUME NEW d \in Data, NEW pad
  PROVE  /\ Bytes(d, pad) \in Seq(Nat)
         /\ \A rest \in Seq(Nat) : /\ ReadBytes(Bytes(d, pad) \o rest) = <<d, rest>>
                                   /\ ReadString(Bytes(d, pad) \o rest) = <<d, rest>>
<1>1. d \in Seq(Nat) /\ Len(d) \in Small
  BY Zenon, DataType
<1>2. <<>> \in Seq(Nat)
  OBVIOUS
<1>3. QED
  BY Zenon, <1>1, <1>2, BytesRead

LEMMA Single == ASSUME NEW n \in Nat PROVE <<n>> \in Seq(Nat)
OBVIOUS

LEMMA TypeRead ==
  ASSUME NEW pad, NEW item, item \in Item(TypeSection, pad), NEW rest \in Seq(Nat)
  PROVE  LET b == ItemBytes(TypeSection, item, pad)
         IN  /\ b \in Seq(Nat) /\ ReadItem(TypeSection, b \o rest) = <<item, rest>>
             /\ b \o rest # <<>> /\ Head(b \o rest) = FuncTag
<1>1. item \in [params : Data, returns : Data]
  BY Zenon, ItemsOfType
<1>2. item = [params |-> item.params, returns |-> item.returns] /\ item.params \in Data /\ item.returns \in Data
  BY ONLY <1>1
<1>3. PICK params \in Data, returns \in Data : params = item.params /\ returns = item.returns
  BY Zenon, <1>2
<1>4. PICK x \in Seq(Nat), y \in Seq(Nat) : x = Bytes(params, pad) /\ y = Bytes(returns, pad)
  BY Zenon, DataRead
<1>5. PICK yr \in Seq(Nat) : yr = y \o rest /\ ReadBytes(yr) = <<returns, rest>>
  <2>1. y \o rest \in Seq(Nat)
    BY ONLY Catenated, y \in Seq(Nat), rest \in Seq(Nat)
  <2>2. ReadBytes(y \o rest) = <<returns, rest>>
    BY Zenon, <1>4, DataRead
  <2>3. QED
    BY Zenon, <2>1, <2>2
<1>6. PICK xr \in Seq(Nat) : xr = x \o yr /\ ReadBytes(xr) = <<params, yr>>
  <2>1. x \o yr \in Seq(Nat)
    BY ONLY Catenated, x \in Seq(Nat), yr \in Seq(Nat)
  <2>2. ReadBytes(x \o yr) = <<params, yr>>
    BY Zenon, <1>4, DataRead
  <2>3. QED
    BY Zenon, <2>1, <2>2
<1>7. PICK tag \in Nat : tag = FuncTag
  BY Zenon, SmallType
<1>8. <<tag>> \o xr # <<>> /\ Head(<<tag>> \o xr) = tag /\ Tail(<<tag>> \o xr) = xr
  BY Zenon, OneMore
<1>9. /\ (<<tag>> \o x \o y) \o rest = <<tag>> \o xr /\ <<tag>> \o x \o y \in Seq(Nat)
  <2>1. <<tag>> \in Seq(Nat)
    BY Zenon, Single
  <2>2. Regroups(<<tag>>, x, y, rest)
    BY Zenon, <2>1, ThreeParts
  <2>3. <<tag>> \o x \o y \in Seq(Nat)
    BY Zenon, <2>1, ThreeType
  <2>4. QED
    BY Zenon, <1>5, <1>6, <2>2, <2>3 DEF Regroups
<1>10. ItemBytes(TypeSection, item, pad) = <<tag>> \o x \o y
  BY Zenon, <1>3, <1>4, <1>7, ItemsOfType
<1>11. ReadType(<<tag>> \o xr) = <<[params |-> params, returns |-> returns], rest>>
  <2>1. /\ <<params, yr>>[1] = params /\ <<params, yr>>[2] = yr
        /\ <<returns, rest>>[1] = returns /\ <<returns, rest>>[2] = rest
    OBVIOUS
  <2>2. QED
    BY Zenon, <1>5, <1>6, <1>8, <2>1 DEF ReadType
<1>12. ReadItem(TypeSection, <<tag>> \o xr) = <<item, rest>>
  BY Zenon, <1>2, <1>3, <1>11, ItemsOfType
<1>13. QED
  BY Zenon, <1>7, <1>8, <1>9, <1>10, <1>12

LEMMA FunctionRead ==
  ASSUME NEW pad, NEW item, item \in Item(FunctionSection, pad), NEW rest \in Seq(Nat)
  PROVE  LET b == ItemBytes(FunctionSection, item, pad)
         IN  b \in Seq(Nat) /\ ReadItem(FunctionSection, b \o rest) = <<item, rest>>
<1>1. PICK n \in Small : n = item
  BY Zenon, ItemsOfFunction
<1>2. Integer(n, pad) \in Seq(Nat) /\ ReadVarUint32(Integer(n, pad) \o rest) = <<n, rest>>
  BY Zenon, IntegerRead
<1>3. QED
  BY Zenon, <1>1, <1>2, ItemsOfFunction

LEMMA ExportRead ==
  ASSUME NEW pad, NEW item, item \in Item(ExportSection, pad), NEW rest \in Seq(Nat)
  PROVE  LET b == ItemBytes(ExportSection, item, pad)
         IN  b \in Seq(Nat) /\ ReadItem(ExportSection, b \o rest) = <<item, rest>>
<1>1. item \in [name : Data, kind : Byte, index : Small]
  BY Zenon, ItemsOfExport
<1>2. /\ item = [name |-> item.name, kind |-> item.kind, index |-> item.index]
      /\ item.name \in Data /\ item.kind \in Byte /\ item.index \in Small
  BY ONLY <1>1
<1>3. PICK name \in Data, kind \in Nat, index \in Small : name = item.name /\ kind = item.kind /\ index = item.index
  BY Zenon, <1>2, SmallType
<1>4. PICK x \in Seq(Nat), y \in Seq(Nat) : x = Bytes(name, pad) /\ y = Integer(index, pad)
  <2>1. <<>> \in Seq(Nat)
    OBVIOUS
  <2>2. QED
    BY Zenon, <2>1, DataRead, IntegerRead
<1>5. PICK yr \in Seq(Nat) : yr = y \o rest /\ ReadVarUint32(yr) = <<index, rest>>
  <2>1. y \o rest \in Seq(Nat)
    BY ONLY Catenated, y \in Seq(Nat), rest \in Seq(Nat)
  <2>2. ReadVarUint32(y \o rest) = <<index, rest>>
    BY Zenon, <1>4, IntegerRead
  <2>3. QED
    BY Zenon, <2>1, <2>2
<1>6. PICK ky \in Seq(Nat) : ky = <<kind>> \o yr /\ Head(ky) = kind /\ Tail(ky) = yr
  BY Zenon, OneMore
<1>7. ReadString(x \o ky) = <<name, ky>>
  BY Zenon, <1>4, DataRead
<1>8. (x \o <<kind>> \o y) \o rest = x \o ky /\ x \o <<kind>> \o y \in Seq(Nat)
  <2>1. <<kind>> \in Seq(Nat)
    BY Zenon, Single
  <2>2. Regroups(x, <<kind>>, y, rest)
    BY Zenon, <2>1, ThreeParts
  <2>3. x \o <<kind>> \o y \in Seq(Nat)
    BY Zenon, <2>1, ThreeType
  <2>4. QED
    BY Zenon, <1>5, <1>6, <2>2, <2>3 DEF Regroups
<1>9. ItemBytes(ExportSection, item, pad) = x \o <<kind>> \o y
  BY Zenon, <1>3, <1>4, ItemsOfExport
<1>10. ReadExport(x \o ky) = <<[name |-> name, kind |-> kind, index |-> index], rest>>
  <2>1. /\ <<name, ky>>[1] = name /\ <<name, ky>>[2] = ky
        /\ <<index, rest>>[1] = index /\ <<index, rest>>[2] = rest
    OBVIOUS
  <2>2. QED
    BY Zenon, <1>5, <1>6, <1>7, <2>1 DEF ReadExport
<1>11. ReadItem(ExportSection, x \o ky) = <<item, rest>>
  BY Zenon, <1>2, <1>3, <1>10, ItemsOfExport
<1>12. QED
  BY Zenon, <1>8, <1>9, <1>11

--------------------------------------------------------------------------------
(* One item after another. *)

\* What is left before the first of the spans, after each, and after all.
Tails(spans, rest, q) ==
  /\ q \in [0 .. Len(spans) -> Seq(Nat)] /\ q[Len(spans)] = rest /\ q[0] = FlattenSeq(spans) \o rest
  /\ \A i \in 1 .. Len(spans) : q[i - 1] = spans[i] \o q[i]

LEMMA TailsExist ==
  ASSUME NEW spans, spans \in Seq(Seq(Nat)), NEW rest \in Seq(Nat)
  PROVE  \E q : Tails(spans, rest, q)
<1>1. PICK n \in Nat : n = Len(spans)
  OBVIOUS
<1>2. PICK p, r : Laid(Nat, spans, p, r)
  BY Flattened
<1>3. /\ r \in [0 .. n -> Seq(Nat)] /\ r[n] = <<>> /\ r[0] = FlattenSeq(spans)
      /\ \A i \in 1 .. n : r[i - 1] = spans[i] \o r[i]
  BY Zenon, <1>1, <1>2 DEF Laid
<1>4. \A i \in 1 .. n : spans[i] \in Seq(Nat) /\ i \in 0 .. n /\ i - 1 \in 0 .. n
  BY <1>1
<1> DEFINE q == [i \in 0 .. n |-> r[i] \o rest]
<1>5. \A i \in 0 .. n : r[i] \in Seq(Nat)
  BY ONLY <1>3
<1>6. \A i \in 0 .. n : r[i] \o rest \in Seq(Nat)
  BY Zenon, <1>5, TwoParts
<1>7. q \in [0 .. n -> Seq(Nat)]
  BY Zenon, <1>6
<1>8. 0 \in 0 .. n /\ n \in 0 .. n
  BY ONLY n \in Nat
<1>9. q[n] = rest
  BY Zenon, <1>3, <1>8, Nothing0
<1>10. q[0] = FlattenSeq(spans) \o rest
  BY Zenon, <1>3, <1>8
<1>11. ASSUME NEW i \in 1 .. n PROVE q[i - 1] = spans[i] \o q[i]
  <2>1. PICK a \in Seq(Nat), b \in Seq(Nat) : a = spans[i] /\ b = r[i]
    BY Zenon, <1>4, <1>5
  <2>2. r[i - 1] = a \o b
    BY Zenon, <1>3, <2>1
  <2>3. (a \o b) \o rest = a \o (b \o rest)
    BY Zenon, Regrouped
  <2>4. q[i - 1] = r[i - 1] \o rest /\ q[i] = r[i] \o rest
    BY Zenon, <1>4
  <2>5. QED
    BY Zenon, <2>1, <2>2, <2>3, <2>4
<1> HIDE DEF q
<1>12. Tails(spans, rest, q)
  BY Zenon, <1>1, <1>7, <1>9, <1>10, <1>11 DEF Tails
<1>13. QED
  BY Zenon, <1>12

\* A loop is told by its turns.
SameTurns(n, c, h) == \A i \in 1 .. n : c[i - 1] = h[i - 1] => c[i] = h[i]
Agree(n, c, h) == \A i \in 0 .. n : c[i] = h[i]

LEMMA LoopsAgree ==
  ASSUME NEW n \in Nat, NEW c, NEW h, c[0] = h[0], SameTurns(n, c, h)
  PROVE  Agree(n, c, h)
<1> DEFINE P == {i \in 0 .. n : c[i] = h[i]}
<1>1. 0 \in P
  OBVIOUS
<1>2. ASSUME NEW i \in 1 .. n, i - 1 \in P PROVE i \in P
  BY <1>2 DEF SameTurns
<1> HIDE DEF P
<1>3. \A i \in 0 .. n : i \in P
  BY <1>1, <1>2, UpTo
<1>4. QED
  BY <1>3 DEF P, Agree

\* What was read after each turn.
LEMMA ReadSoFar ==
  ASSUME NEW T, NEW items \in Seq(T)
  PROVE  /\ SubSeq(items, 1, 0) = <<>> /\ SubSeq(items, 1, Len(items)) = items
         /\ \A i \in 1 .. Len(items) : Append(SubSeq(items, 1, i - 1), items[i]) = SubSeq(items, 1, i)
<1>1. PICK n \in Nat : n = Len(items)
  BY ONLY items \in Seq(T)
<1>2. \A i \in 0 .. n : /\ SubSeq(items, 1, i) \in Seq(T) /\ Len(SubSeq(items, 1, i)) = i
                        /\ \A j \in 1 .. i : SubSeq(items, 1, i)[j] = items[j]
  BY Zenon, <1>1, Prefix
<1>3. SubSeq(items, 1, 0) = <<>>
  <2>1. SubSeq(items, 1, 0) \in Seq(T) /\ Len(SubSeq(items, 1, 0)) = 0
    BY ONLY <1>2, n \in Nat
  <2>2. QED
    BY Zenon, <2>1, Nothing0
<1>4. SubSeq(items, 1, n) = items
  <2>1. PICK s \in Seq(T) : s = SubSeq(items, 1, n) /\ Len(s) = n /\ \A j \in 1 .. n : s[j] = items[j]
    <3>1. n \in 0 .. n
      BY ONLY n \in Nat
    <3>2. QED
      BY Zenon, <1>2, <3>1
  <2>2. s = items
    BY ONLY <1>1, <2>1, Same, s \in Seq(T), items \in Seq(T)
  <2>3. QED
    BY Zenon, <2>1, <2>2
<1>5. ASSUME NEW i \in 1 .. n PROVE Append(SubSeq(items, 1, i - 1), items[i]) = SubSeq(items, 1, i)
  <2>1. i - 1 \in 0 .. n /\ i \in 0 .. n /\ i \in Nat /\ i - 1 \in Nat
    BY ONLY i \in 1 .. n, n \in Nat
  <2>2. PICK s \in Seq(T) : s = SubSeq(items, 1, i) /\ Len(s) = i /\ \A j \in 1 .. i : s[j] = items[j]
    BY Zenon, <1>2, <2>1
  <2>3. PICK t \in Seq(T) : t = SubSeq(items, 1, i - 1) /\ Len(t) = i - 1 /\ \A j \in 1 .. i - 1 : t[j] = items[j]
    BY Zenon, <1>2, <2>1
  <2>4. items[i] \in T
    BY ONLY <1>1, items \in Seq(T), i \in 1 .. n
  <2>5. PICK e \in T : e = items[i]
    BY Zenon, <2>4
  <2>6. Append(t, e) \in Seq(T) /\ Len(Append(t, e)) = i /\ Append(t, e)[i] = e /\ \A j \in 1 .. i - 1 : Append(t, e)[j] = t[j]
    BY ONLY <2>1, <2>3, t \in Seq(T), e \in T
  <2>7. PICK a \in Seq(T) : a = Append(t, e) /\ Len(a) = i /\ a[i] = e /\ \A j \in 1 .. i - 1 : a[j] = t[j]
    BY Zenon, <2>6
  <2>8. \A j \in 1 .. i : j = i \/ j \in 1 .. i - 1
    BY ONLY <2>1
  <2>9. \A j \in 1 .. i : a[j] = s[j]
    BY Zenon, <2>2, <2>3, <2>5, <2>7, <2>8
  <2>10. a = s
    BY ONLY <2>2, <2>7, <2>9, Same, a \in Seq(T), s \in Seq(T)
  <2>11. QED
    BY Zenon, <2>2, <2>3, <2>5, <2>7, <2>10
<1>6. QED
  BY Zenon, <1>1, <1>3, <1>4, <1>5

LocalSpans(locals, pad) == [l \in DOMAIN locals |-> Integer(locals[l][1], pad) \o <<locals[l][2]>>]

LEMMA LocalRead ==
  ASSUME NEW local \in Small \X Byte, NEW pad
  PROVE  /\ Integer(local[1], pad) \o <<local[2]>> \in Seq(Nat)
         /\ \A rest \in Seq(Nat) :
              LET num == ReadVarUint32((Integer(local[1], pad) \o <<local[2]>>) \o rest)
              IN  <<num[1], Head(num[2])>> = local /\ Tail(num[2]) = rest
<1>1. local = <<local[1], local[2]>> /\ local[1] \in Small /\ local[2] \in Byte
  BY ONLY local \in Small \X Byte
<1>2. PICK n \in Small, b \in Nat : n = local[1] /\ b = local[2]
  BY Zenon, <1>1, SmallType
<1>3. <<>> \in Seq(Nat)
  OBVIOUS
<1>4. PICK x \in Seq(Nat), y \in Seq(Nat) : x = Integer(n, pad) /\ y = <<b>>
  BY Zenon, <1>3, IntegerRead, Single
<1>5. x \o y \in Seq(Nat)
  BY Zenon, TwoParts
<1>6. ASSUME NEW rest \in Seq(Nat)
      PROVE  LET num == ReadVarUint32((x \o y) \o rest)
             IN  <<num[1], Head(num[2])>> = local /\ Tail(num[2]) = rest
  <2>1. PICK s \in Seq(Nat) : s = y \o rest /\ Head(s) = b /\ Tail(s) = rest
    BY Zenon, <1>4, OneMore
  <2>2. (x \o y) \o rest = x \o s
    <3>1. (x \o y) \o rest = x \o (y \o rest)
      BY Zenon, Regrouped
    <3>2. QED
      BY Zenon, <2>1, <3>1
  <2>3. ReadVarUint32(x \o s) = <<n, s>>
    BY Zenon, <1>4, IntegerRead
  <2>4. <<n, s>>[1] = n /\ <<n, s>>[2] = s
    OBVIOUS
  <2>5. QED
    BY Zenon, <1>1, <1>2, <2>1, <2>2, <2>3, <2>4
<1>7. QED
  BY Zenon, <1>2, <1>4, <1>5, <1>6

LEMMA LocalsRead ==
  ASSUME NEW locals \in Seq(Small \X Byte), Len(locals) \in Small, NEW pad, NEW code \in Seq(Nat)
  PROVE  LET b == Integer(Len(locals), pad) \o FlattenSeq(LocalSpans(locals, pad)) \o code
         IN  b \in Seq(Nat) /\ ReadLocals(b) = <<locals, code>>
<1>1. PICK n \in Nat : n = Len(locals) /\ n \in Small /\ DOMAIN locals = 1 .. n
  BY ONLY locals \in Seq(Small \X Byte), Len(locals) \in Small
<1>2. \A l \in 1 .. n : locals[l] \in Small \X Byte
  BY ONLY <1>1, locals \in Seq(Small \X Byte)
<1>3. PICK spans : spans = LocalSpans(locals, pad)
  OBVIOUS
<1>4. \A l \in 1 .. n : spans[l] = Integer(locals[l][1], pad) \o <<locals[l][2]>> /\ spans[l] \in Seq(Nat)
  BY Zenon, <1>1, <1>2, <1>3, LocalRead DEF LocalSpans
<1>5. spans = [l \in 1 .. n |-> spans[l]]
  BY Zenon, <1>1, <1>3 DEF LocalSpans
<1>6. spans \in Seq(Seq(Nat)) /\ Len(spans) = n
  <2>1. spans \in [1 .. n -> Seq(Nat)]
    BY Zenon, <1>4, <1>5
  <2>2. QED
    BY ONLY <2>1, n \in Nat
<1>7. PICK q : Tails(spans, code, q)
  BY Zenon, <1>6, TailsExist
<1>8. /\ q \in [0 .. n -> Seq(Nat)] /\ q[n] = code /\ q[0] = FlattenSeq(spans) \o code
      /\ \A l \in 1 .. n : q[l - 1] = spans[l] \o q[l]
  BY Zenon, <1>6, <1>7 DEF Tails
<1>9. \A l \in 1 .. n : l \in 0 .. n /\ l - 1 \in 0 .. n /\ l # 0
  BY ONLY n \in Nat
<1>10. 0 \in 0 .. n /\ n \in 0 .. n
  BY ONLY n \in Nat
<1>11. \A l \in 0 .. n : q[l] \in Seq(Nat)
  BY ONLY <1>8
<1>12. PICK x \in Seq(Nat) : x = Integer(n, pad)
  <2>1. <<>> \in Seq(Nat)
    OBVIOUS
  <2>2. QED
    BY Zenon, <1>1, <2>1, IntegerRead
<1>13. PICK flat \in Seq(Nat) : flat = FlattenSeq(spans)
  BY Zenon, <1>6, Flattened
<1>14. PICK b \in Seq(Nat) : b = x \o flat \o code /\ b = x \o q[0]
  <2>1. (x \o flat) \o code = x \o (flat \o code)
    BY Zenon, Regrouped
  <2>2. x \o flat \o code \in Seq(Nat)
    BY Zenon, ThreeType
  <2>3. QED
    BY Zenon, <1>8, <1>13, <2>1, <2>2
<1>15. ReadVarUint32(b) = <<n, q[0]>>
  <2>1. PICK m \in Small, t \in Seq(Nat) : m = n /\ t = q[0]
    BY Zenon, <1>1, <1>10, <1>11
  <2>2. ReadVarUint32(Integer(m, pad) \o t) = <<m, t>>
    BY Zenon, IntegerRead
  <2>3. QED
    BY Zenon, <1>12, <1>14, <2>1, <2>2
<1> DEFINE Turn(r) == LET num == ReadVarUint32(r[2])
                      IN  <<Append(r[1], <<num[1], Head(num[2])>>), Tail(num[2])>>
           IsRead(c) == c = [l \in 0 .. n |-> IF l = 0 THEN <<<<>>, q[0]>> ELSE Turn(c[l - 1])]
           h == [l \in 0 .. n |-> <<SubSeq(locals, 1, l), q[l]>>]
<1>16. ReadLocals(b) = (CHOOSE c : IsRead(c))[n]
  <2>1. ReadVarUint32(b)[1] = n /\ ReadVarUint32(b)[2] = q[0]
    BY ONLY <1>15
  <2>2. QED
    BY Zenon, <2>1 DEF ReadLocals
<1>17. h[0] = <<<<>>, q[0]>> /\ h[n] = <<locals, code>>
  <2>1. SubSeq(locals, 1, 0) = <<>> /\ SubSeq(locals, 1, n) = locals
    BY Zenon, <1>1, ReadSoFar
  <2>2. QED
    BY Zenon, <1>8, <1>10, <2>1
<1>18. ASSUME NEW l \in 1 .. n PROVE h[l] = Turn(h[l - 1])
  <2>1. h[l] = <<SubSeq(locals, 1, l), q[l]>> /\ h[l - 1] = <<SubSeq(locals, 1, l - 1), q[l - 1]>>
    BY Zenon, <1>9
  <2>2. LET num == ReadVarUint32(q[l - 1]) IN <<num[1], Head(num[2])>> = locals[l] /\ Tail(num[2]) = q[l]
    <3>1. q[l - 1] = (Integer(locals[l][1], pad) \o <<locals[l][2]>>) \o q[l]
      BY Zenon, <1>4, <1>8
    <3>2. PICK local \in Small \X Byte, rest \in Seq(Nat) : local = locals[l] /\ rest = q[l]
      BY Zenon, <1>2, <1>9, <1>11
    <3>3. q[l - 1] = (Integer(local[1], pad) \o <<local[2]>>) \o rest
      BY Zenon, <3>1, <3>2
    <3>4. LET num == ReadVarUint32((Integer(local[1], pad) \o <<local[2]>>) \o rest)
          IN  <<num[1], Head(num[2])>> = local /\ Tail(num[2]) = rest
      BY Zenon, LocalRead
    <3>5. QED
      BY Zenon, <3>2, <3>3, <3>4
  <2>3. Append(SubSeq(locals, 1, l - 1), locals[l]) = SubSeq(locals, 1, l)
    BY Zenon, <1>1, ReadSoFar
  <2> HIDE DEF h
  <2>4. h[l - 1][1] = SubSeq(locals, 1, l - 1) /\ h[l - 1][2] = q[l - 1]
    BY ONLY <2>1
  <2>5. QED
    BY Zenon, <2>1, <2>2, <2>3, <2>4
<1> HIDE DEF Turn
<1>19. IsRead(h)
  <2>1. \A l \in 0 .. n : h[l] = IF l = 0 THEN <<<<>>, q[0]>> ELSE Turn(h[l - 1])
    <3>1. \A l \in 0 .. n : l # 0 => l \in 1 .. n
      BY ONLY n \in Nat
    <3> HIDE DEF h
    <3>2. QED
      BY Zenon, <1>17, <1>18, <3>1
  <2>2. h = [l \in 0 .. n |-> h[l]]
    BY Zenon
  <2> HIDE DEF h
  <2>3. QED
    BY ONLY <2>1, <2>2
<1> HIDE DEF h
<1>20. PICK c : IsRead(c) /\ ReadLocals(b) = c[n]
  <2> HIDE DEF IsRead
  <2>1. QED
    BY Zenon, <1>16, <1>19
<1>21. c[0] = h[0] /\ \A l \in 1 .. n : c[l] = Turn(c[l - 1])
  <2>1. \A l \in 0 .. n : c[l] = IF l = 0 THEN <<<<>>, q[0]>> ELSE Turn(c[l - 1])
    BY ONLY <1>20
  <2>2. QED
    BY Zenon, <1>9, <1>10, <1>17, <2>1
<1> HIDE DEF IsRead
<1>22. SameTurns(n, c, h)
  BY Zenon, <1>18, <1>21 DEF SameTurns
<1>23. c[n] = h[n]
  <2>1. Agree(n, c, h)
    BY Zenon, <1>21, <1>22, LoopsAgree
  <2>2. QED
    BY Zenon, <1>10, <2>1 DEF Agree
<1>24. QED
  BY Zenon, <1>1, <1>3, <1>12, <1>13, <1>14, <1>17, <1>20, <1>23

LEMMA BodyRead ==
  ASSUME NEW pad, NEW item, item \in Item(CodeSection, pad), NEW rest \in Seq(Nat)
  PROVE  LET b == ItemBytes(CodeSection, item, pad)
         IN  b \in Seq(Nat) /\ ReadItem(CodeSection, b \o rest) = <<item, rest>>
<1>1. /\ item \in [locals : Seq(Small \X Byte), code : Seq(Byte)]
      /\ Len(item.locals) \in Small /\ Len(BodyBytes(item, pad)) \in Small
  BY Zenon, ItemsOfCode
<1>2. /\ item = [locals |-> item.locals, code |-> item.code]
      /\ item.locals \in Seq(Small \X Byte) /\ item.code \in Seq(Byte)
  BY ONLY <1>1
<1>3. PICK locals \in Seq(Small \X Byte), code \in Seq(Nat) : locals = item.locals /\ code = item.code
  BY Zenon, <1>2, ByteSeq
<1>4. PICK body : body = Integer(Len(locals), pad) \o FlattenSeq(LocalSpans(locals, pad)) \o code
  OBVIOUS
<1>5. BodyBytes(item, pad) = body
  BY Zenon, <1>3, <1>4 DEF BodyBytes, LocalSpans
<1>6. Len(locals) \in Small
  BY Zenon, <1>1, <1>3
<1>7. body \in Seq(Nat) /\ ReadLocals(body) = <<locals, code>>
  BY Zenon, <1>4, <1>6, LocalsRead
<1>8. PICK data \in Seq(Nat) : data = body /\ Len(data) \in Small
  BY Zenon, <1>1, <1>5, <1>7
<1>9. Bytes(data, pad) \in Seq(Nat) /\ ReadBytes(Bytes(data, pad) \o rest) = <<data, rest>>
  BY Zenon, <1>8, BytesRead
<1>10. ItemBytes(CodeSection, item, pad) = Bytes(data, pad)
  BY Zenon, <1>5, <1>8, ItemsOfCode
<1>11. ReadBody(Bytes(data, pad) \o rest) = <<[locals |-> locals, code |-> code], rest>>
  <2>1. /\ <<data, rest>>[1] = data /\ <<data, rest>>[2] = rest
        /\ <<locals, code>>[1] = locals /\ <<locals, code>>[2] = code
    BY Zenon
  <2>2. QED
    BY Zenon, <1>7, <1>8, <1>9, <2>1 DEF ReadBody
<1>12. ReadItem(CodeSection, Bytes(data, pad) \o rest) = <<item, rest>>
  BY Zenon, <1>2, <1>3, <1>11, ItemsOfCode
<1>13. QED
  BY Zenon, <1>9, <1>10, <1>12

\* Reading the next item, of any kind.
Reads(id, done, bytes, item, rest) == NextItem(id, <<done, bytes \o rest>>) = <<Append(done, item), rest>>

LEMMA ItemRead ==
  ASSUME NEW pad, NEW id, NEW item, item \in Item(id, pad)
  PROVE  /\ ItemBytes(id, item, pad) \in Seq(Nat)
         /\ \A rest \in Seq(Nat) : \A done : id \in Known => Reads(id, done, ItemBytes(id, item, pad), item, rest)
<1>1. <<>> \in Seq(Nat)
  OBVIOUS
<1>2. ItemBytes(id, item, pad) \in Seq(Nat)
  <2>1. CASE id \in Known
    BY Zenon, <1>1, <2>1, TypeRead, FunctionRead, ExportRead, BodyRead DEF Known
  <2>2. CASE id \notin Known
    <3>1. item \in Nat
      BY Zenon, <2>2, OtherItems, SmallType
    <3>2. QED
      BY Zenon, <2>2, <3>1, OtherItems, Single
  <2>3. QED
    BY Zenon, <2>1, <2>2
<1>3. ASSUME NEW rest \in Seq(Nat), NEW done, id \in Known
      PROVE  Reads(id, done, ItemBytes(id, item, pad), item, rest)
  <2>1. PICK s : s = ItemBytes(id, item, pad) \o rest
    OBVIOUS
  <2>2. ReadItem(id, s) = <<item, rest>>
    <3>1. CASE id = TypeSection
      BY Zenon, <2>1, <3>1, TypeRead
    <3>2. CASE id = FunctionSection
      BY Zenon, <2>1, <3>2, FunctionRead
    <3>3. CASE id = ExportSection
      BY Zenon, <2>1, <3>3, ExportRead
    <3>4. CASE id = CodeSection
      BY Zenon, <2>1, <3>4, BodyRead
    <3>5. QED
      BY Zenon, <1>3, <3>1, <3>2, <3>3, <3>4 DEF Known
  <2>3. ~(id = TypeSection /\ (s = <<>> \/ Head(s) # FuncTag))
    BY Zenon, <2>1, TypeRead
  <2>4. <<done, s>>[1] = done /\ <<done, s>>[2] = s /\ <<item, rest>>[1] = item /\ <<item, rest>>[2] = rest
    BY Zenon
  <2>5. NextItem(id, <<done, s>>) = <<Append(done, item), rest>>
    BY Zenon, <2>2, <2>3, <2>4 DEF NextItem
  <2>6. QED
    BY Zenon, <2>1, <2>5 DEF Reads
<1>4. QED
  BY Zenon, <1>2, <1>3

ItemSpans(id, items, pad) == [i \in DOMAIN items |-> ItemBytes(id, items[i], pad)]

LEMMA SpansAre ==
  ASSUME NEW pad, NEW id, NEW items \in Seq(Item(id, pad)), NEW n \in Nat, n = Len(items)
  PROVE  /\ ItemSpans(id, items, pad) \in Seq(Seq(Nat)) /\ Len(ItemSpans(id, items, pad)) = n
         /\ \A i \in 1 .. n : items[i] \in Item(id, pad) /\ ItemSpans(id, items, pad)[i] = ItemBytes(id, items[i], pad)
<1>1. \A i \in 1 .. n : items[i] \in Item(id, pad)
  BY ONLY n = Len(items), items \in Seq(Item(id, pad))
<1>2. DOMAIN items = 1 .. n
  BY ONLY n = Len(items), items \in Seq(Item(id, pad))
<1>3. PICK spans : spans = ItemSpans(id, items, pad)
  OBVIOUS
<1>4. \A i \in 1 .. n : spans[i] = ItemBytes(id, items[i], pad) /\ ItemBytes(id, items[i], pad) \in Seq(Nat)
  BY Zenon, <1>1, <1>2, <1>3, ItemRead DEF ItemSpans
<1>5. spans \in [1 .. n -> Seq(Nat)]
  BY Zenon, <1>2, <1>3, <1>4 DEF ItemSpans
<1>6. spans \in Seq(Seq(Nat)) /\ Len(spans) = n
  BY ONLY <1>5, n \in Nat
<1>7. QED
  BY Zenon, <1>1, <1>3, <1>4, <1>6

LEMMA ItemsRead ==
  ASSUME NEW pad, NEW id, NEW items \in Seq(Item(id, pad)), Len(items) \in Small
  PROVE  LET b == Integer(Len(items), pad) \o FlattenSeq(ItemSpans(id, items, pad))
         IN  /\ b \in Seq(Nat) /\ Len(b) >= 1
             /\ id \in Known => ReadItems(id, b) = items
<1>1. PICK n \in Nat : n = Len(items) /\ n \in Small
  BY ONLY items \in Seq(Item(id, pad)), Len(items) \in Small
<1>2. PICK spans : spans = ItemSpans(id, items, pad)
  OBVIOUS
<1>3. /\ spans \in Seq(Seq(Nat)) /\ Len(spans) = n
      /\ \A i \in 1 .. n : items[i] \in Item(id, pad) /\ spans[i] = ItemBytes(id, items[i], pad)
  BY Zenon, <1>1, <1>2, SpansAre
<1>4. <<>> \in Seq(Nat)
  OBVIOUS
<1>5. PICK q : Tails(spans, <<>>, q)
  BY Zenon, <1>3, <1>4, TailsExist
<1>6. PICK flat \in Seq(Nat) : flat = FlattenSeq(spans)
  BY Zenon, <1>3, Flattened
<1>7. /\ q \in [0 .. n -> Seq(Nat)] /\ q[n] = <<>> /\ q[0] = flat
      /\ \A i \in 1 .. n : q[i - 1] = spans[i] \o q[i]
  <2>1. flat \o <<>> = flat
    BY Zenon, Nothing0
  <2>2. QED
    BY Zenon, <1>3, <1>5, <1>6, <2>1 DEF Tails
<1>8. \A i \in 1 .. n : i \in 0 .. n /\ i - 1 \in 0 .. n /\ i # 0
  BY ONLY n \in Nat
<1>9. 0 \in 0 .. n /\ n \in 0 .. n
  BY ONLY n \in Nat
<1>10. \A i \in 0 .. n : q[i] \in Seq(Nat)
  BY ONLY <1>7
<1>11. PICK x \in Seq(Nat) : x = Integer(n, pad) /\ Len(x) \in 1 .. 2
  <2>1. Integer(n, pad) \in Seq(Nat) /\ Len(Integer(n, pad)) = IF pad THEN 2 ELSE 1
    BY Zenon, <1>1, <1>4, IntegerRead
  <2>2. PICK m : m = Len(Integer(n, pad))
    OBVIOUS
  <2>3. m \in 1 .. 2
    BY ONLY <2>1, <2>2
  <2>4. QED
    BY Zenon, <2>1, <2>2, <2>3
<1>12. PICK b \in Seq(Nat) : b = x \o flat /\ Len(b) >= 1
  <2>1. x \o flat \in Seq(Nat) /\ Len(x \o flat) >= 1
    BY Zenon, <1>11, Longer
  <2>2. QED
    BY Zenon, <2>1
<1>13. ReadVarUint32(b) = <<n, flat>>
  <2>1. PICK m \in Small : m = n
    BY Zenon, <1>1
  <2>2. ReadVarUint32(Integer(m, pad) \o flat) = <<m, flat>>
    BY Zenon, IntegerRead
  <2>3. QED
    BY Zenon, <1>11, <1>12, <2>1, <2>2
<1> DEFINE IsRead(c) == c = [i \in 0 .. n |-> IF i = 0 THEN <<<<>>, flat>> ELSE NextItem(id, c[i - 1])]
           h == [i \in 0 .. n |-> <<SubSeq(items, 1, i), q[i]>>]
<1>14. ASSUME id \in Known PROVE ReadItems(id, b) = items
  <2>1. ReadItems(id, b) = (CHOOSE c : IsRead(c))[n][1]
    <3>1. ReadVarUint32(b)[1] = n /\ ReadVarUint32(b)[2] = flat
      BY ONLY <1>13
    <3>2. QED
      BY Zenon, <3>1 DEF ReadItems
  <2>2. h[0] = <<<<>>, flat>> /\ h[n] = <<items, <<>>>>
    <3>1. SubSeq(items, 1, 0) = <<>> /\ SubSeq(items, 1, n) = items
      BY Zenon, <1>1, ReadSoFar
    <3>2. QED
      BY Zenon, <1>7, <1>9, <3>1
  <2>3. ASSUME NEW i \in 1 .. n PROVE h[i] = NextItem(id, h[i - 1])
    <3>1. h[i] = <<SubSeq(items, 1, i), q[i]>> /\ h[i - 1] = <<SubSeq(items, 1, i - 1), q[i - 1]>>
      BY Zenon, <1>8
    <3>2. q[i - 1] = ItemBytes(id, items[i], pad) \o q[i]
      BY Zenon, <1>3, <1>7
    <3>3. Append(SubSeq(items, 1, i - 1), items[i]) = SubSeq(items, 1, i)
      BY Zenon, <1>1, ReadSoFar
    <3>4. Reads(id, SubSeq(items, 1, i - 1), ItemBytes(id, items[i], pad), items[i], q[i])
      BY Zenon, <1>3, <1>8, <1>10, <1>14, ItemRead
    <3> HIDE DEF h
    <3>5. QED
      BY Zenon, <3>1, <3>2, <3>3, <3>4 DEF Reads
  <2>4. IsRead(h)
    <3>1. \A i \in 0 .. n : h[i] = IF i = 0 THEN <<<<>>, flat>> ELSE NextItem(id, h[i - 1])
      <4>1. \A i \in 0 .. n : i # 0 => i \in 1 .. n
        BY ONLY n \in Nat
      <4> HIDE DEF h
      <4>2. QED
        BY Zenon, <2>2, <2>3, <4>1
    <3>2. h = [i \in 0 .. n |-> h[i]]
      BY Zenon
    <3> HIDE DEF h
    <3>3. QED
      BY ONLY <3>1, <3>2
  <2> HIDE DEF h
  <2>5. PICK c : IsRead(c) /\ ReadItems(id, b) = c[n][1]
    <3> HIDE DEF IsRead
    <3>1. QED
      BY Zenon, <2>1, <2>4
  <2>6. c[0] = h[0] /\ \A i \in 1 .. n : c[i] = NextItem(id, c[i - 1])
    <3>1. \A i \in 0 .. n : c[i] = IF i = 0 THEN <<<<>>, flat>> ELSE NextItem(id, c[i - 1])
      BY ONLY <2>5
    <3>2. QED
      BY Zenon, <1>8, <1>9, <2>2, <3>1
  <2> HIDE DEF IsRead
  <2>7. SameTurns(n, c, h)
    BY Zenon, <2>3, <2>6 DEF SameTurns
  <2>8. Agree(n, c, h)
    BY Zenon, <2>6, <2>7, LoopsAgree
  <2>9. <<items, <<>>>>[1] = items
    BY Zenon
  <2>10. QED
    BY Zenon, <1>9, <2>2, <2>5, <2>8, <2>9 DEF Agree
<1>15. QED
  BY Zenon, <1>1, <1>2, <1>6, <1>11, <1>12, <1>14

--------------------------------------------------------------------------------
(* Sections. *)

\* What is written as s: the identifier, the length of the payload, and the payload.
Written(s, pad, id, x, data) ==
  /\ id \in Nat /\ id = s.id /\ data \in Seq(Nat) /\ data = Payload(s, pad) /\ Len(data) \in Small /\ Len(data) >= 1
  /\ x \in Seq(Nat) /\ x = Integer(Len(data), pad) /\ SectionBytes(s, pad) = <<id>> \o (x \o data)
  /\ id \in Known => ReadItems(id, data) = s.items

LEMMA WrittenAs ==
  ASSUME NEW pad, NEW s, IsSection(s, pad)
  PROVE  \E id, x, data : Written(s, pad, id, x, data)
<1>1. s.id \in Byte /\ s.items \in Seq(Item(s.id, pad)) /\ Len(s.items) \in Small /\ Len(Payload(s, pad)) \in Small
  BY Zenon DEF IsSection
<1>2. PICK id \in Nat : id = s.id
  BY Zenon, <1>1, SmallType
<1>3. PICK items \in Seq(Item(id, pad)) : items = s.items /\ Len(items) \in Small
  BY Zenon, <1>1, <1>2
<1>4. PICK data : data = Integer(Len(items), pad) \o FlattenSeq(ItemSpans(id, items, pad))
  OBVIOUS
<1>5. Payload(s, pad) = data
  BY Zenon, <1>2, <1>3, <1>4 DEF Payload, ItemSpans
<1>6. data \in Seq(Nat) /\ Len(data) >= 1 /\ (id \in Known => ReadItems(id, data) = items)
  BY Zenon, <1>3, <1>4, ItemsRead
<1>7. PICK n \in Small : n = Len(data)
  BY Zenon, <1>1, <1>5
<1>8. PICK x \in Seq(Nat) : x = Integer(n, pad)
  <2>1. <<>> \in Seq(Nat)
    OBVIOUS
  <2>2. QED
    BY Zenon, <2>1, IntegerRead
<1>9. SectionBytes(s, pad) = <<id>> \o (x \o data)
  BY Zenon, <1>2, <1>5, <1>7, <1>8 DEF SectionBytes, Bytes
<1>10. Written(s, pad, id, x, data)
  BY Zenon, <1>2, <1>3, <1>5, <1>6, <1>7, <1>8, <1>9 DEF Written
<1>11. QED
  BY Zenon, <1>10

\* A turn of the loop reads a section that is there whole.
TurnTakes(m, bytes, told, rest) == NextSection(<<<<m>>, bytes>>) = <<<<told>>, rest>>

LEMMA SectionRead ==
  ASSUME NEW pad, NEW s, IsSection(s, pad), NEW m, NEW rest \in Seq(Nat)
  PROVE  /\ SectionBytes(s, pad) \in Seq(Nat) /\ Len(SectionBytes(s, pad)) >= 1
         /\ TurnTakes(m, SectionBytes(s, pad) \o rest, WithItems(m, s.id, s.items), rest)
<1>1. PICK id, x, data : Written(s, pad, id, x, data)
  BY Zenon, WrittenAs
<1>2. /\ id \in Nat /\ id = s.id /\ data \in Seq(Nat) /\ Len(data) \in Small
      /\ x \in Seq(Nat) /\ x = Integer(Len(data), pad) /\ SectionBytes(s, pad) = <<id>> \o (x \o data)
      /\ id \in Known => ReadItems(id, data) = s.items
  BY Zenon, <1>1 DEF Written
<1>3. PICK n \in Small : n = Len(data)
  BY Zenon, <1>2
<1>4. PICK b \in Seq(Nat) : b = x \o data
  BY Zenon, <1>2, TwoParts
<1>5. PICK all \in Seq(Nat) : all = <<id>> \o b /\ Len(all) >= 1
  <2>1. <<id>> \o b \in Seq(Nat) /\ Len(<<id>> \o b) = Len(b) + 1
    BY Zenon, <1>2, OneMore
  <2>2. Len(b) \in Nat
    BY ONLY b \in Seq(Nat)
  <2>3. PICK k : k = Len(<<id>> \o b)
    OBVIOUS
  <2>4. k >= 1
    BY ONLY <2>1, <2>2, <2>3
  <2>5. QED
    BY Zenon, <2>1, <2>3, <2>4
<1>6. PICK dr \in Seq(Nat) : dr = data \o rest
  BY Zenon, <1>2, TwoParts
<1>7. PICK br \in Seq(Nat) : br = x \o dr
  BY Zenon, <1>2, TwoParts
<1>8. b \o rest = br
  <2>1. (x \o data) \o rest = x \o (data \o rest)
    BY ZenonT(40), <1>2, Regrouped
  <2>2. QED
    BY Zenon, <1>4, <1>6, <1>7, <2>1
<1>9. all \o rest = <<id>> \o br
  <2>1. PICK one \in Seq(Nat) : one = <<id>>
    BY Zenon, <1>2, Single
  <2>2. (one \o b) \o rest = one \o (b \o rest)
    BY Zenon, Regrouped
  <2>3. QED
    BY Zenon, <1>5, <1>8, <2>1, <2>2
<1>10. <<id>> \o br # <<>> /\ Head(<<id>> \o br) = id /\ Tail(<<id>> \o br) = br
  BY Zenon, <1>2, OneMore
<1>11. ReadVarUint32(br) = <<n, dr>>
  BY ZenonT(40), <1>2, <1>3, <1>7, IntegerRead
<1>12. SubSeq(dr, 1, n) = data /\ Rest(dr, n) = rest
  <2>1. SubSeq(data \o rest, 1, Len(data)) = data /\ Rest(data \o rest, Len(data)) = rest
    BY Zenon, <1>2, Parts
  <2>2. QED
    BY Zenon, <1>3, <1>6, <2>1
<1>13. ~(Len(dr) < n)
  <2>1. PICK i \in Nat, j \in Nat : i = Len(data) /\ j = Len(rest)
    BY ONLY <1>2, rest \in Seq(Nat)
  <2>2. Len(data \o rest) = Len(data) + Len(rest)
    BY ONLY Catenated, <1>2, rest \in Seq(Nat)
  <2>3. Len(dr) = i + j /\ n = i
    BY Zenon, <1>3, <1>6, <2>1, <2>2
  <2>4. QED
    BY ONLY <2>3, i \in Nat, j \in Nat
<1>14. WithItems(m, id, ReadItems(id, data)) = WithItems(m, id, s.items)
  <2>1. CASE id \in Known
    BY Zenon, <1>2, <2>1
  <2>2. CASE id \notin Known
    BY Zenon, <2>2, OtherItems
  <2>3. QED
    BY Zenon, <2>1, <2>2
<1>15. PICK bytes : bytes = <<id>> \o br
  OBVIOUS
<1>16. /\ <<n, dr>>[1] = n /\ <<n, dr>>[2] = dr /\ <<m>>[1] = m /\ <<m>> # <<>>
       /\ <<<<m>>, bytes>>[1] = <<m>> /\ <<<<m>>, bytes>>[2] = bytes
  OBVIOUS
<1>17. NextSection(<<<<m>>, bytes>>) = <<<<WithItems(m, id, s.items)>>, rest>>
  BY Zenon, <1>10, <1>11, <1>12, <1>13, <1>14, <1>15, <1>16 DEF NextSection
<1>18. QED
  BY Zenon, <1>2, <1>4, <1>5, <1>9, <1>15, <1>17 DEF TurnTakes

--------------------------------------------------------------------------------
(* What a file that was cut short ends with. *)

LEMMA CutBefore ==
  ASSUME NEW a \in Seq(Nat), NEW b \in Seq(Nat), NEW k \in 0 .. Len(a)
  PROVE  SubSeq(a \o b, 1, k) = SubSeq(a, 1, k)
<1>1. PICK c \in Seq(Nat) : c = a \o b /\ Len(c) = Len(a) + Len(b) /\ \A i \in 1 .. Len(a) : c[i] = a[i]
  <2>1. /\ a \o b \in Seq(Nat) /\ Len(a \o b) = Len(a) + Len(b)
        /\ \A i \in 1 .. Len(a) : (a \o b)[i] = a[i]
    BY ONLY Catenated, a \in Seq(Nat), b \in Seq(Nat)
  <2>2. QED
    BY Zenon, <2>1
<1>2. k \in 0 .. Len(c) /\ k \in Nat /\ \A i \in 1 .. k : i \in 1 .. Len(a)
  BY ONLY <1>1, a \in Seq(Nat), b \in Seq(Nat), k \in 0 .. Len(a)
<1>3. PICK x \in Seq(Nat) : x = SubSeq(c, 1, k) /\ Len(x) = k /\ \A i \in 1 .. k : x[i] = c[i]
  <2>1. SubSeq(c, 1, k) \in Seq(Nat) /\ Len(SubSeq(c, 1, k)) = k /\ \A i \in 1 .. k : SubSeq(c, 1, k)[i] = c[i]
    BY Zenon, <1>2, Prefix
  <2>2. QED
    BY Zenon, <2>1
<1>4. PICK y \in Seq(Nat) : y = SubSeq(a, 1, k) /\ Len(y) = k /\ \A i \in 1 .. k : y[i] = a[i]
  <2>1. SubSeq(a, 1, k) \in Seq(Nat) /\ Len(SubSeq(a, 1, k)) = k /\ \A i \in 1 .. k : SubSeq(a, 1, k)[i] = a[i]
    BY Zenon, Prefix
  <2>2. QED
    BY Zenon, <2>1
<1>5. \A i \in 1 .. k : x[i] = y[i]
  BY Zenon, <1>1, <1>2, <1>3, <1>4
<1>6. x = y
  BY ONLY <1>3, <1>4, <1>5, Same, x \in Seq(Nat), y \in Seq(Nat)
<1>7. QED
  BY Zenon, <1>1, <1>3, <1>4, <1>6

LEMMA CutAfter ==
  ASSUME NEW a \in Seq(Nat), NEW b \in Seq(Nat), NEW n \in Nat, n = Len(a), NEW k \in 0 .. Len(b)
  PROVE  SubSeq(a \o b, 1, n + k) = a \o SubSeq(b, 1, k)
<1>1. PICK m \in Nat : m = Len(b)
  BY ONLY b \in Seq(Nat)
<1>2. k \in 0 .. m /\ k \in Nat /\ m - k \in Nat
  BY ONLY <1>1, k \in 0 .. Len(b), m \in Nat
<1>3. PICK x \in Seq(Nat), y \in Seq(Nat) : x = SubSeq(b, 1, k) /\ Len(x) = k /\ y = Rest(b, k)
  <2>1. SubSeq(b, 1, k) \in Seq(Nat) /\ Len(SubSeq(b, 1, k)) = k
    BY Zenon, Prefix
  <2>2. Rest(b, k) \in Seq(Nat)
    BY Zenon, RestIs
  <2>3. QED
    BY Zenon, <2>1, <2>2
<1>4. x \o y = b
  BY Zenon, <1>3, Together
<1>5. PICK ax \in Seq(Nat) : ax = a \o x /\ Len(ax) = n + k
  <2>1. a \o x \in Seq(Nat) /\ Len(a \o x) = Len(a) + Len(x)
    BY ONLY Catenated, a \in Seq(Nat), x \in Seq(Nat)
  <2>2. QED
    BY Zenon, <1>3, <2>1, n = Len(a)
<1>6. a \o b = ax \o y
  <2>1. (a \o x) \o y = a \o (x \o y)
    BY ZenonT(40), Regrouped
  <2>2. QED
    BY Zenon, <1>4, <1>5, <2>1
<1>7. SubSeq(ax \o y, 1, Len(ax)) = ax
  BY Zenon, Parts
<1>8. QED
  BY Zenon, <1>3, <1>5, <1>6, <1>7

\* Integers that are not there, or not to their end.
LEMMA NothingThere ==
  /\ ReadVarUint32(<<>>) = <<0, <<>>>> /\ \A id : ReadItems(id, <<>>) = <<>>
<1>1. VarSize(<<>>) = 0
  <2>1. <<>> \in Seq(Nat) /\ Len(<<>>) = 0 /\ \A i \in 1 .. Len(<<>>) : <<>>[i] >= 128
    OBVIOUS
  <2>2. QED
    BY <2>1, SizeOfAll
<1>2. Groups(<<>>) \in Seq(Nat) /\ Len(Groups(<<>>)) = 0
  <2>1. Groups(<<>>) = [i \in 1 .. 0 |-> <<>>[i] % 128]
    BY Zenon, <1>1 DEF Groups
  <2>2. PICK g : g = Groups(<<>>)
    OBVIOUS
  <2>3. \A i \in 1 .. 0 : FALSE
    OBVIOUS
  <2>4. g \in [1 .. 0 -> Nat]
    BY Zenon, <2>1, <2>2, <2>3
  <2>5. g \in Seq(Nat) /\ Len(g) = 0
    BY ONLY <2>4
  <2>6. QED
    BY Zenon, <2>2, <2>5
<1>3. PICK g \in Seq(Nat) : g = Groups(<<>>) /\ Len(g) = 0
  BY Zenon, <1>2
<1>4. PICK f : f \in [0 .. Len(g) -> Nat] /\ f[0] = 0 /\ Number(g, 128) = f[Len(g)]
  BY NumberIs DEF Bases
<1>5. Number(g, 128) = 0
  BY Zenon, <1>3, <1>4
<1>6. Rest(<<>>, 0) = <<>>
  BY DEF Rest
<1>7. ReadVarUint32(<<>>) = <<0, <<>>>>
  BY Zenon, <1>1, <1>3, <1>5, <1>6 DEF ReadVarUint32
<1>8. ASSUME NEW id PROVE ReadItems(id, <<>>) = <<>>
  <2> DEFINE IsRead(c) == c = [i \in 0 .. 0 |-> IF i = 0 THEN <<<<>>, <<>>>> ELSE NextItem(id, c[i - 1])]
             none      == [i \in 0 .. 0 |-> <<<<>>, <<>>>>]
  <2>1. ReadItems(id, <<>>) = (CHOOSE c : IsRead(c))[0][1]
    <3>1. ReadVarUint32(<<>>)[1] = 0 /\ ReadVarUint32(<<>>)[2] = <<>>
      BY ONLY <1>7
    <3>2. QED
      BY Zenon, <3>1 DEF ReadItems
  <2>2. \A i \in 0 .. 0 : i = 0
    OBVIOUS
  <2>3. IsRead(none)
    BY Zenon, <2>2
  <2>4. PICK c : IsRead(c) /\ ReadItems(id, <<>>) = c[0][1]
    <3> HIDE DEF IsRead, none
    <3>1. QED
      BY Zenon, <2>1, <2>3
  <2>5. 0 \in 0 .. 0
    OBVIOUS
  <2>6. c[0] = <<<<>>, <<>>>>
    BY ONLY <2>4, <2>5
  <2>7. QED
    BY ONLY <2>4, <2>6
<1>9. QED
  BY Zenon, <1>7, <1>8

LEMMA HalfThere ==
  ASSUME NEW n \in Small
  PROVE  ReadVarUint32(<<n + 128>>) = <<n, <<>>>>
<1>1. n \in Nat /\ n < 128
  BY Zenon, SmallType
<1>2. PICK b \in Seq(Nat) : b = <<n + 128>> /\ Len(b) = 1 /\ b[1] = n + 128
  <2>1. n + 128 \in Nat
    BY ONLY <1>1
  <2>2. <<n + 128>> \in Seq(Nat) /\ Len(<<n + 128>>) = 1 /\ <<n + 128>>[1] = n + 128
    BY ONLY <2>1
  <2>3. QED
    BY Zenon, <2>2
<1>3. VarSize(b) = 1
  <2>1. \A i \in 1 .. Len(b) : b[i] >= 128
    BY ONLY <1>1, <1>2
  <2>2. QED
    BY Zenon, <1>2, <2>1, SizeOfAll
<1>4. Groups(b) \in Seq(Nat) /\ Len(Groups(b)) = 1 /\ Groups(b)[1] = n
  <2>1. (n + 128) % 128 = n
    BY ONLY <1>1
  <2>2. Groups(b) = [i \in 1 .. 1 |-> b[i] % 128]
    BY Zenon, <1>3 DEF Groups
  <2>3. \A i \in 1 .. 1 : b[i] % 128 = n
    BY ONLY <1>2, <2>1
  <2>4. QED
    BY ONLY <1>1, <2>2, <2>3
<1>5. PICK g \in Seq(Nat) : g = Groups(b) /\ Len(g) = 1 /\ g[1] = n
  BY Zenon, <1>4
<1>6. Number(g, 128) = n
  <2>1. Number(g, 128) = g[1]
    BY <1>5, OneDigit DEF Bases
  <2>2. QED
    BY Zenon, <1>5, <2>1
<1>7. Rest(b, 1) = <<>>
  <2>1. Rest(b, 1) \in Seq(Nat) /\ Len(Rest(b, 1)) = Len(b) - 1
    <3>1. 1 \in 0 .. Len(b)
      BY ONLY <1>2
    <3>2. QED
      BY Zenon, <3>1, RestIs
  <2>2. Len(Rest(b, 1)) = 0
    BY ONLY <1>2, <2>1
  <2>3. QED
    BY Zenon, <2>1, <2>2, Nothing0
<1>8. QED
  BY Zenon, <1>2, <1>3, <1>5, <1>6, <1>7 DEF ReadVarUint32

--------------------------------------------------------------------------------
(* Modules. *)

ModuleOf(pad) == [types : Seq(Item(TypeSection, pad)), functions : Seq(Item(FunctionSection, pad)),
                  exports : Seq(Item(ExportSection, pad)), bodies : Seq(Item(CodeSection, pad))]

LEMMA MoreOfThem ==
  ASSUME NEW S, NEW a \in Seq(S), NEW b \in Seq(S)
  PROVE  a \o b \in Seq(S) /\ a \o <<>> = a
BY ONLY Catenated, Nothing0, a \in Seq(S), b \in Seq(S)

Fields(A, B, C, D) == [types : A, functions : B, exports : C, bodies : D]
Made(a, b, c, d) == [types |-> a, functions |-> b, exports |-> c, bodies |-> d]

IsMade(m, A, B, C, D) == \E a \in A, b \in B, c \in C, d \in D : m = Made(a, b, c, d)
Adds(a, b, c, d, id, items, m) == WithItems(Made(a, b, c, d), id, items) = m

LEMMA FieldsSplit ==
  ASSUME NEW A, NEW B, NEW C, NEW D, NEW m \in Fields(A, B, C, D)
  PROVE  IsMade(m, A, B, C, D)
<1>1. m = Made(m.types, m.functions, m.exports, m.bodies) /\ m.types \in A /\ m.functions \in B /\ m.exports \in C /\ m.bodies \in D
  BY DEF Fields, Made
<1>2. QED
  BY Zenon, <1>1 DEF IsMade

LEMMA FieldsMade ==
  ASSUME NEW A, NEW B, NEW C, NEW D, NEW a \in A, NEW b \in B, NEW c \in C, NEW d \in D
  PROVE  Made(a, b, c, d) \in Fields(A, B, C, D)
BY DEF Fields, Made

LEMMA WithTypes ==
  ASSUME NEW a, NEW b, NEW c, NEW d, NEW items
  PROVE  Adds(a, b, c, d, TypeSection, items, Made(a \o items, b, c, d))
<1>1. ASSUME NEW x PROVE [Made(a, b, c, d) EXCEPT !.types = x] = Made(x, b, c, d)
  BY DEF Made
<1>2. Made(a, b, c, d).types = a
  BY DEF Made
<1>3. PICK m : m = Made(a, b, c, d)
  OBVIOUS
<1>4. WithItems(m, TypeSection, items) = [m EXCEPT !.types = m.types \o items]
  BY Zenon, Sections4 DEF WithItems
<1>5. PICK x : x = m.types \o items
  OBVIOUS
<1>6. WithItems(m, TypeSection, items) = [m EXCEPT !.types = x]
  BY ONLY <1>4, <1>5
<1>7. [m EXCEPT !.types = x] = Made(x, b, c, d)
  BY ONLY <1>1, <1>3
<1>8. x = a \o items
  BY Zenon, <1>2, <1>3, <1>5
<1>9. QED
  BY Zenon, <1>3, <1>6, <1>7, <1>8 DEF Adds

LEMMA WithFunctions ==
  ASSUME NEW a, NEW b, NEW c, NEW d, NEW items
  PROVE  Adds(a, b, c, d, FunctionSection, items, Made(a, b \o items, c, d))
<1>1. ASSUME NEW x PROVE [Made(a, b, c, d) EXCEPT !.functions = x] = Made(a, x, c, d)
  BY DEF Made
<1>2. Made(a, b, c, d).functions = b
  BY DEF Made
<1>3. PICK m : m = Made(a, b, c, d)
  OBVIOUS
<1>4. WithItems(m, FunctionSection, items) = [m EXCEPT !.functions = m.functions \o items]
  BY Zenon, Sections4 DEF WithItems
<1>5. PICK x : x = m.functions \o items
  OBVIOUS
<1>6. WithItems(m, FunctionSection, items) = [m EXCEPT !.functions = x]
  BY ONLY <1>4, <1>5
<1>7. [m EXCEPT !.functions = x] = Made(a, x, c, d)
  BY ONLY <1>1, <1>3
<1>8. x = b \o items
  BY Zenon, <1>2, <1>3, <1>5
<1>9. QED
  BY Zenon, <1>3, <1>6, <1>7, <1>8 DEF Adds

LEMMA WithExports ==
  ASSUME NEW a, NEW b, NEW c, NEW d, NEW items
  PROVE  Adds(a, b, c, d, ExportSection, items, Made(a, b, c \o items, d))
<1>1. ASSUME NEW x PROVE [Made(a, b, c, d) EXCEPT !.exports = x] = Made(a, b, x, d)
  BY DEF Made
<1>2. Made(a, b, c, d).exports = c
  BY DEF Made
<1>3. PICK m : m = Made(a, b, c, d)
  OBVIOUS
<1>4. WithItems(m, ExportSection, items) = [m EXCEPT !.exports = m.exports \o items]
  BY Zenon, Sections4 DEF WithItems
<1>5. PICK x : x = m.exports \o items
  OBVIOUS
<1>6. WithItems(m, ExportSection, items) = [m EXCEPT !.exports = x]
  BY ONLY <1>4, <1>5
<1>7. [m EXCEPT !.exports = x] = Made(a, b, x, d)
  BY ONLY <1>1, <1>3
<1>8. x = c \o items
  BY Zenon, <1>2, <1>3, <1>5
<1>9. QED
  BY Zenon, <1>3, <1>6, <1>7, <1>8 DEF Adds

LEMMA WithBodies ==
  ASSUME NEW a, NEW b, NEW c, NEW d, NEW items
  PROVE  Adds(a, b, c, d, CodeSection, items, Made(a, b, c, d \o items))
<1>1. ASSUME NEW x PROVE [Made(a, b, c, d) EXCEPT !.bodies = x] = Made(a, b, c, x)
  BY DEF Made
<1>2. Made(a, b, c, d).bodies = d
  BY DEF Made
<1>3. PICK m : m = Made(a, b, c, d)
  OBVIOUS
<1>4. WithItems(m, CodeSection, items) = [m EXCEPT !.bodies = m.bodies \o items]
  BY Zenon, Sections4 DEF WithItems
<1>5. PICK x : x = m.bodies \o items
  OBVIOUS
<1>6. WithItems(m, CodeSection, items) = [m EXCEPT !.bodies = x]
  BY ONLY <1>4, <1>5
<1>7. [m EXCEPT !.bodies = x] = Made(a, b, c, x)
  BY ONLY <1>1, <1>3
<1>8. x = d \o items
  BY Zenon, <1>2, <1>3, <1>5
<1>9. QED
  BY Zenon, <1>3, <1>6, <1>7, <1>8 DEF Adds

LEMMA ModuleType ==
  ASSUME NEW pad, NEW m \in ModuleOf(pad), NEW id, NEW items \in Seq(Item(id, pad))
  PROVE  WithItems(m, id, items) \in ModuleOf(pad) /\ WithItems(m, id, <<>>) = m
<1>1. PICK A, B, C, D : /\ A = Item(TypeSection, pad) /\ B = Item(FunctionSection, pad)
                        /\ C = Item(ExportSection, pad) /\ D = Item(CodeSection, pad)
  OBVIOUS
<1>2. PICK M : M = Fields(Seq(A), Seq(B), Seq(C), Seq(D))
  OBVIOUS
<1>3. ModuleOf(pad) = M /\ m \in Fields(Seq(A), Seq(B), Seq(C), Seq(D))
  BY Zenon, <1>1, <1>2 DEF ModuleOf, Fields
<1>4. PICK a \in Seq(A), b \in Seq(B), c \in Seq(C), d \in Seq(D) : m = Made(a, b, c, d)
  <2>1. IsMade(m, Seq(A), Seq(B), Seq(C), Seq(D))
    BY Zenon, <1>3, FieldsSplit
  <2>2. QED
    BY Zenon, <2>1 DEF IsMade
<1>5. CASE id = TypeSection
  <2>1. items \in Seq(A)
    BY Zenon, <1>1, <1>5
  <2>2. PICK x \in Seq(A) : x = a \o items
    BY Zenon, <2>1, MoreOfThem
  <2>3. a \o <<>> = a
    BY Zenon, <2>1, MoreOfThem
  <2>4. Adds(a, b, c, d, TypeSection, items, Made(a \o items, b, c, d))
    BY Zenon, WithTypes
  <2>5. Adds(a, b, c, d, TypeSection, <<>>, Made(a \o <<>>, b, c, d))
    BY Zenon, WithTypes
  <2>6. Made(x, b, c, d) \in M
    BY Zenon, <1>2, FieldsMade
  <2>7. WithItems(m, id, <<>>) = m
    BY Zenon, <1>4, <1>5, <2>3, <2>5 DEF Adds
  <2>8. WithItems(m, id, items) \in M
    BY Zenon, <1>4, <1>5, <2>2, <2>4, <2>6 DEF Adds
  <2>9. QED
    BY Zenon, <1>3, <2>7, <2>8
<1>6. CASE id = FunctionSection
  <2>1. items \in Seq(B)
    BY Zenon, <1>1, <1>6
  <2>2. PICK x \in Seq(B) : x = b \o items
    BY Zenon, <2>1, MoreOfThem
  <2>3. b \o <<>> = b
    BY Zenon, <2>1, MoreOfThem
  <2>4. Adds(a, b, c, d, FunctionSection, items, Made(a, b \o items, c, d))
    BY Zenon, WithFunctions
  <2>5. Adds(a, b, c, d, FunctionSection, <<>>, Made(a, b \o <<>>, c, d))
    BY Zenon, WithFunctions
  <2>6. Made(a, x, c, d) \in M
    BY Zenon, <1>2, FieldsMade
  <2>7. WithItems(m, id, <<>>) = m
    BY Zenon, <1>4, <1>6, <2>3, <2>5 DEF Adds
  <2>8. WithItems(m, id, items) \in M
    BY Zenon, <1>4, <1>6, <2>2, <2>4, <2>6 DEF Adds
  <2>9. QED
    BY Zenon, <1>3, <2>7, <2>8
<1>7. CASE id = ExportSection
  <2>1. items \in Seq(C)
    BY Zenon, <1>1, <1>7
  <2>2. PICK x \in Seq(C) : x = c \o items
    BY Zenon, <2>1, MoreOfThem
  <2>3. c \o <<>> = c
    BY Zenon, <2>1, MoreOfThem
  <2>4. Adds(a, b, c, d, ExportSection, items, Made(a, b, c \o items, d))
    BY Zenon, WithExports
  <2>5. Adds(a, b, c, d, ExportSection, <<>>, Made(a, b, c \o <<>>, d))
    BY Zenon, WithExports
  <2>6. Made(a, b, x, d) \in M
    BY Zenon, <1>2, FieldsMade
  <2>7. WithItems(m, id, <<>>) = m
    BY Zenon, <1>4, <1>7, <2>3, <2>5 DEF Adds
  <2>8. WithItems(m, id, items) \in M
    BY Zenon, <1>4, <1>7, <2>2, <2>4, <2>6 DEF Adds
  <2>9. QED
    BY Zenon, <1>3, <2>7, <2>8
<1>8. CASE id = CodeSection
  <2>1. items \in Seq(D)
    BY Zenon, <1>1, <1>8
  <2>2. PICK x \in Seq(D) : x = d \o items
    BY Zenon, <2>1, MoreOfThem
  <2>3. d \o <<>> = d
    BY Zenon, <2>1, MoreOfThem
  <2>4. Adds(a, b, c, d, CodeSection, items, Made(a, b, c, d \o items))
    BY Zenon, WithBodies
  <2>5. Adds(a, b, c, d, CodeSection, <<>>, Made(a, b, c, d \o <<>>))
    BY Zenon, WithBodies
  <2>6. Made(a, b, c, x) \in M
    BY Zenon, <1>2, FieldsMade
  <2>7. WithItems(m, id, <<>>) = m
    BY Zenon, <1>4, <1>8, <2>3, <2>5 DEF Adds
  <2>8. WithItems(m, id, items) \in M
    BY Zenon, <1>4, <1>8, <2>2, <2>4, <2>6 DEF Adds
  <2>9. QED
    BY Zenon, <1>3, <2>7, <2>8
<1>9. CASE id \notin Known
  BY Zenon, <1>9, OtherItems
<1>10. QED
  BY Zenon, <1>5, <1>6, <1>7, <1>8, <1>9 DEF Known

LEMMA EmptyType == ASSUME NEW pad PROVE EmptyModule \in ModuleOf(pad)
<1>1. PICK A, B, C, D : /\ A = Item(TypeSection, pad) /\ B = Item(FunctionSection, pad)
                        /\ C = Item(ExportSection, pad) /\ D = Item(CodeSection, pad)
  OBVIOUS
<1>2. ModuleOf(pad) = [types : Seq(A), functions : Seq(B), exports : Seq(C), bodies : Seq(D)]
  BY Zenon, <1>1 DEF ModuleOf
<1>3. <<>> \in Seq(A) /\ <<>> \in Seq(B) /\ <<>> \in Seq(C) /\ <<>> \in Seq(D)
  OBVIOUS
<1>4. QED
  BY Zenon, <1>2, <1>3 DEF EmptyModule

\* A turn over half a section makes no module, or leaves the module as it was: the
\* identifier alone reads as an empty section.
Gone == <<<<>>, <<>>>>
Done(m) == <<<<m>>, <<>>>>

LEMMA SectionCut ==
  ASSUME NEW pad, NEW s, IsSection(s, pad), NEW m \in ModuleOf(pad), NEW d \in 1 .. Len(SectionBytes(s, pad)) - 1
  PROVE  NextSection(<<<<m>>, SubSeq(SectionBytes(s, pad), 1, d)>>) \in {Gone, Done(m)}
<1>1. PICK id, x, data : Written(s, pad, id, x, data)
  BY Zenon, WrittenAs
<1>2. /\ id \in Nat /\ id = s.id /\ data \in Seq(Nat) /\ Len(data) \in Small /\ Len(data) >= 1
      /\ x \in Seq(Nat) /\ x = Integer(Len(data), pad) /\ SectionBytes(s, pad) = <<id>> \o (x \o data)
  BY Zenon, <1>1 DEF Written
<1>3. PICK n \in Small : n = Len(data)
  BY Zenon, <1>2
<1>4. PICK b \in Seq(Nat) : b = x \o data
  BY Zenon, <1>2, TwoParts
<1>5. PICK one \in Seq(Nat) : one = <<id>> /\ Len(one) = 1
  <2>1. <<id>> \in Seq(Nat) /\ Len(<<id>>) = 1
    BY ONLY <1>2
  <2>2. QED
    BY Zenon, <2>1
<1>6. PICK l \in Nat, e \in Nat : l = Len(b) /\ e = d - 1 /\ e \in 0 .. Len(b) /\ e < l
  <2>1. PICK l \in Nat : l = Len(b)
    BY ONLY b \in Seq(Nat)
  <2>2. Len(<<id>> \o b) = Len(b) + 1
    BY Zenon, <1>2, OneMore
  <2>3. d \in 1 .. (l + 1) - 1
    BY Zenon, <1>2, <1>4, <2>1, <2>2
  <2>4. PICK e : e = d - 1
    OBVIOUS
  <2>5. e \in Nat /\ e \in 0 .. l /\ e < l
    BY ONLY <2>3, <2>4, l \in Nat
  <2>6. QED
    BY Zenon, <2>1, <2>4, <2>5
<1>7. PICK cut \in Seq(Nat) : cut = SubSeq(b, 1, e)
  <2>1. SubSeq(b, 1, e) \in Seq(Nat)
    BY Zenon, <1>6, Prefix
  <2>2. QED
    BY Zenon, <2>1
<1>8. SubSeq(SectionBytes(s, pad), 1, d) = <<id>> \o cut
  <2>1. 1 + e = d /\ 1 \in Nat
    BY <1>6
  <2>2. SubSeq(one \o b, 1, 1 + e) = one \o SubSeq(b, 1, e)
    BY ZenonT(40), <1>5, <1>6, <2>1, CutAfter
  <2>3. QED
    BY Zenon, <1>2, <1>4, <1>5, <1>7, <2>1, <2>2
<1>9. PICK bytes : bytes = <<id>> \o cut /\ bytes # <<>> /\ Head(bytes) = id /\ Tail(bytes) = cut
  BY Zenon, <1>2, OneMore
<1>10. <<m>>[1] = m /\ <<m>> # <<>> /\ <<<<m>>, bytes>>[1] = <<m>> /\ <<<<m>>, bytes>>[2] = bytes
  OBVIOUS
<1>11. ASSUME NEW left \in Seq(Nat), ReadVarUint32(cut) = <<n, left>>, Len(left) < n
       PROVE  NextSection(<<<<m>>, bytes>>) = Gone
  <2>1. <<n, left>>[1] = n /\ <<n, left>>[2] = left
    OBVIOUS
  <2>2. QED
    BY Zenon, <1>9, <1>10, <1>11, <2>1 DEF NextSection, Gone
<1>12. CASE cut = <<>>
  <2>1. ReadVarUint32(cut)[1] = 0 /\ ReadVarUint32(cut)[2] = <<>> /\ ReadItems(id, <<>>) = <<>>
    <3>1. ReadVarUint32(cut) = <<0, <<>>>>
      BY Zenon, <1>12, NothingThere
    <3>2. ReadVarUint32(cut)[1] = 0 /\ ReadVarUint32(cut)[2] = <<>>
      BY ONLY <3>1
    <3>3. QED
      BY Zenon, <3>2, NothingThere
  <2>2. SubSeq(<<>>, 1, 0) = <<>> /\ Rest(<<>>, 0) = <<>> /\ ~(Len(<<>>) < 0)
    BY DEF Rest
  <2>3. WithItems(m, id, <<>>) = m
    <3>1. <<>> \in Seq(Item(id, pad))
      OBVIOUS
    <3>2. QED
      BY Zenon, <3>1, ModuleType
  <2>4. NextSection(<<<<m>>, bytes>>) = Done(m)
    BY Zenon, <1>9, <1>10, <2>1, <2>2, <2>3 DEF NextSection, Done
  <2>5. QED
    BY Zenon, <1>8, <1>9, <2>4
<1>13. PICK k \in Nat : k = Len(x) /\ (pad => k = 2) /\ (~pad => k = 1)
  <2>1. <<>> \in Seq(Nat)
    OBVIOUS
  <2>2. Len(Integer(n, pad)) = IF pad THEN 2 ELSE 1
    BY Zenon, <2>1, IntegerRead
  <2>3. Len(x) = IF pad THEN 2 ELSE 1
    BY Zenon, <1>2, <1>3, <2>2
  <2>4. Len(x) \in Nat
    BY ONLY <1>2
  <2>5. QED
    BY Zenon, <2>3, <2>4
<1>14. n \in Nat /\ l = k + n /\ n >= 1
  <2>1. Len(x \o data) = Len(x) + Len(data)
    BY ONLY Catenated, <1>2
  <2>2. l = k + n
    BY Zenon, <1>3, <1>4, <1>6, <1>13, <2>1
  <2>3. n \in Nat /\ n >= 1
    BY Zenon, <1>2, <1>3, SmallType
  <2>4. QED
    BY Zenon, <2>2, <2>3
<1>15. CASE e >= k
  <2>1. PICK f \in Nat : f = e - k /\ e = k + f /\ f < n /\ f \in 0 .. n
    <3>1. e - k \in Nat /\ e = k + (e - k) /\ e - k < n /\ e - k \in 0 .. n
      BY ONLY <1>6, <1>14, <1>15, e \in Nat, k \in Nat, l \in Nat
    <3>2. QED
      BY Zenon, <3>1
  <2>2. PICK left \in Seq(Nat) : left = SubSeq(data, 1, f) /\ Len(left) = f
    <3>1. SubSeq(data, 1, f) \in Seq(Nat) /\ Len(SubSeq(data, 1, f)) = f
      BY Zenon, <1>2, <1>3, <2>1, Prefix
    <3>2. QED
      BY Zenon, <3>1
  <2>3. SubSeq(x \o data, 1, k + f) = x \o SubSeq(data, 1, f)
    <3>1. PICK u \in Seq(Nat), v \in Seq(Nat) : u = x /\ v = data
      BY Zenon, <1>2
    <3>2. k = Len(u) /\ f \in 0 .. Len(v)
      BY Zenon, <1>3, <1>13, <2>1, <3>1
    <3>3. SubSeq(u \o v, 1, k + f) = u \o SubSeq(v, 1, f)
      BY ZenonT(40), <3>2, CutAfter
    <3>4. QED
      BY Zenon, <3>1, <3>3
  <2>4. cut = x \o left
    BY Zenon, <1>4, <1>7, <2>1, <2>2, <2>3
  <2>5. ReadVarUint32(cut) = <<n, left>>
    BY ZenonT(40), <1>2, <1>3, <2>4, IntegerRead
  <2>6. NextSection(<<<<m>>, bytes>>) = Gone
    BY Zenon, <1>11, <2>1, <2>2, <2>5
  <2>7. QED
    BY Zenon, <1>8, <1>9, <2>6
<1>16. CASE ~(e >= k) /\ cut # <<>>
  <2>1. e # 0
    <3>1. SubSeq(b, 1, 0) \in Seq(Nat) /\ Len(SubSeq(b, 1, 0)) = 0
      <4>1. 0 \in 0 .. Len(b)
        BY ONLY <1>6
      <4>2. QED
        BY Zenon, <4>1, Prefix
    <3>2. SubSeq(b, 1, 0) = <<>>
      BY Zenon, <3>1, Nothing0
    <3>3. QED
      BY Zenon, <1>7, <1>16, <3>2
  <2>2. e = 1 /\ k = 2
    <3>1. k = 1 \/ k = 2
      BY Zenon, <1>13
    <3>2. QED
      BY ONLY <1>16, <2>1, <3>1, e \in Nat
  <2>3. pad
    <3>1. k # 1
      BY ONLY <2>2
    <3>2. QED
      BY Zenon, <1>13, <3>1
  <2>4. x = <<n + 128, 0>>
    BY Zenon, <1>2, <1>3, <2>3 DEF Integer
  <2>5. cut = <<n + 128>>
    <3>1. e \in 0 .. Len(x)
      BY ONLY <1>13, <2>2
    <3>2. SubSeq(x \o data, 1, e) = SubSeq(x, 1, e)
      BY Zenon, <1>2, <3>1, CutBefore
    <3>3. SubSeq(<<n + 128, 0>>, 1, 1) = <<n + 128>>
      <4>1. PICK h \in Nat, o \in Nat : h = n + 128 /\ o = 0
        BY ONLY <1>14
      <4>2. PICK y \in Seq(Nat), z \in Seq(Nat) : y = <<h, o>> /\ z = <<h>> /\ Len(y) = 2 /\ Len(z) = 1 /\ y[1] = h /\ z[1] = h
        <5>1. /\ <<h, o>> \in Seq(Nat) /\ <<h>> \in Seq(Nat) /\ Len(<<h, o>>) = 2 /\ Len(<<h>>) = 1
              /\ <<h, o>>[1] = h /\ <<h>>[1] = h
          BY ONLY h \in Nat, o \in Nat
        <5>2. QED
          BY Zenon, <5>1
      <4>3. 1 \in 0 .. Len(y) /\ 1 \in 1 .. 1
        BY ONLY <4>2
      <4>4. PICK p \in Seq(Nat) : p = SubSeq(y, 1, 1) /\ Len(p) = 1 /\ p[1] = y[1]
        <5>1. /\ SubSeq(y, 1, 1) \in Seq(Nat) /\ Len(SubSeq(y, 1, 1)) = 1
              /\ \A i \in 1 .. 1 : SubSeq(y, 1, 1)[i] = y[i]
          BY Zenon, <4>3, Prefix
        <5>2. QED
          BY Zenon, <4>3, <5>1
      <4>5. p = z
        <5>1. \A i \in 1 .. 1 : p[i] = z[i]
          BY ONLY <4>2, <4>4
        <5>2. QED
          BY ONLY <4>2, <4>4, <5>1, Same, p \in Seq(Nat), z \in Seq(Nat)
      <4>6. QED
        BY Zenon, <4>1, <4>2, <4>4, <4>5
    <3>4. QED
      BY Zenon, <1>4, <1>7, <2>2, <2>4, <3>2, <3>3
  <2>6. ReadVarUint32(cut) = <<n, <<>>>>
    BY Zenon, <2>5, HalfThere
  <2>7. <<>> \in Seq(Nat) /\ Len(<<>>) < n
    BY ONLY <1>14
  <2>8. NextSection(<<<<m>>, bytes>>) = Gone
    BY Zenon, <1>11, <2>6, <2>7
  <2>9. QED
    BY Zenon, <1>8, <1>9, <2>8
<1>17. QED
  BY Zenon, <1>12, <1>15, <1>16

--------------------------------------------------------------------------------
(* Files. *)

\* A set of numbers that has a bound has a greatest one.
LEMMA GreatestOf ==
  ASSUME NEW n \in Nat, NEW S \in SUBSET (0 .. n), S # {}
  PROVE  Max(S) \in S /\ \A k \in S : k <= Max(S)
<1> DEFINE T == {k \in Nat : n - k \in S}
<1>1. T \in SUBSET Nat /\ \A k \in S : n - k \in T /\ n - (n - k) = k
  OBVIOUS
<1>2. T # {}
  BY <1>1
<1> HIDE DEF T
<1>3. PICK m : m = Min(T)
  OBVIOUS
<1>4. m \in T /\ m \in Nat /\ \A k \in T : m <= k
  BY Zenon, <1>1, <1>2, <1>3, LeastOf
<1>5. n - m \in S
  BY <1>4 DEF T
<1>6. \A k \in S : n - m >= k
  <2>1. SUFFICES ASSUME NEW k \in S PROVE n - m >= k
    OBVIOUS
  <2>2. m <= n - k /\ k \in 0 .. n
    BY <1>1, <1>4
  <2>3. QED
    BY ONLY <1>4, <2>2, n \in Nat
<1>7. Max(S) \in S /\ \A k \in S : Max(S) >= k
  BY Zenon, <1>5, <1>6 DEF Max
<1>8. PICK g : g = Max(S)
  OBVIOUS
<1>9. g \in S /\ \A k \in S : g >= k
  BY Zenon, <1>7, <1>8
<1>10. \A k \in S : k <= g
  BY ONLY <1>9, S \in SUBSET (0 .. n), n \in Nat
<1>11. QED
  BY Zenon, <1>8, <1>9, <1>10

\* What grows by one at least from each position to the next.
LEMMA Growing ==
  ASSUME NEW n \in Nat, NEW q \in [0 .. n -> Nat], \A i \in 1 .. n : q[i] >= q[i - 1] + 1
  PROVE  \A k \in 0 .. n : q[k] >= k /\ \A j \in 0 .. k : q[j] <= q[k]
<1> DEFINE P == {k \in 0 .. n : q[k] >= k /\ \A j \in 0 .. k : q[j] <= q[k]}
<1>1. \A i \in 0 .. n : q[i] \in Nat
  OBVIOUS
<1>2. 0 \in P
  <2>1. \A j \in 0 .. 0 : j = 0
    OBVIOUS
  <2>2. q[0] \in Nat /\ 0 \in 0 .. n
    BY <1>1
  <2>3. q[0] >= 0 /\ q[0] <= q[0]
    BY ONLY <2>2
  <2>4. QED
    BY Zenon, <2>1, <2>2, <2>3
<1>3. ASSUME NEW i \in 1 .. n, i - 1 \in P PROVE i \in P
  <2>1. i - 1 \in 0 .. n /\ i \in 0 .. n /\ i \in Nat
    BY ONLY i \in 1 .. n, n \in Nat
  <2>2. PICK a \in Nat, b \in Nat : a = q[i - 1] /\ b = q[i]
    BY Zenon, <1>1, <2>1
  <2>3. b >= a + 1 /\ a >= i - 1
    BY Zenon, <1>3, <2>2
  <2>4. b >= i /\ a <= b /\ b <= b
    BY ONLY <2>1, <2>3, a \in Nat, b \in Nat
  <2>5. ASSUME NEW j \in 0 .. i PROVE q[j] <= q[i]
    <3>1. j = i \/ j \in 0 .. i - 1
      BY ONLY <2>1, j \in 0 .. i
    <3>2. CASE j = i
      BY Zenon, <2>2, <2>4, <3>2
    <3>3. CASE j \in 0 .. i - 1
      <4>1. q[j] <= a
        BY Zenon, <1>3, <2>2, <3>3
      <4>2. q[j] \in Nat
        <5>1. j \in 0 .. n
          BY ONLY <2>1, <3>3, n \in Nat
        <5>2. QED
          BY Zenon, <1>1, <5>1
      <4>3. q[j] <= b
        BY ONLY <2>4, <4>1, <4>2, a \in Nat, b \in Nat
      <4>4. QED
        BY Zenon, <2>2, <4>3
    <3>4. QED
      BY Zenon, <3>1, <3>2, <3>3
  <2>6. QED
    BY Zenon, <2>1, <2>2, <2>4, <2>5
<1> HIDE DEF P
<1>4. \A k \in 0 .. n : k \in P
  BY <1>2, <1>3, UpTo
<1>5. QED
  BY Zenon, <1>4 DEF P

\* The first of the sequences, put together.
LEMMA FlatPrefix ==
  ASSUME NEW seqs, seqs \in Seq(Seq(Nat)), NEW p, NEW r, Laid(Nat, seqs, p, r), NEW k \in 0 .. Len(seqs),
         NEW firsts, firsts \in Seq(Seq(Nat)), Len(firsts) = k, \A i \in 1 .. k : firsts[i] = seqs[i]
  PROVE  FlattenSeq(firsts) = p[k]
<1>1. PICK n \in Nat : n = Len(seqs)
  OBVIOUS
<1>2. p[0] = <<>> /\ \A i \in 1 .. n : p[i] = p[i - 1] \o seqs[i]
  BY Zenon, <1>1 DEF Laid
<1>3. PICK u, v : Laid(Nat, firsts, u, v)
  BY Flattened
<1>4. u[0] = <<>> /\ u[k] = FlattenSeq(firsts) /\ \A i \in 1 .. k : u[i] = u[i - 1] \o firsts[i]
  BY Zenon, <1>3 DEF Laid
<1>5. k \in Nat /\ \A i \in 1 .. k : i \in 1 .. n
  BY ONLY <1>1, k \in 0 .. Len(seqs), n \in Nat
<1>6. \A i \in 1 .. k : u[i - 1] = p[i - 1] => u[i] = p[i]
  BY Zenon, <1>2, <1>4, <1>5
<1>7. u[0] = p[0]
  BY Zenon, <1>2, <1>4
<1>8. \A i \in 0 .. k : u[i] = p[i]
  <2>1. PICK m \in Nat : m = k
    BY Zenon, <1>5
  <2>2. \A i \in 1 .. m : u[i - 1] = p[i - 1] => u[i] = p[i]
    BY Zenon, <1>6, <2>1
  <2>3. Agree(m, u, p)
    BY Zenon, <1>7, <2>2, LoopsAgree DEF SameTurns
  <2>4. QED
    BY Zenon, <2>1, <2>3 DEF Agree
<1>9. k \in 0 .. k
  BY ONLY <1>5
<1>10. QED
  BY Zenon, <1>4, <1>8, <1>9

\* Sections that may be written, and their bytes.
SectionSpans(sections, pad) == [i \in DOMAIN sections |-> SectionBytes(sections[i], pad)]

AreSections(S, n, sections, pad) ==
  /\ n \in Nat /\ sections \in Seq(S) /\ Len(sections) = n
  /\ \A i \in 1 .. n : IsSection(sections[i], pad)

AreSpans(n, sections, pad, spans) ==
  /\ spans \in Seq(Seq(Nat)) /\ Len(spans) = n
  /\ \A i \in 1 .. n : spans[i] = SectionBytes(sections[i], pad) /\ Len(spans[i]) >= 1

LEMMA SpansOfSections ==
  ASSUME NEW S, NEW n, NEW sections, NEW pad, AreSections(S, n, sections, pad)
  PROVE  AreSpans(n, sections, pad, SectionSpans(sections, pad))
<1>1. n \in Nat /\ sections \in Seq(S) /\ Len(sections) = n /\ \A i \in 1 .. n : IsSection(sections[i], pad)
  BY Zenon DEF AreSections
<1>2. DOMAIN sections = 1 .. n
  BY ONLY <1>1
<1>3. \A i \in 1 .. n : SectionBytes(sections[i], pad) \in Seq(Nat) /\ Len(SectionBytes(sections[i], pad)) >= 1
  <2>1. <<>> \in Seq(Nat)
    OBVIOUS
  <2>2. QED
    BY Zenon, <1>1, <2>1, SectionRead
<1>4. PICK spans : spans = SectionSpans(sections, pad)
  OBVIOUS
<1>5. spans = [i \in 1 .. n |-> SectionBytes(sections[i], pad)]
  BY Zenon, <1>2, <1>4 DEF SectionSpans
<1>6. \A i \in 1 .. n : spans[i] = SectionBytes(sections[i], pad)
  BY Zenon, <1>5
<1>7. spans \in [1 .. n -> Seq(Nat)]
  BY Zenon, <1>3, <1>5
<1>8. spans \in Seq(Seq(Nat)) /\ Len(spans) = n
  BY ONLY <1>1, <1>7
<1>9. QED
  BY Zenon, <1>3, <1>4, <1>6, <1>8 DEF AreSpans

\* So may the first of them.
AreFirst(S, k, sections, pad, firsts) == AreSections(S, k, firsts, pad) /\ \A i \in 1 .. k : firsts[i] = sections[i]

LEMMA FirstOfSections ==
  ASSUME NEW S, NEW n, NEW sections, NEW pad, AreSections(S, n, sections, pad), NEW k \in 0 .. n
  PROVE  AreFirst(S, k, sections, pad, SubSeq(sections, 1, k))
<1>1. n \in Nat /\ sections \in Seq(S) /\ Len(sections) = n /\ \A i \in 1 .. n : IsSection(sections[i], pad)
  BY Zenon DEF AreSections
<1>2. k \in 0 .. Len(sections) /\ k \in Nat /\ \A i \in 1 .. k : i \in 1 .. n
  BY ONLY <1>1, k \in 0 .. n
<1>3. /\ SubSeq(sections, 1, k) \in Seq(S) /\ Len(SubSeq(sections, 1, k)) = k
      /\ \A i \in 1 .. k : SubSeq(sections, 1, k)[i] = sections[i]
  BY Zenon, <1>1, <1>2, Prefix
<1>4. \A i \in 1 .. k : IsSection(SubSeq(sections, 1, k)[i], pad)
  BY Zenon, <1>1, <1>2, <1>3
<1>5. QED
  BY Zenon, <1>2, <1>3, <1>4 DEF AreSections, AreFirst

\* What the first sections say, from one to the next.
Tells(n, sections, pad, told) ==
  /\ told[0] = EmptyModule /\ \A i \in 0 .. n : told[i] \in ModuleOf(pad)
  /\ \A i \in 1 .. n : told[i] = WithItems(told[i - 1], sections[i].id, sections[i].items)

LEMMA ItemsOfSection ==
  ASSUME NEW s, NEW pad, IsSection(s, pad)
  PROVE  s.items \in Seq(Item(s.id, pad))
BY Zenon DEF IsSection

LEMMA ToldExists ==
  ASSUME NEW S, NEW n, NEW sections, NEW pad, AreSections(S, n, sections, pad)
  PROVE  \E told : Tells(n, sections, pad, told)
<1>1. n \in Nat /\ \A i \in 1 .. n : IsSection(sections[i], pad)
  BY Zenon DEF AreSections
<1> DEFINE good == [i \in 0 .. n |-> ModuleOf(pad)]
           step == [i \in 1 .. n |-> [m \in ModuleOf(pad) |-> WithItems(m, sections[i].id, sections[i].items)]]
<1>2. \A i \in 1 .. n : i \in 0 .. n /\ i - 1 \in 0 .. n
  BY ONLY <1>1
<1>3. 0 \in 0 .. n
  BY ONLY <1>1
<1>4. EmptyModule \in good[0]
  BY Zenon, <1>3, EmptyType
<1>5. \A i \in 0 .. n : good[i] = ModuleOf(pad)
  BY Zenon
<1>6. \A i \in 1 .. n : \A m \in ModuleOf(pad) : step[i][m] = WithItems(m, sections[i].id, sections[i].items)
  BY Zenon
<1>7. \A i \in 1 .. n : \A m \in ModuleOf(pad) : WithItems(m, sections[i].id, sections[i].items) \in ModuleOf(pad)
  <2>1. SUFFICES ASSUME NEW i \in 1 .. n, NEW m \in ModuleOf(pad)
                 PROVE  WithItems(m, sections[i].id, sections[i].items) \in ModuleOf(pad)
    BY Zenon
  <2>2. PICK s : s = sections[i] /\ IsSection(s, pad)
    BY Zenon, <1>1
  <2>3. PICK id : id = s.id
    OBVIOUS
  <2>4. PICK items \in Seq(Item(id, pad)) : items = s.items
    BY Zenon, <2>2, <2>3, ItemsOfSection
  <2>5. WithItems(m, id, items) \in ModuleOf(pad)
    BY Zenon, ModuleType
  <2>6. QED
    BY Zenon, <2>2, <2>3, <2>4, <2>5
<1> HIDE DEF good, step
<1>8. Leads(n, good, step)
  <2>1. SUFFICES ASSUME NEW i \in 1 .. n, NEW m \in good[i - 1] PROVE step[i][m] \in good[i]
    BY Zenon DEF Leads
  <2>2. m \in ModuleOf(pad) /\ good[i] = ModuleOf(pad)
    BY Zenon, <1>2, <1>5
  <2>3. QED
    BY Zenon, <1>6, <1>7, <2>2
<1>9. PICK told : Loop(n, EmptyModule, good, step, told)
  BY Zenon, <1>1, <1>4, <1>8, LoopExists
<1>10. /\ told[0] = EmptyModule /\ (\A i \in 1 .. n : told[i] = step[i][told[i - 1]])
       /\ \A i \in 0 .. n : told[i] \in good[i]
  BY Zenon, <1>9 DEF Loop
<1>11. \A i \in 0 .. n : told[i] \in ModuleOf(pad)
  BY Zenon, <1>5, <1>10
<1>12. \A i \in 1 .. n : told[i] = WithItems(told[i - 1], sections[i].id, sections[i].items)
  BY Zenon, <1>2, <1>6, <1>10, <1>11
<1>13. Tells(n, sections, pad, told)
  BY Zenon, <1>10, <1>11, <1>12 DEF Tells
<1>14. QED
  BY Zenon, <1>13

LEMMA MeaningIs ==
  ASSUME NEW n \in Nat, NEW sections, Len(sections) = n, NEW pad, NEW told, Tells(n, sections, pad, told)
  PROVE  Meaning(sections) = told[n]
<1> DEFINE Turn(m, i) == WithItems(m, sections[i].id, sections[i].items)
           IsTold(c) == c = [i \in 0 .. n |-> IF i = 0 THEN EmptyModule ELSE WithItems(c[i - 1], sections[i].id, sections[i].items)]
           h == [i \in 0 .. n |-> told[i]]
<1>1. Meaning(sections) = (CHOOSE c : IsTold(c))[n]
  BY Zenon DEF Meaning
<1>2. \A i \in 1 .. n : i \in 0 .. n /\ i - 1 \in 0 .. n /\ i # 0
  BY ONLY n \in Nat
<1>3. \A i \in 0 .. n : i # 0 => i \in 1 .. n
  BY ONLY n \in Nat
<1>4. told[0] = EmptyModule /\ \A i \in 1 .. n : told[i] = WithItems(told[i - 1], sections[i].id, sections[i].items)
  BY Zenon DEF Tells
<1>5. \A i \in 0 .. n : h[i] = told[i]
  BY Zenon
<1>6. h = [i \in 0 .. n |-> h[i]]
  BY Zenon
<1> HIDE DEF h
<1>7. \A i \in 0 .. n : h[i] = IF i = 0 THEN EmptyModule ELSE WithItems(h[i - 1], sections[i].id, sections[i].items)
  BY Zenon, <1>2, <1>3, <1>4, <1>5
<1>8. IsTold(h)
  BY ONLY <1>6, <1>7
<1>9. PICK c : IsTold(c) /\ Meaning(sections) = c[n]
  <2> HIDE DEF IsTold
  <2>1. QED
    BY Zenon, <1>1, <1>8
<1>10. \A i \in 0 .. n : c[i] = IF i = 0 THEN EmptyModule ELSE WithItems(c[i - 1], sections[i].id, sections[i].items)
  BY ONLY <1>9
<1>11. 0 \in 0 .. n /\ n \in 0 .. n
  BY ONLY n \in Nat
<1>12. c[0] = told[0]
  BY Zenon, <1>4, <1>10, <1>11
<1>13. \A i \in 1 .. n : c[i] = WithItems(c[i - 1], sections[i].id, sections[i].items)
  BY Zenon, <1>2, <1>10
<1> HIDE DEF IsTold
<1>14. SameTurns(n, c, told)
  BY Zenon, <1>4, <1>13 DEF SameTurns
<1>15. Agree(n, c, told)
  BY Zenon, <1>12, <1>14, LoopsAgree
<1>16. QED
  BY Zenon, <1>9, <1>11, <1>15 DEF Agree

\* A file, what its sections say one after the other, and what of them lies
\* before and after each.
IsFile(S, n, file, told, p, r) ==
  /\ AreSections(S, n, file.sections, file.pad) /\ Tells(n, file.sections, file.pad, told)
  /\ Laid(Nat, SectionSpans(file.sections, file.pad), p, r)

Says(file, k, m) == Meaning(FirstSections(file, k)) = m

LEMMA MeaningOfFirst ==
  ASSUME NEW S, NEW n, NEW file, NEW told, NEW p, NEW r, IsFile(S, n, file, told, p, r), NEW k \in 0 .. n
  PROVE  Says(file, k, told[k])
<1>1. PICK sections, pad : sections = file.sections /\ pad = file.pad
  OBVIOUS
<1>2. AreSections(S, n, sections, pad) /\ Tells(n, sections, pad, told)
  BY Zenon, <1>1 DEF IsFile
<1>3. PICK firsts : firsts = SubSeq(sections, 1, k)
  OBVIOUS
<1>4. AreSections(S, k, firsts, pad) /\ \A i \in 1 .. k : firsts[i] = sections[i]
  <2>1. AreFirst(S, k, sections, pad, SubSeq(sections, 1, k))
    BY Zenon, <1>2, FirstOfSections
  <2>2. QED
    BY Zenon, <1>3, <2>1 DEF AreFirst
<1>5. k \in Nat /\ Len(firsts) = k
  BY Zenon, <1>4 DEF AreSections
<1>6. n \in Nat
  BY Zenon, <1>2 DEF AreSections
<1>7. (\A i \in 1 .. k : i \in 1 .. n) /\ \A i \in 0 .. k : i \in 0 .. n
  BY ONLY <1>6, k \in 0 .. n
<1>8. Tells(k, firsts, pad, told)
  BY Zenon, <1>2, <1>4, <1>7 DEF Tells
<1>9. Meaning(firsts) = told[k]
  BY Zenon, <1>5, <1>8, MeaningIs
<1>10. QED
  BY Zenon, <1>1, <1>3, <1>9 DEF FirstSections, Says

Heading == Magic \o <<1, 0, 0, 0>>

LEMMA HeadingIs ==
  /\ Magic \in Seq(Nat) /\ Len(Magic) = 4 /\ <<1, 0, 0, 0>> \in Seq(Nat)
  /\ Heading \in Seq(Nat) /\ Len(Heading) = 8
<1>1. Magic \in Seq(Nat) /\ Len(Magic) = 4 /\ <<1, 0, 0, 0>> \in Seq(Nat) /\ Len(<<1, 0, 0, 0>>) = 4
  BY DEF Magic
<1>2. PICK a \in Seq(Nat), b \in Seq(Nat) : a = Magic /\ b = <<1, 0, 0, 0>> /\ Len(a) = 4 /\ Len(b) = 4
  BY Zenon, <1>1
<1>3. a \o b \in Seq(Nat) /\ Len(a \o b) = Len(a) + Len(b)
  BY ONLY Catenated, a \in Seq(Nat), b \in Seq(Nat)
<1>4. 4 + 4 = 8
  OBVIOUS
<1>5. QED
  BY Zenon, <1>1, <1>2, <1>3, <1>4 DEF Heading

LEMMA FileIs ==
  ASSUME NEW sections, NEW pad
  PROVE  FileBytes(sections, pad) = Heading \o FlattenSeq(SectionSpans(sections, pad))
BY Zenon DEF FileBytes, Heading, SectionSpans

EndsAt(file, k, s) == EndOf(file, k) = 8 + Len(s)

LEMMA EndIs ==
  ASSUME NEW S, NEW n, NEW file, NEW told, NEW p, NEW r, IsFile(S, n, file, told, p, r), NEW k \in 0 .. n
  PROVE  EndsAt(file, k, p[k])
<1>1. PICK sections, pad : sections = file.sections /\ pad = file.pad
  OBVIOUS
<1>2. PICK spans : spans = SectionSpans(sections, pad)
  OBVIOUS
<1>3. AreSections(S, n, sections, pad) /\ Laid(Nat, spans, p, r)
  BY Zenon, <1>1, <1>2 DEF IsFile
<1>4. spans \in Seq(Seq(Nat)) /\ Len(spans) = n /\ \A i \in 1 .. n : spans[i] = SectionBytes(sections[i], pad)
  <2>1. AreSpans(n, sections, pad, SectionSpans(sections, pad))
    BY Zenon, <1>3, SpansOfSections
  <2>2. QED
    BY Zenon, <1>2, <2>1 DEF AreSpans
<1>5. PICK firsts : firsts = SubSeq(sections, 1, k)
  OBVIOUS
<1>6. AreSections(S, k, firsts, pad) /\ \A i \in 1 .. k : firsts[i] = sections[i]
  <2>1. AreFirst(S, k, sections, pad, SubSeq(sections, 1, k))
    BY Zenon, <1>3, FirstOfSections
  <2>2. QED
    BY Zenon, <1>5, <2>1 DEF AreFirst
<1>7. PICK q : q = SectionSpans(firsts, pad)
  OBVIOUS
<1>8. q \in Seq(Seq(Nat)) /\ Len(q) = k /\ \A i \in 1 .. k : q[i] = SectionBytes(firsts[i], pad)
  <2>1. AreSpans(k, firsts, pad, SectionSpans(firsts, pad))
    BY Zenon, <1>6, SpansOfSections
  <2>2. QED
    BY Zenon, <1>7, <2>1 DEF AreSpans
<1>9. n \in Nat
  BY Zenon, <1>3 DEF AreSections
<1>10. \A i \in 1 .. k : i \in 1 .. n
  BY ONLY <1>9, k \in 0 .. n
<1>11. \A i \in 1 .. k : q[i] = spans[i]
  BY Zenon, <1>4, <1>6, <1>8, <1>10
<1>12. k \in 0 .. Len(spans)
  BY Zenon, <1>4
<1>13. FlattenSeq(q) = p[k]
  BY ONLY <1>3, <1>4, <1>8, <1>11, <1>12, FlatPrefix
<1>14. p[k] \in Seq(Nat)
  <2>1. p \in [0 .. n -> Seq(Nat)]
    BY Zenon, <1>3, <1>4 DEF Laid
  <2>2. QED
    BY ONLY <2>1, k \in 0 .. n
<1>15. PICK b \in Seq(Nat) : b = p[k]
  BY Zenon, <1>14
<1>16. PICK hd \in Seq(Nat) : hd = Heading /\ Len(hd) = 8
  BY Zenon, HeadingIs
<1>17. Len(hd \o b) = Len(hd) + Len(b)
  BY ONLY Catenated, hd \in Seq(Nat), b \in Seq(Nat)
<1>18. FileBytes(firsts, pad) = hd \o b
  BY Zenon, <1>7, <1>13, <1>15, <1>16, FileIs
<1>19. EndOf(file, k) = Len(hd \o b)
  BY Zenon, <1>1, <1>5, <1>18 DEF EndOf, FirstSections
<1>20. QED
  BY Zenon, <1>15, <1>16, <1>17, <1>19 DEF EndsAt

\* Where each of the sections ends.
Measured(n, spans, r, q, size) ==
  /\ n \in Nat /\ size \in Nat /\ q \in [0 .. n -> Nat] /\ q[0] = 0 /\ q[n] = size
  /\ r[0] = FlattenSeq(spans) /\ \A i \in 0 .. n : r[i] \in Seq(Nat) /\ q[i] + Len(r[i]) = size
  /\ \A i \in 1 .. n : /\ spans[i] \in Seq(Nat) /\ r[i - 1] = spans[i] \o r[i]
                       /\ q[i] = q[i - 1] + Len(spans[i]) /\ q[i] >= q[i - 1] + 1

AreMeasures(n, spans, p, r, q, size) == Measured(n, spans, r, q, size) /\ \A i \in 0 .. n : q[i] = Len(p[i])

LEMMA Measures ==
  ASSUME NEW n \in Nat, NEW sections, NEW pad, NEW spans, AreSpans(n, sections, pad, spans),
         NEW p, NEW r, Laid(Nat, spans, p, r)
  PROVE  \E q, size : AreMeasures(n, spans, p, r, q, size)
<1>0. spans \in Seq(Seq(Nat)) /\ Len(spans) = n /\ \A i \in 1 .. n : Len(spans[i]) >= 1
  BY Zenon DEF AreSpans
<1>1. /\ p \in [0 .. n -> Seq(Nat)] /\ p[0] = <<>> /\ \A i \in 1 .. n : p[i] = p[i - 1] \o spans[i]
      /\ r \in [0 .. n -> Seq(Nat)] /\ \A i \in 1 .. n : r[i - 1] = spans[i] \o r[i]
      /\ r[0] = FlattenSeq(spans) /\ p[n] = FlattenSeq(spans)
      /\ \A i \in 0 .. n : p[i] \o r[i] = FlattenSeq(spans)
  BY Zenon, <1>0 DEF Laid
<1>2. \A i \in 0 .. n : p[i] \in Seq(Nat) /\ r[i] \in Seq(Nat)
  BY ONLY <1>1
<1>3. \A i \in 1 .. n : spans[i] \in Seq(Nat)
  BY ONLY <1>0
<1>4. PICK flat \in Seq(Nat) : flat = FlattenSeq(spans)
  BY Zenon, <1>0, Flattened
<1>5. PICK size \in Nat : size = Len(flat)
  BY ONLY flat \in Seq(Nat)
<1> DEFINE q == [i \in 0 .. n |-> Len(p[i])]
<1>6. \A i \in 0 .. n : q[i] = Len(p[i])
  BY Zenon
<1>7. \A i \in 0 .. n : Len(p[i]) \in Nat
  BY ONLY <1>2
<1>8. q \in [0 .. n -> Nat]
  BY Zenon, <1>7
<1> HIDE DEF q
<1>9. 0 \in 0 .. n /\ n \in 0 .. n
  BY ONLY n \in Nat
<1>10. q[0] = 0 /\ q[n] = size
  <2>1. Len(<<>>) = 0
    OBVIOUS
  <2>2. QED
    BY Zenon, <1>1, <1>4, <1>5, <1>6, <1>9, <2>1
<1>11. ASSUME NEW i \in 0 .. n PROVE q[i] + Len(r[i]) = size
  <2>1. PICK a \in Seq(Nat), b \in Seq(Nat) : a = p[i] /\ b = r[i]
    BY Zenon, <1>2
  <2>2. Len(a \o b) = Len(a) + Len(b)
    BY ONLY Catenated, a \in Seq(Nat), b \in Seq(Nat)
  <2>3. a \o b = flat
    BY Zenon, <1>1, <1>4, <2>1
  <2>4. q[i] = Len(a)
    BY Zenon, <1>6, <2>1
  <2>5. QED
    BY Zenon, <1>5, <2>1, <2>2, <2>3, <2>4
<1>12. ASSUME NEW i \in 1 .. n PROVE q[i] = q[i - 1] + Len(spans[i]) /\ q[i] >= q[i - 1] + 1
  <2>1. i \in 0 .. n /\ i - 1 \in 0 .. n
    BY ONLY i \in 1 .. n, n \in Nat
  <2>2. PICK a \in Seq(Nat), b \in Seq(Nat) : a = p[i - 1] /\ b = spans[i]
    BY Zenon, <1>2, <1>3, <2>1
  <2>3. Len(a \o b) = Len(a) + Len(b)
    BY ONLY Catenated, a \in Seq(Nat), b \in Seq(Nat)
  <2>4. q[i] = Len(a) + Len(b) /\ q[i - 1] = Len(a) /\ Len(b) >= 1
    BY Zenon, <1>0, <1>1, <1>6, <2>1, <2>2, <2>3
  <2>5. q[i] >= q[i - 1] + 1
    BY ONLY <2>4, a \in Seq(Nat), b \in Seq(Nat)
  <2>6. QED
    BY Zenon, <2>2, <2>4, <2>5
<1>13. Measured(n, spans, r, q, size)
  BY Zenon, <1>1, <1>2, <1>3, <1>8, <1>10, <1>11, <1>12 DEF Measured
<1>14. QED
  BY Zenon, <1>6, <1>13 DEF AreMeasures

\* The file has the first w sections whole, and no more.
IsWhole(n, q, c, w) == w \in 0 .. n /\ q[w] <= c /\ \A k \in 0 .. n : k > w => q[k] > c

LEMMA WholeIs ==
  ASSUME NEW S, NEW n, NEW file, NEW told, NEW p, NEW r, IsFile(S, n, file, told, p, r),
         NEW q, \A i \in 0 .. n : q[i] \in Nat /\ q[i] = Len(p[i]), q[0] = 0,
         NEW c \in Nat, file.length = 8 + c
  PROVE  IsWhole(n, q, c, Whole(file))
<1>1. n \in Nat /\ Len(file.sections) = n
  BY Zenon DEF IsFile, AreSections
<1>2. \A k \in 0 .. n : EndOf(file, k) = 8 + q[k]
  <2>1. SUFFICES ASSUME NEW k \in 0 .. n PROVE EndOf(file, k) = 8 + q[k]
    BY Zenon
  <2>2. EndsAt(file, k, p[k])
    BY Zenon, EndIs
  <2>3. QED
    BY Zenon, <2>2 DEF EndsAt
<1> DEFINE W == {k \in 0 .. n : k = 0 \/ EndOf(file, k) <= file.length}
<1>3. Whole(file) = Max(W)
  BY Zenon, <1>1 DEF Whole
<1>4. 0 \in W /\ W \in SUBSET (0 .. n)
  BY ONLY <1>1
<1>5. \A k \in W : k \in 0 .. n /\ (k = 0 \/ EndOf(file, k) <= file.length)
  BY Zenon
<1>6. \A k \in 0 .. n : EndOf(file, k) <= file.length => k \in W
  BY Zenon
<1> HIDE DEF W
<1>7. PICK w : w = Max(W) /\ w \in W /\ \A k \in W : k <= w
  <2>1. W # {}
    BY Zenon, <1>4
  <2>2. Max(W) \in W /\ \A k \in W : k <= Max(W)
    BY Zenon, <1>1, <1>4, <2>1, GreatestOf
  <2>3. QED
    BY Zenon, <2>2
<1>8. w \in 0 .. n /\ (w = 0 \/ EndOf(file, w) <= file.length)
  BY Zenon, <1>5, <1>7
<1>9. q[w] <= c
  <2>1. CASE w = 0
    BY ONLY <2>1, q[0] = 0, c \in Nat
  <2>2. CASE w # 0
    <3>1. EndOf(file, w) <= file.length
      BY Zenon, <1>8, <2>2
    <3>2. 8 + q[w] <= 8 + c
      BY Zenon, <1>2, <1>8, <3>1
    <3>3. q[w] \in Nat
      BY Zenon, <1>8
    <3>4. QED
      BY ONLY <3>2, <3>3, c \in Nat
  <2>3. QED
    BY Zenon, <2>1, <2>2
<1>10. ASSUME NEW k \in 0 .. n, k > w PROVE q[k] > c
  <2>1. ~(k <= w)
    BY ONLY <1>1, <1>8, <1>10, k \in 0 .. n
  <2>2. ~(EndOf(file, k) <= file.length)
    BY Zenon, <1>6, <1>7, <2>1
  <2>3. ~(8 + q[k] <= 8 + c)
    BY Zenon, <1>2, <2>2
  <2>4. q[k] \in Nat
    BY Zenon
  <2>5. QED
    BY ONLY <2>3, <2>4, c \in Nat
<1>11. IsWhole(n, q, c, w)
  BY Zenon, <1>8, <1>9, <1>10 DEF IsWhole
<1>12. QED
  BY Zenon, <1>3, <1>7, <1>11

\* What is left after section k of a file with c bytes of sections.
Left(r, q, c, k) == SubSeq(r[k], 1, c - q[k])

LEMMA LeftIs ==
  ASSUME NEW n, NEW spans, NEW r, NEW q, NEW size, Measured(n, spans, r, q, size),
         NEW c \in 0 .. size, NEW k \in 0 .. n, q[k] <= c
  PROVE  /\ Left(r, q, c, k) \in Seq(Nat) /\ c - q[k] \in 0 .. Len(r[k])
         /\ c = q[k] => Left(r, q, c, k) = <<>>
<1>1. /\ n \in Nat /\ size \in Nat /\ q \in [0 .. n -> Nat]
      /\ r[k] \in Seq(Nat) /\ q[k] + Len(r[k]) = size
  BY Zenon DEF Measured
<1>2. PICK a \in Nat, b \in Seq(Nat), l \in Nat : a = q[k] /\ b = r[k] /\ l = Len(b)
  <2>1. q[k] \in Nat /\ Len(r[k]) \in Nat
    BY ONLY <1>1, k \in 0 .. n
  <2>2. QED
    BY Zenon, <1>1, <2>1
<1>3. PICK d \in Nat : d = c - q[k] /\ d \in 0 .. l /\ (c = q[k] => d = 0)
  <2>1. a <= c /\ a + l = size
    BY Zenon, <1>1, <1>2
  <2>2. c - a \in Nat /\ c - a \in 0 .. l /\ (c = a => c - a = 0)
    BY ONLY <1>1, <2>1, c \in 0 .. size, a \in Nat, l \in Nat
  <2>3. QED
    BY Zenon, <1>2, <2>2
<1>4. SubSeq(b, 1, d) \in Seq(Nat) /\ Len(SubSeq(b, 1, d)) = d
  BY Zenon, <1>2, <1>3, Prefix
<1>5. d = 0 => SubSeq(b, 1, d) = <<>>
  BY Zenon, <1>4, Nothing0
<1>6. QED
  BY Zenon, <1>2, <1>3, <1>4, <1>5 DEF Left

LeftBefore(spans, r, q, c, k) == Left(r, q, c, k - 1) = spans[k] \o Left(r, q, c, k)

LEMMA LeftAfter ==
  ASSUME NEW n, NEW spans, NEW r, NEW q, NEW size, Measured(n, spans, r, q, size),
         NEW c \in 0 .. size, NEW k \in 1 .. n, q[k] <= c, q[k - 1] <= c
  PROVE  LeftBefore(spans, r, q, c, k)
<1>1. n \in Nat /\ size \in Nat /\ q \in [0 .. n -> Nat] /\ \A i \in 0 .. n : r[i] \in Seq(Nat)
  BY Zenon DEF Measured
<1>2. /\ spans[k] \in Seq(Nat) /\ r[k - 1] = spans[k] \o r[k]
      /\ q[k] = q[k - 1] + Len(spans[k])
  BY Zenon DEF Measured
<1>3. k \in 0 .. n /\ k - 1 \in 0 .. n
  BY ONLY <1>1, k \in 1 .. n
<1>4. PICK a \in Seq(Nat), b \in Seq(Nat), l \in Nat, before \in Nat :
        a = spans[k] /\ b = r[k] /\ l = Len(a) /\ before = q[k - 1]
  <2>1. Len(spans[k]) \in Nat /\ q[k - 1] \in Nat
    BY ONLY <1>1, <1>2, <1>3
  <2>2. QED
    BY Zenon, <1>1, <1>2, <1>3, <2>1
<1>5. c - q[k] \in 0 .. Len(b)
  BY Zenon, <1>3, <1>4, LeftIs
<1>6. PICK d : d = c - q[k]
  OBVIOUS
<1>7. d \in 0 .. Len(b)
  BY Zenon, <1>5, <1>6
<1>8. l + d = c - before
  <2>1. d = c - (before + l)
    BY Zenon, <1>2, <1>4, <1>6
  <2>2. QED
    BY ONLY <1>1, <2>1, c \in 0 .. size, before \in Nat, l \in Nat
<1>9. SubSeq(a \o b, 1, l + d) = a \o SubSeq(b, 1, d)
  BY ZenonT(40), <1>4, <1>7, CutAfter
<1>10. QED
  BY Zenon, <1>2, <1>4, <1>6, <1>8, <1>9 DEF Left, LeftBefore

\* The loop has nothing to do without a module, or without bytes.
LEMMA NothingLeft ==
  /\ NextSection(Gone) = Gone
  /\ \A m : NextSection(Done(m)) = Done(m)
<1>1. <<<<>>, <<>>>>[1] = <<>>
  OBVIOUS
<1>2. NextSection(Gone) = Gone
  BY Zenon, <1>1 DEF NextSection, Gone
<1>3. ASSUME NEW m PROVE NextSection(Done(m)) = Done(m)
  <2>1. <<<<m>>, <<>>>>[2] = <<>>
    OBVIOUS
  <2>2. QED
    BY Zenon, <2>1 DEF NextSection, Done
<1>4. QED
  BY Zenon, <1>2, <1>3

\* What is left after the last section that is whole.
SpansOf(n, sections, pad, spans) ==
  \A i \in 1 .. n : IsSection(sections[i], pad) /\ spans[i] = SectionBytes(sections[i], pad)

LastRead(m, left, q, c, w) ==
  LET y == NextSection(<<<<m>>, left>>) IN y \in {Gone, Done(m)} /\ (y = Gone => q[w] < c)

LEMMA LastTurn ==
  ASSUME NEW n, NEW spans, NEW r, NEW q, NEW size, Measured(n, spans, r, q, size),
         NEW c \in 0 .. size, NEW w, IsWhole(n, q, c, w), NEW pad, NEW m \in ModuleOf(pad),
         NEW sections, SpansOf(n, sections, pad, spans)
  PROVE  LastRead(m, Left(r, q, c, w), q, c, w)
<1>1. /\ n \in Nat /\ size \in Nat /\ q \in [0 .. n -> Nat] /\ q[n] = size
      /\ \A i \in 0 .. n : r[i] \in Seq(Nat) /\ q[i] + Len(r[i]) = size
  BY Zenon DEF Measured
<1>2. w \in 0 .. n /\ q[w] <= c /\ \A k \in 0 .. n : k > w => q[k] > c
  BY Zenon DEF IsWhole
<1>3. PICK a \in Nat : a = q[w] /\ a <= c
  <2>1. q[w] \in Nat
    BY ONLY <1>1, <1>2
  <2>2. QED
    BY Zenon, <1>2, <2>1
<1>4. Gone # Done(m)
  <2>1. <<<<>>, <<>>>>[1] # <<<<m>>, <<>>>>[1]
    OBVIOUS
  <2>2. QED
    BY Zenon, <2>1 DEF Gone, Done
<1>5. CASE a = c
  <2>1. Left(r, q, c, w) = <<>>
    BY Zenon, <1>2, <1>3, <1>5, LeftIs
  <2>2. NextSection(<<<<m>>, Left(r, q, c, w)>>) = Done(m)
    BY Zenon, <2>1, NothingLeft DEF Done
  <2>3. QED
    BY Zenon, <1>4, <2>2 DEF LastRead
<1>6. CASE a # c
  <2>1. a < c
    BY ONLY <1>1, <1>3, <1>6, a \in Nat, c \in 0 .. size
  <2>2. w # n
    <3>1. c <= size
      BY ONLY <1>1, c \in 0 .. size
    <3>2. a # size
      BY ONLY <1>1, <2>1, <3>1, a \in Nat, c \in 0 .. size
    <3>3. QED
      BY Zenon, <1>1, <1>3, <3>2
  <2>3. PICK k \in 1 .. n : k = w + 1 /\ k - 1 = w /\ k > w /\ k \in 0 .. n
    <3>1. w + 1 \in 1 .. n /\ (w + 1) - 1 = w /\ w + 1 > w /\ w + 1 \in 0 .. n
      BY ONLY <1>1, <1>2, <2>2
    <3>2. QED
      BY Zenon, <3>1
  <2>4. PICK s : s = sections[k] /\ IsSection(s, pad) /\ spans[k] = SectionBytes(s, pad)
    BY Zenon DEF SpansOf
  <2>5. /\ spans[k] \in Seq(Nat) /\ r[w] = spans[k] \o r[k] /\ r[k] \in Seq(Nat)
        /\ q[k] = q[w] + Len(spans[k]) /\ q[k] > c
    BY Zenon, <1>1, <1>2, <2>3 DEF Measured
  <2>6. PICK x \in Seq(Nat), b \in Seq(Nat) : x = SectionBytes(s, pad) /\ x = spans[k] /\ b = r[k]
    BY Zenon, <2>4, <2>5
  <2>7. PICK l \in Nat : l = Len(x) /\ a + l > c
    <3>1. a + Len(x) > c
      BY Zenon, <1>3, <2>5, <2>6
    <3>2. Len(x) \in Nat
      BY ONLY x \in Seq(Nat)
    <3>3. QED
      BY Zenon, <3>1, <3>2
  <2>8. PICK d : d = c - a /\ d \in 1 .. l - 1 /\ d \in 0 .. l
    <3>1. c - a \in 1 .. l - 1 /\ c - a \in 0 .. l
      BY ONLY <1>1, <2>1, <2>7, a \in Nat, l \in Nat, c \in 0 .. size
    <3>2. QED
      BY Zenon, <3>1
  <2>9. SubSeq(x \o b, 1, d) = SubSeq(x, 1, d)
    BY Zenon, <2>7, <2>8, CutBefore
  <2>10. Left(r, q, c, w) = SubSeq(SectionBytes(s, pad), 1, d)
    BY Zenon, <1>3, <2>5, <2>6, <2>8, <2>9 DEF Left
  <2>11. d \in 1 .. Len(SectionBytes(s, pad)) - 1
    BY Zenon, <2>6, <2>7, <2>8
  <2>12. NextSection(<<<<m>>, SubSeq(SectionBytes(s, pad), 1, d)>>) \in {Gone, Done(m)}
    BY Zenon, <2>4, <2>11, SectionCut
  <2>13. q[w] < c
    BY Zenon, <1>3, <2>1
  <2>14. QED
    BY Zenon, <2>10, <2>12, <2>13 DEF LastRead
<1>7. QED
  BY Zenon, <1>5, <1>6

\* The loop over the sections of a file that begins as one.
ParsedAs(bytes, m, q, c, w) == Parse(bytes) \in {<<>>, <<m>>} /\ (Parse(bytes) = <<>> => q[w] < c)

LEMMA SectionsRead ==
  ASSUME NEW n, NEW spans, NEW r, NEW q, NEW size, Measured(n, spans, r, q, size),
         NEW c \in 0 .. size, NEW w, IsWhole(n, q, c, w), NEW pad,
         NEW sections, SpansOf(n, sections, pad, spans),
         NEW told, Tells(n, sections, pad, told),
         NEW bytes, Len(bytes) = 8 + c, SubSeq(bytes, 1, 4) = Magic, Rest(bytes, 8) = Left(r, q, c, 0)
  PROVE  ParsedAs(bytes, told[w], q, c, w)
<1>1. /\ n \in Nat /\ size \in Nat /\ q \in [0 .. n -> Nat] /\ q[n] = size /\ q[0] = 0
      /\ \A i \in 1 .. n : q[i] >= q[i - 1] + 1
  BY Zenon DEF Measured
<1>2. w \in 0 .. n /\ q[w] <= c
  BY Zenon DEF IsWhole
<1>3. PICK size1 \in Nat : size1 = 8 + c
  BY ONLY <1>1, c \in 0 .. size
<1>4. \A k \in 0 .. n : q[k] >= k /\ \A j \in 0 .. k : q[j] <= q[k]
  BY Zenon, <1>1, Growing
<1>5. \A k \in 0 .. w : k \in 0 .. n /\ q[k] <= c
  <2>1. SUFFICES ASSUME NEW k \in 0 .. w PROVE k \in 0 .. n /\ q[k] <= c
    BY Zenon
  <2>2. k \in 0 .. n
    BY ONLY <1>1, <1>2, k \in 0 .. w
  <2>3. q[k] <= q[w]
    BY Zenon, <1>2, <1>4
  <2>4. q[k] \in Nat /\ q[w] \in Nat
    BY ONLY <1>1, <1>2, <2>2
  <2>5. q[k] <= c
    BY ONLY <1>1, <1>2, <2>3, <2>4, c \in 0 .. size
  <2>6. QED
    BY Zenon, <2>2, <2>5
<1>6. w < size1 /\ w \in Nat
  <2>1. q[w] >= w /\ q[w] \in Nat
    <3>1. q[w] \in Nat
      BY ONLY <1>1, <1>2
    <3>2. QED
      BY Zenon, <1>2, <1>4, <3>1
  <2>2. QED
    BY ONLY <1>1, <1>2, <1>3, <2>1, c \in 0 .. size
<1>7. /\ told[0] = EmptyModule /\ (\A i \in 0 .. n : told[i] \in ModuleOf(pad))
      /\ \A i \in 1 .. n : told[i] = WithItems(told[i - 1], sections[i].id, sections[i].items)
  BY Zenon DEF Tells
<1>8. PICK y : y = NextSection(<<<<told[w]>>, Left(r, q, c, w)>>)
  OBVIOUS
<1>9. y \in {Gone, Done(told[w])} /\ (y = Gone => q[w] < c)
  <2>1. PICK m \in ModuleOf(pad) : m = told[w]
    BY Zenon, <1>2, <1>7
  <2>2. LastRead(m, Left(r, q, c, w), q, c, w)
    BY Zenon, LastTurn
  <2>3. QED
    BY Zenon, <1>8, <2>1, <2>2 DEF LastRead
<1>10. NextSection(y) = y
  BY Zenon, <1>9, NothingLeft
<1> DEFINE IsRead(a) == a = [k \in 0 .. size1 |-> IF k = 0 THEN <<<<EmptyModule>>, Rest(bytes, 8)>> ELSE NextSection(a[k - 1])]
           h == [k \in 0 .. size1 |-> IF k <= w THEN <<<<told[k]>>, Left(r, q, c, k)>> ELSE y]
<1>11. \A k \in 0 .. size1 : h[k] = IF k <= w THEN <<<<told[k]>>, Left(r, q, c, k)>> ELSE y
  BY Zenon
<1>12. h = [k \in 0 .. size1 |-> h[k]]
  BY Zenon
<1> HIDE DEF h
<1>13. 0 \in 0 .. size1 /\ size1 \in 0 .. size1 /\ 0 <= w /\ ~(size1 <= w)
  BY ONLY <1>6, size1 \in Nat
<1>14. h[0] = <<<<EmptyModule>>, Rest(bytes, 8)>>
  BY Zenon, <1>7, <1>11, <1>13
<1>15. ASSUME NEW k \in 1 .. size1 PROVE h[k] = NextSection(h[k - 1])
  <2>1. k \in 0 .. size1 /\ k - 1 \in 0 .. size1
    BY ONLY k \in 1 .. size1, size1 \in Nat
  <2>2. CASE k <= w
    <3>1. k - 1 <= w /\ k \in 1 .. n /\ k \in 0 .. w /\ k - 1 \in 0 .. w
      BY ONLY <1>1, <1>2, <2>2, k \in 1 .. size1, size1 \in Nat
    <3>2. h[k] = <<<<told[k]>>, Left(r, q, c, k)>> /\ h[k - 1] = <<<<told[k - 1]>>, Left(r, q, c, k - 1)>>
      BY Zenon, <1>11, <2>1, <2>2, <3>1
    <3>3. PICK s : s = sections[k] /\ IsSection(s, pad) /\ spans[k] = SectionBytes(s, pad)
      BY Zenon, <3>1 DEF SpansOf
    <3>4. PICK rest \in Seq(Nat) : rest = Left(r, q, c, k)
      BY Zenon, <1>5, <3>1, LeftIs
    <3>5. Left(r, q, c, k - 1) = SectionBytes(s, pad) \o rest
      <4>1. LeftBefore(spans, r, q, c, k)
        BY Zenon, <1>5, <3>1, LeftAfter
      <4>2. QED
        BY Zenon, <3>3, <3>4, <4>1 DEF LeftBefore
    <3>6. PICK m : m = told[k - 1] /\ told[k] = WithItems(m, s.id, s.items)
      BY Zenon, <1>7, <3>1, <3>3
    <3>7. TurnTakes(m, SectionBytes(s, pad) \o rest, WithItems(m, s.id, s.items), rest)
      BY Zenon, <3>3, SectionRead
    <3>8. QED
      BY Zenon, <3>2, <3>4, <3>5, <3>6, <3>7 DEF TurnTakes
  <2>3. CASE k = w + 1
    <3>1. k - 1 = w /\ ~(k <= w) /\ w <= w
      BY ONLY <1>6, <2>3
    <3>2. h[k] = y /\ h[k - 1] = <<<<told[w]>>, Left(r, q, c, w)>>
      BY Zenon, <1>11, <2>1, <3>1
    <3>3. QED
      BY Zenon, <1>8, <3>2
  <2>4. CASE ~(k <= w) /\ k # w + 1
    <3>1. ~(k - 1 <= w)
      BY ONLY <1>6, <2>4, k \in 1 .. size1, size1 \in Nat
    <3>2. h[k] = y /\ h[k - 1] = y
      BY Zenon, <1>11, <2>1, <2>4, <3>1
    <3>3. QED
      BY Zenon, <1>10, <3>2
  <2>5. QED
    BY Zenon, <2>2, <2>3, <2>4
<1>16. IsRead(h)
  <2>1. \A k \in 0 .. size1 : k # 0 => k \in 1 .. size1
    BY ONLY size1 \in Nat
  <2>2. \A k \in 0 .. size1 : h[k] = IF k = 0 THEN <<<<EmptyModule>>, Rest(bytes, 8)>> ELSE NextSection(h[k - 1])
    BY Zenon, <1>14, <1>15, <2>1
  <2>3. QED
    BY ONLY <1>12, <2>2
<1>17. Parse(bytes) = (CHOOSE a : IsRead(a))[size1][1]
  <2>1. ~(size1 < 8)
    BY ONLY <1>1, <1>3, c \in 0 .. size
  <2>2. QED
    BY Zenon, <1>3, <2>1 DEF Parse
<1>18. PICK a : IsRead(a) /\ Parse(bytes) = a[size1][1]
  <2> HIDE DEF IsRead
  <2>1. QED
    BY Zenon, <1>16, <1>17
<1>19. \A k \in 0 .. size1 : a[k] = IF k = 0 THEN <<<<EmptyModule>>, Rest(bytes, 8)>> ELSE NextSection(a[k - 1])
  BY ONLY <1>18
<1> HIDE DEF IsRead
<1>20. a[0] = h[0]
  BY Zenon, <1>13, <1>14, <1>19
<1>21. SameTurns(size1, a, h)
  <2>1. \A k \in 1 .. size1 : k \in 0 .. size1 /\ k # 0
    BY ONLY size1 \in Nat
  <2>2. \A k \in 1 .. size1 : a[k] = NextSection(a[k - 1])
    BY Zenon, <1>19, <2>1
  <2>3. QED
    BY Zenon, <1>15, <2>2 DEF SameTurns
<1>22. Agree(size1, a, h)
  BY Zenon, <1>20, <1>21, LoopsAgree
<1>23. a[size1] = y
  BY Zenon, <1>11, <1>13, <1>22 DEF Agree
<1>24. PICK m : m = told[w]
  OBVIOUS
<1>25. Gone[1] = <<>> /\ Done(m)[1] = <<m>> /\ <<m>> # <<>>
  BY ONLY TRUE DEF Gone, Done
<1>26. CASE y = Gone
  BY Zenon, <1>9, <1>18, <1>23, <1>25, <1>26 DEF ParsedAs
<1>27. CASE y = Done(m)
  BY Zenon, <1>18, <1>23, <1>24, <1>25, <1>27 DEF ParsedAs
<1>28. QED
  BY Zenon, <1>9, <1>24, <1>26, <1>27

\* What a file, cut short or not, is read as.
ReadBack(file, read) ==
  /\ read \in {<<>>, <<Meaning(FirstSections(file, Whole(file)))>>}
  /\ read = <<>> => file.length < 8 \/ file.length > EndOf(file, Whole(file))

LEMMA MagicFirst ==
  ASSUME NEW x \in Seq(Nat)
  PROVE  SubSeq(Heading \o x, 1, 4) = Magic
<1>1. PICK a \in Seq(Nat), b \in Seq(Nat) : a = Magic /\ b = <<1, 0, 0, 0>> /\ Len(a) = 4
  BY Zenon, HeadingIs
<1>2. PICK bx \in Seq(Nat) : bx = b \o x
  BY Zenon, TwoParts
<1>3. (a \o b) \o x = a \o (b \o x)
  BY Zenon, Regrouped
<1>4. Heading = a \o b
  BY Zenon, <1>1 DEF Heading
<1>5. Heading \o x = a \o bx
  BY Zenon, <1>2, <1>3, <1>4
<1>6. SubSeq(a \o bx, 1, Len(a)) = a
  BY Zenon, Parts
<1>7. QED
  BY Zenon, <1>1, <1>5, <1>6

LEMMA FileRead ==
  ASSUME NEW S, NEW n, NEW file, AreSections(S, n, file.sections, file.pad), file.length \in Nat,
         file.length <= Len(FileBytes(file.sections, file.pad))
  PROVE  ReadBack(file, Parse(SubSeq(FileBytes(file.sections, file.pad), 1, file.length)))
<1>1. PICK sections, pad, length : sections = file.sections /\ pad = file.pad /\ length = file.length /\ length \in Nat
  BY Zenon
<1>2. AreSections(S, n, sections, pad) /\ length <= Len(FileBytes(sections, pad)) /\ n \in Nat
  BY Zenon, <1>1 DEF AreSections
<1>3. PICK told : Tells(n, sections, pad, told)
  BY Zenon, <1>2, ToldExists
<1>4. PICK spans : spans = SectionSpans(sections, pad) /\ AreSpans(n, sections, pad, spans)
  BY Zenon, <1>2, SpansOfSections
<1>5. /\ spans \in Seq(Seq(Nat)) /\ Len(spans) = n
      /\ \A i \in 1 .. n : spans[i] = SectionBytes(sections[i], pad) /\ Len(spans[i]) >= 1
  BY Zenon, <1>4 DEF AreSpans
<1>6. PICK p, r : Laid(Nat, spans, p, r)
  BY ONLY <1>5, Flattened
<1>7. IsFile(S, n, file, told, p, r)
  BY Zenon, <1>1, <1>2, <1>3, <1>4, <1>6 DEF IsFile
<1>8. PICK q, size : Measured(n, spans, r, q, size) /\ \A i \in 0 .. n : q[i] = Len(p[i])
  <2>1. \E q, size : AreMeasures(n, spans, p, r, q, size)
    BY Zenon, <1>2, <1>4, <1>6, Measures
  <2>2. QED
    BY Zenon, <2>1 DEF AreMeasures
<1>9. q \in [0 .. n -> Nat] /\ q[0] = 0 /\ size \in Nat /\ r[0] \in Seq(Nat) /\ r[0] = FlattenSeq(spans) /\ q[0] + Len(r[0]) = size
  <2>1. 0 \in 0 .. n
    BY ONLY <1>2
  <2>2. QED
    BY Zenon, <1>8, <2>1 DEF Measured
<1>10. PICK flat \in Seq(Nat) : flat = r[0] /\ Len(flat) = size
  <2>1. Len(r[0]) = size
    BY ONLY <1>9
  <2>2. QED
    BY Zenon, <1>9, <2>1
<1>11. PICK hd \in Seq(Nat) : hd = Heading /\ Len(hd) = 8
  BY Zenon, HeadingIs
<1>12. PICK all \in Seq(Nat) : all = hd \o flat /\ Len(all) = 8 + size
  <2>1. hd \o flat \in Seq(Nat) /\ Len(hd \o flat) = Len(hd) + Len(flat)
    BY ONLY Catenated, hd \in Seq(Nat), flat \in Seq(Nat)
  <2>2. QED
    BY Zenon, <1>10, <1>11, <2>1
<1>13. FileBytes(sections, pad) = all
  BY Zenon, <1>4, <1>9, <1>10, <1>11, <1>12, FileIs
<1>14. length \in 0 .. Len(all) /\ length <= 8 + size
  <2>1. length <= 8 + size
    BY Zenon, <1>2, <1>12, <1>13
  <2>2. QED
    BY ONLY <1>12, <2>1, <1>1
<1>15. PICK bytes \in Seq(Nat) : bytes = SubSeq(all, 1, length) /\ Len(bytes) = length
  <2>1. SubSeq(all, 1, length) \in Seq(Nat) /\ Len(SubSeq(all, 1, length)) = length
    BY Zenon, <1>14, Prefix
  <2>2. QED
    BY Zenon, <2>1
<1>16. ReadBack(file, Parse(bytes))
  <2>1. CASE length < 8
    <3>1. Parse(bytes) = <<>>
      BY Zenon, <1>15, <2>1 DEF Parse
    <3>2. QED
      BY Zenon, <1>1, <2>1, <3>1 DEF ReadBack
  <2>2. CASE ~(length < 8)
    <3>1. PICK c \in Nat : c = length - 8 /\ length = 8 + c /\ c \in 0 .. size
      <4>1. length - 8 \in Nat /\ length = 8 + (length - 8) /\ length - 8 \in 0 .. size
        BY ONLY SMTT(20), <1>1, <1>9, <1>14, <2>2
      <4>2. QED
        BY Zenon, <4>1
    <3>2. PICK x \in Seq(Nat) : x = SubSeq(flat, 1, c)
      <4>1. c \in 0 .. Len(flat)
        BY Zenon, <1>10, <3>1
      <4>2. SubSeq(flat, 1, c) \in Seq(Nat)
        BY Zenon, <4>1, Prefix
      <4>3. QED
        BY Zenon, <4>2
    <3>3. bytes = hd \o x
      <4>1. 8 \in Nat /\ c \in 0 .. Len(flat)
        BY ONLY <1>10, <3>1
      <4>2. SubSeq(hd \o flat, 1, 8 + c) = hd \o SubSeq(flat, 1, c)
        BY ZenonT(40), <1>11, <4>1, CutAfter
      <4>3. QED
        BY Zenon, <1>12, <1>15, <3>1, <3>2, <4>2
    <3>4. SubSeq(bytes, 1, 4) = Magic
      <4>1. SubSeq(Heading \o x, 1, 4) = Magic
        BY Zenon, MagicFirst
      <4>2. QED
        BY Zenon, <1>11, <3>3, <4>1
    <3>5. Rest(bytes, 8) = Left(r, q, c, 0)
      <4>1. Rest(hd \o x, Len(hd)) = x
        BY Zenon, Parts
      <4>2. c - 0 = c
        BY ONLY c \in Nat
      <4>3. Left(r, q, c, 0) = x
        BY Zenon, <1>9, <1>10, <3>2, <4>2 DEF Left
      <4>4. QED
        BY Zenon, <1>11, <3>3, <4>1, <4>3
    <3>6. PICK w : w = Whole(file) /\ IsWhole(n, q, c, w)
      <4>1. \A i \in 0 .. n : q[i] \in Nat
        BY ONLY <1>9
      <4>2. IsWhole(n, q, c, Whole(file))
        BY Zenon, <1>1, <1>7, <1>8, <1>9, <3>1, <4>1, WholeIs
      <4>3. QED
        BY Zenon, <4>2
    <3>7. SpansOf(n, sections, pad, spans)
      BY Zenon, <1>2, <1>5 DEF SpansOf, AreSections
    <3>8. Parse(bytes) \in {<<>>, <<told[w]>>} /\ (Parse(bytes) = <<>> => q[w] < c)
      <4>1. Len(bytes) = 8 + c
        BY Zenon, <1>15, <3>1
      <4>2. QED
        <5>1. ParsedAs(bytes, told[w], q, c, w)
          BY Zenon, <1>3, <1>8, <3>1, <3>4, <3>5, <3>6, <3>7, <4>1, SectionsRead
        <5>2. QED
          BY Zenon, <5>1 DEF ParsedAs
    <3>9. w \in 0 .. n
      BY Zenon, <3>6 DEF IsWhole
    <3>10. Meaning(FirstSections(file, w)) = told[w]
      <4>1. Says(file, w, told[w])
        BY Zenon, <1>7, <3>9, MeaningOfFirst
      <4>2. QED
        BY Zenon, <4>1 DEF Says
    <3>11. q[w] < c => length > EndOf(file, w)
      <4>1. EndsAt(file, w, p[w])
        BY Zenon, <1>7, <3>9, EndIs
      <4>2. EndOf(file, w) = 8 + q[w]
        BY Zenon, <1>8, <3>9, <4>1 DEF EndsAt
      <4>3. q[w] \in Nat
        BY ONLY <1>9, <3>9
      <4>4. q[w] < c => 8 + c > 8 + q[w]
        BY ONLY <4>3, c \in Nat
      <4>5. QED
        BY Zenon, <3>1, <4>2, <4>4
    <3>12. QED
      BY Zenon, <1>1, <3>6, <3>8, <3>10, <3>11 DEF ReadBack
  <2>3. QED
    BY Zenon, <2>1, <2>2
<1>17. QED
  BY Zenon, <1>1, <1>13, <1>15, <1>16

--------------------------------------------------------------------------------
(* What was read is what is called. *)

\* The module exports a function by the name.
IsCallable(m, name) ==
  \E i \in DOMAIN m.exports : m.exports[i].name = name /\ m.exports[i].kind = FunctionExport

\* What an instance compiled, and what a call of it answers.
IsCompiled(m, compiled) ==
  /\ \A name : name \in DOMAIN compiled <=> IsCallable(m, name)
  /\ \A name \in DOMAIN compiled : compiled[name] = ReturnFirst

IsAnswered(m, call) == call.result = IF IsCallable(m, call.name) THEN call.args[1] ELSE -1

IsInstance(m, made, called) ==
  \/ made = <<>> /\ called = <<>>
  \/ \E compiled : /\ made = <<compiled>> /\ IsCompiled(m, compiled)
                   /\ called = <<>> \/ \E call : called = <<call>> /\ IsAnswered(m, call)

\* Nothing is written yet, or what was read of the file is what it says.
IsRuntime(wrote1, read, made, called) ==
  \/ wrote1 = <<>> /\ read = <<>> /\ made = <<>> /\ called = <<>>
  \/ \E file : /\ wrote1 = <<file>> /\ ReadBack(file, read)
               /\ \/ read = <<>> /\ made = <<>> /\ called = <<>>
                  \/ \E m : read = <<m>> /\ IsInstance(m, made, called)

WasmInv == IsRuntime(written, module, instance, answer)

LEMMA OneOf ==
  /\ DOMAIN <<>> = {} /\ \A x : DOMAIN <<x>> = {1} /\ <<x>>[1] = x /\ <<x>> # <<>>
  /\ \A x, y : <<x>> = <<y>> => x = y
OBVIOUS

LEMMA RuntimeReads == WasmInv => ModulesAreRead
<1>1. SUFFICES ASSUME WasmInv, NEW f \in DOMAIN written
               PROVE  LET file == written[f]
                          told == Meaning(FirstSections(file, Whole(file)))
                      IN  /\ module \in {<<>>, <<told>>}
                          /\ module = <<>> => file.length < 8 \/ file.length > EndOf(file, Whole(file))
                          /\ \A a \in DOMAIN answer :
                               answer[a].result =
                                 IF \E i \in DOMAIN told.exports :
                                      told.exports[i].name = answer[a].name /\ told.exports[i].kind = FunctionExport
                                 THEN answer[a].args[1] ELSE -1
  BY Zenon DEF ModulesAreRead
<1>2. written # <<>>
  BY Zenon, OneOf
<1>3. PICK file : /\ written = <<file>> /\ ReadBack(file, module)
                  /\ \/ module = <<>> /\ instance = <<>> /\ answer = <<>>
                     \/ \E m : module = <<m>> /\ IsInstance(m, instance, answer)
  BY Zenon, <1>1, <1>2 DEF WasmInv, IsRuntime
<1>4. written[f] = file
  <2>1. f \in {1}
    BY Zenon, <1>3, OneOf
  <2>2. f = 1
    BY Zenon, <2>1
  <2>3. QED
    BY Zenon, <1>3, <2>2, OneOf
<1>5. PICK told : told = Meaning(FirstSections(file, Whole(file)))
  OBVIOUS
<1>6. /\ module \in {<<>>, <<told>>}
      /\ module = <<>> => file.length < 8 \/ file.length > EndOf(file, Whole(file))
  BY Zenon, <1>3, <1>5 DEF ReadBack
<1>7. ASSUME NEW a \in DOMAIN answer
      PROVE  answer[a].result = IF IsCallable(told, answer[a].name) THEN answer[a].args[1] ELSE -1
  <2>1. answer # <<>>
    BY Zenon, OneOf
  <2>2. PICK m : module = <<m>> /\ IsInstance(m, instance, answer)
    BY Zenon, <1>3, <2>1
  <2>3. m = told
    BY Zenon, <1>6, <2>2, OneOf
  <2>4. PICK call : answer = <<call>> /\ IsAnswered(told, call)
    BY Zenon, <2>1, <2>2, <2>3 DEF IsInstance
  <2>5. a \in {1}
    BY Zenon, <2>4, OneOf
  <2>6. a = 1
    BY Zenon, <2>5
  <2>7. answer[a] = call
    BY Zenon, <2>4, <2>6, OneOf
  <2>8. QED
    BY Zenon, <2>4, <2>7 DEF IsAnswered
<1>8. QED
  BY Zenon, <1>4, <1>5, <1>6, <1>7 DEF IsCallable

LEMMA LoadReads ==
  ASSUME NEW n \in Nat, NEW sections \in [1 .. n -> Sections], NEW pad,
         NEW length \in 0 .. Len(FileBytes(sections, pad)), Load(sections, pad, length), WasmInv
  PROVE  WasmInv'
<1>1. /\ written = <<>> /\ \A i \in DOMAIN sections : IsSection(sections[i], pad)
      /\ length <= Len(FileBytes(sections, pad))
      /\ written' = <<[sections |-> sections, pad |-> pad, length |-> length]>>
      /\ module' = Parse(SubSeq(FileBytes(sections, pad), 1, length))
      /\ instance' = instance /\ answer' = answer
  BY Zenon DEF Load
<1>2. instance = <<>> /\ answer = <<>>
  BY Zenon, <1>1, OneOf DEF WasmInv, IsRuntime
<1>3. sections \in Seq(Sections) /\ Len(sections) = n /\ DOMAIN sections = 1 .. n
  BY ONLY n \in Nat, sections \in [1 .. n -> Sections]
<1>4. AreSections(Sections, n, sections, pad)
  BY Zenon, <1>1, <1>3 DEF AreSections
<1>5. PICK file : /\ file = [sections |-> sections, pad |-> pad, length |-> length]
                  /\ file.sections = sections /\ file.pad = pad /\ file.length = length
  <2> DEFINE given == [sections |-> sections, pad |-> pad, length |-> length]
  <2>1. given.sections = sections /\ given.pad = pad /\ given.length = length
    BY ONLY TRUE
  <2>2. QED
    BY Zenon, <2>1
<1>6. length \in Nat
  OBVIOUS
<1>7. ReadBack(file, Parse(SubSeq(FileBytes(file.sections, file.pad), 1, file.length)))
  <2>1. AreSections(Sections, n, file.sections, file.pad)
    BY Zenon, <1>4, <1>5
  <2>2. file.length \in Nat /\ file.length <= Len(FileBytes(file.sections, file.pad))
    BY Zenon, <1>1, <1>5, <1>6
  <2>3. QED
    BY Zenon, <2>1, <2>2, FileRead
<1>8. ReadBack(file, module')
  BY Zenon, <1>1, <1>5, <1>7
<1>9. module' = <<>> \/ \E m : module' = <<m>>
  BY Zenon, <1>8 DEF ReadBack
<1>10. instance' = <<>> /\ answer' = <<>>
  BY Zenon, <1>1, <1>2
<1>11. \A m : IsInstance(m, instance', answer')
  BY Zenon, <1>10 DEF IsInstance
<1>12. IsRuntime(written', module', instance', answer')
  BY Zenon, <1>1, <1>5, <1>8, <1>9, <1>10, <1>11 DEF IsRuntime
<1>13. QED
  BY Zenon, <1>12 DEF WasmInv

\* t is s with b behind it.
Extends(s, b, t) ==
  s \in Seq(Int) /\ t \in Seq(Int) /\ b \in Int /\ Len(t) = Len(s) + 1 /\ t[Len(t)] = b
  /\ \A i \in 1 .. Len(s) : t[i] = s[i]

LEMMA Extended == ASSUME NEW s, NEW b, NEW t, Extends(s, b, t) PROVE Append(s, b) = t
<1> USE DEF Extends
<1>1. PICK a \in Seq(Int) : a = Append(s, b) /\ Len(a) = Len(s) + 1 /\ a[Len(a)] = b /\ \A j \in 1 .. Len(s) : a[j] = s[j]
  OBVIOUS
<1>2. \A j \in 1 .. Len(t) : a[j] = t[j]
  BY <1>1
<1>3. a = t
  BY <1>1, <1>2
<1>4. QED
  BY <1>1, <1>3

LEMMA CodeIs == \A m, index : CompileFunction(m, index) = ReturnFirst
<1> DEFINE one   == <<72>>
           two   == <<72, 139>>
           three == <<72, 139, 7>>
           four  == <<72, 139, 7, 195>>
<1>0. EmitByte(<<>>, 72) = one
  BY DEF EmitByte, Capacity
<1>1. one \in Seq(Int) /\ Len(one) = 1 /\ one[1] = 72
  OBVIOUS
<1>2. two \in Seq(Int) /\ Len(two) = 2 /\ two[1] = 72 /\ two[2] = 139
  OBVIOUS
<1>3. three \in Seq(Int) /\ Len(three) = 3 /\ three[1] = 72 /\ three[2] = 139 /\ three[3] = 7
  OBVIOUS
<1>4. four \in Seq(Int) /\ Len(four) = 4 /\ four[1] = 72 /\ four[2] = 139 /\ four[3] = 7 /\ four[4] = 195
  OBVIOUS
<1> HIDE DEF one, two, three, four
<1>5. /\ \A i \in 1 .. Len(one) : two[i] = one[i]
      /\ \A i \in 1 .. Len(two) : three[i] = two[i]
      /\ \A i \in 1 .. Len(three) : four[i] = three[i]
  BY ONLY <1>1, <1>2, <1>3, <1>4
<1>6. /\ 139 \in Int /\ 7 \in Int /\ 195 \in Int
      /\ Len(two) = Len(one) + 1 /\ Len(three) = Len(two) + 1 /\ Len(four) = Len(three) + 1
      /\ two[Len(two)] = 139 /\ three[Len(three)] = 7 /\ four[Len(four)] = 195
  BY ONLY <1>1, <1>2, <1>3, <1>4
<1>7. Append(one, 139) = two /\ Append(two, 7) = three /\ Append(three, 195) = four
  <2>1. Extends(one, 139, two) /\ Extends(two, 7, three) /\ Extends(three, 195, four)
    BY Zenon, <1>1, <1>2, <1>3, <1>4, <1>5, <1>6 DEF Extends
  <2>2. Append(one, 139) = two
    BY Zenon, <2>1, Extended
  <2>3. Append(two, 7) = three
    BY Zenon, <2>1, Extended
  <2>4. Append(three, 195) = four
    BY Zenon, <2>1, Extended
  <2>5. QED
    BY Zenon, <2>2, <2>3, <2>4
<1>8. Len(one) < Capacity /\ Len(two) < Capacity /\ Len(three) < Capacity
  BY <1>1, <1>2, <1>3 DEF Capacity
<1>9. EmitByte(one, 139) = two /\ EmitByte(two, 7) = three /\ EmitByte(three, 195) = four
  BY Zenon, <1>7, <1>8 DEF EmitByte
<1>10. EmitByte(EmitByte(EmitByte(EmitByte(<<>>, 72), 139), 7), 195) = four
  BY Zenon, <1>0, <1>9
<1>11. QED
  BY Zenon, <1>10 DEF four, CompileFunction, ReturnFirst

LEMMA InstantiateCompiles == ASSUME Instantiate, WasmInv PROVE WasmInv'
<1>1. module # <<>> /\ written' = written /\ module' = module /\ answer' = answer /\ instance = <<>>
  BY Zenon DEF Instantiate
<1>2. PICK file : written = <<file>> /\ ReadBack(file, module) /\ \E m : module = <<m>> /\ IsInstance(m, instance, answer)
  BY Zenon, <1>1 DEF WasmInv, IsRuntime
<1>3. PICK m : module = <<m>> /\ IsInstance(m, instance, answer)
  BY Zenon, <1>2
<1>4. answer = <<>>
  BY Zenon, <1>1, <1>3, OneOf DEF IsInstance
<1>5. module[1] = m
  BY Zenon, <1>3, OneOf
<1> DEFINE exports == m.exports
           Exported == {exports[i].name : i \in {j \in DOMAIN exports : exports[j].kind = FunctionExport}}
<1>6. PICK compiled : /\ instance' = <<compiled>>
                      /\ compiled = [name \in Exported |-> ReturnFirst]
  BY Zenon, <1>5, CodeIs DEF Instantiate
<1>7. \A name : name \in Exported <=> IsCallable(m, name)
  BY Zenon DEF IsCallable
<1>8. IsCompiled(m, compiled)
  BY Zenon, <1>6, <1>7 DEF IsCompiled
<1>9. IsInstance(m, instance', answer')
  BY Zenon, <1>1, <1>4, <1>6, <1>8 DEF IsInstance
<1>10. IsRuntime(written', module', instance', answer')
  BY Zenon, <1>1, <1>2, <1>3, <1>9 DEF IsRuntime
<1>11. QED
  BY Zenon, <1>10 DEF WasmInv

LEMMA InvokeAnswers == ASSUME NEW name, NEW args, Invoke(name, args), WasmInv PROVE WasmInv'
<1>1. /\ instance # <<>> /\ written' = written /\ module' = module /\ instance' = instance
      /\ answer' = <<[name |-> name, args |-> args,
                      result |-> IF name \in DOMAIN instance[1] THEN Run(instance[1][name], args) ELSE -1]>>
  BY Zenon DEF Invoke
<1>2. PICK file : written = <<file>> /\ ReadBack(file, module) /\ \E m : module = <<m>> /\ IsInstance(m, instance, answer)
  BY Zenon, <1>1 DEF WasmInv, IsRuntime
<1>3. PICK m : module = <<m>> /\ IsInstance(m, instance, answer)
  BY Zenon, <1>2
<1>4. PICK compiled : instance = <<compiled>> /\ IsCompiled(m, compiled)
  BY Zenon, <1>1, <1>3 DEF IsInstance
<1>5. instance[1] = compiled
  BY Zenon, <1>4, OneOf
<1>6. PICK result : result = IF name \in DOMAIN compiled THEN Run(compiled[name], args) ELSE -1
  OBVIOUS
<1>7. PICK call : /\ call = [name |-> name, args |-> args, result |-> result]
                  /\ call.name = name /\ call.args = args /\ call.result = result
  <2> DEFINE given == [name |-> name, args |-> args, result |-> result]
  <2>1. given.name = name /\ given.args = args /\ given.result = result
    BY ONLY TRUE
  <2>2. QED
    BY Zenon, <2>1
<1>8. answer' = <<call>>
  BY Zenon, <1>1, <1>5, <1>6, <1>7
<1>9. result = IF IsCallable(m, name) THEN args[1] ELSE -1
  <2>1. Run(ReturnFirst, args) = args[1]
    BY Zenon DEF Run
  <2>2. CASE name \in DOMAIN compiled
    BY Zenon, <1>4, <1>6, <2>1, <2>2 DEF IsCompiled
  <2>3. CASE name \notin DOMAIN compiled
    BY Zenon, <1>4, <1>6, <2>3 DEF IsCompiled
  <2>4. QED
    BY Zenon, <2>2, <2>3
<1>10. IsAnswered(m, call)
  BY Zenon, <1>7, <1>9 DEF IsAnswered
<1>11. IsInstance(m, instance', answer')
  BY Zenon, <1>1, <1>4, <1>8, <1>10 DEF IsInstance
<1>12. IsRuntime(written', module', instance', answer')
  BY Zenon, <1>1, <1>2, <1>3, <1>11 DEF IsRuntime
<1>13. QED
  BY Zenon, <1>12 DEF WasmInv

\* Whatever sections a module has, with integers padded or not, and wherever its file
\* was cut short, what is read of it is what its whole sections say, and a call by
\* name finds what they export (BinaryParser::Parse, JITCompiler::CompileFunction,
\* RuntimeInstance::Instantiate and Invoke).
THEOREM ModulesAreReadBack == Spec => []ModulesAreRead
<1>1. Init => WasmInv
  BY Zenon DEF Init, WasmInit, WasmInv, IsRuntime
<1>2. WasmInv /\ [Next]_vars => WasmInv'
  <2>1. SUFFICES ASSUME WasmInv, [Next]_vars PROVE WasmInv'
    OBVIOUS
  <2>2. CASE WasmNext
    <3>1. CASE \E n \in 0 .. MaxSections : \E sections \in [1 .. n -> Sections], pad \in BOOLEAN :
                 \E length \in 0 .. Len(FileBytes(sections, pad)) : Load(sections, pad, length)
      <4>1. PICK n \in 0 .. MaxSections : \E sections \in [1 .. n -> Sections], pad \in BOOLEAN :
                 \E length \in 0 .. Len(FileBytes(sections, pad)) : Load(sections, pad, length)
        BY Zenon, <3>1
      <4>2. PICK sections \in [1 .. n -> Sections], pad \in BOOLEAN :
                 \E length \in 0 .. Len(FileBytes(sections, pad)) : Load(sections, pad, length)
        BY Zenon, <4>1
      <4>3. PICK length \in 0 .. Len(FileBytes(sections, pad)) : Load(sections, pad, length)
        BY Zenon, <4>2
      <4>4. n \in Nat
        BY LibrariesAssumption
      <4>5. QED
        BY Zenon, <2>1, <4>3, <4>4, LoadReads
    <3>2. CASE Instantiate
      BY Zenon, <2>1, <3>2, InstantiateCompiles
    <3>3. CASE \E name \in Names : Invoke(name, <<7>>)
      BY Zenon, <2>1, <3>3, InvokeAnswers
    <3>4. QED
      BY Zenon, <2>2, <3>1, <3>2, <3>3 DEF WasmNext
  <2>3. CASE UNCHANGED wasmVars
    BY Zenon, <2>1, <2>3 DEF wasmVars, WasmInv
  <2>4. QED
    BY Zenon, <2>1, <2>2, <2>3 DEF Next, vars
<1>3. QED
  BY <1>1, <1>2, RuntimeReads, PTL DEF Spec
================================================================================
