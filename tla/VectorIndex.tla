------------------------------ MODULE VectorIndex ------------------------------
(***************************************************************************)
(* The vector index (tasks/hnsw-pq-simd-vector-engine): vectors, coded by  *)
(* the nearest centroid of each subspace, in a graph of layers.  Insert    *)
(* holds the index's mutex and SearchKNN shares it, so each is one action, *)
(* and threads insert in any order.  BuildPQ takes no mutex: they run while *)
(* it trains the codebook in place.  The numbers are small integers, which *)
(* the code's floats represent exactly; what training makes of its data is *)
(* any codebook.  SearchKNN compares all codes and never walks the graph.  *)
(***************************************************************************)
EXTENDS Integers, Sequences, SequencesExt

CONSTANTS
  Subspaces, SubDim, Centroids,
  Vector,      \* what is inserted and searched for
  Codebook,    \* what training may come to: the centroids of each subspace
  NodeId,      \* the ids that callers give, each once
  MaxLevel,    \* bounds: levels, results asked for,
  MaxResults,
  MaxBefore    \* and vectors that are stored when a codebook is built

ASSUME VectorAssumption ==
  /\ NodeId \subseteq Nat /\ MaxLevel \in Nat /\ MaxResults \in Nat /\ MaxBefore \in Nat
  /\ \A n \in {Subspaces, SubDim, Centroids} : n \in Nat \ {0}
  /\ Centroids <= 256     \* a code is a byte
  /\ \A v \in Vector : v \in Seq(Int) /\ Len(v) = Subspaces * SubDim
  /\ Codebook \subseteq [1 .. Subspaces -> [1 .. Centroids -> [1 .. SubDim -> Int]]]

VARIABLES
  pq,          \* centroids_ by subspace, or <<>> without a ProductQuantizer
  training,    \* the subspace that Train is at, 0 if nobody trains
  codes,       \* quantized_vectors_, one after the other: num_elements_ of them
  graph,       \* graph_[l][n]: neighbors, indices starting at 1
  levels,      \* node_levels_
  enter,       \* enter_node_
  maxLevel,
  stored,      \* ghost: [id, vector, book] by order of insertion
  found        \* ghost: what the last call answered, if it was a search

indexVars == <<pq, training, codes, graph, levels, enter, maxLevel, stored, found>>

Nothing == [query |-> <<>>, k |-> 0, ids |-> <<>>]

IndexInit ==
  /\ pq = <<>> /\ training = 0 /\ codes = <<>> /\ graph = <<>> /\ levels = <<>>
  /\ enter = 0 /\ maxLevel = -1
  /\ stored = <<>> /\ found = Nothing

(***************************************************************************)
(* ProductQuantizer                                                        *)
(***************************************************************************)
Sub(vector, m) == SubSeq(vector, (m - 1) * SubDim + 1, m * SubDim)

L2Distance(a, b) == SumFunction([d \in DOMAIN a |-> (a[d] - b[d]) * (a[d] - b[d])])

\* The centroids before training.
Blank == [m \in 1 .. Subspaces |-> [c \in 1 .. Centroids |-> [d \in 1 .. SubDim |-> 0]]]

\* The first of the nearest centroids.
Nearest(centroids, sub) ==
  CHOOSE c \in 1 .. Centroids : \A e \in 1 .. Centroids :
    LET dc == L2Distance(sub, centroids[c])
        de == L2Distance(sub, centroids[e])
    IN  dc < de \/ (dc = de /\ c <= e)

Encode(book, vector) == [m \in 1 .. Subspaces |-> Nearest(book[m], Sub(vector, m))]

QueryTable(book, query) ==
  [m \in 1 .. Subspaces |-> [c \in 1 .. Centroids |-> L2Distance(Sub(query, m), book[m][c])]]

AsymmetricDistance(table, code) == SumFunction([m \in 1 .. Subspaces |-> table[m][code[m]]])

(***************************************************************************)
(* HNSWIndex                                                               *)
(***************************************************************************)
\* The new quantizer is in place before it is trained, and the codes of an older
\* codebook stay.  One thread builds at a time; that a call which still uses the old
\* quantizer finds it freed, and a call that reads a centroid half written, is left out.
BuildPQ ==
  /\ training = 0
  /\ pq' = Blank /\ training' = 1
  /\ found' = Nothing
  /\ UNCHANGED <<codes, graph, levels, enter, maxLevel, stored>>

\* Train gives the centroids of a subspace other values, once or several times, and
\* goes on to the next subspace.
TrainSubspace ==
  /\ training > 0
  /\ \E book \in Codebook : pq' = [pq EXCEPT ![training] = book[training]]
  /\ training' \in {training, IF training = Subspaces THEN 0 ELSE training + 1}
  /\ found' = Nothing
  /\ UNCHANGED <<codes, graph, levels, enter, maxLevel, stored>>

Resize(vector, n) ==
  IF n <= Len(vector) THEN vector ELSE vector \o [i \in 1 .. n - Len(vector) |-> <<>>]

\* graph_ with a row for id in each layer up to level.
WithRows(id, level) ==
  LET layers == Resize(graph, level + 1)
  IN  [l \in DOMAIN layers |-> IF l <= level + 1 THEN Resize(layers[l], id + 1) ELSE layers[l]]

BelowTop(level) == {l \in 0 .. level : l < maxLevel}

\* The layers that a node of this level shares with the entry node.
Shared(level) == {l \in 0 .. level : l <= maxLevel}

Linked(layer, n, m) == [layer EXCEPT ![n + 1] = Append(@, m), ![m + 1] = Append(@, n)]

Insert(id, vector, level) ==
  LET book == IF pq = <<>> THEN Blank ELSE pq
      rows == WithRows(id, level)
  IN  /\ pq' = book
      /\ codes' = Append(codes, Encode(book, vector))
      /\ levels' = Append(levels, level)
      /\ graph' = [l \in DOMAIN rows |-> IF codes # <<>> /\ l - 1 \in Shared(level)
                                          THEN Linked(rows[l], id, enter) ELSE rows[l]]
      /\ IF codes = <<>> \/ level > maxLevel THEN enter' = id /\ maxLevel' = level
                                             ELSE UNCHANGED <<enter, maxLevel>>
      /\ stored' = Append(stored, [id |-> id, vector |-> vector, book |-> book])
      /\ found' = Nothing
      /\ UNCHANGED training

DropNearest(far, candidates, k) ==
  IF Cardinality(candidates) <= k THEN {candidates}
  ELSE {candidates \ {n} : n \in {m \in candidates : \A o \in candidates : far[m] <= far[o]}}

\* What top_candidates can be after a push: of equally far ones, any goes.
DropFarthest(far, candidates, k) ==
  IF Cardinality(candidates) <= k THEN {candidates}
  ELSE {candidates \ {n} : n \in {m \in candidates : \A o \in candidates : far[m] >= far[o]}}

\* What top_candidates may hold after the loop over the nodes.
TopCandidates(far, k) ==
  LET tops[n \in 0 .. Len(codes)] ==
        IF n = 0 THEN {{}}
        ELSE UNION {DropFarthest(far, candidates \union {n - 1}, k) : candidates \in tops[n - 1]}
  IN  tops[Len(codes)]

\* What SearchKNN may answer: positions in `codes', in the order of the queue.
Answers(query, k) ==
  LET table == QueryTable(pq, query)
      far   == [n \in 0 .. Len(codes) - 1 |-> AsymmetricDistance(table, codes[n + 1])]
  IN  IF codes = <<>> THEN {<<>>}
      ELSE {ids \in UNION {SetToSeqs(candidates) : candidates \in TopCandidates(far, k)} :
              \A i \in 1 .. Len(ids) - 1 : far[ids[i]] <= far[ids[i + 1]]}

SearchKNN(query, k) ==
  /\ \E ids \in Answers(query, k) : found' = [query |-> query, k |-> k, ids |-> ids]
  /\ UNCHANGED <<pq, training, codes, graph, levels, enter, maxLevel, stored>>

SelectRandomLevel == 0 .. MaxLevel

IndexNext ==
  \/ Len(codes) <= MaxBefore /\ BuildPQ
  \/ TrainSubspace
  \/ \E id \in NodeId, vector \in Vector, level \in SelectRandomLevel :
       /\ \A i \in DOMAIN stored : stored[i].id # id
       /\ Insert(id, vector, level)
  \/ \E query \in Vector, k \in 1 .. MaxResults : SearchKNN(query, k)

(***************************************************************************)
(* Properties                                                              *)
(***************************************************************************)
NodesAt(l) == {stored[i].id : i \in {j \in DOMAIN levels : levels[j] >= l}}

\* How often neighbors lists node m.
Occurs(neighbors, m) == Cardinality({i \in DOMAIN neighbors : neighbors[i] = m})

Edges(l, n, m) == Occurs(graph[l + 1][n + 1], m)

\* In whatever order threads insert and whatever levels are drawn, in every
\* layer each node can be reached from each other one, and an edge is listed at
\* both ends as often (Insert; instruction.md:20, "connected graph topology").
LayersAreConnected ==
  \A l \in 0 .. maxLevel :
    LET nodes == NodesAt(l)
    IN  /\ enter \in nodes
        /\ \A n, m \in nodes : Edges(l, n, m) = Edges(l, m, n)
        /\ \A S \in (SUBSET nodes) \ {{}, nodes} : \E n \in S, m \in nodes \ S : Edges(l, n, m) > 0

\* How far from the query what is kept of the vector inserted as n-th is.
Distance(query, n) ==
  LET kept == Encode(pq, stored[n + 1].vector)
  IN  SumFunction([m \in 1 .. Subspaces |-> L2Distance(Sub(query, m), pq[m][kept[m]])])

\* Unless the codebook changed after an insertion, an answer holds the k
\* vectors that are nearest as far as their codes tell, each once and nearest
\* first (SearchKNN).  They are named by when they were inserted: this is the id
\* that the caller gave only if ids were inserted in the order 0, 1, 2 ...
AnswersAreNearest ==
  LET ids     == found.ids
      near(n) == Distance(found.query, n)
      all     == 0 .. Len(stored) - 1
  IN  found.k > 0 /\ (\A i \in DOMAIN stored : stored[i].book = pq) =>
        /\ Len(ids) = (IF found.k < Len(stored) THEN found.k ELSE Len(stored))
        /\ \A i, j \in DOMAIN ids : i < j => ids[i] # ids[j] /\ near(ids[i]) <= near(ids[j])
        /\ \A i \in DOMAIN ids : ids[i] \in all
        /\ \A i \in DOMAIN ids, n \in all :
             (\A j \in DOMAIN ids : ids[j] # n) => near(ids[i]) <= near(n)
================================================================================
