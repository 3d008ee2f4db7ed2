----------------------------- MODULE MCLibraries ------------------------------
(* Modules of two sections out of seven; columns of widths on both sides of a byte, *)
(* with runs of either kind; two vectors of two subspaces, one of them at least     *)
(* twice among three nodes, in two layers.                                          *)
EXTENDS Libraries, TLC

MCSections ==
  {[id |-> 1, items |-> <<[params |-> <<127, 126>>, returns |-> <<127>>],
                          [params |-> <<>>, returns |-> <<>>]>>],
   [id |-> 3, items |-> <<1, 0>>],
   [id |-> 7, items |-> <<[name |-> <<102>>, kind |-> 0, index |-> 0],
                          [name |-> <<103>>, kind |-> 2, index |-> 0]>>],
   [id |-> 7, items |-> <<[name |-> <<>>, kind |-> 0, index |-> 1]>>],
   [id |-> 10, items |-> <<[locals |-> <<<<2, 127>>, <<1, 126>>>>, code |-> <<32, 0, 11>>],
                           [locals |-> <<>>, code |-> <<11>>]>>],
   [id |-> 0, items |-> <<>>],
   [id |-> 5, items |-> <<0, 1>>]}

MCNames == {<<>>, <<102>>, <<103>>}

MCRuns(w) ==
  {[packed |-> FALSE, values |-> [i \in 1 .. n |-> v]] : n \in {1, 9}, v \in {1, 2 ^ w - 1}}
  \union {[packed |-> TRUE, values |-> [i \in 1 .. n |-> (a * i) % 2 ^ w]] : n \in {8, 16}, a \in {1, 3}}

\* Vectors that differ in both subspaces; equal vectors, and all under the untrained
\* codebook, are equally far.
MCVectors == {<<2, 0>>, <<1, 3>>}

\* A codebook that has two equally near centroids for the first part of <<1, 3>>.
MCCodebooks == {<<<<<<0>>, <<2>>>>, <<<<0>>, <<3>>>>>>}
===============================================================================
