------------------------------- MODULE RaftProofs -------------------------------
(***************************************************************************)
(* Proofs about Raft, for any nodes, threads and partitions, and any       *)
(* family of quorums that meet pairwise.                                   *)
(***************************************************************************)
EXTENDS Raft, TLAPS

\* Only a thread with an election under way has peers to ask.
Calling ==
  \A th \in Thread : at[th].peers # {} \/ at[th].to # Nobody => at[th].cand # Nobody

\* What a node remembers of its votes, and what it forgets.
Voting ==
  /\ \A v \in votes : v[1] <= term[v[2]]
  /\ \A n \in Node : votedFor[n] # Nobody => <<term[n], n, votedFor[n]>> \in votes
  /\ \A n \in Node : role[n] = "CANDIDATE" => votedFor[n] = n

\* In term t nobody voted twice, and those still in t remember their vote ...
Unique(t) ==
  \A v, c \in Node : <<t, v, c>> \in votes =>
    /\ \A d \in Node : <<t, v, d>> \in votes => d = c
    /\ term[v] = t => votedFor[v] = c

\* ... or a quorum voted for w only, and those of it still in t cannot forget it:
\* only a candidate forgets, and only when it hears from another that won.
Bound(t, w, v) ==
  /\ <<t, v, w>> \in votes
  /\ \A d \in Node : <<t, v, d>> \in votes => d = w
  /\ term[v] = t => votedFor[v] = w /\ (role[v] = "CANDIDATE" => v = w)

Settled(t) == \E w \in Node, Q \in Quorum : \A v \in Q : Bound(t, w, v)

Decided == \A t \in Nat : Unique(t) \/ Settled(t)

Inv == TypeOK /\ Calling /\ Voting /\ Decided

--------------------------------------------------------------------------------
LEMMA QuorumsAreNodes == \A Q \in Quorum : Q \subseteq Node /\ \A P \in Quorum : \E v \in Node : v \in P \cap Q
<1> TAKE Q \in Quorum
<1>1. Q \subseteq Node
  BY RaftAssumption
<1>2. ASSUME NEW P \in Quorum
      PROVE  \E v \in Node : v \in P \cap Q
  <2>1. P \cap Q # {}
    BY RaftAssumption
  <2>2. QED
    BY <1>1, <2>1
<1>3. QED
  BY <1>1, <1>2

\* The winner of a term is the candidate its quorum is bound to.
LEMMA WinnerOfSettled ==
  ASSUME NEW t, NEW w \in Node, NEW Q \in Quorum, \A v \in Q : Bound(t, w, v),
         NEW x \in Node, Elected(t, x)
  PROVE  x = w
<1>1. PICK P \in Quorum : \A v \in P : <<t, v, x>> \in votes
  BY DEF Elected
<1>2. PICK v \in Node : v \in P \cap Q
  BY QuorumsAreNodes
<1>3. QED
  BY <1>1, <1>2 DEF Bound

LEMMA WinnersAgree ==
  ASSUME Decided, NEW t \in Nat, NEW w \in Node, NEW x \in Node, Elected(t, w), Elected(t, x)
  PROVE  w = x
<1>1. CASE Unique(t)
  <2>1. PICK P \in Quorum : \A v \in P : <<t, v, w>> \in votes
    BY DEF Elected
  <2>2. PICK Q \in Quorum : \A v \in Q : <<t, v, x>> \in votes
    BY DEF Elected
  <2>3. PICK v \in Node : v \in P \cap Q
    BY QuorumsAreNodes
  <2>4. QED
    BY <1>1, <2>1, <2>2, <2>3 DEF Unique
<1>2. CASE Settled(t)
  <2>1. PICK y \in Node, Q \in Quorum : \A v \in Q : Bound(t, y, v)
    BY <1>2 DEF Settled
  <2>2. w = y /\ x = y
    BY <2>1, WinnerOfSettled
  <2>3. QED
    BY <2>2
<1>3. QED
  BY <1>1, <1>2 DEF Decided

--------------------------------------------------------------------------------
\* Node n moves to a later term: it has no vote there, and those of its old terms
\* no longer depend on what it remembers.
LEMMA Moved ==
  ASSUME TypeOK, Voting, Decided, NEW n \in Node, NEW t \in Nat, t > term[n],
         term' = [term EXCEPT ![n] = t],
         \A m \in Node \ {n} : votedFor'[m] = votedFor[m] /\ role'[m] = role[m],
         NEW c \in Node \union {Nobody},
         votedFor'[n] = c,
         votes' = IF c = Nobody THEN votes ELSE votes \union {<<t, n, c>>},
         votes' \subseteq Nat \X Node \X Node,
         role'[n] = "CANDIDATE" => c = n
  PROVE  Voting' /\ Decided'
<1>1. /\ term \in [Node -> Nat] /\ votes \subseteq Nat \X Node \X Node /\ Nobody \notin Node
      /\ \A m \in Node : term[m] \in Nat /\ term'[m] = IF m = n THEN t ELSE term[m]
  BY RaftAssumption DEF TypeOK, Nobody
<1>2. \A s \in Nat, d \in Node : <<s, n, d>> \in votes => s < t
  BY <1>1 DEF Voting
<1>3. \A s \in Nat, v, d \in Node : <<s, v, d>> \in votes' <=> <<s, v, d>> \in votes \/ (c # Nobody /\ s = t /\ v = n /\ d = c)
  BY <1>1
<1>4. Voting'
  <2>1. \A v \in votes' : v[1] <= term'[v[2]]
    BY <1>1 DEF Voting
  <2>2. \A m \in Node : votedFor'[m] # Nobody => <<term'[m], m, votedFor'[m]>> \in votes'
    BY <1>1 DEF Voting
  <2>3. \A m \in Node : role'[m] = "CANDIDATE" => votedFor'[m] = m
    BY DEF Voting
  <2>4. QED
    BY <2>1, <2>2, <2>3 DEF Voting
<1>5. ASSUME NEW s \in Nat, Unique(s)
      PROVE  Unique(s)'
  BY <1>1, <1>2, <1>3, <1>5 DEF Unique
<1>6. ASSUME NEW s \in Nat, Settled(s)
      PROVE  Settled(s)'
  <2>1. PICK w \in Node, Q \in Quorum : \A v \in Q : Bound(s, w, v)
    BY <1>6 DEF Settled
  <2>2. ASSUME NEW v \in Q
        PROVE  Bound(s, w, v)'
    BY <1>1, <1>2, <1>3, <2>1, QuorumsAreNodes DEF Bound
  <2>3. QED
    BY <2>2 DEF Settled
<1>7. QED
  BY <1>4, <1>5, <1>6 DEF Decided

\* Node n, which has not voted in its term or voted for c already, votes for c.
LEMMA Granted ==
  ASSUME TypeOK, Voting, Decided, NEW n \in Node, NEW c \in Node,
         votedFor[n] \in {Nobody, c},
         UNCHANGED term, UNCHANGED role,
         votedFor' = [votedFor EXCEPT ![n] = c],
         votes' = votes \union {<<term[n], n, c>>}
  PROVE  Voting' /\ Decided'
<1>1. /\ term \in [Node -> Nat] /\ votes \subseteq Nat \X Node \X Node /\ Nobody \notin Node
      /\ votedFor \in [Node -> Node \union {Nobody}]
      /\ \A m \in Node : term[m] \in Nat /\ votedFor'[m] = IF m = n THEN c ELSE votedFor[m]
  BY RaftAssumption DEF TypeOK, Nobody
<1>2. votes' \subseteq Nat \X Node \X Node
  BY <1>1
<1>3. \A s \in Nat, v, d \in Node : <<s, v, d>> \in votes' <=> <<s, v, d>> \in votes \/ (s = term[n] /\ v = n /\ d = c)
  BY <1>1
<1>4. Voting'
  <2>1. \A v \in votes' : v[1] <= term'[v[2]]
    BY <1>1 DEF Voting
  <2>2. \A m \in Node : votedFor'[m] # Nobody => <<term'[m], m, votedFor'[m]>> \in votes'
    BY <1>1 DEF Voting
  <2>3. \A m \in Node : role'[m] = "CANDIDATE" => votedFor'[m] = m
    BY <1>1 DEF Voting
  <2>4. QED
    BY <2>1, <2>2, <2>3 DEF Voting
<1>5. ASSUME NEW s \in Nat, Unique(s)
      PROVE  Unique(s)'
  BY <1>1, <1>3, <1>5 DEF Unique
<1>6. ASSUME NEW s \in Nat, Settled(s)
      PROVE  Settled(s)'
  <2>1. PICK w \in Node, Q \in Quorum : \A v \in Q : Bound(s, w, v)
    BY <1>6 DEF Settled
  <2>2. ASSUME NEW v \in Q
        PROVE  Bound(s, w, v)'
    BY <1>1, <1>3, <2>1, QuorumsAreNodes DEF Bound
  <2>3. QED
    BY <2>2 DEF Settled
<1>7. QED
  BY <1>4, <1>5, <1>6 DEF Decided

\* A candidate of the term in which another won forgets its vote.
LEMMA Forgotten ==
  ASSUME TypeOK, Voting, Decided, NEW n \in Node, NEW w \in Node, w # n,
         Elected(term[n], w), role[n] = "CANDIDATE",
         UNCHANGED term, UNCHANGED votes,
         votedFor' = [votedFor EXCEPT ![n] = Nobody],
         role' = [role EXCEPT ![n] = "FOLLOWER"]
  PROVE  Voting' /\ Decided'
<1>1. /\ term \in [Node -> Nat] /\ Nobody \notin Node
      /\ term[n] \in Nat
      /\ \A m \in Node : /\ votedFor'[m] = IF m = n THEN Nobody ELSE votedFor[m]
                         /\ role'[m] = IF m = n THEN "FOLLOWER" ELSE role[m]
  BY RaftAssumption DEF TypeOK, Nobody
<1>2. Voting'
  BY <1>1 DEF Voting
<1>3. Settled(term[n])
  <2>1. CASE Unique(term[n])
    <3>1. PICK Q \in Quorum : \A v \in Q : <<term[n], v, w>> \in votes
      BY DEF Elected
    <3>2. ASSUME NEW v \in Q
          PROVE  Bound(term[n], w, v)
      BY <1>1, <2>1, <3>1, QuorumsAreNodes DEF Unique, Bound, Voting
    <3>3. QED
      BY <3>2 DEF Settled
  <2>2. QED
    BY <1>1, <2>1 DEF Decided
\* n is in no quorum bound in its term: it would be bound to itself, the winner.
<1>4. ASSUME NEW s \in Nat, Settled(s)
      PROVE  Settled(s)'
  <2>1. PICK x \in Node, Q \in Quorum : \A v \in Q : Bound(s, x, v)
    BY <1>4 DEF Settled
  <2>2. s = term[n] => n \notin Q
    <3> SUFFICES ASSUME s = term[n], n \in Q PROVE FALSE
      OBVIOUS
    <3>1. \A v \in Q : Bound(term[n], x, v)
      BY <2>1
    <3>2. w = x
      BY <3>1, WinnerOfSettled
    <3>3. QED
      BY <3>1, <3>2 DEF Bound
  <2>3. ASSUME NEW v \in Q
        PROVE  Bound(s, x, v)'
    BY <1>1, <2>1, <2>2, QuorumsAreNodes DEF Bound
  <2>4. QED
    BY <2>3 DEF Settled
<1>5. ASSUME NEW s \in Nat, s # term[n], Unique(s)
      PROVE  Unique(s)'
  BY <1>1, <1>5 DEF Unique
<1>6. QED
  BY <1>1, <1>2, <1>3, <1>4, <1>5 DEF Decided

\* Steps that leave terms and votes alone.
LEMMA Idle ==
  ASSUME Voting, Decided, UNCHANGED <<term, votedFor, role, votes>>
  PROVE  Voting' /\ Decided'
<1>1. Voting'
  BY DEF Voting
<1>2. Decided'
  BY DEF Decided, Unique, Settled, Bound
<1>3. QED
  BY <1>1, <1>2

--------------------------------------------------------------------------------
AtType == [todo : SUBSET Node, cand : Node \union {Nobody}, term : Nat,
           last : Entry_, peers : SUBSET Node, to : Node \union {Nobody}]

LEMMA Entries_ ==
  ASSUME TypeOK, NEW n \in Node
  PROVE  /\ log[n] \in Seq(Entry_) /\ log[n] # <<>> /\ Len(log[n]) \in Nat \ {0}
         /\ Last(n) \in Entry_ /\ snap[n].index \in Nat /\ snap[n].term \in Nat
         /\ \A i \in 1 .. Len(log[n]) : log[n][i].index \in Nat /\ log[n][i].term \in Nat
<1>1. log[n] \in Seq(Entry_) /\ log[n] # <<>> /\ snap[n] \in Entry_
  BY DEF TypeOK
<1>2. Len(log[n]) \in Nat \ {0} /\ \A i \in 1 .. Len(log[n]) : log[n][i] \in Entry_
  BY <1>1
<1>3. snap[n].index \in Nat /\ snap[n].term \in Nat
  BY <1>1 DEF Entry_
<1>4. \A i \in 1 .. Len(log[n]) : log[n][i].index \in Nat /\ log[n][i].term \in Nat
  BY <1>2 DEF Entry_
<1>5. QED
  BY <1>1, <1>2, <1>3, <1>4 DEF Last

\* One thread moves on, and nothing else of its record changes but what is said.
LEMMA ThreadStep ==
  ASSUME TypeOK, Calling, NEW th \in Thread, NEW a \in AtType,
         at' = [at EXCEPT ![th] = a],
         a.peers # {} \/ a.to # Nobody => a.cand # Nobody
  PROVE  /\ at' \in [Thread -> AtType] /\ Calling'
         /\ \A u \in Thread : at'[u] = IF u = th THEN a ELSE at[u]
<1>1. at \in [Thread -> AtType]
  BY DEF TypeOK, AtType
<1>2. \A u \in Thread : at'[u] = IF u = th THEN a ELSE at[u]
  BY <1>1
<1>3. QED
  BY <1>1, <1>2 DEF Calling

\* A thread whose candidate is the same, or new and described as it is, or that
\* gave its candidate up, asks nothing that has become false.
LEMMA KeepsRequests ==
  ASSUME RequestsStayTrue, NEW th \in Thread, NEW a,
         \A u \in Thread : at'[u] = IF u = th THEN a ELSE at[u],
         \/ a.cand = Nobody
         \/ a.cand = at[th].cand /\ a.term = at[th].term /\ a.last = at[th].last
         \/ /\ a.cand \in Node /\ term'[a.cand] = a.term
            /\ role'[a.cand] = "CANDIDATE" /\ votedFor'[a.cand] = a.cand
            /\ log'[a.cand][Len(log'[a.cand])] = a.last,
         \A c \in Node : Locked(c) => /\ term'[c] = term[c] /\ role'[c] = role[c]
                                     /\ votedFor'[c] = votedFor[c] /\ log'[c] = log[c],
         \A u \in Thread : at[u].cand \in Node \union {Nobody}
  PROVE  RequestsStayTrue'
<1>1. ASSUME NEW u \in Thread, NEW c \in Node, at[u].cand = c, c # Nobody,
             at'[u].cand = c, at'[u].term = at[u].term, at'[u].last = at[u].last
      PROVE  /\ term'[c] = at'[u].term /\ role'[c] = "CANDIDATE" /\ votedFor'[c] = c
             /\ log'[c][Len(log'[c])] = at'[u].last
  <2>1. Locked(c)
    BY <1>1 DEF Locked
  <2>2. /\ term[c] = at[u].term /\ role[c] = "CANDIDATE" /\ votedFor[c] = c
        /\ log[c][Len(log[c])] = at[u].last
    BY <1>1 DEF RequestsStayTrue, Last
  <2>3. QED
    BY <1>1, <2>1, <2>2
<1>2. ASSUME NEW u \in Thread, NEW c, at'[u].cand = c, c # Nobody
      PROVE  /\ term'[c] = at'[u].term /\ role'[c] = "CANDIDATE" /\ votedFor'[c] = c
             /\ log'[c][Len(log'[c])] = at'[u].last
  <2>1. CASE u = th /\ ~(a.cand = at[th].cand /\ a.term = at[th].term /\ a.last = at[th].last)
    BY <1>2, <2>1
  <2>2. CASE u # th \/ (a.cand = at[th].cand /\ a.term = at[th].term /\ a.last = at[th].last)
    <3>1. c \in Node /\ at[u].cand = c /\ at'[u].term = at[u].term /\ at'[u].last = at[u].last
      BY <1>2, <2>2
    <3>2. QED
      BY <1>1, <1>2, <3>1
  <2>3. QED
    BY <2>1, <2>2
<1>3. QED
  BY <1>2 DEF RequestsStayTrue, Last

All == Inv /\ RequestsStayTrue

LEMMA TickAllStep ==
  ASSUME All, NEW th \in Thread, TickAll(th)
  PROVE  All'
<1> DEFINE a == Between(Node)
<1>1. /\ at' = [at EXCEPT ![th] = a]
      /\ UNCHANGED <<term, votedFor, log, snap, role, elapsed, commit, applied, blocked, votes, rewound, sends>>
  BY DEF TickAll, storageVars, nodeVars, ghosts
<1>2. a \in AtType /\ a.peers = {} /\ a.to = Nobody /\ a.cand = Nobody
  BY DEF Between, AtType, Entry, Entry_, Nobody
<1> HIDE DEF a
<1>3. /\ at' \in [Thread -> AtType] /\ Calling'
      /\ \A u \in Thread : at'[u] = IF u = th THEN a ELSE at[u]
  BY <1>1, <1>2, ThreadStep DEF All, Inv
<1>4. TypeOK'
  BY <1>1, <1>3 DEF All, Inv, TypeOK, AtType
<1>5. Voting' /\ Decided'
  BY <1>1, Idle DEF All, Inv
<1>6. RequestsStayTrue'
  BY <1>1, <1>2, <1>3, KeepsRequests DEF All, Inv, TypeOK
<1>7. QED
  BY <1>3, <1>4, <1>5, <1>6 DEF All, Inv

LEMMA TickStep ==
  ASSUME All, NEW th \in Thread, NEW n \in Node, Tick(th, n)
  PROVE  All'
<1> DEFINE a == Between(at[th].todo \ {n})
<1>1. /\ at' = [at EXCEPT ![th] = a] /\ at[th].todo \in SUBSET Node
      /\ elapsed' = [elapsed EXCEPT ![n] = @ + 1] /\ elapsed[n] + 1 < ElectionTimeout
      /\ UNCHANGED <<term, votedFor, log, snap, role, commit, applied, blocked, votes, rewound, sends>>
  BY DEF Tick, storageVars, nodeVars, ghosts, All, Inv, TypeOK
<1>2. a \in AtType /\ a.peers = {} /\ a.to = Nobody /\ a.cand = Nobody
  BY <1>1 DEF Between, AtType, Entry, Entry_, Nobody
<1> HIDE DEF a
<1>3. /\ at' \in [Thread -> AtType] /\ Calling'
      /\ \A u \in Thread : at'[u] = IF u = th THEN a ELSE at[u]
  BY <1>1, <1>2, ThreadStep DEF All, Inv
<1>4. elapsed' \in [Node -> 0 .. ElectionTimeout - 1]
  BY <1>1, RaftAssumption DEF All, Inv, TypeOK
<1>5. TypeOK'
  BY <1>1, <1>3, <1>4 DEF All, Inv, TypeOK, AtType
<1>6. Voting' /\ Decided'
  BY <1>1, Idle DEF All, Inv
<1>7. RequestsStayTrue'
  BY <1>1, <1>2, <1>3, KeepsRequests DEF All, Inv, TypeOK
<1>8. QED
  BY <1>3, <1>5, <1>6, <1>7 DEF All, Inv

LEMMA SendStep ==
  ASSUME All, NEW th \in Thread, NEW p \in Node, SendRequestVote(th, p)
  PROVE  All'
<1> DEFINE to == IF <<at[th].cand, p>> \in blocked THEN Nobody ELSE p
           a == [at[th] EXCEPT !.peers = @ \ {p}, !.to = to]
<1>1. /\ at \in [Thread -> AtType] /\ at[th] \in AtType
      /\ UNCHANGED <<term, votedFor, log, snap, role, elapsed, commit, applied, blocked, votes, rewound, sends>>
  BY DEF SendRequestVote, storageVars, nodeVars, ghosts, All, Inv, TypeOK, AtType
<1>2. at' = [at EXCEPT ![th] = a]
  BY <1>1 DEF SendRequestVote
<1>3. at[th].cand # Nobody
  BY DEF SendRequestVote, First, All, Inv, Calling
<1>4. to \in Node \union {Nobody}
  OBVIOUS
<1>5. /\ a \in AtType /\ a.cand = at[th].cand /\ a.term = at[th].term /\ a.last = at[th].last
  BY <1>1, <1>4 DEF AtType
<1> HIDE DEF a
<1>6. /\ at' \in [Thread -> AtType] /\ Calling'
      /\ \A u \in Thread : at'[u] = IF u = th THEN a ELSE at[u]
  BY <1>2, <1>3, <1>5, ThreadStep DEF All, Inv
<1>7. TypeOK'
  BY <1>1, <1>6 DEF All, Inv, TypeOK, AtType
<1>8. Voting' /\ Decided'
  BY <1>1, Idle DEF All, Inv
<1>9. RequestsStayTrue'
  BY <1>1, <1>5, <1>6, KeepsRequests DEF All, Inv, TypeOK
<1>10. QED
  BY <1>6, <1>7, <1>8, <1>9 DEF All, Inv

LEMMA EndStep ==
  ASSUME All, NEW th \in Thread, EndElection(th)
  PROVE  All'
<1> DEFINE a == Between(at[th].todo)
<1>1. /\ at' = [at EXCEPT ![th] = a] /\ at[th].todo \in SUBSET Node
      /\ UNCHANGED <<term, votedFor, log, snap, role, elapsed, commit, applied, blocked, votes, rewound, sends>>
  BY DEF EndElection, storageVars, nodeVars, ghosts, All, Inv, TypeOK
<1>2. a \in AtType /\ a.peers = {} /\ a.to = Nobody /\ a.cand = Nobody
  BY <1>1 DEF Between, AtType, Entry, Entry_, Nobody
<1> HIDE DEF a
<1>3. /\ at' \in [Thread -> AtType] /\ Calling'
      /\ \A u \in Thread : at'[u] = IF u = th THEN a ELSE at[u]
  BY <1>1, <1>2, ThreadStep DEF All, Inv
<1>4. TypeOK'
  BY <1>1, <1>3 DEF All, Inv, TypeOK, AtType
<1>5. Voting' /\ Decided'
  BY <1>1, Idle DEF All, Inv
<1>6. RequestsStayTrue'
  BY <1>1, <1>2, <1>3, KeepsRequests DEF All, Inv, TypeOK
<1>7. QED
  BY <1>3, <1>4, <1>5, <1>6 DEF All, Inv

LEMMA StartStep ==
  ASSUME All, NEW th \in Thread, NEW n \in Node, StartElection(th, n)
  PROVE  All'
<1> DEFINE t == term[n] + 1
           a == [todo |-> at[th].todo \ {n}, cand |-> n, term |-> t,
                 last |-> Last(n), peers |-> Peers(n), to |-> Nobody]
<1>1. /\ at \in [Thread -> AtType] /\ at[th].todo \in SUBSET Node /\ term[n] \in Nat /\ n # Nobody
      /\ votes \subseteq Nat \X Node \X Node
  BY RaftAssumption DEF All, Inv, TypeOK, AtType, Nobody
<1>2. /\ ~Locked(n)
      /\ elapsed' = [elapsed EXCEPT ![n] = 0] /\ term' = [term EXCEPT ![n] = t]
      /\ votedFor' = [votedFor EXCEPT ![n] = n] /\ role' = [role EXCEPT ![n] = "CANDIDATE"]
      /\ votes' = votes \union {<<t, n, n>>}
      /\ UNCHANGED <<log, snap, commit, applied, blocked, rewound, sends>>
  BY DEF StartElection, HandleTick, ghosts
<1>3. at' = [at EXCEPT ![th] = a]
  BY DEF StartElection
<1>4. /\ a \in AtType /\ a.cand = n /\ a.term = t /\ a.last = log[n][Len(log[n])]
  BY <1>1, Entries_ DEF AtType, Peers, All, Inv, Last
<1> HIDE DEF a
<1>5. /\ at' \in [Thread -> AtType] /\ Calling'
      /\ \A u \in Thread : at'[u] = IF u = th THEN a ELSE at[u]
  BY <1>1, <1>3, <1>4, ThreadStep DEF All, Inv
<1>6. 0 \in 0 .. ElectionTimeout - 1
  BY RaftAssumption
<1>7. votes' \subseteq Nat \X Node \X Node
  BY <1>1, <1>2
<1>8. TypeOK'
  BY <1>1, <1>2, <1>5, <1>6, <1>7 DEF All, Inv, TypeOK, AtType
<1>9. Voting' /\ Decided'
  <2>1. /\ \A m \in Node \ {n} : votedFor'[m] = votedFor[m] /\ role'[m] = role[m]
        /\ votedFor'[n] = n /\ t \in Nat /\ t > term[n]
    BY <1>1, <1>2 DEF All, Inv, TypeOK
  <2> HIDE DEF t
  <2>2. votes' = IF n = Nobody THEN votes ELSE votes \union {<<t, n, n>>}
    BY <1>1, <1>2
  <2>3. QED
    BY <1>2, <1>7, <2>1, <2>2, Moved DEF All, Inv
<1>10. RequestsStayTrue'
  <2>1. /\ term'[n] = t /\ role'[n] = "CANDIDATE" /\ votedFor'[n] = n /\ log' = log
        /\ \A c \in Node \ {n} : /\ term'[c] = term[c] /\ role'[c] = role[c]
                               /\ votedFor'[c] = votedFor[c] /\ log'[c] = log[c]
    BY <1>2 DEF All, Inv, TypeOK
  <2>2. \A c \in Node : Locked(c) => c \in Node \ {n}
    BY <1>2
  <2>3. \A u \in Thread : at[u].cand \in Node \union {Nobody}
    BY <1>1 DEF AtType
  <2>4. QED
    BY <1>4, <1>5, <2>1, <2>2, <2>3, KeepsRequests DEF All
<1>11. QED
  BY <1>5, <1>8, <1>9, <1>10 DEF All, Inv

LEMMA VoteStep ==
  ASSUME All, NEW th \in Thread, NEW n \in Node, HandleRequestVote(th, n)
  PROVE  All'
<1> DEFINE t == at[th].term  c == at[th].cand
           granted == t >= term[n] /\ Vote(n, t) \in {Nobody, c} /\ UpToDate(at[th].last, n)
           a == [at[th] EXCEPT !.to = Nobody]
<1>1. /\ at \in [Thread -> AtType] /\ at[th] \in AtType /\ t \in Nat
      /\ term \in [Node -> Nat] /\ term[n] \in Nat /\ votedFor \in [Node -> Node \union {Nobody}]
      /\ votes \subseteq Nat \X Node \X Node /\ Nobody \notin Node
  BY RaftAssumption DEF All, Inv, TypeOK, AtType, Nobody
<1>2. /\ n = at[th].to /\ n # Nobody /\ ~Locked(n)
      /\ term' = [term EXCEPT ![n] = IF t > term[n] THEN t ELSE @]
      /\ votedFor' = [votedFor EXCEPT ![n] = IF granted THEN c ELSE Vote(n, t)]
      /\ role' = [role EXCEPT ![n] = IF t > term[n] THEN "FOLLOWER" ELSE @]
      /\ elapsed' = [elapsed EXCEPT ![n] = IF t > term[n] \/ granted THEN 0 ELSE @]
      /\ votes' = votes \union (IF granted THEN {<<t, n, c>>} ELSE {})
      /\ UNCHANGED <<log, snap, commit, applied, blocked, rewound, sends>>
  BY DEF HandleRequestVote, ghosts
<1>3. c \in Node
  BY <1>1, <1>2 DEF All, Inv, Calling, AtType
<1>4. at' = [at EXCEPT ![th] = a]
  BY <1>1 DEF HandleRequestVote
<1>5. /\ a \in AtType /\ a.cand = c /\ a.term = t /\ a.last = at[th].last /\ a.to = Nobody
  BY <1>1 DEF AtType
<1> HIDE DEF a
<1>6. /\ at' \in [Thread -> AtType] /\ Calling'
      /\ \A u \in Thread : at'[u] = IF u = th THEN a ELSE at[u]
  BY <1>1, <1>3, <1>4, <1>5, ThreadStep DEF All, Inv
<1>7. 0 \in 0 .. ElectionTimeout - 1
  BY RaftAssumption
<1>8. Vote(n, t) \in Node \union {Nobody} /\ <<t, n, c>> \in Nat \X Node \X Node
  BY <1>1, <1>3 DEF Vote
<1> HIDE DEF granted
<1>9. votes' \subseteq Nat \X Node \X Node
  BY <1>1, <1>2, <1>8
<1>10. TypeOK'
  <2>1. term' \in [Node -> Nat] /\ votedFor' \in [Node -> Node \union {Nobody}]
    BY <1>1, <1>2, <1>3, <1>8
  <2>2. role' \in [Node -> {"FOLLOWER", "CANDIDATE"}] /\ elapsed' \in [Node -> 0 .. ElectionTimeout - 1]
    BY <1>2, <1>7 DEF All, Inv, TypeOK
  <2>3. QED
    BY <1>2, <1>6, <1>9, <2>1, <2>2 DEF All, Inv, TypeOK, AtType
<1>11. Voting' /\ Decided'
  <2>1. /\ \A m \in Node \ {n} : votedFor'[m] = votedFor[m] /\ role'[m] = role[m]
        /\ votedFor'[n] = IF granted THEN c ELSE Vote(n, t)
        /\ role'[n] = IF t > term[n] THEN "FOLLOWER" ELSE role[n]
    BY <1>1, <1>2 DEF All, Inv, TypeOK
  <2>2. CASE t > term[n]
    <3> DEFINE d == IF granted THEN c ELSE Nobody
    <3>1. d \in Node \union {Nobody} /\ votedFor'[n] = d /\ term' = [term EXCEPT ![n] = t]
      BY <1>2, <1>3, <2>1, <2>2 DEF Vote
    <3>2. votes' = IF d = Nobody THEN votes ELSE votes \union {<<t, n, d>>}
      BY <1>1, <1>2, <1>3
    <3>3. role'[n] # "CANDIDATE"
      BY <2>1, <2>2
    <3> HIDE DEF d, t
    <3>4. QED
      BY <1>1, <1>9, <2>1, <2>2, <3>1, <3>2, <3>3, Moved DEF All, Inv
  <2>3. CASE ~(t > term[n]) /\ granted
    <3>1. t = term[n] /\ votedFor[n] \in {Nobody, c}
      BY <1>1, <2>3 DEF granted, Vote
    <3>2. /\ UNCHANGED <<term, role>> /\ votedFor' = [votedFor EXCEPT ![n] = c]
          /\ votes' = votes \union {<<term[n], n, c>>}
      BY <1>1, <1>2, <2>3, <3>1 DEF All, Inv, TypeOK
    <3> HIDE DEF c
    <3>3. QED
      BY <1>3, <3>1, <3>2, Granted DEF All, Inv
  <2>4. CASE ~(t > term[n]) /\ ~granted
    <3>1. UNCHANGED <<term, role, votedFor, votes>>
      BY <1>1, <1>2, <2>4 DEF All, Inv, TypeOK, Vote
    <3>2. QED
      BY <3>1, Idle DEF All, Inv
  <2>5. QED
    BY <2>2, <2>3, <2>4
<1>12. RequestsStayTrue'
  <2>1. \A m \in Node \ {n} : /\ term'[m] = term[m] /\ role'[m] = role[m]
                             /\ votedFor'[m] = votedFor[m] /\ log'[m] = log[m]
    BY <1>2 DEF All, Inv, TypeOK
  <2>2. \A m \in Node : Locked(m) => m \in Node \ {n}
    BY <1>2
  <2>3. \A u \in Thread : at[u].cand \in Node \union {Nobody}
    BY <1>1 DEF AtType
  <2>4. QED
    BY <1>5, <1>6, <2>1, <2>2, <2>3, KeepsRequests DEF All
<1>13. QED
  BY <1>6, <1>10, <1>11, <1>12 DEF All, Inv

--------------------------------------------------------------------------------
\* What a call in term t does to the vote of the node it reaches.
LEMMA TermTaken ==
  ASSUME All, NEW n \in Node, NEW w \in Node, w # n, NEW t \in Nat, Elected(t, w),
         NEW also \in BOOLEAN, also => role[n] = "CANDIDATE",
         TakeTerm(n, t, also), UNCHANGED votes
  PROVE  /\ Voting' /\ Decided'
         /\ term' \in [Node -> Nat] /\ votedFor' \in [Node -> Node \union {Nobody}]
         /\ role' \in [Node -> {"FOLLOWER", "CANDIDATE"}]
         /\ elapsed' \in [Node -> 0 .. ElectionTimeout - 1]
         /\ \A m \in Node \ {n} : /\ term'[m] = term[m] /\ role'[m] = role[m]
                                /\ votedFor'[m] = votedFor[m]
<1> DEFINE down == StepsDown(n, t, also)
<1>1. /\ term' = [term EXCEPT ![n] = IF down THEN t ELSE @]
      /\ votedFor' = [votedFor EXCEPT ![n] = IF down THEN Nobody ELSE @]
      /\ role' = [role EXCEPT ![n] = IF down THEN "FOLLOWER" ELSE @]
      /\ elapsed' = [elapsed EXCEPT ![n] = IF t >= term[n] THEN 0 ELSE @]
  BY DEF TakeTerm
<1>2. /\ term \in [Node -> Nat] /\ term[n] \in Nat /\ votedFor \in [Node -> Node \union {Nobody}]
      /\ role \in [Node -> {"FOLLOWER", "CANDIDATE"}] /\ votes \subseteq Nat \X Node \X Node
      /\ elapsed \in [Node -> 0 .. ElectionTimeout - 1] /\ 0 \in 0 .. ElectionTimeout - 1
  <2>1. 0 \in 0 .. ElectionTimeout - 1
    BY RaftAssumption
  <2>2. QED
    BY <2>1 DEF All, Inv, TypeOK
<1>3. down <=> (t > term[n] \/ (t = term[n] /\ also))
  BY DEF StepsDown
<1> HIDE DEF down
<1>4. Voting' /\ Decided'
  <2>1. CASE t > term[n]
    <3>1. /\ term' = [term EXCEPT ![n] = t] /\ votedFor'[n] = Nobody /\ role'[n] = "FOLLOWER"
          /\ \A m \in Node \ {n} : votedFor'[m] = votedFor[m] /\ role'[m] = role[m]
      BY <1>1, <1>2, <1>3, <2>1
    <3>2. /\ Nobody \in Node \union {Nobody} /\ votes' \subseteq Nat \X Node \X Node
          /\ votes' = IF Nobody = Nobody THEN votes ELSE votes \union {<<t, n, Nobody>>}
      BY <1>2
    <3>3. role'[n] = "CANDIDATE" => Nobody = n
      BY <3>1
    <3>4. QED
      BY <2>1, <3>1, <3>2, <3>3, Moved DEF All, Inv
  <2>2. CASE t = term[n] /\ also
    <3>1. /\ UNCHANGED term /\ votedFor' = [votedFor EXCEPT ![n] = Nobody]
          /\ role' = [role EXCEPT ![n] = "FOLLOWER"]
      BY <1>1, <1>2, <1>3, <2>2
    <3>2. QED
      BY <2>2, <3>1, Forgotten DEF All, Inv
  <2>3. CASE ~(t > term[n]) /\ ~(t = term[n] /\ also)
    <3>1. UNCHANGED <<term, votedFor, role, votes>>
      BY <1>1, <1>2, <1>3, <2>3
    <3>2. QED
      BY <3>1, Idle DEF All, Inv
  <2>4. QED
    BY <2>1, <2>2, <2>3
<1>5. QED
  BY <1>1, <1>2, <1>4

\* What the user may send is well formed.
LEMMA Sendable ==
  ASSUME NEW t \in 1 .. MaxTerm
  PROVE  /\ \A prev \in Prevs(t) : prev \in Entry_ /\ \A es \in Entries(prev, t) : es \in Seq(Entry_)
         /\ t \in Nat
<1>1. t \in Nat
  BY RaftAssumption
<1>2. \A prev \in Prevs(t) : prev \in Entry_
  BY RaftAssumption DEF Prevs, Entry, Entry_
<1>3. ASSUME NEW prev \in Prevs(t), NEW es \in Entries(prev, t)
      PROVE  es \in Seq(Entry_)
  <2>1. prev.index + 1 \in Nat
    BY <1>2 DEF Entry_
  <2>2. CASE es = <<>>
    BY <2>2
  <2>3. CASE \E e \in 1 .. t : es = <<Entry(prev.index + 1, e)>>
    <3>1. PICK e \in 1 .. t : es = <<Entry(prev.index + 1, e)>>
      BY <2>3
    <3>2. Entry(prev.index + 1, e) \in Entry_
      BY <2>1, <3>1 DEF Entry, Entry_
    <3>3. QED
      BY <3>1, <3>2
  <2>4. QED
    BY <2>2, <2>3 DEF Entries
<1>4. QED
  BY <1>1, <1>2, <1>3

\* The log stays a log.
LEMMA LogKept ==
  ASSUME TypeOK, NEW n \in Node, NEW from \in Nat, NEW es \in Seq(Entry_)
  PROVE  Truncate(n, from) \o es \in Seq(Entry_) /\ Truncate(n, from) \o es # <<>>
<1> DEFINE offset == from - snap[n].index
<1>1. log[n] \in Seq(Entry_) /\ Len(log[n]) \in Nat \ {0} /\ log[n] # <<>> /\ offset \in Int
  BY Entries_
<1>2. Truncate(n, from) = IF offset > 0 /\ offset < Len(log[n]) THEN SubSeq(log[n], 1, offset) ELSE log[n]
  BY DEF Truncate
<1> HIDE DEF offset
<1>3. Truncate(n, from) \in Seq(Entry_) /\ Len(Truncate(n, from)) > 0
  BY <1>1, <1>2
<1>4. QED
  BY <1>3

\* The first entry stands for the snapshot and the others follow it one by one.
Chain(entries, from) ==
  /\ entries[1].term = from.term
  /\ \A i \in 1 .. Len(entries) : entries[i].index = from.index + i - 1

Follows(n) == Chain(log[n], snap[n])

Following == \A n \in Node \ rewound : Follows(n)

LEMMA FollowingIsContiguous == TypeOK /\ Following => LogIsContiguous
<1> SUFFICES ASSUME TypeOK, Following, NEW n \in Node \ rewound, NEW i \in 1 .. Len(log[n])
             PROVE  /\ log[n][i].index = snap[n].index + i - 1
                    /\ GetTerm(n, log[n][i].index) = log[n][i].term
  BY DEF LogIsContiguous
<1>1. /\ log[n] \in Seq(Entry_) /\ Len(log[n]) \in Nat \ {0} /\ snap[n].index \in Nat
      /\ \A j \in 1 .. Len(log[n]) : log[n][j].index \in Nat
  BY Entries_
<1>2. Follows(n)
  BY DEF Following
<1>3. log[n][i].index = snap[n].index + i - 1 /\ Last(n).index = snap[n].index + Len(log[n]) - 1
  BY <1>1, <1>2, SMTT(30) DEF Follows, Chain, Last
<1>4. GetTerm(n, log[n][i].index) = log[n][i].term
  <2>1. CASE i = 1
    BY <1>1, <1>2, <1>3, <2>1 DEF GetTerm, Follows, Chain
  <2>2. CASE i > 1
    BY <1>1, <1>3, <2>2, SMTT(30) DEF GetTerm
  <2>3. QED
    BY <2>1, <2>2
<1>5. QED
  BY <1>3, <1>4

Storage ==
  /\ log \in [Node -> Seq(Entry_)] /\ \A m \in Node : log[m] # <<>>
  /\ snap \in [Node -> Entry_] /\ commit \in [Node -> Nat] /\ applied \in [Node -> Nat]
  /\ rewound \subseteq Node

LEMMA Prefix ==
  ASSUME NEW S, NEW q \in Seq(S), NEW k \in 1 .. Len(q)
  PROVE  /\ SubSeq(q, 1, k) \in Seq(S) /\ Len(SubSeq(q, 1, k)) = k
         /\ \A i \in 1 .. k : SubSeq(q, 1, k)[i] = q[i]
  OBVIOUS

\* Entries put after an index the log reaches, and the snapshot does not cover, follow.
LEMMA Extended ==
  ASSUME TypeOK, NEW n \in Node, Follows(n), NEW from \in Nat,
         snap[n].index < from, from <= Last(n).index + 1, NEW e \in Entry_, e.index = from,
         NEW kept, kept = Truncate(n, from) \o <<e>>
  PROVE  Chain(kept, snap[n])
<1> DEFINE offset == from - snap[n].index
<1>1. /\ log[n] \in Seq(Entry_) /\ Len(log[n]) \in Nat \ {0} /\ snap[n].index \in Nat
  BY Entries_
<1>2. /\ \A i \in 1 .. Len(log[n]) : log[n][i].index \in Nat /\ log[n][i].index = snap[n].index + i - 1
      /\ log[n][1].term = snap[n].term
  BY Entries_ DEF Follows, Chain
<1>3. offset \in 1 .. Len(log[n])
  <2>1. Last(n).index = snap[n].index + Len(log[n]) - 1 /\ Last(n).index \in Nat
    BY <1>1, <1>2 DEF Last
  <2>2. from <= snap[n].index + Len(log[n]) /\ snap[n].index < from
    BY <1>1, <2>1
  <2>3. QED
    BY <1>1, <2>2
<1>4. Truncate(n, from) \in Seq(Entry_) /\ Len(Truncate(n, from)) = offset
      /\ \A i \in 1 .. offset : Truncate(n, from)[i] = log[n][i]
  <2>1. CASE offset < Len(log[n])
    <3>1. Truncate(n, from) = SubSeq(log[n], 1, offset)
      <4>1. offset > 0 /\ offset < Len(log[n])
        BY <1>1, <1>3, <2>1
      <4>2. Truncate(n, from) = IF offset > 0 /\ offset < Len(log[n])
                                 THEN SubSeq(log[n], 1, offset) ELSE log[n]
        BY DEF Truncate
      <4> HIDE DEF offset
      <4>3. QED
        BY <4>1, <4>2
    <3> HIDE DEF offset
    <3>2. QED
      BY <1>1, <1>3, <3>1, Prefix
  <2>2. CASE offset = Len(log[n])
    <3>1. Truncate(n, from) = log[n]
      BY <1>1, <2>2 DEF Truncate
    <3>2. QED
      BY <1>1, <2>2, <3>1
  <2>3. QED
    BY <1>1, <1>3, <2>1, <2>2
<1>5. /\ Len(kept) = offset + 1 /\ kept[offset + 1] = e
      /\ \A i \in 1 .. offset : kept[i] = log[n][i]
  BY <1>3, <1>4
<1>6. kept[1].term = snap[n].term
  BY <1>2, <1>3, <1>5
<1>7. \A i \in 1 .. Len(kept) : kept[i].index = snap[n].index + i - 1
  <2>1. \A i \in 1 .. offset : kept[i].index = snap[n].index + i - 1
    <3> HIDE DEF offset
    <3>1. \A i \in 1 .. offset : i \in 1 .. Len(log[n])
      BY <1>1, <1>3
    <3>2. QED
      BY <1>2, <1>5, <3>1
  <2>2. kept[offset + 1].index = snap[n].index + (offset + 1) - 1
    <3>1. kept[offset + 1].index = from /\ from = snap[n].index + (offset + 1) - 1
      <4>1. kept[offset + 1] = e
        BY <1>5
      <4>2. from = snap[n].index + (offset + 1) - 1
        BY <1>1
      <4> HIDE DEF offset
      <4>3. QED
        BY <4>1, <4>2
    <3> HIDE DEF offset
    <3>2. QED
      BY <3>1
  <2> HIDE DEF offset
  <2>3. QED
    BY <1>1, <1>3, <1>5, <2>1, <2>2
<1>8. QED
  BY <1>6, <1>7 DEF Chain

LEMMA AppendKeeps ==
  ASSUME TypeOK, Following, NEW n \in Node, NEW t \in 1 .. MaxTerm, NEW prev \in Prevs(t),
         NEW c \in 0 .. MaxIndex, NEW es \in Entries(prev, t), HandleAppendEntries(t, n, prev, es, c)
  PROVE  Storage' /\ Following' /\ \A m \in Node \ {n} : log'[m] = log[m]
<1> DEFINE ok == /\ t >= term[n]
                 /\ prev.index <= Last(n).index /\ GetTerm(n, prev.index) = prev.term
           news == ok /\ es # <<>>
           kept == IF news THEN Truncate(n, prev.index + 1) \o es ELSE log[n]
           last == kept[Len(kept)].index
<1>1. /\ log' = [log EXCEPT ![n] = kept]
      /\ commit' = [commit EXCEPT ![n] = IF ok /\ c > @ THEN MinOf(c, last) ELSE @]
      /\ rewound' = rewound \union (IF news /\ prev.index < snap[n].index THEN {n} ELSE {})
      /\ snap' = snap /\ applied' = applied
  BY DEF HandleAppendEntries
<1>2. /\ log \in [Node -> Seq(Entry_)] /\ (\A m \in Node : log[m] # <<>>) /\ snap \in [Node -> Entry_]
      /\ commit \in [Node -> Nat] /\ applied \in [Node -> Nat] /\ rewound \subseteq Node
      /\ prev \in Entry_ /\ es \in Seq(Entry_) /\ c \in Nat
  BY Sendable, RaftAssumption, SMTT(30) DEF TypeOK
<1>0. prev.index \in Nat /\ prev.index + 1 \in Nat
  BY <1>2 DEF Entry_
<1>3. news => \E e \in Entry_ : es = <<e>> /\ e.index = prev.index + 1
  <2>1. es # <<>> => \E e \in 1 .. t : es = <<Entry(prev.index + 1, e)>>
    BY DEF Entries
  <2>2. \A e \in 1 .. t : Entry(prev.index + 1, e) \in Entry_ /\ Entry(prev.index + 1, e).index = prev.index + 1
    BY <1>0 DEF Entry, Entry_
  <2>3. QED
    BY <2>1, <2>2
<1>4. kept \in Seq(Entry_) /\ kept # <<>>
  BY <1>0, <1>2, LogKept
<1> HIDE DEF kept
<1>5. last \in Nat /\ MinOf(c, last) \in Nat
  <2>1. kept[Len(kept)] \in Entry_
    BY <1>4
  <2>2. QED
    BY <1>2, <2>1 DEF MinOf, Entry_
<1>6. Storage' /\ \A m \in Node \ {n} : log'[m] = log[m]
  BY <1>1, <1>2, <1>4, <1>5 DEF Storage
<1>7. ASSUME NEW m \in Node \ rewound'
      PROVE  Follows(m)'
  <2>1. Follows(m) /\ m \notin rewound
    BY <1>1, <1>7 DEF Following
  <2>2. CASE m # n \/ ~news
    <3>1. log'[m] = log[m] /\ snap'[m] = snap[m]
      BY <1>1, <1>2, <2>2 DEF kept
    <3>2. QED
      BY <2>1, <3>1 DEF Follows, Chain
  <2>3. CASE m = n /\ news
    <3>1. /\ snap[n].index < prev.index + 1 /\ prev.index + 1 <= Last(n).index + 1
          /\ prev.index + 1 \in Nat
      <4>1. Last(n).index \in Nat /\ snap[n].index \in Nat
        BY Entries_ DEF Entry_
      <4>2. QED
        BY <1>0, <1>1, <1>7, <2>3, <4>1
    <3>2. PICK e \in Entry_ : es = <<e>> /\ e.index = prev.index + 1
      BY <1>3, <2>3
    <3>3. log'[n] = Truncate(n, prev.index + 1) \o <<e>> /\ snap'[n] = snap[n]
      BY <1>1, <1>2, <2>3, <3>2 DEF kept
    <3>4. QED
      <4>1. Chain(log'[n], snap'[n])
        <5>1. Follows(n)
          BY <2>1, <2>3
        <5>2. PICK from : from = prev.index + 1
          OBVIOUS
        <5>3. PICK k : k = log'[n]
          OBVIOUS
        <5>4. /\ k = Truncate(n, from) \o <<e>> /\ from \in Nat /\ snap[n].index < from
              /\ from <= Last(n).index + 1 /\ e.index = from
          BY <3>1, <3>2, <3>3, <5>2, <5>3
        <5>5. Chain(k, snap[n])
          BY <5>1, <5>4, Extended
        <5>6. QED
          BY <3>3, <5>3, <5>5
      <4>2. QED
        BY <2>3, <4>1 DEF Follows, Chain
  <2>4. QED
    BY <2>2, <2>3
<1>8. QED
  BY <1>6, <1>7 DEF Following

LEMMA InstallKeeps ==
  ASSUME TypeOK, Following, NEW n \in Node, NEW t \in 1 .. MaxTerm, NEW included \in Entry_,
         HandleInstallSnapshot(t, n, included)
  PROVE  Storage' /\ Following' /\ \A m \in Node \ {n} : log'[m] = log[m]
<1>1. /\ log \in [Node -> Seq(Entry_)] /\ (\A m \in Node : log[m] # <<>>) /\ snap \in [Node -> Entry_]
      /\ commit \in [Node -> Nat] /\ applied \in [Node -> Nat] /\ rewound \subseteq Node
  BY DEF TypeOK
<1>2. CASE t < term[n]
  <2>1. UNCHANGED <<log, snap, commit, applied, rewound>>
    BY <1>2 DEF HandleInstallSnapshot
  <2>2. QED
    BY <1>1, <2>1 DEF Storage, Following, Follows, Chain
<1>3. CASE ~(t < term[n])
  <2>1. /\ snap' = [snap EXCEPT ![n] = included] /\ log' = [log EXCEPT ![n] = <<included>>]
        /\ commit' = [commit EXCEPT ![n] = MaxOf(@, included.index)]
        /\ applied' = [applied EXCEPT ![n] = MaxOf(@, included.index)]
        /\ rewound' = rewound \ {n}
    BY <1>3 DEF HandleInstallSnapshot
  <2>2. /\ <<included>> \in Seq(Entry_) /\ <<included>> # <<>> /\ included.index \in Nat
        /\ MaxOf(commit[n], included.index) \in Nat /\ MaxOf(applied[n], included.index) \in Nat
    BY <1>1 DEF Entry_, MaxOf
  <2>3. Storage' /\ \A m \in Node \ {n} : log'[m] = log[m] /\ snap'[m] = snap[m]
    BY <1>1, <2>1, <2>2 DEF Storage
  <2>4. log'[n] = <<included>> /\ snap'[n] = included
    BY <1>1, <2>1
  <2>5. Follows(n)'
    BY <2>2, <2>4 DEF Follows, Chain
  <2>6. \A m \in Node \ rewound' : m # n => Follows(m)'
    BY <2>1, <2>3 DEF Following, Follows, Chain
  <2>7. QED
    BY <2>3, <2>5, <2>6 DEF Following
<1>4. QED
  BY <1>2, <1>3

\* A call by the user changes the node it reaches, and only if no election holds it.
LEMMA UserStep ==
  ASSUME All, Following, NEW w \in Node, NEW n \in Node, NEW t \in 1 .. MaxTerm, Reaches(w, t, n),
         SomeAppendEntries(t, n) \/ SomeInstallSnapshot(t, n)
  PROVE  All' /\ Following'
<1>1. t \in Nat /\ w # n /\ Elected(t, w) /\ ~Locked(n) /\ sends' \in Nat
  BY Sendable DEF Reaches, All, Inv, TypeOK
<1>2. UNCHANGED <<blocked, at, votes>> /\ \E also \in BOOLEAN :
        TakeTerm(n, t, also) /\ (also => role[n] = "CANDIDATE")
  <2>1. CASE SomeAppendEntries(t, n)
    BY <2>1 DEF SomeAppendEntries, HandleAppendEntries
  <2>2. CASE SomeInstallSnapshot(t, n)
    BY <2>2 DEF SomeInstallSnapshot, HandleInstallSnapshot
  <2>3. QED
    BY <2>1, <2>2
<1>3. /\ Voting' /\ Decided'
      /\ term' \in [Node -> Nat] /\ votedFor' \in [Node -> Node \union {Nobody}]
      /\ role' \in [Node -> {"FOLLOWER", "CANDIDATE"}]
      /\ elapsed' \in [Node -> 0 .. ElectionTimeout - 1]
      /\ \A m \in Node \ {n} : /\ term'[m] = term[m] /\ role'[m] = role[m]
                             /\ votedFor'[m] = votedFor[m]
  BY <1>1, <1>2, TermTaken
<1>4. Storage' /\ Following' /\ \A m \in Node \ {n} : log'[m] = log[m]
  <2>1. CASE SomeAppendEntries(t, n)
    BY <2>1, AppendKeeps DEF SomeAppendEntries, All, Inv
  <2>2. CASE SomeInstallSnapshot(t, n)
    <3>1. PICK i \in 1 .. MaxIndex, it \in 1 .. t : HandleInstallSnapshot(t, n, Entry(i, it))
      BY <2>2 DEF SomeInstallSnapshot
    <3>2. Entry(i, it) \in Entry_
      BY RaftAssumption DEF Entry, Entry_
    <3>3. QED
      BY <3>1, <3>2, InstallKeeps DEF All, Inv
  <2>3. QED
    BY <2>1, <2>2
<1>5. TypeOK' /\ Calling'
  BY <1>1, <1>2, <1>3, <1>4 DEF All, Inv, TypeOK, Storage, Calling
<1>6. RequestsStayTrue'
  <2>1. ASSUME NEW th \in Thread, at'[th].cand # Nobody
        PROVE  /\ term'[at[th].cand] = at[th].term /\ role'[at[th].cand] = "CANDIDATE"
               /\ votedFor'[at[th].cand] = at[th].cand
               /\ log'[at[th].cand][Len(log'[at[th].cand])] = at[th].last
    <3> DEFINE c == at[th].cand
    <3>1. c \in Node /\ c # n
      BY <1>1, <1>2, <2>1 DEF Locked, All, Inv, TypeOK
    <3>2. /\ term[c] = at[th].term /\ role[c] = "CANDIDATE" /\ votedFor[c] = c
          /\ log[c][Len(log[c])] = at[th].last
      BY <1>2, <2>1 DEF All, RequestsStayTrue, Last
    <3> HIDE DEF c
    <3>3. QED
      BY <1>3, <1>4, <3>1, <3>2 DEF c
  <2>2. QED
    BY <1>2, <2>1 DEF RequestsStayTrue, Last
<1>7. QED
  BY <1>3, <1>4, <1>5, <1>6 DEF All, Inv

\* No election asks the node that runs it.
Asking == \A th \in Thread : at[th].cand # Nobody => at[th].cand \notin at[th].peers \union {at[th].to}

Whole == All /\ Following /\ Asking

\* Partitions, and steps that change nothing.
LEMMA CalmStep ==
  ASSUME Whole, blocked' \subseteq Node \X Node,
         UNCHANGED <<storageVars, nodeVars, at, votes, ghosts>>
  PROVE  Whole'
<1>1. UNCHANGED <<term, votedFor, log, snap, role, elapsed, commit, applied, at, votes, rewound, sends>>
  BY DEF storageVars, nodeVars, ghosts
<1>2. TypeOK' /\ Calling' /\ Asking'
  BY <1>1 DEF Whole, All, Inv, TypeOK, Calling, Asking
<1>3. Voting' /\ Decided'
  BY <1>1, Idle DEF Whole, All, Inv
<1>4. RequestsStayTrue' /\ Following'
  BY <1>1 DEF Whole, All, RequestsStayTrue, Following, Follows, Last
<1>5. QED
  BY <1>2, <1>3, <1>4 DEF Whole, All, Inv

LEMMA Initial == Init => Whole
<1> SUFFICES ASSUME Init PROVE Whole
  OBVIOUS
<1>1. TypeOK
  BY RaftAssumption DEF Init, TypeOK, Between, Entry, Entry_, Nobody
<1>2. Calling /\ Asking /\ RequestsStayTrue
  BY DEF Init, Calling, Asking, RequestsStayTrue, Between
<1>3. Voting /\ Decided
  BY DEF Init, Voting, Decided, Unique
<1>4. Following
  BY DEF Init, Following, Follows, Chain, Entry
<1>5. QED
  BY <1>1, <1>2, <1>3, <1>4 DEF Whole, All, Inv

\* No thread asks the node whose election it runs.
LEMMA AskingStep ==
  ASSUME Whole, NEW th \in Thread, TickThread(th)
  PROVE  Asking'
<1>1. /\ at \in [Thread -> AtType] /\ at[th] \in AtType /\ Nobody \notin Node
      /\ at[th].cand # Nobody => at[th].cand \notin at[th].peers \union {at[th].to}
  BY RaftAssumption DEF Whole, All, Inv, TypeOK, AtType, Asking, Nobody
<1>2. \A u \in Thread \ {th} : at'[u] = at[u]
  BY <1>1 DEF TickThread, TickAll, Tick, StartElection, SendRequestVote, HandleRequestVote,
              EndElection
<1> DEFINE Good(a) == a.cand # Nobody => a.cand \notin a.peers \union {a.to}
<1>3. Good(at'[th])
  <2>1. CASE TickAll(th) \/ EndElection(th) \/ \E n \in Node : Tick(th, n)
    BY <1>1, <2>1 DEF TickAll, EndElection, Tick, Between
  <2>2. ASSUME NEW n \in Node, StartElection(th, n) PROVE Good(at'[th])
    <3>1. at'[th].cand = n /\ at'[th].peers = Node \ {n} /\ at'[th].to = Nobody
      BY <1>1, <2>2 DEF StartElection, Peers
    <3>2. QED
      BY <1>1, <3>1
  <2>3. ASSUME NEW p \in Node, SendRequestVote(th, p) PROVE Good(at'[th])
    <3>1. /\ at'[th].cand = at[th].cand /\ at'[th].peers = at[th].peers \ {p}
          /\ at'[th].to \in {Nobody, p} /\ p \in at[th].peers
      BY <1>1, <2>3 DEF SendRequestVote, First, AtType
    <3>2. at[th].cand # Nobody => p # at[th].cand
      BY <1>1, <3>1
    <3>3. QED
      BY <1>1, <3>1, <3>2
  <2>4. ASSUME NEW n \in Node, HandleRequestVote(th, n) PROVE Good(at'[th])
    <3>1. at'[th].cand = at[th].cand /\ at'[th].peers = at[th].peers /\ at'[th].to = Nobody
      BY <1>1, <2>4 DEF HandleRequestVote, AtType
    <3>2. QED
      BY <1>1, <3>1
  <2>5. QED
    BY <2>1, <2>2, <2>3, <2>4 DEF TickThread
<1>4. QED
  BY <1>2, <1>3 DEF Whole, Asking

LEMMA ThreadKeeps ==
  ASSUME Whole, NEW th \in Thread, TickThread(th)
  PROVE  Whole'
<1>1. All'
  BY TickAllStep, TickStep, StartStep, SendStep, VoteStep, EndStep DEF TickThread, Whole
<1>2. UNCHANGED <<log, snap, rewound>>
  BY DEF TickThread, TickAll, Tick, StartElection, SendRequestVote, HandleRequestVote,
         EndElection, storageVars, ghosts
<1>3. Following'
  BY <1>2 DEF Whole, Following, Follows
<1>4. QED
  BY <1>1, <1>3, AskingStep DEF Whole

LEMMA UserKeeps ==
  ASSUME Whole, User
  PROVE  Whole'
<1>1. blocked \subseteq Node \X Node
  BY DEF Whole, All, Inv, TypeOK
<1>2. ASSUME NEW s \in Splits, SetPartition(s[1], s[2]) PROVE Whole'
  <2>1. s[1] \subseteq Node /\ s[2] \subseteq Node
    BY RaftAssumption
  <2>2. blocked' \subseteq Node \X Node
    BY <1>1, <1>2, <2>1 DEF SetPartition
  <2>3. QED
    BY <1>2, <2>2, CalmStep DEF SetPartition
<1>3. CASE ClearPartitions
  <2>1. blocked' \subseteq Node \X Node
    BY <1>3 DEF ClearPartitions
  <2>2. QED
    BY <1>3, <2>1, CalmStep DEF ClearPartitions
<1>4. ASSUME NEW w \in Node, NEW n \in Node, NEW t \in 1 .. MaxTerm, Reaches(w, t, n),
             SomeAppendEntries(t, n) \/ SomeInstallSnapshot(t, n)
      PROVE  Whole'
  <2>1. All' /\ Following'
    BY <1>4, UserStep DEF Whole
  <2>2. at' = at
    BY <1>4 DEF SomeAppendEntries, SomeInstallSnapshot, HandleAppendEntries, HandleInstallSnapshot
  <2>3. Asking'
    BY <2>2 DEF Whole, Asking
  <2>4. QED
    BY <2>1, <2>3 DEF Whole
<1>5. QED
  BY <1>2, <1>3, <1>4 DEF User

LEMMA Steps == Whole /\ [Next]_vars => Whole'
<1> SUFFICES ASSUME Whole, [Next]_vars PROVE Whole'
  OBVIOUS
<1>1. CASE UNCHANGED vars
  <2>1. blocked' \subseteq Node \X Node /\ UNCHANGED <<storageVars, nodeVars, at, votes, ghosts>>
    BY <1>1 DEF vars, Whole, All, Inv, TypeOK
  <2>2. QED
    BY <2>1, CalmStep
<1>2. QED
  BY <1>1, ThreadKeeps, UserKeeps DEF Next

LEMMA Invariant == Spec => []Whole
  BY Initial, Steps, PTL DEF Spec

--------------------------------------------------------------------------------
\* The nodes' terms, votes, logs and timers, and the threads' places in
\* TickAll, always have their types, whatever terms and entries the user sends.
THEOREM Typed == Spec => []TypeOK
<1>1. Whole => TypeOK
  BY DEF Whole, All, Inv
<1>2. QED
  BY <1>1, Invariant, PTL

\* For any nodes and any quorums that meet, a majority votes for one candidate
\* in a term, though StepDown lets a node forget the vote it gave itself
\* (HandleRequestVote, HandleAppendEntries, StepDown).
THEOREM OneWinnerOfATerm == Spec => []ElectionSafety
<1>1. Whole => ElectionSafety
  <2> SUFFICES ASSUME Whole, NEW v \in votes, NEW w \in Node, NEW x \in Node,
                      Elected(v[1], w), Elected(v[1], x)
               PROVE  w = x
    BY DEF ElectionSafety
  <2>1. v[1] \in Nat /\ Decided
    BY DEF Whole, All, Inv, TypeOK
  <2>2. QED
    BY <2>1, WinnersAgree
<1>2. QED
  BY <1>1, Invariant, PTL

\* Every log keeps the indexes that MemoryStorage's offsets take for granted,
\* except in a node that took entries from below its snapshot (HandleAppendEntries,
\* HandleInstallSnapshot, GetTerm, Truncate).
THEOREM LogsAreChains == Spec => []LogIsContiguous
<1>1. Whole => LogIsContiguous
  BY FollowingIsContiguous DEF Whole, All, Inv
<1>2. QED
  BY <1>1, Invariant, PTL

\* What a candidate asks with stays true of it until its last request is sent,
\* for the mutex it holds keeps out whoever could change it (StartElection).
THEOREM RequestsHold == Spec => []RequestsStayTrue
<1>1. Whole => RequestsStayTrue
  BY DEF Whole, All
<1>2. QED
  BY <1>1, Invariant, PTL

\* If no thread that ticks the cluster can go on, an election of one of them
\* waits for the node of another's (StartElection, SendRequestVote).
THEOREM DeadlockIsBetweenElections == Spec => []DeadlockTakesTwoElections
<1>1. Whole => DeadlockTakesTwoElections
  <2> SUFFICES ASSUME Whole, \A th \in Thread : Waits(th)
               PROVE  \E th1, th2 \in Thread : /\ th1 # th2
                        /\ at[th1].to = at[th2].cand /\ at[th1].to # Nobody
    BY DEF DeadlockTakesTwoElections
  <2>0. at \in [Thread -> AtType] /\ Nobody \notin Node
    BY RaftAssumption DEF Whole, All, Inv, TypeOK, AtType, Nobody
  <2>1. PICK th \in Thread : at[th].cand # Nobody
    <3>1. PICK u \in Thread : TRUE
      BY RaftAssumption
    <3>2. CASE at[u].cand = Nobody
      <4>1. PICK n \in at[u].todo : Locked(n)
        BY <3>2 DEF Waits
      <4>2. n \in Node
        BY <2>0, <4>1 DEF AtType
      <4>3. QED
        BY <2>0, <4>1, <4>2 DEF Locked
    <3>3. QED
      BY <3>2
  <2>2. at[th].to # Nobody /\ Locked(at[th].to)
    BY <2>1 DEF Waits
  <2>3. PICK u \in Thread : at[u].cand = at[th].to
    BY <2>2 DEF Locked
  <2>4. at[th].to # at[th].cand
    BY <2>1 DEF Whole, Asking
  <2>5. QED
    BY <2>2, <2>3, <2>4
<1>2. QED
  BY <1>1, Invariant, PTL
================================================================================
