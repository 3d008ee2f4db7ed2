--------------------------------- MODULE Raft ----------------------------------
(***************************************************************************)
(* The consensus engine (tasks/raft-distributed-consensus-engine): nodes   *)
(* with their storage, the in-process cluster that carries their calls,    *)
(* and threads that tick the nodes.                                        *)
(*                                                                         *)
(* A call to a peer is a direct call of its handler, made while the        *)
(* caller's node mutex is held, so an election is many steps: one per peer *)
(* to pass the partition check and one to get the peer's mutex and run its *)
(* handler.  Every other handler is one step.                              *)
(*                                                                         *)
(* Replies to vote requests are dropped (SendRequestVote), so no node ever *)
(* becomes LEADER, Propose always fails and heartbeats are never sent.     *)
(* HandleAppendEntries and HandleInstallSnapshot are reached by whoever    *)
(* uses the cluster's Send calls on behalf of a candidate that a majority  *)
(* voted for: that user is external, and sends any entries it likes.       *)
(***************************************************************************)
EXTENDS Integers, Sequences, FiniteSets

CONSTANTS
  Node,             \* ids of the nodes
  Quorum,           \* what the user takes for a majority
  Thread,           \* callers of TickAll
  ElectionTimeout,  \* randomized_election_timeout_, the same 15 for every node
  Splits,           \* the partitions that may be set: pairs of groups
  MaxTerm, MaxIndex, MaxSends  \* bounds: terms, log indexes, calls by the user

ASSUME RaftAssumption ==
  /\ Node \subseteq Nat \ {0} /\ IsFiniteSet(Node)
  /\ Quorum \subseteq SUBSET Node
  /\ \A P, Q \in Quorum : P \cap Q # {}
  /\ Thread # {}
  /\ ElectionTimeout \in Nat \ {0}
  /\ Splits \subseteq (SUBSET Node) \X (SUBSET Node)
  /\ MaxTerm \in Nat /\ MaxIndex \in Nat /\ MaxSends \in Nat

VARIABLES
  \* MemoryStorage.
  term,       \* current_term_
  votedFor,   \* voted_for_, or Nobody
  log,        \* log_; its first entry is the dummy that stands for the snapshot
  snap,       \* snapshot_index_ and snapshot_term_
  \* RaftNode.
  role,
  elapsed,    \* election_elapsed_
  commit,     \* commit_index_
  applied,    \* last_applied_
  \* RaftCluster and its callers.
  blocked,    \* blocked_links_
  at,         \* where each thread is in TickAll
  \* What is remembered for the properties.
  votes,      \* <<term, voter, candidate>>: every vote granted so far
  rewound,    \* nodes that took entries from below their snapshot
  sends       \* calls by the user so far

storageVars == <<term, votedFor, log, snap>>
nodeVars    == <<role, elapsed, commit, applied>>
ghosts      == <<rewound, sends>>
vars        == <<storageVars, nodeVars, blocked, at, votes, ghosts>>

Nobody == 0

MaxOf(i, j) == IF i > j THEN i ELSE j
MinOf(i, j) == IF i < j THEN i ELSE j

Entry(i, t) == [index |-> i, term |-> t]
Last(n) == log[n][Len(log[n])]

\* MemoryStorage::GetTerm.
GetTerm(n, i) ==
  LET offset == i - snap[n].index
  IN  IF offset = 0 THEN snap[n].term
      ELSE IF offset < 0 \/ i > Last(n).index \/ offset >= Len(log[n]) THEN 0
      ELSE log[n][offset + 1].term

TruncateOneShort(n, from) ==
  LET offset == from - snap[n].index
  IN  IF offset > 0 /\ offset < Len(log[n]) THEN SubSeq(log[n], 1, offset + 1) ELSE log[n]

\* MemoryStorage::Truncate: what is left of the log.
Truncate(n, from) ==
  LET offset == from - snap[n].index
  IN  IF offset > 0 /\ offset < Len(log[n]) THEN SubSeq(log[n], 1, offset) ELSE log[n]

\* Whether the log that ends at `last' is at least as up to date as n's.
UpToDate(last, n) ==
  \/ last.term > Last(n).term
  \/ last.term = Last(n).term /\ last.index >= Last(n).index

\* A thread with the nodes of `rest' still to tick, and no node's mutex.
Between(rest) ==
  [todo |-> rest, cand |-> Nobody, term |-> 0, last |-> Entry(0, 0),
   peers |-> {}, to |-> Nobody]

\* The order of std::map, and of the peers every caller lists.
First(n, S) == n \in S /\ \A m \in S : n <= m

PeersAndSelf(n) == Node

Peers(n) == Node \ {n}

NeverLocked(n) == FALSE

\* n's mutex is held across steps only by the thread that runs its election.
Locked(n) == \E th \in Thread : at[th].cand = n

Init ==
  /\ term = [n \in Node |-> 0]
  /\ votedFor = [n \in Node |-> Nobody]
  /\ log = [n \in Node |-> <<Entry(0, 0)>>]
  /\ snap = [n \in Node |-> Entry(0, 0)]
  /\ role = [n \in Node |-> "FOLLOWER"]
  /\ elapsed = [n \in Node |-> 0]
  /\ commit = [n \in Node |-> 0]
  /\ applied = [n \in Node |-> 0]
  /\ blocked = {}
  /\ at = [th \in Thread |-> Between({})]
  /\ votes = {}
  /\ rewound = {}
  /\ sends = 0

(***************************************************************************)
(* Ticks and elections                                                     *)
(***************************************************************************)
TickAll(th) ==
  /\ at[th] = Between({})
  /\ at' = [at EXCEPT ![th] = Between(Node)]
  /\ UNCHANGED <<storageVars, nodeVars, blocked, votes, ghosts>>

\* The nodes are ticked in the order of their ids.
HandleTick(th, n) ==
  /\ at[th].cand = Nobody
  /\ First(n, at[th].todo)
  /\ ~Locked(n)

Tick(th, n) ==
  /\ HandleTick(th, n)
  /\ elapsed[n] + 1 < ElectionTimeout
  /\ elapsed' = [elapsed EXCEPT ![n] = @ + 1]
  /\ at' = [at EXCEPT ![th] = Between(@.todo \ {n})]
  /\ UNCHANGED <<storageVars, role, commit, applied, blocked, votes, ghosts>>

StartElection(th, n) ==
  /\ HandleTick(th, n)
  /\ elapsed[n] + 1 >= ElectionTimeout
  /\ term[n] < MaxTerm
  /\ elapsed' = [elapsed EXCEPT ![n] = 0]
  /\ term' = [term EXCEPT ![n] = @ + 1]
  /\ votedFor' = [votedFor EXCEPT ![n] = n]
  /\ role' = [role EXCEPT ![n] = "CANDIDATE"]
  /\ at' = [at EXCEPT ![th] = [todo |-> @.todo \ {n}, cand |-> n, term |-> term[n] + 1,
                               last |-> Last(n), peers |-> Peers(n), to |-> Nobody]]
  /\ votes' = votes \union {<<term[n] + 1, n, n>>}
  /\ UNCHANGED <<log, snap, commit, applied, blocked, ghosts>>

\* SendRequestVote up to the end of its lock: the partition is looked at once.
SendRequestVote(th, p) ==
  /\ at[th].to = Nobody
  /\ First(p, at[th].peers)
  /\ at' = [at EXCEPT ![th].peers = @ \ {p},
                      ![th].to = IF <<at[th].cand, p>> \in blocked THEN Nobody ELSE p]
  /\ UNCHANGED <<storageVars, nodeVars, blocked, votes, ghosts>>

VoteForgotten(n, t) == IF t >= term[n] THEN Nobody ELSE votedFor[n]

\* n's vote once it has seen term t: StepDown forgets that of an older term.
Vote(n, t) == IF t > term[n] THEN Nobody ELSE votedFor[n]

HandleRequestVote(th, n) ==
  LET t       == at[th].term
      c       == at[th].cand
      newer   == t > term[n]
      granted == t >= term[n] /\ Vote(n, t) \in {Nobody, c} /\ UpToDate(at[th].last, n)
  IN  /\ n = at[th].to /\ n # Nobody
      /\ ~Locked(n)
      /\ term' = [term EXCEPT ![n] = IF newer THEN t ELSE @]
      /\ votedFor' = [votedFor EXCEPT ![n] = IF granted THEN c ELSE Vote(n, t)]
      /\ role' = [role EXCEPT ![n] = IF newer THEN "FOLLOWER" ELSE @]
      /\ elapsed' = [elapsed EXCEPT ![n] = IF newer \/ granted THEN 0 ELSE @]
      /\ votes' = votes \union (IF granted THEN {<<t, n, c>>} ELSE {})
      /\ at' = [at EXCEPT ![th].to = Nobody]
      /\ UNCHANGED <<log, snap, commit, applied, blocked, ghosts>>

EndElection(th) ==
  /\ at[th].cand # Nobody /\ at[th].peers = {} /\ at[th].to = Nobody
  /\ at' = [at EXCEPT ![th] = Between(@.todo)]
  /\ UNCHANGED <<storageVars, nodeVars, blocked, votes, ghosts>>

(***************************************************************************)
(* Calls by the user of the cluster                                        *)
(***************************************************************************)
SetPartition(A, B) ==
  /\ blocked' = blocked \union (A \X B) \union (B \X A)
  /\ UNCHANGED <<storageVars, nodeVars, at, votes, ghosts>>

ClearPartitions ==
  /\ blocked' = {}
  /\ UNCHANGED <<storageVars, nodeVars, at, votes, ghosts>>

\* A majority has voted for w in term t.
Elected(t, w) == \E Q \in Quorum : \A v \in Q : <<t, v, w>> \in votes

\* The user speaks for w, which a majority voted for in term t, to n.
Reaches(w, t, n) ==
  /\ sends < MaxSends /\ sends' = sends + 1
  /\ n # w /\ <<w, n>> \notin blocked
  /\ Elected(t, w)
  /\ ~Locked(n)

\* When a handler called with term t steps down; `also' is its other reason to.
StepsDown(n, t, also) == t > term[n] \/ (t = term[n] /\ also)

\* StepDown forgets the vote, even where the term stays the same.
TakeTerm(n, t, also) ==
  LET down == StepsDown(n, t, also)
  IN  /\ term' = [term EXCEPT ![n] = IF down THEN t ELSE @]
      /\ votedFor' = [votedFor EXCEPT ![n] = IF down THEN Nobody ELSE @]
      /\ role' = [role EXCEPT ![n] = IF down THEN "FOLLOWER" ELSE @]
      /\ elapsed' = [elapsed EXCEPT ![n] = IF t >= term[n] THEN 0 ELSE @]

HandleAppendEntries(t, n, prev, entries, leaderCommit) ==
  LET ok   == /\ t >= term[n]
              /\ prev.index <= Last(n).index /\ GetTerm(n, prev.index) = prev.term
      news == ok /\ entries # <<>>
      kept == IF news THEN Truncate(n, prev.index + 1) \o entries ELSE log[n]
      last == kept[Len(kept)].index
  IN  /\ TakeTerm(n, t, role[n] = "CANDIDATE")
      /\ log' = [log EXCEPT ![n] = kept]
      /\ commit' = [commit EXCEPT ![n] = IF ok /\ leaderCommit > @
                                          THEN MinOf(leaderCommit, last) ELSE @]
      /\ rewound' = rewound \union (IF news /\ prev.index < snap[n].index THEN {n} ELSE {})
      /\ UNCHANGED <<snap, applied, blocked, at, votes>>

HandleInstallSnapshot(t, n, included) ==
  /\ TakeTerm(n, t, FALSE)
  /\ IF t < term[n] THEN UNCHANGED <<log, snap, commit, applied, rewound>>
     ELSE /\ snap' = [snap EXCEPT ![n] = included]
          /\ log' = [log EXCEPT ![n] = <<included>>]
          /\ commit' = [commit EXCEPT ![n] = MaxOf(@, included.index)]
          /\ applied' = [applied EXCEPT ![n] = MaxOf(@, included.index)]
          /\ rewound' = rewound \ {n}
  /\ UNCHANGED <<blocked, at, votes>>

(***************************************************************************)
(* The system                                                              *)
(***************************************************************************)
Prevs(t) == {Entry(0, 0)} \union {Entry(i, e) : i \in 1 .. MaxIndex - 1, e \in 1 .. t}
Entries(prev, t) ==   \* what a user may send after prev: nothing, or one entry
  {<<>>} \union {<<Entry(prev.index + 1, e)>> : e \in (1 .. t) \ (1 .. prev.term - 1)}

SomeAppendEntries(t, n) ==
  \E prev \in Prevs(t), c \in 0 .. MaxIndex : \E es \in Entries(prev, t) :
    HandleAppendEntries(t, n, prev, es, c)

SomeInstallSnapshot(t, n) ==
  \E i \in 1 .. MaxIndex, it \in 1 .. t : HandleInstallSnapshot(t, n, Entry(i, it))

TickThread(th) ==
  \/ TickAll(th)
  \/ \E n \in Node : \/ Tick(th, n)
                     \/ StartElection(th, n)
                     \/ SendRequestVote(th, n)
                     \/ HandleRequestVote(th, n)
  \/ EndElection(th)

User ==
  \/ \E s \in Splits : SetPartition(s[1], s[2])
  \/ ClearPartitions
  \/ \E w, n \in Node, t \in 1 .. MaxTerm :
       /\ Reaches(w, t, n)
       /\ SomeAppendEntries(t, n) \/ SomeInstallSnapshot(t, n)

Next == User \/ \E th \in Thread : TickThread(th)

Spec == Init /\ [][Next]_vars

(***************************************************************************)
(* Properties                                                              *)
(***************************************************************************)
Entry_ == [index : Nat, term : Nat]

TypeOK ==
  /\ term \in [Node -> Nat]
  /\ votedFor \in [Node -> Node \union {Nobody}]
  /\ log \in [Node -> Seq(Entry_)] /\ \A n \in Node : log[n] # <<>>
  /\ snap \in [Node -> Entry_]
  /\ role \in [Node -> {"FOLLOWER", "CANDIDATE"}]
  /\ elapsed \in [Node -> 0 .. ElectionTimeout - 1]
  /\ commit \in [Node -> Nat]
  /\ applied \in [Node -> Nat]
  /\ blocked \subseteq Node \X Node
  /\ at \in [Thread -> [todo : SUBSET Node, cand : Node \union {Nobody}, term : Nat,
                        last : Entry_, peers : SUBSET Node, to : Node \union {Nobody}]]
  /\ votes \subseteq Nat \X Node \X Node
  /\ rewound \subseteq Node
  /\ sends \in Nat

\* At most one candidate is voted for by a majority in a term.  A node may vote
\* twice: a candidate that hears from the winner of its own term steps down and
\* forgets that it voted for itself.  Such a vote comes too late to elect anyone.
ElectionSafety ==
  \A t \in {v[1] : v \in votes}, w, x \in Node : Elected(t, w) /\ Elected(t, x) => w = x

\* The log is indexed by offsets from the snapshot, so its entries must be
\* consecutive from there.  They are, except in a node that took entries from
\* before its snapshot: GetTerm answers 0 for what the snapshot covers, which
\* matches a leader that starts from index 0, and Truncate then drops nothing.
LogIsContiguous ==
  \A n \in Node \ rewound : \A i \in 1 .. Len(log[n]) :
    /\ log[n][i].index = snap[n].index + i - 1
    /\ GetTerm(n, log[n][i].index) = log[n][i].term

\* While a thread asks for votes, its candidate stays the candidate of the term
\* it asks for, with the log it described: requests are sent one peer at a time,
\* and only the candidate's mutex, held all along, keeps them true.
RequestsStayTrue ==
  \A th \in Thread : LET c == at[th].cand IN
    c # Nobody => /\ term[c] = at[th].term
                  /\ role[c] = "CANDIDATE" /\ votedFor[c] = c
                  /\ Last(c) = at[th].last

\* Threads that tick the same cluster can stop each other for ever, but only
\* where two elections wait for each other's node: an election holds its node's
\* mutex while it waits for its peer's.  One ticking thread never waits.
Waits(th) ==
  IF at[th].cand = Nobody
  THEN \E n \in at[th].todo : First(n, at[th].todo) /\ Locked(n)
  ELSE at[th].to # Nobody /\ Locked(at[th].to)
DeadlockTakesTwoElections ==
  (\A th \in Thread : Waits(th)) =>
     \E th1, th2 \in Thread : /\ th1 # th2
                              /\ at[th1].to = at[th2].cand /\ at[th1].to # Nobody
===============================================================================
