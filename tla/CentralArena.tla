----------------------------- MODULE CentralArena ------------------------------
(***************************************************************************)
(* The central free list of the memory allocator (slab_arena.cpp): one bin *)
(* of CentralArena, a stack that threads pop and push with compare-and-    *)
(* swap.  Every atomic load, store and exchange is a step.  PopBatch takes *)
(* one node whatever count it is given; a weak exchange may fail for no    *)
(* reason.  The threads that call it, and the nodes they own, are external.*)
(***************************************************************************)
EXTENDS Integers, Sequences, FiniteSets

CONSTANTS FreeNode, ArenaThread, NullNode

ASSUME ArenaAssumption == NullNode \notin FreeNode

VARIABLES
  head,       \* central_bins_[size_class]
  next,       \* the link of each node
  call,       \* what each thread is doing
  owned,      \* the nodes each thread got from PopBatch, or had at first
  outdated    \* whether an exchange put an outdated link at the head

arenaVars == <<head, next, call, owned, outdated>>

Returned == [op |-> "none", seen |-> NullNode, link |-> NullNode, chain |-> <<>>]

ArenaInit ==
  /\ head = NullNode
  /\ next = [n \in FreeNode |-> NullNode]
  /\ call = [th \in ArenaThread |-> Returned]
  /\ \E th \in ArenaThread :
       owned = [x \in ArenaThread |-> IF x = th THEN FreeNode ELSE {}]
  /\ outdated = FALSE

\* PopBatch: the load of the head, and the same after a failed exchange.
PopFrom(node) == IF node = NullNode THEN Returned
                 ELSE [Returned EXCEPT !.op = "next", !.seen = node]

StartPop(th) ==
  /\ call[th] = Returned
  /\ call' = [call EXCEPT ![th] = PopFrom(head)]
  /\ UNCHANGED <<head, next, owned, outdated>>

LoadNext(th) ==
  /\ call[th].op = "next"
  /\ call' = [call EXCEPT ![th].op = "pop", ![th].link = next[call[th].seen]]
  /\ UNCHANGED <<head, next, owned, outdated>>

Popped(th) ==
  /\ call[th].op = "pop"
  /\ head = call[th].seen
  /\ head' = call[th].link
  /\ owned' = [owned EXCEPT ![th] = @ \union {call[th].seen}]
  /\ outdated' = (outdated \/ call[th].link # next[call[th].seen])
  /\ call' = [call EXCEPT ![th] = Returned]
  /\ UNCHANGED next

RetryPop(th) ==
  /\ call[th].op = "pop"
  /\ call' = [call EXCEPT ![th] = PopFrom(head)]
  /\ UNCHANGED <<head, next, owned, outdated>>

\* PushBatch of a chain the caller owns and has linked.
StartPush(th, chain) ==
  /\ call[th] = Returned
  /\ next' = [n \in FreeNode |->
                IF \E i \in 1 .. Len(chain) - 1 : chain[i] = n
                THEN chain[(CHOOSE i \in 1 .. Len(chain) - 1 : chain[i] = n) + 1]
                ELSE next[n]]
  /\ owned' = [owned EXCEPT ![th] = @ \ {chain[i] : i \in 1 .. Len(chain)}]
  /\ call' = [call EXCEPT ![th] = [op |-> "link", seen |-> head, link |-> NullNode, chain |-> chain]]
  /\ UNCHANGED <<head, outdated>>

LinkTail(th) ==
  /\ call[th].op = "link"
  /\ next' = [next EXCEPT ![call[th].chain[Len(call[th].chain)]] = call[th].seen]
  /\ call' = [call EXCEPT ![th].op = "push"]
  /\ UNCHANGED <<head, owned, outdated>>

PushedUnchecked(th) ==
  /\ call[th].op = "push"
  /\ head' = call[th].chain[1]
  /\ call' = [call EXCEPT ![th] = Returned]
  /\ UNCHANGED <<next, owned, outdated>>
Pushed(th) ==
  /\ call[th].op = "push"
  /\ head = call[th].seen
  /\ head' = call[th].chain[1]
  /\ call' = [call EXCEPT ![th] = Returned]
  /\ UNCHANGED <<next, owned, outdated>>

RetryPush(th) ==
  /\ call[th].op = "push"
  /\ call' = [call EXCEPT ![th].op = "link", ![th].seen = head]
  /\ UNCHANGED <<head, next, owned, outdated>>

\* Chains of one or two of a thread's nodes.
ChainsOf(S) == {<<n>> : n \in S} \union {c \in S \X S : c[1] # c[2]}

ArenaNext ==
  \E th \in ArenaThread :
    \/ StartPop(th) \/ LoadNext(th) \/ Popped(th) \/ RetryPop(th)
    \/ \E c \in ChainsOf(owned[th]) : StartPush(th, c)
    \/ LinkTail(th) \/ Pushed(th) \/ RetryPush(th)

ArenaSpec == ArenaInit /\ [][ArenaNext]_arenaVars

(***************************************************************************)
(* Properties                                                              *)
(***************************************************************************)
\* The nodes reached from the head by following the links.
InStack ==
  {n \in FreeNode : \A S \in SUBSET FreeNode :
     /\ head # NullNode => head \in S
     /\ \A m \in S : next[m] # NullNode => next[m] \in S
     => n \in S}

InFlight(th) == {call[th].chain[i] : i \in 1 .. Len(call[th].chain)}

\* Whatever pops and pushes race, every node is on the stack, with one thread, or
\* in one chain being pushed, as long as no exchange swapped in an outdated link.
\* One can: a node seen at the head may be popped and pushed back between the load
\* of its link and the exchange, which then succeeds (ABA), and neither a hazard
\* pointer nor a count in the head keeps PopBatch from it.
NodesHaveOnePlace ==
  ~outdated =>
    /\ (UNION {owned[th] \union InFlight(th) : th \in ArenaThread}) \union InStack = FreeNode
    /\ \A th \in ArenaThread :
         /\ (owned[th] \union InFlight(th)) \cap InStack = {}
         /\ owned[th] \cap InFlight(th) = {}
         /\ \A other \in ArenaThread \ {th} :
              (owned[th] \union InFlight(th)) \cap (owned[other] \union InFlight(other)) = {}
===============================================================================
