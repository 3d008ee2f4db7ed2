----------------------------- MODULE NetworkProofs -----------------------------
(***************************************************************************)
(* Proofs about the two components that packets go through.                *)
(*                                                                         *)
(* Firewall: for any flows, subnets and receive queues, any rate, burst,   *)
(* cost and timeout, and a table of any size, as long as the clock does    *)
(* not come near the width of a timestamp.                                 *)
(*                                                                         *)
(* QuicEngine: for any streams with 62-bit ids, and as many bytes on each  *)
(* as a 62-bit offset can count, in any number of packets.                 *)
(***************************************************************************)
EXTENDS Firewall, QuicEngine, FiniteSetTheorems, SequenceTheorems, WellFoundedInduction, TLAPS

--------------------------------------------------------------------------------
(* The firewall. *)

FlagSet == SUBSET {"SYN", "ACK", "FIN", "RST"}
States  == {"SYN_SENT", "SYN_RECV", "ESTABLISHED", "FIN_WAIT"}
Bucket  == [tokens : Int, last : Nat]
Tracked == [state : States, seen : Nat]
Packet  == [step : {"limit", "track"}, flow : Flow, flags : FlagSet, stamp : Nat]

InboxTypeOK ==
  /\ now \in 0 .. MaxTime
  /\ inbox \in [Queue -> Packet \union {NoPacket}]

LimiterTypeOK ==
  /\ bucket \in [Subnet -> Bucket]
  /\ spent \in [Subnet -> Int]
  /\ first \in [Subnet -> Nat] /\ latest \in [Subnet -> Nat]
  /\ excused \subseteq Subnet

TrackTypeOK ==
  /\ DOMAIN entry \subseteq Flow /\ entry = [f \in DOMAIN entry |-> entry[f]]
  /\ \A f \in DOMAIN entry : entry[f] \in Tracked
  /\ history \in [Flow -> Seq(FlagSet)]
  /\ newest \in [Flow -> Nat]

\* A packet waits in its flow's queue, with a stamp no older than what passed.
Queued ==
  /\ \A q \in Queue : inbox[q] # NoPacket =>
       /\ QueueOf[inbox[q].flow] = q
       /\ newest[inbox[q].flow] <= inbox[q].stamp /\ inbox[q].stamp <= now
  /\ \A f \in Flow : newest[f] <= now

\* What a bucket holds, and what it let through, is its burst and what came since.
Balanced ==
  /\ \A s \in Subnet : latest[s] <= now
  /\ \A s \in Subnet \ excused :
       \/ bucket[s].last = 0 /\ spent[s] = 0 /\ first[s] = 0 /\ latest[s] = 0
       \/ /\ bucket[s].last = latest[s] /\ 0 < first[s] /\ first[s] <= latest[s]
          /\ 0 <= bucket[s].tokens
          /\ spent[s] + bucket[s].tokens <= Burst + Rate * (latest[s] - first[s])

HasSynAck(h, i) == i \in 2 .. Len(h) /\ {"SYN", "ACK"} \subseteq h[i]

\* What the packets since an entry was made say of its state.
Explained(e, h) ==
  /\ Len(h) > 0 /\ IsFirst(h[1])
  /\ e.state = "SYN_RECV" => \E i \in 2 .. Len(h) : {"SYN", "ACK"} \subseteq h[i]
  /\ e.state = "ESTABLISHED" =>
       \E i, j \in 2 .. Len(h) : i < j /\ {"SYN", "ACK"} \subseteq h[i] /\ "ACK" \in h[j]

Tracking == \A f \in DOMAIN entry : Explained(entry[f], history[f]) /\ entry[f].seen = newest[f]

Types == InboxTypeOK /\ LimiterTypeOK /\ TrackTypeOK

WallInv == Types /\ Queued /\ Balanced /\ Tracking

--------------------------------------------------------------------------------
LEMMA Sizes == /\ Rate \in Nat /\ Burst \in Nat /\ Cost \in Nat /\ Timeout \in Nat /\ Width \in Nat
               /\ MaxTime \in Nat /\ MaxTime + Timeout < Width
               /\ SubnetOf \in [Flow -> Subnet] /\ QueueOf \in [Flow -> Queue]
               /\ Tcp \subseteq Flow
BY FirewallAssumption DEF Flow

LEMMA AreFlags == Flags \subseteq FlagSet /\ {} \in FlagSet
BY DEF Flags, FlagSet

LEMMA WallInitial == FirewallInit => WallInv
<1> SUFFICES ASSUME FirewallInit PROVE WallInv
  OBVIOUS
<1>1. DOMAIN entry = {}
  BY DEF FirewallInit
<1>2. Types
  BY <1>1, Sizes DEF FirewallInit, Types, InboxTypeOK, LimiterTypeOK, TrackTypeOK, Bucket
<1>3. Queued /\ Balanced /\ Tracking
  BY <1>1, Sizes DEF FirewallInit, Queued, Balanced, Tracking
<1>4. QED
  BY <1>2, <1>3 DEF WallInv

LEMMA TickStep == ASSUME WallInv, Tick PROVE WallInv'
<1>1. now \in Nat /\ now' = now + 1 /\ now' \in 0 .. MaxTime
  BY Sizes DEF Tick, WallInv, Types, InboxTypeOK
<1>2. UNCHANGED <<bucket, spent, first, latest, excused, entry, history, newest, inbox>>
  BY DEF Tick, limiterVars, trackVars
<1>3. Types'
  BY <1>1, <1>2 DEF WallInv, Types, InboxTypeOK, LimiterTypeOK, TrackTypeOK
<1>4. Queued'
  <2>1. \A q \in Queue : inbox[q] # NoPacket => inbox[q].stamp \in Nat
    BY DEF WallInv, Types, InboxTypeOK, Packet
  <2>2. \A f \in Flow : newest[f] \in Nat
    BY DEF WallInv, Types, TrackTypeOK
  <2>3. QED
    BY <1>1, <1>2, <2>1, <2>2 DEF WallInv, Queued
<1>5. Balanced'
  <2>1. \A s \in Subnet : latest'[s] <= now'
    BY <1>1, <1>2 DEF WallInv, Types, LimiterTypeOK, Balanced
  <2>2. QED
    BY <1>2, <2>1 DEF WallInv, Balanced
<1>6. Tracking'
  BY <1>2 DEF WallInv, Tracking
<1>7. QED
  BY <1>3, <1>4, <1>5, <1>6 DEF WallInv

\* A packet is stamped with the present, so it is no older than any that passed.
LEMMA ArriveStep == ASSUME WallInv, NEW f \in Flow, NEW flags \in FlagSet, Arrive(f, flags) PROVE WallInv'
<1> DEFINE p == [step |-> "limit", flow |-> f, flags |-> flags, stamp |-> now]
<1>1. inbox' = [inbox EXCEPT ![QueueOf[f]] = p] /\ QueueOf[f] \in Queue
  BY Sizes DEF Arrive
<1>2. UNCHANGED <<bucket, spent, first, latest, excused, entry, history, newest, now>>
  BY DEF Arrive, limiterVars, trackVars
<1>3. p \in Packet /\ p.flow = f /\ p.stamp = now
  BY Sizes DEF Packet, WallInv, Types, InboxTypeOK
<1> HIDE DEF p
<1>4. inbox' \in [Queue -> Packet \union {NoPacket}]
      /\ \A q \in Queue : inbox'[q] = IF q = QueueOf[f] THEN p ELSE inbox[q]
  BY <1>1, <1>3 DEF WallInv, Types, InboxTypeOK
<1>5. Types'
  BY <1>2, <1>4 DEF WallInv, Types, InboxTypeOK, LimiterTypeOK, TrackTypeOK
<1>6. Queued'
  <2>1. now \in Nat
    BY DEF WallInv, Types, InboxTypeOK
  <2>2. QED
    BY <1>2, <1>3, <1>4, <2>1 DEF WallInv, Queued
<1>7. Balanced' /\ Tracking'
  BY <1>2 DEF WallInv, Balanced, Tracking
<1>8. QED
  BY <1>5, <1>6, <1>7 DEF WallInv

LEMMA Emptied ==
  ASSUME WallInv, NEW q \in Queue, NEW p \in Packet \union {NoPacket},
         inbox' = [inbox EXCEPT ![q] = p], p # NoPacket => p.flow = inbox[q].flow /\ p.stamp = inbox[q].stamp,
         p # NoPacket => inbox[q] # NoPacket, now' = now
  PROVE  /\ InboxTypeOK'
         /\ \A r \in Queue : inbox'[r] = IF r = q THEN p ELSE inbox[r]
BY DEF WallInv, Types, InboxTypeOK

LEMMA Refill ==
  ASSUME WallInv, NEW s \in Subnet, NEW stamp \in Nat, stamp <= now
  PROVE  /\ Refilled(bucket[s], stamp) \in Int
         /\ bucket[s].last # 0 /\ 0 <= bucket[s].tokens /\ bucket[s].last <= stamp =>
              /\ Refilled(bucket[s], stamp) <= bucket[s].tokens + Rate * (stamp - bucket[s].last)
              /\ 0 <= Refilled(bucket[s], stamp)
         /\ bucket[s].last = 0 => Refilled(bucket[s], stamp) = Burst
<1> DEFINE b == bucket[s]
           gap == (stamp - b.last) % Width
<1>1. b.tokens \in Int /\ b.last \in Nat
  BY DEF WallInv, Types, LimiterTypeOK, Bucket
<1>2. gap \in Nat /\ (b.last <= stamp => gap = stamp - b.last)
  <2>1. Width \in Nat \ {0} /\ stamp < Width
    BY Sizes DEF WallInv, Types, InboxTypeOK
  <2>2. stamp - b.last \in Int /\ (b.last <= stamp => stamp - b.last \in 0 .. Width - 1)
    BY <1>1, <2>1
  <2>3. \A d \in Int : d % Width \in Nat /\ (d \in 0 .. Width - 1 => d % Width = d)
    BY <2>1
  <2>4. QED
    BY <2>2, <2>3
<1>3. Refilled(b, stamp) = IF b.last = 0 THEN Burst ELSE MinOf(Burst, b.tokens + gap * Rate)
  BY DEF Refilled
<1> HIDE DEF gap, b
<1>4. gap * Rate \in Nat /\ gap * Rate = Rate * gap
  BY <1>2, Sizes
<1>5. /\ b.last # 0 => /\ Refilled(b, stamp) \in Int
                       /\ Refilled(b, stamp) <= b.tokens + gap * Rate
                       /\ 0 <= b.tokens => 0 <= Refilled(b, stamp)
      /\ b.last = 0 => Refilled(b, stamp) = Burst
  <2>1. PICK x \in Nat : x = gap * Rate
    BY <1>4
  <2>2. QED
    BY <1>1, <1>3, <2>1, Sizes DEF MinOf
<1>6. b.last <= stamp => gap * Rate = Rate * (stamp - b.last)
  BY <1>2, <1>4
<1>7. QED
  BY <1>5, <1>6, Sizes DEF b

LEMMA Spread ==
  ASSUME NEW r \in Nat, NEW x \in Nat, NEW y \in Nat, NEW z \in Nat
  PROVE  r * (z - x) = r * (y - x) + r * (z - y)
OBVIOUS

\* One packet more: what it costs comes out of the bucket.
LEMMA AllowStep == ASSUME WallInv, NEW q \in Queue, AllowPacket(q) PROVE WallInv'
<1> DEFINE p      == inbox[q]
           s      == SubnetOf[p.flow]
           tokens == Refilled(bucket[s], p.stamp)
           pass   == tokens >= Cost
           fee    == IF pass THEN Cost ELSE 0
           next   == IF pass /\ p.flow \in Tcp THEN [p EXCEPT !.step = "track"] ELSE NoPacket
<1>0. p \in Packet /\ p # NoPacket
  BY DEF AllowPacket, WallInv, Types, InboxTypeOK, NoPacket, Packet
<1>1. /\ bucket' = [bucket EXCEPT ![s] = [tokens |-> tokens - fee, last |-> p.stamp]]
      /\ inbox' = [inbox EXCEPT ![q] = next]
      /\ spent' = [spent EXCEPT ![s] = @ + fee]
      /\ first' = [first EXCEPT ![s] = IF @ = 0 THEN p.stamp ELSE @]
      /\ latest' = [latest EXCEPT ![s] = MaxOf(@, p.stamp)]
      /\ excused' = excused \union (IF p.stamp = 0 \/ p.stamp < latest[s] THEN {s} ELSE {})
      /\ UNCHANGED <<entry, history, newest, now>>
  BY DEF AllowPacket, trackVars
<1>2. /\ s \in Subnet /\ p.stamp \in Nat /\ p.stamp <= now /\ p.flow \in Flow /\ now \in Nat
  BY <1>0, Sizes DEF Packet, WallInv, Types, InboxTypeOK, Queued
<1>3. tokens \in Int /\ fee \in Int /\ Cost \in Nat /\ (0 <= tokens => 0 <= tokens - fee)
  BY <1>2, Refill, Sizes
<1>4. /\ next \in Packet \union {NoPacket}
      /\ next # NoPacket => next.flow = p.flow /\ next.stamp = p.stamp
  BY <1>0 DEF Packet
<1>5. /\ bucket[s].tokens \in Int /\ bucket[s].last \in Nat /\ spent[s] \in Int
      /\ first[s] \in Nat /\ latest[s] \in Nat
  BY <1>2 DEF WallInv, Types, LimiterTypeOK, Bucket
<1>6. InboxTypeOK' /\ \A r \in Queue : inbox'[r] = IF r = q THEN next ELSE inbox[r]
  <2> HIDE DEF next
  <2>1. QED
    BY <1>0, <1>1, <1>4, Emptied
<1>7. LimiterTypeOK'
  <2>1. [tokens |-> tokens - fee, last |-> p.stamp] \in Bucket
    BY <1>2, <1>3 DEF Bucket
  <2>2. spent[s] + fee \in Int /\ (IF first[s] = 0 THEN p.stamp ELSE first[s]) \in Nat /\ MaxOf(latest[s], p.stamp) \in Nat
    BY <1>2, <1>3, <1>5 DEF MaxOf
  <2> HIDE DEF p, s, tokens, pass, fee, next
  <2>3. QED
    BY <1>1, <1>2, <2>1, <2>2 DEF WallInv, Types, LimiterTypeOK
<1>8. Types'
  BY <1>1, <1>6, <1>7 DEF WallInv, Types, TrackTypeOK
<1>9. Queued'
  <2> HIDE DEF next
  <2>1. QED
    BY <1>0, <1>1, <1>4, <1>6 DEF WallInv, Queued
<1>10. Tracking'
  BY <1>1 DEF WallInv, Tracking
<1>11. Balanced'
  <2>1. \A x \in Subnet : latest'[x] <= now'
    BY <1>1, <1>2, <1>5 DEF WallInv, Balanced, Types, LimiterTypeOK, MaxOf
  <2>2. ASSUME NEW x \in Subnet \ excused'
        PROVE  \/ bucket'[x].last = 0 /\ spent'[x] = 0 /\ first'[x] = 0 /\ latest'[x] = 0
               \/ /\ bucket'[x].last = latest'[x] /\ 0 < first'[x] /\ first'[x] <= latest'[x]
                  /\ 0 <= bucket'[x].tokens
                  /\ spent'[x] + bucket'[x].tokens <= Burst + Rate * (latest'[x] - first'[x])
    <3>1. x \in Subnet \ excused
      BY <1>1, <2>2
    <3>2. CASE x # s
      <4>1. /\ bucket'[x] = bucket[x] /\ spent'[x] = spent[x] /\ first'[x] = first[x]
            /\ latest'[x] = latest[x]
        BY <1>1, <3>2 DEF WallInv, Types, LimiterTypeOK
      <4>2. QED
        BY <3>1, <4>1 DEF WallInv, Balanced
    <3>3. CASE x = s
      <4>1. p.stamp # 0 /\ latest[s] <= p.stamp
        BY <1>1, <1>2, <1>5, <2>2, <3>3
      <4>2. /\ bucket'[s].tokens = tokens - fee /\ bucket'[s].last = p.stamp
            /\ spent'[s] = spent[s] + fee /\ latest'[s] = p.stamp
            /\ first'[s] = IF first[s] = 0 THEN p.stamp ELSE first[s]
        <5>1. /\ bucket'[s] = [tokens |-> tokens - fee, last |-> p.stamp]
              /\ spent'[s] = spent[s] + fee
              /\ first'[s] = IF first[s] = 0 THEN p.stamp ELSE first[s]
              /\ latest'[s] = MaxOf(latest[s], p.stamp)
          BY <1>1, <1>2 DEF WallInv, Types, LimiterTypeOK
        <5>2. MaxOf(latest[s], p.stamp) = p.stamp
          BY <1>2, <1>5, <4>1 DEF MaxOf
        <5>3. QED
          BY <5>1, <5>2
      <4>3. CASE bucket[s].last = 0 /\ spent[s] = 0 /\ first[s] = 0 /\ latest[s] = 0
        <5>1. tokens = Burst /\ Rate * (p.stamp - p.stamp) = 0
          BY <1>2, <4>3, Refill, Sizes
        <5> HIDE DEF tokens, fee
        <5>2. first'[s] = p.stamp /\ spent'[s] + bucket'[s].tokens = Burst /\ 0 <= bucket'[s].tokens
          BY <1>3, <4>2, <4>3, <5>1, Sizes
        <5>3. QED
          BY <1>2, <3>3, <4>1, <4>2, <5>1, <5>2, Sizes
      <4>4. CASE /\ bucket[s].last = latest[s] /\ 0 < first[s] /\ first[s] <= latest[s]
                 /\ 0 <= bucket[s].tokens
                 /\ spent[s] + bucket[s].tokens <= Burst + Rate * (latest[s] - first[s])
        <5>1. tokens <= bucket[s].tokens + Rate * (p.stamp - latest[s]) /\ 0 <= tokens
          BY <1>2, <1>5, <4>1, <4>4, Refill
        <5>2. Rate * (p.stamp - first[s]) = Rate * (latest[s] - first[s]) + Rate * (p.stamp - latest[s])
          BY <1>2, <1>5, Spread, Sizes
        <5>3. /\ Rate * (latest[s] - first[s]) \in Int /\ Rate * (p.stamp - latest[s]) \in Int
              /\ Rate * (p.stamp - first[s]) \in Int
          BY <1>2, <1>5, Sizes
        <5> HIDE DEF tokens, fee
        <5>4. first'[s] = first[s] /\ spent'[s] + bucket'[s].tokens = spent[s] + tokens
          BY <1>3, <1>5, <4>2, <4>4
        <5>5. spent[s] + tokens <= Burst + Rate * (p.stamp - first[s])
          BY <1>3, <1>5, <4>4, <5>1, <5>2, <5>3, Sizes
        <5>6. 0 <= bucket'[s].tokens /\ first[s] <= p.stamp
          BY <1>2, <1>3, <1>5, <4>1, <4>2, <4>4, <5>1
        <5>7. QED
          BY <3>3, <4>2, <4>4, <5>4, <5>5, <5>6
      <4>5. QED
        BY <3>1, <3>3, <4>3, <4>4 DEF WallInv, Balanced
    <3>4. QED
      BY <3>2, <3>3
  <2>3. QED
    BY <2>1, <2>2 DEF Balanced
<1>12. QED
  BY <1>8, <1>9, <1>10, <1>11 DEF WallInv

--------------------------------------------------------------------------------
\* An entry's next packet takes its state one step further, or leaves it.
LEMMA Handshake ==
  ASSUME NEW e \in Tracked, NEW h \in Seq(FlagSet), NEW flags \in FlagSet, NEW stamp \in Nat,
         Explained(e, h)
  PROVE  /\ After(e.state, flags) \in States
         /\ Explained([state |-> After(e.state, flags), seen |-> stamp], Append(h, flags))
<1> DEFINE g == Append(h, flags)
<1>1. /\ Len(h) \in Nat /\ Len(g) = Len(h) + 1 /\ g[Len(h) + 1] = flags
      /\ \A i \in 1 .. Len(h) : g[i] = h[i]
  OBVIOUS
<1> HIDE DEF g
<1>2. Len(h) > 0 /\ IsFirst(h[1]) /\ Len(g) > 0 /\ IsFirst(g[1]) /\ 2 .. Len(h) \subseteq 2 .. Len(g)
  BY <1>1 DEF Explained
<1>3. \A i \in 2 .. Len(h) : g[i] = h[i]
  BY <1>1
<1>4. Len(h) + 1 \in 2 .. Len(g) /\ \A i \in 2 .. Len(h) : i < Len(h) + 1
  BY <1>1, <1>2
<1>5. e.state \in States
  BY DEF Tracked
<1>6. After(e.state, flags) \in States
  BY <1>5 DEF After, States
<1>7. After(e.state, flags) = "SYN_RECV" => \E i \in 2 .. Len(g) : {"SYN", "ACK"} \subseteq g[i]
  <2> SUFFICES ASSUME After(e.state, flags) = "SYN_RECV"
               PROVE  \E i \in 2 .. Len(g) : {"SYN", "ACK"} \subseteq g[i]
    OBVIOUS
  <2>1. CASE e.state = "SYN_SENT"
    <3>1. {"SYN", "ACK"} \subseteq flags
      BY <2>1 DEF After
    <3>2. QED
      BY <1>1, <1>4, <3>1
  <2>2. CASE e.state = "SYN_RECV"
    BY <1>2, <1>3, <2>2 DEF Explained
  <2>3. CASE e.state \in {"ESTABLISHED", "FIN_WAIT"}
    BY <2>3 DEF After
  <2>4. QED
    BY <1>5, <2>1, <2>2, <2>3 DEF States
<1>8. After(e.state, flags) = "ESTABLISHED" =>
        \E i, j \in 2 .. Len(g) : i < j /\ {"SYN", "ACK"} \subseteq g[i] /\ "ACK" \in g[j]
  <2> SUFFICES ASSUME After(e.state, flags) = "ESTABLISHED"
               PROVE  \E i, j \in 2 .. Len(g) : i < j /\ {"SYN", "ACK"} \subseteq g[i] /\ "ACK" \in g[j]
    OBVIOUS
  <2>1. CASE e.state = "SYN_RECV"
    <3>1. "ACK" \in flags
      BY <2>1 DEF After
    <3>2. PICK i \in 2 .. Len(h) : {"SYN", "ACK"} \subseteq h[i]
      BY <2>1 DEF Explained
    <3>3. i \in 2 .. Len(g) /\ {"SYN", "ACK"} \subseteq g[i] /\ i < Len(h) + 1
      BY <1>2, <1>3, <1>4, <3>2
    <3>4. QED
      BY <1>1, <1>4, <3>1, <3>3
  <2>2. CASE e.state = "ESTABLISHED"
    BY <1>2, <1>3, <2>2 DEF Explained
  <2>3. CASE e.state \in {"SYN_SENT", "FIN_WAIT"}
    BY <2>3 DEF After
  <2>4. QED
    BY <1>5, <2>1, <2>2, <2>3 DEF States
<1>9. QED
  BY <1>2, <1>6, <1>7, <1>8 DEF Explained, g

\* A packet of a flow makes, changes or ends the flow's entry, and no other.
LEMMA TrackStep == ASSUME WallInv, NEW q \in Queue, ProcessTcpPacket(q) PROVE WallInv'
<1> DEFINE p == inbox[q]
           f == p.flow
<1>0. p \in Packet /\ p # NoPacket
  BY DEF ProcessTcpPacket, WallInv, Types, InboxTypeOK, NoPacket, Packet
<1>1. /\ inbox' = [inbox EXCEPT ![q] = NoPacket]
      /\ UNCHANGED <<bucket, spent, first, latest, excused, now>>
  BY DEF ProcessTcpPacket, limiterVars
<1>2. /\ f \in Flow /\ p.flags \in FlagSet /\ p.stamp \in Nat /\ QueueOf[f] = q
      /\ newest[f] <= p.stamp /\ p.stamp <= now /\ now \in Nat
  BY <1>0 DEF Packet, WallInv, Types, InboxTypeOK, Queued
<1>3. InboxTypeOK' /\ \A r \in Queue : inbox'[r] = IF r = q THEN NoPacket ELSE inbox[r]
  BY <1>1 DEF WallInv, Types, InboxTypeOK
<1>4. Balanced' /\ LimiterTypeOK'
  BY <1>1 DEF WallInv, Types, Balanced, LimiterTypeOK
<1>5. /\ newest \in [Flow -> Nat] /\ history \in [Flow -> Seq(FlagSet)] /\ DOMAIN entry \subseteq Flow
      /\ \A x \in DOMAIN entry : /\ entry[x] \in Tracked /\ Explained(entry[x], history[x])
                                 /\ entry[x].seen = newest[x]
  BY DEF WallInv, Types, TrackTypeOK, Tracking
\* What each case makes of the table: the entries of other flows stay.
<1>6. ASSUME NEW e \in Tracked, NEW h \in Seq(FlagSet), entry' = Put(f, e), e.seen = p.stamp,
             history' = [history EXCEPT ![f] = h], newest' = [newest EXCEPT ![f] = p.stamp],
             Explained(e, h)
      PROVE  TrackTypeOK' /\ Tracking' /\ \A x \in Flow : newest'[x] = IF x = f THEN p.stamp ELSE newest[x]
  <2>1. /\ DOMAIN entry' = DOMAIN entry \union {f}
        /\ \A x \in DOMAIN entry' : entry'[x] = IF x = f THEN e ELSE entry[x]
        /\ entry' = [x \in DOMAIN entry' |-> entry'[x]]
    BY <1>6 DEF Put
  <2>2. /\ newest' \in [Flow -> Nat] /\ history' \in [Flow -> Seq(FlagSet)]
        /\ \A x \in Flow : /\ newest'[x] = IF x = f THEN p.stamp ELSE newest[x]
                           /\ history'[x] = IF x = f THEN h ELSE history[x]
    <3> HIDE DEF p, f
    <3>1. QED
      BY <1>2, <1>5, <1>6
  <2> HIDE DEF p, f
  <2>3. TrackTypeOK'
    BY <1>2, <1>5, <1>6, <2>1, <2>2 DEF TrackTypeOK
  <2>4. Tracking'
    <3>1. \A x \in DOMAIN entry' : Explained(entry'[x], history'[x]) /\ entry'[x].seen = newest'[x]
      BY <1>2, <1>5, <1>6, <2>1, <2>2
    <3>2. QED
      BY <3>1 DEF Tracking
  <2>5. QED
    BY <2>2, <2>3, <2>4
<1>7. TrackTypeOK' /\ Tracking' /\ \A x \in Flow : newest'[x] = newest[x] \/ (x = f /\ newest'[x] = p.stamp)
  <2>1. CASE f \notin DOMAIN entry /\ IsFirst(p.flags) /\ entry' # entry
    <3> DEFINE e == [state |-> "SYN_SENT", seen |-> p.stamp]
    <3>1. /\ entry' = Put(f, e) /\ history' = [history EXCEPT ![f] = <<p.flags>>]
          /\ newest' = [newest EXCEPT ![f] = p.stamp]
      BY <2>1 DEF ProcessTcpPacket, trackVars
    <3>2. e \in Tracked /\ e.seen = p.stamp /\ <<p.flags>> \in Seq(FlagSet) /\ e.state = "SYN_SENT"
      BY <1>2 DEF Tracked, States
    <3>3. Explained(e, <<p.flags>>)
      <4>1. Len(<<p.flags>>) > 0 /\ <<p.flags>>[1] = p.flags
        OBVIOUS
      <4>2. QED
        BY <2>1, <3>2, <4>1 DEF Explained
    <3> HIDE DEF e
    <3>4. QED
      BY <1>6, <3>1, <3>2, <3>3
  <2>2. CASE UNCHANGED trackVars
    BY <2>2 DEF trackVars, WallInv, Types, TrackTypeOK, Tracking
  <2>3. CASE f \in DOMAIN entry /\ "RST" \in p.flags
    <3>1. entry' = Without({f}) /\ UNCHANGED <<history, newest>>
      BY <2>3 DEF ProcessTcpPacket
    <3>2. /\ DOMAIN entry' = DOMAIN entry \ {f} /\ \A x \in DOMAIN entry' : entry'[x] = entry[x]
          /\ entry' = [x \in DOMAIN entry' |-> entry'[x]]
      BY <3>1 DEF Without
    <3>3. DOMAIN entry' \subseteq DOMAIN entry
      BY <3>2
    <3>4. TrackTypeOK'
      BY <1>5, <3>1, <3>2, <3>3 DEF TrackTypeOK
    <3>5. Tracking'
      BY <1>5, <3>1, <3>2, <3>3 DEF Tracking
    <3>6. QED
      BY <3>1, <3>4, <3>5
  <2>4. CASE f \in DOMAIN entry /\ "RST" \notin p.flags
    <3> DEFINE e == [state |-> After(entry[f].state, p.flags), seen |-> p.stamp]
    <3>1. /\ entry' = Put(f, e) /\ history' = [history EXCEPT ![f] = Append(@, p.flags)]
          /\ newest' = [newest EXCEPT ![f] = MaxOf(@, p.stamp)]
      BY <2>4 DEF ProcessTcpPacket
    <3>2. MaxOf(newest[f], p.stamp) = p.stamp
      BY <1>2, <1>5 DEF MaxOf
    <3>3. newest' = [newest EXCEPT ![f] = p.stamp] /\ history' = [history EXCEPT ![f] = Append(history[f], p.flags)]
      BY <3>1, <3>2
    <3>4. After(entry[f].state, p.flags) \in States /\ Explained(e, Append(history[f], p.flags))
      BY <1>2, <1>5, <2>4, Handshake
    <3>5. e \in Tracked /\ e.seen = p.stamp /\ Append(history[f], p.flags) \in Seq(FlagSet)
      BY <1>2, <1>5, <3>4 DEF Tracked
    <3> HIDE DEF e
    <3>6. QED
      BY <1>6, <3>1, <3>3, <3>4, <3>5
  <2>5. \/ f \notin DOMAIN entry /\ IsFirst(p.flags) /\ entry' = Put(f, [state |-> "SYN_SENT", seen |-> p.stamp])
        \/ UNCHANGED trackVars
        \/ f \in DOMAIN entry
    BY DEF ProcessTcpPacket
  <2>6. \A e : entry' = Put(f, e) => f \in DOMAIN entry'
    BY DEF Put
  <2>7. QED
    <3> HIDE DEF p, f
    <3>1. QED
      BY <2>1, <2>2, <2>3, <2>4, <2>5, <2>6
<1>8. Queued'
  <2>1. ASSUME NEW r \in Queue, inbox'[r] # NoPacket
        PROVE  /\ QueueOf[inbox'[r].flow] = r
               /\ newest'[inbox'[r].flow] <= inbox'[r].stamp /\ inbox'[r].stamp <= now'
    <3>1. r # q /\ inbox'[r] = inbox[r] /\ inbox[r] \in Packet
      BY <1>3, <2>1 DEF WallInv, Types, InboxTypeOK
    <3>2. QueueOf[inbox[r].flow] = r /\ inbox[r].flow \in Flow /\ inbox[r].flow # f
      BY <1>2, <2>1, <3>1 DEF WallInv, Queued, Packet
    <3>3. newest'[inbox[r].flow] = newest[inbox[r].flow]
      BY <1>7, <3>2
    <3>4. QED
      BY <1>1, <2>1, <3>1, <3>2, <3>3 DEF WallInv, Queued
  <2>2. \A x \in Flow : newest'[x] <= now'
    BY <1>1, <1>2, <1>7 DEF WallInv, Queued
  <2>3. QED
    BY <2>1, <2>2 DEF Queued
<1>9. QED
  BY <1>3, <1>4, <1>7, <1>8 DEF WallInv, Types

LEMMA CleanupStep == ASSUME WallInv, CleanupExpired PROVE WallInv'
<1>1. entry' = Without(Expired) /\ UNCHANGED <<bucket, spent, first, latest, excused, history, newest, inbox, now>>
  BY DEF CleanupExpired, limiterVars
<1>2. /\ DOMAIN entry' \subseteq DOMAIN entry /\ \A x \in DOMAIN entry' : entry'[x] = entry[x]
      /\ entry' = [x \in DOMAIN entry' |-> entry'[x]]
  BY <1>1 DEF Without
<1>3. Types' /\ Tracking'
  BY <1>1, <1>2 DEF WallInv, Types, InboxTypeOK, LimiterTypeOK, TrackTypeOK, Tracking
<1>4. Queued' /\ Balanced'
  BY <1>1 DEF WallInv, Queued, Balanced
<1>5. QED
  BY <1>3, <1>4 DEF WallInv

LEMMA WallSteps == WallInv /\ [FirewallNext]_firewallVars => WallInv'
<1> SUFFICES ASSUME WallInv, [FirewallNext]_firewallVars PROVE WallInv'
  OBVIOUS
<1>1. CASE UNCHANGED firewallVars
  BY <1>1 DEF firewallVars, limiterVars, trackVars, WallInv, Types, InboxTypeOK, LimiterTypeOK, TrackTypeOK,
              Queued, Balanced, Tracking
<1>2. ASSUME NEW f \in Tcp, NEW flags \in Flags, Arrive(f, flags) PROVE WallInv'
  BY <1>2, AreFlags, Sizes, ArriveStep
<1>3. ASSUME NEW f \in Other, Arrive(f, {}) PROVE WallInv'
  BY <1>3, AreFlags, ArriveStep DEF Flow
<1>4. QED
  BY <1>1, <1>2, <1>3, TickStep, AllowStep, TrackStep, CleanupStep DEF FirewallNext

LEMMA WallInvariant == FirewallSpec => []WallInv
BY WallInitial, WallSteps, PTL DEF FirewallSpec

--------------------------------------------------------------------------------
\* No interleaving of the queues lets more of a subnet through than its burst and
\* its rate allow, but for stamps of 0 and stamps that go back
\* (RateLimiter::AllowPacket).
THEOREM RatesAreKept == FirewallSpec => []AdmissionIsBounded
<1>1. WallInv => AdmissionIsBounded
  <2> SUFFICES ASSUME WallInv, NEW s \in Subnet \ excused
               PROVE  spent[s] <= Burst + Rate * (latest[s] - first[s])
    BY DEF AdmissionIsBounded
  <2>1. /\ spent[s] \in Int /\ bucket[s].tokens \in Int /\ first[s] \in Nat /\ latest[s] \in Nat
        /\ Burst \in Nat /\ Rate \in Nat
    BY Sizes DEF WallInv, Types, LimiterTypeOK, Bucket
  <2>2. Rate * (latest[s] - first[s]) \in Int
    BY <2>1
  <2>3. CASE bucket[s].last = 0 /\ spent[s] = 0 /\ first[s] = 0 /\ latest[s] = 0
    BY <2>1, <2>3
  <2>4. CASE /\ 0 <= bucket[s].tokens
             /\ spent[s] + bucket[s].tokens <= Burst + Rate * (latest[s] - first[s])
    BY <2>1, <2>2, <2>4
  <2>5. QED
    BY <2>3, <2>4 DEF WallInv, Balanced
<1>2. QED
  BY <1>1, WallInvariant, PTL

\* A connection is established only by the handshake of its own flow since its
\* entry was made (ConntrackTable::ProcessTcpPacket).
THEOREM HandshakesEstablish == FirewallSpec => []EstablishedByHandshake
<1>1. WallInv => EstablishedByHandshake
  BY DEF WallInv, Tracking, Explained, EstablishedByHandshake
<1>2. QED
  BY <1>1, WallInvariant, PTL

\* No entry goes while its flow is heard within the timeout, unless by a RST
\* (ConntrackTable::CleanupExpired).
THEOREM LiveConnectionsStay == FirewallSpec => LiveConnectionsSurvive
<1> DEFINE Ends(f) == \/ now > newest[f] + Timeout
                      \/ \E q \in Queue : inbox[q].step = "track" /\ inbox[q].flow = f
                                          /\ "RST" \in inbox[q].flags /\ inbox'[q] = NoPacket
<1>1. WallInv /\ [FirewallNext]_firewallVars => \A f \in DOMAIN entry \ DOMAIN entry' : Ends(f)
  <2> SUFFICES ASSUME WallInv, [FirewallNext]_firewallVars, NEW f \in DOMAIN entry \ DOMAIN entry'
               PROVE  Ends(f)
    OBVIOUS
  <2>1. entry' # entry
    OBVIOUS
  <2>2. CASE CleanupExpired
    <3>1. f \in Expired
      BY <2>2 DEF CleanupExpired, Without
    <3>2. now > (entry[f].seen + Timeout) % Width /\ entry[f].seen = newest[f]
      BY <3>1 DEF Expired, WallInv, Tracking
    <3>3. newest[f] \in Nat /\ newest[f] <= now /\ now \in 0 .. MaxTime
      BY DEF WallInv, Types, InboxTypeOK, TrackTypeOK, Queued
    <3>4. newest[f] + Timeout \in 0 .. Width - 1 /\ Width \in Nat \ {0}
      BY <3>3, Sizes
    <3>5. \A d \in 0 .. Width - 1 : d % Width = d
      BY <3>4
    <3>6. QED
      BY <3>2, <3>4, <3>5
  <2>3. ASSUME NEW q \in Queue, ProcessTcpPacket(q) PROVE Ends(f)
    <3>1. inbox[q].step = "track" /\ inbox' = [inbox EXCEPT ![q] = NoPacket]
      BY <2>3 DEF ProcessTcpPacket
    <3>2. inbox'[q] = NoPacket
      BY <3>1 DEF WallInv, Types, InboxTypeOK
    <3>3. inbox[q].flow = f /\ "RST" \in inbox[q].flags
      BY <2>1, <2>3 DEF ProcessTcpPacket, Put, Without, trackVars
    <3>4. QED
      BY <3>1, <3>2, <3>3
  <2>4. QED
    BY <2>1, <2>2, <2>3 DEF FirewallNext, firewallVars, Tick, Arrive, AllowPacket, trackVars
<1>2. QED
  BY <1>1, WallInvariant, PTL DEF FirewallSpec, LiveConnectionsSurvive

--------------------------------------------------------------------------------
(* The QUIC engine: functions defined step by step. *)

\* A set of numbers has a least one.
LEMMA LeastIs ==
  ASSUME NEW S \in SUBSET Nat, S # {}
  PROVE  Min(S) \in S /\ Min(S) \in Nat /\ \A n \in S : Min(S) <= n
<1> DEFINE R == OpToRel(<, Nat)
<1>1. IsWellFoundedOn(R, Nat)
  BY NatLessThanWellFounded
<1>2. \A m, n \in Nat : m < n => <<m, n>> \in R
  BY DEF OpToRel
<1> HIDE DEF R
<1>3. PICK n \in S : \A m \in S : <<m, n>> \notin R
  <2>1. S \subseteq Nat
    OBVIOUS
  <2>2. QED
    BY <1>1, <2>1, WFMin
<1>4. \A m \in S : m \in Nat /\ n \in Nat /\ ~(m < n)
  BY <1>2, <1>3
<1>5. n \in S /\ n \in Nat /\ \A m \in S : n <= m
  BY <1>3, <1>4
<1>6. QED
  BY <1>5 DEF Min

\* What holds of 0, and of a position if of the one before it, holds of all.
LEMMA UpTo ==
  ASSUME NEW n \in Nat, NEW P, 0 \in P, \A i \in 1 .. n : i - 1 \in P => i \in P
  PROVE  \A i \in 0 .. n : i \in P
<1> SUFFICES ASSUME NEW k \in 0 .. n, k \notin P PROVE FALSE
  OBVIOUS
<1> DEFINE S == {i \in 0 .. n : i \notin P}
<1>1. S \in SUBSET Nat /\ S # {}
  OBVIOUS
<1>2. Min(S) \in S /\ \A i \in S : Min(S) <= i
  BY <1>1, LeastIs
<1>3. PICK m : m = Min(S)
  OBVIOUS
<1>4. m \in 0 .. n /\ m \notin P /\ \A i \in 0 .. n : i \notin P => m <= i
  BY <1>2, <1>3
<1>5. m # 0
  BY <1>4
<1>6. m \in 1 .. n /\ m - 1 \in 0 .. n /\ ~(m <= m - 1)
  BY <1>4, <1>5
<1>7. QED
  BY <1>4, <1>6

\* g makes each value from the one before it, beginning with base.
Steps(n, X, base, step) == n \in Nat /\ base \in X /\ step \in [1 .. n -> [X -> X]]
Stepwise(n, base, step, g) == g[0] = base /\ \A i \in 1 .. n : g[i] = step[i][g[i - 1]]

\* Such a function is there, as the recursive definitions of the model assume.
LEMMA StepwiseExists ==
  ASSUME NEW n, NEW X, NEW base, NEW step, Steps(n, X, base, step)
  PROVE  \E g : g \in [0 .. n -> X] /\ Stepwise(n, base, step, g)
<1> USE DEF Steps
<1> DEFINE Up(m) == \E g \in [0 .. n -> X] : g[0] = base /\ \A i \in 1 .. n : i <= m => g[i] = step[i][g[i - 1]]
           P == {m \in 0 .. n : Up(m)}
<1>1. 0 \in P
  <2> DEFINE g == [i \in 0 .. n |-> base]
  <2>1. g \in [0 .. n -> X] /\ g[0] = base /\ \A i \in 1 .. n : ~(i <= 0)
    OBVIOUS
  <2> HIDE DEF g
  <2>2. Up(0) /\ 0 \in 0 .. n
    BY <2>1
  <2> HIDE DEF Up
  <2>3. QED
    BY <2>2
<1>2. ASSUME NEW m \in 1 .. n, m - 1 \in P PROVE m \in P
  <2>1. Up(m - 1)
    BY <1>2
  <2>2. PICK g \in [0 .. n -> X] : g[0] = base /\ \A i \in 1 .. n : i <= m - 1 => g[i] = step[i][g[i - 1]]
    BY <2>1
  <2> DEFINE v == step[m][g[m - 1]]
             h == [g EXCEPT ![m] = v]
  <2>3. m - 1 \in 0 .. n /\ m \in 0 .. n /\ m # 0 /\ v \in X
    OBVIOUS
  <2> HIDE DEF v
  <2>4. h \in [0 .. n -> X] /\ \A i \in 0 .. n : h[i] = IF i = m THEN v ELSE g[i]
    BY <2>3
  <2> HIDE DEF h
  <2>5. ASSUME NEW i \in 1 .. n, i <= m PROVE h[i] = step[i][h[i - 1]]
    <3>1. i \in 0 .. n /\ i - 1 \in 0 .. n /\ i - 1 # m /\ i \in Int /\ m \in Int
      BY <2>5
    <3>2. h[i - 1] = g[i - 1]
      BY <2>4, <3>1
    <3>3. CASE i = m
      BY <2>4, <3>1, <3>2, <3>3 DEF v
    <3>4. CASE i # m
      <4>1. i <= m - 1 /\ h[i] = g[i]
        BY <2>4, <2>5, <3>1, <3>4
      <4>2. QED
        BY <2>2, <3>2, <4>1
    <3>5. QED
      BY <3>3, <3>4
  <2>6. h[0] = base
    BY <2>2, <2>3, <2>4
  <2>7. Up(m)
    BY <2>4, <2>5, <2>6
  <2> HIDE DEF Up
  <2>8. QED
    BY <2>3, <2>7
<1> HIDE DEF P
<1>3. n \in P
  <2>1. \A i \in 0 .. n : i \in P
    BY <1>1, <1>2, UpTo
  <2>2. QED
    BY <2>1
<1>4. Up(n)
  BY <1>3 DEF P
<1>5. QED
  BY <1>4 DEF Stepwise

--------------------------------------------------------------------------------
(* Variable-length integers. *)

\* Shifting a byte at a time: what the recursion of Shifted comes to.
LEMMA ShiftedIs ==
  ASSUME NEW v \in Nat
  PROVE  /\ Shifted(v, 0) = v
         /\ \A k \in 1 .. 7 : Shifted(v, k) = Shifted(v, k - 1) \div 256
         /\ \A k \in 0 .. 7 : Shifted(v, k) \in Nat
<1> DEFINE IsShift(c) == c = [i \in 0 .. 7 |-> IF i = 0 THEN v ELSE c[i - 1] \div 256]
           step == [i \in 1 .. 7 |-> [n \in Nat |-> n \div 256]]
<1>1. \A n \in Nat : n \div 256 \in Nat
  OBVIOUS
<1>2. step \in [1 .. 7 -> [Nat -> Nat]] /\ \A i \in 1 .. 7, n \in Nat : step[i][n] = n \div 256
  BY <1>1
<1>3. \A k : Shifted(v, k) = (CHOOSE c : IsShift(c))[k]
  BY DEF Shifted
<1> HIDE DEF step
<1>4. PICK g : g \in [0 .. 7 -> Nat] /\ Stepwise(7, v, step, g)
  <2>1. Steps(7, Nat, v, step)
    BY <1>2 DEF Steps
  <2>2. QED
    BY <2>1, StepwiseExists
<1>5. \A i \in 0 .. 7 : i # 0 => i \in 1 .. 7 /\ i - 1 \in 0 .. 7
  OBVIOUS
<1>6. IsShift(g)
  <2>0. \A i \in 0 .. 7 : i # 0 => g[i - 1] \in Nat /\ step[i][g[i - 1]] = g[i - 1] \div 256
    BY ZenonT(40), <1>2, <1>4, <1>5
  <2>1. \A i \in 0 .. 7 : g[i] = IF i = 0 THEN v ELSE g[i - 1] \div 256
    BY <1>4, <1>5, <2>0 DEF Stepwise
  <2>2. QED
    BY <1>4, <2>1
<1>7. PICK c : IsShift(c) /\ \A k : Shifted(v, k) = c[k]
  <2> HIDE DEF IsShift
  <2>1. QED
    BY <1>3, <1>6
<1>8. c[0] = v /\ \A k \in 1 .. 7 : c[k] = c[k - 1] \div 256
  BY <1>7
<1> DEFINE P == {k \in 0 .. 7 : c[k] \in Nat}
<1>9. \A k \in 0 .. 7 : k \in P
  <2>1. 0 \in P
    BY <1>8
  <2>2. ASSUME NEW k \in 1 .. 7, k - 1 \in P PROVE k \in P
    BY <1>1, <1>8, <2>2
  <2> HIDE DEF P
  <2>3. QED
    BY <2>1, <2>2, UpTo
<1>10. \A k \in 0 .. 7 : c[k] \in Nat
  BY <1>9
<1> HIDE DEF IsShift
<1>11. QED
  BY <1>7, <1>8, <1>10

\* An encoded integer has 1, 2, 4 or 8 bytes, enough for it.
LEMMA LengthIs ==
  ASSUME NEW v \in Nat
  PROVE  /\ EncodedLength(v) \in {1, 2, 4, 8}
         /\ v <= 63 => EncodedLength(v) = 1
         /\ EncodedLength(v) # 8 => Shifted(v, EncodedLength(v) - 1) <= 63
<1> DEFINE a == v \div 256
           b == a \div 256
           c == b \div 256
<1>1. Shifted(v, 0) = v /\ Shifted(v, 1) = a /\ Shifted(v, 2) = b /\ Shifted(v, 3) = c
  <2>1. \A k \in 1 .. 7 : Shifted(v, k) = Shifted(v, k - 1) \div 256
    BY ShiftedIs
  <2>2. Shifted(v, 0) = v /\ Shifted(v, 1) = Shifted(v, 1 - 1) \div 256
        /\ Shifted(v, 2) = Shifted(v, 2 - 1) \div 256 /\ Shifted(v, 3) = Shifted(v, 3 - 1) \div 256
    BY <2>1, ShiftedIs
  <2>3. QED
    BY <2>2
<1>2. v <= 16383 => a <= 63
  OBVIOUS
<1>3. v <= 1073741823 => c <= 63
  BY SMT
<1> HIDE DEF a, b, c
<1>4. \/ v <= 63 /\ EncodedLength(v) = 1
      \/ v > 63 /\ v <= 16383 /\ EncodedLength(v) = 2
      \/ v > 63 /\ c <= 63 /\ EncodedLength(v) = 4
      \/ v > 63 /\ EncodedLength(v) = 8
  BY <1>3, SMT DEF EncodedLength
<1>5. QED
  BY <1>1, <1>2, <1>4, SMT

\* The two bits that say the length.
LEMMA PrefixIs ==
  ASSUME NEW len \in {1, 2, 4, 8}
  PROVE  Prefix(len) \in 0 .. 3 /\ Lengths[Prefix(len) + 1] = len
<1>1. Lengths[0 + 1] = 1 /\ Lengths[1 + 1] = 2 /\ Lengths[2 + 1] = 4 /\ Lengths[3 + 1] = 8
  BY DEF Lengths
<1>2. \E p \in 0 .. 3 : Lengths[p + 1] = len
  BY <1>1
<1>3. QED
  BY <1>2 DEF Prefix

\* The integers that eight bytes can hold.
Fits(v) == v \in Nat /\ Shifted(v, 7) <= 63

\* Encode, byte by byte.
LEMMA EncodeIs ==
  ASSUME NEW v \in Nat
  PROVE  /\ Encode(v) \in Seq(Nat) /\ Len(Encode(v)) = EncodedLength(v)
         /\ Lengths[1 + Encode(v)[1] \div 64] = EncodedLength(v)
         /\ Encode(v)[1] % 64 = Shifted(v, EncodedLength(v) - 1) % 64
         /\ \A i \in 2 .. EncodedLength(v) : Encode(v)[i] = Shifted(v, EncodedLength(v) - i) % 256
<1> DEFINE len == EncodedLength(v)
           byte(i) == IF i = 1 THEN Prefix(len) * 64 + (Shifted(v, len - 1) % 64) ELSE Shifted(v, len - i) % 256
<1>1. len \in {1, 2, 4, 8}
  BY LengthIs
<1>2. Prefix(len) \in 0 .. 3 /\ Lengths[Prefix(len) + 1] = len
  BY <1>1, PrefixIs
<1>3. Encode(v) = [i \in 1 .. len |-> byte(i)]
  BY DEF Encode
<1> HIDE DEF len
<1>4. \A k \in 0 .. 7 : Shifted(v, k) \in Nat
  BY ShiftedIs
<1>5. \A i \in 1 .. len : len - i \in 0 .. 7 /\ Shifted(v, len - i) \in Nat
  BY <1>1, <1>4
<1>6. \A i \in 1 .. len : byte(i) \in Nat
  BY <1>2, <1>5
<1>7. 1 \in 1 .. len /\ byte(1) = Prefix(len) * 64 + (Shifted(v, len - 1) % 64) /\ Shifted(v, len - 1) % 64 \in 0 .. 63
  <2>1. 1 \in 1 .. len
    BY <1>1
  <2>2. Shifted(v, len - 1) \in Nat
    BY <1>5, <2>1
  <2>3. Shifted(v, len - 1) % 64 \in 0 .. 63
    BY <2>2
  <2>4. QED
    BY <2>1, <2>3
<1>8. byte(1) \div 64 = Prefix(len) /\ byte(1) % 64 = Shifted(v, len - 1) % 64
  BY <1>2, <1>7
<1> HIDE DEF byte
<1>9. Encode(v) \in Seq(Nat) /\ Len(Encode(v)) = len
  BY <1>1, <1>3, <1>6
<1>10. Lengths[1 + Encode(v)[1] \div 64] = len /\ Encode(v)[1] % 64 = Shifted(v, len - 1) % 64
  <2>1. 1 + Prefix(len) = Prefix(len) + 1
    BY <1>2
  <2>2. QED
    BY <1>2, <1>3, <1>7, <1>8, <2>1
<1>11. \A i \in 2 .. len : Encode(v)[i] = Shifted(v, len - i) % 256
  <2>1. \A i \in 2 .. len : i \in 1 .. len /\ i # 1
    BY <1>1
  <2>2. QED
    BY <1>3, <2>1 DEF byte
<1>12. QED
  BY <1>9, <1>10, <1>11 DEF len

LEMMA EncodeType ==
  ASSUME NEW v \in Nat
  PROVE  Encode(v) \in Seq(Nat) /\ Len(Encode(v)) = EncodedLength(v) /\ EncodedLength(v) \in {1, 2, 4, 8}
<1>1. EncodedLength(v) \in {1, 2, 4, 8}
  BY LengthIs
<1>2. QED
  BY <1>1, EncodeIs

LEMMA EncodePrefix == ASSUME NEW v \in Nat PROVE Lengths[1 + Encode(v)[1] \div 64] = EncodedLength(v)
BY EncodeIs

\* What is decoded at the head of anything that begins with an encoded integer.
LEMMA DecodeLength ==
  ASSUME NEW v \in Nat, NEW rest \in Seq(Nat)
  PROVE  Decode(Encode(v) \o rest) # None /\ Decode(Encode(v) \o rest)[2] = EncodedLength(v)
<1> DEFINE src == Encode(v) \o rest
           len == EncodedLength(v)
<1>1. Encode(v) \in Seq(Nat) /\ Len(Encode(v)) = len /\ len \in {1, 2, 4, 8} /\ Len(rest) \in Nat
  <2>1. Encode(v) \in Seq(Nat) /\ Len(Encode(v)) = len /\ len \in {1, 2, 4, 8}
    BY EncodeType
  <2>2. Len(rest) \in Nat
    OBVIOUS
  <2>3. QED
    BY <2>1, <2>2
<1>2. src \in Seq(Nat) /\ Len(src) = len + Len(rest) /\ src[1] = Encode(v)[1]
  BY <1>1
<1>3. src # <<>> /\ ~(Len(src) < len) /\ Lengths[1 + src[1] \div 64] = len
  <2>1. Lengths[1 + src[1] \div 64] = len
    BY <1>2, EncodePrefix
  <2>2. Len(src) # 0 /\ ~(Len(src) < len)
    BY <1>1, <1>2
  <2>3. QED
    BY <2>1, <2>2
<1> HIDE DEF src, len
<1>4. \E x : Decode(src) = <<x, len>>
  BY <1>3 DEF Decode
<1>5. QED
  BY <1>4 DEF None, src, len

\* What VarInt::Encode writes of any integer of 62 bits, VarInt::Decode reads back,
\* whatever bytes follow, and takes as many bytes as were written.
THEOREM VarIntsRoundTrip ==
  ASSUME NEW v, Fits(v), NEW rest \in Seq(Nat)
  PROVE  Decode(Encode(v) \o rest) = <<v, EncodedLength(v)>>
<1> DEFINE src == Encode(v) \o rest
           len == EncodedLength(v)
           N == len - 1
           IsVal(c) == c = [i \in 0 .. len - 1 |-> IF i = 0 THEN src[1] % 64 ELSE c[i - 1] * 256 + src[i + 1]]
<1>1. /\ Encode(v) \in Seq(Nat) /\ Len(Encode(v)) = len /\ len \in {1, 2, 4, 8} /\ Len(rest) \in Nat
      /\ v \in Nat /\ N \in Nat
  <2>1. v \in Nat
    BY DEF Fits
  <2>2. Encode(v) \in Seq(Nat) /\ Len(Encode(v)) = len /\ len \in {1, 2, 4, 8}
    BY <2>1, EncodeType
  <2>3. QED
    BY <2>1, <2>2
<1>2. src \in Seq(Nat) /\ Len(src) = len + Len(rest) /\ \A i \in 1 .. len : src[i] = Encode(v)[i]
  BY <1>1
<1>3. src # <<>> /\ ~(Len(src) < len) /\ Lengths[1 + src[1] \div 64] = len
  <2>1. 1 \in 1 .. len /\ Lengths[1 + Encode(v)[1] \div 64] = len
    BY <1>1, EncodePrefix
  <2> HIDE DEF src, len
  <2>2. Lengths[1 + src[1] \div 64] = len
    BY <1>2, <2>1
  <2>3. Len(src) # 0 /\ ~(Len(src) < len)
    BY <1>1, <1>2
  <2>4. QED
    BY <2>2, <2>3
<1>4. Shifted(v, N) <= 63 /\ Shifted(v, N) \in Nat
  <2>1. N \in 0 .. 7 /\ (len = 8 => N = 7)
    BY <1>1
  <2>2. Shifted(v, N) \in Nat
    BY <1>1, <2>1, ShiftedIs
  <2>3. CASE len = 8
    BY <2>1, <2>2, <2>3 DEF Fits
  <2>4. CASE len # 8
    BY <1>1, <2>2, <2>4, LengthIs
  <2>5. QED
    BY <2>3, <2>4
<1>5. src[1] % 64 = Shifted(v, N)
  <2>1. Encode(v)[1] % 64 = Shifted(v, N) % 64
    BY ZenonT(40), <1>1, EncodeIs
  <2>2. Shifted(v, N) % 64 = Shifted(v, N)
    BY SMTT(20), <1>4
  <2>3. QED
    BY <1>1, <1>2, <2>1, <2>2
<1>6. \A i \in 1 .. N : src[i + 1] = Shifted(v, N - i) % 256
  <2> TAKE i \in 1 .. N
  <2>1. i + 1 \in 2 .. len /\ i + 1 \in 1 .. len /\ len - (i + 1) = N - i
    BY <1>1
  <2>2. Encode(v)[i + 1] = Shifted(v, len - (i + 1)) % 256
    <3>1. \A j \in 2 .. len : Encode(v)[j] = Shifted(v, len - j) % 256
      BY ZenonT(40), <1>1, EncodeIs
    <3> HIDE DEF N, len
    <3>2. QED
      BY <2>1, <3>1
  <2>3. QED
    BY <1>2, <2>1, <2>2
<1>7. \A i \in 1 .. N : Shifted(v, N - i) = Shifted(v, N - (i - 1)) * 256 + (Shifted(v, N - i) % 256)
  <2> TAKE i \in 1 .. N
  <2>0. N \in 0 .. 7
    BY <1>1
  <2> HIDE DEF N
  <2>1. PICK k \in 1 .. 7 : k = N - (i - 1) /\ k - 1 = N - i /\ k - 1 \in 0 .. 7
    BY <2>0
  <2>2. Shifted(v, k) = Shifted(v, k - 1) \div 256 /\ Shifted(v, k - 1) \in Nat
    <3>1. \A j \in 1 .. 7 : Shifted(v, j) = Shifted(v, j - 1) \div 256
      BY <1>1, ShiftedIs
    <3>2. \A j \in 0 .. 7 : Shifted(v, j) \in Nat
      BY <1>1, ShiftedIs
    <3>3. QED
      BY <2>1, <3>1, <3>2
  <2>3. Shifted(v, k - 1) = Shifted(v, k) * 256 + (Shifted(v, k - 1) % 256)
    BY <2>2
  <2>4. QED
    BY <2>1, <2>3
<1> DEFINE g == [i \in 0 .. N |-> Shifted(v, N - i)]
<1>8. IsVal(g)
  <2>1. \A i \in 0 .. N : i # 0 => i \in 1 .. N /\ i - 1 \in 0 .. N
    BY <1>1
  <2>2. ASSUME NEW i \in 0 .. N PROVE g[i] = IF i = 0 THEN src[1] % 64 ELSE g[i - 1] * 256 + src[i + 1]
    <3>1. CASE i = 0
      <4>1. N - 0 = N
        BY <1>1
      <4> HIDE DEF N
      <4>2. QED
        BY <1>5, <3>1, <4>1
    <3>2. CASE i # 0
      <4>1. i \in 1 .. N /\ i - 1 \in 0 .. N
        BY <2>1, <3>2
      <4>2. g[i] = Shifted(v, N - i) /\ g[i - 1] = Shifted(v, N - (i - 1))
        BY <4>1
      <4> HIDE DEF N, src, g
      <4>3. Shifted(v, N - i) = Shifted(v, N - (i - 1)) * 256 + src[i + 1]
        BY <1>6, <1>7, <4>1
      <4>4. QED
        BY <3>2, <4>2, <4>3
    <3>3. QED
      BY <3>1, <3>2
  <2> HIDE DEF src
  <2>3. QED
    BY <2>2
<1>9. ASSUME NEW c, IsVal(c) PROVE c[N] = v
  <2> DEFINE P == {i \in 0 .. N : c[i] = g[i]}
  <2>1. \A i \in 0 .. N : i # 0 => i \in 1 .. N /\ i - 1 \in 0 .. N
    BY <1>1
  <2>2. 0 \in P
    <3>1. 0 \in 0 .. N /\ 0 \in 0 .. len - 1
      BY <1>1
    <3> HIDE DEF src, g, len
    <3>2. QED
      BY <1>8, <1>9, <3>1
  <2>3. ASSUME NEW i \in 1 .. N, i - 1 \in P PROVE i \in P
    <3>1. i \in 0 .. N /\ i \in 0 .. len - 1 /\ i # 0 /\ c[i - 1] = g[i - 1]
      BY <1>1, <2>3
    <3> HIDE DEF src, g, len
    <3>2. c[i] = c[i - 1] * 256 + src[i + 1] /\ g[i] = g[i - 1] * 256 + src[i + 1]
      BY <1>8, <1>9, <3>1
    <3>3. QED
      BY <3>1, <3>2
  <2> HIDE DEF P
  <2>4. N \in P
    <3>1. \A i \in 0 .. N : i \in P
      BY <1>1, <2>2, <2>3, UpTo
    <3>2. N \in 0 .. N
      BY <1>1
    <3>3. QED
      BY <3>1, <3>2
  <2>5. c[N] = g[N] /\ N \in 0 .. N /\ N - N = 0
    BY <1>1, <2>4 DEF P
  <2>6. g[N] = Shifted(v, 0)
    BY <2>5
  <2>7. QED
    BY <1>1, <2>5, <2>6, ShiftedIs
<1>10. (CHOOSE c : IsVal(c))[N] = v
  <2> HIDE DEF IsVal, g, N
  <2>1. QED
    BY <1>8, <1>9
<1>11. Decode(src) = <<(CHOOSE c : IsVal(c))[N], len>>
  <2> HIDE DEF src, len
  <2>1. QED
    BY <1>3 DEF Decode
<1>12. QED
  BY <1>10, <1>11

\* Without its last byte an integer cannot be decoded.
LEMMA DecodeCut ==
  ASSUME NEW v \in Nat
  PROVE  Decode(SubSeq(Encode(v), 1, EncodedLength(v) - 1)) = None
<1> DEFINE len == EncodedLength(v)
           src == SubSeq(Encode(v), 1, len - 1)
<1>1. Encode(v) \in Seq(Nat) /\ Len(Encode(v)) = len /\ len \in {1, 2, 4, 8}
  BY EncodeType
<1>2. CASE len = 1
  <2>1. src = <<>>
    BY <1>1, <1>2
  <2>2. QED
    BY <2>1 DEF Decode
<1>3. CASE len # 1
  <2>1. src \in Seq(Nat) /\ Len(src) = len - 1 /\ src[1] = Encode(v)[1]
    BY <1>1, <1>3
  <2>2. Lengths[1 + src[1] \div 64] = len
    BY <2>1, EncodePrefix
  <2>3. Len(src) < Lengths[1 + src[1] \div 64]
    BY <1>1, <2>1, <2>2
  <2> HIDE DEF src
  <2>4. QED
    BY <2>3 DEF Decode, src
<1>4. QED
  BY <1>2, <1>3

\* Frame types and small limits are one byte.
LEMMA SmallFits == ASSUME NEW v \in 0 .. 63 PROVE Fits(v) /\ EncodedLength(v) = 1
<1>1. \A k \in 1 .. 7 : Shifted(v, k) = Shifted(v, k - 1) \div 256
  BY ShiftedIs
<1>2. Shifted(v, 0) = v
  BY ShiftedIs
<1> DEFINE P == {k \in 0 .. 7 : Shifted(v, k) \in 0 .. 63}
<1>3. \A k \in 0 .. 7 : k \in P
  <2>1. 0 \in P
    BY <1>2
  <2>2. ASSUME NEW k \in 1 .. 7, k - 1 \in P PROVE k \in P
    <3>1. \A n \in 0 .. 63 : n \div 256 \in 0 .. 63
      OBVIOUS
    <3>2. QED
      BY <1>1, <2>2, <3>1
  <2> HIDE DEF P
  <2>3. QED
    BY <2>1, <2>2, UpTo
<1>4. Shifted(v, 7) <= 63
  BY <1>3
<1>5. QED
  BY <1>4, LengthIs DEF Fits

--------------------------------------------------------------------------------
(* Parsing. *)

\* Lemmas about sequences of bytes and what is left of them.
LEMMA CatType ==
  ASSUME NEW a \in Seq(Nat), NEW b \in Seq(Nat)
  PROVE  a \o b \in Seq(Nat) /\ Len(a \o b) = Len(a) + Len(b) /\ Len(a) \in Nat /\ Len(b) \in Nat
BY ConcatProperties

LEMMA SubCat ==
  ASSUME NEW a \in Seq(Nat), NEW b \in Seq(Nat), NEW n \in 0 .. Len(b)
  PROVE  SubSeq(a \o b, Len(a) + 1, Len(a) + n) = SubSeq(b, 1, n)
<1> DEFINE x == SubSeq(a \o b, Len(a) + 1, Len(a) + n)
           y == SubSeq(b, 1, n)
<1>1. a \o b \in Seq(Nat) /\ Len(a \o b) = Len(a) + Len(b) /\ Len(a) \in Nat /\ Len(b) \in Nat /\ n \in Nat
  BY CatType
<1>2. \A i \in 1 .. n : (a \o b)[Len(a) + i] = b[i] /\ b[i] \in Nat
  <2> TAKE i \in 1 .. n
  <2>1. Len(a) + i \in 1 .. Len(a) + Len(b) /\ ~(Len(a) + i <= Len(a)) /\ Len(a) + i - Len(a) = i /\ i \in 1 .. Len(b)
    BY <1>1
  <2>2. QED
    BY <2>1, ConcatProperties
<1>3. x = [i \in 1 .. n |-> (a \o b)[Len(a) + i]]
  BY <1>1
<1>4. y = [i \in 1 .. n |-> b[i]]
  BY <1>1
<1>5. QED
  BY <1>2, <1>3, <1>4

LEMMA FromCat ==
  ASSUME NEW a \in Seq(Nat), NEW b \in Seq(Nat)
  PROVE  From(a \o b, Len(a)) = b
<1>1. Len(a \o b) = Len(a) + Len(b) /\ Len(b) \in 0 .. Len(b)
  BY CatType
<1>2. SubSeq(a \o b, Len(a) + 1, Len(a) + Len(b)) = SubSeq(b, 1, Len(b))
  BY <1>1, SubCat
<1>3. SubSeq(b, 1, Len(b)) = b
  BY SubSeqFull
<1>4. QED
  BY <1>1, <1>2, <1>3 DEF From

LEMMA Regroup ==
  ASSUME NEW a \in Seq(Nat), NEW b \in Seq(Nat), NEW c \in Seq(Nat)
  PROVE  (a \o b) \o c = a \o (b \o c)
BY ConcatAssociative

\* What a STREAM frame with these type bits begins with.
OffBit(bits) == (bits \div 4) % 2 = 1
LenBit(bits) == (bits \div 2) % 2 = 1
OffField(bits, from) == IF OffBit(bits) THEN Encode(from) ELSE <<>>
LenField(bits, n) == IF LenBit(bits) THEN Encode(n) ELSE <<>>
UpToOff(bits, sid, from) == (Encode(8 + bits) \o Encode(sid)) \o OffField(bits, from)
Header(bits, sid, from, n) == UpToOff(bits, sid, from) \o LenField(bits, n)

\* The fields are bytes, as many as their values ask for.
LEMMA HeaderTypes ==
  ASSUME NEW bits \in 0 .. 7, NEW sid, Fits(sid), NEW from, Fits(from), NEW n, Fits(n)
  PROVE  /\ Encode(8 + bits) \in Seq(Nat) /\ Len(Encode(8 + bits)) = 1
         /\ Encode(sid) \in Seq(Nat) /\ Len(Encode(sid)) = EncodedLength(sid)
         /\ OffField(bits, from) \in Seq(Nat) /\ LenField(bits, n) \in Seq(Nat)
         /\ UpToOff(bits, sid, from) \in Seq(Nat) /\ Header(bits, sid, from, n) \in Seq(Nat)
<1>1. 8 + bits \in 0 .. 63 /\ 8 + bits \in Nat
  OBVIOUS
<1>2. Encode(8 + bits) \in Seq(Nat) /\ Len(Encode(8 + bits)) = 1
  BY <1>1, EncodeType, SmallFits
<1>3. \A v : Fits(v) => Encode(v) \in Seq(Nat) /\ Len(Encode(v)) = EncodedLength(v)
  BY EncodeType DEF Fits
<1>4. <<>> \in Seq(Nat)
  OBVIOUS
<1>5. OffField(bits, from) \in Seq(Nat) /\ LenField(bits, n) \in Seq(Nat)
  BY <1>3, <1>4 DEF OffField, LenField
<1>6. UpToOff(bits, sid, from) \in Seq(Nat)
  BY <1>2, <1>3, <1>5, CatType DEF UpToOff
<1>7. QED
  BY <1>2, <1>3, <1>5, <1>6, CatType DEF Header

\* The first field of a frame says that it is a STREAM frame.
LEMMA StreamType ==
  ASSUME NEW bits \in 0 .. 7, NEW rest \in Seq(Nat)
  PROVE  ParseFrame(Encode(8 + bits) \o rest) = ParseStream(Encode(8 + bits) \o rest, bits, 1)
<1>1. 8 + bits \in 0 .. 63 /\ 8 + bits \in 8 .. 15 /\ (8 + bits) - 8 = bits
  OBVIOUS
<1>2. Decode(Encode(8 + bits) \o rest) = <<8 + bits, 1>>
  <2>1. PICK v \in 0 .. 63 : v = 8 + bits
    BY <1>1
  <2>2. Decode(Encode(v) \o rest) = <<v, EncodedLength(v)>> /\ EncodedLength(v) = 1
    BY SmallFits, VarIntsRoundTrip
  <2>3. QED
    BY <2>1, <2>2
<1>3. <<8 + bits, 1>> # None /\ <<8 + bits, 1>>[1] = 8 + bits /\ <<8 + bits, 1>>[2] = 1
  BY DEF None
<1>4. QED
  BY <1>1, <1>2, <1>3 DEF ParseFrame

\* An integer in the middle of a packet.
LEMMA DecodeAt ==
  ASSUME NEW a \in Seq(Nat), NEW v, Fits(v), NEW rest \in Seq(Nat)
  PROVE  Decode(From(a \o (Encode(v) \o rest), Len(a))) = <<v, EncodedLength(v)>>
<1>1. Encode(v) \in Seq(Nat)
  BY EncodeType DEF Fits
<1>2. Encode(v) \o rest \in Seq(Nat)
  BY <1>1, CatType
<1>3. From(a \o (Encode(v) \o rest), Len(a)) = Encode(v) \o rest
  BY <1>2, FromCat
<1>4. QED
  BY <1>3, VarIntsRoundTrip

\* What the parser makes of the fields of a STREAM frame.
SidAt(buffer) == Decode(From(buffer, 1))
LEMMA SidIs ==
  ASSUME NEW bits \in 0 .. 7, NEW sid, Fits(sid), NEW rest \in Seq(Nat),
         NEW buffer, buffer = (Encode(8 + bits) \o Encode(sid)) \o rest
  PROVE  /\ Decode(From(buffer, 1)) = <<sid, EncodedLength(sid)>>
         /\ Len(Encode(8 + bits) \o Encode(sid)) = 1 + EncodedLength(sid)
<1>1. /\ Encode(8 + bits) \in Seq(Nat) /\ Len(Encode(8 + bits)) = 1
      /\ Encode(sid) \in Seq(Nat) /\ Len(Encode(sid)) = EncodedLength(sid)
  BY HeaderTypes
<1>2. buffer = Encode(8 + bits) \o (Encode(sid) \o rest)
  BY <1>1, Regroup
<1>3. Decode(From(buffer, 1)) = <<sid, EncodedLength(sid)>>
  <2>1. Decode(From(Encode(8 + bits) \o (Encode(sid) \o rest), Len(Encode(8 + bits)))) = <<sid, EncodedLength(sid)>>
    BY <1>1, DecodeAt
  <2>2. QED
    BY <1>1, <1>2, <2>1
<1>4. Len(Encode(8 + bits) \o Encode(sid)) = Len(Encode(8 + bits)) + Len(Encode(sid))
  BY <1>1, CatType
<1>5. QED
  BY <1>1, <1>3, <1>4

LEMMA OffIs ==
  ASSUME NEW bits \in 0 .. 7, NEW sid, NEW from, NEW rest \in Seq(Nat),
         Fits(sid), Fits(from), OffBit(bits)
  PROVE  /\ Decode(From(UpToOff(bits, sid, from) \o rest, 1 + EncodedLength(sid))) = <<from, EncodedLength(from)>>
         /\ Len(UpToOff(bits, sid, from)) = 1 + EncodedLength(sid) + EncodedLength(from)
<1> DEFINE a == Encode(8 + bits) \o Encode(sid)
           buffer == UpToOff(bits, sid, from) \o rest
<1>1. a \in Seq(Nat) /\ Len(a) = 1 + EncodedLength(sid)
  <2>1. /\ Encode(8 + bits) \in Seq(Nat) /\ Len(Encode(8 + bits)) = 1
        /\ Encode(sid) \in Seq(Nat) /\ Len(Encode(sid)) = EncodedLength(sid)
    BY HeaderTypes
  <2>2. QED
    BY ZenonT(40), <2>1, CatType
<1>2. Encode(from) \in Seq(Nat) /\ Len(Encode(from)) = EncodedLength(from)
  BY EncodeType DEF Fits
<1>3. UpToOff(bits, sid, from) = a \o Encode(from)
  BY DEF UpToOff, OffField
<1> HIDE DEF a
<1>4. buffer = a \o (Encode(from) \o rest)
  <2>1. (a \o Encode(from)) \o rest = a \o (Encode(from) \o rest)
    BY <1>1, <1>2, Regroup
  <2>2. QED
    BY <1>3, <2>1
<1>5. Decode(From(buffer, Len(a))) = <<from, EncodedLength(from)>>
  <2>1. Decode(From(a \o (Encode(from) \o rest), Len(a))) = <<from, EncodedLength(from)>>
    BY <1>1, DecodeAt
  <2>2. QED
    BY <1>4, <2>1
<1>6. Len(a \o Encode(from)) = Len(a) + Len(Encode(from))
  BY <1>1, <1>2, CatType
<1>7. QED
  BY <1>1, <1>2, <1>3, <1>5, <1>6

\* A STREAM frame with its header and enough bytes after it, or too few.
FrameOf(bits, sid, from, data) ==
  [kind |-> "stream", id |-> sid, offset |-> IF OffBit(bits) THEN from ELSE 0, fin |-> bits % 2 = 1, data |-> data]

\* The length of its data, which without a LEN field is what is left.
Wanted(bits, n, rest) == IF LenBit(bits) THEN n ELSE Len(rest)

\* ParseStream on such a frame.
LEMMA StreamParsed ==
  ASSUME NEW bits \in 0 .. 7, NEW sid, Fits(sid), NEW from, Fits(from), NEW n, Fits(n), NEW rest \in Seq(Nat)
  PROVE  ParseFrame(Header(bits, sid, from, n) \o rest) =
           IF Len(rest) < Wanted(bits, n, rest) THEN None
           ELSE <<FrameOf(bits, sid, from, SubSeq(rest, 1, Wanted(bits, n, rest))),
                  Len(Header(bits, sid, from, n)) + Wanted(bits, n, rest)>>
<1> DEFINE a == Encode(8 + bits) \o Encode(sid)
           b == UpToOff(bits, sid, from)
           head == Header(bits, sid, from, n)
           buffer == head \o rest
           size == IF LenBit(bits) THEN n ELSE Len(rest)
           off == IF OffBit(bits) THEN <<from, EncodedLength(from)>> ELSE <<0, 0>>
           length == IF LenBit(bits) THEN <<n, EncodedLength(n)>> ELSE <<Len(rest), 0>>
<1>1. /\ Encode(8 + bits) \in Seq(Nat) /\ Len(Encode(8 + bits)) = 1
      /\ Encode(sid) \in Seq(Nat) /\ Len(Encode(sid)) = EncodedLength(sid)
      /\ OffField(bits, from) \in Seq(Nat) /\ LenField(bits, n) \in Seq(Nat)
      /\ b \in Seq(Nat) /\ head \in Seq(Nat)
  BY HeaderTypes
<1>2. a \in Seq(Nat) /\ Len(a) = 1 + EncodedLength(sid) /\ b = a \o OffField(bits, from) /\ head = b \o LenField(bits, n)
  <2>1. Encode(8 + bits) \o Encode(sid) \in Seq(Nat)
        /\ Len(Encode(8 + bits) \o Encode(sid)) = Len(Encode(8 + bits)) + Len(Encode(sid))
    <3> HIDE DEF a, b, head, buffer, size, off, length
    <3>1. QED
      BY <1>1, CatType
  <2>2. QED
    BY <1>1, <2>1 DEF UpToOff, Header
<1>3. /\ EncodedLength(sid) \in Nat /\ EncodedLength(from) \in Nat /\ EncodedLength(n) \in Nat
      /\ n \in Nat /\ from \in Nat /\ Len(rest) \in Nat /\ size \in Nat
  <2>1. n \in Nat /\ from \in Nat /\ sid \in Nat
    BY DEF Fits
  <2>2. EncodedLength(sid) \in Nat
    BY <2>1, EncodeType
  <2>3. EncodedLength(from) \in Nat
    BY <2>1, EncodeType
  <2>4. EncodedLength(n) \in Nat
    BY <2>1, EncodeType
  <2>5. QED
    BY <2>1, <2>2, <2>3, <2>4
<1> HIDE DEF a, b, head
<1>4. LenField(bits, n) \o rest \in Seq(Nat) /\ buffer = b \o (LenField(bits, n) \o rest)
  <2>1. LenField(bits, n) \o rest \in Seq(Nat)
    BY <1>1, CatType
  <2>2. (b \o LenField(bits, n)) \o rest = b \o (LenField(bits, n) \o rest)
    BY ZenonT(40), <1>1, Regroup
  <2>3. QED
    BY <1>2, <2>1, <2>2
<1>5. /\ OffField(bits, from) \o (LenField(bits, n) \o rest) \in Seq(Nat)
      /\ buffer = a \o (OffField(bits, from) \o (LenField(bits, n) \o rest))
  <2>1. OffField(bits, from) \o (LenField(bits, n) \o rest) \in Seq(Nat)
    BY <1>1, <1>4, CatType
  <2>2. (a \o OffField(bits, from)) \o (LenField(bits, n) \o rest) = a \o (OffField(bits, from) \o (LenField(bits, n) \o rest))
    <3> DEFINE c == LenField(bits, n) \o rest
    <3>1. a \in Seq(Nat) /\ OffField(bits, from) \in Seq(Nat) /\ c \in Seq(Nat)
      BY <1>1, <1>2, <1>4
    <3> HIDE DEF c
    <3>2. (a \o OffField(bits, from)) \o c = a \o (OffField(bits, from) \o c)
      BY <3>1, Regroup
    <3>3. QED
      BY <3>2 DEF c
  <2> HIDE DEF buffer
  <2>3. QED
    BY <1>2, <1>4, <2>1, <2>2
<1>6. /\ buffer \in Seq(Nat) /\ Len(buffer) = Len(head) + Len(rest) /\ Len(head) \in Nat
  BY <1>1, CatType
<1> HIDE DEF buffer
<1>7. Decode(From(buffer, 1)) = <<sid, EncodedLength(sid)>>
  BY <1>5, SidIs DEF a
<1>8. /\ OffBit(bits) => Decode(From(buffer, 1 + EncodedLength(sid))) = off
      /\ Len(b) = 1 + EncodedLength(sid) + off[2]
  <2>1. CASE OffBit(bits)
    <3> DEFINE c == LenField(bits, n) \o rest
    <3>1. c \in Seq(Nat) /\ buffer = UpToOff(bits, sid, from) \o c
      BY <1>4 DEF b
    <3> HIDE DEF c, off, length, size
    <3>2. /\ Decode(From(UpToOff(bits, sid, from) \o c, 1 + EncodedLength(sid))) = <<from, EncodedLength(from)>>
          /\ Len(UpToOff(bits, sid, from)) = 1 + EncodedLength(sid) + EncodedLength(from)
      BY <2>1, <3>1, OffIs
    <3>3. QED
      BY <2>1, <3>1, <3>2 DEF b, off
  <2>2. CASE ~OffBit(bits)
    <3>1. b = a
      BY <1>2, <2>2, ConcatEmptySeq DEF OffField
    <3>2. QED
      BY <1>2, <1>3, <2>2, <3>1
  <2>3. QED
    BY <2>1, <2>2
<1>9. /\ LenBit(bits) => Decode(From(buffer, Len(b))) = length
      /\ Len(head) = Len(b) + length[2] /\ length[1] = size
  <2>1. CASE LenBit(bits)
    <3>1. Encode(n) \in Seq(Nat) /\ Len(Encode(n)) = EncodedLength(n) /\ LenField(bits, n) = Encode(n)
      BY <2>1, EncodeType DEF Fits, LenField
    <3>2. Decode(From(buffer, Len(b))) = <<n, EncodedLength(n)>>
      BY <1>1, <1>4, <3>1, DecodeAt
    <3>3. Len(head) = Len(b) + EncodedLength(n)
      <4>1. Len(b \o Encode(n)) = Len(b) + Len(Encode(n))
        BY <1>1, <3>1, CatType
      <4>2. QED
        BY <1>2, <3>1, <4>1
    <3>4. QED
      BY <2>1, <3>2, <3>3
  <2>2. CASE ~LenBit(bits)
    <3>1. head = b /\ Len(b) \in Nat
      BY <1>1, <1>2, <2>2, ConcatEmptySeq DEF LenField
    <3>2. QED
      BY <2>2, <3>1
  <2>3. QED
    BY <2>1, <2>2
<1>10. ~LenBit(bits) => Len(buffer) - Len(b) = Len(rest)
  <2>1. ~LenBit(bits) => head = b
    BY <1>1, <1>2, ConcatEmptySeq DEF LenField
  <2>2. QED
    BY <1>6, <2>1
<1>11. ~(Len(rest) < size) => SubSeq(buffer, Len(head) + 1, Len(head) + size) = SubSeq(rest, 1, size)
  <2>1. ~(Len(rest) < size) => size \in 0 .. Len(rest)
    BY <1>3
  <2>2. QED
    BY <1>1, <2>1, SubCat DEF buffer
<1> DEFINE sidd == Decode(From(buffer, 1))
           at1 == 1 + sidd[2]
           offf == IF (bits \div 4) % 2 = 1 THEN Decode(From(buffer, at1)) ELSE <<0, 0>>
           at2 == at1 + offf[2]
           len == IF (bits \div 2) % 2 = 1 THEN Decode(From(buffer, at2)) ELSE <<Len(buffer) - at2, 0>>
           at3 == at2 + len[2]
<1>12. at1 = 1 + EncodedLength(sid) /\ sidd # None
  BY <1>7 DEF None
<1>13. offf = off /\ offf # None /\ at2 = Len(b)
  <2> HIDE DEF sidd, at1
  <2>1. offf = off
    BY <1>8, <1>12 DEF OffBit
  <2>2. QED
    BY <1>8, <1>12, <2>1 DEF None
<1>14. len = length /\ len # None /\ at3 = Len(head)
  <2> HIDE DEF at2, offf, at1
  <2>1. len = length
    BY <1>9, <1>10, <1>13 DEF LenBit
  <2>2. QED
    BY <1>9, <1>13, <2>1 DEF None
<1>15. ParseStream(buffer, bits, 1) =
         IF sidd = None \/ offf = None \/ len = None \/ Len(buffer) < at3 + len[1] THEN None
         ELSE <<[kind |-> "stream", id |-> sidd[1], offset |-> offf[1], fin |-> bits % 2 = 1,
                 data |-> SubSeq(buffer, at3 + 1, at3 + len[1])], at3 + len[1]>>
  BY DEF ParseStream
<1>16. sidd[1] = sid /\ offf[1] = (IF OffBit(bits) THEN from ELSE 0) /\ len[1] = size
  <2>1. sidd[1] = sid
    BY <1>7
  <2> HIDE DEF sidd, offf, len
  <2>2. QED
    BY <1>9, <1>13, <1>14, <2>1
<1> HIDE DEF sidd, at1, offf, at2, len, at3
<1>17. Len(buffer) < at3 + len[1] <=> Len(rest) < size
  BY <1>3, <1>6, <1>14, <1>16
<1>18. ParseStream(buffer, bits, 1) =
         IF Len(rest) < size THEN None
         ELSE <<FrameOf(bits, sid, from, SubSeq(rest, 1, size)), Len(head) + size>>
  <2> HIDE DEF size
  <2>1. CASE Len(rest) < size
    BY <1>15, <1>17, <2>1
  <2>2. CASE ~(Len(rest) < size)
    BY <1>11, <1>12, <1>13, <1>14, <1>15, <1>16, <1>17, <2>2 DEF FrameOf
  <2>3. QED
    BY <2>1, <2>2
<1>19. ParseFrame(buffer) = ParseStream(buffer, bits, 1)
  <2>1. \E more \in Seq(Nat) : buffer = Encode(8 + bits) \o more
    <3> DEFINE c == OffField(bits, from) \o (LenField(bits, n) \o rest)
    <3>1. Encode(8 + bits) \in Seq(Nat) /\ Encode(sid) \in Seq(Nat) /\ c \in Seq(Nat)
      BY <1>1, <1>5
    <3>2. buffer = (Encode(8 + bits) \o Encode(sid)) \o c
      BY <1>5 DEF a
    <3> HIDE DEF c
    <3>3. (Encode(8 + bits) \o Encode(sid)) \o c = Encode(8 + bits) \o (Encode(sid) \o c)
      BY <3>1, Regroup
    <3>4. Encode(sid) \o c \in Seq(Nat)
      BY <3>1, CatType
    <3>5. QED
      BY <3>2, <3>3, <3>4
  <2>2. QED
    BY <2>1, StreamType
<1>20. QED
  BY <1>18, <1>19 DEF buffer, head, size, Wanted

--------------------------------------------------------------------------------
(* STREAM frames that are cut short. *)

LEMMA FitsBelow == ASSUME NEW n, Fits(n), NEW m \in 0 .. n PROVE Fits(m)
<1>1. n \in Nat /\ m \in Nat /\ m <= n
  BY DEF Fits
<1>2. \A k \in 1 .. 7 : Shifted(m, k) = Shifted(m, k - 1) \div 256
  BY <1>1, ShiftedIs
<1>3. \A k \in 1 .. 7 : Shifted(n, k) = Shifted(n, k - 1) \div 256
  BY <1>1, ShiftedIs
<1>4. Shifted(m, 0) = m /\ \A k \in 0 .. 7 : Shifted(m, k) \in Nat
  BY <1>1, ShiftedIs
<1>5. Shifted(n, 0) = n /\ \A k \in 0 .. 7 : Shifted(n, k) \in Nat
  BY <1>1, ShiftedIs
<1> DEFINE P == {k \in 0 .. 7 : Shifted(m, k) <= Shifted(n, k)}
<1>6. \A k \in 0 .. 7 : k \in P
  <2>1. 0 \in P
    BY <1>1, <1>4, <1>5
  <2>2. ASSUME NEW k \in 1 .. 7, k - 1 \in P PROVE k \in P
    <3>1. Shifted(m, k - 1) \in Nat /\ Shifted(n, k - 1) \in Nat /\ Shifted(m, k - 1) <= Shifted(n, k - 1)
      BY <1>4, <1>5, <2>2
    <3>2. \A a, b \in Nat : a <= b => a \div 256 <= b \div 256
      OBVIOUS
    <3>3. Shifted(m, k - 1) \div 256 <= Shifted(n, k - 1) \div 256
      BY <3>1, <3>2
    <3>4. QED
      BY <1>2, <1>3, <3>3
  <2> HIDE DEF P
  <2>3. QED
    BY <2>1, <2>2, UpTo
<1>7. Shifted(m, 7) <= Shifted(n, 7) /\ Shifted(m, 7) \in Nat /\ Shifted(n, 7) \in Nat
  BY <1>4, <1>5, <1>6
<1>8. QED
  BY <1>1, <1>7 DEF Fits

\* All but the last byte.
Cut(s) == SubSeq(s, 1, Len(s) - 1)

LEMMA CutType ==
  ASSUME NEW s \in Seq(Nat), s # <<>>
  PROVE  Cut(s) \in Seq(Nat) /\ Len(Cut(s)) = Len(s) - 1 /\ Len(s) \in Nat \ {0} /\ \A i \in 1 .. Len(s) - 1 : Cut(s)[i] = s[i]
<1>1. Len(s) \in Nat /\ Len(s) # 0
  BY EmptySeq
<1>2. Len(s) - 1 \in Nat /\ Len(s) - 1 <= Len(s) /\ \A i \in 1 .. Len(s) - 1 : i \in 1 .. Len(s)
  BY <1>1
<1>3. Cut(s) = [i \in 1 .. Len(s) - 1 |-> s[i]]
  BY <1>1, <1>2 DEF Cut
<1>4. \A i \in 1 .. Len(s) - 1 : s[i] \in Nat
  BY <1>1, <1>2
<1>5. QED
  BY <1>1, <1>2, <1>3, <1>4

LEMMA CutCat ==
  ASSUME NEW a \in Seq(Nat), NEW b \in Seq(Nat), b # <<>>
  PROVE  Cut(a \o b) = a \o Cut(b)
<1>1. a \o b \in Seq(Nat) /\ Len(a \o b) = Len(a) + Len(b) /\ Len(a) \in Nat /\ Len(b) \in Nat
  BY CatType
<1>2. Cut(b) \in Seq(Nat) /\ Len(Cut(b)) = Len(b) - 1 /\ Len(b) \in Nat \ {0} /\ \A i \in 1 .. Len(b) - 1 : Cut(b)[i] = b[i]
  BY CutType
<1>3. a \o b # <<>>
  <2>1. Len(a \o b) # 0
    BY <1>1, <1>2
  <2>2. QED
    BY <2>1
<1>4. /\ Cut(a \o b) \in Seq(Nat) /\ Len(Cut(a \o b)) = Len(a \o b) - 1
      /\ \A i \in 1 .. Len(a \o b) - 1 : Cut(a \o b)[i] = (a \o b)[i]
  BY <1>1, <1>3, CutType
<1>5. a \o Cut(b) \in Seq(Nat) /\ Len(a \o Cut(b)) = Len(a) + Len(Cut(b))
  BY <1>2, CatType
<1>6. \A i \in 1 .. Len(a) + Len(b) - 1 : (a \o b)[i] = (a \o Cut(b))[i]
  <2> TAKE i \in 1 .. Len(a) + Len(b) - 1
  <2>1. CASE i <= Len(a)
    BY <1>1, <1>2, <2>1
  <2>2. CASE ~(i <= Len(a))
    <3>1. i - Len(a) \in 1 .. Len(b) - 1
      BY <1>1, <2>2
    <3>2. (a \o b)[i] = b[i - Len(a)]
      BY <1>1, <2>2
    <3>3. (a \o Cut(b))[i] = Cut(b)[i - Len(a)]
      BY <1>1, <1>2, <2>2
    <3>4. QED
      BY <1>2, <3>1, <3>2, <3>3
  <2>3. QED
    BY <2>1, <2>2
<1>7. Len(Cut(a \o b)) = Len(a \o Cut(b)) /\ \A i \in 1 .. Len(Cut(a \o b)) : Cut(a \o b)[i] = (a \o Cut(b))[i]
  <2>1. PICK m : m = Len(a) + Len(b) - 1
    OBVIOUS
  <2>2. Len(Cut(a \o b)) = m
    BY <1>1, <1>4, <2>1
  <2>3. Len(a \o Cut(b)) = m
    BY <1>1, <1>2, <1>5, <2>1
  <2>4. \A i \in 1 .. m : Cut(a \o b)[i] = (a \o b)[i]
    BY <1>4, <2>2
  <2>5. \A i \in 1 .. m : (a \o b)[i] = (a \o Cut(b))[i]
    BY <1>6, <2>1
  <2>6. QED
    BY <2>2, <2>3, <2>4, <2>5
<1>8. Cut(a \o b) \in Seq(Nat) /\ a \o Cut(b) \in Seq(Nat)
  BY <1>4, <1>5
<1>9. QED
  BY <1>7, <1>8, SeqEqual

LEMMA NothingDecoded == Decode(<<>>) = None /\ ParseFrame(<<>>) = None
<1>1. Decode(<<>>) = None
  BY DEF Decode
<1>2. QED
  BY <1>1 DEF ParseFrame

LEMMA CutDecoded ==
  ASSUME NEW a \in Seq(Nat), NEW v \in Nat
  PROVE  /\ Cut(a \o Encode(v)) = a \o Cut(Encode(v)) /\ Cut(Encode(v)) \in Seq(Nat)
         /\ Decode(From(a \o Cut(Encode(v)), Len(a))) = None
<1>1. Encode(v) \in Seq(Nat) /\ Len(Encode(v)) = EncodedLength(v) /\ EncodedLength(v) \in {1, 2, 4, 8}
  BY EncodeType
<1>2. Encode(v) # <<>>
  <2>1. Len(Encode(v)) # 0
    BY <1>1
  <2>2. QED
    BY <2>1
<1>3. Cut(Encode(v)) \in Seq(Nat)
  BY <1>1, <1>2, CutType
<1>4. Cut(a \o Encode(v)) = a \o Cut(Encode(v))
  BY <1>1, <1>2, CutCat
<1>5. From(a \o Cut(Encode(v)), Len(a)) = Cut(Encode(v))
  BY <1>3, FromCat
<1>6. Decode(Cut(Encode(v))) = None
  BY <1>1, DecodeCut DEF Cut
<1>7. QED
  BY <1>3, <1>4, <1>5, <1>6

\* A STREAM frame cut in its header cannot be parsed, whatever its last field.
LEMMA SidCut ==
  ASSUME NEW bits \in 0 .. 7, NEW sid, Fits(sid)
  PROVE  ParseFrame(Cut(Encode(8 + bits) \o Encode(sid))) = None
<1>1. sid \in Nat /\ Encode(8 + bits) \in Seq(Nat) /\ Len(Encode(8 + bits)) = 1
  <2>1. sid \in Nat
    BY DEF Fits
  <2>2. Encode(8 + bits) \in Seq(Nat) /\ Len(Encode(8 + bits)) = 1
    BY HeaderTypes
  <2>3. QED
    BY <2>1, <2>2
<1> DEFINE rest == Cut(Encode(sid))
<1>2. /\ Cut(Encode(8 + bits) \o Encode(sid)) = Encode(8 + bits) \o rest /\ rest \in Seq(Nat)
      /\ Decode(From(Encode(8 + bits) \o rest, Len(Encode(8 + bits)))) = None
  BY <1>1, CutDecoded
<1> HIDE DEF rest
<1>3. ParseFrame(Encode(8 + bits) \o rest) = ParseStream(Encode(8 + bits) \o rest, bits, 1)
  BY <1>2, StreamType
<1>4. Decode(From(Encode(8 + bits) \o rest, 1)) = None
  BY <1>1, <1>2
<1>5. ParseStream(Encode(8 + bits) \o rest, bits, 1) = None
  BY <1>4 DEF ParseStream
<1>6. QED
  BY <1>2, <1>3, <1>5

LEMMA OffCut ==
  ASSUME NEW bits \in 0 .. 7, NEW sid, NEW from, Fits(sid), Fits(from), OffBit(bits)
  PROVE  ParseFrame(Cut(UpToOff(bits, sid, from))) = None
<1> DEFINE a == Encode(8 + bits) \o Encode(sid)
           rest == Cut(Encode(from))
<1>1. from \in Nat /\ Encode(8 + bits) \in Seq(Nat) /\ Encode(sid) \in Seq(Nat)
  <2>1. from \in Nat
    BY DEF Fits
  <2>2. Encode(8 + bits) \in Seq(Nat) /\ Encode(sid) \in Seq(Nat)
    BY HeaderTypes
  <2>3. QED
    BY <2>1, <2>2
<1>2. a \in Seq(Nat)
  BY <1>1, CatType
<1>3. UpToOff(bits, sid, from) = a \o Encode(from)
  BY DEF UpToOff, OffField
<1> HIDE DEF a, rest
<1>4. Cut(a \o Encode(from)) = a \o rest /\ rest \in Seq(Nat) /\ Decode(From(a \o rest, Len(a))) = None
  BY <1>1, <1>2, CutDecoded DEF rest
<1>5. Decode(From(a \o rest, 1)) = <<sid, EncodedLength(sid)>> /\ Len(a) = 1 + EncodedLength(sid)
  <2>1. PICK buffer : buffer = a \o rest
    OBVIOUS
  <2>2. Decode(From(buffer, 1)) = <<sid, EncodedLength(sid)>> /\ Len(a) = 1 + EncodedLength(sid)
    BY <1>4, <2>1, SidIs DEF a
  <2>3. QED
    BY <2>1, <2>2
<1>6. Encode(sid) \o rest \in Seq(Nat) /\ a \o rest = Encode(8 + bits) \o (Encode(sid) \o rest)
  <2>1. Encode(sid) \o rest \in Seq(Nat)
    BY <1>1, <1>4, CatType
  <2>2. (Encode(8 + bits) \o Encode(sid)) \o rest = Encode(8 + bits) \o (Encode(sid) \o rest)
    BY <1>1, <1>4, Regroup
  <2>3. QED
    BY <2>1, <2>2 DEF a
<1>7. ParseFrame(a \o rest) = ParseStream(a \o rest, bits, 1)
  <2>1. ParseFrame(Encode(8 + bits) \o (Encode(sid) \o rest)) = ParseStream(Encode(8 + bits) \o (Encode(sid) \o rest), bits, 1)
    BY <1>6, StreamType
  <2>2. QED
    BY <1>6, <2>1
<1>8. ParseStream(a \o rest, bits, 1) = None
  <2>1. Decode(From(a \o rest, 1))[2] = EncodedLength(sid)
    BY <1>5
  <2>2. Decode(From(a \o rest, 1 + Decode(From(a \o rest, 1))[2])) = None
    BY <1>4, <1>5, <2>1
  <2>3. QED
    BY <2>2 DEF ParseStream, OffBit
<1>9. QED
  BY <1>3, <1>4, <1>7, <1>8

LEMMA LenCut ==
  ASSUME NEW bits \in 0 .. 7, NEW sid, NEW from, Fits(sid), Fits(from), LenBit(bits)
  PROVE  ParseFrame(UpToOff(bits, sid, from)) = None
<1> DEFINE a == Encode(8 + bits) \o Encode(sid)
           b == UpToOff(bits, sid, from)
           rest == OffField(bits, from)
           sidd == Decode(From(b, 1))
           at1 == 1 + sidd[2]
           offf == IF (bits \div 4) % 2 = 1 THEN Decode(From(b, at1)) ELSE <<0, 0>>
           at2 == at1 + offf[2]
<1>1. /\ Encode(8 + bits) \in Seq(Nat) /\ Encode(sid) \in Seq(Nat) /\ rest \in Seq(Nat) /\ b \in Seq(Nat)
  BY HeaderTypes
<1>2. b = a \o rest
  BY DEF UpToOff
<1>3. sidd = <<sid, EncodedLength(sid)>> /\ Len(a) = 1 + EncodedLength(sid)
  <2>1. PICK buffer : buffer = b
    OBVIOUS
  <2>2. rest \in Seq(Nat) /\ buffer = (Encode(8 + bits) \o Encode(sid)) \o rest
    BY <1>1, <1>2, <2>1
  <2> HIDE DEF a, b, rest
  <2>3. Decode(From(buffer, 1)) = <<sid, EncodedLength(sid)>> /\ Len(a) = 1 + EncodedLength(sid)
    BY <2>2, SidIs DEF a
  <2>4. QED
    BY <2>1, <2>3
<1>4. at1 = 1 + EncodedLength(sid)
  BY <1>3
<1>5. at2 = Len(b)
  <2>1. CASE OffBit(bits)
    <3>1. <<>> \in Seq(Nat) /\ b \o <<>> = b
      BY <1>1, ConcatEmptySeq
    <3> HIDE DEF a, rest, sidd, at1, offf, at2
    <3>2. /\ Decode(From(b \o <<>>, 1 + EncodedLength(sid))) = <<from, EncodedLength(from)>>
          /\ Len(b) = 1 + EncodedLength(sid) + EncodedLength(from)
      <4>1. PICK none \in Seq(Nat) : none = <<>>
        BY <3>1
      <4>2. /\ Decode(From(UpToOff(bits, sid, from) \o none, 1 + EncodedLength(sid))) = <<from, EncodedLength(from)>>
            /\ Len(UpToOff(bits, sid, from)) = 1 + EncodedLength(sid) + EncodedLength(from)
        BY <2>1, OffIs
      <4>3. QED
        BY <4>1, <4>2
    <3> HIDE DEF b
    <3>3. offf = <<from, EncodedLength(from)>>
      BY <1>4, <2>1, <3>1, <3>2 DEF OffBit, offf
    <3>4. QED
      BY <1>4, <3>2, <3>3 DEF at2
  <2>2. CASE ~OffBit(bits)
    <3>1. rest = <<>> /\ a \in Seq(Nat)
      BY <1>1, <2>2, CatType DEF OffField
    <3>2. b = a
      BY <1>2, <3>1, ConcatEmptySeq
    <3>3. EncodedLength(sid) \in Nat
      BY EncodeType DEF Fits
    <3> HIDE DEF a, b, rest, sidd, at1
    <3>4. offf = <<0, 0>>
      BY <2>2 DEF OffBit
    <3>5. at2 = at1 + 0
      BY <3>4
    <3>6. QED
      BY <1>3, <1>4, <3>2, <3>3, <3>5
  <2>3. QED
    BY <2>1, <2>2
<1>6. Decode(From(b, Len(b))) = None
  <2>1. Len(b) \in Nat /\ From(b, Len(b)) = <<>>
    BY <1>1 DEF From
  <2>2. QED
    BY <2>1, NothingDecoded
<1>7. ParseStream(b, bits, 1) = None
  <2>1. Decode(From(b, at2)) = None
    BY <1>5, <1>6
  <2>2. QED
    BY <2>1 DEF ParseStream, LenBit
<1>8. b = Encode(8 + bits) \o (Encode(sid) \o rest) /\ Encode(sid) \o rest \in Seq(Nat)
  <2> HIDE DEF b, rest
  <2>1. (Encode(8 + bits) \o Encode(sid)) \o rest = Encode(8 + bits) \o (Encode(sid) \o rest)
    BY <1>1, Regroup
  <2>2. Encode(sid) \o rest \in Seq(Nat)
    BY <1>1, CatType
  <2>3. QED
    BY <1>2, <2>1, <2>2
<1>9. ParseFrame(b) = ParseStream(b, bits, 1)
  <2> HIDE DEF b, rest
  <2>1. ParseFrame(Encode(8 + bits) \o (Encode(sid) \o rest)) = ParseStream(Encode(8 + bits) \o (Encode(sid) \o rest), bits, 1)
    BY <1>8, StreamType
  <2>2. QED
    BY <1>8, <2>1
<1>10. QED
  BY <1>7, <1>9

LEMMA HeaderCut ==
  ASSUME NEW bits \in 0 .. 7, NEW sid, NEW from, Fits(sid), Fits(from)
  PROVE  ParseFrame(Cut(Header(bits, sid, from, 0))) = None
<1> DEFINE a == Encode(8 + bits) \o Encode(sid)
           b == UpToOff(bits, sid, from)
<1>1. /\ Encode(8 + bits) \in Seq(Nat) /\ Encode(sid) \in Seq(Nat)
      /\ OffField(bits, from) \in Seq(Nat) /\ b \in Seq(Nat) /\ a \in Seq(Nat)
  <2>1. Fits(0)
    BY SmallFits
  <2>2. /\ Encode(8 + bits) \in Seq(Nat) /\ Encode(sid) \in Seq(Nat)
        /\ OffField(bits, from) \in Seq(Nat) /\ b \in Seq(Nat)
    BY <2>1, HeaderTypes
  <2>3. a \in Seq(Nat)
    BY <2>2, CatType
  <2>4. QED
    BY <2>2, <2>3
<1>2. CASE LenBit(bits)
  <2>1. Header(bits, sid, from, 0) = b \o Encode(0)
    BY <1>2 DEF Header, LenField
  <2>2. Cut(b \o Encode(0)) = b \o Cut(Encode(0))
    BY <1>1, CutDecoded
  <2>3. Cut(Encode(0)) = <<>>
    <3>1. Encode(0) \in Seq(Nat) /\ Len(Encode(0)) = EncodedLength(0)
      BY EncodeType
    <3>2. EncodedLength(0) = 1
      BY SmallFits
    <3>3. QED
      BY <3>1, <3>2 DEF Cut
  <2>4. b \o <<>> = b
    BY <1>1, ConcatEmptySeq
  <2>5. ParseFrame(b) = None
    BY <1>2, LenCut
  <2>6. QED
    BY <2>1, <2>2, <2>3, <2>4, <2>5
<1>3. CASE ~LenBit(bits)
  <2>1. Header(bits, sid, from, 0) = b
    BY <1>1, <1>3, ConcatEmptySeq DEF Header, LenField
  <2>2. CASE OffBit(bits)
    BY <2>1, <2>2, OffCut
  <2>3. CASE ~OffBit(bits)
    <3>1. b = a
      BY <1>1, <2>3, ConcatEmptySeq DEF UpToOff, OffField
    <3>2. ParseFrame(Cut(a)) = None
      BY SidCut
    <3>3. QED
      BY <2>1, <3>1, <3>2
  <2>4. QED
    BY <2>2, <2>3
<1>4. QED
  BY <1>2, <1>3

--------------------------------------------------------------------------------
(* The STREAM frames the peer writes. *)

\* The frame for the bytes at offsets lo to hi - 1.
SliceOf(s, lo, hi, fin) ==
  [kind |-> "stream", id |-> s, offset |-> lo, fin |-> fin, data |-> SubSeq(Written, lo + 1, hi)]

IsSlice(f, whole) ==
  \E s \in Stream, lo \in 0 .. Size, hi \in 0 .. Size, fin \in BOOLEAN :
    f = SliceOf(s, lo, hi, fin) /\ lo <= hi /\ (whole /\ fin => hi = Size)

\* Offsets and stream ids fit.
LEMMA SizesFit == Size \in Nat \ {0} /\ \A n : n \in Stream \union (0 .. Size) => Fits(n)
<1>1. Size \in Nat \ {0} /\ Fits(Size) /\ \A n \in Stream : Fits(n)
  BY QuicAssumption DEF Fits
<1>2. \A n \in 0 .. Size : Fits(n)
  BY <1>1, FitsBelow
<1>3. QED
  BY <1>1, <1>2

\* A slice of what was written.
LEMMA WrittenIs ==
  ASSUME NEW lo \in 0 .. Size, NEW hi \in 0 .. Size, lo <= hi
  PROVE  /\ SubSeq(Written, lo + 1, hi) \in Seq(Nat) /\ Len(SubSeq(Written, lo + 1, hi)) = hi - lo
         /\ \A i \in 1 .. hi - lo : SubSeq(Written, lo + 1, hi)[i] = lo + i
<1>1. Size \in Nat /\ lo \in Nat /\ hi \in Nat /\ hi - lo \in Nat
  BY SizesFit
<1>2. Written \in Seq(Nat) /\ Len(Written) = Size /\ \A p \in 1 .. Size : Written[p] = p
  BY <1>1 DEF Written
<1>3. SubSeq(Written, lo + 1, hi) = [i \in 1 .. (hi - (lo + 1)) + 1 |-> Written[i + (lo + 1) - 1]]
  BY <1>1
<1>4. (hi - (lo + 1)) + 1 = hi - lo /\ \A i \in 1 .. hi - lo : i + (lo + 1) - 1 = lo + i /\ lo + i \in 1 .. Size
  BY <1>1
<1> HIDE DEF Written
<1>5. SubSeq(Written, lo + 1, hi) = [i \in 1 .. hi - lo |-> lo + i]
  BY <1>2, <1>3, <1>4
<1> DEFINE x == SubSeq(Written, lo + 1, hi)
<1>6. PICK m \in Nat : m = hi - lo
  BY <1>1
<1>7. x = [i \in 1 .. m |-> lo + i]
  BY <1>5, <1>6
<1> HIDE DEF x
<1>8. x \in Seq(Nat) /\ Len(x) = m /\ \A i \in 1 .. m : x[i] = lo + i
  <2>1. \A i \in 1 .. m : lo + i \in Nat
    BY <1>1
  <2>2. QED
    BY <1>7, <2>1
<1>9. QED
  BY <1>6, <1>8 DEF x

Bits(off, len, fin) == Bit(off, 4) + Bit(len, 2) + Bit(fin, 1)

\* The three bits of a frame type can be told apart.
LEMMA BitsAre ==
  ASSUME NEW off \in BOOLEAN, NEW len \in BOOLEAN, NEW fin \in BOOLEAN
  PROVE  /\ Bits(off, len, fin) \in 0 .. 7
         /\ OffBit(Bits(off, len, fin)) <=> off
         /\ LenBit(Bits(off, len, fin)) <=> len
         /\ (Bits(off, len, fin) % 2 = 1) <=> fin
         /\ 8 + Bit(off, 4) + Bit(len, 2) + Bit(fin, 1) = 8 + Bits(off, len, fin)
<1>1. \E o \in {0, 4}, l \in {0, 2}, f \in {0, 1} :
        o = Bit(off, 4) /\ l = Bit(len, 2) /\ f = Bit(fin, 1) /\ (o = 4 <=> off) /\ (l = 2 <=> len) /\ (f = 1 <=> fin)
  BY DEF Bit
<1>2. PICK o \in {0, 4}, l \in {0, 2}, f \in {0, 1} :
        o = Bit(off, 4) /\ l = Bit(len, 2) /\ f = Bit(fin, 1) /\ (o = 4 <=> off) /\ (l = 2 <=> len) /\ (f = 1 <=> fin)
  BY <1>1
<1>3. Bits(off, len, fin) = o + l + f /\ 8 + Bit(off, 4) + Bit(len, 2) + Bit(fin, 1) = 8 + (o + l + f)
  BY <1>2 DEF Bits
<1>4. /\ o + l + f \in 0 .. 7 /\ (((o + l + f) \div 4) % 2 = 1 <=> o = 4)
      /\ (((o + l + f) \div 2) % 2 = 1 <=> l = 2) /\ ((o + l + f) % 2 = 1 <=> f = 1)
  OBVIOUS
<1>5. QED
  BY <1>2, <1>3, <1>4 DEF OffBit, LenBit

To(from, n) == IF from + n < Size THEN from + n ELSE Size

LEMMA ToIs ==
  ASSUME NEW from \in 0 .. Size, NEW n \in 0 .. Size
  PROVE  To(from, n) \in 0 .. Size /\ from <= To(from, n)
BY SizesFit DEF To

HeaderOf(s, from, n, off, len) == Header(Bits(off, len, To(from, n) = Size), s, from, To(from, n) - from)
DataOf(from, n) == SubSeq(Written, from + 1, To(from, n))

\* The bytes of a frame are its header and its data.
LEMMA BytesAre ==
  ASSUME NEW s \in Stream, NEW from \in 0 .. Size, NEW n \in 0 .. Size, NEW off \in BOOLEAN, NEW len \in BOOLEAN
  PROVE  StreamBytes(s, from, n, off, len) = HeaderOf(s, from, n, off, len) \o DataOf(from, n)
<1> DEFINE to   == To(from, n)
           bits == Bits(off, len, to = Size)
<1>2. /\ 8 + Bit(off, 4) + Bit(len, 2) + Bit(to = Size, 1) = 8 + bits
      /\ (OffBit(bits) <=> off) /\ (LenBit(bits) <=> len)
  <2>1. PICK fin \in BOOLEAN : fin = (to = Size)
    OBVIOUS
  <2>2. /\ 8 + Bit(off, 4) + Bit(len, 2) + Bit(fin, 1) = 8 + Bits(off, len, fin)
        /\ (OffBit(Bits(off, len, fin)) <=> off) /\ (LenBit(Bits(off, len, fin)) <=> len)
    BY BitsAre
  <2>3. QED
    BY <2>1, <2>2
<1>3. StreamBytes(s, from, n, off, len) =
        (((Encode(8 + Bit(off, 4) + Bit(len, 2) + Bit(to = Size, 1)) \o Encode(s))
          \o (IF off THEN Encode(from) ELSE <<>>)) \o (IF len THEN Encode(to - from) ELSE <<>>))
        \o SubSeq(Written, from + 1, to)
  BY DEF StreamBytes, To
<1> HIDE DEF to, bits
<1>4. OffField(bits, from) = (IF off THEN Encode(from) ELSE <<>>)
  BY <1>2 DEF OffField
<1>5. LenField(bits, to - from) = (IF len THEN Encode(to - from) ELSE <<>>)
  BY <1>2 DEF LenField
<1>6. StreamBytes(s, from, n, off, len) = Header(bits, s, from, to - from) \o SubSeq(Written, from + 1, to)
  BY <1>2, <1>3, <1>4, <1>5 DEF Header, UpToOff
<1>7. QED
  BY <1>6 DEF to, bits, HeaderOf, DataOf

SentSlice(s, from, n) == SliceOf(s, from, To(from, n), To(from, n) = Size)

\* A frame that arrives with all its bytes.
LEMMA WholeFrame ==
  ASSUME NEW s \in Stream, NEW from \in 0 .. Size, NEW n \in 0 .. Size, NEW off \in BOOLEAN, NEW len \in BOOLEAN,
         NEW rest \in Seq(Nat), off \/ from = 0, len \/ rest = <<>>
  PROVE  ParseFrame(StreamBytes(s, from, n, off, len) \o rest) =
           <<SentSlice(s, from, n), Len(StreamBytes(s, from, n, off, len))>>
<1> DEFINE to   == To(from, n)
           fin  == to = Size
           bits == Bits(off, len, fin)
           head == Header(bits, s, from, to - from)
           data == SubSeq(Written, from + 1, to)
           bytes == StreamBytes(s, from, n, off, len)
           more == data \o rest
<1>1. to \in 0 .. Size /\ from <= to /\ bytes = head \o data
  <2>1. to \in 0 .. Size /\ from <= to
    BY ToIs
  <2>2. bytes = HeaderOf(s, from, n, off, len) \o DataOf(from, n)
    BY BytesAre
  <2>3. QED
    BY <2>1, <2>2 DEF HeaderOf, DataOf
<1>2. data \in Seq(Nat) /\ Len(data) = to - from /\ to - from \in 0 .. Size
  <2> HIDE DEF to
  <2>1. data \in Seq(Nat) /\ Len(data) = to - from
    BY <1>1, WrittenIs
  <2>2. to - from \in 0 .. Size
    BY <1>1, SizesFit
  <2>3. QED
    BY <2>1, <2>2
<1>3. /\ bits \in 0 .. 7 /\ (OffBit(bits) <=> off) /\ (LenBit(bits) <=> len) /\ (bits % 2 = 1 <=> fin)
  <2>1. fin \in BOOLEAN
    OBVIOUS
  <2> HIDE DEF fin
  <2>2. QED
    BY <2>1, BitsAre
<1>4. Fits(s) /\ Fits(from) /\ Fits(to - from)
  BY <1>2, SizesFit
<1> HIDE DEF to, fin, bits, head, data, bytes
<1>5. head \in Seq(Nat)
  BY <1>3, <1>4, HeaderTypes DEF head
<1>6. more \in Seq(Nat) /\ Len(more) = Len(data) + Len(rest) /\ Len(rest) \in Nat
  BY <1>2, CatType
<1>7. bytes \o rest = head \o more /\ Len(bytes) = Len(head) + Len(data)
  BY <1>1, <1>2, <1>5, Regroup, CatType
<1> DEFINE size == Wanted(bits, to - from, more)
<1>8. size = Len(data)
  <2>1. CASE len
    BY <1>2, <1>3, <2>1 DEF Wanted
  <2>2. CASE ~len
    <3>1. Len(rest) = 0
      BY <2>2
    <3> HIDE DEF more
    <3>2. QED
      BY <1>2, <1>3, <1>6, <2>2, <3>1 DEF Wanted
  <2>3. QED
    BY <2>1, <2>2
<1>9. ParseFrame(head \o more) =
        IF Len(more) < size THEN None ELSE <<FrameOf(bits, s, from, SubSeq(more, 1, size)), Len(head) + size>>
  <2> HIDE DEF more
  <2>1. PICK m : m = to - from
    OBVIOUS
  <2>2. Fits(m) /\ head = Header(bits, s, from, m) /\ size = Wanted(bits, m, more)
    BY <1>4, <2>1 DEF head
  <2> HIDE DEF size
  <2>3. ParseFrame(Header(bits, s, from, m) \o more) =
          IF Len(more) < Wanted(bits, m, more) THEN None
          ELSE <<FrameOf(bits, s, from, SubSeq(more, 1, Wanted(bits, m, more))),
                 Len(Header(bits, s, from, m)) + Wanted(bits, m, more)>>
    BY <1>3, <1>4, <1>6, <2>2, StreamParsed
  <2>4. QED
    BY <2>2, <2>3
<1> HIDE DEF size
<1>10. SubSeq(more, 1, size) = data
  <2>1. \A i \in 1 .. Len(data) : more[i] = data[i]
    BY <1>2
  <2>2. SubSeq(more, 1, Len(data)) = [i \in 1 .. Len(data) |-> more[i]]
    BY <1>2, <1>6
  <2>3. data = [i \in 1 .. Len(data) |-> data[i]]
    BY <1>2
  <2> HIDE DEF more
  <2>4. QED
    BY <1>8, <2>1, <2>2, <2>3
<1> HIDE DEF more
<1>11. ~(Len(more) < size)
  BY <1>2, <1>6, <1>8
<1>12. FrameOf(bits, s, from, data) = SliceOf(s, from, to, fin)
  <2>1. (IF OffBit(bits) THEN from ELSE 0) = from
    BY <1>3
  <2>2. (bits % 2 = 1) = fin
    BY <1>3 DEF fin
  <2>3. QED
    BY <2>1, <2>2 DEF FrameOf, SliceOf, data
<1>13. ParseFrame(bytes \o rest) = <<SliceOf(s, from, to, fin), Len(bytes)>>
  BY <1>7, <1>8, <1>9, <1>10, <1>11, <1>12
<1>14. QED
  BY <1>13 DEF bytes, to, fin, SentSlice

LEMMA BytesType ==
  ASSUME NEW s \in Stream, NEW from \in 0 .. Size, NEW n \in 0 .. Size, NEW off \in BOOLEAN, NEW len \in BOOLEAN
  PROVE  StreamBytes(s, from, n, off, len) \in Seq(Nat)
<1> DEFINE to   == To(from, n)
           fin  == to = Size
           bits == Bits(off, len, fin)
<1>1. to \in 0 .. Size /\ from <= to
  BY ToIs
<1>2. DataOf(from, n) \in Seq(Nat) /\ to - from \in 0 .. Size
  <2> HIDE DEF to
  <2>1. SubSeq(Written, from + 1, to) \in Seq(Nat)
    BY <1>1, WrittenIs
  <2>2. to - from \in 0 .. Size
    BY <1>1, SizesFit
  <2>3. QED
    BY <2>1, <2>2 DEF DataOf, to
<1>3. bits \in 0 .. 7
  <2>1. fin \in BOOLEAN
    OBVIOUS
  <2> HIDE DEF fin
  <2>2. QED
    BY <2>1, BitsAre
<1>4. Fits(s) /\ Fits(from) /\ Fits(to - from)
  BY <1>2, SizesFit
<1> HIDE DEF to, fin, bits
<1>5. Header(bits, s, from, to - from) \in Seq(Nat)
  BY <1>3, <1>4, HeaderTypes
<1>6. HeaderOf(s, from, n, off, len) \in Seq(Nat)
  BY <1>5 DEF HeaderOf, to, fin, bits
<1>7. HeaderOf(s, from, n, off, len) \o DataOf(from, n) \in Seq(Nat)
  BY <1>2, <1>6, CatType
<1>8. StreamBytes(s, from, n, off, len) = HeaderOf(s, from, n, off, len) \o DataOf(from, n)
  BY BytesAre
<1>9. QED
  BY <1>7, <1>8

LEMMA SentIsSlice ==
  ASSUME NEW s \in Stream, NEW from \in 0 .. Size, NEW n \in 0 .. Size
  PROVE  IsSlice(SentSlice(s, from, n), TRUE)
<1>1. To(from, n) \in 0 .. Size /\ from <= To(from, n)
  BY ToIs
<1>2. PICK fin \in BOOLEAN : fin = (To(from, n) = Size)
  OBVIOUS
<1>3. QED
  BY <1>1, <1>2 DEF IsSlice, SentSlice

\* A frame that arrives without its last byte.
LEMMA CutData ==
  ASSUME NEW lo \in 0 .. Size, NEW hi \in 0 .. Size, lo < hi
  PROVE  /\ SubSeq(Written, lo + 1, hi) # <<>> /\ hi - 1 \in 0 .. Size /\ lo <= hi - 1
         /\ Cut(SubSeq(Written, lo + 1, hi)) = SubSeq(Written, lo + 1, hi - 1)
<1>1. Size \in Nat /\ lo \in Nat /\ hi \in Nat /\ hi - 1 \in 0 .. Size /\ lo <= hi - 1 /\ lo <= hi
  BY SizesFit
<1> DEFINE x == SubSeq(Written, lo + 1, hi)
           y == SubSeq(Written, lo + 1, hi - 1)
<1>2. PICK h \in 0 .. Size : h = hi - 1
  BY <1>1
<1>3. x \in Seq(Nat) /\ Len(x) = hi - lo /\ \A i \in 1 .. hi - lo : x[i] = lo + i
  BY <1>1, WrittenIs
<1>4. y \in Seq(Nat) /\ Len(y) = h - lo /\ \A i \in 1 .. h - lo : y[i] = lo + i
  <2>1. lo <= h
    BY <1>1, <1>2
  <2>2. QED
    BY <1>2, <2>1, WrittenIs
<1> HIDE DEF x, y
<1>5. Len(x) # 0
  BY <1>1, <1>3
<1>6. x # <<>>
  BY <1>5
<1>7. Cut(x) \in Seq(Nat) /\ Len(Cut(x)) = Len(x) - 1 /\ \A i \in 1 .. Len(x) - 1 : Cut(x)[i] = x[i]
  BY <1>3, <1>6, CutType
<1>8. Len(Cut(x)) = Len(y)
  BY <1>1, <1>2, <1>3, <1>4, <1>7
<1>9. \A i \in 1 .. Len(Cut(x)) : Cut(x)[i] = y[i]
  <2> TAKE i \in 1 .. Len(Cut(x))
  <2>1. i \in 1 .. Len(x) - 1 /\ i \in 1 .. hi - lo /\ i \in 1 .. h - lo
    BY <1>1, <1>2, <1>3, <1>4, <1>7, <1>8
  <2>2. QED
    BY <1>3, <1>4, <1>7, <2>1
<1>10. Cut(x) = y
  BY <1>4, <1>7, <1>8, <1>9, SeqEqual
<1>11. QED
  BY <1>1, <1>6, <1>10 DEF x, y

LEMMA NonEmptyCat ==
  ASSUME NEW a \in Seq(Nat), NEW b \in Seq(Nat), Len(a) >= 1
  PROVE  a \o b \in Seq(Nat) /\ Len(a \o b) >= 1
<1>1. a \o b \in Seq(Nat) /\ Len(a \o b) = Len(a) + Len(b) /\ Len(a) \in Nat /\ Len(b) \in Nat
  BY CatType
<1>2. QED
  BY <1>1

\* Cut short, a frame is refused, or, if it does not say its length, taken for one that
\* ends with the packet.
LEMMA CutFrame ==
  ASSUME NEW s \in Stream, NEW from \in 0 .. Size, NEW n \in 0 .. Size, NEW off \in BOOLEAN, NEW len \in BOOLEAN,
         off \/ from = 0
  PROVE  /\ Cut(StreamBytes(s, from, n, off, len)) \in Seq(Nat)
         /\ \/ ParseFrame(Cut(StreamBytes(s, from, n, off, len))) = None
            \/ ~len /\ \E hi \in 0 .. Size, fin \in BOOLEAN :
                 from <= hi /\ ParseFrame(Cut(StreamBytes(s, from, n, off, len))) =
                   <<SliceOf(s, from, hi, fin), Len(Cut(StreamBytes(s, from, n, off, len)))>>
<1> DEFINE to   == To(from, n)
           fin  == to = Size
           bits == Bits(off, len, fin)
           head == Header(bits, s, from, to - from)
           data == SubSeq(Written, from + 1, to)
           bytes == StreamBytes(s, from, n, off, len)
<1>1. to \in 0 .. Size /\ from <= to /\ bytes = head \o data
  <2>1. to \in 0 .. Size /\ from <= to
    BY ToIs
  <2>2. bytes = HeaderOf(s, from, n, off, len) \o DataOf(from, n)
    BY BytesAre
  <2>3. QED
    BY <2>1, <2>2 DEF HeaderOf, DataOf
<1>2. data \in Seq(Nat) /\ Len(data) = to - from /\ to - from \in 0 .. Size
  <2> HIDE DEF to
  <2>1. data \in Seq(Nat) /\ Len(data) = to - from
    BY <1>1, WrittenIs
  <2>2. to - from \in 0 .. Size
    BY <1>1, SizesFit
  <2>3. QED
    BY <2>1, <2>2
<1>3. /\ bits \in 0 .. 7 /\ (OffBit(bits) <=> off) /\ (LenBit(bits) <=> len) /\ (bits % 2 = 1 <=> fin)
  <2>1. fin \in BOOLEAN
    OBVIOUS
  <2> HIDE DEF fin
  <2>2. QED
    BY <2>1, BitsAre
<1>4. Fits(s) /\ Fits(from) /\ Fits(to - from)
  BY <1>2, SizesFit
<1>f. fin \in BOOLEAN
  OBVIOUS
<1> HIDE DEF to, fin, bits, head, data, bytes
<1>5. head \in Seq(Nat) /\ Len(head) \in Nat \ {0}
  <2>1. head \in Seq(Nat)
    BY <1>3, <1>4, HeaderTypes DEF head
  <2>2. /\ Encode(8 + bits) \in Seq(Nat) /\ Len(Encode(8 + bits)) = 1 /\ Encode(s) \in Seq(Nat)
        /\ OffField(bits, from) \in Seq(Nat) /\ LenField(bits, to - from) \in Seq(Nat)
        /\ UpToOff(bits, s, from) \in Seq(Nat)
    BY <1>3, <1>4, HeaderTypes
  <2>3. Encode(8 + bits) \o Encode(s) \in Seq(Nat) /\ Len(Encode(8 + bits) \o Encode(s)) >= 1
    <3>1. 1 >= 1
      OBVIOUS
    <3>2. Len(Encode(8 + bits)) >= 1
      BY <2>2, <3>1, Zenon
    <3>3. QED
      BY <2>2, <3>2, NonEmptyCat
  <2>4. Len(UpToOff(bits, s, from)) >= 1
    BY <2>2, <2>3, NonEmptyCat DEF UpToOff
  <2>5. Len(head) >= 1
    BY <2>2, <2>4, NonEmptyCat DEF head, Header
  <2>6. Len(head) \in Nat
    BY <2>1
  <2>7. QED
    BY <2>1, <2>5, <2>6
<1>6. CASE to = from
  <2>1. to - from = 0
    BY <1>1, <1>6
  <2>2. data = <<>>
    BY <1>2, <2>1
  <2>3. bytes = head
    BY <1>1, <1>5, <2>2, ConcatEmptySeq
  <2>4. head = Header(bits, s, from, 0)
    BY <2>1 DEF head
  <2>5. ParseFrame(Cut(head)) = None
    BY <1>3, <1>4, <2>4, HeaderCut
  <2>6. head # <<>>
    BY <1>5
  <2>7. Cut(head) \in Seq(Nat)
    BY <1>5, <2>6, CutType
  <2>8. QED
    BY <2>3, <2>5, <2>7 DEF bytes
<1>7. CASE to # from
  <2> DEFINE rest == Cut(data)
  <2>0. from < to
    BY <1>1, <1>7
  <2>1. PICK hi \in 0 .. Size : hi = to - 1 /\ from <= hi /\ rest = SubSeq(Written, from + 1, hi) /\ data # <<>>
    BY <1>1, <2>0, CutData DEF data
  <2>2. rest \in Seq(Nat) /\ Len(rest) = Len(data) - 1
    BY <1>2, <2>1, CutType
  <2>3. Cut(bytes) = head \o rest
    BY <1>1, <1>2, <1>5, <2>1, CutCat
  <2> HIDE DEF rest
  <2>4. head \o rest \in Seq(Nat) /\ Len(head \o rest) = Len(head) + Len(rest)
    BY <1>5, <2>2, CatType
  <2>5. PICK m : m = to - from
    OBVIOUS
  <2>6. Fits(m) /\ head = Header(bits, s, from, m)
    BY <1>4, <2>5 DEF head
  <2>7. ParseFrame(Header(bits, s, from, m) \o rest) =
          IF Len(rest) < Wanted(bits, m, rest) THEN None
          ELSE <<FrameOf(bits, s, from, SubSeq(rest, 1, Wanted(bits, m, rest))),
                 Len(Header(bits, s, from, m)) + Wanted(bits, m, rest)>>
    BY <1>3, <1>4, <2>2, <2>6, StreamParsed
  <2>8. CASE len
    <3>1. Wanted(bits, m, rest) = m /\ Len(rest) < m
      BY <1>2, <1>3, <2>2, <2>5, <2>8 DEF Wanted
    <3>2. ParseFrame(Cut(bytes)) = None
      BY <2>3, <2>6, <2>7, <3>1
    <3>3. QED
      BY <2>3, <2>4, <3>2 DEF bytes
  <2>9. CASE ~len
    <3>1. Wanted(bits, m, rest) = Len(rest) /\ ~(Len(rest) < Len(rest))
      BY <1>3, <2>2, <2>9 DEF Wanted
    <3>2. SubSeq(rest, 1, Len(rest)) = rest
      BY <2>2, SubSeqFull
    <3>3. FrameOf(bits, s, from, rest) = SliceOf(s, from, hi, fin)
      <4>1. (IF OffBit(bits) THEN from ELSE 0) = from
        BY <1>3
      <4>2. (bits % 2 = 1) = fin
        BY <1>3 DEF fin
      <4>3. QED
        BY <2>1, <4>1, <4>2 DEF FrameOf, SliceOf
    <3>4. ParseFrame(Cut(bytes)) = <<SliceOf(s, from, hi, fin), Len(Cut(bytes))>>
      BY <2>3, <2>4, <2>6, <2>7, <3>1, <3>2, <3>3
    <3>5. QED
      BY <1>f, <2>1, <2>3, <2>4, <2>9, <3>4 DEF bytes
  <2>10. QED
    BY <2>8, <2>9
<1>8. QED
  BY <1>6, <1>7

--------------------------------------------------------------------------------
(* What may follow a frame. *)

\* What follows is refused, or is one frame to the end of the packet.
RestOK(rest) ==
  /\ rest \in Seq(Nat)
  /\ \/ ParseFrame(rest) = None
     \/ \E f : (IsStream(f) => IsSlice(f, TRUE)) /\ ParseFrame(rest) = <<f, Len(rest)>>

LEMMA FromEncoded ==
  ASSUME NEW v \in Nat, NEW w, EncodedLength(v) = w, NEW rest \in Seq(Nat)
  PROVE  From(Encode(v) \o rest, w) = rest
<1>1. Encode(v) \in Seq(Nat) /\ Len(Encode(v)) = w
  BY EncodeType
<1>2. QED
  BY <1>1, FromCat

LEMMA MaxDataTail ==
  ASSUME NEW m \in Nat
  PROVE  RestOK(Encode(MaxData) \o Encode(m)) /\ RestOK(Cut(Encode(MaxData) \o Encode(m)))
<1>1. Encode(MaxData) \in Seq(Nat) /\ EncodedLength(MaxData) = 1 /\ Fits(MaxData) /\ MaxData \in Nat /\ MaxData = 16 /\ MaxData \notin 8 .. 15
  <2>1. MaxData \in Nat /\ MaxData \in 0 .. 63 /\ MaxData = 16
    BY DEF MaxData
  <2>2. EncodedLength(MaxData) = 1 /\ Fits(MaxData)
    BY <2>1, SmallFits
  <2>3. Encode(MaxData) \in Seq(Nat)
    BY <2>1, EncodeType
  <2>4. QED
    BY <2>1, <2>2, <2>3
<1>2. Len(Encode(MaxData)) = 1
  BY <1>1, EncodeType
<1>3. Encode(m) \in Seq(Nat) /\ Len(Encode(m)) = EncodedLength(m)
  BY EncodeType
<1> DEFINE x == Encode(MaxData) \o Encode(m)
<1>4. RestOK(x)
  <2>1. Decode(x) = <<MaxData, 1>>
    BY <1>1, <1>3, VarIntsRoundTrip
  <2>2. From(x, 1) = Encode(m)
    BY <1>1, <1>3, FromEncoded
  <2>3. Decode(Encode(m)) # None /\ Decode(Encode(m))[2] = EncodedLength(m)
    <3>1. Encode(m) \o <<>> = Encode(m) /\ <<>> \in Seq(Nat)
      BY <1>3, ConcatEmptySeq
    <3>2. Decode(Encode(m) \o <<>>) # None /\ Decode(Encode(m) \o <<>>)[2] = EncodedLength(m)
      BY <3>1, DecodeLength
    <3>3. QED
      BY <3>1, <3>2
  <2>4. x \in Seq(Nat) /\ Len(x) = 1 + EncodedLength(m)
    BY ZenonT(40), <1>1, <1>2, <1>3, CatType
  <2> DEFINE f == [kind |-> "max_data", maximum |-> Decode(Encode(m))[1]]
  <2> HIDE DEF x
  <2>5. ParseFrame(x) = <<f, 1 + EncodedLength(m)>>
    <3>1. Decode(x)[1] = MaxData /\ Decode(x)[2] = 1 /\ Decode(x) # None
      BY <2>1 DEF None
    <3>2. QED
      BY <1>1, <2>2, <2>3, <3>1 DEF ParseFrame
  <2>6. ~IsStream(f)
    BY DEF IsStream
  <2>7. QED
    BY <2>4, <2>5, <2>6 DEF RestOK
<1>5. RestOK(Cut(x))
  <2> DEFINE rest == Cut(Encode(m))
  <2>1. Cut(x) = Encode(MaxData) \o rest /\ rest \in Seq(Nat) /\ Decode(From(Encode(MaxData) \o rest, 1)) = None
    BY <1>1, <1>2, CutDecoded
  <2> HIDE DEF rest, x
  <2>2. Decode(Encode(MaxData) \o rest) = <<MaxData, 1>>
    BY <1>1, <2>1, VarIntsRoundTrip
  <2>3. Decode(Cut(x))[1] = MaxData /\ Decode(Cut(x))[2] = 1
    BY <2>1, <2>2
  <2>4. ParseFrame(Cut(x)) = None
    BY <1>1, <2>1, <2>3 DEF ParseFrame
  <2>5. Cut(x) \in Seq(Nat)
    BY <1>1, <2>1, CatType
  <2>6. QED
    BY <2>4, <2>5 DEF RestOK
<1>6. QED
  BY <1>4, <1>5

LEMMA SmallEncoded ==
  ASSUME NEW v \in 0 .. 63
  PROVE  Encode(v) \in Seq(Nat) /\ Len(Encode(v)) = 1 /\ Encode(v) # <<>> /\ Cut(Encode(v)) = <<>> /\ Fits(v) /\ EncodedLength(v) = 1 /\ v \in Nat
<1>1. Fits(v) /\ EncodedLength(v) = 1
  BY SmallFits
<1>2. Encode(v) \in Seq(Nat) /\ Len(Encode(v)) = EncodedLength(v)
  BY EncodeType
<1>3. Encode(v) # <<>>
  <2>1. Len(Encode(v)) # 0
    BY <1>1, <1>2
  <2>2. QED
    BY <2>1
<1>4. Cut(Encode(v)) = <<>>
  BY <1>1, <1>2 DEF Cut
<1>5. QED
  BY <1>1, <1>2, <1>3, <1>4

LEMMA MaxStreamDataTail ==
  ASSUME NEW x, x = Encode(MaxStreamData) \o Encode(0) \o Encode(9)
  PROVE  RestOK(x) /\ RestOK(Cut(x))
<1> DEFINE a == Encode(MaxStreamData)
           b == Encode(0)
           c == Encode(9)
<1>0. MaxStreamData \in 0 .. 63 /\ MaxStreamData = 17 /\ MaxStreamData \notin 8 .. 15 /\ MaxStreamData # MaxData
  BY DEF MaxStreamData, MaxData
<1>1. a \in Seq(Nat) /\ Len(a) = 1 /\ Fits(MaxStreamData) /\ EncodedLength(MaxStreamData) = 1 /\ MaxStreamData \in Nat
  BY <1>0, SmallEncoded
<1>2. b \in Seq(Nat) /\ Len(b) = 1 /\ Fits(0) /\ EncodedLength(0) = 1
  BY SmallEncoded
<1>3. c \in Seq(Nat) /\ Len(c) = 1 /\ Fits(9) /\ EncodedLength(9) = 1 /\ c # <<>> /\ Cut(c) = <<>>
  BY SmallEncoded
<1> HIDE DEF a, b, c
<1>4. b \o c \in Seq(Nat) /\ Len(b \o c) = 2 /\ x = a \o (b \o c) /\ a \o b \in Seq(Nat) /\ Len(a \o b) = 2
  <2>1. x = (a \o b) \o c
    BY DEF a, b, c
  <2>2. (a \o b) \o c = a \o (b \o c)
    BY <1>1, <1>2, <1>3, Regroup
  <2>3. b \o c \in Seq(Nat) /\ Len(b \o c) = Len(b) + Len(c)
    BY <1>2, <1>3, CatType
  <2>4. a \o b \in Seq(Nat) /\ Len(a \o b) = Len(a) + Len(b)
    BY <1>1, <1>2, CatType
  <2>5. Len(b \o c) = 2 /\ Len(a \o b) = 2
    BY <1>1, <1>2, <1>3, <2>3, <2>4
  <2>6. QED
    BY <2>1, <2>2, <2>3, <2>4, <2>5
<1>5. x \in Seq(Nat) /\ Len(x) = 3
  <2>1. a \o (b \o c) \in Seq(Nat) /\ Len(a \o (b \o c)) = Len(a) + Len(b \o c)
    BY <1>1, <1>4, CatType
  <2>2. Len(a \o (b \o c)) = 3
    BY <1>1, <1>4, <2>1
  <2>3. QED
    BY <1>4, <2>1, <2>2
<1>6. RestOK(x)
  <2>1. Decode(x) = <<MaxStreamData, 1>>
    BY <1>1, <1>4, VarIntsRoundTrip DEF a
  <2>2. From(x, 1) = b \o c
    <3>1. From(a \o (b \o c), Len(a)) = b \o c
      BY <1>1, <1>4, FromCat
    <3>2. QED
      BY <1>1, <1>4, <3>1
  <2>3. Decode(b \o c) = <<0, 1>>
    BY <1>2, <1>3, VarIntsRoundTrip DEF b
  <2>4. From(x, 2) = c
    <3>1. x = (a \o b) \o c
      BY DEF a, b, c
    <3>2. From((a \o b) \o c, Len(a \o b)) = c
      BY <1>3, <1>4, FromCat
    <3>3. QED
      BY <1>4, <3>1, <3>2
  <2>5. Decode(c) = <<9, 1>>
    <3>1. c \o <<>> = c /\ <<>> \in Seq(Nat)
      BY <1>3, ConcatEmptySeq
    <3>2. Decode(Encode(9) \o <<>>) = <<9, EncodedLength(9)>>
      BY <1>3, <3>1, VarIntsRoundTrip
    <3>3. QED
      BY <1>3, <3>1, <3>2 DEF c
  <2> DEFINE f == [kind |-> "max_stream_data", id |-> 0, maximum |-> 9]
  <2>6. ParseFrame(x) = <<f, 3>>
    <3>1. Decode(x)[1] = MaxStreamData /\ Decode(x)[2] = 1 /\ Decode(x) # None
      BY <2>1 DEF None
    <3>2. Decode(From(x, 1))[1] = 0 /\ Decode(From(x, 1))[2] = 1 /\ Decode(From(x, 1)) # None
      <4>1. Decode(From(x, 1)) = <<0, 1>>
        BY <2>2, <2>3
      <4>2. QED
        BY <4>1 DEF None
    <3>3. Decode(From(x, 1 + 1))[1] = 9 /\ Decode(From(x, 1 + 1))[2] = 1 /\ Decode(From(x, 1 + 1)) # None
      BY <2>4, <2>5 DEF None
    <3>4. QED
      BY <1>0, <3>1, <3>2, <3>3 DEF ParseFrame
  <2>7. ~IsStream(f)
    BY DEF IsStream
  <2>8. QED
    BY <1>5, <2>6, <2>7 DEF RestOK
<1>7. RestOK(Cut(x))
  <2>1. Cut(x) = a \o b
    <3>1. x = (a \o b) \o c
      BY DEF a, b, c
    <3>2. Cut((a \o b) \o c) = (a \o b) \o Cut(c)
      BY <1>3, <1>4, CutCat
    <3>3. (a \o b) \o <<>> = a \o b
      BY <1>4, ConcatEmptySeq
    <3>4. QED
      BY <1>3, <3>1, <3>2, <3>3
  <2>2. Decode(a \o b) = <<MaxStreamData, 1>>
    BY <1>1, <1>2, VarIntsRoundTrip DEF a
  <2>3. From(a \o b, 1) = b
    BY <1>1, <1>2, FromEncoded DEF a
  <2>4. Decode(b) = <<0, 1>>
    <3>1. b \o <<>> = b /\ <<>> \in Seq(Nat)
      BY <1>2, ConcatEmptySeq
    <3>2. Decode(Encode(0) \o <<>>) = <<0, EncodedLength(0)>>
      BY <1>2, <3>1, VarIntsRoundTrip
    <3>3. QED
      BY <1>2, <3>1, <3>2 DEF b
  <2>5. From(a \o b, 2) = <<>>
    BY <1>4 DEF From
  <2>6. ParseFrame(a \o b) = None
    <3>1. Decode(a \o b)[1] = MaxStreamData /\ Decode(a \o b)[2] = 1
      BY <2>2
    <3>2. Decode(From(a \o b, 1))[2] = 1
      BY <2>3, <2>4
    <3>3. Decode(From(a \o b, 1 + 1)) = None
      BY <2>5, NothingDecoded
    <3>4. QED
      BY <1>0, <3>1, <3>2, <3>3 DEF ParseFrame
  <2>7. QED
    BY <1>4, <2>1, <2>6 DEF RestOK
<1>8. QED
  BY <1>6, <1>7

LEMMA PaddingTail == RestOK(<<0>>) /\ RestOK(<<>>) /\ Cut(<<0>>) = <<>>
<1>1. Encode(0) = <<0>>
  <2>1. EncodedLength(0) = 1 /\ Shifted(0, 0) = 0
    BY SmallFits, ShiftedIs
  <2>2. Prefix(1) = 0
    <3>1. Prefix(1) \in 0 .. 3 /\ Lengths[Prefix(1) + 1] = 1
      BY PrefixIs
    <3>2. Lengths[1 + 1] = 2 /\ Lengths[2 + 1] = 4 /\ Lengths[3 + 1] = 8
      BY DEF Lengths
    <3>3. QED
      BY <3>1, <3>2
  <2>3. Encode(0) = [i \in 1 .. 1 |-> IF i = 1 THEN Prefix(1) * 64 + (Shifted(0, 1 - 1) % 64) ELSE Shifted(0, 1 - i) % 256]
    BY <2>1 DEF Encode
  <2>4. Prefix(1) * 64 + (Shifted(0, 1 - 1) % 64) = 0
    BY <2>1, <2>2
  <2>5. Encode(0) \in Seq(Nat) /\ Len(Encode(0)) = 1 /\ Encode(0)[1] = 0
    <3>1. Encode(0) \in Seq(Nat) /\ Len(Encode(0)) = 1
      BY SmallEncoded
    <3>2. Encode(0)[1] = 0
      BY <2>3, <2>4
    <3>3. QED
      BY <3>1, <3>2
  <2>6. QED
    BY <2>5
<1>2. Decode(<<0>>) = <<0, 1>>
  <2>1. <<0>> \o <<>> = <<0>> /\ <<>> \in Seq(Nat)
    OBVIOUS
  <2>2. Fits(0) /\ EncodedLength(0) = 1
    BY SmallFits
  <2>3. Decode(Encode(0) \o <<>>) = <<0, EncodedLength(0)>>
    BY <2>1, <2>2, VarIntsRoundTrip
  <2>4. QED
    BY <1>1, <2>1, <2>2, <2>3
<1>3. ParseFrame(<<0>>) = None
  <2>1. Decode(<<0>>)[1] = 0
    BY <1>2
  <2>2. 0 \notin 8 .. 15 /\ 0 \notin {MaxData, MaxStreamData}
    BY DEF MaxData, MaxStreamData
  <2>3. QED
    BY <2>1, <2>2 DEF ParseFrame
<1>4. <<0>> \in Seq(Nat) /\ <<>> \in Seq(Nat) /\ Cut(<<0>>) = <<>>
  BY DEF Cut
<1>5. QED
  BY <1>3, <1>4, NothingDecoded DEF RestOK

\* All that may follow a frame can be parsed or is refused, cut or not.
LEMMA TailsAre ==
  ASSUME NEW tail \in Tails, tail # <<>>
  PROVE  tail \in Seq(Nat) /\ RestOK(tail) /\ RestOK(Cut(tail))
<1>1. CASE tail = SerializeFrame([kind |-> "max_data", maximum |-> InitialMaxData + 1])
  <2>1. PICK m \in Nat : m = InitialMaxData + 1
    BY QuicAssumption
  <2>2. tail = Encode(MaxData) \o Encode(m)
    BY <1>1, <2>1 DEF SerializeFrame
  <2>3. QED
    BY <2>2, MaxDataTail DEF RestOK
<1>2. CASE tail = Encode(MaxStreamData) \o Encode(0) \o Encode(9)
  BY <1>2, MaxStreamDataTail DEF RestOK
<1>3. CASE tail = <<0>>
  BY <1>3, PaddingTail DEF RestOK
<1>4. QED
  BY <1>1, <1>2, <1>3 DEF Tails

--------------------------------------------------------------------------------
(* The frames of a packet. *)

LEMMA FromType ==
  ASSUME NEW p \in Seq(Nat), NEW a \in 0 .. Len(p)
  PROVE  From(p, a) \in Seq(Nat) /\ Len(From(p, a)) = Len(p) - a /\ \A i \in 1 .. Len(p) - a : From(p, a)[i] = p[a + i]
<1>1. Len(p) \in Nat /\ a \in Nat /\ Len(p) - a \in Nat /\ (Len(p) - (a + 1)) + 1 = Len(p) - a
  OBVIOUS
<1>2. From(p, a) = [i \in 1 .. (Len(p) - (a + 1)) + 1 |-> p[i + (a + 1) - 1]]
  BY <1>1 DEF From
<1>3. \A i \in 1 .. Len(p) - a : i + (a + 1) - 1 = a + i /\ a + i \in 1 .. Len(p)
  BY <1>1
<1>4. PICK m \in Nat : m = Len(p) - a
  BY <1>1
<1>5. From(p, a) = [i \in 1 .. m |-> p[a + i]]
  BY <1>1, <1>2, <1>3, <1>4
<1>6. \A i \in 1 .. m : p[a + i] \in Nat
  BY <1>3, <1>4
<1>7. From(p, a) \in Seq(Nat) /\ Len(From(p, a)) = m /\ \A i \in 1 .. m : From(p, a)[i] = p[a + i]
  BY <1>5, <1>6
<1>8. QED
  BY <1>4, <1>7

LEMMA FromFrom ==
  ASSUME NEW p \in Seq(Nat), NEW a \in 0 .. Len(p), NEW k \in 0 .. Len(p) - a
  PROVE  From(From(p, a), k) = From(p, a + k) /\ a + k \in 0 .. Len(p)
<1>1. Len(p) \in Nat /\ a \in Nat /\ k \in Nat /\ a + k \in 0 .. Len(p)
  OBVIOUS
<1> DEFINE x == From(p, a)
           y == From(x, k)
           z == From(p, a + k)
<1>2. x \in Seq(Nat) /\ Len(x) = Len(p) - a /\ \A i \in 1 .. Len(p) - a : x[i] = p[a + i]
  BY FromType
<1> HIDE DEF x
<1>3. y \in Seq(Nat) /\ Len(y) = Len(x) - k /\ \A i \in 1 .. Len(x) - k : y[i] = x[k + i]
  BY <1>2, FromType
<1>4. z \in Seq(Nat) /\ Len(z) = Len(p) - (a + k) /\ \A i \in 1 .. Len(p) - (a + k) : z[i] = p[(a + k) + i]
  BY <1>1, FromType
<1> HIDE DEF y, z
<1>5. Len(y) = Len(z)
  BY <1>1, <1>2, <1>3, <1>4
<1>6. \A i \in 1 .. Len(y) : y[i] = z[i]
  <2> TAKE i \in 1 .. Len(y)
  <2>1. /\ i \in 1 .. Len(x) - k /\ k + i \in 1 .. Len(p) - a /\ i \in 1 .. Len(p) - (a + k)
        /\ a + (k + i) = (a + k) + i
    BY <1>1, <1>2, <1>3, <1>4
  <2>2. QED
    BY <1>2, <1>3, <1>4, <2>1
<1>7. y = z
  BY <1>3, <1>4, <1>5, <1>6, SeqEqual
<1>8. QED
  BY <1>1, <1>7 DEF x, y, z

\* Parsing leads from each of these to another, or stops.
Closed(Rests) ==
  \A rest \in Rests :
    \/ ParseFrame(rest) = None
    \/ \E f, k : k \in 0 .. Len(rest) /\ ParseFrame(rest) = <<f, k>> /\ From(rest, k) \in Rests

Parsed(Rests) == {ParseFrame(rest)[1] : rest \in {r \in Rests : ParseFrame(r) # None}}

\* FramesOf's loop: all the frames it makes are among those.
LEMMA FramesAre ==
  ASSUME NEW packet \in Seq(Nat), NEW Rests \in SUBSET Seq(Nat), packet \in Rests, Closed(Rests)
  PROVE  FramesOf(packet) \in Seq(Parsed(Rests))
<1> DEFINE L == Len(packet)
           S == Parsed(Rests)
           X == {r \in [at : 0 .. L, frames : Seq(S)] : From(packet, r.at) \in Rests}
           base == [at |-> 0, frames |-> <<>>]
           step == [n \in 1 .. L |-> [r \in X |-> ParseNext(packet, r)]]
           IsChain(c) == c = [n \in 0 .. L |-> IF n = 0 THEN base ELSE ParseNext(packet, c[n - 1])]
<1>1. L \in Nat
  OBVIOUS
<1>2. base \in X
  <2>1. From(packet, 0) = packet
    <3>1. From(packet, 0) = SubSeq(packet, 1, Len(packet))
      BY DEF From
    <3>2. QED
      BY <3>1, SubSeqFull
  <2>2. <<>> \in Seq(S)
    OBVIOUS
  <2> HIDE DEF S, L
  <2>3. QED
    BY <1>1, <2>1, <2>2
<1>3. \A r \in X : ParseNext(packet, r) \in X
  <2> TAKE r \in X
  <2> DEFINE rest == From(packet, r.at)
             res == ParseFrame(rest)
  <2>1. r \in [at : 0 .. L, frames : Seq(S)] /\ r.at \in 0 .. L /\ r.frames \in Seq(S) /\ rest \in Rests
    <3> HIDE DEF S, L
    <3>1. QED
      OBVIOUS
  <2>2. rest \in Seq(Nat) /\ Len(rest) = L - r.at
    BY <2>1, FromType
  <2>3. CASE res = None
    BY <2>3 DEF ParseNext
  <2>4. CASE res # None
    <3>1. res = None \/ \E f, k : k \in 0 .. Len(rest) /\ res = <<f, k>> /\ From(rest, k) \in Rests
      <4> HIDE DEF rest, X
      <4>1. QED
        BY <2>1 DEF Closed
    <3>2. \E f, k : k \in 0 .. Len(rest) /\ res = <<f, k>> /\ From(rest, k) \in Rests
      BY <2>4, <3>1
    <3>3. PICK f, k : k \in 0 .. Len(rest) /\ res = <<f, k>> /\ From(rest, k) \in Rests
      BY <3>2
    <3>4. f \in S
      <4>1. f = res[1]
        BY <3>3
      <4> HIDE DEF rest, X
      <4>2. QED
        BY <2>1, <2>4, <4>1 DEF Parsed
    <3>5. From(rest, k) = From(packet, r.at + k) /\ r.at + k \in 0 .. L
      <4>1. k \in 0 .. Len(packet) - r.at /\ r.at \in 0 .. Len(packet)
        BY <2>1, <2>2, <3>3
      <4>2. QED
        BY <4>1, FromFrom
    <3>6. ParseNext(packet, r) = [at |-> r.at + k, frames |-> Append(r.frames, f)]
      <4>1. res[1] = f /\ res[2] = k
        BY <3>3
      <4>2. ParseNext(packet, r) = [at |-> r.at + res[2], frames |-> Append(r.frames, res[1])]
        BY <2>4 DEF ParseNext
      <4>3. QED
        BY <4>1, <4>2
    <3>7. Append(r.frames, f) \in Seq(S)
      <4> HIDE DEF S, X
      <4>1. QED
        BY <2>1, <3>4
    <3> HIDE DEF S, L, rest, res
    <3>8. QED
      BY <3>3, <3>5, <3>6, <3>7
  <2>5. QED
    BY <2>3, <2>4
<1> HIDE DEF X, base
<1>4. step \in [1 .. L -> [X -> X]] /\ \A n \in 1 .. L, r \in X : step[n][r] = ParseNext(packet, r)
  BY <1>3
<1> HIDE DEF step
<1>5. PICK g : g \in [0 .. L -> X] /\ Stepwise(L, base, step, g)
  <2>1. Steps(L, X, base, step)
    BY <1>1, <1>2, <1>4 DEF Steps
  <2>2. QED
    BY <2>1, StepwiseExists
<1>6. \A n \in 0 .. L : n # 0 => n \in 1 .. L /\ n - 1 \in 0 .. L
  BY <1>1
<1> HIDE DEF L
<1>7. IsChain(g)
  <2>1. \A n \in 0 .. L : n # 0 => g[n - 1] \in X /\ step[n][g[n - 1]] = ParseNext(packet, g[n - 1])
    BY <1>4, <1>5, <1>6
  <2>2. \A n \in 0 .. L : g[n] = IF n = 0 THEN base ELSE ParseNext(packet, g[n - 1])
    BY <1>5, <1>6, <2>1 DEF Stepwise
  <2>3. QED
    BY <1>5, <2>2
<1>8. FramesOf(packet) = (CHOOSE c : IsChain(c))[L].frames
  BY DEF FramesOf, L, base
<1>9. PICK c : IsChain(c) /\ FramesOf(packet) = c[L].frames
  <2> HIDE DEF IsChain
  <2>1. QED
    BY <1>7, <1>8
<1> DEFINE P == {n \in 0 .. L : c[n] \in X}
<1>10. \A n \in 0 .. L : n \in P
  <2>1. 0 \in P
    BY <1>1, <1>2, <1>9
  <2>2. ASSUME NEW n \in 1 .. L, n - 1 \in P PROVE n \in P
    <3>1. n \in 0 .. L /\ n # 0 /\ c[n - 1] \in X
      BY <1>1, <2>2
    <3>2. c[n] = ParseNext(packet, c[n - 1])
      BY <1>9, <3>1
    <3>3. QED
      BY <1>3, <3>1, <3>2
  <2> HIDE DEF P
  <2>3. QED
    BY <1>1, <2>1, <2>2, UpTo
<1>11. c[L] \in X
  BY <1>1, <1>10
<1>12. QED
  <2>1. c[L].frames \in Seq(S)
    <3> HIDE DEF S
    <3>1. QED
      BY <1>11 DEF X
  <2>2. QED
    BY <1>9, <2>1

--------------------------------------------------------------------------------
(* What arrives. *)

\* All frames of streams are slices, of a packet that came whole or not.
Delivered(frames, whole) ==
  \E S : frames \in Seq(S) /\ \A f \in S : IsStream(f) => IsSlice(f, whole)

\* A frame and what follows it.
LEMMA Followed ==
  ASSUME NEW p \in Seq(Nat), NEW rest, RestOK(rest), NEW f, IsSlice(f, TRUE), ParseFrame(p \o rest) = <<f, Len(p)>>
  PROVE  Delivered(FramesOf(p \o rest), TRUE)
<1> DEFINE Rests == {p \o rest, rest, <<>>}
<1>1. rest \in Seq(Nat) /\ <<>> \in Seq(Nat)
  BY DEF RestOK
<1>2. p \o rest \in Seq(Nat) /\ Len(p \o rest) = Len(p) + Len(rest) /\ Len(p) \in Nat /\ Len(rest) \in Nat
  BY <1>1, CatType
<1>3. From(p \o rest, Len(p)) = rest /\ Len(p) \in 0 .. Len(p \o rest)
  BY <1>1, <1>2, FromCat
<1>4. From(rest, Len(rest)) = <<>> /\ Len(rest) \in 0 .. Len(rest)
  BY <1>1, <1>2 DEF From
<1>5. ParseFrame(rest) = None \/ \E x : (IsStream(x) => IsSlice(x, TRUE)) /\ ParseFrame(rest) = <<x, Len(rest)>>
  BY DEF RestOK
<1>6. ParseFrame(<<>>) = None
  BY NothingDecoded
<1>7. Closed(Rests)
  <2>1. \E x, k : k \in 0 .. Len(p \o rest) /\ ParseFrame(p \o rest) = <<x, k>> /\ From(p \o rest, k) \in Rests
    BY <1>3
  <2>2. ParseFrame(rest) = None
        \/ \E x, k : k \in 0 .. Len(rest) /\ ParseFrame(rest) = <<x, k>> /\ From(rest, k) \in Rests
    BY <1>4, <1>5
  <2>3. QED
    BY <1>6, <2>1, <2>2 DEF Closed
<1>8. Rests \in SUBSET Seq(Nat) /\ p \o rest \in Rests
  BY <1>1, <1>2
<1>9. \A x \in Parsed(Rests) : IsStream(x) => IsSlice(x, TRUE)
  <2>1. \A r \in Rests : ParseFrame(r) # None => (IsStream(ParseFrame(r)[1]) => IsSlice(ParseFrame(r)[1], TRUE))
    <3>1. ParseFrame(p \o rest)[1] = f
      OBVIOUS
    <3>2. ASSUME ParseFrame(rest) # None
          PROVE  IsStream(ParseFrame(rest)[1]) => IsSlice(ParseFrame(rest)[1], TRUE)
      <4>1. \E x : (IsStream(x) => IsSlice(x, TRUE)) /\ ParseFrame(rest) = <<x, Len(rest)>>
        BY <1>5, <3>2
      <4>2. PICK x : (IsStream(x) => IsSlice(x, TRUE)) /\ ParseFrame(rest) = <<x, Len(rest)>>
        BY <4>1
      <4>3. ParseFrame(rest)[1] = x
        BY <4>2
      <4>4. QED
        BY <4>2, <4>3
    <3>3. QED
      BY <1>6, <3>1, <3>2
  <2>2. QED
    BY <2>1 DEF Parsed
<1> HIDE DEF Rests
<1>10. FramesOf(p \o rest) \in Seq(Parsed(Rests))
  BY <1>2, <1>7, <1>8, FramesAre
<1>11. QED
  BY <1>9, <1>10 DEF Delivered

\* A frame with nothing after it.
LEMMA Alone ==
  ASSUME NEW p \in Seq(Nat), NEW whole,
         ParseFrame(p) = None \/ \E f : IsSlice(f, whole) /\ ParseFrame(p) = <<f, Len(p)>>
  PROVE  Delivered(FramesOf(p), whole)
<1> DEFINE Rests == {p, <<>>}
<1>1. Len(p) \in Nat /\ From(p, Len(p)) = <<>> /\ Len(p) \in 0 .. Len(p) /\ <<>> \in Seq(Nat)
  BY DEF From
<1>2. ParseFrame(<<>>) = None
  BY NothingDecoded
<1>3. Closed(Rests)
  <2>1. ParseFrame(p) = None \/ \E x, k : k \in 0 .. Len(p) /\ ParseFrame(p) = <<x, k>> /\ From(p, k) \in Rests
    BY <1>1
  <2>2. QED
    BY <1>2, <2>1 DEF Closed
<1>4. Rests \in SUBSET Seq(Nat) /\ p \in Rests
  BY <1>1
<1>5. \A x \in Parsed(Rests) : IsSlice(x, whole)
  <2>1. ParseFrame(p) # None => IsSlice(ParseFrame(p)[1], whole)
    OBVIOUS
  <2>2. QED
    BY <1>2, <2>1 DEF Parsed
<1> HIDE DEF Rests
<1>6. FramesOf(p) \in Seq(Parsed(Rests))
  BY <1>3, <1>4, FramesAre
<1>7. QED
  BY <1>5, <1>6 DEF Delivered

Arrived(bytes, cut, whole) == Delivered(FramesOf(SubSeq(bytes, 1, Len(bytes) - cut)), whole)

\* The two kinds of packets, whole or cut.
LEMMA OnePacket ==
  ASSUME NEW s \in Stream, NEW from \in 0 .. Size, NEW n \in 0 .. Size, NEW off \in BOOLEAN, NEW len \in BOOLEAN,
         NEW tail \in Tails, NEW cut \in 0 .. 1, off \/ from = 0, len \/ tail = <<>>,
         NEW bytes, bytes = StreamBytes(s, from, n, off, len) \o tail,
         NEW whole, whole = (cut = 0 \/ len)
  PROVE  Arrived(bytes, cut, whole)
<1> USE DEF Arrived
<1> DEFINE p == StreamBytes(s, from, n, off, len)
           f == SentSlice(s, from, n)
<1>1. <<>> \in Seq(Nat)
  OBVIOUS
<1>2. \A rest \in Seq(Nat) : (len \/ rest = <<>>) => ParseFrame(p \o rest) = <<f, Len(p)>>
  BY WholeFrame
<1>3. p \in Seq(Nat)
  BY BytesType
<1>4. IsSlice(f, TRUE)
  BY SentIsSlice
<1> HIDE DEF p, f
<1>5. CASE tail = <<>>
  <2>1. bytes = p
    BY <1>3, <1>5, ConcatEmptySeq DEF p
  <2>2. CASE cut = 0
    <3>1. p \o <<>> = p
      BY <1>3, ConcatEmptySeq
    <3>2. ParseFrame(p) = <<f, Len(p)>>
      BY <1>1, <1>2, <3>1
    <3>3. Delivered(FramesOf(p), TRUE)
      BY <1>3, <1>4, <3>2, Alone
    <3>4. SubSeq(bytes, 1, Len(bytes) - cut) = p
      <4>1. Len(p) - 0 = Len(p)
        BY <1>3
      <4>2. SubSeq(p, 1, Len(p)) = p
        BY <1>3, SubSeqFull
      <4>3. QED
        BY <2>1, <2>2, <4>1, <4>2
    <3>5. whole = TRUE
      BY <2>2
    <3>6. QED
      BY <3>3, <3>4, <3>5
  <2>3. CASE cut = 1
    <3>1. SubSeq(bytes, 1, Len(bytes) - cut) = Cut(p)
      BY <2>1, <2>3 DEF Cut
    <3>2. /\ Cut(p) \in Seq(Nat)
          /\ \/ ParseFrame(Cut(p)) = None
             \/ ~len /\ \E hi \in 0 .. Size, fin \in BOOLEAN :
                  from <= hi /\ ParseFrame(Cut(p)) = <<SliceOf(s, from, hi, fin), Len(Cut(p))>>
      BY CutFrame DEF p
    <3>3. whole = len
      BY <2>3
    <3>4. ASSUME NEW hi \in 0 .. Size, NEW fin \in BOOLEAN, from <= hi
          PROVE  IsSlice(SliceOf(s, from, hi, fin), FALSE)
      BY <3>4 DEF IsSlice
    <3>5. ParseFrame(Cut(p)) = None \/ \E x : IsSlice(x, whole) /\ ParseFrame(Cut(p)) = <<x, Len(Cut(p))>>
      BY <3>2, <3>3, <3>4
    <3>6. Delivered(FramesOf(Cut(p)), whole)
      BY <3>2, <3>5, Alone
    <3>7. QED
      BY <3>1, <3>6
  <2>4. QED
    BY <2>2, <2>3
<1>6. CASE tail # <<>>
  <2>1. tail \in Seq(Nat) /\ RestOK(tail) /\ RestOK(Cut(tail)) /\ len
    BY <1>6, TailsAre
  <2>2. CASE cut = 0
    <3>1. ParseFrame(p \o tail) = <<f, Len(p)>>
      BY <1>2, <2>1
    <3>2. Delivered(FramesOf(p \o tail), TRUE)
      BY <1>3, <1>4, <2>1, <3>1, Followed
    <3>3. SubSeq(bytes, 1, Len(bytes) - cut) = p \o tail
      <4>1. bytes = p \o tail /\ bytes \in Seq(Nat)
        BY <1>3, <2>1, CatType DEF p
      <4>2. Len(bytes) - 0 = Len(bytes)
        BY <4>1
      <4>3. SubSeq(bytes, 1, Len(bytes)) = bytes
        BY <4>1, SubSeqFull
      <4>4. QED
        BY <2>2, <4>1, <4>2, <4>3
    <3>4. whole = TRUE
      BY <2>2
    <3>5. QED
      BY <3>2, <3>3, <3>4
  <2>3. CASE cut = 1
    <3>1. SubSeq(bytes, 1, Len(bytes) - cut) = p \o Cut(tail)
      <4>1. Cut(p \o tail) = p \o Cut(tail)
        BY <1>3, <1>6, <2>1, CutCat
      <4>2. QED
        BY <2>3, <4>1 DEF Cut, p
    <3>2. Cut(tail) \in Seq(Nat)
      BY <2>1 DEF RestOK
    <3>3. ParseFrame(p \o Cut(tail)) = <<f, Len(p)>>
      BY <1>2, <2>1, <3>2
    <3>4. Delivered(FramesOf(p \o Cut(tail)), TRUE)
      BY <1>3, <1>4, <2>1, <3>3, Followed
    <3>5. whole = TRUE
      BY <2>1
    <3>6. QED
      BY <3>1, <3>4, <3>5
  <2>4. QED
    BY <2>2, <2>3
<1>7. QED
  BY <1>5, <1>6

LEMMA TwoFrames ==
  ASSUME NEW s \in Stream, NEW t \in Stream, NEW n \in 0 .. Size,
         NEW bytes, bytes = StreamBytes(s, 0, n, FALSE, TRUE) \o StreamBytes(t, n, Size, TRUE, FALSE)
  PROVE  Arrived(bytes, 0, TRUE)
<1> DEFINE p == StreamBytes(s, 0, n, FALSE, TRUE)
           q == StreamBytes(t, n, Size, TRUE, FALSE)
           f == SentSlice(s, 0, n)
           g == SentSlice(t, n, Size)
<1>0. 0 \in 0 .. Size /\ Size \in 0 .. Size /\ <<>> \in Seq(Nat)
  BY SizesFit
<1>1. \A rest \in Seq(Nat) : ParseFrame(p \o rest) = <<f, Len(p)>>
  BY <1>0, WholeFrame
<1>2. p \in Seq(Nat)
  BY <1>0, BytesType
<1>3. q \in Seq(Nat)
  BY <1>0, BytesType
<1>4. ParseFrame(q \o <<>>) = <<g, Len(q)>>
  BY <1>0, WholeFrame
<1>6. IsSlice(f, TRUE) /\ IsSlice(g, TRUE)
  BY <1>0, SentIsSlice
<1> HIDE DEF p, q, f, g
<1>7. RestOK(q)
  <2>1. q \o <<>> = q
    BY <1>3, ConcatEmptySeq
  <2>2. QED
    BY <1>3, <1>4, <1>6, <2>1 DEF RestOK
<1>8. Delivered(FramesOf(p \o q), TRUE)
  BY <1>1, <1>2, <1>3, <1>6, <1>7, Followed
<1>9. SubSeq(bytes, 1, Len(bytes) - 0) = p \o q
  <2>1. bytes = p \o q /\ bytes \in Seq(Nat)
    BY <1>2, <1>3, CatType DEF p, q
  <2>2. Len(bytes) - 0 = Len(bytes)
    BY <2>1
  <2>3. SubSeq(bytes, 1, Len(bytes)) = bytes
    BY <2>1, SubSeqFull
  <2>4. QED
    BY <2>1, <2>2, <2>3
<1>10. QED
  BY <1>8, <1>9 DEF Arrived

\* Whatever the peer makes of its bytes, and wherever a packet is cut, each STREAM
\* frame that the parser finds has bytes of that stream, at their offset.
THEOREM PacketsHoldSlices ==
  ASSUME NEW a \in Arrivals
  PROVE  Delivered(a[1], a[2]) /\ a[2] \in BOOLEAN
<1>1. PICK p \in Packets : a = <<FramesOf(SubSeq(p.bytes, 1, Len(p.bytes) - p.cut)), p.whole>>
  BY DEF Arrivals
<1>2. a[1] = FramesOf(SubSeq(p.bytes, 1, Len(p.bytes) - p.cut)) /\ a[2] = p.whole
  BY <1>1
<1>3. Arrived(p.bytes, p.cut, p.whole) /\ p.whole \in BOOLEAN
  <2>1. CASE \E s \in Stream, from \in 0 .. Size, n \in 0 .. Size, off \in BOOLEAN, len \in BOOLEAN,
               tail \in Tails, cut \in 0 .. 1 :
               p = [bytes |-> StreamBytes(s, from, n, off \/ from > 0, len \/ tail # <<>>) \o tail,
                    cut |-> cut, whole |-> cut = 0 \/ len \/ tail # <<>>]
    <3>1. PICK s \in Stream, from \in 0 .. Size, n \in 0 .. Size, off \in BOOLEAN, len \in BOOLEAN,
               tail \in Tails, cut \in 0 .. 1 :
               p = [bytes |-> StreamBytes(s, from, n, off \/ from > 0, len \/ tail # <<>>) \o tail,
                    cut |-> cut, whole |-> cut = 0 \/ len \/ tail # <<>>]
      BY <2>1
    <3>2. PICK o \in BOOLEAN, l \in BOOLEAN : o = (off \/ from > 0) /\ l = (len \/ tail # <<>>)
      OBVIOUS
    <3>3. (o \/ from = 0) /\ (l \/ tail = <<>>)
      <4>1. from > 0 \/ from = 0
        BY SizesFit
      <4>2. QED
        BY <3>2, <4>1
    <3>4. PICK bytes, whole : bytes = StreamBytes(s, from, n, o, l) \o tail /\ whole = (cut = 0 \/ l)
      OBVIOUS
    <3>5. p.bytes = bytes /\ p.cut = cut /\ p.whole = whole /\ whole \in BOOLEAN
      <4>1. p = [bytes |-> bytes, cut |-> cut, whole |-> whole]
        BY <3>1, <3>2, <3>4, Zenon
      <4>2. whole \in BOOLEAN
        BY <3>4
      <4>3. QED
        BY ONLY <4>1, <4>2
    <3>6. Arrived(bytes, cut, whole)
      BY <3>3, <3>4, OnePacket
    <3>7. QED
      BY <3>5, <3>6
  <2>2. CASE \E s \in Stream, t \in Stream, n \in 0 .. Size :
               p = [bytes |-> StreamBytes(s, 0, n, FALSE, TRUE) \o StreamBytes(t, n, Size, TRUE, FALSE),
                    cut |-> 0, whole |-> TRUE]
    <3>1. PICK s \in Stream, t \in Stream, n \in 0 .. Size :
               p = [bytes |-> StreamBytes(s, 0, n, FALSE, TRUE) \o StreamBytes(t, n, Size, TRUE, FALSE),
                    cut |-> 0, whole |-> TRUE]
      BY <2>2
    <3>2. PICK bytes : bytes = StreamBytes(s, 0, n, FALSE, TRUE) \o StreamBytes(t, n, Size, TRUE, FALSE)
      OBVIOUS
    <3>3. p.bytes = bytes /\ p.cut = 0 /\ p.whole = TRUE
      BY <3>1, <3>2
    <3>4. Arrived(bytes, 0, TRUE)
      BY <3>2, TwoFrames
    <3>5. QED
      BY <3>3, <3>4
  <2>3. QED
    <3>1. \/ \E s \in Stream, from \in 0 .. Size, n \in 0 .. Size, off \in BOOLEAN, len \in BOOLEAN,
               tail \in Tails, cut \in 0 .. 1 :
               p = [bytes |-> StreamBytes(s, from, n, off \/ from > 0, len \/ tail # <<>>) \o tail,
                    cut |-> cut, whole |-> cut = 0 \/ len \/ tail # <<>>]
          \/ \E s \in Stream, t \in Stream, n \in 0 .. Size :
               p = [bytes |-> StreamBytes(s, 0, n, FALSE, TRUE) \o StreamBytes(t, n, Size, TRUE, FALSE),
                    cut |-> 0, whole |-> TRUE]
      <4> DEFINE O(s, from, n, off, len, tail, cut) ==
                   [bytes |-> StreamBytes(s, from, n, off \/ from > 0, len \/ tail # <<>>) \o tail,
                    cut |-> cut, whole |-> cut = 0 \/ len \/ tail # <<>>]
                 T(s, t, n) ==
                   [bytes |-> StreamBytes(s, 0, n, FALSE, TRUE) \o StreamBytes(t, n, Size, TRUE, FALSE),
                    cut |-> 0, whole |-> TRUE]
                 One == {O(s, from, n, off, len, tail, cut) :
                           s \in Stream, from \in 0 .. Size, n \in 0 .. Size, off \in BOOLEAN, len \in BOOLEAN,
                           tail \in Tails, cut \in 0 .. 1}
                 Two == {T(s, t, n) : s \in Stream, t \in Stream, n \in 0 .. Size}
      <4>1. Packets = One \union Two
        BY DEF Packets
      <4> HIDE DEF O, T
      <4>2. ASSUME p \in One
            PROVE  \E s \in Stream, from \in 0 .. Size, n \in 0 .. Size, off \in BOOLEAN, len \in BOOLEAN,
                      tail \in Tails, cut \in 0 .. 1 : p = O(s, from, n, off, len, tail, cut)
        BY <4>2, SMT
      <4>3. ASSUME p \in Two
            PROVE  \E s \in Stream, t \in Stream, n \in 0 .. Size : p = T(s, t, n)
        BY <4>3, SMT
      <4> HIDE DEF One, Two
      <4>4. p \in One \/ p \in Two
        BY <4>1
      <4>5. QED
        BY <4>2, <4>3, <4>4 DEF O, T
    <3>2. QED
      BY <2>1, <2>2, <3>1
<1>4. QED
  BY <1>2, <1>3 DEF Arrived

--------------------------------------------------------------------------------
(* The bytes of a stream. *)

\* The bytes at offsets lo to hi - 1.
Bytes(lo, hi) == SubSeq(Written, lo + 1, hi)

LEMMA BytesBetween ==
  ASSUME NEW lo \in 0 .. Size, NEW hi \in 0 .. Size, lo <= hi
  PROVE  Bytes(lo, hi) \in Seq(Nat) /\ Len(Bytes(lo, hi)) = hi - lo /\ lo \in Nat /\ hi \in Nat /\ hi - lo \in Nat
<1>1. lo \in Nat /\ hi \in Nat /\ hi - lo \in Nat
  BY SizesFit
<1>2. QED
  BY <1>1, WrittenIs DEF Bytes

\* Adjacent slices, and a slice of a slice, are slices.
LEMMA JoinedBytes ==
  ASSUME NEW a \in 0 .. Size, NEW b \in 0 .. Size, NEW c \in 0 .. Size, a <= b, b <= c
  PROVE  Bytes(a, b) \o Bytes(b, c) = Bytes(a, c)
<1>1. Size \in Nat
  BY SizesFit
<1>2. Written \in Seq(Nat) /\ Len(Written) = Size
  BY <1>1 DEF Written
<1>3. a + 1 \in 1 .. Len(Written) + 1 /\ b \in (a + 1) - 1 .. Len(Written) /\ c \in b .. Len(Written)
  BY <1>1, <1>2
<1>4. SubSeq(Written, a + 1, b) \o SubSeq(Written, b + 1, c) = SubSeq(Written, a + 1, c)
  BY <1>2, <1>3, ConcatAdjacentSubSeq
<1>5. QED
  BY <1>4 DEF Bytes

LEMMA BytesOfBytes ==
  ASSUME NEW lo \in 0 .. Size, NEW hi \in 0 .. Size, lo <= hi,
         NEW a \in Nat, NEW b \in Nat, a < b, b <= hi - lo
  PROVE  SubSeq(Bytes(lo, hi), a + 1, b) = Bytes(lo + a, lo + b)
<1>1. Size \in Nat /\ lo \in Nat /\ hi \in Nat
  BY SizesFit
<1>2. Written \in Seq(Nat) /\ Len(Written) = Size
  BY <1>1 DEF Written
<1>3. /\ lo + 1 \in 1 .. Len(Written) /\ hi \in 1 .. Len(Written)
      /\ a + 1 \in 1 .. hi - (lo + 1) + 1 /\ b \in 1 .. hi - (lo + 1) + 1
      /\ (lo + 1) + (a + 1) - 1 = (lo + a) + 1 /\ (lo + 1) + b - 1 = lo + b
  BY <1>1, <1>2
<1>4. SubSeq(SubSeq(Written, lo + 1, hi), a + 1, b) = SubSeq(Written, (lo + 1) + (a + 1) - 1, (lo + 1) + b - 1)
  <2>1. <<>> \in Seq(Nat)
    OBVIOUS
  <2>2. QED
    BY <1>2, <1>3, <2>1, SubSeqOfSubSeq
<1>5. SubSeq(SubSeq(Written, lo + 1, hi), a + 1, b) = SubSeq(Written, (lo + a) + 1, lo + b)
  BY <1>3, <1>4
<1>6. QED
  BY <1>5 DEF Bytes

LEMMA NoBytes ==
  ASSUME NEW x, NEW a \in Nat
  PROVE  SubSeq(x, a + 1, a) = <<>>
<1>1. a < a + 1 /\ a + 1 \in Int /\ a \in Int
  OBVIOUS
<1>2. QED
  BY <1>1, SubSeqEmpty

--------------------------------------------------------------------------------
(* StreamReassembler. *)

\* x is bytes of the stream from offset o on, and not none.
Begins(o, x) == \E hi \in 0 .. Size : o < hi /\ x = Bytes(o, hi)

LEMMA BeginsIs ==
  ASSUME NEW o \in 0 .. Size, NEW x, Begins(o, x)
  PROVE  x \in Seq(Nat) /\ Len(x) \in Nat \ {0} /\ o + Len(x) \in 0 .. Size /\ x = Bytes(o, o + Len(x)) /\ o \in Nat
<1>1. PICK hi \in 0 .. Size : o < hi /\ x = Bytes(o, hi)
  BY DEF Begins
<1>2. o \in Nat /\ hi \in Nat /\ o <= hi
  BY <1>1, SizesFit
<1>3. x \in Seq(Nat) /\ Len(x) = hi - o
  BY <1>1, <1>2, BytesBetween
<1>4. hi - o \in Nat \ {0} /\ o + (hi - o) = hi
  BY <1>1, <1>2
<1>5. QED
  BY <1>1, <1>2, <1>3, <1>4

\* What segments_ can hold: bytes of the stream, each run at its own offset.
Segments == {h \in UNION {[D -> Seq(Nat)] : D \in SUBSET (0 .. Size)} : \A o \in DOMAIN h : Begins(o, h[o])}

LEMMA UnionIs ==
  ASSUME NEW X, NEW S, NEW h
  PROVE  h \in UNION {[D -> X] : D \in SUBSET S} <=> \E D \in SUBSET S : h \in [D -> X]
BY Zenon

\* Segments, from inside and from outside.
LEMMA SegmentsIn ==
  ASSUME NEW D \in SUBSET (0 .. Size), NEW h, h \in [D -> Seq(Nat)], \A o \in D : Begins(o, h[o])
  PROVE  h \in Segments
<1>1. h \in UNION {[E -> Seq(Nat)] : E \in SUBSET (0 .. Size)}
  BY UnionIs
<1>2. DOMAIN h = D
  OBVIOUS
<1>3. QED
  BY <1>1, <1>2 DEF Segments

LEMMA SegmentsOut ==
  ASSUME NEW h \in Segments
  PROVE  /\ DOMAIN h \in SUBSET (0 .. Size) /\ DOMAIN h \in SUBSET Nat /\ h \in [DOMAIN h -> Seq(Nat)]
         /\ \A o \in DOMAIN h : Begins(o, h[o])
<1>1. h \in UNION {[E -> Seq(Nat)] : E \in SUBSET (0 .. Size)} /\ \A o \in DOMAIN h : Begins(o, h[o])
  BY DEF Segments
<1>2. PICK D \in SUBSET (0 .. Size) : h \in [D -> Seq(Nat)]
  BY <1>1, UnionIs
<1>3. DOMAIN h = D
  BY <1>2
<1>4. D \in SUBSET Nat
  BY SizesFit
<1>5. QED
  BY <1>1, <1>2, <1>3, <1>4

Reassembler == [read : 0 .. Size, fin : BOOLEAN, final : Int, segments : Segments]

LEMMA NewStreamIs == NewStream \in Reassembler
<1>1. <<>> \in Segments
  <2>1. <<>> \in [{} -> Seq(Nat)] /\ {} \in SUBSET (0 .. Size)
    OBVIOUS
  <2>2. QED
    BY <2>1, SegmentsIn
<1>2. 0 \in 0 .. Size
  BY SizesFit
<1>3. QED
  BY <1>1, <1>2 DEF NewStream, Reassembler

\* Segments of s0 that s has no more were read to their end.
Kept(s0, s) ==
  \A o \in DOMAIN s0.segments :
    (o \in DOMAIN s.segments /\ s.segments[o] = s0.segments[o]) \/ o + Len(s0.segments[o]) <= s.read

\* What one read has made of s0 so far.
Readings == [s : Reassembler, result : Seq(Nat), more : BOOLEAN]
HasRead(s0, r) ==
  /\ s0.read <= r.s.read /\ r.result = Bytes(s0.read, r.s.read)
  /\ r.s.fin = s0.fin /\ r.s.final = s0.final /\ Kept(s0, r.s)

LEMMA RemovedIs ==
  ASSUME NEW h \in Segments, NEW o
  PROVE  [x \in DOMAIN h \ {o} |-> h[x]] \in Segments
<1>1. DOMAIN h \in SUBSET (0 .. Size) /\ h \in [DOMAIN h -> Seq(Nat)] /\ \A x \in DOMAIN h : Begins(x, h[x])
  BY SegmentsOut
<1> DEFINE D == DOMAIN h \ {o}
           g == [x \in D |-> h[x]]
<1>2. D \in SUBSET (0 .. Size) /\ g \in [D -> Seq(Nat)] /\ \A x \in D : Begins(x, g[x])
  BY <1>1
<1>3. g \in Segments
  <2> HIDE DEF D, g
  <2>1. QED
    BY <1>2, SegmentsIn
<1>4. QED
  BY <1>3

\* The reassembler after a turn that copies.
Taken(s, o, copy, done) ==
  [read |-> s.read + copy, fin |-> s.fin, final |-> s.final,
   segments |-> IF done THEN [x \in DOMAIN s.segments \ {o} |-> s.segments[x]] ELSE s.segments]

\* A turn copies `copy' bytes, from offset rd on, of a segment of K bytes from offset o on.
Copies(from, rd, o, K, copy) ==
  /\ from \in 0 .. Size /\ rd \in 0 .. Size /\ o \in 0 .. Size /\ K \in Nat \ {0} /\ copy \in Nat
  /\ o <= rd /\ from <= rd /\ o + K \in 0 .. Size /\ (copy = 0 \/ (rd - o) + copy <= K)

LEMMA CopySums ==
  ASSUME NEW from, NEW rd, NEW o, NEW K, NEW copy, Copies(from, rd, o, K, copy)
  PROVE  /\ Size \in Nat /\ rd \in Nat /\ from \in Nat /\ o \in Nat /\ rd - o \in Nat
         /\ rd + copy \in 0 .. Size /\ rd + copy \in Nat /\ from <= rd + copy /\ rd <= rd + copy
         /\ ((rd - o) + copy >= K => o + K <= rd + copy)
<1>1. Size \in Nat /\ rd \in Nat /\ o \in Nat /\ from \in Nat /\ copy \in Nat /\ K \in Nat
  BY SizesFit DEF Copies
<1>2. o <= rd /\ from <= rd /\ rd <= Size /\ o + K <= Size /\ (copy = 0 \/ (rd - o) + copy <= K)
  BY <1>1 DEF Copies
<1>3. rd - o \in Nat
  BY <1>1, <1>2
<1>4. rd + copy <= Size
  BY <1>1, <1>2
<1>5. (rd - o) + copy >= K => o + K <= rd + copy
  BY <1>1, <1>2
<1>6. QED
  BY <1>1, <1>2, <1>3, <1>4, <1>5

LEMMA CopiedBytes ==
  ASSUME NEW from, NEW rd, NEW o, NEW K, NEW copy, Copies(from, rd, o, K, copy)
  PROVE  /\ Bytes(from, rd) \o SubSeq(Bytes(o, o + K), (rd - o) + 1, (rd - o) + copy) = Bytes(from, rd + copy)
         /\ Bytes(from, rd + copy) \in Seq(Nat)
<1> DEFINE skip == rd - o
           next  == rd + copy
           hi   == o + K
           b    == skip + copy
<1>1. /\ Size \in Nat /\ rd \in Nat /\ from \in Nat /\ o \in Nat /\ skip \in Nat
      /\ next \in 0 .. Size /\ next \in Nat /\ from <= next /\ rd <= next
  BY CopySums
<1>2. rd \in 0 .. Size /\ from \in 0 .. Size /\ o \in 0 .. Size /\ hi \in 0 .. Size /\ from <= rd
      /\ copy \in Nat /\ K \in Nat
  BY DEF Copies
<1>3. copy = 0 \/ skip + copy <= K
  BY DEF Copies
<1>4. b \in Nat /\ skip <= b /\ o <= hi /\ (skip = b \/ b <= hi - o) /\ (skip = b <=> copy = 0)
  BY <1>1, <1>2, <1>3
<1>5. o + skip = rd /\ o + b = next
  BY <1>1, <1>2
<1> HIDE DEF skip, next, hi, b
<1>7. SubSeq(Bytes(o, hi), skip + 1, b) = Bytes(rd, next)
  <2>1. CASE copy = 0
    <3>1. next = rd /\ b = skip
      BY <1>1, <1>4, <2>1 DEF next
    <3>2. Bytes(rd, rd) = <<>> /\ SubSeq(Bytes(o, hi), skip + 1, skip) = <<>>
      BY <1>1, NoBytes DEF Bytes
    <3>3. QED
      BY <3>1, <3>2
  <2>2. CASE copy # 0
    <3>1. skip < b /\ b <= hi - o
      BY <1>1, <1>4, <2>2
    <3>2. SubSeq(Bytes(o, hi), skip + 1, b) = Bytes(o + skip, o + b)
      <4>1. \A x, y \in Nat : x < y /\ y <= hi - o => SubSeq(Bytes(o, hi), x + 1, y) = Bytes(o + x, o + y)
        BY ZenonT(40), <1>2, <1>4, BytesOfBytes
      <4>2. QED
        BY <1>1, <1>4, <3>1, <4>1
    <3>3. QED
      BY <1>5, <3>2
  <2>3. QED
    BY <2>1, <2>2
<1>8. Bytes(from, rd) \o Bytes(rd, next) = Bytes(from, next)
  BY <1>1, <1>2, JoinedBytes
<1>9. Bytes(from, next) \in Seq(Nat)
  BY <1>1, <1>2, BytesBetween
<1>10. QED
  BY <1>7, <1>8, <1>9 DEF skip, next, hi, b

\* Such a turn hands out the bytes that come next, and erases only what it finished.
LEMMA TakenIs ==
  ASSUME NEW s0, NEW r \in Readings, HasRead(s0, r), s0 \in Reassembler,
         NEW o \in DOMAIN r.s.segments, o <= r.s.read,
         NEW skip, skip = r.s.read - o, NEW data, data = r.s.segments[o],
         NEW copy \in Nat, NEW done \in BOOLEAN,
         copy = 0 \/ skip + copy <= Len(data), done => skip + copy >= Len(data),
         NEW r2, r2 = [s |-> Taken(r.s, o, copy, done), result |-> r.result \o SubSeq(data, skip + 1, skip + copy), more |-> done]
  PROVE  r2 \in Readings /\ HasRead(s0, r2)
<1>1. /\ r.s.read \in 0 .. Size /\ r.s.segments \in Segments /\ r.s.fin \in BOOLEAN /\ r.s.final \in Int
      /\ s0.read \in 0 .. Size /\ r.result \in Seq(Nat) /\ s0.segments \in Segments /\ s0.read <= r.s.read
      /\ r.result = Bytes(s0.read, r.s.read) /\ r.s.fin = s0.fin /\ r.s.final = s0.final
  BY DEF Readings, Reassembler, HasRead
<1>2. o \in 0 .. Size /\ Begins(o, data)
  BY <1>1, SegmentsOut
<1>3. /\ Len(data) \in Nat \ {0} /\ o + Len(data) \in 0 .. Size /\ data = Bytes(o, o + Len(data)) /\ o \in Nat
      /\ data \in Seq(Nat)
  BY <1>2, BeginsIs
<1> DEFINE rd == r.s.read
           from == s0.read
           K    == Len(data)
           next  == rd + copy
<1>a. skip = rd - o /\ o <= rd /\ from <= rd /\ rd \in 0 .. Size /\ from \in 0 .. Size /\ K \in Nat \ {0} /\ o + K \in 0 .. Size
  BY <1>1, <1>3
<1>b. (copy = 0 \/ skip + copy <= K) /\ (done => skip + copy >= K)
  BY DEF K
<1>c. data = Bytes(o, o + K) /\ r.result = Bytes(from, rd)
  BY <1>1, <1>3 DEF K, from, rd
<1> HIDE DEF rd, from, K
<1>d. Copies(from, rd, o, K, copy)
  BY <1>2, <1>a, <1>b DEF Copies
<1>4. /\ rd \in Nat /\ o \in Nat /\ next \in 0 .. Size /\ next \in Nat /\ from <= next /\ rd <= next
      /\ (skip + copy >= K => o + K <= next)
  BY <1>a, <1>d, CopySums
<1>5. /\ Bytes(from, rd) \o SubSeq(Bytes(o, o + K), (rd - o) + 1, (rd - o) + copy) = Bytes(from, next)
      /\ Bytes(from, next) \in Seq(Nat)
  BY <1>d, CopiedBytes
<1> HIDE DEF next
<1>8. r.result \o SubSeq(data, skip + 1, skip + copy) = Bytes(from, next)
  BY <1>a, <1>c, <1>5
<1>9. Bytes(from, next) \in Seq(Nat)
  BY <1>5
<1> DEFINE left == IF done THEN [x \in DOMAIN r.s.segments \ {o} |-> r.s.segments[x]] ELSE r.s.segments
<1>10. left \in Segments
  BY <1>1, RemovedIs
<1>11. /\ r2.s.read = next /\ r2.s.fin = r.s.fin /\ r2.s.final = r.s.final /\ r2.s.segments = left
       /\ r2.result = Bytes(from, next)
  BY <1>8 DEF Taken, rd, next
<1>12. r2 \in Readings
  <2> DEFINE s2 == Taken(r.s, o, copy, done)
  <2>1. s2 \in Reassembler
    <3>1. s2 = [read |-> next, fin |-> r.s.fin, final |-> r.s.final, segments |-> left]
      BY DEF Taken, rd, next
    <3> HIDE DEF left, s2
    <3>2. QED
      BY <1>1, <1>4, <1>10, <3>1 DEF Reassembler
  <2> HIDE DEF s2
  <2>2. r2 = [s |-> s2, result |-> Bytes(from, next), more |-> done]
    BY <1>8 DEF s2
  <2>3. QED
    <3>1. Bytes(from, next) \in Seq(Nat)
      BY <1>9
    <3> DEFINE x == Bytes(from, next)
    <3> HIDE DEF x
    <3>2. x \in Seq(Nat) /\ s2 \in Reassembler /\ done \in BOOLEAN /\ r2 = [s |-> s2, result |-> x, more |-> done]
      BY <2>1, <2>2, <3>1 DEF x
    <3>3. QED
      BY ONLY <3>2 DEF Readings
<1>13. Kept(s0, r2.s)
  <2> SUFFICES ASSUME NEW x \in DOMAIN s0.segments
               PROVE  (x \in DOMAIN left /\ left[x] = s0.segments[x]) \/ x + Len(s0.segments[x]) <= next
    BY <1>11 DEF Kept
  <2>1. (x \in DOMAIN r.s.segments /\ r.s.segments[x] = s0.segments[x]) \/ x + Len(s0.segments[x]) <= rd
    BY DEF HasRead, Kept, rd
  <2>2. x \in Nat /\ Len(s0.segments[x]) \in Nat
    <3>1. x \in 0 .. Size /\ Begins(x, s0.segments[x])
      BY <1>1, SegmentsOut
    <3>2. QED
      BY <3>1, BeginsIs
  <2>3. CASE x + Len(s0.segments[x]) <= rd
    BY <1>4, <2>2, <2>3
  <2>4. CASE x \in DOMAIN r.s.segments /\ r.s.segments[x] = s0.segments[x] /\ (x # o \/ ~done)
    BY <2>4
  <2>5. CASE x \in DOMAIN r.s.segments /\ r.s.segments[x] = s0.segments[x] /\ x = o /\ done
    <3>1. Len(s0.segments[x]) = K /\ skip + copy >= K
      BY <1>b, <2>5 DEF K
    <3>2. o + K <= next
      BY <1>4, <3>1
    <3>4. x + K <= next
      BY <2>5, <3>2
    <3>3. QED
      BY <3>1, <3>4
  <2>6. QED
    BY <2>1, <2>3, <2>4, <2>5
<1>14. QED
  BY <1>1, <1>4, <1>11, <1>12, <1>13 DEF HasRead, from

\* A turn of Read's loop keeps to that, whether it copies or ends the loop.
LEMMA TurnIs ==
  ASSUME NEW s0 \in Reassembler, NEW r \in Readings, HasRead(s0, r), NEW maxBytes \in Nat
  PROVE  Turn(r, maxBytes) \in Readings /\ HasRead(s0, Turn(r, maxBytes))
<1> DEFINE o    == Min(DOMAIN r.s.segments)
           data == r.s.segments[o]
           skip == r.s.read - o
           left == Len(data) - skip
           room == maxBytes - Len(r.result)
           copy == IF left <= 0 THEN 0 ELSE IF left < room THEN left ELSE room
           done == left <= 0 \/ skip + copy >= Len(data)
           ends == ~r.more \/ DOMAIN r.s.segments = {} \/ room <= 0 \/ o > r.s.read
           r2 == [s |-> Taken(r.s, o, copy, done), result |-> r.result \o SubSeq(data, skip + 1, skip + copy), more |-> done]
<1>1. /\ r.s \in Reassembler /\ r.s.segments \in Segments /\ r.s.read \in 0 .. Size /\ r.result \in Seq(Nat)
      /\ r = [s |-> r.s, result |-> r.result, more |-> r.more]
  BY DEF Readings, Reassembler
<1>2. r.s = [read |-> r.s.read, fin |-> r.s.fin, final |-> r.s.final, segments |-> r.s.segments]
  BY <1>1 DEF Reassembler
<1>3. Turn(r, maxBytes) = IF ends THEN [r EXCEPT !.more = FALSE]
        ELSE [s |-> [r.s EXCEPT !.read = r.s.read + copy,
                                !.segments = IF done THEN [x \in DOMAIN r.s.segments \ {o} |-> r.s.segments[x]] ELSE r.s.segments],
              result |-> r.result \o SubSeq(data, skip + 1, skip + copy), more |-> done]
  BY DEF Turn, Skipped, Erases
<1>4. [r.s EXCEPT !.read = r.s.read + copy,
                  !.segments = IF done THEN [x \in DOMAIN r.s.segments \ {o} |-> r.s.segments[x]] ELSE r.s.segments]
        = Taken(r.s, o, copy, done)
  <2> DEFINE gone == IF done THEN [x \in DOMAIN r.s.segments \ {o} |-> r.s.segments[x]] ELSE r.s.segments
             next  == r.s.read + copy
  <2>1. Taken(r.s, o, copy, done) = [read |-> next, fin |-> r.s.fin, final |-> r.s.final, segments |-> gone]
    BY DEF Taken
  <2> HIDE DEF gone, next, o, copy, done
  <2>2. [r.s EXCEPT !.read = next] = [read |-> next, fin |-> r.s.fin, final |-> r.s.final, segments |-> r.s.segments]
    BY <1>2
  <2> DEFINE s1 == [r.s EXCEPT !.read = next]
  <2>5. [s1 EXCEPT !.segments = gone] = [read |-> next, fin |-> r.s.fin, final |-> r.s.final, segments |-> gone]
    <3> HIDE DEF s1
    <3>1. s1 = [read |-> next, fin |-> r.s.fin, final |-> r.s.final, segments |-> r.s.segments]
      BY <2>2 DEF s1
    <3>2. QED
      BY <3>1
  <2>4. [r.s EXCEPT !.read = next, !.segments = gone] = [s1 EXCEPT !.segments = gone]
    BY Zenon
  <2>3. QED
    BY <2>1, <2>4, <2>5 DEF gone, next
<1>5. Turn(r, maxBytes) = IF ends THEN [r EXCEPT !.more = FALSE] ELSE r2
  <2> HIDE DEF o, data, skip, copy, done, ends
  <2>1. QED
    BY <1>3, <1>4
<1> HIDE DEF ends
<1>6. CASE ends
  <2>1. Turn(r, maxBytes) = [s |-> r.s, result |-> r.result, more |-> FALSE]
    BY <1>1, <1>5, <1>6
  <2>2. QED
    BY <1>1, <2>1 DEF Readings, HasRead
<1>7. CASE ~ends
  <2>1. DOMAIN r.s.segments # {} /\ ~(room <= 0) /\ ~(o > r.s.read)
    BY <1>7 DEF ends
  <2>2. DOMAIN r.s.segments \in SUBSET Nat /\ DOMAIN r.s.segments \in SUBSET (0 .. Size)
    BY <1>1, SegmentsOut
  <2>3. o \in DOMAIN r.s.segments /\ o \in Nat
    <3> HIDE DEF r2
    <3>1. QED
      BY <2>1, <2>2, LeastIs DEF o
  <2> HIDE DEF o
  <2>4. Begins(o, data) /\ o \in 0 .. Size
    BY <1>1, <2>2, <2>3, SegmentsOut
  <2>5. Len(data) \in Nat
    BY <2>4, BeginsIs
  <2>6. r.s.read \in Nat /\ Len(r.result) \in Nat
    BY <1>1, SizesFit
  <2> HIDE DEF data
  <2>7. o <= r.s.read /\ skip \in Nat /\ left \in Int /\ room \in Nat \ {0}
    BY <2>1, <2>3, <2>5, <2>6
  <2> DEFINE K == Len(data)
  <2> HIDE DEF room, K
  <2>8. left = K - skip /\ K \in Nat
    BY <2>5 DEF K
  <2> HIDE DEF skip, left
  <2>9. copy \in Nat /\ (copy = 0 \/ skip + copy <= K) /\ (done => skip + copy >= K)
    <3>1. done => left <= 0 \/ skip + copy >= K
      BY DEF K
    <3> HIDE DEF done
    <3>2. CASE left <= 0
      <4>1. copy = 0 /\ skip >= K
        BY <2>7, <2>8, <3>2
      <4>2. QED
        BY <2>7, <2>8, <4>1
    <3>3. CASE ~(left <= 0)
      <4>1. copy \in Nat /\ copy <= left
        BY <2>7, <2>8, <3>3
      <4> HIDE DEF copy
      <4>2. QED
        BY <2>7, <2>8, <3>1, <3>3, <4>1
    <3>4. QED
      BY <3>2, <3>3
  <2>10. done \in BOOLEAN
    BY Zenon
  <2> HIDE DEF copy, done
  <2>11. r2 \in Readings /\ HasRead(s0, r2)
    <3>1. skip = r.s.read - o /\ data = r.s.segments[o]
      BY DEF skip, data
    <3>2. (copy = 0 \/ skip + copy <= Len(data)) /\ (done => skip + copy >= Len(data))
      BY <2>9 DEF K
    <3> HIDE DEF r2
    <3>3. r2 = [s |-> Taken(r.s, o, copy, done), result |-> r.result \o SubSeq(data, skip + 1, skip + copy), more |-> done]
      BY DEF r2
    <3>4. QED
      BY <2>3, <2>7, <2>9, <2>10, <3>1, <3>2, <3>3, TakenIs
  <2> HIDE DEF r2
  <2>12. QED
    BY <1>5, <1>7, <2>11
<1>8. QED
  BY <1>6, <1>7

\* A read gives the bytes that follow those already read, as many as it moves on by,
\* and lets go of nothing else.
LEMMA ReadIs ==
  ASSUME NEW s \in Reassembler, NEW maxBytes \in Nat
  PROVE  Read(s, maxBytes) \in Readings /\ HasRead(s, Read(s, maxBytes))
<1> DEFINE X     == {r \in Readings : HasRead(s, r)}
           L     == Cardinality(DOMAIN s.segments)
           base  == [s |-> s, result |-> <<>>, more |-> TRUE]
           step  == [n \in 1 .. L |-> [r \in X |-> Turn(r, maxBytes)]]
           IsChain(c) == c = [n \in 0 .. L |-> IF n = 0 THEN base ELSE Turn(c[n - 1], maxBytes)]
<1>1. L \in Nat
  <2>1. DOMAIN s.segments \in SUBSET (0 .. Size) /\ 0 \in Int /\ Size \in Int
    BY SegmentsOut, SizesFit DEF Reassembler
  <2>2. IsFiniteSet(0 .. Size)
    BY <2>1, FS_Interval
  <2>3. IsFiniteSet(DOMAIN s.segments)
    BY <2>1, <2>2, FS_Subset
  <2>4. QED
    BY <2>3, FS_CardinalityType
<1>2. base \in X
  <2>1. s.read \in 0 .. Size /\ s.read \in Nat
    BY SizesFit DEF Reassembler
  <2>2. Bytes(s.read, s.read) = <<>>
    BY <2>1, NoBytes DEF Bytes
  <2>3. HasRead(s, base)
    BY <2>1, <2>2 DEF HasRead, Kept
  <2>4. base \in Readings
    BY DEF Readings
  <2>5. QED
    BY <2>3, <2>4
<1>3. ASSUME NEW r \in X PROVE Turn(r, maxBytes) \in X
  BY TurnIs
<1> HIDE DEF X, base
<1>4. step \in [1 .. L -> [X -> X]] /\ \A n \in 1 .. L, r \in X : step[n][r] = Turn(r, maxBytes)
  BY <1>3
<1> HIDE DEF step
<1>5. PICK g : g \in [0 .. L -> X] /\ Stepwise(L, base, step, g)
  <2>1. Steps(L, X, base, step)
    BY <1>1, <1>2, <1>4 DEF Steps
  <2>2. QED
    BY <2>1, StepwiseExists
<1>6. \A n \in 0 .. L : n # 0 => n \in 1 .. L /\ n - 1 \in 0 .. L
  BY <1>1
<1>8. Read(s, maxBytes) = (CHOOSE c : IsChain(c))[L]
  BY DEF Read, base
<1> HIDE DEF L
<1>7. IsChain(g)
  <2>1. \A n \in 0 .. L : n # 0 => g[n - 1] \in X /\ step[n][g[n - 1]] = Turn(g[n - 1], maxBytes)
    BY <1>4, <1>5, <1>6
  <2>2. \A n \in 0 .. L : g[n] = IF n = 0 THEN base ELSE Turn(g[n - 1], maxBytes)
    BY <1>5, <1>6, <2>1 DEF Stepwise
  <2>3. QED
    BY <1>5, <2>2
<1>9. PICK c : IsChain(c) /\ Read(s, maxBytes) = c[L]
  <2> HIDE DEF IsChain
  <2>1. QED
    BY <1>7, <1>8
<1> DEFINE P == {n \in 0 .. L : c[n] \in X}
<1>10. \A n \in 0 .. L : n \in P
  <2>1. 0 \in P
    BY <1>1, <1>2, <1>9
  <2>2. ASSUME NEW n \in 1 .. L, n - 1 \in P PROVE n \in P
    <3>1. n \in 0 .. L /\ n # 0 /\ c[n - 1] \in X
      BY <1>1, <2>2
    <3>2. c[n] = Turn(c[n - 1], maxBytes)
      BY <1>9, <3>1
    <3>3. QED
      BY <1>3, <3>1, <3>2
  <2> HIDE DEF P
  <2>3. QED
    BY <1>1, <2>1, <2>2, UpTo
<1>11. c[L] \in X
  BY <1>1, <1>10
<1>12. QED
  BY <1>9, <1>11 DEF X

--------------------------------------------------------------------------------
(* StreamReassembler::PushFrame. *)

\* A frame is bytes of its stream at their offset, and only a cut packet can
\* make it claim an end that is not the stream's.
LEMMA SliceIs ==
  ASSUME NEW f, NEW whole, IsSlice(f, whole)
  PROVE  /\ f.id \in Stream /\ f.offset \in 0 .. Size /\ f.fin \in BOOLEAN /\ f.data \in Seq(Nat)
         /\ Len(f.data) \in Nat /\ f.offset \in Nat /\ FinalSize(f) \in 0 .. Size /\ FinalSize(f) \in Int
         /\ f.data = <<>> \/ Begins(f.offset, f.data)
         /\ whole /\ f.fin => FinalSize(f) = Size
         /\ IsStream(f)
<1>1. PICK s \in Stream, lo \in 0 .. Size, hi \in 0 .. Size, fin \in BOOLEAN :
        f = SliceOf(s, lo, hi, fin) /\ lo <= hi /\ (whole /\ fin => hi = Size)
  BY DEF IsSlice
<1>2. f.id = s /\ f.offset = lo /\ f.fin = fin /\ f.data = Bytes(lo, hi) /\ f.kind = "stream"
  BY <1>1 DEF SliceOf, Bytes
<1>3. Bytes(lo, hi) \in Seq(Nat) /\ Len(Bytes(lo, hi)) = hi - lo /\ lo \in Nat /\ hi \in Nat /\ hi - lo \in Nat
  BY <1>1, BytesBetween
<1>4. lo + (hi - lo) = hi
  BY <1>3
<1>5. FinalSize(f) = hi
  BY <1>2, <1>3, <1>4 DEF FinalSize
<1>6. f.data = <<>> \/ Begins(f.offset, f.data)
  <2>1. CASE lo = hi
    <3>1. Bytes(lo, lo) = <<>>
      BY <1>3, NoBytes DEF Bytes
    <3>2. QED
      BY <1>2, <2>1, <3>1
  <2>2. CASE lo # hi
    <3>1. lo < hi
      BY <1>1, <1>3, <2>2
    <3>2. QED
      BY <1>2, <3>1 DEF Begins
  <2>3. QED
    BY <2>1, <2>2
<1>7. Len(f.data) \in Nat
  BY <1>2, <1>3
<1>8. IsStream(f)
  BY <1>2 DEF IsStream
<1>9. QED
  BY <1>1, <1>2, <1>3, <1>5, <1>6, <1>7, <1>8

\* A segment has the byte at position p.
Held(s, p) == \E o \in DOMAIN s.segments : p \in o + 1 .. o + Len(s.segments[o])

\* The frame replaces a longer segment.
Shortens(s, f) == f.offset \in DOMAIN s.segments /\ f.data # <<>> /\ Len(f.data) < Len(s.segments[f.offset])

LEMMA SegmentsWith ==
  ASSUME NEW h \in Segments, NEW o \in 0 .. Size, NEW data, Begins(o, data),
         NEW g, g = [x \in DOMAIN h \union {o} |-> IF x = o THEN data ELSE h[x]]
  PROVE  g \in Segments
<1>1. DOMAIN h \in SUBSET (0 .. Size) /\ h \in [DOMAIN h -> Seq(Nat)] /\ \A x \in DOMAIN h : Begins(x, h[x])
  BY SegmentsOut
<1>2. data \in Seq(Nat)
  BY BeginsIs
<1> DEFINE D == DOMAIN h \union {o}
<1>3. D \in SUBSET (0 .. Size) /\ g \in [D -> Seq(Nat)] /\ \A x \in D : Begins(x, g[x])
  BY <1>1, <1>2
<1> HIDE DEF D
<1>4. QED
  BY <1>3, SegmentsIn

\* What a frame changes in its reassembler.
LEMMA PushType ==
  ASSUME NEW s \in Reassembler, NEW f, NEW whole, IsSlice(f, whole)
  PROVE  /\ PushFrame(s, f) \in Reassembler /\ PushFrame(s, f).read = s.read
         /\ PushFrame(s, f).fin = (s.fin \/ f.fin)
         /\ PushFrame(s, f).final = IF f.fin THEN FinalSize(f) ELSE s.final
<1>1. /\ f.offset \in 0 .. Size /\ f.fin \in BOOLEAN /\ FinalSize(f) \in Int
      /\ f.data = <<>> \/ Begins(f.offset, f.data)
  BY SliceIs
<1>2. s.segments \in Segments /\ s.read \in 0 .. Size /\ s.fin \in BOOLEAN /\ s.final \in Int
  BY DEF Reassembler
<1> DEFINE g   == [o \in DOMAIN s.segments \union {f.offset} |-> IF o = f.offset THEN f.data ELSE s.segments[o]]
           seg == IF f.data = <<>> THEN s.segments ELSE g
           e   == IF f.fin THEN FinalSize(f) ELSE s.final
           n   == s.fin \/ f.fin
<1>3. PushFrame(s, f) = [read |-> s.read, fin |-> n, final |-> e, segments |-> seg]
  BY DEF PushFrame
<1>4. g \in Segments \/ f.data = <<>>
  <2> HIDE DEF g
  <2>1. g = [o \in DOMAIN s.segments \union {f.offset} |-> IF o = f.offset THEN f.data ELSE s.segments[o]]
    BY DEF g
  <2>2. QED
    BY <1>1, <1>2, <2>1, SegmentsWith
<1> HIDE DEF g
<1>5. seg \in Segments
  BY <1>2, <1>4
<1>6. e \in Int
  BY <1>1, <1>2
<1>7. n \in BOOLEAN
  BY Zenon
<1> HIDE DEF seg, e, n
<1>8. PushFrame(s, f) \in Reassembler
  BY <1>2, <1>3, <1>5, <1>6, <1>7 DEF Reassembler
<1>9. PushFrame(s, f).fin = n
  BY <1>3
<1>10. PushFrame(s, f).read = s.read /\ PushFrame(s, f).final = e
  BY <1>3
<1>11. QED
  BY <1>8, <1>9, <1>10 DEF e, n

\* A frame brings its positions, and takes none away unless it is a shorter one.
LEMMA PushHolds ==
  ASSUME NEW s \in Reassembler, NEW f, NEW whole, IsSlice(f, whole), NEW p \in Nat
  PROVE  /\ p \in Positions(f) => Held(PushFrame(s, f), p)
         /\ Held(s, p) /\ ~Shortens(s, f) => Held(PushFrame(s, f), p)
<1>1. f.offset \in Nat /\ Len(f.data) \in Nat
  BY SliceIs
<1>2. DOMAIN s.segments \in SUBSET Nat /\ \A o \in DOMAIN s.segments : Len(s.segments[o]) \in Nat
  <2>1. s.segments \in Segments
    BY DEF Reassembler
  <2>2. \A o \in DOMAIN s.segments : o \in 0 .. Size /\ Begins(o, s.segments[o])
    BY <2>1, SegmentsOut
  <2>3. QED
    BY <2>1, <2>2, SegmentsOut, BeginsIs
<1> DEFINE g == [o \in DOMAIN s.segments \union {f.offset} |-> IF o = f.offset THEN f.data ELSE s.segments[o]]
<1>3. CASE f.data = <<>>
  <2>1. PushFrame(s, f).segments = s.segments
    BY <1>3 DEF PushFrame
  <2>2. Len(f.data) = 0
    BY <1>3
  <2>3. p \notin Positions(f)
    BY <1>1, <2>2 DEF Positions
  <2>4. QED
    BY <2>1, <2>3 DEF Held
<1>4. CASE f.data # <<>>
  <2>1. PushFrame(s, f).segments = g
    BY <1>4 DEF PushFrame
  <2>2. /\ DOMAIN g = DOMAIN s.segments \union {f.offset} /\ g[f.offset] = f.data
        /\ \A o \in DOMAIN s.segments : o # f.offset => g[o] = s.segments[o]
    OBVIOUS
  <2> HIDE DEF g
  <2>3. ASSUME p \in Positions(f) PROVE Held(PushFrame(s, f), p)
    BY <2>1, <2>2, <2>3 DEF Held, Positions
  <2>4. ASSUME Held(s, p), ~Shortens(s, f) PROVE Held(PushFrame(s, f), p)
    <3>1. PICK o \in DOMAIN s.segments : p \in o + 1 .. o + Len(s.segments[o])
      BY <2>4 DEF Held
    <3>2. CASE o # f.offset
      BY <2>1, <2>2, <3>1, <3>2 DEF Held
    <3>3. CASE o = f.offset
      <4>1. ~(Len(f.data) < Len(s.segments[o]))
        BY <1>4, <2>4, <3>3 DEF Shortens
      <4> DEFINE a == Len(f.data)
                 b == Len(s.segments[o])
      <4>2. a \in Nat /\ b \in Nat /\ ~(a < b) /\ o \in Nat /\ p \in o + 1 .. o + b
        BY <1>1, <1>2, <3>1, <4>1
      <4> HIDE DEF a, b
      <4>3. p \in o + 1 .. o + a
        BY <4>2
      <4>4. QED
        BY <2>1, <2>2, <3>3, <4>3 DEF Held, a
    <3>4. QED
      BY <3>2, <3>3
  <2>5. QED
    BY <2>3, <2>4
<1>5. QED
  BY <1>3, <1>4

--------------------------------------------------------------------------------
(* Tables of streams. *)

Tables == UNION {[D -> Reassembler] : D \in SUBSET Stream}

\* The table with r for the stream s.
TableWith(t, s, r) == [x \in DOMAIN t \union {s} |-> IF x = s THEN r ELSE t[x]]

LEMMA TableIs ==
  ASSUME NEW t \in Tables
  PROVE  DOMAIN t \in SUBSET Stream /\ t \in [DOMAIN t -> Reassembler] /\ \A s : StreamOf(t, s) \in Reassembler
<1>1. PICK D \in SUBSET Stream : t \in [D -> Reassembler]
  BY UnionIs DEF Tables
<1>2. DOMAIN t = D
  BY <1>1
<1>3. \A s : StreamOf(t, s) \in Reassembler
  BY <1>1, <1>2, NewStreamIs DEF StreamOf
<1>4. QED
  BY <1>1, <1>2, <1>3

LEMMA TableWithIs ==
  ASSUME NEW t \in Tables, NEW s \in Stream, NEW r \in Reassembler
  PROVE  /\ TableWith(t, s, r) \in Tables
         /\ StreamOf(TableWith(t, s, r), s) = r
         /\ \A x : x # s => StreamOf(TableWith(t, s, r), x) = StreamOf(t, x)
<1>1. DOMAIN t \in SUBSET Stream /\ t \in [DOMAIN t -> Reassembler]
  BY TableIs
<1> DEFINE D == DOMAIN t \union {s}
<1>2. D \in SUBSET Stream /\ TableWith(t, s, r) \in [D -> Reassembler]
  BY <1>1 DEF TableWith
<1>3. TableWith(t, s, r) \in Tables
  <2> HIDE DEF D
  <2>1. QED
    BY <1>2, UnionIs DEF Tables
<1>4. StreamOf(TableWith(t, s, r), s) = r
  BY DEF TableWith, StreamOf
<1>5. ASSUME NEW x, x # s PROVE StreamOf(TableWith(t, s, r), x) = StreamOf(t, x)
  BY <1>5 DEF TableWith, StreamOf
<1>6. QED
  BY <1>3, <1>4, <1>5

\* What there may be between two frames.
Engines(M) == [table : Tables, received : Nat, maximum : M]

\* Every frame of a stream is a slice.
FrameOK(f, whole) == IsStream(f) => IsSlice(f, whole)

\* Applied, for a STREAM frame and for another.
LEMMA AppliedStream ==
  ASSUME NEW M, NEW e \in Engines(M), NEW f, NEW whole, IsSlice(f, whole)
  PROVE  /\ Applied(e, f) \in Engines(M)
         /\ Applied(e, f).table = TableWith(e.table, f.id, PushFrame(StreamOf(e.table, f.id), f))
<1>1. IsStream(f) /\ f.id \in Stream /\ Len(f.data) \in Nat
  BY SliceIs
<1>2. e.table \in Tables /\ e.received \in Nat /\ e.maximum \in M
      /\ e = [table |-> e.table, received |-> e.received, maximum |-> e.maximum]
  BY DEF Engines
<1> DEFINE pushed == PushFrame(StreamOf(e.table, f.id), f)
           table  == TableWith(e.table, f.id, pushed)
           count  == e.received + Len(f.data)
           e1     == [e EXCEPT !.received = count]
<1>3. pushed \in Reassembler
  BY <1>2, TableIs, PushType
<1> HIDE DEF pushed
<1>4. table \in Tables
  BY <1>1, <1>2, <1>3, TableWithIs
<1>5. count \in Nat
  BY <1>1, <1>2
<1>6. Applied(e, f) = [e EXCEPT !.received = count,
                               !.table = [s \in DOMAIN e.table \union {f.id} |->
                                            IF s = f.id THEN pushed ELSE e.table[s]]]
  BY <1>1, Zenon DEF Applied, pushed
<1>7. [s \in DOMAIN e.table \union {f.id} |-> IF s = f.id THEN pushed ELSE e.table[s]] = table
  BY DEF TableWith
<1> HIDE DEF table, count
<1>8. Applied(e, f) = [e1 EXCEPT !.table = table]
  BY <1>6, <1>7, Zenon
<1>9. e1 = [table |-> e.table, received |-> count, maximum |-> e.maximum]
  BY <1>2
<1> HIDE DEF e1
<1>10. Applied(e, f) = [table |-> table, received |-> count, maximum |-> e.maximum]
  BY <1>8, <1>9
<1>11. QED
  BY <1>2, <1>4, <1>5, <1>10 DEF Engines, table, pushed

LEMMA AppliedOther ==
  ASSUME NEW M, NEW e \in Engines(M), NEW f, ~IsStream(f), f.maximum \in M
  PROVE  Applied(e, f) \in Engines(M) /\ Applied(e, f).table = e.table
<1>1. Applied(e, f) = e \/ Applied(e, f) = [e EXCEPT !.maximum = f.maximum]
  BY Zenon DEF Applied
<1>2. QED
  BY <1>1 DEF Engines

LEMMA AppliedType ==
  ASSUME NEW M, NEW e \in Engines(M), NEW f, NEW whole, FrameOK(f, whole), f.maximum \in M
  PROVE  Applied(e, f) \in Engines(M)
BY AppliedStream, AppliedOther DEF FrameOK

\* What one frame does to a stream.
LEMMA AppliedIs ==
  ASSUME NEW M, NEW e \in Engines(M), NEW f, NEW whole, FrameOK(f, whole), f.maximum \in M, NEW x
  PROVE  StreamOf(Applied(e, f).table, x)
           = IF IsStream(f) /\ f.id = x THEN PushFrame(StreamOf(e.table, x), f) ELSE StreamOf(e.table, x)
<1>1. CASE IsStream(f)
  <2>1. IsSlice(f, whole)
    BY <1>1 DEF FrameOK
  <2> DEFINE r == PushFrame(StreamOf(e.table, f.id), f)
  <2>2. e.table \in Tables /\ f.id \in Stream
    BY <2>1, SliceIs DEF Engines
  <2>3. r \in Reassembler
    BY <2>1, <2>2, TableIs, PushType
  <2>4. Applied(e, f).table = TableWith(e.table, f.id, r)
    BY <2>1, AppliedStream
  <2> HIDE DEF r
  <2>5. /\ StreamOf(TableWith(e.table, f.id, r), f.id) = r
        /\ x # f.id => StreamOf(TableWith(e.table, f.id, r), x) = StreamOf(e.table, x)
    BY <2>2, <2>3, TableWithIs
  <2>6. QED
    BY <1>1, <2>4, <2>5 DEF r
<1>2. CASE ~IsStream(f)
  BY <1>2, AppliedOther
<1>3. QED
  BY <1>1, <1>2

--------------------------------------------------------------------------------
(* A packet. *)

\* c holds what there is after each of the frames.
Chain(frames, c, M) ==
  /\ c[0] = [table |-> streams, received |-> received, maximum |-> maxData]
  /\ \A n \in 0 .. Len(frames) : c[n] \in Engines(M)
  /\ \A n \in 1 .. Len(frames) : c[n] = Applied(c[n - 1], frames[n])
  /\ \A n \in 1 .. Len(frames) : frames[n].maximum \in M

Mine(frames) == {i \in DOMAIN frames : IsStream(frames[i])}

\* What ProcessPacket leaves, by way of c.
Leaves(frames, whole, c) ==
  /\ streams' = c[Len(frames)].table /\ received' = c[Len(frames)].received
  /\ got' = [s \in Stream |->
               got[s] \union UNION {Positions(frames[i]) : i \in {j \in Mine(frames) : frames[j].id = s}}]
  /\ shrunk' = shrunk \union {frames[i].id : i \in {j \in Mine(frames) : Shrinks(c[j - 1].table, frames[j])}}
  /\ truncated' = truncated \union (IF whole THEN {} ELSE {frames[i].id : i \in Mine(frames)})
  /\ UNCHANGED out

\* ProcessPacket's loop.
LEMMA PacketIs ==
  ASSUME NEW frames, NEW whole, NEW S, frames \in Seq(S), \A f \in S : FrameOK(f, whole),
         streams \in Tables, received \in Nat, ProcessPacket(frames, whole)
  PROVE  \E c, M : Chain(frames, c, M) /\ Leaves(frames, whole, c)
<1> DEFINE L     == Len(frames)
           M     == {maxData} \union {frames[i].maximum : i \in 1 .. L}
           X     == Engines(M)
           base  == [table |-> streams, received |-> received, maximum |-> maxData]
           step  == [n \in 1 .. L |-> [e \in X |-> Applied(e, frames[n])]]
           IsChain(c) == c = [n \in 0 .. L |-> IF n = 0 THEN base ELSE Applied(c[n - 1], frames[n])]
<1>1. L \in Nat /\ \A n \in 1 .. L : FrameOK(frames[n], whole) /\ frames[n].maximum \in M
  OBVIOUS
<1>2. base \in X
  BY DEF Engines
<1>8. \E c : c = (CHOOSE x : IsChain(x)) /\ Leaves(frames, whole, c)
  BY DEF ProcessPacket, Leaves, Mine
<1> HIDE DEF M
<1>3. ASSUME NEW e \in X, NEW n \in 1 .. L PROVE Applied(e, frames[n]) \in X
  BY <1>1, AppliedType
<1> HIDE DEF X, base
<1>4. step \in [1 .. L -> [X -> X]] /\ \A n \in 1 .. L, e \in X : step[n][e] = Applied(e, frames[n])
  BY <1>3
<1> HIDE DEF step
<1>5. PICK g : g \in [0 .. L -> X] /\ Stepwise(L, base, step, g)
  <2>1. Steps(L, X, base, step)
    BY <1>1, <1>2, <1>4 DEF Steps
  <2>2. QED
    BY <2>1, StepwiseExists
<1>6. \A n \in 0 .. L : n # 0 => n \in 1 .. L /\ n - 1 \in 0 .. L
  BY <1>1
<1> HIDE DEF L
<1>7. IsChain(g)
  <2>1. \A n \in 0 .. L : n # 0 => g[n - 1] \in X /\ step[n][g[n - 1]] = Applied(g[n - 1], frames[n])
    BY <1>4, <1>5, <1>6
  <2>2. \A n \in 0 .. L : g[n] = IF n = 0 THEN base ELSE Applied(g[n - 1], frames[n])
    BY <1>5, <1>6, <2>1 DEF Stepwise
  <2>3. QED
    BY <1>5, <2>2
<1>9. PICK c : IsChain(c) /\ Leaves(frames, whole, c)
  <2> HIDE DEF IsChain
  <2>1. QED
    BY <1>7, <1>8
<1> DEFINE P == {n \in 0 .. L : c[n] \in X}
<1>10. \A n \in 1 .. L : n \in 0 .. L /\ n # 0 /\ c[n] = Applied(c[n - 1], frames[n])
  BY <1>1, <1>9
<1>11. \A n \in 0 .. L : n \in P
  <2>1. 0 \in P
    BY <1>1, <1>2, <1>9
  <2>2. ASSUME NEW n \in 1 .. L, n - 1 \in P PROVE n \in P
    <3>1. c[n - 1] \in X
      BY <2>2
    <3>2. Applied(c[n - 1], frames[n]) \in X
      BY <1>3, <3>1
    <3>3. QED
      BY <1>10, <3>2
  <2> HIDE DEF P
  <2>3. QED
    BY <1>1, <2>1, <2>2, UpTo
<1>12. c[0] = base
  BY <1>1, <1>9
<1>13. Chain(frames, c, M)
  BY <1>1, <1>10, <1>11, <1>12 DEF Chain, L, X, base
<1>14. QED
  BY <1>9, <1>13

\* The stream s after n frames.
StreamAt(c, n, s) == StreamOf(c[n].table, s)

\* Frame i is one of s.
Of(frames, i, s) == IsStream(frames[i]) /\ frames[i].id = s

\* What frame n makes of s.
Stepped(frames, whole, c, s, n) ==
  /\ StreamAt(c, n - 1, s) \in Reassembler /\ FrameOK(frames[n], whole)
  /\ Of(frames, n, s) => StreamAt(c, n, s) = PushFrame(StreamAt(c, n - 1, s), frames[n])
  /\ ~Of(frames, n, s) => StreamAt(c, n, s) = StreamAt(c, n - 1, s)

LEMMA FrameStep ==
  ASSUME NEW frames, NEW whole, NEW c, NEW M, NEW S, frames \in Seq(S), \A f \in S : FrameOK(f, whole),
         Chain(frames, c, M), NEW s, NEW n \in 1 .. Len(frames)
  PROVE  Stepped(frames, whole, c, s, n)
<1>1. FrameOK(frames[n], whole) /\ frames[n].maximum \in M
  BY DEF Chain
<1>2. n - 1 \in 0 .. Len(frames) /\ c[n] = Applied(c[n - 1], frames[n])
  BY DEF Chain
<1>3. c[n - 1] \in Engines(M)
  BY <1>2 DEF Chain
<1> DEFINE e == c[n - 1]
           f == frames[n]
<1>4. e \in Engines(M) /\ FrameOK(f, whole) /\ f.maximum \in M
  BY <1>1, <1>3
<1> HIDE DEF e, f
<1>5. StreamOf(Applied(e, f).table, s)
        = IF IsStream(f) /\ f.id = s THEN PushFrame(StreamOf(e.table, s), f) ELSE StreamOf(e.table, s)
  BY <1>4, AppliedIs
<1>6. StreamOf(e.table, s) \in Reassembler
  BY <1>4, TableIs DEF Engines
<1>7. QED
  BY <1>1, <1>2, <1>5, <1>6 DEF Stepped, StreamAt, Of, e, f

\* All that is said of the frames of a packet and the streams between them.
Linked(frames, whole, c) ==
  /\ Len(frames) \in Nat /\ DOMAIN frames = 1 .. Len(frames)
  /\ \A s : StreamAt(c, 0, s) = StreamOf(streams, s) /\ \A n \in 1 .. Len(frames) : Stepped(frames, whole, c, s, n)

LEMMA LinkedIs ==
  ASSUME NEW frames, NEW whole, NEW S, frames \in Seq(S), \A f \in S : FrameOK(f, whole),
         streams \in Tables, received \in Nat, ProcessPacket(frames, whole)
  PROVE  \E c : /\ Linked(frames, whole, c) /\ Leaves(frames, whole, c)
                /\ c[Len(frames)].table \in Tables /\ c[Len(frames)].received \in Nat
<1>1. PICK c, M : Chain(frames, c, M) /\ Leaves(frames, whole, c)
  BY PacketIs
<1>2. ASSUME NEW s, NEW n \in 1 .. Len(frames)
      PROVE  Stepped(frames, whole, c, s, n)
  BY <1>1, FrameStep
<1>3. \A s : StreamAt(c, 0, s) = StreamOf(streams, s)
  BY <1>1 DEF Chain, StreamAt
<1>4. Len(frames) \in Nat /\ DOMAIN frames = 1 .. Len(frames)
  OBVIOUS
<1>5. Linked(frames, whole, c)
  BY <1>2, <1>3, <1>4 DEF Linked
<1>6. c[Len(frames)].table \in Tables /\ c[Len(frames)].received \in Nat
  BY <1>1, <1>4 DEF Chain, Engines
<1>7. QED
  BY <1>1, <1>5, <1>6

\* No frame moves the place of a reader.
LEMMA ReadStays ==
  ASSUME NEW frames, NEW whole, NEW c, Linked(frames, whole, c), NEW s
  PROVE  StreamAt(c, Len(frames), s).read = StreamOf(streams, s).read
<1> DEFINE L == Len(frames)
           P == {n \in 0 .. L : StreamAt(c, n, s).read = StreamOf(streams, s).read}
<1>1. L \in Nat /\ 0 \in P
  BY DEF Linked
<1>2. ASSUME NEW n \in 1 .. L, n - 1 \in P PROVE n \in P
  <2>1. /\ StreamAt(c, n - 1, s) \in Reassembler /\ FrameOK(frames[n], whole) /\ n \in 0 .. L
        /\ Of(frames, n, s) => StreamAt(c, n, s) = PushFrame(StreamAt(c, n - 1, s), frames[n])
        /\ ~Of(frames, n, s) => StreamAt(c, n, s) = StreamAt(c, n - 1, s)
    BY <1>1 DEF Linked, Stepped
  <2>2. CASE Of(frames, n, s)
    <3>1. IsSlice(frames[n], whole)
      BY <2>1, <2>2 DEF FrameOK, Of
    <3>2. PushFrame(StreamAt(c, n - 1, s), frames[n]).read = StreamAt(c, n - 1, s).read
      BY <2>1, <3>1, PushType
    <3>3. QED
      BY <1>2, <2>1, <2>2, <3>2
  <2>3. CASE ~Of(frames, n, s)
    BY <1>2, <2>1, <2>3
  <2>4. QED
    BY <2>2, <2>3
<1> HIDE DEF P, L
<1>3. L \in P
  BY <1>1, <1>2, UpTo
<1>4. QED
  BY <1>3 DEF P, L

\* The end that the stream was told of is the end of it.
EndOK(r) == r.fin => r.final = Size

\* Only the frame of a cut packet can announce another end than the stream has.
LEMMA EndStays ==
  ASSUME NEW frames, NEW whole, NEW c, Linked(frames, whole, c), NEW s, EndOK(StreamOf(streams, s)),
         whole \/ \A i \in Mine(frames) : frames[i].id # s
  PROVE  EndOK(StreamAt(c, Len(frames), s))
<1> DEFINE L == Len(frames)
           P == {n \in 0 .. L : EndOK(StreamAt(c, n, s))}
<1>1. L \in Nat /\ 0 \in P
  BY DEF Linked
<1>2. ASSUME NEW n \in 1 .. L, n - 1 \in P PROVE n \in P
  <2>1. /\ StreamAt(c, n - 1, s) \in Reassembler /\ FrameOK(frames[n], whole) /\ n \in 0 .. L
        /\ Of(frames, n, s) => StreamAt(c, n, s) = PushFrame(StreamAt(c, n - 1, s), frames[n])
        /\ ~Of(frames, n, s) => StreamAt(c, n, s) = StreamAt(c, n - 1, s)
    BY <1>1 DEF Linked, Stepped
  <2>2. CASE Of(frames, n, s)
    <3>1. IsSlice(frames[n], whole)
      BY <2>1, <2>2 DEF FrameOK, Of
    <3>2. whole
      BY <1>1, <2>2 DEF Mine, Of, Linked
    <3> DEFINE r == StreamAt(c, n - 1, s)
               f == frames[n]
    <3>3. /\ PushFrame(r, f).fin = (r.fin \/ f.fin)
          /\ PushFrame(r, f).final = IF f.fin THEN FinalSize(f) ELSE r.final
      BY <2>1, <3>1, PushType
    <3>4. f.fin => FinalSize(f) = Size
      BY <3>1, <3>2, SliceIs
    <3>5. EndOK(r)
      BY <1>2
    <3> HIDE DEF r, f
    <3>6. EndOK(PushFrame(r, f))
      BY <3>3, <3>4, <3>5 DEF EndOK
    <3>7. QED
      BY <2>1, <2>2, <3>6 DEF r, f
  <2>3. CASE ~Of(frames, n, s)
    BY <1>2, <2>1, <2>3
  <2>4. QED
    BY <2>2, <2>3
<1> HIDE DEF P, L
<1>3. L \in P
  BY <1>1, <1>2, UpTo
<1>4. QED
  BY <1>3 DEF P, L

\* What was held, and what these frames brought, is held after them.
LEMMA HeldStays ==
  ASSUME NEW frames, NEW whole, NEW c, Linked(frames, whole, c), NEW s, NEW p \in Nat,
         \A j \in Mine(frames) : frames[j].id = s => ~Shrinks(c[j - 1].table, frames[j]),
         \/ Held(StreamOf(streams, s), p)
         \/ \E i \in Mine(frames) : frames[i].id = s /\ p \in Positions(frames[i])
  PROVE  Held(StreamAt(c, Len(frames), s), p)
<1> DEFINE L == Len(frames)
           Came(n) == Held(StreamOf(streams, s), p) \/ \E i \in 1 .. L : i <= n /\ Of(frames, i, s) /\ p \in Positions(frames[i])
           P == {n \in 0 .. L : Came(n) => Held(StreamAt(c, n, s), p)}
<1>1. L \in Nat /\ DOMAIN frames = 1 .. L
  BY DEF Linked
<1>2. 0 \in P
  <2>1. \A i \in 1 .. L : ~(i <= 0)
    BY <1>1
  <2>2. StreamAt(c, 0, s) = StreamOf(streams, s) /\ 0 \in 0 .. L
    BY <1>1 DEF Linked
  <2>3. QED
    BY <2>1, <2>2
<1>3. ASSUME NEW n \in 1 .. L, n - 1 \in P PROVE n \in P
  <2>1. /\ StreamAt(c, n - 1, s) \in Reassembler /\ FrameOK(frames[n], whole) /\ n \in 0 .. L
        /\ Of(frames, n, s) => StreamAt(c, n, s) = PushFrame(StreamAt(c, n - 1, s), frames[n])
        /\ ~Of(frames, n, s) => StreamAt(c, n, s) = StreamAt(c, n - 1, s)
    BY <1>1 DEF Linked, Stepped
  <2>2. \A i \in 1 .. L : i <= n => i <= n - 1 \/ i = n
    BY <1>1
  <2>3. Came(n - 1) => Held(StreamAt(c, n - 1, s), p)
    BY <1>3
  <2> SUFFICES ASSUME Came(n) PROVE Held(StreamAt(c, n, s), p)
    BY <2>1
  <2>4. Came(n - 1) \/ (Of(frames, n, s) /\ p \in Positions(frames[n]))
    BY <2>2
  <2> HIDE DEF Came
  <2>5. CASE Of(frames, n, s)
    <3>1. IsSlice(frames[n], whole)
      BY <2>1, <2>5 DEF FrameOK, Of
    <3> DEFINE r == StreamAt(c, n - 1, s)
               f == frames[n]
    <3>2. ~Shortens(r, f)
      <4>1. ~Shrinks(c[n - 1].table, f) /\ f.id = s
        BY <1>1, <2>5 DEF Mine, Of
      <4>2. QED
        BY <4>1 DEF Shrinks, Shortens, StreamAt
    <3>3. /\ p \in Positions(f) => Held(PushFrame(r, f), p)
          /\ Held(r, p) /\ ~Shortens(r, f) => Held(PushFrame(r, f), p)
      BY <2>1, <3>1, PushHolds
    <3> HIDE DEF r, f
    <3>4. Held(PushFrame(r, f), p)
      BY <2>3, <2>4, <3>2, <3>3 DEF r, f
    <3>5. QED
      BY <2>1, <2>5, <3>4 DEF r, f
  <2>6. CASE ~Of(frames, n, s)
    BY <2>1, <2>3, <2>4, <2>6
  <2>7. QED
    BY <2>5, <2>6
<1>4. Came(L)
  <2>1. CASE Held(StreamOf(streams, s), p)
    BY <2>1
  <2>2. CASE \E i \in Mine(frames) : frames[i].id = s /\ p \in Positions(frames[i])
    <3>1. PICK i \in Mine(frames) : frames[i].id = s /\ p \in Positions(frames[i])
      BY <2>2
    <3>2. i \in 1 .. L /\ i <= L /\ Of(frames, i, s)
      BY <1>1, <3>1 DEF Mine, Of
    <3>3. QED
      BY <3>1, <3>2
  <2>3. QED
    BY <2>1, <2>2
<1> HIDE DEF P, L
<1>5. L \in P
  <2>1. \A i \in 0 .. L : i \in P
    BY Zenon, <1>1, <1>2, <1>3, UpTo
  <2>2. L \in 0 .. L
    BY ONLY <1>1
  <2>3. QED
    BY Zenon, <2>1, <2>2
<1>6. QED
  BY <1>4, <1>5 DEF P, L

--------------------------------------------------------------------------------
(* The inductive invariant. *)

QuicTypes == streams \in Tables /\ received \in Nat /\ got \in [Stream -> SUBSET Nat]

\* What was read of a stream is all that comes before its place.
OutIsRead == out = [s \in Stream |-> Bytes(0, StreamOf(streams, s).read)]

\* The end of a stream is known by a frame whose end is its own.
EndsAreKnown == \A s \in Stream \ truncated : EndOK(StreamOf(streams, s))

\* The invariant: readers got what precedes their place, ends are known as they are,
\* and what arrived is still there.
QuicInv == QuicTypes /\ OutIsRead /\ EndsAreKnown /\ NothingIsDropped

LEMMA LengthOfOut ==
  ASSUME QuicTypes, OutIsRead, NEW s \in Stream
  PROVE  /\ StreamOf(streams, s) \in Reassembler /\ StreamOf(streams, s).read \in 0 .. Size
         /\ StreamOf(streams, s).read \in Nat /\ out[s] = Bytes(0, StreamOf(streams, s).read)
         /\ Len(out[s]) = StreamOf(streams, s).read
<1>1. StreamOf(streams, s) \in Reassembler
  BY TableIs DEF QuicTypes
<1> DEFINE rd == StreamOf(streams, s).read
<1>2. rd \in 0 .. Size
  BY <1>1 DEF Reassembler
<1>3. out[s] = Bytes(0, rd)
  BY DEF OutIsRead
<1> HIDE DEF rd
<1>4. 0 \in 0 .. Size /\ 0 <= rd /\ rd \in Nat /\ rd - 0 = rd
  BY <1>2, SizesFit
<1>5. Len(Bytes(0, rd)) = rd
  BY <1>2, <1>4, BytesBetween
<1>6. QED
  BY <1>1, <1>2, <1>3, <1>4, <1>5 DEF rd

LEMMA DroppedIs ==
  ASSUME QuicTypes, OutIsRead
  PROVE  NothingIsDropped <=> \A s \in Stream \ shrunk : \A p \in got[s] :
           p <= StreamOf(streams, s).read \/ Held(StreamOf(streams, s), p)
BY LengthOfOut DEF NothingIsDropped, Held

LEMMA QuicInitial == QuicInit => QuicInv
<1> SUFFICES ASSUME QuicInit PROVE QuicInv
  OBVIOUS
<1>1. streams \in Tables
  <2>1. streams \in [{} -> Reassembler] /\ {} \in SUBSET Stream
    BY DEF QuicInit
  <2>2. QED
    BY <2>1, UnionIs DEF Tables
<1>2. QuicTypes
  BY <1>1 DEF QuicTypes, QuicInit
<1>3. \A s : StreamOf(streams, s) = NewStream
  BY DEF QuicInit, StreamOf
<1>4. OutIsRead
  <2>1. 0 \in Nat
    OBVIOUS
  <2>2. Bytes(0, 0) = <<>>
    BY <2>1, NoBytes DEF Bytes
  <2>3. \A s \in Stream : Bytes(0, StreamOf(streams, s).read) = <<>>
    BY <1>3, <2>2 DEF NewStream
  <2>4. QED
    BY <2>3 DEF OutIsRead, QuicInit
<1>5. EndsAreKnown
  BY <1>3 DEF EndsAreKnown, EndOK, NewStream
<1>6. NothingIsDropped
  BY DEF NothingIsDropped, QuicInit
<1>7. QED
  BY <1>2, <1>4, <1>5, <1>6 DEF QuicInv

\* A packet changes nothing that was read, and drops nothing.
LEMMA PacketStep ==
  ASSUME QuicInv, NEW a \in Arrivals, ProcessPacket(a[1], a[2])
  PROVE  QuicInv' /\ out' = out
<1> DEFINE frames == a[1]
           whole  == a[2]
           L      == Len(frames)
<1>1. /\ QuicTypes /\ OutIsRead /\ EndsAreKnown /\ NothingIsDropped
      /\ streams \in Tables /\ received \in Nat
  BY DEF QuicInv, QuicTypes
<1>2. PICK S : frames \in Seq(S) /\ \A f \in S : FrameOK(f, whole)
  BY PacketsHoldSlices DEF Delivered, FrameOK
<1>3. whole \in BOOLEAN
  BY PacketsHoldSlices
<1>4. PICK c : /\ Linked(frames, whole, c) /\ Leaves(frames, whole, c)
               /\ c[L].table \in Tables /\ c[L].received \in Nat
  BY <1>1, <1>2, LinkedIs
<1> HIDE DEF frames, whole
<1>5. /\ streams' = c[L].table /\ received' = c[L].received /\ out' = out
      /\ got' = [s \in Stream |->
                   got[s] \union UNION {Positions(frames[i]) : i \in {j \in Mine(frames) : frames[j].id = s}}]
      /\ shrunk' = shrunk \union {frames[i].id : i \in {j \in Mine(frames) : Shrinks(c[j - 1].table, frames[j])}}
      /\ truncated' = truncated \union (IF whole THEN {} ELSE {frames[i].id : i \in Mine(frames)})
  BY <1>4 DEF Leaves
<1>6. \A s : StreamOf(streams', s) = StreamAt(c, L, s)
  BY <1>5 DEF StreamAt
<1>7. \A i \in Mine(frames) : Positions(frames[i]) \in SUBSET Nat
  <2> TAKE i \in Mine(frames)
  <2>1. IsSlice(frames[i], whole)
    BY <1>2 DEF Mine, FrameOK
  <2>2. frames[i].offset \in Nat /\ Len(frames[i].data) \in Nat
    BY <2>1, SliceIs
  <2> DEFINE o == frames[i].offset
             k == Len(frames[i].data)
  <2> HIDE DEF o, k
  <2>3. o \in Nat /\ k \in Nat
    BY <2>2 DEF o, k
  <2>4. o + 1 .. o + k \in SUBSET Nat
    BY <2>3
  <2>5. QED
    BY <2>4 DEF Positions, o, k
<1>8. QuicTypes'
  <2>1. got' \in [Stream -> SUBSET Nat]
    BY <1>1, <1>5, <1>7 DEF QuicTypes
  <2>2. QED
    BY <1>4, <1>5, <2>1 DEF QuicTypes
<1>9. \A s : StreamOf(streams', s).read = StreamOf(streams, s).read
  BY <1>4, <1>6, ReadStays
<1>10. OutIsRead'
  BY <1>1, <1>5, <1>9 DEF OutIsRead
<1>11. EndsAreKnown'
  <2> SUFFICES ASSUME NEW s \in Stream, s \notin truncated' PROVE EndOK(StreamOf(streams', s))
    BY DEF EndsAreKnown
  <2>1. s \notin truncated /\ (whole \/ \A i \in Mine(frames) : frames[i].id # s)
    BY <1>3, <1>5
  <2>2. EndOK(StreamOf(streams, s))
    BY <1>1, <2>1 DEF EndsAreKnown
  <2>3. EndOK(StreamAt(c, L, s))
    BY <1>4, <2>1, <2>2, EndStays
  <2>4. QED
    BY <1>6, <2>3
<1>12. NothingIsDropped'
  <2> SUFFICES ASSUME NEW s \in Stream, s \notin shrunk', NEW p \in got'[s]
               PROVE  p <= Len(out'[s]) \/ Held(StreamOf(streams', s), p)
    BY DEF NothingIsDropped, Held
  <2>1. s \notin shrunk /\ \A j \in Mine(frames) : frames[j].id = s => ~Shrinks(c[j - 1].table, frames[j])
    BY <1>5
  <2>2. p \in Nat
    BY <1>8 DEF QuicTypes
  <2>3. p \in got[s] \/ \E i \in Mine(frames) : frames[i].id = s /\ p \in Positions(frames[i])
    BY <1>5
  <2>4. p \in got[s] => p <= Len(out[s]) \/ Held(StreamOf(streams, s), p)
    BY <1>1, <2>1 DEF NothingIsDropped, Held
  <2>5. CASE p <= Len(out[s])
    BY <1>5, <2>5
  <2>6. CASE Held(StreamOf(streams, s), p) \/ \E i \in Mine(frames) : frames[i].id = s /\ p \in Positions(frames[i])
    <3>1. Held(StreamAt(c, L, s), p)
      BY <1>4, <2>1, <2>2, <2>6, HeldStays
    <3>2. QED
      BY <1>6, <3>1
  <2>7. QED
    BY <2>3, <2>4, <2>5, <2>6
<1>13. QED
  BY <1>5, <1>8, <1>10, <1>11, <1>12 DEF QuicInv

\* A read is a step of the pipe, or leaves what was read as it was.
LEMMA ReadStep ==
  ASSUME QuicInv, NEW s \in Stream, NEW n \in 1 .. Size, ReadStream(s, n)
  PROVE  QuicInv' /\ (out' = out \/ Pipe!Get(s))
<1> DEFINE was == StreamOf(streams, s)
           r   == Read(was, n)
           rd  == was.read
           next == r.s.read
<1>1. QuicTypes /\ OutIsRead /\ EndsAreKnown /\ NothingIsDropped /\ streams \in Tables
  BY DEF QuicInv, QuicTypes
<1>2. /\ streams' = TableWith(streams, s, r.s) /\ out' = [out EXCEPT ![s] = out[s] \o r.result]
      /\ UNCHANGED <<received, got, shrunk, truncated>>
  BY DEF ReadStream, TableWith
<1>3. was \in Reassembler /\ rd \in 0 .. Size /\ rd \in Nat /\ out[s] = Bytes(0, rd) /\ Len(out[s]) = rd
  BY <1>1, LengthOfOut
<1>4. r \in Readings /\ HasRead(was, r)
  <2>1. n \in Nat
    BY SizesFit
  <2> HIDE DEF was
  <2>2. QED
    BY <1>3, <2>1, ReadIs
<1> HIDE DEF was, r
<1>5. /\ r.s \in Reassembler /\ next \in 0 .. Size /\ rd <= next /\ r.result = Bytes(rd, next)
      /\ r.s.fin = was.fin /\ r.s.final = was.final /\ Kept(was, r.s)
  BY <1>4 DEF HasRead, Readings, Reassembler
<1>6. next \in Nat /\ 0 \in 0 .. Size /\ 0 <= rd /\ 0 <= next /\ next <= Size /\ Size \in Nat
  BY <1>3, <1>5, SizesFit
<1>7. streams' \in Tables /\ StreamOf(streams', s) = r.s /\ \A x : x # s => StreamOf(streams', x) = StreamOf(streams, x)
  BY <1>1, <1>2, <1>5, TableWithIs
<1>8. QuicTypes'
  BY <1>1, <1>2, <1>7 DEF QuicTypes
<1>9. out[s] \o r.result = Bytes(0, next)
  <2> HIDE DEF rd, next
  <2>1. QED
    BY ZenonT(40), <1>3, <1>5, <1>6, JoinedBytes
<1>10. out' = [out EXCEPT ![s] = Bytes(0, next)]
  BY <1>2, <1>9
<1>11. OutIsRead'
  <2>1. \A x \in Stream : Bytes(0, StreamOf(streams', x).read) = IF x = s THEN Bytes(0, next) ELSE Bytes(0, StreamOf(streams, x).read)
    BY <1>7
  <2> HIDE DEF next
  <2>2. QED
    BY <1>1, <1>10, <2>1 DEF OutIsRead
<1>12. EndsAreKnown'
  <2> SUFFICES ASSUME NEW x \in Stream, x \notin truncated PROVE EndOK(StreamOf(streams', x))
    BY <1>2 DEF EndsAreKnown
  <2>1. EndOK(StreamOf(streams, x))
    BY <1>1 DEF EndsAreKnown
  <2>2. QED
    BY <1>5, <1>7, <2>1 DEF EndOK, was
<1>13. NothingIsDropped'
  <2>1. NothingIsDropped' <=> \A x \in Stream \ shrunk' : \A p \in got'[x] :
          p <= StreamOf(streams', x).read \/ Held(StreamOf(streams', x), p)
    <3>1. \A x \in Stream : Len(out'[x]) = StreamOf(streams', x).read
      <4> TAKE x \in Stream
      <4>1. x # s => Len(out'[x]) = Len(out[x]) /\ Len(out[x]) = StreamOf(streams, x).read
        BY <1>1, <1>10, LengthOfOut
      <4>2. out'[s] = Bytes(0, next)
        BY <1>1, <1>10 DEF OutIsRead
      <4>3. Len(Bytes(0, next)) = next
        <5> HIDE DEF next
        <5>1. next - 0 = next
          BY <1>6
        <5>2. QED
          BY <1>5, <1>6, <5>1, BytesBetween DEF next
      <4>4. QED
        BY <1>7, <4>1, <4>2, <4>3
    <3>2. QED
      BY <3>1 DEF NothingIsDropped, Held
  <2> SUFFICES ASSUME NEW x \in Stream \ shrunk, NEW p \in got[x]
               PROVE  p <= StreamOf(streams', x).read \/ Held(StreamOf(streams', x), p)
    BY <1>2, <2>1
  <2>2. p <= StreamOf(streams, x).read \/ Held(StreamOf(streams, x), p)
    BY <1>1, DroppedIs
  <2>3. CASE x # s
    BY <1>7, <2>2, <2>3
  <2>4. CASE x = s
    <3>1. p \in Nat
      BY <1>1 DEF QuicTypes
    <3>2. p <= rd \/ Held(was, p)
      BY <2>2, <2>4 DEF was
    <3>3. CASE p <= rd
      <4> HIDE DEF rd, next
      <4>1. p <= next
        BY <1>3, <1>5, <1>6, <3>1, <3>3
      <4>2. QED
        BY <1>7, <2>4, <4>1 DEF next
    <3>4. CASE Held(was, p)
      <4>1. PICK o \in DOMAIN was.segments : p \in o + 1 .. o + Len(was.segments[o])
        BY <3>4 DEF Held
      <4>2. (o \in DOMAIN r.s.segments /\ r.s.segments[o] = was.segments[o]) \/ o + Len(was.segments[o]) <= next
        BY <1>5 DEF Kept
      <4>3. o \in Nat /\ Len(was.segments[o]) \in Nat
        <5>1. o \in 0 .. Size /\ Begins(o, was.segments[o])
          BY <1>3, SegmentsOut DEF Reassembler
        <5>2. QED
          BY <5>1, BeginsIs
      <4>4. CASE o \in DOMAIN r.s.segments /\ r.s.segments[o] = was.segments[o]
        <5>1. Held(r.s, p)
          BY <4>1, <4>4 DEF Held
        <5>2. QED
          BY <1>7, <2>4, <5>1
      <4>5. CASE o + Len(was.segments[o]) <= next
        <5> DEFINE k == Len(was.segments[o])
        <5> HIDE DEF k, next
        <5>1. o + k <= next /\ k \in Nat /\ p \in o + 1 .. o + k
          BY <4>1, <4>3, <4>5 DEF k
        <5>2. p <= next
          BY <1>6, <3>1, <4>3, <5>1
        <5>3. QED
          BY <1>7, <2>4, <5>2 DEF next
      <4>6. QED
        BY <4>2, <4>4, <4>5
    <3>5. QED
      BY <3>2, <3>3, <3>4
  <2>5. QED
    BY <2>3, <2>4
<1>14. out' = out \/ Pipe!Get(s)
  <2>1. CASE next = rd
    <3>1. out' = [out EXCEPT ![s] = out[s]]
      BY <1>3, <1>10, <2>1
    <3>2. out = [x \in Stream |-> out[x]]
      BY <1>1 DEF OutIsRead
    <3>3. QED
      BY <3>1, <3>2
  <2>2. CASE next # rd
    <3>1. Len(Written) = Size
      BY <1>6 DEF Written
    <3> HIDE DEF next, rd
    <3>2. next \in rd + 1 .. Size
      BY <1>3, <1>5, <1>6, <2>2
    <3>3. Bytes(0, next) = SubSeq(Written, 1, next)
      BY DEF Bytes
    <3>4. QED
      BY <1>3, <1>10, <3>1, <3>2, <3>3 DEF Pipe!Get
  <2>3. QED
    BY <2>1, <2>2
<1>15. QED
  BY <1>8, <1>11, <1>12, <1>13, <1>14 DEF QuicInv

--------------------------------------------------------------------------------
(* What the streams promise. *)

LEMMA QuicSteps == QuicInv /\ [QuicNext]_quicVars => QuicInv'
<1> SUFFICES ASSUME QuicInv, [QuicNext]_quicVars PROVE QuicInv'
  OBVIOUS
<1>1. CASE \E a \in Arrivals : ProcessPacket(a[1], a[2])
  BY <1>1, PacketStep
<1>2. CASE \E s \in Stream, n \in 1 .. Size : ReadStream(s, n)
  BY <1>2, ReadStep
<1>3. CASE UNCHANGED quicVars
  BY <1>3 DEF QuicInv, QuicTypes, OutIsRead, EndsAreKnown, NothingIsDropped, quicVars
<1>4. QED
  BY <1>1, <1>2, <1>3 DEF QuicNext

LEMMA QuicInvariant == QuicSpec => []QuicInv
BY QuicInitial, QuicSteps, PTL DEF QuicSpec

\* Whatever frames overlap, repeat or overtake each other, a byte that arrived is read or
\* still held, unless a shorter slice replaced the one that had it
\* (StreamReassembler::PushFrame, Read).
THEOREM NothingArrivedIsLost == QuicSpec => []NothingIsDropped
<1>1. QuicInv => NothingIsDropped
  BY DEF QuicInv
<1>2. QED
  BY <1>1, QuicInvariant, PTL

\* A stream none of whose frames lost its end with the packet's is finished exactly when its
\* reader has all that was written to it and the end was announced (StreamReassembler::IsFinished).
THEOREM FinishedMeansComplete == QuicSpec => []FinishedIsComplete
<1>1. QuicInv => FinishedIsComplete
  <2> SUFFICES ASSUME QuicInv, NEW s \in DOMAIN streams, s \notin truncated
               PROVE  /\ IsFinished(streams[s]) => out[s] = Written
                      /\ Len(out[s]) = Size /\ streams[s].fin => IsFinished(streams[s])
    BY DEF FinishedIsComplete
  <2>1. QuicTypes /\ OutIsRead /\ EndsAreKnown
    BY DEF QuicInv
  <2>2. s \in Stream
    BY <2>1, TableIs DEF QuicTypes
  <2>3. StreamOf(streams, s) = streams[s]
    BY DEF StreamOf
  <2>4. out[s] = Bytes(0, streams[s].read) /\ Len(out[s]) = streams[s].read
    BY <2>1, <2>2, <2>3, LengthOfOut
  <2>5. streams[s].fin => streams[s].final = Size
    BY <2>1, <2>2, <2>3 DEF EndsAreKnown, EndOK
  <2>6. Bytes(0, Size) = Written
    <3>1. Written \in Seq(Nat) /\ Len(Written) = Size /\ 0 + 1 = 1
      BY SizesFit DEF Written
    <3>2. QED
      BY <3>1, SubSeqFull DEF Bytes
  <2>7. QED
    BY <2>4, <2>5, <2>6 DEF IsFinished
<1>2. QED
  BY <1>1, QuicInvariant, PTL

\* The engine, bytes of packets and all, implements a pipe for each stream: every step is
\* a step of BytePipe or leaves what was read as it was (QuicEngine::ProcessPacket, Read).
THEOREM StreamsImplementPipes == QuicSpec => StreamsArePipes
<1>1. QuicInit => Pipe!Init
  BY DEF QuicInit, Pipe!Init
<1>2. QuicInv /\ [QuicNext]_quicVars => [Pipe!Next]_out
  <2> SUFFICES ASSUME QuicInv, [QuicNext]_quicVars PROVE out' = out \/ \E s \in Stream : Pipe!Get(s)
    BY DEF Pipe!Next
  <2>1. CASE \E a \in Arrivals : ProcessPacket(a[1], a[2])
    BY <2>1, PacketStep
  <2>2. CASE \E s \in Stream, n \in 1 .. Size : ReadStream(s, n)
    BY <2>2, ReadStep
  <2>3. CASE UNCHANGED quicVars
    BY <2>3 DEF quicVars
  <2>4. QED
    BY <2>1, <2>2, <2>3 DEF QuicNext
<1>3. QED
  BY <1>1, <1>2, QuicInvariant, PTL DEF QuicSpec, StreamsArePipes, Pipe!Spec
===============================================================================
