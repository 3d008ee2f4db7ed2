------------------------------- MODULE Firewall --------------------------------
(***************************************************************************)
(* The packet filter (tasks/ebpf-xdp-stateful-firewall): a token bucket    *)
(* per /24 subnet, then connection tracking for TCP.  ProcessPacket takes  *)
(* the limiter's lock and then the table's, so packets of other threads    *)
(* come in between.                                                        *)
(*                                                                         *)
(* A packet is stamped when it arrives; the packets of a flow arrive at    *)
(* one receive queue and are processed in order, those of different queues *)
(* are not.  The queues, and the thread that expires connections, are      *)
(* external.  Tokens are counted in units of which a packet costs Cost and *)
(* a tick brings Rate: the code's doubles are taken as exact.  Sequence    *)
(* and acknowledgement numbers are stored by the code and never read.      *)
(***************************************************************************)
EXTENDS Integers, Sequences, FiniteSets

CONSTANTS
  Tcp, Other,     \* flows (FiveTuple), with protocol 6 and without
  Subnet,         \* src_ip & 0xFFFFFF00
  SubnetOf,       \* of each flow
  Queue, QueueOf, \* receive queues, one thread each
  Rate, Burst, Cost,   \* default_rate_, default_burst_, cost
  MaxEntries,     \* max_entries_
  Timeout,        \* what CleanupExpired is called with
  Width,          \* timestamps are subtracted modulo Width: 2^64
  MaxTime, MaxPackets  \* bounds: the clock, packets that arrive

Flow == Tcp \union Other

ASSUME FirewallAssumption ==
  /\ Tcp \cap Other = {}
  /\ SubnetOf \in [Flow -> Subnet] /\ QueueOf \in [Flow -> Queue]
  /\ {Rate, Burst, Cost, MaxEntries, Timeout, MaxPackets} \subseteq Nat
  /\ Width \in Nat /\ MaxTime \in Nat /\ MaxTime + Timeout < Width  \* no clock gets there

VARIABLES
  bucket,   \* buckets_: [tokens, last] of each subnet
  entry,    \* entries_: [state, seen] of each flow that has one
  inbox,    \* the packet each queue's thread works on
  now,      \* the clock that stamps packets
  arrived,  \* packets so far
  \* What is remembered for the properties.
  history,  \* flags of the packets of a flow that passed since its entry was made
  newest,   \* the newest stamp of a packet of a flow that passed
  spent,    \* cost of the packets a subnet's bucket let through
  first, latest,  \* oldest and newest stamps a bucket was given
  excused   \* subnets whose bucket was given a stamp of 0, or an older one than before

limiterVars == <<bucket, spent, first, latest, excused>>
trackVars   == <<entry, history, newest>>
firewallVars == <<limiterVars, trackVars, inbox, now, arrived>>

NoPacket == [step |-> "none"]
MinOf(i, j) == IF i < j THEN i ELSE j
MaxOf(i, j) == IF i > j THEN i ELSE j

\* The combinations of SYN, ACK, FIN and RST that packets carry.
Flags == {{"SYN"}, {"SYN", "ACK"}, {"ACK"}, {"FIN", "ACK"}, {"RST"}}

FirewallInit ==
  /\ bucket = [s \in Subnet |-> [tokens |-> 0, last |-> 0]]
  /\ entry = <<>>
  /\ inbox = [q \in Queue |-> NoPacket]
  /\ now = 0
  /\ arrived = 0
  /\ history = [f \in Flow |-> <<>>]
  /\ newest = [f \in Flow |-> 0]
  /\ spent = [s \in Subnet |-> 0]
  /\ first = [s \in Subnet |-> 0]
  /\ latest = [s \in Subnet |-> 0]
  /\ excused = {}

Tick ==
  /\ now < MaxTime
  /\ now' = now + 1
  /\ UNCHANGED <<limiterVars, trackVars, inbox, arrived>>

Arrive(f, flags) ==
  /\ arrived < MaxPackets
  /\ inbox[QueueOf[f]] = NoPacket
  /\ inbox' = [inbox EXCEPT ![QueueOf[f]] =
                 [step |-> "limit", flow |-> f, flags |-> flags, stamp |-> now]]
  /\ arrived' = arrived + 1
  /\ UNCHANGED <<limiterVars, trackVars, now>>

\* The bucket when a packet stamped `stamp' asks for tokens.  A bucket whose last
\* stamp is 0 counts as new; the difference of stamps is unsigned.
RefilledRoundingUp(b, stamp) ==
  IF b.last = 0 THEN Burst
  ELSE MinOf(Burst, b.tokens + ((stamp - b.last + 1) % Width) * Rate)
Refilled(b, stamp) ==
  IF b.last = 0 THEN Burst
  ELSE MinOf(Burst, b.tokens + ((stamp - b.last) % Width) * Rate)

\* RateLimiter::AllowPacket, and what ProcessPacket does with its answer.
AllowPacket(q) ==
  LET p      == inbox[q]
      s      == SubnetOf[p.flow]
      tokens == Refilled(bucket[s], p.stamp)
      pass   == tokens >= Cost
  IN  /\ p.step = "limit"
      /\ bucket' = [bucket EXCEPT ![s] = [tokens |-> tokens - (IF pass THEN Cost ELSE 0),
                                          last |-> p.stamp]]
      /\ inbox' = [inbox EXCEPT ![q] = IF pass /\ p.flow \in Tcp THEN [p EXCEPT !.step = "track"]
                                                                 ELSE NoPacket]
      /\ spent' = [spent EXCEPT ![s] = @ + (IF pass THEN Cost ELSE 0)]
      /\ first' = [first EXCEPT ![s] = IF @ = 0 THEN p.stamp ELSE @]
      /\ latest' = [latest EXCEPT ![s] = MaxOf(@, p.stamp)]
      /\ excused' = excused \union (IF p.stamp = 0 \/ p.stamp < latest[s] THEN {s} ELSE {})
      /\ UNCHANGED <<trackVars, now, arrived>>

\* The state of an entry after a packet that does not end it.
AfterAnyAck(state, flags) ==
  CASE state = "SYN_SENT" /\ "ACK" \in flags -> "SYN_RECV"
    [] state = "SYN_RECV" /\ "ACK" \in flags -> "ESTABLISHED"
    [] OTHER -> IF "FIN" \in flags THEN "FIN_WAIT" ELSE state
After(state, flags) ==
  CASE state = "SYN_SENT" /\ {"SYN", "ACK"} \subseteq flags -> "SYN_RECV"
    [] state = "SYN_RECV" /\ "ACK" \in flags -> "ESTABLISHED"
    [] OTHER -> IF "FIN" \in flags THEN "FIN_WAIT" ELSE state

Put(f, e) == [x \in DOMAIN entry \union {f} |-> IF x = f THEN e ELSE entry[x]]
Without(S) == [x \in DOMAIN entry \ S |-> entry[x]]
IsFirst(flags) == "SYN" \in flags /\ "ACK" \notin flags

\* ConntrackTable::ProcessTcpPacket.
ProcessTcpPacket(q) ==
  LET p == inbox[q]
      f == p.flow
  IN  /\ p.step = "track"
      /\ inbox' = [inbox EXCEPT ![q] = NoPacket]
      /\ \/ /\ f \notin DOMAIN entry
            /\ IF IsFirst(p.flags) /\ Cardinality(DOMAIN entry) < MaxEntries
               THEN /\ entry' = Put(f, [state |-> "SYN_SENT", seen |-> p.stamp])
                    /\ history' = [history EXCEPT ![f] = <<p.flags>>]
                    /\ newest' = [newest EXCEPT ![f] = p.stamp]
               ELSE UNCHANGED trackVars
         \/ /\ f \in DOMAIN entry /\ "RST" \in p.flags
            /\ entry' = Without({f})
            /\ UNCHANGED <<history, newest>>
         \/ /\ f \in DOMAIN entry /\ "RST" \notin p.flags
            /\ entry' = Put(f, [state |-> After(entry[f].state, p.flags), seen |-> p.stamp])
            /\ history' = [history EXCEPT ![f] = Append(@, p.flags)]
            /\ newest' = [newest EXCEPT ![f] = MaxOf(@, p.stamp)]
      /\ UNCHANGED <<limiterVars, now, arrived>>

\* ConntrackTable::CleanupExpired at the present time.
ExpiredAtTimeout == {f \in DOMAIN entry : now >= (entry[f].seen + Timeout) % Width}
Expired == {f \in DOMAIN entry : now > (entry[f].seen + Timeout) % Width}
CleanupExpired ==
  /\ entry' = Without(Expired)
  /\ UNCHANGED <<limiterVars, history, newest, inbox, now, arrived>>

FirewallNext ==
  \/ Tick
  \/ \E f \in Tcp, flags \in Flags : Arrive(f, flags)
  \/ \E f \in Other : Arrive(f, {})
  \/ \E q \in Queue : AllowPacket(q) \/ ProcessTcpPacket(q)
  \/ CleanupExpired

FirewallSpec == FirewallInit /\ [][FirewallNext]_firewallVars

(***************************************************************************)
(* Properties                                                              *)
(***************************************************************************)
\* A subnet never gets more through than its burst and what its rate brought over
\* the time its packets span, however the threads of several queues interleave.
\* Only a stamp of 0, which makes the bucket new again, and a packet older than the
\* last, whose unsigned difference fills the bucket, break the bound.
AdmissionIsBounded ==
  \A s \in Subnet \ excused : spent[s] <= Burst + Rate * (latest[s] - first[s])

\* A connection is established only by a SYN that made its entry, a SYN-ACK and a
\* later ACK, all of its own flow and none of them before the entry: nothing is
\* inherited from a connection that was reset, expired, or refused by a full table.
EstablishedByHandshake ==
  \A f \in DOMAIN entry : entry[f].state = "ESTABLISHED" =>
    /\ IsFirst(history[f][1])
    /\ \E i, j \in 2 .. Len(history[f]) :
         i < j /\ {"SYN", "ACK"} \subseteq history[f][i] /\ "ACK" \in history[f][j]

\* Expiry spares every connection that a packet passed on within the timeout,
\* wherever the other threads are; only a RST, or silence, ends an entry.
LiveConnectionsSurvive ==
  [][\A f \in DOMAIN entry \ DOMAIN entry' :
       \/ now > newest[f] + Timeout
       \/ \E q \in Queue : inbox[q].step = "track" /\ inbox[q].flow = f
                           /\ "RST" \in inbox[q].flags /\ inbox'[q] = NoPacket]_firewallVars
===============================================================================
