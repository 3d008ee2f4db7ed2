------------------------------ MODULE QuicEngine -------------------------------
(***************************************************************************)
(* The QUIC engine (tasks/quic-stream-multiplexer-engine): packets are     *)
(* parsed, their frames go to the reassembler of their stream, and readers *)
(* take what is contiguous.                                                *)
(*                                                                         *)
(* The peer, external, cuts what it wrote into any slices, sends them in   *)
(* any order and as often as it likes; some packets arrive cut short or    *)
(* with frames the parser does not know.  The engine locks only its table  *)
(* of streams, so its callers must not push and read at once: a packet,    *)
(* and a read, is one step.  GenerateControlFrames has nothing to send     *)
(* (nothing is ever put in pending_control_frames_), and the limits of     *)
(* MAX_STREAM_DATA are parsed and ignored.                                 *)
(***************************************************************************)
EXTENDS QuicWire, FiniteSetsExt

CONSTANTS
  Stream,        \* stream ids
  Size,          \* how many bytes the peer writes to each
  InitialMaxData,
  MaxArrivals    \* bound: packets that arrive

ASSUME QuicAssumption ==
  /\ \A n \in Stream \union {Size} : n \in Nat /\ Shifted(n, 7) <= 63   \* 62 bits
  /\ Size > 0 /\ InitialMaxData \in Nat /\ MaxArrivals \in Nat

VARIABLES
  streams,   \* streams_: the StreamReassembler of each stream that has one
  received,  \* bytes_received_
  maxData,   \* max_data_
  packets,   \* so far
  \* What is remembered for the properties.
  out,       \* all that was read from each stream
  got,       \* the positions of each stream that frames brought
  shrunk,    \* streams with a segment replaced by a shorter one
  truncated  \* streams with a frame without LEN whose packet was cut: its end is lost

quicVars == <<streams, received, maxData, packets, out, got, shrunk, truncated>>

Written == [p \in 1 .. Size |-> p]   \* the byte at offset p - 1 is p

(***************************************************************************)
(* StreamReassembler                                                       *)
(***************************************************************************)
NewStream == [read |-> 0, fin |-> FALSE, final |-> -1, segments |-> <<>>]

FinalSizeOfData(frame) == Len(frame.data)
FinalSize(frame) == frame.offset + Len(frame.data)

PushFrame(s, frame) ==
  [read     |-> s.read,
   fin      |-> s.fin \/ frame.fin,
   final    |-> IF frame.fin THEN FinalSize(frame) ELSE s.final,
   segments |-> IF frame.data = <<>> THEN s.segments
                ELSE [o \in DOMAIN s.segments \union {frame.offset} |->
                        IF o = frame.offset THEN frame.data ELSE s.segments[o]]]

IsFinished(s) == s.fin /\ s.read = s.final

SkippedNone(read, o) == 0
Skipped(read, o) == read - o   \* offset_in_data

ErasesAlways(skip, copy, size) == TRUE
Erases(skip, copy, size) == skip + copy >= size

\* One turn of Read's loop, for the first segment: r is [s, result, more].
Turn(r, maxBytes) ==
  LET o    == Min(DOMAIN r.s.segments)
      data == r.s.segments[o]
      skip == Skipped(r.s.read, o)
      left == Len(data) - skip
      room == maxBytes - Len(r.result)
      copy == IF left <= 0 THEN 0 ELSE IF left < room THEN left ELSE room
      done == left <= 0 \/ Erases(skip, copy, Len(data))
  IN  IF ~r.more \/ DOMAIN r.s.segments = {} \/ room <= 0 \/ o > r.s.read THEN [r EXCEPT !.more = FALSE]
      ELSE [s      |-> [r.s EXCEPT !.read = @ + copy,
                                   !.segments = IF done THEN [x \in DOMAIN @ \ {o} |-> @[x]] ELSE @],
            result |-> r.result \o SubSeq(data, skip + 1, skip + copy),
            more   |-> done]

\* Each turn but the last one erases a segment.
Read(s, maxBytes) ==
  LET turns == Cardinality(DOMAIN s.segments)
      after[n \in 0 .. turns] ==
        IF n = 0 THEN [s |-> s, result |-> <<>>, more |-> TRUE] ELSE Turn(after[n - 1], maxBytes)
  IN  after[turns]

(***************************************************************************)
(* QuicEngine                                                              *)
(***************************************************************************)
QuicInit ==
  /\ streams = <<>>
  /\ received = 0
  /\ maxData = InitialMaxData
  /\ packets = 0
  /\ out = [s \in Stream |-> <<>>]
  /\ got = [s \in Stream |-> {}]
  /\ shrunk = {}
  /\ truncated = {}

\* GetStream.
StreamOf(table, s) == IF s \in DOMAIN table THEN table[s] ELSE NewStream

\* The loop over the frames of a packet, which a turn that cannot parse ends: [at, frames].
ParseNext(packet, r) ==
  LET res == ParseFrame(From(packet, r.at))
  IN  IF res = None THEN r ELSE [at |-> r.at + res[2], frames |-> Append(r.frames, res[1])]

FramesOf(packet) ==
  LET after[n \in 0 .. Len(packet)] ==
        IF n = 0 THEN [at |-> 0, frames |-> <<>>] ELSE ParseNext(packet, after[n - 1])
  IN  after[Len(packet)].frames

IsStream(frame) == frame.kind = "stream"

\* What ProcessPacket does with one frame of e: [table, received, maximum].
Applied(e, frame) ==
  IF IsStream(frame)
  THEN [e EXCEPT !.received = @ + Len(frame.data),
                 !.table = [s \in DOMAIN e.table \union {frame.id} |->
                              IF s = frame.id THEN PushFrame(StreamOf(e.table, s), frame) ELSE e.table[s]]]
  ELSE IF frame.kind = "max_data" /\ frame.maximum > e.maximum THEN [e EXCEPT !.maximum = frame.maximum]
  ELSE e

Shrinks(table, frame) ==
  LET held == StreamOf(table, frame.id).segments
  IN  frame.offset \in DOMAIN held /\ frame.data # <<>> /\ Len(frame.data) < Len(held[frame.offset])

\* The positions that a frame brings.
Positions(frame) == frame.offset + 1 .. frame.offset + Len(frame.data)

\* A packet with these frames, before its end or the first that cannot be parsed; the
\* call then returns false, but what came before is applied.  A packet that is not
\* whole has one frame, which has no LEN and which the cut has made shorter.
ProcessPacket(frames, whole) ==
  LET after[n \in 0 .. Len(frames)] ==
        IF n = 0 THEN [table |-> streams, received |-> received, maximum |-> maxData]
                 ELSE Applied(after[n - 1], frames[n])
      last == after[Len(frames)]
      mine == {i \in DOMAIN frames : IsStream(frames[i])}
  IN  /\ packets < MaxArrivals /\ packets' = packets + 1
      /\ streams' = last.table /\ received' = last.received /\ maxData' = last.maximum
      /\ got' = [s \in Stream |->
                   got[s] \union UNION {Positions(frames[i]) : i \in {j \in mine : frames[j].id = s}}]
      /\ shrunk' = shrunk \union {frames[i].id : i \in {j \in mine : Shrinks(after[j - 1].table, frames[j])}}
      /\ truncated' = truncated \union (IF whole THEN {} ELSE {frames[i].id : i \in mine})
      /\ UNCHANGED out

ReadStream(s, maxBytes) ==
  LET r == Read(StreamOf(streams, s), maxBytes)
  IN  /\ streams' = [x \in DOMAIN streams \union {s} |-> IF x = s THEN r.s ELSE streams[x]]
      /\ out' = [out EXCEPT ![s] = @ \o r.result]
      /\ UNCHANGED <<received, maxData, packets, got, shrunk, truncated>>

(***************************************************************************)
(* The peer                                                                *)
(***************************************************************************)
Bit(b, value) == IF b THEN value ELSE 0

\* A STREAM frame for at most n bytes from offset `from' on, with or without the OFF
\* and LEN fields; the one that takes the last byte carries FIN.
StreamBytes(s, from, n, off, len) ==
  LET to == IF from + n < Size THEN from + n ELSE Size
  IN  Encode(8 + Bit(off, 4) + Bit(len, 2) + Bit(to = Size, 1)) \o Encode(s)
        \o (IF off THEN Encode(from) ELSE <<>>) \o (IF len THEN Encode(to - from) ELSE <<>>)
        \o SubSeq(Written, from + 1, to)

\* What may follow a frame that says its length: nothing, credit, a frame of
\* another kind, padding.
Tails == {<<>>, SerializeFrame([kind |-> "max_data", maximum |-> InitialMaxData + 1]),
          Encode(MaxStreamData) \o Encode(0) \o Encode(9), <<0>>}

\* What one frame, and what follows it, or two make, how much of it is cut off, and
\* whether no frame that is left has lost its end: [bytes, cut, whole].
Packets ==
  {[bytes |-> StreamBytes(s, from, n, off \/ from > 0, len \/ tail # <<>>) \o tail,
    cut |-> cut, whole |-> cut = 0 \/ len \/ tail # <<>>] :
     s \in Stream, from \in 0 .. Size, n \in 0 .. Size, off \in BOOLEAN, len \in BOOLEAN,
     tail \in Tails, cut \in 0 .. 1}
  \union {[bytes |-> StreamBytes(s, 0, n, FALSE, TRUE) \o StreamBytes(t, n, Size, TRUE, FALSE),
           cut |-> 0, whole |-> TRUE] : s \in Stream, t \in Stream, n \in 0 .. Size}

\* What the engine makes of them.
Arrivals ==
  {<<FramesOf(SubSeq(p.bytes, 1, Len(p.bytes) - p.cut)), p.whole>> : p \in Packets}

QuicNext ==
  \/ \E a \in Arrivals : ProcessPacket(a[1], a[2])
  \/ \E s \in Stream, n \in 1 .. Size : ReadStream(s, n)

QuicSpec == QuicInit /\ [][QuicNext]_quicVars

(***************************************************************************)
(* Properties                                                              *)
(***************************************************************************)
Pipe == INSTANCE BytePipe

\* However slices overlap, repeat and overtake each other, and however little is
\* read at a time, each stream implements a pipe: no byte twice, none out of order,
\* none of a packet's frames applied as if they were another's.
StreamsArePipes == Pipe!Spec

\* What arrived and was not read is still held, so nothing that the peer may think
\* delivered has to be sent again; unless a shorter slice came for the offset of a
\* longer one, which it replaces.
NothingIsDropped ==
  \A s \in Stream \ shrunk : \A p \in got[s] :
    \/ p <= Len(out[s])
    \/ LET held == StreamOf(streams, s).segments
       IN  \E o \in DOMAIN held : p \in o + 1 .. o + Len(held[o])

\* A stream that says it is finished has given its reader all that was written to
\* it, and says so as soon as it has, once the end was announced; but a frame without
\* LEN takes its end, and that of its stream, from a packet's that was cut.
FinishedIsComplete ==
  \A s \in DOMAIN streams :
    /\ s \notin truncated /\ IsFinished(streams[s]) => out[s] = Written
    /\ Len(out[s]) = Size /\ s \notin truncated /\ streams[s].fin => IsFinished(streams[s])
===============================================================================
