------------------------------- MODULE QuicWire --------------------------------
(***************************************************************************)
(* What QUIC packets look like (tasks/quic-stream-multiplexer-engine): the *)
(* variable-length integers of quic_varint.cpp and the frames of           *)
(* quic_frame.cpp, over sequences of bytes.  What could not be decoded is  *)
(* None; what could comes with the number of bytes it took.                *)
(***************************************************************************)
EXTENDS Integers, Sequences

None == <<>>
From(bytes, offset) == SubSeq(bytes, offset + 1, Len(bytes))

(***************************************************************************)
(* VarInt                                                                  *)
(***************************************************************************)
EncodedLength(val) ==
  IF val <= 63 THEN 1 ELSE IF val <= 16383 THEN 2 ELSE IF val <= 1073741823 THEN 4 ELSE 8

\* 1 << prefix.
Lengths == <<1, 2, 4, 8>>
Prefix(len) == CHOOSE p \in 0 .. 3 : Lengths[p + 1] = len

\* val >> 8 * k.
Shifted(val, k) ==
  LET shift[i \in 0 .. 7] == IF i = 0 THEN val ELSE shift[i - 1] \div 256 IN shift[k]

Encode(val) ==
  LET len == EncodedLength(val)
  IN  [i \in 1 .. len |-> IF i = 1 THEN Prefix(len) * 64 + (Shifted(val, len - 1) % 64)
                                   ELSE Shifted(val, len - i) % 256]

Decode(src) ==
  IF src = <<>> \/ Len(src) < Lengths[1 + src[1] \div 64] THEN None
  ELSE LET len == Lengths[1 + src[1] \div 64]
           val[i \in 0 .. len - 1] == IF i = 0 THEN src[1] % 64 ELSE val[i - 1] * 256 + src[i + 1]
       IN  <<val[len - 1], len>>

(***************************************************************************)
(* Frames                                                                  *)
(***************************************************************************)
MaxData == 16
MaxStreamData == 17

\* A STREAM frame of the type bits OFF, LEN and FIN, whose fields begin at `at'.
ParseStream(buffer, bits, at) ==
  LET sid    == Decode(From(buffer, at))
      at1    == at + sid[2]
      off    == IF (bits \div 4) % 2 = 1 THEN Decode(From(buffer, at1)) ELSE <<0, 0>>
      at2    == at1 + off[2]
      length == IF (bits \div 2) % 2 = 1 THEN Decode(From(buffer, at2))
                                         ELSE <<Len(buffer) - at2, 0>>
      at3    == at2 + length[2]
  IN  IF sid = None \/ off = None \/ length = None \/ Len(buffer) < at3 + length[1] THEN None
      ELSE <<[kind |-> "stream", id |-> sid[1], offset |-> off[1], fin |-> bits % 2 = 1,
              data |-> SubSeq(buffer, at3 + 1, at3 + length[1])],
             at3 + length[1]>>

\* FrameParser::ParseFrame; a type it does not know, PADDING for one, is None.
ParseFrame(buffer) ==
  LET type == Decode(buffer)
      one  == Decode(From(buffer, type[2]))
      two  == Decode(From(buffer, type[2] + one[2]))
  IN  IF type = None THEN None
      ELSE IF type[1] \in 8 .. 15 THEN ParseStream(buffer, type[1] - 8, type[2])
      ELSE IF type[1] \notin {MaxData, MaxStreamData} \/ one = None THEN None
      ELSE IF type[1] = MaxData
           THEN <<[kind |-> "max_data", maximum |-> one[1]], type[2] + one[2]>>
      ELSE IF two = None THEN None
      ELSE <<[kind |-> "max_stream_data", id |-> one[1], maximum |-> two[1]], type[2] + one[2] + two[2]>>

\* FrameParser::SerializeFrame writes MAX_DATA and nothing else; the other frames
\* below are written by the peer.
SerializeFrame(frame) ==
  IF frame.kind = "max_data" THEN Encode(MaxData) \o Encode(frame.maximum) ELSE <<>>
===============================================================================
