---------------------------- MODULE FrameCodecs ----------------------------
(***************************************************************************)
(* The codecs of lib/avsc-rpc between a channel's messages and the bytes of *)
(* a transport: the standard one, whose messages end with an empty frame,   *)
(* and the Netty one, whose messages start with an id and a count of        *)
(* frames.  The transport delivers the bytes in chunks of any size and may  *)
(* end anywhere, which the decoder's flush reports.                         *)
(*                                                                          *)
(* Mut... operators are faulty variants of the operator that follows.       *)
(***************************************************************************)
EXTENDS Integers, Sequences, SequencesExt

CONSTANTS
  Traffic,   \* the sequences of messages a channel may write
  NoId       \* an id that is null or undefined

Byte == 0 .. 255
MaxInt32 == 2147483647
Int32 == -MaxInt32 - 1 .. MaxInt32

\* Channels write no empty buffers, and at least one buffer in a message; an id, a length and
\* a count of frames each fit the 32 bits they are written in.
ASSUME TrafficAssumption ==
  /\ NoId \notin Int32
  /\ \A sent \in Traffic :
       /\ sent \in Seq([id : Int32, payload : Seq(Seq(Byte))])
       /\ \A i \in DOMAIN sent : /\ Len(sent[i].payload) \in 1 .. MaxInt32
                               /\ \A j \in DOMAIN sent[i].payload : Len(sent[i].payload[j]) \in 1 .. MaxInt32

VARIABLES
  netty,       \* which of the two codecs the transport uses
  messages,    \* what the channel writes
  written,     \* how many of them it has written
  bytes,       \* what was encoded and the transport has not delivered
  arrived,     \* how many bytes it has delivered
  decoder,     \* the decoder's fields
  pushed,      \* the messages it has pushed
  lineEnd      \* "open"; "cut" short; "clean", or "trailing" once the decoder has flushed

frameVars == <<netty, messages, written, bytes, arrived, decoder, pushed, lineEnd>>

\* Big-endian, the first byte with the sign.
IntBuffer(n) == <<n \div 16777216 % 256, n \div 65536 % 256, n \div 256 % 256, n % 256>>
ReadInt(buf) ==
  16777216 * (IF buf[1] < 128 THEN buf[1] ELSE buf[1] - 256) + 65536 * buf[2] + 256 * buf[3] + buf[4]
Slice(buf, n) == SubSeq(buf, n + 1, Len(buf))
----------------------------------------------------------------------------
(* Encoding: what is pushed for a message, joined. *)

FrameOf(buf) == IntBuffer(Len(buf)) \o buf
Frames(payload) == FlattenSeq([i \in DOMAIN payload |-> FrameOf(payload[i])])
StandardEncode(message) == Frames(message.payload) \o IntBuffer(0)
NettyEncode(message) ==
  IntBuffer(message.id) \o IntBuffer(Len(message.payload)) \o Frames(message.payload)
Encode(message) == IF netty THEN NettyEncode(message) ELSE StandardEncode(message)
----------------------------------------------------------------------------
(* Decoding.  A decoder holds the bytes it could not use yet, the frames of  *)
(* the message at hand, and for Netty its id and the frames still missing.   *)

NewDecoder == [id |-> NoId, frameCount |-> 0, buf |-> <<>>, bufs |-> <<>>, out |-> <<>>]

HasFrame(buf) == Len(buf) >= 4 /\ Len(buf) >= ReadInt(buf) + 4
MutFrameTaken(d) ==
  [d EXCEPT !.bufs = Append(@, SubSeq(d.buf, 5, 4 + ReadInt(d.buf))), !.buf = <<>>]
FrameTaken(d) ==
  [d EXCEPT !.bufs = Append(@, SubSeq(d.buf, 5, 4 + ReadInt(d.buf))), !.buf = Slice(@, 4 + ReadInt(d.buf))]
MessageTaken(d) ==
  [d EXCEPT !.out = Append(@, [id |-> d.id, payload |-> d.bufs]), !.bufs = <<>>, !.id = NoId]

\* A turn of the loop of the standard decoder.
StandardTurn(d) ==
  IF ~HasFrame(d.buf) THEN d
  ELSE IF ReadInt(d.buf) # 0 THEN FrameTaken(d)
  ELSE [MessageTaken(d) EXCEPT !.buf = Slice(@, 4)]

\* What the loops of the Netty decoder do next.
NettyTurn(d) ==
  IF d.id = NoId
  THEN IF Len(d.buf) < 8 THEN d
       ELSE [d EXCEPT !.id = ReadInt(d.buf), !.frameCount = ReadInt(Slice(d.buf, 4)), !.buf = Slice(@, 8)]
  ELSE IF d.frameCount = 0 THEN MessageTaken(d)
  ELSE IF HasFrame(d.buf) THEN [FrameTaken(d) EXCEPT !.frameCount = @ - 1]
  ELSE d

DecodeTurn(d) == IF netty THEN NettyTurn(d) ELSE StandardTurn(d)

\* A turn that changes something uses four bytes or more, or ends a message, and so there
\* are no more than these.
Decoded(d) ==
  LET last == Len(d.buf) \div 2 + 1
      turns[n \in 0..last] == IF n = 0 THEN d ELSE DecodeTurn(turns[n - 1])
  IN  turns[last]

Decode(buf) == Decoded([decoder EXCEPT !.buf = @ \o buf])

\* _flush looks at the same fields in both decoders.
Trailing == decoder.buf # <<>> \/ decoder.bufs # <<>>
----------------------------------------------------------------------------

FInit ==
  /\ netty \in BOOLEAN
  /\ messages \in Traffic
  /\ written = 0 /\ bytes = <<>> /\ arrived = 0
  /\ decoder = NewDecoder /\ pushed = <<>>
  /\ lineEnd = "open"

WriteMessage ==
  /\ lineEnd = "open" /\ written < Len(messages)
  /\ written' = written + 1
  /\ bytes' = bytes \o Encode(messages[written + 1])
  /\ UNCHANGED <<netty, messages, arrived, decoder, pushed, lineEnd>>

\* _transform of the decoder, with the next n bytes.
Deliver(n) ==
  /\ lineEnd = "open"
  /\ bytes' = Slice(bytes, n)
  /\ arrived' = arrived + n
  /\ \E d \in {Decode(SubSeq(bytes, 1, n))} :
       decoder' = [d EXCEPT !.out = <<>>] /\ pushed' = pushed \o d.out
  /\ UNCHANGED <<netty, messages, written, lineEnd>>

\* The transport ends, early perhaps.
LineCut ==
  /\ lineEnd = "open" /\ lineEnd' = "cut" /\ bytes' = <<>>
  /\ UNCHANGED <<netty, messages, written, arrived, decoder, pushed>>

FrameFlush ==
  /\ lineEnd = "cut"
  /\ lineEnd' = IF Trailing THEN "trailing" ELSE "clean"
  /\ UNCHANGED <<netty, messages, written, bytes, arrived, decoder, pushed>>

FNext == WriteMessage \/ (\E n \in 1..Len(bytes) : Deliver(n)) \/ LineCut \/ FrameFlush

FSpec == FInit /\ [][FNext]_frameVars
----------------------------------------------------------------------------

Encodings == [i \in DOMAIN messages |-> Encode(messages[i])]
\* Where the encoding of the first k messages ends.
EncodingEnd(k) == Len(FlattenSeq(SubSeq(Encodings, 1, k)))
\* The message as its decoder gives it: the standard codec carries no ids.
AsRead(message) == IF netty THEN message ELSE [message EXCEPT !.id = NoId]
WholeMessages == CHOOSE k \in 0..Len(messages) :
                   /\ EncodingEnd(k) <= arrived
                   /\ k < Len(messages) => EncodingEnd(k + 1) > arrived
\* A Netty message of which only the header has arrived is not missed.
HeaderOnly == netty /\ arrived = EncodingEnd(WholeMessages) + 8

\* However the bytes of a stream are cut into chunks, the decoder has pushed the
\* messages whose last byte has arrived, in order and with their frames as they were
\* written; and when the transport ends inside a message the decoder says so, unless
\* exactly a Netty header had arrived.
FramesExact ==
  /\ pushed = [i \in 1..WholeMessages |-> AsRead(messages[i])]
  /\ lineEnd = "clean" => arrived = EncodingEnd(WholeMessages) \/ HeaderOnly
  /\ lineEnd = "trailing" => arrived # EncodingEnd(WholeMessages)

\* The decoder keeps what it has not used of the message at hand.
FTypeOK ==
  /\ netty \in BOOLEAN /\ messages \in Traffic /\ written \in 0..Len(messages)
  /\ lineEnd \in {"open", "cut", "clean", "trailing"}
  /\ decoder.frameCount \in Nat /\ decoder.out = <<>>
  /\ Len(decoder.buf) <= arrived /\ arrived + Len(bytes) <= EncodingEnd(written)
=============================================================================
