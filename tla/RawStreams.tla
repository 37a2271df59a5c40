----------------------------- MODULE RawStreams -----------------------------
(***************************************************************************)
(* RawEncoder and RawDecoder of lib/avsc, one after the other: values are   *)
(* written into a tap that is pushed when it is full, and read from the     *)
(* bytes again, in whatever chunks they come.                               *)
(*                                                                          *)
(* Their type is a record of two longs; a value is the sequence of the      *)
(* longs that are written before the type throws, and so is whole if it has *)
(* two.  The streams (external) keep the order of what is pushed.           *)
(* Mut... operators are faulty variants of the operator that follows.       *)
(***************************************************************************)
EXTENDS AvroLongs

CONSTANT
  Writes    \* what is written: sequences of values, with a batchSize

ASSUME WritesAssumption ==
  \A w \in Writes :
    /\ w.values \in Seq(Seq(SmallLongs)) /\ \A i \in DOMAIN w.values : Len(w.values[i]) <= 2
    /\ w.batch \in Nat

VARIABLES
  job,        \* one of Writes
  encoded,    \* how many of its values were written
  tap,        \* of the encoder
  flushed,    \* whether the encoder is at its end
  tainted,    \* history: bytes of no whole value were pushed, or will be
  wire,       \* bytes that were pushed and did not arrive
  input,      \* the tap of the decoder
  hasWriteCb, \* whether it ever had a _writeCb
  written,    \* whether the last write to it was not called back
  wantsPush,  \* its _needPush
  inputEnded, \* its _finished
  reads,      \* whether the stream waits for a push
  decoded,    \* the values it pushed
  outputEnded,
  misfired    \* whether a write was called back twice

rawVars == <<job, encoded, tap, flushed, tainted, wire, input, hasWriteCb, written, wantsPush, inputEnded, reads,
             decoded, outputEnded, misfired>>
encoderSide == <<job, encoded, tap, flushed, tainted>>
decoderSide == <<input, hasWriteCb, written, wantsPush, inputEnded, reads, decoded, outputEnded, misfired>>

RInit ==
  /\ job \in Writes /\ encoded = 0 /\ tap = Blank(job.batch) /\ flushed = FALSE /\ wire = <<>>
  /\ tainted = FALSE
  /\ input = Tap(<<>>) /\ hasWriteCb = FALSE /\ written = FALSE /\ wantsPush = FALSE
  /\ inputEnded = FALSE /\ reads = FALSE /\ decoded = <<>> /\ outputEnded = FALSE /\ misfired = FALSE

-----------------------------------------------------------------------------
(* RawEncoder. *)

\* The type's _write, field by field, up to where it throws if it does.
WriteRecord(buffer, value) ==
  LET first == IF Len(value) > 0 THEN WriteLong(buffer, value[1]) ELSE buffer
  IN  IF Len(value) > 1 THEN WriteLong(first, value[2]) ELSE first

\* Room for that much: a new buffer, or the old one from its start.
Emptied(buffer, size) == IF size > Len(buffer.arr) THEN Blank(2 * size) ELSE [buffer EXCEPT !.pos = 0]

\* What is pushed ends in the middle of the value, or it was given up after its beginning.
Taints(value) ==
  \/ tap.pos \in 1 .. Len(tap.arr) - 1 /\ ~IsValid(WriteRecord(tap, value))
  \/ Len(value) = 1

\* _transform: the value, and then, if there was no room, what is in the tap, to its end, and
\* the value again in a tap that is large enough.
Transform ==
  /\ ~flushed /\ encoded < Len(job.values)
  /\ encoded' = encoded + 1
  /\ \E full \in {WriteRecord(tap, job.values[encoded + 1])} :
       IF IsValid(full) THEN tap' = full /\ UNCHANGED wire
       ELSE /\ wire' = IF tap.pos > 0 THEN wire \o full.arr ELSE wire
            /\ tap' = WriteRecord(Emptied(full, full.pos - tap.pos), job.values[encoded + 1])
  /\ tainted' = (tainted \/ Taints(job.values[encoded + 1]))
  /\ UNCHANGED <<job, flushed, decoderSide>>

\* _flush, at the end of the input.
MutFlush ==
  /\ ~flushed /\ encoded = Len(job.values)
  /\ flushed' = TRUE
  /\ wire' = wire \o tap.arr
  /\ UNCHANGED <<job, encoded, tap, tainted, decoderSide>>
Flush ==
  /\ ~flushed /\ encoded = Len(job.values)
  /\ flushed' = TRUE
  /\ wire' = wire \o Written(tap)
  /\ UNCHANGED <<job, encoded, tap, tainted, decoderSide>>

-----------------------------------------------------------------------------
(* RawDecoder. *)

\* _read, on that tap, with that write under way: the two longs of a value, the end, or the
\* write is called back.
ReadOne(buffer, writing, final) ==
  \E first \in {ReadLong(buffer)} : \E second \in {ReadLong(first.tap)} :
    \/ /\ IsValid(second.tap)
       /\ input' = second.tap
       /\ decoded' = Append(decoded, <<first.val, second.val>>)
       /\ reads' = FALSE /\ wantsPush' = FALSE /\ written' = writing
       /\ UNCHANGED <<outputEnded, misfired>>
    \/ /\ ~IsValid(second.tap) /\ final
       /\ input' = second.tap
       /\ outputEnded' = TRUE
       /\ reads' = FALSE /\ wantsPush' = FALSE /\ written' = writing
       /\ UNCHANGED <<decoded, misfired>>
    \/ /\ ~IsValid(second.tap) /\ ~final
       /\ input' = buffer
       /\ wantsPush' = TRUE
       /\ reads' = TRUE /\ written' = FALSE
       /\ misfired' = (misfired \/ (hasWriteCb' /\ ~writing))
       /\ UNCHANGED <<decoded, outputEnded>>

\* _write: the next n bytes.
Receive(n) ==
  /\ ~written /\ ~inputEnded
  /\ wire' = SubSeq(wire, n + 1, Len(wire))
  /\ hasWriteCb' = TRUE
  /\ \E buffer \in {Forward(input, SubSeq(wire, 1, n))} :
       IF wantsPush THEN ReadOne(buffer, TRUE, FALSE)
       ELSE /\ input' = buffer /\ written' = TRUE
            /\ UNCHANGED <<wantsPush, reads, decoded, outputEnded, misfired>>
  /\ UNCHANGED <<encoderSide, inputEnded>>

\* The stream calls _read.
AskValue ==
  /\ ~reads /\ ~outputEnded
  /\ UNCHANGED hasWriteCb
  /\ ReadOne(input, written, inputEnded)
  /\ UNCHANGED <<encoderSide, wire, inputEnded>>

\* The finish event, after the last write was called back.
FinishInput ==
  /\ flushed /\ wire = <<>> /\ ~written /\ ~inputEnded
  /\ inputEnded' = TRUE
  /\ UNCHANGED hasWriteCb
  /\ ReadOne(input, FALSE, TRUE)
  /\ UNCHANGED <<encoderSide, wire>>

RNext == Transform \/ Flush \/ (\E n \in 1..Len(wire) : Receive(n)) \/ AskValue \/ FinishInput

RSpec == RInit /\ [][RNext]_rawVars

-----------------------------------------------------------------------------
(* Properties. *)

Accepted(values) == FlattenSeq([i \in DOMAIN values |-> IF Len(values[i]) = 2 THEN <<values[i]>> ELSE <<>>])

RTypeOK ==
  /\ encoded \in 0..Len(job.values) /\ tap.pos \in 0..Len(tap.arr) /\ input.pos \in Nat
  /\ {flushed, tainted, hasWriteCb, written, wantsPush, inputEnded, reads, outputEnded, misfired} \subseteq BOOLEAN
  /\ \A b \in ToSet(wire) \cup ToSet(input.arr) : b \in 0..255

\* RawEncoder and RawDecoder: as long as the encoder has pushed whole values only, what comes
\* out is what was written, as far as it has come, and nothing of it is missing at the end,
\* wherever taps end and however the bytes are cut; and no write is called back twice, though
\* the decoder never forgets the callback of the last one.
RawRoundTrips ==
  /\ ~tainted => IsPrefix(decoded, Accepted(SubSeq(job.values, 1, encoded)))
  /\ outputEnded /\ ~tainted => decoded = Accepted(job.values)
  /\ ~misfired
=============================================================================
