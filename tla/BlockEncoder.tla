---------------------------- MODULE BlockEncoder ----------------------------
(***************************************************************************)
(* The encoder of container files of lib/avsc: values come in one by one,   *)
(* are put together in a buffer, and go out as blocks that a codec          *)
(* compressed, at once or later.                                            *)
(*                                                                          *)
(* A value is its place in Sizes, which gives how many bytes it takes, or   *)
(* is one of Invalid, which the type throws on.  The file that comes out is *)
(* a sequence of headers and of blocks: the count that was written and the  *)
(* values whose bytes follow.  The stream (external) writes again after the *)
(* last write was called back, and reads again after something was pushed.  *)
(* Mut... operators are faulty variants of the operator that follows.       *)
(***************************************************************************)
EXTENDS Integers, Sequences, FiniteSets

CONSTANTS
  Sizes,      \* the size of each value that is written
  Invalid,    \* those that are not of the type
  Threshold,  \* opts.blockSize
  CodecFails  \* whether the codec may fail

\* The values of a type are all empty or none is.
ASSUME EncoderAssumption ==
  /\ Sizes \in Seq(Nat) /\ Invalid \subseteq DOMAIN Sizes
  /\ (\A i \in DOMAIN Sizes : Sizes[i] = 0) \/ (\A i \in DOMAIN Sizes : Sizes[i] > 0)
  /\ Threshold \in Nat \ {0} /\ CodecFails \in BOOLEAN

VARIABLES
  received,    \* values that were written
  held,        \* those whose bytes are in the tap
  position,    \* tap.pos
  blockSize,   \* also the length of the tap
  blockCount,
  pending,
  compressing, \* the blocks the codec has
  blocks,      \* _queue
  waiting,     \* whether a write was not called back
  needHeader,
  wantPush,    \* _needPush
  closed,      \* _finished
  asked,       \* whether the stream waits for a push
  ending,      \* whether the next tick pushes the end
  file,        \* what was pushed
  ends,        \* how often the end was
  broken       \* whether the codec failed

encoderVars == <<received, held, position, blockSize, blockCount, pending, compressing, blocks, waiting,
                 needHeader, wantPush, closed, asked, ending, file, ends, broken>>

Header == [count |-> 0, values |-> <<>>]

\* writeHeader is "never", "auto", or anything else, which writes it at once.
EInit ==
  /\ received = 0 /\ held = <<>> /\ position = 0 /\ blockSize = Threshold /\ blockCount = 0
  /\ pending = 0 /\ compressing = {} /\ blocks = <<>> /\ waiting = FALSE
  /\ needHeader \in BOOLEAN /\ file \in IF needHeader THEN {<<>>} ELSE {<<>>, <<Header>>}
  /\ wantPush = FALSE /\ closed = FALSE /\ asked = FALSE /\ ending = FALSE
  /\ ends = 0 /\ broken = FALSE

-----------------------------------------------------------------------------
(* Blocks. *)

\* _read with a block: it goes out, and the write it came with is called back.
PushBlock(out, queue) ==
  /\ file' = Append(out, Head(queue))
  /\ blocks' = Tail(queue)
  /\ asked' = FALSE
  /\ waiting' = (closed /\ waiting)

\* The callback of a block that is compressed: it is queued, and read if the stream waits.
\* The queue orders by _index, which is never set; it never has two blocks to order.
BlockReady(block, out, ask, wait) ==
  /\ wantPush' = FALSE
  /\ IF wantPush THEN PushBlock(out, Append(blocks, block))
     ELSE /\ blocks' = Append(blocks, block)
          /\ file' = out /\ asked' = ask /\ waiting' = wait

\* _flushChunk, after out was pushed: the codec calls back later, now, or with an error; wait
\* tells whether a write waits for the block.
FlushChunk(out, ask, wait) ==
  LET block == [count |-> blockCount, values |-> held]
  IN  \/ /\ pending' = pending + 1 /\ compressing' = compressing \cup {block}
         /\ file' = out /\ asked' = ask /\ waiting' = wait
         /\ UNCHANGED <<blocks, wantPush, broken>>
      \/ /\ BlockReady(block, out, ask, wait)
         /\ UNCHANGED <<pending, compressing, broken>>
      \/ /\ CodecFails
         /\ broken' = TRUE /\ pending' = pending + 1
         /\ file' = out /\ asked' = ask /\ waiting' = wait
         /\ UNCHANGED <<compressing, blocks, wantPush>>

\* The codec calls back later; an error leaves the block pending and its write waiting.
Compressed(block) ==
  /\ block \in compressing
  /\ compressing' = compressing \ {block}
  /\ \/ /\ pending' = pending - 1
        /\ BlockReady(block, file, asked, waiting)
        /\ UNCHANGED broken
     \/ /\ CodecFails
        /\ broken' = TRUE
        /\ UNCHANGED <<pending, blocks, file, asked, waiting, wantPush>>
  /\ UNCHANGED <<received, held, position, blockSize, blockCount, needHeader, closed, ending, ends>>

-----------------------------------------------------------------------------
(* Writes. *)

Incoming == received + 1
CanWrite == ~waiting /\ ~closed /\ received < Len(Sizes)
\* The first write pushes the header.
OutWithHeader == IF needHeader THEN Append(file, Header) ELSE file
AskedAfterHeader == asked /\ ~needHeader
WriteHeader == file' = OutWithHeader /\ asked' = AskedAfterHeader

\* The tap, with this value in it and nothing else.
Rewrite(v) ==
  /\ blockSize' = IF Sizes[v] > blockSize THEN 2 * Sizes[v] ELSE blockSize
  /\ held' = <<v>> /\ position' = Sizes[v]

\* The type throws: nothing of the value stays in the tap.
WriteInvalid ==
  /\ CanWrite /\ Incoming \in Invalid
  /\ received' = Incoming /\ needHeader' = FALSE
  /\ WriteHeader
  /\ UNCHANGED <<held, position, blockSize, blockCount, pending, compressing, blocks, waiting, wantPush,
                 closed, ending, ends, broken>>

\* There is room in the tap.
WriteFits ==
  /\ CanWrite /\ Incoming \notin Invalid /\ position + Sizes[Incoming] <= blockSize
  /\ received' = Incoming /\ needHeader' = FALSE
  /\ held' = Append(held, Incoming) /\ position' = position + Sizes[Incoming]
  /\ blockCount' = blockCount + 1
  /\ WriteHeader
  /\ UNCHANGED <<blockSize, pending, compressing, blocks, waiting, wantPush, closed, ending, ends, broken>>

\* There is none in an empty tap.
WriteAlone ==
  /\ CanWrite /\ Incoming \notin Invalid /\ position + Sizes[Incoming] > blockSize /\ position = 0
  /\ received' = Incoming /\ needHeader' = FALSE
  /\ Rewrite(Incoming)
  /\ blockCount' = blockCount + 1
  /\ WriteHeader
  /\ UNCHANGED <<pending, compressing, blocks, waiting, wantPush, closed, ending, ends, broken>>

\* There is none after other values: they are flushed, and this one is the next block's first.
MutWriteAfterFlush ==
  /\ CanWrite /\ Incoming \notin Invalid /\ position + Sizes[Incoming] > blockSize /\ position > 0
  /\ received' = Incoming /\ needHeader' = FALSE
  /\ FlushChunk(OutWithHeader, AskedAfterHeader, TRUE)
  /\ Rewrite(Incoming)
  /\ blockCount' = blockCount + 1
  /\ UNCHANGED <<closed, ending, ends>>
WriteAfterFlush ==
  /\ CanWrite /\ Incoming \notin Invalid /\ position + Sizes[Incoming] > blockSize /\ position > 0
  /\ received' = Incoming /\ needHeader' = FALSE
  /\ FlushChunk(OutWithHeader, AskedAfterHeader, TRUE)
  /\ Rewrite(Incoming)
  /\ blockCount' = 1
  /\ UNCHANGED <<closed, ending, ends>>

\* The finish event: the last block, without a write to call back.
FinishWithBlock ==
  /\ ~waiting /\ ~closed /\ received = Len(Sizes) /\ blockCount > 0
  /\ closed' = TRUE
  /\ FlushChunk(file, asked, FALSE)
  /\ blockCount' = 0
  /\ UNCHANGED <<received, held, position, blockSize, needHeader, ending, ends>>

\* There is none: the end, if the stream waits.
FinishWithoutBlock ==
  /\ ~waiting /\ ~closed /\ received = Len(Sizes) /\ blockCount = 0
  /\ closed' = TRUE
  /\ IF wantPush THEN ends' = ends + 1 /\ asked' = FALSE ELSE UNCHANGED <<ends, asked>>
  /\ UNCHANGED <<received, held, position, blockSize, blockCount, pending, compressing, blocks, waiting,
                 needHeader, wantPush, ending, file, broken>>

-----------------------------------------------------------------------------
(* Reads. *)

\* The stream calls _read: a block goes out; or the end will, if none is left; or the next
\* block will, when it is there.
CallReadBlock ==
  /\ ~asked /\ ends = 0 /\ blocks # <<>>
  /\ PushBlock(file, blocks)
  /\ UNCHANGED <<received, held, position, blockSize, blockCount, pending, compressing, needHeader, wantPush,
                 closed, ending, ends, broken>>

CallReadNothing ==
  /\ ~asked /\ ends = 0 /\ blocks = <<>>
  /\ asked' = TRUE
  /\ IF closed /\ pending = 0 THEN ending' = TRUE /\ UNCHANGED wantPush
     ELSE wantPush' = TRUE /\ UNCHANGED ending
  /\ UNCHANGED <<received, held, position, blockSize, blockCount, pending, compressing, blocks, waiting,
                 needHeader, closed, file, ends, broken>>

TickPushesEnd ==
  /\ ending
  /\ ending' = FALSE /\ ends' = ends + 1 /\ asked' = FALSE
  /\ UNCHANGED <<received, held, position, blockSize, blockCount, pending, compressing, blocks, waiting,
                 needHeader, wantPush, closed, file, broken>>

EWrite == WriteInvalid \/ WriteFits \/ WriteAlone \/ WriteAfterFlush
EFinish == FinishWithBlock \/ FinishWithoutBlock
ERead == CallReadBlock \/ CallReadNothing \/ TickPushesEnd

ENext == EWrite \/ EFinish \/ ERead \/ \E block \in compressing : Compressed(block)

ESpec == EInit /\ [][ENext]_encoderVars

-----------------------------------------------------------------------------
(* Properties. *)

BlockRecord == [count : Nat, values : Seq(DOMAIN Sizes)]

ETypeOK ==
  /\ received \in 0..Len(Sizes) /\ held \in Seq(DOMAIN Sizes) /\ blockCount \in Nat
  /\ position \in 0..blockSize /\ blockSize \in Nat \ {0}
  /\ pending \in Nat /\ compressing \subseteq BlockRecord
  /\ blocks \in Seq(BlockRecord) /\ file \in Seq(BlockRecord) /\ ends \in 0..1
  /\ {waiting, needHeader, wantPush, closed, asked, ending, broken} \subseteq BOOLEAN

\* BlockEncoder: blocks are held in a queue that is meant to order them, but nothing numbers
\* them: what keeps the file in order is that a write is not called back before its block was
\* pushed, and so there is never more than one block between the tap and the file.
OneBlockAtATime ==
  /\ pending + Len(blocks) <= 1
  /\ pending + Len(blocks) = 1 => waiting \/ closed

HeldBack == IF blockCount = 0 THEN <<>> ELSE held
\* The blocks between the tap and the file.
OnTheWay == {blocks[n] : n \in DOMAIN blocks} \cup compressing

Increasing(values) == \A i, j \in DOMAIN values : i < j => values[i] < values[j]
Before(values, later) == \A i \in DOMAIN values, j \in DOMAIN later : values[i] < later[j]
ValuesIn(values) == {values[i] : i \in DOMAIN values}
InFile == UNION {ValuesIn(file[n].values) : n \in DOMAIN file}
InTransit == UNION {ValuesIn(block.values) : block \in OnTheWay}
Valid(n) == (1..n) \ Invalid

\* Values are in the order in which they were written: in a block, from one block to the next,
\* and from the file to the codec or queue and to the tap.
InOrder ==
  /\ \A n \in DOMAIN file :
       /\ Increasing(file[n].values) /\ Before(file[n].values, HeldBack)
       /\ \A m \in 1..n - 1 : Before(file[m].values, file[n].values)
       /\ \A block \in OnTheWay : Before(file[n].values, block.values)
  /\ \A block \in OnTheWay : Increasing(block.values) /\ Before(block.values, HeldBack)
  /\ Increasing(HeldBack)

\* Every value that was accepted is in exactly one place: the file, the queue, the codec or
\* the tap, in that order; and every block says how many values it has.
NothingLost ==
  /\ ~broken =>
       /\ InOrder
       /\ InFile \cup InTransit \cup ValuesIn(HeldBack) = Valid(received)
  /\ \A n \in DOMAIN file : file[n].count = Len(file[n].values)
  /\ Cardinality(compressing) <= 1

\* The header is pushed once at most, before the first block.
HeaderFirst == \A n \in 2..Len(file) : file[n] # Header

\* What is written of a file, whenever the codec calls back.
WritesInOrder == OneBlockAtATime /\ NothingLost /\ HeaderFirst

\* Everything that is valid was pushed.
FileComplete == InFile = Valid(Len(Sizes))
=============================================================================
