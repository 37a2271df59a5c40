---------------------------- MODULE BlockDecoder ----------------------------
(***************************************************************************)
(* The decoder of container files of lib/avsc: bytes come in, in chunks cut *)
(* anywhere; blocks are decompressed by a codec that may call back at once  *)
(* or later and in any order; their values go out.                          *)
(*                                                                          *)
(* A file is a header and blocks of so many units; block i has Counts[i]    *)
(* values.  running tells which synchronous code runs: "idle" if none,      *)
(* "loop" the one that looks for blocks in what has arrived, "read" _read,   *)
(* called by the stream or a handler, "nested" _read called from the loop.   *)
(* The stream (external) writes again after the last write was called back, *)
(* and reads again after something was pushed.                              *)
(* Mut... operators are faulty variants of the operator that follows.       *)
(***************************************************************************)
EXTENDS Integers, Sequences

CONSTANTS
  Counts,       \* the number of values of each block
  HeaderSize,   \* in units
  BlockSize,
  MayFail       \* whether the codec may fail

ASSUME DecoderAssumption ==
  /\ Counts \in Seq(Nat)
  /\ HeaderSize \in Nat \ {0} /\ BlockSize \in Nat \ {0}
  /\ MayFail \in BOOLEAN

VARIABLES
  arrived,     \* units that were written
  header,      \* whether the header was decoded
  index,       \* blocks that were found: _index
  inflating,   \* those with the codec
  queue,       \* those that are decompressed and wait
  popped,      \* blocks taken from the queue: the queue's own _index
  remaining,   \* values left in the last of them
  writing,     \* "no", "called back" at the next tick, or "yes"
  outstanding, \* blocks that have to call back before the write is
  needPush,
  finished,
  reading,     \* whether the stream waits for a push
  running,
  out,         \* values that were pushed: block and place in it
  ended,       \* whether the end was
  failed       \* whether an error was emitted

decoderVars == <<arrived, header, index, inflating, queue, popped, remaining, writing,
                 outstanding, needPush, finished, reading, running, out, ended, failed>>

Blocks == 1 .. Len(Counts)
FileSize == HeaderSize + Len(Counts) * BlockSize

DInit ==
  /\ arrived = 0 /\ header = FALSE /\ index = 0
  /\ inflating = {} /\ queue = {} /\ popped = 0 /\ remaining = 0
  /\ writing = "no" /\ outstanding = {}
  /\ needPush = FALSE /\ finished = FALSE /\ reading = FALSE
  /\ running = "idle" /\ out = <<>> /\ ended = FALSE /\ failed = FALSE

\* _write: n more units.  Without the whole header it is called back at the next tick; with
\* it, _write is _writeChunk from then on.
WriteChunk(n) ==
  /\ running = "idle" /\ writing = "no" /\ ~finished /\ arrived + n <= FileSize
  /\ arrived' = arrived + n
  /\ header' = (header \/ (~failed /\ arrived + n >= HeaderSize))
  /\ IF header' THEN writing' = "yes" /\ running' = "loop" ELSE writing' = "tick" /\ running' = running
  /\ UNCHANGED <<index, inflating, queue, popped, remaining, outstanding, needPush, finished, reading,
                 out, ended, failed>>

\* The header is not one, or names an unknown codec or a schema that does not parse.
BadHeader(n) ==
  /\ running = "idle" /\ writing = "no" /\ ~finished /\ ~header
  /\ MayFail /\ arrived + n \in HeaderSize .. FileSize
  /\ arrived' = arrived + n
  /\ failed' = TRUE
  /\ writing' = "tick"
  /\ UNCHANGED <<header, index, inflating, queue, popped, remaining, outstanding, needPush, finished,
                 reading, running, out, ended>>

TickCallsBack ==
  /\ running = "idle" /\ writing = "tick"
  /\ writing' = "no"
  /\ UNCHANGED <<arrived, header, index, inflating, queue, popped, remaining, outstanding, needPush,
                 finished, reading, running, out, ended, failed>>

BlockArrived == HeaderSize + (index + 1) * BlockSize <= arrived

\* A block is there for a stream that waits: _read is called.
MutWoken(from) == from
Woken(from) == IF ~needPush THEN from ELSE IF from = "loop" THEN "nested" ELSE "read"

\* The loop of _writeChunk finds a block and gives it to the codec, which calls back now or
\* later.
ReadBlock ==
  /\ running = "loop" /\ BlockArrived
  /\ index' = index + 1
  /\ \/ /\ inflating' = inflating \cup {index + 1}
        /\ outstanding' = outstanding \cup {index + 1}
        /\ UNCHANGED <<queue, running, writing, failed>>
     \/ /\ queue' = queue \cup {index + 1}
        /\ outstanding' = outstanding \cup {index + 1}
        /\ running' = Woken("loop")
        /\ UNCHANGED <<inflating, writing, failed>>
     \/ /\ MayFail
        /\ failed' = TRUE
        /\ UNCHANGED <<inflating, outstanding, queue, running, writing>>
  /\ UNCHANGED <<arrived, header, popped, remaining, needPush, finished, reading, out, ended>>

\* A block does not end with the marker of the file: the write is never called back.
BadMarker ==
  /\ running = "loop" /\ BlockArrived /\ MayFail
  /\ failed' = TRUE
  /\ running' = "idle"
  /\ UNCHANGED <<arrived, header, index, inflating, queue, popped, remaining, writing, outstanding,
                 needPush, finished, reading, out, ended>>

\* There is no other block: the loop's own call of chunkCb.
LoopEnds ==
  /\ running = "loop" /\ ~BlockArrived
  /\ running' = "idle"
  /\ writing' = IF outstanding = {} THEN "no" ELSE "yes"
  /\ UNCHANGED <<arrived, header, index, inflating, queue, popped, remaining, outstanding, needPush,
                 finished, reading, out, ended, failed>>

\* The codec calls back later, with the block or an error.
Decompressed(i) ==
  /\ running = "idle" /\ i \in inflating
  /\ inflating' = inflating \ {i}
  /\ \/ /\ queue' = queue \cup {i}
        /\ running' = Woken("idle")
        /\ UNCHANGED <<outstanding, writing, failed>>
     \/ /\ MayFail
        /\ failed' = TRUE
        /\ outstanding' = outstanding \ {i}
        /\ writing' = IF outstanding' = {} THEN "no" ELSE writing
        /\ UNCHANGED <<queue, running>>
  /\ UNCHANGED <<arrived, header, index, popped, remaining, needPush, finished, reading, out, ended>>

\* The stream asks for a value.
CallRead ==
  /\ running = "idle" /\ ~reading /\ ~ended
  /\ reading' = TRUE /\ running' = "read"
  /\ UNCHANGED <<arrived, header, index, inflating, queue, popped, remaining, writing, outstanding,
                 needPush, finished, out, ended, failed>>

\* The end of the input, after the last write was called back.
Finish ==
  /\ running = "idle" /\ writing = "no" /\ arrived = FileSize /\ ~finished
  /\ finished' = TRUE
  /\ running' = IF needPush THEN "read" ELSE running
  /\ UNCHANGED <<arrived, header, index, inflating, queue, popped, remaining, writing, outstanding,
                 needPush, reading, out, ended, failed>>

-----------------------------------------------------------------------------
(* _read, when it was called. *)

After == IF running = "nested" THEN "loop" ELSE "idle"

\* A block that is taken from the queue calls back the write it came with.
CallBack(i) ==
  /\ outstanding' = outstanding \ {i}
  /\ writing' = IF running = "read" /\ outstanding' = {} /\ writing = "yes" THEN "no" ELSE writing

\* Value n of block i is pushed; or it is corrupt, and so the rest of the block is dropped.
PushValue(i, n) ==
  \/ /\ out' = Append(out, <<i, n>>)
     /\ remaining' = Counts[i] - n
     /\ reading' = FALSE
     /\ UNCHANGED failed
  \/ /\ MayFail
     /\ failed' = TRUE
     /\ remaining' = 0
     /\ UNCHANGED <<out, reading>>

\* The next value of the block.
ReadNextValue ==
  /\ running \in {"read", "nested"} /\ remaining > 0
  /\ needPush' = FALSE
  /\ PushValue(popped, Counts[popped] - remaining + 1)
  /\ running' = After
  /\ UNCHANGED <<arrived, header, index, inflating, queue, popped, writing, outstanding, finished, ended>>

\* The first value of the next block.
ReadNextBlock ==
  /\ running \in {"read", "nested"} /\ remaining = 0
  /\ popped + 1 \in queue /\ Counts[popped + 1] > 0
  /\ needPush' = FALSE
  /\ queue' = queue \ {popped + 1}
  /\ popped' = popped + 1
  /\ CallBack(popped + 1)
  /\ PushValue(popped + 1, 1)
  /\ running' = After
  /\ UNCHANGED <<arrived, header, index, inflating, finished, ended>>

\* An empty block is taken from the queue, and nothing else.
ReadEmptyBlock ==
  /\ running \in {"read", "nested"} /\ remaining = 0
  /\ popped + 1 \in queue /\ Counts[popped + 1] = 0
  /\ queue' = queue \ {popped + 1}
  /\ popped' = popped + 1
  /\ IF finished THEN ended' = TRUE /\ needPush' = FALSE ELSE needPush' = TRUE /\ UNCHANGED ended
  /\ CallBack(popped + 1)
  /\ running' = After
  /\ UNCHANGED <<arrived, header, index, inflating, remaining, finished, reading, out, failed>>

\* There is no block: wait for one, or push the end.
ReadNothing ==
  /\ running \in {"read", "nested"} /\ remaining = 0 /\ popped + 1 \notin queue
  /\ IF finished THEN ended' = TRUE /\ needPush' = FALSE ELSE needPush' = TRUE /\ UNCHANGED ended
  /\ running' = After
  /\ UNCHANGED <<arrived, header, index, inflating, queue, popped, remaining, writing, outstanding,
                 finished, reading, out, failed>>

DNext ==
  \/ \E n \in 1..FileSize : WriteChunk(n)
  \/ \E n \in 1..FileSize : BadHeader(n)
  \/ TickCallsBack \/ ReadBlock \/ BadMarker \/ LoopEnds
  \/ \E i \in inflating : Decompressed(i)
  \/ CallRead \/ Finish
  \/ ReadNextValue \/ ReadNextBlock \/ ReadEmptyBlock \/ ReadNothing

DSpec == DInit /\ [][DNext]_decoderVars

-----------------------------------------------------------------------------
(* Properties. *)

DTypeOK ==
  /\ arrived \in 0..FileSize /\ index \in 0..Len(Counts) /\ popped \in 0..index
  /\ inflating \subseteq Blocks /\ queue \subseteq Blocks /\ outstanding \subseteq Blocks
  /\ remaining \in Nat /\ writing \in {"no", "tick", "yes"}
  /\ running \in {"idle", "loop", "read", "nested"}
  /\ {header, needPush, finished, reading, ended, failed} \subseteq BOOLEAN
  /\ out \in Seq(Blocks \X (Nat \ {0}))

\* b comes right after a in the file.
Follows(a, b) ==
  \/ b[1] = a[1] /\ b[2] = a[2] + 1
  \/ /\ b[1] > a[1] /\ b[2] = 1 /\ a[2] = Counts[a[1]]
     /\ \A i \in a[1] + 1 .. b[1] - 1 : Counts[i] = 0

\* BlockDecoder: however the bytes are cut and in whatever order the codec calls back, the
\* values come out in the order of the file, and none twice; as long as there is no error none
\* is missing before another.
ValuesInOrder ==
  ~failed =>
    /\ \A n \in 1 .. Len(out) - 1 : Follows(out[n], out[n + 1])
    /\ out # <<>> => out[1][2] = 1 /\ \A i \in 1 .. out[1][1] - 1 : Counts[i] = 0

\* The end of the stream comes after the last value.
EndsAfterLast ==
  ended /\ ~failed =>
    /\ popped = Len(Counts) /\ remaining = 0
    /\ out # <<>> => LET last == out[Len(out)]
                     IN  last[2] = Counts[last[1]] /\ \A i \in last[1] + 1 .. Len(Counts) : Counts[i] = 0
    /\ out = <<>> => \A i \in Blocks : Counts[i] = 0

\* A stream that waits for a push does not wait while the block it needs is there: else nobody
\* would read it.
NoMissedBlock == running = "idle" /\ needPush => popped + 1 \notin queue

\* What is read of a file, at its end and before.
ReadsInOrder == ValuesInOrder /\ EndsAfterLast /\ NoMissedBlock

=============================================================================
