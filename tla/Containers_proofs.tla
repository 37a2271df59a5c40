------------------------- MODULE Containers_proofs --------------------------
(***************************************************************************)
(* Proofs about the streams of lib/avsc and the queue of their blocks, for *)
(* any values, blocks, sizes and codec: the decoder gives the values of a  *)
(* file in order, each once and up to the end, however its bytes are cut   *)
(* and whenever the codec calls back; the encoder keeps all values in the  *)
(* order in which they were written, with one block at a time between the  *)
(* tap and the file; the queue, a heap, gives its items back only          *)
(* consecutively; and what is written without blocks comes out of the      *)
(* bytes again: a long by the digits of its code, a value by its longs,    *)
(* and values by what is due between the two streams.                      *)
(***************************************************************************)
EXTENDS Streams, OrderedQueue, SequenceLemmas, FiniteSetTheorems

----------------------------------------------------------------------------
(* The decoder: what its queue, its counters and its stream agree on.      *)

\* Blocks that are found have arrived, and those that are under way were found.
FoundFits ==
  /\ queue \subseteq 1..index /\ inflating \subseteq 1..index
  /\ index > 0 => HeaderSize + index * BlockSize <= arrived
  /\ remaining > 0 => popped \in Blocks /\ remaining <= Counts[popped]

\* What was found and not yet taken is with the codec or in the queue, and holds back the
\* write it came with; only the loop leaves blocks that have arrived.
NoneMissing ==
  /\ outstanding = popped + 1 .. index
  /\ queue \cup inflating = popped + 1 .. index /\ queue \cap inflating = {}
  /\ writing # "yes" => outstanding = {}
  /\ running \in {"loop", "nested"} => writing = "yes"
  /\ running \notin {"loop", "nested"} => ~BlockArrived
  /\ finished => writing = "no" /\ arrived = FileSize
  /\ ended => finished /\ running = "idle" /\ remaining = 0

\* Value n of block i is pushed and r of the block are left; all blocks after it, up to the
\* last one taken, are empty.
UpTo(i, n) ==
  /\ i \in 1..popped
  /\ n + (IF i = popped THEN remaining ELSE 0) = Counts[i]
  /\ i < popped => remaining = 0
  /\ \A j \in i + 1 .. popped : Counts[j] = 0

\* The last value that was pushed is the last of what was taken from the queue.
OutFits ==
  /\ out = <<>> => remaining = 0 /\ \A i \in 1..popped : Counts[i] = 0
  /\ out # <<>> => UpTo(out[Len(out)][1], out[Len(out)][2])

OutFollows ==
  /\ \A n \in 1 .. Len(out) - 1 : Follows(out[n], out[n + 1])
  /\ out # <<>> => out[1][2] = 1 /\ \A i \in 1 .. out[1][1] - 1 : Counts[i] = 0

DInv ==
  /\ DTypeOK /\ FoundFits
  /\ ~failed => NoneMissing /\ OutFits /\ OutFollows

\* The steps of the loop, of the codec and of the stream, which push nothing.
DFeeds ==
  \/ \E n \in 1..FileSize : WriteChunk(n) \/ BadHeader(n)
  \/ TickCallsBack \/ ReadBlock \/ BadMarker \/ LoopEnds
  \/ \E i \in inflating : Decompressed(i)
  \/ CallRead \/ Finish

DReads == ReadNextValue \/ ReadNextBlock \/ ReadEmptyBlock \/ ReadNothing

\* Only so many blocks are in the file as have space there.
LEMMA BlockFits ==
  ASSUME NEW n \in Nat, NEW i \in Nat, NEW size \in Nat \ {0}, i * size <= n * size
  PROVE  i <= n
<1>1. SUFFICES ASSUME i > n PROVE FALSE
  OBVIOUS
<1>2. PICK d \in Nat : i = n + 1 + d
  <2>1. i - n - 1 \in Nat /\ i = n + 1 + (i - n - 1)
    BY <1>1
  <2>2. QED
    BY <2>1
<1>3. i * size = n * size + size + d * size /\ d * size \in Nat /\ n * size \in Nat
  BY <1>2
<1>4. QED
  BY <1>3

LEMMA FileSizes ==
  /\ Len(Counts) \in Nat /\ FileSize \in Nat /\ Blocks = 1..Len(Counts)
  /\ \A i \in Blocks : Counts[i] \in Nat
  /\ HeaderSize \in Nat \ {0} /\ BlockSize \in Nat \ {0} /\ MayFail \in BOOLEAN
<1>1. Len(Counts) \in Nat /\ HeaderSize \in Nat \ {0} /\ BlockSize \in Nat \ {0}
  BY DecoderAssumption
<1>2. Len(Counts) * BlockSize \in Nat
  BY <1>1
<1>3. QED
  BY <1>1, <1>2, DecoderAssumption DEF FileSize, Blocks

\* A block that has arrived is one of the file's.
LEMMA ArrivedIsBlock ==
  ASSUME DTypeOK, BlockArrived
  PROVE  index + 1 \in Blocks
<1>1. index \in Nat /\ arrived \in Nat /\ arrived <= FileSize
  BY FileSizes DEF DTypeOK
<1>2. /\ (index + 1) * BlockSize \in Nat /\ Len(Counts) * BlockSize \in Nat
      /\ HeaderSize + (index + 1) * BlockSize <= HeaderSize + Len(Counts) * BlockSize
  BY <1>1, FileSizes DEF BlockArrived, FileSize
<1>3. (index + 1) * BlockSize <= Len(Counts) * BlockSize
  BY <1>2, FileSizes
<1>4. index + 1 <= Len(Counts)
  BY <1>1, <1>3, FileSizes, BlockFits
<1>5. QED
  BY <1>1, <1>4, FileSizes

\* At the end of the input, without an error, every block was taken.
LEMMA FinishedTakesAll ==
  ASSUME DTypeOK, NoneMissing, finished, running \notin {"loop", "nested"}
  PROVE  index = Len(Counts) /\ popped = index /\ queue = {} /\ inflating = {}
<1>1. index \in 0..Len(Counts) /\ popped \in 0..index /\ Len(Counts) \in Nat
  BY FileSizes DEF DTypeOK
<1>2. outstanding = {} /\ arrived = FileSize /\ ~BlockArrived
  BY DEF NoneMissing
<1>3. popped = index
  <2>1. popped + 1 .. index = {}
    BY <1>2 DEF NoneMissing
  <2>2. QED
    BY <1>1, <2>1
<1>4. queue = {} /\ inflating = {}
  BY <1>2 DEF NoneMissing
<1>5. index = Len(Counts)
  <2>1. SUFFICES ASSUME index + 1 <= Len(Counts) PROVE FALSE
    BY <1>1
  <2>2. PICK d \in Nat : Len(Counts) = index + 1 + d
    <3>1. Len(Counts) - index - 1 \in Nat /\ Len(Counts) = index + 1 + (Len(Counts) - index - 1)
      BY <1>1, <2>1
    <3>2. QED
      BY <3>1
  <2>3. /\ Len(Counts) * BlockSize = (index + 1) * BlockSize + d * BlockSize
        /\ d * BlockSize \in Nat /\ (index + 1) * BlockSize \in Nat
    BY <1>1, <2>2, FileSizes
  <2>4. HeaderSize + (index + 1) * BlockSize <= FileSize
    BY <2>3, FileSizes DEF FileSize
  <2>5. QED
    BY <1>2, <2>4 DEF BlockArrived
<1>6. QED
  BY <1>3, <1>4, <1>5

LEMMA DInitFits == DInit => DInv
<1> SUFFICES ASSUME DInit PROVE DInv
  OBVIOUS
<1>1. DTypeOK
  <2>1. 0 \in 0..FileSize /\ 0 \in 0..Len(Counts) /\ 0 \in 0..0 /\ <<>> \in Seq(Blocks \X (Nat \ {0}))
    BY FileSizes
  <2>2. QED
    BY <2>1 DEF DInit, DTypeOK
<1>2. FoundFits
  BY DEF DInit, FoundFits
<1>3. ~BlockArrived
  <2>1. index = 0 /\ arrived = 0
    BY DEF DInit
  <2>2. (index + 1) * BlockSize = BlockSize
    BY <2>1, FileSizes
  <2>3. QED
    BY <2>1, <2>2, FileSizes DEF BlockArrived
<1>4. NoneMissing
  BY <1>3 DEF DInit, NoneMissing
<1>5. OutFits /\ OutFollows
  <2>1. out = <<>> /\ Len(out) = 0 /\ popped = 0 /\ remaining = 0
    BY DEF DInit
  <2>2. QED
    BY <2>1 DEF OutFits, OutFollows
<1>6. QED
  BY <1>1, <1>2, <1>4, <1>5 DEF DInv

\* Steps that push nothing leave what was pushed as it was.
LEMMA FeedsPushNothing ==
  ASSUME DInv, DFeeds
  PROVE  /\ UNCHANGED <<out, popped, remaining, ended>>
         /\ ~failed' => ~failed /\ OutFits' /\ OutFollows'
<1>1. UNCHANGED <<out, popped, remaining, ended>>
  BY DEF DFeeds, WriteChunk, BadHeader, TickCallsBack, ReadBlock, BadMarker, LoopEnds, Decompressed,
     CallRead, Finish
<1>2. ~failed' => ~failed
  BY DEF DFeeds, WriteChunk, BadHeader, TickCallsBack, ReadBlock, BadMarker, LoopEnds, Decompressed,
     CallRead, Finish
<1>3. OutFits /\ OutFollows => OutFits' /\ OutFollows'
  BY <1>1 DEF OutFits, OutFollows, UpTo
<1>4. QED
  BY <1>1, <1>2, <1>3 DEF DInv

LEMMA DTyped ==
  ASSUME DTypeOK
  PROVE  /\ arrived \in Nat /\ arrived <= FileSize
         /\ index \in Nat /\ index <= Len(Counts) /\ popped \in Nat /\ popped <= index
         /\ remaining \in Nat
         /\ header \in BOOLEAN /\ needPush \in BOOLEAN /\ finished \in BOOLEAN
         /\ reading \in BOOLEAN /\ ended \in BOOLEAN /\ failed \in BOOLEAN
  BY FileSizes DEF DTypeOK

\* Types and what was found.
LEMMA FeedsFit ==
  ASSUME DInv, DFeeds
  PROVE  DTypeOK' /\ FoundFits'
<1>0. /\ DTypeOK /\ FoundFits
      /\ out' = out /\ popped' = popped /\ remaining' = remaining /\ ended' = ended
  BY FeedsPushNothing DEF DInv
<1>1. ASSUME index' = index, queue' \subseteq queue \cup inflating, inflating' \subseteq inflating,
             outstanding' \subseteq outstanding,
             arrived' \in Nat, arrived <= arrived', arrived' <= FileSize, writing' \in {"no", "tick", "yes"},
             running' \in {"idle", "loop", "read", "nested"}, header' \in BOOLEAN, needPush' = needPush,
             finished' \in BOOLEAN, reading' \in BOOLEAN, failed' \in BOOLEAN
      PROVE  DTypeOK' /\ FoundFits'
  <2>1. DTypeOK'
    <3>1. queue' \subseteq Blocks /\ inflating' \subseteq Blocks /\ outstanding' \subseteq Blocks
      BY <1>0, <1>1 DEF DTypeOK
    <3>2. index' \in 0..Len(Counts) /\ popped' \in 0..index' /\ remaining' \in Nat
          /\ out' \in Seq(Blocks \X (Nat \ {0}))
      BY <1>0, <1>1 DEF DTypeOK
    <3>3. arrived' \in 0..FileSize
      BY <1>1, FileSizes
    <3>4. {header', needPush', finished', reading', ended', failed'} \subseteq BOOLEAN
      BY <1>0, <1>1, DTyped
    <3>5. QED
      BY <1>1, <3>1, <3>2, <3>3, <3>4 DEF DTypeOK
  <2>2. /\ queue' \subseteq 1..index' /\ inflating' \subseteq 1..index'
        /\ remaining' > 0 => popped' \in Blocks /\ remaining' <= Counts[popped']
    BY <1>0, <1>1 DEF FoundFits
  <2>3. index' > 0 => HeaderSize + index' * BlockSize <= arrived'
    <3>1. SUFFICES ASSUME index > 0 PROVE HeaderSize + index * BlockSize <= arrived'
      BY <1>1
    <3>2. HeaderSize + index * BlockSize <= arrived /\ index * BlockSize \in Nat
      BY <1>0, <3>1, DTyped, FileSizes DEF FoundFits
    <3>3. QED
      BY <1>0, <1>1, <3>2, DTyped, FileSizes
  <2>4. QED
    BY <2>1, <2>2, <2>3 DEF FoundFits
<1>2. arrived \in Nat /\ arrived <= FileSize /\ FileSize \in Nat
      /\ header \in BOOLEAN /\ needPush \in BOOLEAN /\ finished \in BOOLEAN
      /\ reading \in BOOLEAN /\ ended \in BOOLEAN /\ failed \in BOOLEAN
      /\ writing \in {"no", "tick", "yes"} /\ running \in {"idle", "loop", "read", "nested"}
  BY <1>0, DTyped, FileSizes DEF DTypeOK
<1>3. ASSUME NEW n \in 1..FileSize, WriteChunk(n) PROVE DTypeOK' /\ FoundFits'
  <2>1. (header \/ (~failed /\ arrived + n >= HeaderSize)) \in BOOLEAN
    BY <1>2
  <2>2. QED
    BY <1>1, <1>2, <1>3, <2>1 DEF WriteChunk
<1>4. ASSUME NEW n \in 1..FileSize, BadHeader(n) PROVE DTypeOK' /\ FoundFits'
  <2>1. arrived + n \in Nat /\ arrived <= arrived + n /\ arrived + n <= FileSize
    BY <1>2, <1>4, FileSizes DEF BadHeader
  <2>2. QED
    BY <1>1, <1>2, <1>4, <2>1 DEF BadHeader
<1>5. CASE TickCallsBack \/ BadMarker \/ LoopEnds \/ CallRead \/ Finish
  <2>1. /\ index' = index /\ queue' = queue /\ inflating' = inflating /\ outstanding' = outstanding
        /\ arrived' = arrived /\ header' = header /\ needPush' = needPush
    BY <1>5 DEF TickCallsBack, BadMarker, LoopEnds, CallRead, Finish
  <2>2. /\ writing' \in {"no", "tick", "yes"} /\ running' \in {"idle", "loop", "read", "nested"}
        /\ finished' \in {finished, TRUE} /\ reading' \in {reading, TRUE} /\ failed' \in {failed, TRUE}
    BY <1>2, <1>5 DEF TickCallsBack, BadMarker, LoopEnds, CallRead, Finish
  <2>3. arrived <= arrived
    BY <1>2
  <2>4. finished' \in BOOLEAN /\ reading' \in BOOLEAN /\ failed' \in BOOLEAN
    BY <1>2, <2>2
  <2>5. QED
    BY <1>1, <1>2, <2>1, <2>2, <2>3, <2>4
<1>6. ASSUME NEW i \in inflating, Decompressed(i) PROVE DTypeOK' /\ FoundFits'
  <2>1. Woken("idle") \in {"idle", "read"}
    BY DEF Woken
  <2>2. inflating' \subseteq inflating /\ queue' \subseteq queue \cup inflating
        /\ outstanding' \subseteq outstanding
    BY <1>6 DEF Decompressed
  <2>3. /\ index' = index /\ arrived' = arrived /\ header' = header /\ needPush' = needPush
        /\ finished' = finished /\ reading' = reading /\ arrived <= arrived
    BY <1>2, <1>6 DEF Decompressed
  <2>4. /\ failed' \in {failed, TRUE} /\ writing' \in {"no", writing}
        /\ running' \in {running, Woken("idle")}
    BY <1>6 DEF Decompressed
  <2>5. /\ failed' \in BOOLEAN /\ writing' \in {"no", "tick", "yes"}
        /\ running' \in {"idle", "loop", "read", "nested"}
    BY <1>2, <2>1, <2>4
  <2>6. QED
    BY <1>1, <1>2, <2>2, <2>3, <2>5
<1>7. CASE ReadBlock
  <2>1. /\ BlockArrived /\ index' = index + 1 /\ arrived' = arrived
        /\ queue' \subseteq queue \cup {index + 1} /\ inflating' \subseteq inflating \cup {index + 1}
        /\ outstanding' \subseteq outstanding \cup {index + 1}
        /\ writing' = writing /\ running' \in {running, Woken("loop")}
        /\ header' = header /\ needPush' = needPush /\ finished' = finished /\ reading' = reading
        /\ failed' \in {failed, TRUE}
    BY <1>7 DEF ReadBlock
  <2>2. index + 1 \in Blocks
    BY <1>0, <2>1, ArrivedIsBlock
  <2>3. Woken("loop") \in {"loop", "nested"}
    BY DEF Woken
  <2>4. DTypeOK'
    <3>1. queue' \subseteq Blocks /\ inflating' \subseteq Blocks /\ outstanding' \subseteq Blocks
      BY <1>0, <2>1, <2>2 DEF DTypeOK
    <3>2. index' \in 0..Len(Counts) /\ popped' \in 0..index'
      BY <1>0, <2>1, <2>2, DTyped, FileSizes
    <3>3. arrived' \in 0..FileSize /\ remaining' \in Nat /\ out' \in Seq(Blocks \X (Nat \ {0}))
      BY <1>0, <2>1 DEF DTypeOK
    <3>4. {header', needPush', finished', reading', ended', failed'} \subseteq BOOLEAN
      BY <1>0, <1>2, <2>1
    <3>5. writing' \in {"no", "tick", "yes"} /\ running' \in {"idle", "loop", "read", "nested"}
      BY <1>2, <2>1, <2>3
    <3>6. QED
      BY <3>1, <3>2, <3>3, <3>4, <3>5 DEF DTypeOK
  <2>5. queue' \subseteq 1..index' /\ inflating' \subseteq 1..index'
    BY <1>0, <2>1, DTyped DEF FoundFits
  <2>6. HeaderSize + index' * BlockSize <= arrived'
    BY <2>1 DEF BlockArrived
  <2>7. QED
    BY <1>0, <2>4, <2>5, <2>6 DEF FoundFits
<1>8. QED
  BY <1>3, <1>4, <1>5, <1>6, <1>7 DEF DFeeds

\* Nothing is lost between the file and the queue.
LEMMA FeedsLoseNothing ==
  ASSUME DInv, DFeeds, ~failed'
  PROVE  NoneMissing'
<1>0. /\ DTypeOK /\ FoundFits /\ NoneMissing /\ ~failed
      /\ out' = out /\ popped' = popped /\ remaining' = remaining /\ ended' = ended
  BY FeedsPushNothing DEF DInv
<1>1. ASSUME outstanding' = outstanding, queue' \cup inflating' = queue \cup inflating, index' = index
      PROVE  outstanding' = popped' + 1 .. index' /\ queue' \cup inflating' = popped' + 1 .. index'
  BY <1>0, <1>1 DEF NoneMissing
<1>2. ASSUME NEW n \in 1..FileSize, WriteChunk(n) PROVE NoneMissing'
  <2>1. /\ running = "idle" /\ writing = "no" /\ ~finished /\ outstanding = {}
        /\ outstanding' = outstanding /\ queue' = queue /\ inflating' = inflating /\ index' = index
        /\ finished' = finished
    BY <1>0, <1>2 DEF WriteChunk, NoneMissing
  <2>2. CASE header'
    <3>1. writing' = "yes" /\ running' = "loop"
      BY <1>2, <2>2 DEF WriteChunk
    <3>2. QED
      BY <1>0, <1>1, <2>1, <3>1 DEF NoneMissing
  <2>3. CASE ~header'
    <3>1. writing' = "tick" /\ running' = "idle"
      BY <1>2, <2>1, <2>3 DEF WriteChunk
    <3>2. ~(arrived + n >= HeaderSize) /\ arrived' = arrived + n
      BY <1>0, <1>2, <2>3 DEF WriteChunk
    <3>3. (index + 1) * BlockSize \in Nat
      BY <1>0, DTyped, FileSizes
    <3>4. ~BlockArrived'
      BY <1>0, <2>1, <3>2, <3>3, DTyped, FileSizes DEF BlockArrived
    <3>5. QED
      BY <1>0, <1>1, <2>1, <3>1, <3>4 DEF NoneMissing
  <2>4. QED
    BY <2>2, <2>3
<1>3. CASE TickCallsBack
  BY <1>0, <1>1, <1>3 DEF TickCallsBack, NoneMissing, BlockArrived
<1>4. CASE LoopEnds
  <2>1. running = "loop" /\ writing = "yes" /\ ~finished
    BY <1>0, <1>4 DEF LoopEnds, NoneMissing
  <2>2. QED
    BY <1>0, <1>1, <1>4, <2>1 DEF LoopEnds, NoneMissing, BlockArrived
<1>5. CASE CallRead
  BY <1>0, <1>1, <1>5 DEF CallRead, NoneMissing, BlockArrived
<1>6. CASE Finish
  BY <1>0, <1>1, <1>6 DEF Finish, NoneMissing, BlockArrived
<1>7. ASSUME NEW i \in inflating, Decompressed(i) PROVE NoneMissing'
  <2>1. /\ running = "idle" /\ inflating' = inflating \ {i} /\ queue' = queue \cup {i}
        /\ running' \in {"idle", "read"}
        /\ outstanding' = outstanding /\ writing' = writing /\ index' = index /\ arrived' = arrived
        /\ finished' = finished
    BY <1>0, <1>7 DEF Decompressed, Woken
  <2>2. queue' \cup inflating' = queue \cup inflating
    BY <1>7, <2>1
  <2>3. ~ended
    <3>1. SUFFICES ASSUME ended PROVE FALSE
      OBVIOUS
    <3>2. inflating = {}
      BY <1>0, <3>1, FinishedTakesAll DEF NoneMissing
    <3>3. QED
      BY <1>7, <3>2
  <2>4. QED
    BY <1>0, <1>1, <2>1, <2>2, <2>3 DEF NoneMissing, BlockArrived
<1>8. CASE ReadBlock
  <2>1. /\ running = "loop" /\ writing = "yes" /\ ~finished /\ ~ended
    BY <1>0, <1>8 DEF ReadBlock, NoneMissing
  <2>2. /\ index' = index + 1 /\ outstanding' = outstanding \cup {index + 1}
        /\ queue' \cup inflating' = queue \cup inflating \cup {index + 1}
        /\ running' \in {"loop", "nested"} /\ writing' = writing /\ finished' = finished
    BY <1>0, <1>8, <2>1 DEF ReadBlock, Woken
  <2>3. (popped + 1 .. index) \cup {index + 1} = popped + 1 .. index + 1
    BY <1>0, DTyped
  <2>4. queue' \cap inflating' = {}
    <3>1. index + 1 \notin queue /\ index + 1 \notin inflating /\ queue \cap inflating = {}
      BY <1>0, DTyped DEF FoundFits, NoneMissing
    <3>2. \/ queue' = queue /\ inflating' = inflating \cup {index + 1}
          \/ queue' = queue \cup {index + 1} /\ inflating' = inflating
      BY <1>0, <1>8 DEF ReadBlock
    <3>3. QED
      BY <3>1, <3>2
  <2>5. outstanding' = popped' + 1 .. index' /\ queue' \cup inflating' = popped' + 1 .. index'
    BY <1>0, <2>2, <2>3 DEF NoneMissing
  <2>6. QED
    BY <1>0, <2>1, <2>2, <2>4, <2>5 DEF NoneMissing
<1>9. ~BadMarker /\ \A n \in 1..FileSize : ~BadHeader(n)
  BY DEF BadMarker, BadHeader
<1>10. QED
  BY <1>2, <1>3, <1>4, <1>5, <1>6, <1>7, <1>8, <1>9 DEF DFeeds

\* What a value that is pushed does to the rest of the block.
LEMMA PushFits ==
  ASSUME DTypeOK, NEW i \in Blocks, NEW n \in Nat \ {0}, n <= Counts[i], PushValue(i, n)
  PROVE  /\ out' \in Seq(Blocks \X (Nat \ {0})) /\ remaining' \in Nat /\ remaining' <= Counts[i]
         /\ reading' \in BOOLEAN /\ failed' \in BOOLEAN
         /\ ~failed' => ~failed /\ out' = Append(out, <<i, n>>) /\ remaining' = Counts[i] - n
<1>1. Counts[i] \in Nat /\ Counts[i] - n \in Nat /\ Counts[i] - n <= Counts[i]
  BY FileSizes
<1>2. out \in Seq(Blocks \X (Nat \ {0})) /\ reading \in BOOLEAN /\ failed \in BOOLEAN
  BY DTyped DEF DTypeOK
<1>3. <<i, n>> \in Blocks \X (Nat \ {0})
  OBVIOUS
<1>4. Append(out, <<i, n>>) \in Seq(Blocks \X (Nat \ {0}))
  BY <1>2, <1>3, AppendProperties
<1>5. \/ /\ out' = Append(out, <<i, n>>) /\ remaining' = Counts[i] - n
         /\ reading' = FALSE /\ failed' = failed
      \/ failed' = TRUE /\ remaining' = 0 /\ out' = out /\ reading' = reading
  BY DEF PushValue
<1>6. 0 \in Nat /\ 0 <= Counts[i]
  BY <1>1
<1>7. QED
  BY <1>1, <1>2, <1>4, <1>5, <1>6

\* The first value to read of the block that is being read.
LEMMA ReadsInside ==
  ASSUME DInv, remaining > 0
  PROVE  /\ popped \in Blocks /\ Counts[popped] \in Nat /\ remaining \in Nat
         /\ Counts[popped] - remaining + 1 \in Nat \ {0}
         /\ Counts[popped] - remaining + 1 <= Counts[popped]
  BY DTyped, FileSizes DEF DInv, FoundFits

LEMMA ReadsFit ==
  ASSUME DInv, DReads
  PROVE  DTypeOK' /\ FoundFits'
<1>0. DTypeOK /\ FoundFits
  BY DEF DInv
<1>1. /\ arrived' = arrived /\ header' = header /\ index' = index /\ inflating' = inflating
      /\ finished' = finished /\ queue' \subseteq queue /\ running' = After
      /\ outstanding' \subseteq outstanding /\ writing' \in {"no", writing}
      /\ needPush' \in BOOLEAN /\ ended' \in {ended, TRUE}
  BY DEF DReads, ReadNextValue, ReadNextBlock, ReadEmptyBlock, ReadNothing, CallBack
<1>2. ASSUME popped' \in Nat, popped' <= index, remaining' \in Nat, reading' \in BOOLEAN, failed' \in BOOLEAN,
             out' \in Seq(Blocks \X (Nat \ {0})),
             remaining' > 0 => popped' \in Blocks /\ remaining' <= Counts[popped']
      PROVE  DTypeOK' /\ FoundFits'
  <2>1. running' \in {"idle", "loop"}
    BY <1>1 DEF After
  <2>2. writing' \in {"no", "tick", "yes"}
    BY <1>0, <1>1 DEF DTypeOK
  <2>3. {header', needPush', finished', reading', ended', failed'} \subseteq BOOLEAN
    BY <1>0, <1>1, <1>2, DTyped
  <2>4. queue' \subseteq Blocks /\ inflating' \subseteq Blocks /\ outstanding' \subseteq Blocks
    BY <1>0, <1>1 DEF DTypeOK
  <2>5. arrived' \in 0..FileSize /\ index' \in 0..Len(Counts) /\ popped' \in 0..index'
    BY <1>0, <1>1, <1>2, DTyped, FileSizes
  <2>6. DTypeOK'
    BY <1>2, <2>1, <2>2, <2>3, <2>4, <2>5 DEF DTypeOK
  <2>7. QED
    BY <1>0, <1>1, <1>2, <2>6 DEF FoundFits
<1>3. popped \in Nat /\ popped <= index /\ remaining \in Nat /\ reading \in BOOLEAN /\ failed \in BOOLEAN
      /\ out \in Seq(Blocks \X (Nat \ {0}))
  BY <1>0, DTyped DEF DTypeOK
<1>4. CASE ReadNextValue
  <2>1. popped' = popped /\ remaining > 0 /\ PushValue(popped, Counts[popped] - remaining + 1)
    BY <1>4 DEF ReadNextValue
  <2>2. QED
    BY <1>0, <1>2, <1>3, <2>1, ReadsInside, PushFits
<1>5. CASE ReadNextBlock
  <2>1. popped' = popped + 1 /\ PushValue(popped + 1, 1) /\ popped + 1 \in queue /\ Counts[popped + 1] > 0
    BY <1>5 DEF ReadNextBlock
  <2>2. popped + 1 \in Blocks /\ popped + 1 <= index /\ Counts[popped + 1] \in Nat
    BY <1>0, <1>3, <2>1, DTyped, FileSizes DEF FoundFits
  <2>3. 1 \in Nat \ {0} /\ 1 <= Counts[popped + 1]
    BY <2>1, <2>2
  <2>4. QED
    BY <1>0, <1>2, <1>3, <2>1, <2>2, <2>3, PushFits
<1>6. CASE ReadEmptyBlock
  <2>1. /\ popped' = popped + 1 /\ remaining = 0 /\ remaining' = remaining /\ popped + 1 \in queue
        /\ reading' = reading /\ out' = out /\ failed' = failed
    BY <1>6 DEF ReadEmptyBlock
  <2>2. popped + 1 <= index
    BY <1>0, <1>3, <2>1, DTyped DEF FoundFits
  <2>3. QED
    BY <1>2, <1>3, <2>1, <2>2
<1>7. CASE ReadNothing
  <2>1. /\ popped' = popped /\ remaining = 0 /\ remaining' = remaining
        /\ reading' = reading /\ out' = out /\ failed' = failed
    BY <1>7 DEF ReadNothing
  <2>2. QED
    BY <1>2, <1>3, <2>1
<1>8. QED
  BY <1>4, <1>5, <1>6, <1>7 DEF DReads

LEMMA ReadsLoseNothing ==
  ASSUME DInv, DReads, ~failed'
  PROVE  NoneMissing'
<1>0. DTypeOK /\ FoundFits /\ ~failed /\ NoneMissing
  BY DEF DInv, DReads, ReadNextValue, ReadNextBlock, ReadEmptyBlock, ReadNothing, PushValue
<1>1. /\ arrived' = arrived /\ index' = index /\ inflating' = inflating
      /\ finished' = finished /\ running' = After /\ running \in {"read", "nested"}
  BY DEF DReads, ReadNextValue, ReadNextBlock, ReadEmptyBlock, ReadNothing
<1>2. ~ended /\ (BlockArrived' <=> BlockArrived)
  BY <1>0, <1>1 DEF NoneMissing, BlockArrived
<1>3. finished => running = "read" /\ queue = {}
  <2>1. finished => running = "read"
    BY <1>0, <1>1 DEF NoneMissing
  <2>2. QED
    BY <1>0, <2>1, FinishedTakesAll
<1>4. /\ running = "read" => running' = "idle" /\ ~BlockArrived'
      /\ running = "nested" => running' = "loop" /\ writing = "yes"
  BY <1>0, <1>1, <1>2 DEF NoneMissing, After
<1>5. CASE ReadNextValue \/ ReadNothing
  <2>1. outstanding' = outstanding /\ queue' = queue /\ popped' = popped /\ writing' = writing
    BY <1>5 DEF ReadNextValue, ReadNothing
  <2>2. ended' => finished /\ running' = "idle" /\ remaining' = 0
    <3>1. SUFFICES ASSUME ended' PROVE finished /\ running' = "idle" /\ remaining' = 0
      OBVIOUS
    <3>2. ReadNothing /\ finished
      BY <1>2, <1>5, <3>1 DEF ReadNextValue, ReadNothing
    <3>3. QED
      BY <1>3, <1>4, <3>2 DEF ReadNothing
  <2>3. QED
    BY <1>0, <1>1, <1>4, <2>1, <2>2 DEF NoneMissing
<1>6. CASE ReadNextBlock \/ ReadEmptyBlock
  <2>1. /\ popped + 1 \in queue /\ queue' = queue \ {popped + 1} /\ popped' = popped + 1
        /\ outstanding' = outstanding \ {popped + 1}
        /\ writing' = IF running = "read" /\ outstanding' = {} /\ writing = "yes" THEN "no" ELSE writing
    BY <1>6 DEF ReadNextBlock, ReadEmptyBlock, CallBack
  <2>2. ~finished
    BY <1>3, <2>1
  <2>3. ~ended'
    BY <1>2, <1>6, <2>2 DEF ReadNextBlock, ReadEmptyBlock
  <2>4. popped \in Nat /\ index \in Nat
    BY <1>0, DTyped
  <2>5. outstanding' = popped' + 1 .. index'
    BY <1>0, <1>1, <2>1, <2>4 DEF NoneMissing
  <2>6. queue' \cup inflating' = popped' + 1 .. index' /\ queue' \cap inflating' = {}
    <3>1. popped + 1 \notin inflating /\ queue \cup inflating = popped + 1 .. index
          /\ queue \cap inflating = {}
      BY <1>0, <2>1 DEF NoneMissing
    <3>2. queue' \cup inflating' = (queue \cup inflating) \ {popped + 1}
      BY <1>1, <2>1, <3>1
    <3>3. (popped + 1 .. index) \ {popped + 1} = popped + 1 + 1 .. index
      BY <2>4
    <3>4. QED
      BY <1>1, <2>1, <3>1, <3>2, <3>3
  <2>7. writing' # "yes" => outstanding' = {}
    BY <1>0, <2>1 DEF NoneMissing
  <2>8. running = "nested" => writing' = "yes"
    BY <1>4, <2>1
  <2>9. QED
    BY <1>1, <1>4, <2>2, <2>3, <2>5, <2>6, <2>7, <2>8 DEF NoneMissing
<1>7. QED
  BY <1>5, <1>6 DEF DReads

\* A value that comes right after all that was pushed keeps the order.
LEMMA PushKeepsOrder ==
  ASSUME DTypeOK, OutFollows, NEW i \in Blocks, NEW n \in Nat \ {0},
         out' = Append(out, <<i, n>>),
         out # <<>> => Follows(out[Len(out)], <<i, n>>),
         out = <<>> => n = 1 /\ \A j \in 1 .. i - 1 : Counts[j] = 0
  PROVE  OutFollows'
<1>1. out \in Seq(Blocks \X (Nat \ {0})) /\ Len(out) \in Nat /\ <<i, n>> \in Blocks \X (Nat \ {0})
  BY DEF DTypeOK
<1>2. /\ Len(out') = Len(out) + 1 /\ out'[Len(out) + 1] = <<i, n>>
      /\ \A k \in 1..Len(out) : out'[k] = out[k]
  BY <1>1, AppendProperties
<1>3. ASSUME NEW k \in 1 .. Len(out') - 1 PROVE Follows(out'[k], out'[k + 1])
  <2>1. CASE k = Len(out)
    <3>1. out # <<>>
      BY <1>1, <1>3, <2>1
    <3>2. out'[k] = out[Len(out)] /\ out'[k + 1] = <<i, n>>
      BY <1>1, <1>2, <1>3, <2>1
    <3>3. QED
      BY <3>1, <3>2
  <2>2. CASE k # Len(out)
    <3>1. k \in 1 .. Len(out) - 1 /\ out'[k] = out[k] /\ out'[k + 1] = out[k + 1]
      BY <1>1, <1>2, <1>3, <2>2
    <3>2. QED
      BY <3>1 DEF OutFollows
  <2>3. QED
    BY <2>1, <2>2
<1>4. out'[1][2] = 1 /\ \A j \in 1 .. out'[1][1] - 1 : Counts[j] = 0
  <2>1. CASE out = <<>>
    <3>1. out'[1] = <<i, n>>
      BY <1>2, <2>1
    <3>2. QED
      BY <2>1, <3>1
  <2>2. CASE out # <<>>
    <3>1. out'[1] = out[1]
      BY <1>1, <1>2, <2>2
    <3>2. QED
      BY <2>2, <3>1 DEF OutFollows
  <2>3. QED
    BY <2>1, <2>2
<1>5. /\ \A k \in 1 .. Len(out') - 1 : Follows(out'[k], out'[k + 1])
      /\ out' # <<>> => out'[1][2] = 1 /\ \A j \in 1 .. out'[1][1] - 1 : Counts[j] = 0
  BY <1>3, <1>4
<1>6. QED
  BY <1>5 DEF OutFollows, Follows

\* The first value of a block comes right after the last of one before, if those between are empty.
LEMMA FollowsLast ==
  ASSUME NEW a \in Nat, NEW b \in Nat, b > a, \A i \in a + 1 .. b - 1 : Counts[i] = 0
  PROVE  Follows(<<a, Counts[a]>>, <<b, 1>>)
<1> DEFINE x == <<a, Counts[a]>>
           y == <<b, 1>>
<1>1. x[1] = a /\ x[2] = Counts[a] /\ y[1] = b /\ y[2] = 1
  OBVIOUS
<1> HIDE DEF x, y
<1>2. Follows(x, y)
  BY <1>1 DEF Follows
<1>3. QED
  BY <1>2 DEF x, y

LEMMA ReadsPushInOrder ==
  ASSUME DInv, DReads, ~failed'
  PROVE  OutFits' /\ OutFollows'
<1>0. DTypeOK /\ FoundFits /\ ~failed /\ OutFits /\ OutFollows
  BY DEF DInv, DReads, ReadNextValue, ReadNextBlock, ReadEmptyBlock, ReadNothing, PushValue
<1>1. /\ popped \in Nat /\ remaining \in Nat /\ out \in Seq(Blocks \X (Nat \ {0})) /\ Len(out) \in Nat
      /\ out # <<>> => out[Len(out)] \in Blocks \X (Nat \ {0})
  BY <1>0, DTyped DEF DTypeOK
<1>2. ASSUME NEW i \in Blocks, NEW n \in Nat \ {0}, out' = Append(out, <<i, n>>), popped' = i,
             remaining' = Counts[i] - n
      PROVE  OutFits'
  <2>1. out' # <<>> /\ out'[Len(out')] = <<i, n>> /\ i \in Nat \ {0} /\ Counts[i] \in Nat
    BY <1>1, <1>2, AppendProperties, FileSizes
  <2>2. UpTo(i, n)'
    BY <1>2, <2>1 DEF UpTo
  <2>3. QED
    BY <2>1, <2>2 DEF OutFits
<1>3. CASE ReadNextValue
  <2> DEFINE n == Counts[popped] - remaining + 1
  <2>1. remaining > 0 /\ popped' = popped /\ PushValue(popped, n)
    BY <1>3 DEF ReadNextValue
  <2>2. popped \in Blocks /\ Counts[popped] \in Nat /\ n \in Nat \ {0} /\ n <= Counts[popped]
    BY <2>1, ReadsInside
  <2>3. out' = Append(out, <<popped, n>>) /\ remaining' = Counts[popped] - n
    BY <1>0, <2>1, <2>2, PushFits
  <2>4. OutFits'
    BY <1>2, <2>1, <2>2, <2>3
  <2>5. out # <<>> /\ UpTo(out[Len(out)][1], out[Len(out)][2])
    BY <1>0, <2>1 DEF OutFits
  <2>6. Follows(out[Len(out)], <<popped, n>>)
    <3>1. PICK a \in Blocks, k \in Nat \ {0} : out[Len(out)] = <<a, k>>
      BY <1>1, <2>5
    <3>2. a = popped /\ k + remaining = Counts[popped]
      BY <1>1, <2>1, <2>5, <3>1 DEF UpTo
    <3>3. n = k + 1
      BY <1>1, <2>2, <3>2
    <3>4. QED
      BY <3>1, <3>2, <3>3 DEF Follows
  <2>7. OutFollows'
    BY <1>0, <2>2, <2>3, <2>5, <2>6, PushKeepsOrder
  <2>8. QED
    BY <2>4, <2>7
<1>4. ASSUME remaining = 0, out # <<>>
      PROVE  \E a \in 1..popped, k \in Nat \ {0} :
               /\ out[Len(out)] = <<a, k>> /\ k = Counts[a]
               /\ \A j \in a + 1 .. popped : Counts[j] = 0
  <2>1. PICK a \in Blocks, k \in Nat \ {0} : out[Len(out)] = <<a, k>>
    BY <1>1, <1>4
  <2>2. UpTo(a, k)
    BY <1>0, <1>4, <2>1 DEF OutFits
  <2>3. a \in 1..popped /\ k = Counts[a] /\ \A j \in a + 1 .. popped : Counts[j] = 0
    BY <1>4, <2>1, <2>2 DEF UpTo
  <2>4. QED
    BY <2>1, <2>3
<1>5. CASE ReadNextBlock
  <2>1. /\ remaining = 0 /\ popped' = popped + 1 /\ PushValue(popped + 1, 1) /\ popped + 1 \in queue
        /\ Counts[popped + 1] > 0
    BY <1>5 DEF ReadNextBlock
  <2>2. popped + 1 \in Blocks /\ Counts[popped + 1] \in Nat /\ 1 \in Nat \ {0} /\ 1 <= Counts[popped + 1]
    BY <1>0, <1>1, <2>1, FileSizes DEF DTypeOK
  <2>3. out' = Append(out, <<popped + 1, 1>>) /\ remaining' = Counts[popped + 1] - 1
    BY <1>0, <2>1, <2>2, PushFits
  <2>4. OutFits'
    BY <1>2, <2>1, <2>2, <2>3
  <2>5. out = <<>> => 1 = 1 /\ \A j \in 1 .. popped + 1 - 1 : Counts[j] = 0
    BY <1>0, <1>1 DEF OutFits
  <2>6. ASSUME out # <<>> PROVE Follows(out[Len(out)], <<popped + 1, 1>>)
    <3>1. PICK a \in 1..popped, k \in Nat \ {0} :
            /\ out[Len(out)] = <<a, k>> /\ k = Counts[a]
            /\ \A j \in a + 1 .. popped : Counts[j] = 0
      BY <1>4, <2>1, <2>6
    <3>2. PICK b \in Nat : b = popped + 1
      BY <1>1
    <3>3. a \in Nat /\ b > a /\ \A j \in a + 1 .. b - 1 : Counts[j] = 0
      BY <1>1, <3>1, <3>2
    <3>4. Follows(<<a, Counts[a]>>, <<b, 1>>)
      BY <3>3, FollowsLast
    <3>5. QED
      BY <3>1, <3>2, <3>4
  <2>7. OutFollows'
    <3>1. PICK following \in Blocks : following = popped + 1
      BY <2>2
    <3>2. out' = Append(out, <<following, 1>>)
      BY <2>3, <3>1
    <3>3. out # <<>> => Follows(out[Len(out)], <<following, 1>>)
      BY <2>6, <3>1
    <3>4. out = <<>> => \A j \in 1 .. following - 1 : Counts[j] = 0
      <4>1. \A j \in 1 .. following - 1 : j \in 1 .. popped + 1 - 1
        BY <1>1, <3>1
      <4>2. QED
        BY <2>5, <4>1
    <3>5. QED
      BY <1>0, <2>2, <3>2, <3>3, <3>4, PushKeepsOrder
  <2>8. QED
    BY <2>4, <2>7
<1>6. CASE ReadEmptyBlock
  <2>1. /\ remaining = 0 /\ popped' = popped + 1 /\ remaining' = remaining /\ out' = out
        /\ Counts[popped + 1] = 0
    BY <1>6 DEF ReadEmptyBlock
  <2>2. OutFollows'
    BY <1>0, <2>1 DEF OutFollows
  <2>3. ASSUME out = <<>> PROVE \A i \in 1 .. popped + 1 : Counts[i] = 0
    BY <1>0, <1>1, <2>1, <2>3 DEF OutFits
  <2>4. ASSUME out # <<>> PROVE UpTo(out[Len(out)][1], out[Len(out)][2])'
    <3>1. PICK a \in 1..popped, k \in Nat \ {0} :
            /\ out[Len(out)] = <<a, k>> /\ k = Counts[a]
            /\ \A j \in a + 1 .. popped : Counts[j] = 0
      BY <1>4, <2>1, <2>4
    <3>2. \A j \in a + 1 .. popped + 1 : Counts[j] = 0
      <4>1. \A j \in a + 1 .. popped + 1 : j \in a + 1 .. popped \/ j = popped + 1
        BY <1>1
      <4>2. QED
        BY <2>1, <3>1, <4>1
    <3>3. a \in 1 .. popped + 1 /\ a # popped + 1
      BY <1>1
    <3>4. out'[Len(out')] = <<a, k>>
      BY <2>1, <3>1
    <3>5. UpTo(a, k)'
      BY <2>1, <3>1, <3>2, <3>3 DEF UpTo
    <3>6. QED
      BY <3>4, <3>5 DEF UpTo
  <2>5. QED
    BY <2>1, <2>2, <2>3, <2>4 DEF OutFits
<1>7. CASE ReadNothing
  BY <1>0, <1>7 DEF ReadNothing, OutFits, OutFollows, UpTo
<1>8. QED
  BY <1>3, <1>5, <1>6, <1>7 DEF DReads

LEMMA DStep == DInv /\ [DNext]_decoderVars => DInv'
<1> SUFFICES ASSUME DInv, [DNext]_decoderVars PROVE DInv'
  OBVIOUS
<1>1. CASE DFeeds
  BY <1>1, FeedsFit, FeedsLoseNothing, FeedsPushNothing DEF DInv
<1>2. CASE DReads
  BY <1>2, ReadsFit, ReadsLoseNothing, ReadsPushInOrder DEF DInv
<1>3. CASE UNCHANGED decoderVars
  <2>1. DTypeOK' <=> DTypeOK
    BY <1>3 DEF decoderVars, DTypeOK
  <2>2. FoundFits' <=> FoundFits
    BY <1>3 DEF decoderVars, FoundFits
  <2>3. NoneMissing' <=> NoneMissing
    BY <1>3 DEF decoderVars, NoneMissing, BlockArrived
  <2>4. (OutFits' <=> OutFits) /\ (OutFollows' <=> OutFollows) /\ failed' = failed
    BY <1>3 DEF decoderVars, OutFits, OutFollows, UpTo
  <2>5. QED
    BY <2>1, <2>2, <2>3, <2>4 DEF DInv
<1>4. QED
  BY <1>1, <1>2, <1>3 DEF DNext, DFeeds, DReads

\* The decoder's invariant holds.
THEOREM DInvHolds == DSpec => []DInv
<1>1. QED
  BY DInitFits, DStep, PTL DEF DSpec

\* The end is pushed when all was.
LEMMA DInvEndsAfterLast == DInv => EndsAfterLast
<1> SUFFICES ASSUME DInv, ended, ~failed PROVE EndsAfterLast
  BY DEF EndsAfterLast
<1>1. DTypeOK /\ NoneMissing /\ OutFits /\ finished /\ running = "idle" /\ remaining = 0
  BY DEF DInv, NoneMissing
<1>2. popped = Len(Counts) /\ Blocks = 1..popped
  BY <1>1, FinishedTakesAll, FileSizes
<1>3. out = <<>> => \A i \in Blocks : Counts[i] = 0
  BY <1>1, <1>2 DEF OutFits
<1>4. ASSUME out # <<>>
      PROVE  /\ out[Len(out)][2] = Counts[out[Len(out)][1]]
             /\ \A i \in out[Len(out)][1] + 1 .. Len(Counts) : Counts[i] = 0
  <2>1. PICK a \in Blocks, k \in Nat \ {0} : out[Len(out)] = <<a, k>>
    BY <1>1, <1>4 DEF DTypeOK
  <2>2. UpTo(a, k)
    BY <1>1, <1>4, <2>1 DEF OutFits
  <2>3. QED
    BY <1>1, <1>2, <2>1, <2>2 DEF UpTo
<1>5. QED
  BY <1>1, <1>2, <1>3, <1>4 DEF EndsAfterLast

\* Of a file: however its bytes are cut and whenever the codec calls back, as long as nothing
\* fails values come out in the order of the file, none is missing before another, and the end
\* comes after the last.
THEOREM ValuesComeInOrder == DSpec => [](ValuesInOrder /\ EndsAfterLast)
<1>1. DInv => ValuesInOrder
  BY DEF DInv, ValuesInOrder, OutFollows
<1>2. QED
  BY <1>1, DInvEndsAfterLast, DInvHolds, PTL

----------------------------------------------------------------------------
(* A stream that waits.                                                     *)

\* No block is empty except the last: the decoder stops at any other.
OnlyLastIsEmpty == \A i \in Blocks : Counts[i] = 0 => i = Len(Counts)

\* A stream that waits is not left with the block it needs, also while the loop runs.
WaitsForBlock == running \in {"idle", "loop"} /\ needPush => popped + 1 \notin queue

LEMMA WaitsStep ==
  ASSUME OnlyLastIsEmpty, DInv, DInv', WaitsForBlock, [DNext]_decoderVars
  PROVE  WaitsForBlock'
<1>1. CASE UNCHANGED decoderVars
  BY <1>1 DEF decoderVars, WaitsForBlock
<1>2. ASSUME UNCHANGED <<queue, popped, needPush>>, running \in {"idle", "loop"} \/ running' \notin {"idle", "loop"}
      PROVE  WaitsForBlock'
  BY <1>2 DEF WaitsForBlock
<1>3. ASSUME NEW n \in 1..FileSize, WriteChunk(n) \/ BadHeader(n) PROVE WaitsForBlock'
  BY <1>2, <1>3 DEF WriteChunk, BadHeader
<1>4. CASE TickCallsBack \/ BadMarker \/ LoopEnds \/ CallRead \/ Finish
  BY <1>2, <1>4 DEF TickCallsBack, BadMarker, LoopEnds, CallRead, Finish
<1>5. CASE ReadBlock
  BY <1>5 DEF ReadBlock, Woken, WaitsForBlock
<1>6. ASSUME NEW i \in inflating, Decompressed(i) PROVE WaitsForBlock'
  BY <1>6 DEF Decompressed, Woken, WaitsForBlock
<1>7. CASE ReadNextValue \/ ReadNextBlock
  BY <1>7 DEF ReadNextValue, ReadNextBlock, WaitsForBlock
<1>8. CASE ReadEmptyBlock
  <2>1. popped + 1 \in queue /\ Counts[popped + 1] = 0 /\ popped' = popped + 1
    BY <1>8 DEF ReadEmptyBlock
  <2>2. popped + 1 \in Blocks /\ queue' \subseteq Blocks
    BY <2>1 DEF DInv, DTypeOK
  <2>3. popped' = Len(Counts)
    BY <2>1, <2>2 DEF OnlyLastIsEmpty
  <2>4. popped' + 1 \notin queue'
    BY <2>2, <2>3, FileSizes
  <2>5. QED
    BY <2>4 DEF WaitsForBlock
<1>9. CASE ReadNothing
  BY <1>9 DEF ReadNothing, WaitsForBlock
<1>10. QED
  BY <1>1, <1>3, <1>4, <1>5, <1>6, <1>7, <1>8, <1>9 DEF DNext

\* All that ReadsInOrder says, of files in which no block is empty but the last: besides the
\* order, a stream that waits for a push does not wait while the block it needs is there.
THEOREM FilesAreReadInOrder ==
  ASSUME OnlyLastIsEmpty
  PROVE  DSpec => []ReadsInOrder
<1>1. DInit => WaitsForBlock
  BY DEF DInit, WaitsForBlock
<1>2. DInv /\ DInv' /\ WaitsForBlock /\ [DNext]_decoderVars => WaitsForBlock'
  BY WaitsStep
<1>3. WaitsForBlock => NoMissedBlock
  BY DEF WaitsForBlock, NoMissedBlock
<1>4. ValuesInOrder /\ EndsAfterLast /\ NoMissedBlock => ReadsInOrder
  BY DEF ReadsInOrder
<1>5. QED
  BY <1>1, <1>2, <1>3, <1>4, DInvHolds, ValuesComeInOrder, PTL DEF DSpec

----------------------------------------------------------------------------
(* The inductive invariant.                                                *)

\* A block that says how many values it has, and has some.
Sound(block) == block \in BlockRecord /\ block.count = Len(block.values) /\ block.count > 0

\* Of the variables the other parts count and order.
BTypeOK ==
  /\ received \in Nat /\ held \in Seq(DOMAIN Sizes) /\ blockCount \in Nat
  /\ position \in Nat /\ blockSize \in Nat
  /\ pending \in Nat /\ compressing \subseteq BlockRecord
  /\ blocks \in Seq(BlockRecord) /\ file \in Seq(BlockRecord)

\* What the codec has is one block, which is pending.
OneInCodec ==
  /\ compressing # {} => pending = 1
  /\ \A a, b \in compressing : a = b

\* Every block that was made is sound, also in the file, after the header.
AllSound ==
  /\ \A block \in compressing : Sound(block)
  /\ \A n \in 1..Len(blocks) : Sound(blocks[n])
  /\ \A n \in 1..Len(file) : Sound(file[n]) \/ (n = 1 /\ file[n] = Header)

\* Until the first write there is nothing.
HeaderWaits == needHeader => file = <<>> /\ blocks = <<>> /\ compressing = {} /\ pending = 0
                             /\ blockCount = 0

\* The count is of the values in the tap, unless these have left with the last block.
CountFits ==
  ~closed => /\ blockCount = Len(held)
             /\ position > 0 => blockCount > 0
             /\ position = 0 => blockCount = 0 \/ \A i \in DOMAIN Sizes : Sizes[i] = 0

BInv == BTypeOK /\ OneBlockAtATime /\ OneInCodec /\ AllSound /\ HeaderWaits /\ CountFits

----------------------------------------------------------------------------
(* Sequences.                                                              *)

LEMMA Appended ==
  ASSUME NEW S, NEW s \in Seq(S), NEW e \in S
  PROVE  /\ Append(s, e) \in Seq(S) /\ Len(s) \in Nat /\ Len(Append(s, e)) = Len(s) + 1
         /\ \A i \in 1..Len(Append(s, e)) : Append(s, e)[i] = IF i = Len(s) + 1 THEN e ELSE s[i]
BY AppendProperties, LenProperties

LEMMA Shifted ==
  ASSUME NEW S, NEW s \in Seq(S), s # <<>>
  PROVE  /\ Tail(s) \in Seq(S) /\ Head(s) \in S /\ Len(s) \in Nat \ {0}
         /\ Head(s) = s[1] /\ Len(Tail(s)) = Len(s) - 1
         /\ \A i \in 1..Len(Tail(s)) : Tail(s)[i] = s[i + 1]
BY HeadTailProperties, LenProperties, EmptySeq

LEMMA EmptyLen == ASSUME NEW S, NEW s \in Seq(S) PROVE Len(s) \in Nat /\ (Len(s) = 0 <=> s = <<>>)
BY LenProperties, EmptySeq

----------------------------------------------------------------------------
(* The steps.                                                              *)

\* A list of which each member is sound, save a header in front.
FileSound(list) ==
  list \in Seq(BlockRecord) /\ \A n \in 1..Len(list) : Sound(list[n]) \/ (n = 1 /\ list[n] = Header)

\* A block that is put behind it keeps it so.
LEMMA FileGrows ==
  ASSUME NEW list, FileSound(list), NEW block, Sound(block)
  PROVE  FileSound(Append(list, block))
<1>1. list \in Seq(BlockRecord) /\ block \in BlockRecord
  BY DEF FileSound, Sound
<1>2. /\ Append(list, block) \in Seq(BlockRecord) /\ Len(list) \in Nat
      /\ Len(Append(list, block)) = Len(list) + 1
      /\ \A i \in 1..Len(Append(list, block)) :
           Append(list, block)[i] = IF i = Len(list) + 1 THEN block ELSE list[i]
  BY <1>1, Appended
<1>3. ASSUME NEW n \in 1..Len(Append(list, block))
      PROVE  Sound(Append(list, block)[n]) \/ (n = 1 /\ Append(list, block)[n] = Header)
  <2>1. CASE n = Len(list) + 1
    BY <1>2, <2>1
  <2>2. CASE n \in 1..Len(list)
    BY <1>2, <2>2 DEF FileSound
  <2>3. QED
    BY <1>2, <2>1, <2>2
<1>4. QED
  BY <1>2, <1>3 DEF FileSound

\* A block that is ready, where none is queued, is queued or pushed.
LEMMA ReadyKeeps ==
  ASSUME BInv, NEW block, Sound(block), NEW pushed, FileSound(pushed), NEW ask, NEW wait,
         blocks = <<>>, BlockReady(block, pushed, ask, wait)
  PROVE  /\ FileSound(file') /\ blocks' \in Seq(BlockRecord)
         /\ Len(blocks') \in {0, 1} /\ (Len(blocks') = 1 => waiting' = wait)
         /\ \A n \in 1..Len(blocks') : Sound(blocks'[n])
<1> DEFINE line == Append(blocks, block)
<1>1. block \in BlockRecord /\ blocks \in Seq(BlockRecord) /\ Len(blocks) = 0
  BY DEF BInv, BTypeOK, Sound
<1>2. line \in Seq(BlockRecord) /\ Len(line) = 1 /\ line[1] = block /\ line # <<>>
  BY <1>1, Appended, AppendProperties
<1>3. CASE wantPush
  <2>1. file' = Append(pushed, Head(line)) /\ blocks' = Tail(line)
    BY <1>3 DEF BlockReady, PushBlock
  <2>2. Head(line) = block /\ Tail(line) \in Seq(BlockRecord) /\ Len(Tail(line)) = 0
    BY <1>2, Shifted
  <2>3. QED
    BY <2>1, <2>2, FileGrows
<1>4. CASE ~wantPush
  <2>1. file' = pushed /\ blocks' = line /\ waiting' = wait
    BY <1>4 DEF BlockReady
  <2>2. \A n \in 1..Len(line) : Sound(line[n])
    BY <1>2
  <2>3. QED
    BY <1>2, <2>1, <2>2
<1>5. QED
  BY <1>3, <1>4

\* What a flush leaves, when nothing was between the tap and the file.
LEMMA FlushKeeps ==
  ASSUME BInv, ~waiting, ~closed, blockCount > 0, NEW pushed, FileSound(pushed), NEW ask, NEW wait,
         FlushChunk(pushed, ask, wait), wait \/ closed'
  PROVE  /\ pending' \in Nat /\ compressing' \subseteq BlockRecord /\ blocks' \in Seq(BlockRecord)
         /\ OneBlockAtATime' /\ OneInCodec' /\ AllSound' /\ FileSound(file')
<1> DEFINE block == [count |-> blockCount, values |-> held]
<1>1. blocks = <<>> /\ pending = 0 /\ compressing = {} /\ Len(blocks) = 0
  <2>1. Len(blocks) \in Nat /\ (Len(blocks) = 0 <=> blocks = <<>>)
    BY EmptyLen DEF BInv, BTypeOK
  <2>2. pending \in Nat /\ pending + Len(blocks) # 1 /\ pending + Len(blocks) <= 1
    BY DEF BInv, BTypeOK, OneBlockAtATime
  <2>3. pending = 0 /\ Len(blocks) = 0
    BY <2>1, <2>2
  <2>4. QED
    BY <2>1, <2>3 DEF BInv, OneInCodec
<1>2. Sound(block) /\ block \in BlockRecord
  BY DEF BInv, BTypeOK, CountFits, Sound, BlockRecord
<1> HIDE DEF block
<1>3. CASE /\ pending' = pending + 1 /\ compressing' = compressing \cup {block}
           /\ file' = pushed /\ waiting' = wait /\ blocks' = blocks
  <2>1. pending' = 1 /\ compressing' = {block} /\ Len(blocks') = 0 /\ blocks' \in Seq(BlockRecord)
    BY <1>1, <1>3 DEF BInv, BTypeOK
  <2>2. OneBlockAtATime' /\ OneInCodec'
    BY <1>3, <2>1 DEF OneBlockAtATime, OneInCodec
  <2>3. AllSound'
    BY <1>2, <1>3, <2>1 DEF AllSound, FileSound
  <2>4. QED
    BY <1>2, <1>3, <2>1, <2>2, <2>3
<1>4. CASE BlockReady(block, pushed, ask, wait) /\ UNCHANGED <<pending, compressing>>
  <2>1. /\ FileSound(file') /\ blocks' \in Seq(BlockRecord)
        /\ Len(blocks') \in {0, 1} /\ (Len(blocks') = 1 => waiting' = wait)
        /\ \A n \in 1..Len(blocks') : Sound(blocks'[n])
    BY <1>1, <1>2, <1>4, ReadyKeeps
  <2>2. OneBlockAtATime' /\ OneInCodec'
    BY <1>1, <1>4, <2>1 DEF OneBlockAtATime, OneInCodec
  <2>3. AllSound'
    BY <1>1, <1>4, <2>1 DEF AllSound, FileSound
  <2>4. QED
    BY <1>1, <1>4, <2>1, <2>2, <2>3
<1>5. CASE /\ pending' = pending + 1 /\ UNCHANGED <<compressing, blocks>>
           /\ file' = pushed /\ waiting' = wait
  <2>1. pending' = 1 /\ compressing' = {} /\ Len(blocks') = 0 /\ blocks' \in Seq(BlockRecord)
    BY <1>1, <1>5 DEF BInv, BTypeOK
  <2>2. OneBlockAtATime' /\ OneInCodec'
    BY <1>5, <2>1 DEF OneBlockAtATime, OneInCodec
  <2>3. AllSound'
    BY <1>5, <2>1 DEF AllSound, FileSound
  <2>4. QED
    BY <1>5, <2>1, <2>2, <2>3
<1>6. QED
  BY <1>3, <1>4, <1>5 DEF FlushChunk, block

\* What the first write puts in front.
LEMMA HeaderKeeps ==
  ASSUME BInv PROVE FileSound(OutWithHeader) /\ (needHeader => OutWithHeader = <<Header>>)
<1>1. FileSound(file) /\ (needHeader => file = <<>>)
  BY DEF BInv, BTypeOK, AllSound, FileSound, HeaderWaits
<1>2. Header \in BlockRecord
  BY DEF Header, BlockRecord
<1>3. FileSound(<<Header>>)
  BY <1>2 DEF FileSound
<1>4. Append(<<>>, Header) = <<Header>>
  OBVIOUS
<1>5. QED
  BY <1>1, <1>3, <1>4 DEF OutWithHeader

\* A write that flushes nothing.
LEMMA WriteKeeps ==
  ASSUME BInv, CanWrite, needHeader' = FALSE, WriteHeader,
         UNCHANGED <<pending, compressing, blocks, waiting, closed>>,
         received' = Incoming, held' \in Seq(DOMAIN Sizes), blockCount' \in Nat, position' \in Nat,
         blockSize' \in Nat, CountFits'
  PROVE  BInv'
<1>1. FileSound(file')
  BY HeaderKeeps DEF WriteHeader
<1>2. BTypeOK'
  BY <1>1 DEF BInv, BTypeOK, FileSound, Incoming
<1>3. OneBlockAtATime' /\ OneInCodec'
  BY DEF BInv, OneBlockAtATime, OneInCodec
<1>4. AllSound' /\ HeaderWaits'
  BY <1>1 DEF BInv, AllSound, HeaderWaits, FileSound
<1>5. QED
  BY <1>2, <1>3, <1>4 DEF BInv

LEMMA Accepts ==
  ASSUME BInv, CanWrite, Incoming \notin Invalid
  PROVE  /\ Incoming \in DOMAIN Sizes /\ Sizes[Incoming] \in Nat
         /\ blockCount = Len(held) /\ ~closed /\ ~waiting
BY EncoderAssumption, ElementOfSeq, LenProperties DEF BInv, BTypeOK, CanWrite, Incoming, CountFits

LEMMA InvalidKeeps == ASSUME BInv, WriteInvalid PROVE BInv'
<1>1. CountFits' /\ held' \in Seq(DOMAIN Sizes) /\ blockCount' \in Nat /\ position' \in Nat /\ blockSize' \in Nat
  BY DEF BInv, BTypeOK, CountFits, WriteInvalid
<1>2. QED
  BY <1>1, WriteKeeps DEF WriteInvalid

LEMMA FitsKeeps == ASSUME BInv, WriteFits PROVE BInv'
<1>1. /\ Incoming \in DOMAIN Sizes /\ Sizes[Incoming] \in Nat /\ blockCount = Len(held)
  BY Accepts DEF WriteFits
<1>2. /\ held' = Append(held, Incoming) /\ position' = position + Sizes[Incoming]
      /\ blockCount' = blockCount + 1 /\ UNCHANGED <<blockSize, closed>>
      /\ held \in Seq(DOMAIN Sizes) /\ blockCount \in Nat /\ position \in Nat /\ blockSize \in Nat
  BY DEF WriteFits, BInv, BTypeOK
<1>3. held' \in Seq(DOMAIN Sizes) /\ Len(held') = Len(held) + 1
  BY <1>1, <1>2, Appended
<1>4. position' = 0 => \A i \in DOMAIN Sizes : Sizes[i] = 0
  BY <1>1, <1>2, EncoderAssumption
<1>5. CountFits'
  BY <1>1, <1>2, <1>3, <1>4 DEF CountFits
<1>6. position' \in Nat /\ blockCount' \in Nat /\ blockSize' \in Nat
  BY <1>1, <1>2
<1>7. QED
  BY <1>3, <1>5, <1>6, WriteKeeps DEF WriteFits

\* What a tap with the one value holds.
LEMMA RewriteFits ==
  ASSUME BInv, CanWrite, Incoming \notin Invalid, Rewrite(Incoming), blockCount' = 1
  PROVE  CountFits' /\ held' \in Seq(DOMAIN Sizes) /\ position' \in Nat /\ blockSize' \in Nat
<1>1. Incoming \in DOMAIN Sizes /\ Sizes[Incoming] \in Nat
  BY Accepts
<1>2. held' = <<Incoming>> /\ position' = Sizes[Incoming]
  BY DEF Rewrite
<1>3. held' \in Seq(DOMAIN Sizes) /\ Len(held') = 1
  BY <1>1, <1>2
<1>4. blockSize' \in Nat
  BY <1>1 DEF Rewrite, BInv, BTypeOK
<1>5. position' = 0 => \A i \in DOMAIN Sizes : Sizes[i] = 0
  <2>1. (\A i \in DOMAIN Sizes : Sizes[i] = 0) \/ Sizes[Incoming] > 0
    BY <1>1, EncoderAssumption
  <2>2. QED
    BY <1>1, <1>2, <2>1
<1>6. QED
  BY <1>1, <1>2, <1>3, <1>4, <1>5 DEF CountFits

\* Values that do not fit an empty tap come first in it: of empty values all fit.
LEMMA AloneKeeps == ASSUME BInv, WriteAlone PROVE BInv'
<1>1. /\ Incoming \in DOMAIN Sizes /\ Sizes[Incoming] \in Nat /\ ~closed /\ blockCount' = blockCount + 1
      /\ position = 0 /\ position + Sizes[Incoming] > blockSize
  BY Accepts DEF WriteAlone
<1>2. Sizes[Incoming] # 0
  BY <1>1 DEF BInv, BTypeOK
<1>3. blockCount' = 1
  BY <1>1, <1>2 DEF BInv, BTypeOK, CountFits
<1>4. CountFits' /\ held' \in Seq(DOMAIN Sizes) /\ position' \in Nat /\ blockSize' \in Nat
  BY <1>3, RewriteFits DEF WriteAlone
<1>5. QED
  <2>1. blockCount' \in Nat
    BY <1>3
  <2>2. QED
    BY <1>4, <2>1, WriteKeeps DEF WriteAlone

LEMMA AfterFlushKeeps == ASSUME BInv, WriteAfterFlush PROVE BInv'
<1>1. /\ ~closed /\ ~waiting /\ blockCount > 0
  BY DEF WriteAfterFlush, CanWrite, BInv, CountFits
<1>2. /\ pending' \in Nat /\ compressing' \subseteq BlockRecord /\ blocks' \in Seq(BlockRecord)
      /\ OneBlockAtATime' /\ OneInCodec' /\ AllSound' /\ FileSound(file')
  BY <1>1, HeaderKeeps, FlushKeeps DEF WriteAfterFlush
<1>3. CountFits' /\ held' \in Seq(DOMAIN Sizes) /\ position' \in Nat /\ blockSize' \in Nat
  BY RewriteFits DEF WriteAfterFlush
<1>4. blockCount' = 1 /\ received' = Incoming /\ needHeader' = FALSE
  BY DEF WriteAfterFlush
<1>5. BTypeOK' /\ HeaderWaits'
  BY <1>2, <1>3, <1>4 DEF BInv, BTypeOK, FileSound, Incoming, HeaderWaits
<1>6. QED
  BY <1>2, <1>3, <1>5 DEF BInv

LEMMA FinishKeeps == ASSUME BInv, FinishWithBlock PROVE BInv'
<1>1. /\ ~closed /\ ~waiting /\ blockCount > 0 /\ closed' = TRUE /\ blockCount' = 0
      /\ FlushChunk(file, asked, FALSE)
      /\ UNCHANGED <<received, held, position, blockSize, needHeader>>
  BY DEF FinishWithBlock
<1>2. FileSound(file) /\ ~needHeader
  BY <1>1 DEF BInv, BTypeOK, AllSound, FileSound, HeaderWaits
<1>3. /\ pending' \in Nat /\ compressing' \subseteq BlockRecord /\ blocks' \in Seq(BlockRecord)
      /\ OneBlockAtATime' /\ OneInCodec' /\ AllSound' /\ FileSound(file')
  BY <1>1, <1>2, FlushKeeps
<1>4. BTypeOK' /\ HeaderWaits' /\ CountFits'
  BY <1>1, <1>2, <1>3 DEF BInv, BTypeOK, FileSound, HeaderWaits, CountFits
<1>5. QED
  BY <1>3, <1>4 DEF BInv

\* The codec calls back, or fails: then the block stays pending.
LEMMA CompressedKeeps ==
  ASSUME BInv, NEW block \in compressing, Compressed(block) PROVE BInv'
<1>1. /\ pending = 1 /\ blocks = <<>> /\ compressing' = {} /\ (waiting \/ closed) /\ ~needHeader
      /\ UNCHANGED <<received, held, position, blockSize, blockCount, needHeader, closed>>
  <2>1. pending = 1 /\ compressing' = {} /\ ~needHeader
    BY DEF BInv, OneInCodec, HeaderWaits, Compressed
  <2>2. Len(blocks) \in Nat /\ (Len(blocks) = 0 <=> blocks = <<>>)
    BY EmptyLen DEF BInv, BTypeOK
  <2>3. Len(blocks) = 0
    BY <2>1, <2>2 DEF BInv, OneBlockAtATime
  <2>4. QED
    BY <2>1, <2>2, <2>3 DEF BInv, OneBlockAtATime, Compressed
<1>2. Sound(block) /\ FileSound(file)
  BY DEF BInv, BTypeOK, AllSound, FileSound
<1>3. CountFits' /\ HeaderWaits'
  BY <1>1 DEF BInv, CountFits, HeaderWaits
<1>4. CASE pending' = pending - 1 /\ BlockReady(block, file, asked, waiting)
  <2>1. /\ FileSound(file') /\ blocks' \in Seq(BlockRecord)
        /\ Len(blocks') \in {0, 1} /\ (Len(blocks') = 1 => waiting' = waiting)
        /\ \A n \in 1..Len(blocks') : Sound(blocks'[n])
    BY <1>1, <1>2, <1>4, ReadyKeeps
  <2>2. OneBlockAtATime' /\ OneInCodec'
    BY <1>1, <1>4, <2>1 DEF OneBlockAtATime, OneInCodec
  <2>3. BTypeOK' /\ AllSound'
    BY <1>1, <1>4, <2>1 DEF BInv, BTypeOK, AllSound, FileSound
  <2>4. QED
    BY <1>3, <2>2, <2>3 DEF BInv
<1>5. CASE UNCHANGED <<pending, blocks, file, waiting>>
  BY <1>1, <1>3, <1>5 DEF BInv, BTypeOK, OneBlockAtATime, OneInCodec, AllSound
<1>6. QED
  BY <1>4, <1>5 DEF Compressed

LEMMA ReadKeeps == ASSUME BInv, CallReadBlock PROVE BInv'
<1>1. /\ blocks # <<>> /\ file' = Append(file, Head(blocks)) /\ blocks' = Tail(blocks)
      /\ UNCHANGED <<received, held, position, blockSize, blockCount, pending, compressing, needHeader, closed>>
  BY DEF CallReadBlock, PushBlock
<1>2. /\ Tail(blocks) \in Seq(BlockRecord) /\ Len(blocks) \in Nat \ {0}
      /\ Head(blocks) = blocks[1] /\ Len(Tail(blocks)) = Len(blocks) - 1
  BY <1>1, Shifted DEF BInv, BTypeOK
<1>3. Len(blocks) = 1 /\ pending = 0 /\ Len(blocks') = 0
  BY <1>1, <1>2 DEF BInv, BTypeOK, OneBlockAtATime
<1>4. Sound(Head(blocks)) /\ FileSound(file)
  BY <1>2 DEF BInv, BTypeOK, AllSound, FileSound
<1>5. FileSound(file')
  BY <1>1, <1>4, FileGrows
<1>6. OneBlockAtATime' /\ OneInCodec' /\ HeaderWaits' /\ CountFits'
  <2>1. pending' + Len(blocks') = 0 /\ compressing = {} /\ ~needHeader
    BY <1>1, <1>3 DEF BInv, OneInCodec, HeaderWaits
  <2>2. QED
    BY <1>1, <2>1 DEF BInv, OneBlockAtATime, OneInCodec, HeaderWaits, CountFits
<1>7. BTypeOK' /\ AllSound'
  BY <1>1, <1>2, <1>3, <1>5 DEF BInv, BTypeOK, AllSound, FileSound
<1>8. QED
  BY <1>6, <1>7 DEF BInv

\* The steps that touch no block.
LEMMA QuietKeeps ==
  ASSUME BInv, closed' \/ closed' = closed,
         UNCHANGED <<received, held, position, blockSize, blockCount, pending, compressing, blocks,
                     waiting, needHeader, file>>
  PROVE  BInv'
BY DEF BInv, BTypeOK, OneBlockAtATime, OneInCodec, AllSound, HeaderWaits, CountFits

----------------------------------------------------------------------------
(* The theorems.                                                           *)

LEMMA BInvInitially == EInit => BInv
<1> SUFFICES ASSUME EInit PROVE BInv
  OBVIOUS
<1>1. /\ received = 0 /\ held = <<>> /\ position = 0 /\ blockSize = Threshold /\ blockCount = 0
      /\ pending = 0 /\ compressing = {} /\ blocks = <<>>
      /\ file = <<>> \/ (~needHeader /\ file = <<Header>>)
  BY DEF EInit
<1>2. Header \in BlockRecord
  BY DEF Header, BlockRecord
<1>3. FileSound(file)
  <2>1. FileSound(<<>>) /\ FileSound(<<Header>>)
    BY <1>2 DEF FileSound
  <2>2. QED
    BY <1>1, <2>1
<1>4. BTypeOK
  BY <1>1, <1>3, EncoderAssumption DEF BTypeOK, FileSound
<1>5. OneBlockAtATime /\ OneInCodec /\ HeaderWaits /\ CountFits
  BY <1>1 DEF OneBlockAtATime, OneInCodec, HeaderWaits, CountFits, EInit
<1>6. AllSound
  BY <1>1, <1>3 DEF AllSound, FileSound
<1>7. QED
  BY <1>4, <1>5, <1>6 DEF BInv

LEMMA BInvStep == BInv /\ [ENext]_encoderVars => BInv'
<1> SUFFICES ASSUME BInv, [ENext]_encoderVars PROVE BInv'
  OBVIOUS
<1>1. CASE EWrite
  BY <1>1, InvalidKeeps, FitsKeeps, AloneKeeps, AfterFlushKeeps DEF EWrite
<1>2. CASE EFinish
  BY <1>2, FinishKeeps, QuietKeeps DEF EFinish, FinishWithoutBlock
<1>3. CASE ERead
  BY <1>3, ReadKeeps, QuietKeeps DEF ERead, CallReadNothing, TickPushesEnd
<1>4. ASSUME NEW block \in compressing, Compressed(block) PROVE BInv'
  BY <1>4, CompressedKeeps
<1>5. CASE UNCHANGED encoderVars
  BY <1>5, QuietKeeps DEF encoderVars
<1>6. QED
  BY <1>1, <1>2, <1>3, <1>4, <1>5 DEF ENext

\* The encoder's invariant holds, whenever the codec calls back and whatever the stream reads.
THEOREM BInvHolds == ESpec => []BInv
BY BInvInitially, BInvStep, PTL DEF ESpec

\* There is never more than one block between the tap and the file: the queue that is meant
\* to order blocks by a number, which they do not have, has nothing to order.
THEOREM BlocksNeedNoOrder == ESpec => []OneBlockAtATime
<1>1. BInv => OneBlockAtATime
  BY DEF BInv
<1>2. QED
  BY <1>1, BInvHolds, PTL

\* Each block that was pushed says how many values it has.
CountsMatch == \A n \in 1..Len(file) : file[n].count = Len(file[n].values)

\* The header is pushed before every block and not again, and each block says how many
\* values it has.
THEOREM FileIsWellFormed == ESpec => [](HeaderFirst /\ CountsMatch)
<1>1. BInv => HeaderFirst /\ CountsMatch
  <2> SUFFICES ASSUME BInv PROVE HeaderFirst /\ CountsMatch
    OBVIOUS
  <2>1. Header.count = 0 /\ Header.count = Len(Header.values)
    BY DEF Header
  <2>2. \A n \in 2..Len(file) : n \in 1..Len(file) /\ n # 1
    BY LenProperties DEF BInv, BTypeOK
  <2>3. HeaderFirst
    BY <2>1, <2>2 DEF BInv, AllSound, Sound, HeaderFirst
  <2>4. CountsMatch
    BY <2>1 DEF BInv, AllSound, Sound, CountsMatch
  <2>5. QED
    BY <2>3, <2>4
<1>2. QED
  BY <1>1, BInvHolds, PTL

----------------------------------------------------------------------------
(* The order of values.                                                    *)

\* x is a value of a file's blocks, of those on their way to it, or of what is held back.
Holds(list, way, last, x) ==
  \/ \E k \in 1..Len(list) : x \in ValuesIn(list[k].values)
  \/ \E block \in way : x \in ValuesIn(block.values)
  \/ x \in ValuesIn(last)

\* The first n values are in the blocks of a file, in those on their way to it, and held back,
\* in this order.
Placed(list, way, last, n) ==
  /\ \A k \in 1..Len(list) :
       /\ Increasing(list[k].values) /\ Before(list[k].values, last)
       /\ \A m \in 1..k - 1 : Before(list[m].values, list[k].values)
       /\ \A block \in way : Before(list[k].values, block.values)
  /\ \A block \in way : Increasing(block.values) /\ Before(block.values, last)
  /\ Increasing(last)
  /\ \A x : x \in Valid(n) <=> Holds(list, way, last, x)

AllPlaced == ~broken => Placed(file, OnTheWay, HeldBack, received)

\* Another value is held back.
LEMMA ValueArrives ==
  ASSUME NEW list \in Seq(BlockRecord), NEW way \in SUBSET BlockRecord, NEW last \in Seq(DOMAIN Sizes),
         NEW n \in Nat, Placed(list, way, last, n), n + 1 \notin Invalid
  PROVE  Placed(list, way, Append(last, n + 1), n + 1)
<1> DEFINE more == Append(last, n + 1)
<1>1. /\ DOMAIN last = 1..Len(last) /\ Len(last) \in Nat /\ DOMAIN more = 1..Len(last) + 1
      /\ more[Len(last) + 1] = n + 1 /\ \A i \in 1..Len(last) : more[i] = last[i]
  <2>1. last \in Seq(DOMAIN Sizes \cup {n + 1}) /\ n + 1 \in DOMAIN Sizes \cup {n + 1}
    OBVIOUS
  <2>2. QED
    BY <2>1, AppendProperties, LenProperties
<1> HIDE DEF more
<1>2. /\ \A k \in 1..Len(list) : \A i \in DOMAIN list[k].values : list[k].values[i] \in Valid(n)
      /\ \A block \in way : \A i \in DOMAIN block.values : block.values[i] \in Valid(n)
      /\ \A i \in DOMAIN last : last[i] \in Valid(n)
  <2>1. \A x : Holds(list, way, last, x) => x \in Valid(n)
    BY DEF Placed
  <2>2. ASSUME NEW k \in 1..Len(list), NEW i \in DOMAIN list[k].values
        PROVE  list[k].values[i] \in Valid(n)
    <3>1. list[k].values[i] \in ValuesIn(list[k].values)
      BY DEF ValuesIn
    <3>2. QED
      BY <2>1, <3>1 DEF Holds
  <2>3. ASSUME NEW block \in way, NEW i \in DOMAIN block.values
        PROVE  block.values[i] \in Valid(n)
    <3>1. block.values[i] \in ValuesIn(block.values)
      BY DEF ValuesIn
    <3>2. QED
      BY <2>1, <3>1 DEF Holds
  <2>4. ASSUME NEW i \in DOMAIN last PROVE last[i] \in Valid(n)
    <3>1. last[i] \in ValuesIn(last)
      BY DEF ValuesIn
    <3>2. QED
      BY <2>1, <3>1 DEF Holds
  <2>5. QED
    BY <2>2, <2>3, <2>4
<1>3. \A x \in Valid(n) : x \in Nat /\ x < n + 1
  BY DEF Valid
<1>4. ASSUME NEW values, Before(values, last), \A i \in DOMAIN values : values[i] \in Valid(n)
      PROVE  Before(values, more)
  <2> SUFFICES ASSUME NEW i \in DOMAIN values, NEW j \in DOMAIN more PROVE values[i] < more[j]
    BY DEF Before
  <2>1. CASE j = Len(last) + 1
    BY <1>1, <1>3, <1>4, <2>1
  <2>2. CASE j \in DOMAIN last
    BY <1>1, <1>4, <2>2 DEF Before
  <2>3. QED
    BY <1>1, <2>1, <2>2
<1>5. Increasing(more)
  <2> SUFFICES ASSUME NEW i \in DOMAIN more, NEW j \in DOMAIN more, i < j PROVE more[i] < more[j]
    BY DEF Increasing
  <2>1. i \in 1..Len(last)
    BY <1>1
  <2>2. CASE j = Len(last) + 1
    BY <1>1, <1>2, <1>3, <2>1, <2>2
  <2>3. CASE j \in 1..Len(last)
    BY <1>1, <2>1, <2>3 DEF Placed, Increasing
  <2>4. QED
    BY <1>1, <2>2, <2>3
<1>6. ValuesIn(more) = ValuesIn(last) \cup {n + 1}
  <2>1. ASSUME NEW x \in ValuesIn(more) PROVE x \in ValuesIn(last) \cup {n + 1}
    BY <1>1, <2>1 DEF ValuesIn
  <2>2. ASSUME NEW x \in ValuesIn(last) PROVE x \in ValuesIn(more)
    BY <1>1, <2>2 DEF ValuesIn
  <2>3. n + 1 \in ValuesIn(more)
    BY <1>1 DEF ValuesIn
  <2>4. QED
    BY <2>1, <2>2, <2>3
<1>7. Valid(n + 1) = Valid(n) \cup {n + 1}
  BY DEF Valid
<1>8. /\ \A k \in 1..Len(list) : Before(list[k].values, more)
      /\ \A block \in way : Before(block.values, more)
  BY <1>2, <1>4 DEF Placed
<1>9. ASSUME NEW x PROVE x \in Valid(n + 1) <=> Holds(list, way, more, x)
  <2>1. x \in Valid(n) <=> Holds(list, way, last, x)
    BY DEF Placed
  <2>2. Holds(list, way, more, x) <=> Holds(list, way, last, x) \/ x = n + 1
    BY <1>6 DEF Holds
  <2>3. QED
    BY <1>7, <2>1, <2>2
<1>10. Placed(list, way, more, n + 1)
  BY <1>5, <1>8, <1>9 DEF Placed
<1>11. QED
  BY <1>10 DEF more

\* An invalid one is not.
LEMMA ValueRefused ==
  ASSUME NEW list, NEW way, NEW last, NEW n \in Nat, Placed(list, way, last, n), n + 1 \in Invalid
  PROVE  Placed(list, way, last, n + 1)
<1>1. Valid(n + 1) = Valid(n)
  BY DEF Valid
<1>2. QED
  BY <1>1 DEF Placed

\* What is held back leaves in a block.
LEMMA BlockLeaves ==
  ASSUME NEW list, NEW last, NEW n, Placed(list, {}, last, n), NEW block, block.values = last
  PROVE  Placed(list, {block}, <<>>, n)
<1>1. DOMAIN <<>> = {} /\ ValuesIn(<<>>) = {}
  BY DEF ValuesIn
<1>2. \A values : Before(values, <<>>)
  BY <1>1 DEF Before
<1>3. Increasing(<<>>)
  BY <1>1 DEF Increasing
<1>4. ASSUME NEW x PROVE Holds(list, {}, last, x) <=> Holds(list, {block}, <<>>, x)
  BY <1>1 DEF Holds
<1>5. QED
  BY <1>1, <1>2, <1>3, <1>4 DEF Placed

\* A block gets to the file.
LEMMA BlockArrives ==
  ASSUME NEW list \in Seq(BlockRecord), NEW block \in BlockRecord, NEW last, NEW n,
         Placed(list, {block}, last, n)
  PROVE  Placed(Append(list, block), {}, last, n)
<1> DEFINE more == Append(list, block)
<1>1. /\ Len(list) \in Nat /\ Len(more) = Len(list) + 1 /\ more[Len(list) + 1] = block
      /\ \A k \in 1..Len(list) : more[k] = list[k]
  BY AppendProperties, LenProperties
<1> HIDE DEF more
<1>2. ASSUME NEW k \in 1..Len(more)
      PROVE  /\ Increasing(more[k].values) /\ Before(more[k].values, last)
             /\ \A m \in 1..k - 1 : Before(more[m].values, more[k].values)
  <2>1. CASE k = Len(list) + 1
    <3>1. \A m \in 1..k - 1 : m \in 1..Len(list)
      BY <1>1, <2>1
    <3>2. QED
      BY <1>1, <2>1, <3>1 DEF Placed
  <2>2. CASE k \in 1..Len(list)
    <3>1. \A m \in 1..k - 1 : m \in 1..Len(list)
      BY <1>1, <2>2
    <3>2. QED
      BY <1>1, <2>2, <3>1 DEF Placed
  <2>3. QED
    BY <1>1, <2>1, <2>2
<1>3. ASSUME NEW x PROVE Holds(list, {block}, last, x) <=> Holds(more, {}, last, x)
  <2>1. (\E k \in 1..Len(more) : x \in ValuesIn(more[k].values))
          <=> (\E k \in 1..Len(list) : x \in ValuesIn(list[k].values)) \/ x \in ValuesIn(block.values)
    <3>1. \A k : k \in 1..Len(more) <=> k \in 1..Len(list) \/ k = Len(list) + 1
      BY <1>1
    <3>2. QED
      BY <1>1, <3>1
  <2>2. QED
    BY <2>1 DEF Holds
<1>5. Placed(more, {}, last, n)
  BY <1>2, <1>3 DEF Placed
<1>6. QED
  BY <1>5 DEF more

\* The header holds no values.
LEMMA HeaderPlaced ==
  ASSUME BInv, NEW way, NEW last, NEW n, Placed(file, way, last, n)
  PROVE  Placed(OutWithHeader, way, last, n)
<1>1. CASE ~needHeader
  BY <1>1 DEF OutWithHeader
<1>2. CASE needHeader
  <2>1. file = <<>> /\ OutWithHeader = <<Header>> /\ Len(<<>>) = 0 /\ Len(<<Header>>) = 1
    BY <1>2, HeaderKeeps DEF BInv, HeaderWaits
  <2>2. Header.values = <<>> /\ DOMAIN <<>> = {} /\ ValuesIn(<<>>) = {}
    BY DEF Header, ValuesIn
  <2>3. Increasing(<<>>) /\ \A values : Before(<<>>, values)
    BY DEF Increasing, Before
  <2>4. 1..0 = {} /\ 1..1 = {1} /\ 1..1 - 1 = {} /\ <<Header>>[1] = Header
    OBVIOUS
  <2>5. ASSUME NEW x PROVE Holds(<<>>, way, last, x) <=> Holds(<<Header>>, way, last, x)
    <3>1. ~(\E k \in 1..Len(<<>>) : x \in ValuesIn(<<>>[k].values))
      BY <2>1, <2>4
    <3>2. ~(\E k \in 1..Len(<<Header>>) : x \in ValuesIn(<<Header>>[k].values))
      BY <2>1, <2>2, <2>4
    <3>3. QED
      BY <3>1, <3>2 DEF Holds
  <2>6. /\ \A block \in way : Increasing(block.values) /\ Before(block.values, last)
        /\ Increasing(last)
        /\ \A x : x \in Valid(n) <=> Holds(<<>>, way, last, x)
    BY <2>1 DEF Placed
  <2>7. \A k \in 1..Len(<<Header>>) :
          /\ Increasing(<<Header>>[k].values) /\ Before(<<Header>>[k].values, last)
          /\ \A m \in 1..k - 1 : Before(<<Header>>[m].values, <<Header>>[k].values)
          /\ \A block \in way : Before(<<Header>>[k].values, block.values)
    BY <2>1, <2>2, <2>3, <2>4
  <2>8. Placed(<<Header>>, way, last, n)
    BY <2>5, <2>6, <2>7 DEF Placed
  <2>9. QED
    BY <2>1, <2>8
<1>3. QED
  BY <1>1, <1>2

----------------------------------------------------------------------------
(* The steps keep the order.                                               *)

\* What the sequences are made of.
LEMMA Shapes ==
  ASSUME BInv
  PROVE  /\ file \in Seq(BlockRecord) /\ blocks \in Seq(BlockRecord) /\ OnTheWay \in SUBSET BlockRecord
         /\ HeldBack \in Seq(DOMAIN Sizes) /\ received \in Nat /\ OutWithHeader \in Seq(BlockRecord)
         /\ DOMAIN file = 1..Len(file) /\ Len(file) \in Nat
         /\ ~closed => HeldBack = held
<1>1. file \in Seq(BlockRecord) /\ blocks \in Seq(BlockRecord) /\ received \in Nat
      /\ compressing \subseteq BlockRecord /\ held \in Seq(DOMAIN Sizes)
  BY DEF BInv, BTypeOK
<1>2. DOMAIN blocks = 1..Len(blocks) /\ \A n \in 1..Len(blocks) : blocks[n] \in BlockRecord
  BY <1>1, LenProperties, ElementOfSeq
<1>3. OnTheWay \in SUBSET BlockRecord
  BY <1>1, <1>2 DEF OnTheWay
<1>4. HeldBack \in Seq(DOMAIN Sizes)
  <2>1. <<>> \in Seq(DOMAIN Sizes)
    OBVIOUS
  <2>2. HeldBack = <<>> \/ HeldBack = held
    BY DEF HeldBack
  <2>3. QED
    BY <1>1, <2>1, <2>2
<1>5. ~closed => HeldBack = held
  BY <1>1, EmptyLen DEF BInv, CountFits, HeldBack
<1>6. QED
  BY <1>1, <1>3, <1>4, <1>5, HeaderKeeps, LenProperties DEF FileSound

\* A block that is ready gets to the queue or the file, where none is queued.
LEMMA ReadyPlaced ==
  ASSUME BInv, NEW block \in BlockRecord, blocks = <<>>, compressing' = {},
         NEW pushed \in Seq(BlockRecord), NEW ask, NEW wait, BlockReady(block, pushed, ask, wait),
         NEW last, NEW n, Placed(pushed, {block}, last, n)
  PROVE  Placed(file', OnTheWay', last, n)
<1> DEFINE line == Append(blocks, block)
<1>1. line \in Seq(BlockRecord) /\ Len(line) = 1 /\ line[1] = block /\ line # <<>>
      /\ DOMAIN line = 1..1
  BY AppendProperties, LenProperties DEF BInv, BTypeOK
<1>2. Head(line) = block /\ Len(Tail(line)) = 0 /\ Tail(line) \in Seq(BlockRecord)
  BY <1>1, Shifted
<1>3. CASE wantPush
  <2>1. file' = Append(pushed, block) /\ blocks' = Tail(line)
    BY <1>2, <1>3 DEF BlockReady, PushBlock
  <2>2. DOMAIN blocks' = {}
    BY <1>2, <2>1, LenProperties
  <2>3. OnTheWay' = {}
    BY <2>2 DEF OnTheWay
  <2>4. QED
    BY <2>1, <2>3, BlockArrives
<1>4. CASE ~wantPush
  <2>1. file' = pushed /\ blocks' = line
    BY <1>4 DEF BlockReady
  <2>2. OnTheWay' = {block}
    BY <1>1, <2>1 DEF OnTheWay
  <2>3. QED
    BY <2>1, <2>2
<1>5. QED
  BY <1>3, <1>4

\* Where there may be a block, there is at most one.
LEMMA OneOnTheWay ==
  ASSUME BInv
  PROVE  /\ ~waiting /\ ~closed => blocks = <<>> /\ compressing = {} /\ OnTheWay = {}
         /\ \A block \in compressing : blocks = <<>> /\ compressing = {block} /\ OnTheWay = {block}
         /\ blocks # <<>> => /\ compressing = {} /\ Head(blocks) \in BlockRecord /\ OnTheWay = {Head(blocks)}
                             /\ Tail(blocks) = <<>>
<1>1. Len(blocks) \in Nat /\ (Len(blocks) = 0 <=> blocks = <<>>) /\ pending \in Nat
      /\ blocks \in Seq(BlockRecord) /\ DOMAIN blocks = 1..Len(blocks)
  BY EmptyLen, LenProperties DEF BInv, BTypeOK
<1>2. pending + Len(blocks) <= 1 /\ (pending + Len(blocks) = 1 => waiting \/ closed)
  BY DEF BInv, OneBlockAtATime
<1>3. compressing # {} => pending = 1 /\ blocks = <<>>
  BY <1>1, <1>2 DEF BInv, OneInCodec
<1>4. DOMAIN <<>> = {}
  OBVIOUS
<1>5. ASSUME ~waiting, ~closed PROVE blocks = <<>> /\ compressing = {} /\ OnTheWay = {}
  <2>1. blocks = <<>> /\ compressing = {}
    BY <1>1, <1>2, <1>3, <1>5
  <2>2. QED
    BY <1>4, <2>1 DEF OnTheWay
<1>6. ASSUME NEW block \in compressing
      PROVE  blocks = <<>> /\ compressing = {block} /\ OnTheWay = {block}
  <2>1. blocks = <<>> /\ compressing = {block}
    BY <1>3 DEF BInv, OneInCodec
  <2>2. QED
    BY <1>4, <2>1 DEF OnTheWay
<1>7. ASSUME blocks # <<>>
      PROVE  /\ compressing = {} /\ Head(blocks) \in BlockRecord /\ OnTheWay = {Head(blocks)}
             /\ Tail(blocks) = <<>>
  <2>1. compressing = {} /\ Len(blocks) = 1
    BY <1>1, <1>2, <1>3, <1>7
  <2>2. Head(blocks) = blocks[1] /\ Head(blocks) \in BlockRecord /\ Tail(blocks) \in Seq(BlockRecord)
        /\ Len(Tail(blocks)) = 0
    BY <1>1, <1>7, <2>1, Shifted
  <2>3. Tail(blocks) = <<>>
    BY <2>2, EmptyLen
  <2>4. OnTheWay = {blocks[1]}
    BY <1>1, <2>1 DEF OnTheWay
  <2>5. QED
    BY <2>1, <2>2, <2>3, <2>4
<1>8. QED
  BY <1>5, <1>6, <1>7

\* A flush takes what is held back to the codec, the queue or the file.
LEMMA FlushPlaced ==
  ASSUME BInv, ~waiting, ~closed, blockCount > 0, ~broken',
         NEW pushed \in Seq(BlockRecord), NEW ask, NEW wait, FlushChunk(pushed, ask, wait),
         NEW n, Placed(pushed, OnTheWay, HeldBack, n)
  PROVE  Placed(file', OnTheWay', <<>>, n)
<1> DEFINE block == [count |-> blockCount, values |-> held]
<1>1. blocks = <<>> /\ compressing = {} /\ OnTheWay = {} /\ HeldBack = held
  BY OneOnTheWay, Shapes
<1>2. block \in BlockRecord /\ block.values = held
  BY DEF BInv, BTypeOK, BlockRecord
<1>3. Placed(pushed, {block}, <<>>, n)
  BY <1>1, <1>2, BlockLeaves
<1>4. \/ compressing' = compressing \cup {block} /\ file' = pushed /\ blocks' = blocks
      \/ BlockReady(block, pushed, ask, wait) /\ compressing' = compressing
  BY DEF FlushChunk
<1> HIDE DEF block
<1>5. CASE compressing' = compressing \cup {block} /\ file' = pushed /\ blocks' = blocks
  <2>1. OnTheWay' = OnTheWay \cup {block}
    BY <1>5 DEF OnTheWay
  <2>2. QED
    BY <1>1, <1>3, <1>5, <2>1
<1>6. CASE BlockReady(block, pushed, ask, wait) /\ compressing' = compressing
  BY <1>1, <1>2, <1>3, <1>6, ReadyPlaced
<1>7. QED
  BY <1>4, <1>5, <1>6

\* A value is put behind those that are held back, none perhaps.
LEMMA FollowsHeld ==
  ASSUME BInv, CanWrite, Incoming \notin Invalid, NEW list \in Seq(BlockRecord), NEW way \in SUBSET BlockRecord,
         NEW last \in Seq(DOMAIN Sizes), Placed(list, way, last, received)
  PROVE  Placed(list, way, Append(last, Incoming), Incoming)
BY ValueArrives, Shapes DEF Incoming

LEMMA WritesPlace ==
  ASSUME BInv, AllPlaced, EWrite
  PROVE  AllPlaced'
<1> SUFFICES ASSUME ~broken' PROVE Placed(file', OnTheWay', HeldBack', received')
  BY DEF AllPlaced
<1>1. CanWrite /\ received' = Incoming /\ ~closed /\ ~waiting /\ ~broken
  BY DEF EWrite, WriteInvalid, WriteFits, WriteAlone, WriteAfterFlush, FlushChunk, BlockReady, CanWrite
<1>2. Placed(OutWithHeader, OnTheWay, HeldBack, received) /\ HeldBack = held
  BY <1>1, HeaderPlaced, Shapes DEF AllPlaced
<1>3. /\ OutWithHeader \in Seq(BlockRecord) /\ OnTheWay \in SUBSET BlockRecord /\ held \in Seq(DOMAIN Sizes)
      /\ received \in Nat /\ blockCount \in Nat /\ blockCount = Len(held)
  BY <1>1, Shapes DEF BInv, BTypeOK, CountFits
<1>4. CASE WriteInvalid
  <2>1. file' = OutWithHeader /\ OnTheWay' = OnTheWay /\ HeldBack' = HeldBack
    BY <1>4 DEF WriteInvalid, WriteHeader, OnTheWay, HeldBack
  <2>2. Placed(OutWithHeader, OnTheWay, HeldBack, Incoming)
    BY <1>2, <1>3, <1>4, ValueRefused DEF WriteInvalid, Incoming
  <2>3. QED
    BY <1>1, <2>1, <2>2
<1>5. CASE WriteFits
  <2>1. /\ file' = OutWithHeader /\ OnTheWay' = OnTheWay /\ held' = Append(held, Incoming)
        /\ blockCount' # 0 /\ Incoming \notin Invalid
    BY <1>3, <1>5 DEF WriteFits, WriteHeader, OnTheWay
  <2>2. HeldBack' = Append(held, Incoming)
    BY <2>1 DEF HeldBack
  <2>3. Placed(OutWithHeader, OnTheWay, Append(held, Incoming), Incoming)
    BY <1>1, <1>2, <1>3, <2>1, FollowsHeld
  <2>4. QED
    BY <1>1, <2>1, <2>2, <2>3
<1>6. <<>> \in Seq(DOMAIN Sizes) /\ Append(<<>>, Incoming) = <<Incoming>>
  OBVIOUS
<1>7. CASE WriteAlone
  <2>1. /\ file' = OutWithHeader /\ OnTheWay' = OnTheWay /\ held' = <<Incoming>>
        /\ blockCount' = blockCount + 1 /\ Incoming \notin Invalid /\ position = 0
        /\ position + Sizes[Incoming] > blockSize
    BY <1>7 DEF WriteAlone, WriteHeader, OnTheWay, Rewrite
  <2>2. blockCount = 0
    <3>1. Incoming \in DOMAIN Sizes /\ Sizes[Incoming] \in Nat /\ blockSize \in Nat
      BY <1>1, <2>1, Accepts DEF BInv, BTypeOK
    <3>2. Sizes[Incoming] # 0
      BY <2>1, <3>1
    <3>3. QED
      BY <1>1, <2>1, <3>1, <3>2 DEF BInv, CountFits
  <2>3. held = <<>>
    BY <1>3, <2>2, EmptyLen
  <2>4. HeldBack' = <<Incoming>>
    BY <2>1, <2>2 DEF HeldBack
  <2>5. Placed(OutWithHeader, OnTheWay, <<Incoming>>, Incoming)
    BY <1>1, <1>2, <1>3, <1>6, <2>1, <2>3, FollowsHeld
  <2>6. QED
    BY <1>1, <2>1, <2>4, <2>5
<1>8. CASE WriteAfterFlush
  <2>1. /\ FlushChunk(OutWithHeader, AskedAfterHeader, TRUE) /\ held' = <<Incoming>> /\ blockCount' = 1
        /\ Incoming \notin Invalid /\ position > 0
    BY <1>8 DEF WriteAfterFlush, Rewrite
  <2>2. blockCount > 0
    BY <1>1, <2>1 DEF BInv, CountFits
  <2>3. Placed(file', OnTheWay', <<>>, received)
    BY <1>1, <1>2, <1>3, <2>1, <2>2, FlushPlaced
  <2>4. BInv'
    BY <1>8, AfterFlushKeeps
  <2>5. file' \in Seq(BlockRecord) /\ OnTheWay' \in SUBSET BlockRecord
    <3>1. file' \in Seq(BlockRecord) /\ blocks' \in Seq(BlockRecord) /\ compressing' \subseteq BlockRecord
      BY <2>4 DEF BInv, BTypeOK
    <3>2. DOMAIN blocks' = 1..Len(blocks') /\ \A k \in 1..Len(blocks') : blocks'[k] \in BlockRecord
      BY <3>1, LenProperties, ElementOfSeq
    <3>3. QED
      BY <3>1, <3>2 DEF OnTheWay
  <2>6. Placed(file', OnTheWay', <<Incoming>>, Incoming)
    BY <1>1, <1>6, <2>1, <2>3, <2>5, FollowsHeld
  <2>7. HeldBack' = <<Incoming>>
    BY <2>1 DEF HeldBack
  <2>8. QED
    BY <1>1, <2>6, <2>7
<1>9. QED
  BY <1>4, <1>5, <1>7, <1>8 DEF EWrite

LEMMA OthersPlace ==
  ASSUME BInv, AllPlaced, EFinish \/ ERead \/ \E block \in compressing : Compressed(block)
  PROVE  AllPlaced'
<1> SUFFICES ASSUME ~broken' PROVE Placed(file', OnTheWay', HeldBack', received')
  BY DEF AllPlaced
<1>1. received' = received /\ ~broken
  <2>1. received' = received
    BY DEF EFinish, FinishWithBlock, FinishWithoutBlock, ERead, CallReadBlock, CallReadNothing, TickPushesEnd,
       Compressed
  <2>2. broken' = TRUE \/ broken' = broken
    BY DEF EFinish, FinishWithBlock, FinishWithoutBlock, FlushChunk, ERead, CallReadBlock, CallReadNothing,
       TickPushesEnd, Compressed
  <2>3. QED
    BY <2>1, <2>2
<1>2. Placed(file, OnTheWay, HeldBack, received)
  BY <1>1 DEF AllPlaced
<1>3. file \in Seq(BlockRecord) /\ received \in Nat
  BY Shapes
<1>4. CASE FinishWithoutBlock \/ CallReadNothing \/ TickPushesEnd
  <2>1. file' = file /\ OnTheWay' = OnTheWay /\ HeldBack' = HeldBack
    BY <1>4 DEF FinishWithoutBlock, CallReadNothing, TickPushesEnd, OnTheWay, HeldBack
  <2>2. QED
    BY <1>1, <1>2, <2>1
<1>5. CASE FinishWithBlock
  <2>1. ~waiting /\ ~closed /\ blockCount > 0 /\ FlushChunk(file, asked, FALSE) /\ blockCount' = 0
    BY <1>5 DEF FinishWithBlock
  <2>2. Placed(file', OnTheWay', <<>>, received)
    BY <1>2, <1>3, <2>1, FlushPlaced
  <2>3. HeldBack' = <<>>
    BY <2>1 DEF HeldBack
  <2>4. QED
    BY <1>1, <2>2, <2>3
<1>6. CASE CallReadBlock
  <2>1. blocks # <<>> /\ file' = Append(file, Head(blocks)) /\ blocks' = Tail(blocks)
        /\ compressing' = compressing /\ HeldBack' = HeldBack
    BY <1>6 DEF CallReadBlock, PushBlock, HeldBack
  <2>2. compressing = {} /\ Head(blocks) \in BlockRecord /\ OnTheWay = {Head(blocks)} /\ Tail(blocks) = <<>>
    BY <2>1, OneOnTheWay
  <2>3. OnTheWay' = {}
    BY <2>1, <2>2 DEF OnTheWay
  <2>4. Placed(Append(file, Head(blocks)), {}, HeldBack, received)
    BY <1>2, <1>3, <2>2, BlockArrives
  <2>5. QED
    BY <1>1, <2>1, <2>3, <2>4
<1>7. ASSUME NEW block \in compressing, Compressed(block)
      PROVE  Placed(file', OnTheWay', HeldBack', received')
  <2>1. blocks = <<>> /\ compressing = {block} /\ OnTheWay = {block} /\ block \in BlockRecord
    BY OneOnTheWay DEF BInv, BTypeOK
  <2>2. BlockReady(block, file, asked, waiting) /\ compressing' = {} /\ HeldBack' = HeldBack
    BY <1>7, <2>1 DEF Compressed, HeldBack
  <2>3. Placed(file', OnTheWay', HeldBack, received)
    BY <1>2, <1>3, <2>1, <2>2, ReadyPlaced
  <2>4. QED
    BY <1>1, <2>2, <2>3
<1>8. QED
  BY <1>4, <1>5, <1>6, <1>7 DEF EFinish, ERead

LEMMA PlacedInitially == EInit => AllPlaced
<1> SUFFICES ASSUME EInit PROVE Placed(file, OnTheWay, HeldBack, received)
  BY DEF AllPlaced
<1>1. BInv
  BY BInvInitially
<1>2. /\ OnTheWay = {} /\ HeldBack = <<>> /\ received = 0 /\ DOMAIN <<>> = {} /\ Len(<<>>) = 0
  BY DEF EInit, OnTheWay, HeldBack
<1>3. Increasing(<<>>) /\ (\A values : Before(<<>>, values) /\ Before(values, <<>>)) /\ ValuesIn(<<>>) = {}
      /\ Valid(0) = {}
  BY <1>2 DEF Increasing, Before, ValuesIn, Valid
<1>4. \A n \in 1..Len(file) : file[n].values = <<>>
  BY <1>2 DEF EInit, Header
<1>5. ASSUME NEW x PROVE x \in Valid(0) <=> Holds(file, {}, <<>>, x)
  BY <1>3, <1>4 DEF Holds
<1>6. Len(file) \in 0..1
  BY <1>2 DEF EInit
<1>7. QED
  BY <1>2, <1>3, <1>4, <1>5, <1>6 DEF Placed

\* Of the values that were accepted, and did not get lost with a failing codec, none is missing
\* or twice between the writes and the file, and all are in order.
LEMMA PlacedIsKept ==
  ASSUME BInv, AllPlaced
  PROVE  NothingLost
<1>1. \A n \in DOMAIN file : file[n].count = Len(file[n].values)
  <2>1. Header.count = Len(Header.values)
    BY DEF Header
  <2>2. QED
    BY <2>1, Shapes DEF BInv, AllSound, Sound
<1>2. Cardinality(compressing) <= 1
  <2>1. compressing = {} \/ \E block \in compressing : compressing = {block}
    BY OneOnTheWay
  <2>2. QED
    BY <2>1, FS_EmptySet, FS_Singleton
<1>3. ASSUME ~broken
      PROVE  /\ InOrder
             /\ InFile \cup InTransit \cup ValuesIn(HeldBack) = Valid(received)
  <2>1. Placed(file, OnTheWay, HeldBack, received) /\ DOMAIN file = 1..Len(file)
    BY <1>3, Shapes DEF AllPlaced
  <2>2. InOrder
    BY <2>1 DEF Placed, InOrder
  <2>3. ASSUME NEW x
        PROVE  x \in InFile \cup InTransit \cup ValuesIn(HeldBack) <=> Holds(file, OnTheWay, HeldBack, x)
    <3>1. x \in InFile <=> \E k \in 1..Len(file) : x \in ValuesIn(file[k].values)
      BY <2>1 DEF InFile
    <3>2. x \in InTransit <=> \E block \in OnTheWay : x \in ValuesIn(block.values)
      BY DEF InTransit
    <3>3. x \in InFile \cup InTransit \cup ValuesIn(HeldBack)
            <=> x \in InFile \/ x \in InTransit \/ x \in ValuesIn(HeldBack)
      OBVIOUS
    <3>4. QED
      BY <3>1, <3>2, <3>3, Zenon DEF Holds
  <2>4. QED
    BY <2>1, <2>2, <2>3 DEF Placed
<1>4. QED
  BY <1>1, <1>2, <1>3 DEF NothingLost

\* However the values fill the blocks and whenever the codec calls back: there is never more
\* than one block between the tap and the file, values are in the order in which they were
\* written and none is missing or twice, unless the codec has failed, each block says how many
\* it has, and the header comes first.
THEOREM ValuesAreWrittenInOrder == ESpec => []WritesInOrder
<1>1. BInv /\ AllPlaced /\ [ENext]_encoderVars => AllPlaced'
  <2>1. UNCHANGED encoderVars /\ AllPlaced => AllPlaced'
    BY DEF encoderVars, AllPlaced, OnTheWay, HeldBack
  <2>2. QED
    BY <2>1, WritesPlace, OthersPlace DEF ENext
<1>2. BInv /\ AllPlaced => OneBlockAtATime /\ NothingLost
  BY PlacedIsKept DEF BInv
<1>3. OneBlockAtATime /\ NothingLost /\ HeaderFirst => WritesInOrder
  BY DEF WritesInOrder
<1>4. QED
  BY <1>1, <1>2, <1>3, PlacedInitially, BInvHolds, FileIsWellFormed, PTL DEF ESpec

----------------------------------------------------------------------------
(* The bounds of the encoder.                                              *)

\* The tap is never written past its end.
TapFits == received \in 0..Len(Sizes) /\ position <= blockSize /\ blockSize > 0

FlagsFit == /\ waiting \in BOOLEAN /\ needHeader \in BOOLEAN /\ wantPush \in BOOLEAN /\ closed \in BOOLEAN
            /\ asked \in BOOLEAN /\ ending \in BOOLEAN /\ broken \in BOOLEAN

\* The end is pushed at most once: by the finish event, or by a tick that a read queued after it.
EndsOnce ==
  /\ ends \in {0, 1}
  /\ ends = 1 => closed /\ ~ending
  /\ ending => closed /\ ends = 0 /\ asked /\ pending = 0 /\ blocks = <<>>

EFits == TapFits /\ FlagsFit /\ EndsOnce

LEMMA WritesFit == ASSUME BInv, EFits, EWrite PROVE EFits'
<1>1. BTypeOK /\ TapFits /\ FlagsFit /\ EndsOnce
  BY DEF BInv, EFits
<1>2. ~waiting /\ ~closed /\ received < Len(Sizes) /\ received' = received + 1
  BY DEF EWrite, WriteInvalid, WriteFits, WriteAlone, WriteAfterFlush, CanWrite, Incoming
<1>3. PICK size \in Nat : size = Sizes[received + 1]
  <2>1. received + 1 \in 1..Len(Sizes)
    BY <1>1, <1>2, EncoderAssumption DEF TapFits
  <2>2. QED
    BY <2>1, EncoderAssumption
<1>4. ends = 0 /\ ending = FALSE /\ ends' = ends /\ ending' = ending /\ closed' = closed
  BY <1>1, <1>2 DEF EndsOnce, FlagsFit, EWrite, WriteInvalid, WriteFits, WriteAlone, WriteAfterFlush
<1>5. EndsOnce'
  BY <1>1, <1>4 DEF EndsOnce
<1>6. TapFits'
  <2>1. received' \in 0..Len(Sizes)
    BY <1>1, <1>2, EncoderAssumption DEF TapFits
  <2>2. position \in Nat /\ blockSize \in Nat /\ position <= blockSize /\ blockSize > 0
    BY <1>1 DEF TapFits, BTypeOK
  <2>3. CASE position' = position /\ blockSize' = blockSize
    BY <2>1, <2>2, <2>3 DEF TapFits
  <2>4. CASE position + size <= blockSize /\ position' = position + size /\ blockSize' = blockSize
    BY <2>1, <2>2, <2>4 DEF TapFits
  <2>5. CASE blockSize' = (IF size > blockSize THEN 2 * size ELSE blockSize) /\ position' = size
    BY <2>1, <2>2, <2>5 DEF TapFits
  <2>6. QED
    BY <1>3, <2>3, <2>4, <2>5 DEF EWrite, WriteInvalid, WriteFits, WriteAlone, WriteAfterFlush, Incoming, Rewrite
<1>7. FlagsFit'
  <2>1. asked \in BOOLEAN /\ needHeader \in BOOLEAN /\ AskedAfterHeader \in BOOLEAN
    BY <1>1 DEF FlagsFit, AskedAfterHeader
  <2>2. CASE WriteInvalid \/ WriteFits \/ WriteAlone
    BY <1>1, <2>1, <2>2 DEF FlagsFit, WriteInvalid, WriteFits, WriteAlone, WriteHeader
  <2>3. CASE WriteAfterFlush
    <3>1. FlushChunk(OutWithHeader, AskedAfterHeader, TRUE) /\ needHeader' = FALSE /\ closed' = closed /\ ending' = ending
      BY <2>3 DEF WriteAfterFlush
    <3>2. QED
      BY <1>1, <2>1, <3>1 DEF FlagsFit, FlushChunk, BlockReady, PushBlock
  <2>4. QED
    BY <2>2, <2>3 DEF EWrite
<1>8. QED
  BY <1>5, <1>6, <1>7 DEF EFits

LEMMA OthersFit ==
  ASSUME BInv, EFits, EFinish \/ ERead \/ \E block \in compressing : Compressed(block)
  PROVE  EFits'
<1>1. TapFits /\ FlagsFit /\ EndsOnce /\ OneInCodec
  BY DEF BInv, EFits
<1>2. received' = received /\ position' = position /\ blockSize' = blockSize
  BY DEF EFinish, ERead, FinishWithBlock, FinishWithoutBlock, CallReadBlock, CallReadNothing, TickPushesEnd, Compressed
<1>3. TapFits'
  BY <1>1, <1>2 DEF TapFits
<1>4. CASE FinishWithBlock
  <2>1. /\ closed = FALSE /\ closed' = TRUE /\ ends' = ends /\ ending' = ending /\ needHeader' = needHeader
        /\ FlushChunk(file, asked, FALSE)
    BY <1>1, <1>4 DEF FlagsFit, FinishWithBlock
  <2>2. EndsOnce'
    BY <1>1, <2>1 DEF EndsOnce
  <2>3. FlagsFit'
    BY <1>1, <2>1 DEF FlagsFit, FlushChunk, BlockReady, PushBlock
  <2>4. QED
    BY <1>3, <2>2, <2>3 DEF EFits
<1>5. CASE FinishWithoutBlock
  <2>1. EndsOnce'
    BY <1>1, <1>5 DEF EndsOnce, FinishWithoutBlock
  <2>2. FlagsFit'
    BY <1>1, <1>5 DEF FlagsFit, FinishWithoutBlock
  <2>3. QED
    BY <1>3, <2>1, <2>2 DEF EFits
<1>6. CASE CallReadBlock
  <2>1. EndsOnce'
    BY <1>1, <1>6 DEF EndsOnce, CallReadBlock, PushBlock
  <2>2. FlagsFit'
    BY <1>1, <1>6 DEF FlagsFit, CallReadBlock, PushBlock
  <2>3. QED
    BY <1>3, <2>1, <2>2 DEF EFits
<1>7. CASE CallReadNothing
  <2>1. EndsOnce'
    BY <1>1, <1>7 DEF EndsOnce, FlagsFit, CallReadNothing
  <2>2. FlagsFit'
    BY <1>1, <1>7 DEF FlagsFit, CallReadNothing
  <2>3. QED
    BY <1>3, <2>1, <2>2 DEF EFits
<1>8. CASE TickPushesEnd
  <2>1. EndsOnce'
    BY <1>1, <1>8 DEF EndsOnce, TickPushesEnd
  <2>2. FlagsFit'
    BY <1>1, <1>8 DEF FlagsFit, TickPushesEnd
  <2>3. QED
    BY <1>3, <2>1, <2>2 DEF EFits
<1>9. CASE \E block \in compressing : Compressed(block)
  <2>1. PICK block : block \in compressing /\ Compressed(block)
    BY <1>9
  <2>2. ending = FALSE
    <3>1. pending = 1
      BY <1>1, <2>1 DEF OneInCodec
    <3>2. QED
      BY <1>1, <3>1 DEF EndsOnce, FlagsFit
  <2>3. EndsOnce'
    BY <1>1, <2>1, <2>2 DEF EndsOnce, Compressed
  <2>4. FlagsFit'
    BY <1>1, <2>1 DEF FlagsFit, Compressed, BlockReady, PushBlock
  <2>5. QED
    BY <1>3, <2>3, <2>4 DEF EFits
<1>10. QED
  BY <1>4, <1>5, <1>6, <1>7, <1>8, <1>9 DEF EFinish, ERead

\* The encoder keeps its types, for any values, block size and codec: the tap is never written
\* past its end, and the end of the file is pushed once at most.
THEOREM EncoderTypeCorrect == ESpec => []ETypeOK
<1>1. EInit => EFits
  <2>1. SUFFICES ASSUME EInit PROVE EFits
    OBVIOUS
  <2>2. TapFits
    BY <2>1, EncoderAssumption DEF EInit, TapFits
  <2>3. /\ needHeader \in BOOLEAN /\ waiting = FALSE /\ wantPush = FALSE /\ closed = FALSE /\ asked = FALSE
        /\ ending = FALSE /\ ends = 0 /\ broken = FALSE
    BY <2>1 DEF EInit
  <2>4. FlagsFit
    BY <2>3 DEF FlagsFit
  <2>5. EndsOnce
    BY <2>3 DEF EndsOnce
  <2>6. QED
    BY <2>2, <2>4, <2>5 DEF EFits
<1>2. BInv /\ EFits /\ [ENext]_encoderVars => EFits'
  <2>1. UNCHANGED encoderVars /\ EFits => EFits'
    BY DEF encoderVars, EFits, TapFits, FlagsFit, EndsOnce
  <2>2. QED
    BY <2>1, WritesFit, OthersFit DEF ENext
<1>3. BInv /\ EFits => ETypeOK
  <2>1. SUFFICES ASSUME BInv, EFits PROVE ETypeOK
    OBVIOUS
  <2>2. BTypeOK /\ TapFits /\ FlagsFit /\ EndsOnce
    BY <2>1 DEF BInv, EFits
  <2>3. position \in 0..blockSize /\ blockSize \in Nat \ {0}
    BY <2>2 DEF BTypeOK, TapFits
  <2>4. {waiting, needHeader, wantPush, closed, asked, ending, broken} \subseteq BOOLEAN
    BY <2>2 DEF FlagsFit
  <2>5. ends \in 0..1
    BY <2>2 DEF EndsOnce
  <2>6. QED
    BY <2>2, <2>3, <2>4, <2>5 DEF ETypeOK, BTypeOK, TapFits
<1>4. QED
  BY <1>1, <1>2, <1>3, BInvHolds, PTL DEF ESpec

----------------------------------------------------------------------------
(* The heap: what its loops compute.                                       *)

\* A parent is before its children; these are the next two places after twice its own.
LEMMA ParentFits ==
  /\ \A i \in Nat \ {0} : Parent(i) \in Nat /\ Parent(i) < i
  /\ \A i \in Nat \ {0}, k \in Nat : Parent(i) = k <=> i = 2 * k + 1 \/ i = 2 * k + 2
  BY Z3 DEF Parent

\* Places are counted from 0.
Nth(list, k) == list[k + 1]

\* Two items change places.
LEMMA Swapped ==
  ASSUME NEW S, NEW list \in Seq(S), NEW i \in 0..Len(list) - 1, NEW j \in 0..Len(list) - 1, i # j
  PROVE  /\ Swap(list, i, j) \in Seq(S) /\ Len(Swap(list, i, j)) = Len(list)
         /\ \A k \in 0..Len(list) - 1 :
              Nth(Swap(list, i, j), k) = IF k = i THEN Nth(list, j) ELSE IF k = j THEN Nth(list, i) ELSE Nth(list, k)
         /\ ToSet(Swap(list, i, j)) = ToSet(list)
         /\ IsInjective(list) => IsInjective(Swap(list, i, j))
<1> DEFINE other == Swap(list, i, j)
<1>1. Len(list) \in Nat /\ DOMAIN list = 1..Len(list) /\ \A k \in 1..Len(list) : list[k] \in S
  BY LenProperties, ElementOfSeq
<1>2. i + 1 \in 1..Len(list) /\ j + 1 \in 1..Len(list) /\ i + 1 # j + 1
  BY <1>1
<1>3. DOMAIN other = 1..Len(list)
  BY <1>1 DEF Swap
<1>4. /\ other[i + 1] = list[j + 1] /\ other[j + 1] = list[i + 1]
      /\ \A k \in 1..Len(list) : k # i + 1 /\ k # j + 1 => other[k] = list[k]
  BY <1>1, <1>2 DEF Swap
<1>5. other = [k \in 1..Len(list) |-> other[k]]
  BY <1>1 DEF Swap
<1> HIDE DEF other
<1>6. \A k \in 1..Len(list) : other[k] \in S
  BY <1>1, <1>2, <1>4
<1>7. other \in Seq(S) /\ Len(other) = Len(list)
  BY <1>1, <1>5, <1>6, SeqDef, LenProperties
<1>8. ASSUME NEW k \in 0..Len(list) - 1
      PROVE  other[k + 1] = IF k = i THEN list[j + 1] ELSE IF k = j THEN list[i + 1] ELSE list[k + 1]
  <2>1. k + 1 \in 1..Len(list) /\ (k = i <=> k + 1 = i + 1) /\ (k = j <=> k + 1 = j + 1)
    BY <1>1
  <2>2. QED
    BY <1>4, <2>1
<1>9. ToSet(other) = ToSet(list)
  <2>1. \A k \in 1..Len(list) : \E m \in 1..Len(list) : other[k] = list[m]
    BY <1>2, <1>4
  <2>2. \A k \in 1..Len(list) : \E m \in 1..Len(list) : list[k] = other[m]
    BY <1>2, <1>4
  <2>3. ToSet(other) = {other[k] : k \in 1..Len(list)} /\ ToSet(list) = {list[k] : k \in 1..Len(list)}
    BY <1>1, <1>3 DEF ToSet
  <2>4. QED
    BY <2>1, <2>2, <2>3
<1>10. IsInjective(list) => IsInjective(other)
  BY <1>1, <1>2, <1>3, <1>4 DEF IsInjective
<1>11. QED
  BY <1>7, <1>8, <1>9, <1>10 DEF other, Nth

\* No item comes before its parent.
Heap(list) == \A i \in 1 .. Len(list) - 1 : Nth(list, Parent(i)) <= Nth(list, i)

\* What the turns of both loops keep of the list they started with.
States(list) == {s \in [list : Seq(Nat), at : 0 .. Len(list) - 1] :
                   Len(s.list) = Len(list) /\ ToSet(s.list) = ToSet(list) /\ IsInjective(s.list)}

\* A heap but for the item that moves up: it may come before its parent, its children come
\* after both.
Rising(list) == {s \in States(list) : \A i \in 1 .. Len(list) - 1 :
                   /\ i # s.at => Nth(s.list, Parent(i)) <= Nth(s.list, i)
                   /\ s.at > 0 /\ Parent(i) = s.at => Nth(s.list, Parent(s.at)) <= Nth(s.list, i)}

\* A heap but for the item that moves down: its children may come before it, and after its parent.
Sinking(list) == {s \in States(list) : \A i \in 1 .. Len(list) - 1 :
                    /\ Parent(i) # s.at => Nth(s.list, Parent(i)) <= Nth(s.list, i)
                    /\ s.at > 0 /\ Parent(i) = s.at => Nth(s.list, Parent(s.at)) <= Nth(s.list, i)}

\* The item moves to another place.
LEMMA StatesSwap ==
  ASSUME NEW list \in Seq(Nat), NEW s \in States(list), NEW j \in 0 .. Len(list) - 1, j # s.at
  PROVE  /\ [list |-> Swap(s.list, s.at, j), at |-> j] \in States(list)
         /\ \A k \in 0..Len(list) - 1 :
              Nth(Swap(s.list, s.at, j), k)
                = IF k = s.at THEN Nth(s.list, j) ELSE IF k = j THEN Nth(s.list, s.at) ELSE Nth(s.list, k)
<1> DEFINE l == s.list
           i == s.at
           m == Len(list)
<1>1. /\ l \in Seq(Nat) /\ i \in 0..m - 1 /\ Len(l) = m /\ i # j /\ j \in 0..m - 1
      /\ ToSet(l) = ToSet(list) /\ IsInjective(l)
  BY DEF States
<1> HIDE DEF l, i, m
<1>2. i \in 0..Len(l) - 1 /\ j \in 0..Len(l) - 1
  BY <1>1
<1>3. /\ Swap(l, i, j) \in Seq(Nat) /\ Len(Swap(l, i, j)) = Len(l)
      /\ \A k \in 0..Len(l) - 1 :
           Nth(Swap(l, i, j), k) = IF k = i THEN Nth(l, j) ELSE IF k = j THEN Nth(l, i) ELSE Nth(l, k)
      /\ ToSet(Swap(l, i, j)) = ToSet(l) /\ (IsInjective(l) => IsInjective(Swap(l, i, j)))
  BY <1>1, <1>2, Swapped
<1>4. Len(Swap(l, i, j)) = m /\ ToSet(Swap(l, i, j)) = ToSet(list) /\ IsInjective(Swap(l, i, j))
  BY <1>1, <1>3
<1>5. [list |-> Swap(l, i, j), at |-> j] \in States(list)
  BY <1>1, <1>3, <1>4 DEF States, m
<1>6. QED
  BY <1>1, <1>3, <1>5 DEF l, i, m

\* The items of a state are numbers.
LEMMA StatesNumbers ==
  ASSUME NEW list \in Seq(Nat), NEW s \in States(list)
  PROVE  /\ Len(list) \in Nat /\ s.at \in Nat /\ s.at < Len(list) /\ s.list \in Seq(Nat)
         /\ Len(s.list) = Len(list)
         /\ \A k \in 0 .. Len(list) - 1 : Nth(s.list, k) \in Nat
<1>1. Len(list) \in Nat /\ s.list \in Seq(Nat) /\ Len(s.list) = Len(list) /\ s.at \in 0 .. Len(list) - 1
  BY LenProperties DEF States
<1>2. \A k \in 0 .. Len(list) - 1 : k + 1 \in 1..Len(s.list)
  BY <1>1
<1>3. QED
  BY <1>1, <1>2, ElementOfSeq DEF Nth

LEMMA RiseKeeps ==
  ASSUME NEW list \in Seq(Nat), NEW s \in Rising(list)
  PROVE  Rise(s) \in Rising(list) /\ (Rise(s) = s \/ Rise(s).at < s.at)
<1>1. s \in States(list)
  BY DEF Rising
<1>2. CASE ~(s.at > 0 /\ Nth(s.list, s.at) < Nth(s.list, Parent(s.at)))
  BY <1>2 DEF Rise, Nth
<1>3. CASE s.at > 0 /\ Nth(s.list, s.at) < Nth(s.list, Parent(s.at))
  <2> DEFINE p == Parent(s.at)
             moved == Swap(s.list, s.at, p)
  <2>1. Len(list) \in Nat /\ s.at \in Nat \ {0} /\ s.at < Len(list)
        /\ \A k \in 0 .. Len(list) - 1 : Nth(s.list, k) \in Nat
    BY <1>1, <1>3, StatesNumbers
  <2>2. p \in Nat /\ p < s.at /\ p \in 0 .. Len(list) - 1
    BY <2>1, ParentFits
  <2>3. /\ [list |-> moved, at |-> p] \in States(list)
        /\ \A k \in 0 .. Len(list) - 1 :
             Nth(moved, k) = IF k = s.at THEN Nth(s.list, p) ELSE IF k = p THEN Nth(s.list, s.at) ELSE Nth(s.list, k)
    BY <1>1, <2>2, StatesSwap
  <2>4. Rise(s) = [list |-> moved, at |-> p]
    BY <1>3 DEF Rise, Nth
  <2>5. Nth(s.list, s.at) < Nth(s.list, p)
    BY <1>3
  <2> HIDE DEF p, moved
  <2>6. ASSUME NEW i \in 1 .. Len(list) - 1, i # p PROVE Nth(moved, Parent(i)) <= Nth(moved, i)
    <3>1. i \in Nat \ {0} /\ i \in 0 .. Len(list) - 1 /\ Parent(i) \in Nat /\ Parent(i) < i
          /\ Parent(i) \in 0 .. Len(list) - 1
      BY <2>1, ParentFits
    <3>2. CASE i = s.at
      <4>1. Parent(i) = p /\ s.at \in 0 .. Len(list) - 1
        BY <2>1, <3>2 DEF p
      <4>2. Nth(moved, p) = Nth(s.list, s.at) /\ Nth(moved, s.at) = Nth(s.list, p)
        BY <2>2, <2>3, <4>1
      <4>3. Nth(s.list, s.at) \in Nat /\ Nth(s.list, p) \in Nat
        BY <2>1, <2>2, <4>1
      <4>4. QED
        BY <2>5, <3>2, <4>1, <4>2, <4>3
    <3>3. CASE i # s.at /\ Parent(i) = s.at
      <4>1. Nth(s.list, p) <= Nth(s.list, i)
        BY <1>3, <3>3 DEF Rising, p
      <4>2. QED
        BY <2>1, <2>2, <2>3, <2>6, <3>1, <3>3, <4>1
    <3>4. CASE i # s.at /\ Parent(i) # s.at
      <4>1. Nth(s.list, Parent(i)) <= Nth(s.list, i)
        BY <3>4 DEF Rising
      <4>2. Nth(moved, i) = Nth(s.list, i)
        BY <2>3, <2>6, <3>1, <3>4
      <4>3. Nth(moved, Parent(i)) = IF Parent(i) = p THEN Nth(s.list, s.at) ELSE Nth(s.list, Parent(i))
        BY <2>3, <3>1, <3>4
      <4>4. Nth(s.list, i) \in Nat /\ Nth(s.list, Parent(i)) \in Nat /\ Nth(s.list, s.at) \in Nat /\ Nth(s.list, p) \in Nat
        <5>1. s.at \in 0 .. Len(list) - 1
          BY <2>1
        <5>2. QED
          BY <2>1, <2>2, <3>1, <5>1
      <4>5. QED
        BY <2>5, <4>1, <4>2, <4>3, <4>4
    <3>5. QED
      BY <3>2, <3>3, <3>4
  <2>7. ASSUME NEW i \in 1 .. Len(list) - 1, p > 0, Parent(i) = p PROVE Nth(moved, Parent(p)) <= Nth(moved, i)
    <3>1. p \in 1 .. Len(list) - 1 /\ Parent(p) \in Nat /\ Parent(p) < p /\ Parent(p) \in 0 .. Len(list) - 1
          /\ i \in 0 .. Len(list) - 1
      BY <2>1, <2>2, <2>7, ParentFits
    <3>2. Nth(moved, Parent(p)) = Nth(s.list, Parent(p))
      BY <2>2, <2>3, <3>1
    <3>3. Nth(s.list, Parent(p)) <= Nth(s.list, p)
      BY <2>2, <3>1 DEF Rising
    <3>4. CASE i = s.at
      BY <2>3, <3>1, <3>2, <3>3, <3>4
    <3>5. CASE i # s.at
      <4>1. Nth(s.list, p) <= Nth(s.list, i)
        BY <2>7, <3>5 DEF Rising
      <4>2. i # p
        BY <2>2, <2>7, ParentFits
      <4>3. Nth(moved, i) = Nth(s.list, i)
        BY <2>3, <3>1, <3>5, <4>2
      <4>4. Nth(s.list, i) \in Nat /\ Nth(s.list, Parent(p)) \in Nat /\ Nth(s.list, p) \in Nat
        BY <2>1, <2>2, <3>1
      <4>5. QED
        BY <3>2, <3>3, <4>1, <4>3, <4>4
    <3>6. QED
      BY <3>4, <3>5
  <2>8. [list |-> moved, at |-> p] \in Rising(list)
    BY <2>3, <2>6, <2>7 DEF Rising
  <2>9. QED
    BY <2>2, <2>4, <2>8
<1>4. QED
  BY <1>2, <1>3

\* When the item does not move up, it is in its place.
LEMMA RisenIsHeap ==
  ASSUME NEW list \in Seq(Nat), NEW s \in Rising(list), Rise(s) = s
  PROVE  Heap(s.list)
<1>1. s \in States(list)
  BY DEF Rising
<1>2. Len(list) \in Nat /\ s.at \in Nat /\ s.at < Len(list) /\ Len(s.list) = Len(list)
      /\ \A k \in 0 .. Len(list) - 1 : Nth(s.list, k) \in Nat
  BY <1>1, StatesNumbers
<1>3. s.at > 0 => Nth(s.list, Parent(s.at)) <= Nth(s.list, s.at)
  <2>1. SUFFICES ASSUME s.at > 0, ~(Nth(s.list, Parent(s.at)) <= Nth(s.list, s.at)) PROVE FALSE
    OBVIOUS
  <2>2. /\ Parent(s.at) \in Nat /\ Parent(s.at) < s.at
        /\ Parent(s.at) \in 0 .. Len(list) - 1 /\ s.at \in 0 .. Len(list) - 1
    BY <1>2, <2>1, ParentFits
  <2>3. Nth(s.list, s.at) < Nth(s.list, Parent(s.at))
    <3>1. Nth(s.list, s.at) \in Nat /\ Nth(s.list, Parent(s.at)) \in Nat
      BY <1>2, <2>2
    <3>2. QED
      BY <2>1, <3>1
  <2>4. Rise(s).at = Parent(s.at)
    BY <2>1, <2>3 DEF Rise, Nth
  <2>5. QED
    BY <1>2, <2>2, <2>4
<1>4. QED
  BY <1>2, <1>3 DEF Rising, Heap

\* The smaller child.
LEMMA ChildFits ==
  ASSUME NEW list \in Seq(Nat), NEW k \in Nat, k < Len(list) \div 2
  PROVE  /\ Child(list, k) \in 1 .. Len(list) - 1 /\ Parent(Child(list, k)) = k /\ k < Child(list, k)
         /\ \A i \in 1 .. Len(list) - 1 : Parent(i) = k => Nth(list, Child(list, k)) <= Nth(list, i)
<1> DEFINE n == Len(list)
           c == Child(list, k)
<1>1. n \in Nat /\ \A i \in 0 .. n - 1 : Nth(list, i) \in Nat
  <2>1. n \in Nat /\ \A i \in 1..n : list[i] \in Nat
    BY LenProperties, ElementOfSeq
  <2>2. QED
    BY <2>1 DEF Nth
<1> HIDE DEF n
<1>2. 2 * k + 1 < n
  BY <1>1, Z3 DEF n
<1>3. \A i \in 1 .. n - 1 : Parent(i) = k <=> i = 2 * k + 1 \/ i = 2 * k + 2
  BY <1>1, ParentFits
<1>4. /\ c = 2 * k + 1 \/ c = 2 * k + 2
      /\ c = 2 * k + 1 => 2 * k + 2 >= n \/ Nth(list, 2 * k + 1) <= Nth(list, 2 * k + 2)
      /\ c = 2 * k + 2 => ~(2 * k + 2 >= n) /\ ~(Nth(list, 2 * k + 1) <= Nth(list, 2 * k + 2))
  <2>1. 2 * k + 1 + 1 = 2 * k + 2 /\ 2 * k + 1 # 2 * k + 2
    OBVIOUS
  <2>2. Nth(list, 2 * k + 1) = list[2 * k + 1 + 1] /\ Nth(list, 2 * k + 2) = list[2 * k + 1 + 2]
    BY DEF Nth
  <2>3. c = IF 2 * k + 1 + 1 >= n \/ list[2 * k + 1 + 1] <= list[2 * k + 1 + 2] THEN 2 * k + 1 ELSE 2 * k + 1 + 1
    BY DEF Child, n
  <2> HIDE DEF c
  <2>4. QED
    BY <2>1, <2>2, <2>3
<1> HIDE DEF c
<1>5. c \in 1 .. n - 1
  BY <1>1, <1>2, <1>4
<1>6. ASSUME NEW i \in 1 .. n - 1, Parent(i) = k PROVE Nth(list, c) <= Nth(list, i)
  <2>1. i = 2 * k + 1 \/ i = 2 * k + 2
    BY <1>3, <1>6
  <2>2. Nth(list, i) \in Nat /\ Nth(list, 2 * k + 1) \in Nat
    BY <1>1, <1>2
  <2>3. CASE c = i
    BY <2>2, <2>3
  <2>4. CASE c # i /\ c = 2 * k + 1
    <3>1. i = 2 * k + 2 /\ ~(2 * k + 2 >= n)
      BY <1>1, <2>1, <2>4
    <3>2. QED
      BY <1>4, <2>4, <3>1
  <2>5. CASE c # i /\ c = 2 * k + 2
    <3>1. i = 2 * k + 1 /\ Nth(list, 2 * k + 2) \in Nat
      BY <1>1, <1>5, <2>1, <2>5
    <3>2. QED
      BY <1>4, <2>2, <2>5, <3>1
  <2>6. QED
    BY <1>4, <2>3, <2>4, <2>5
<1>7. QED
  BY <1>1, <1>3, <1>4, <1>5, <1>6 DEF n, c

LEMMA SinkKeeps ==
  ASSUME NEW list \in Seq(Nat), NEW s \in Sinking(list)
  PROVE  Sink(s) \in Sinking(list) /\ (Sink(s) = s \/ Sink(s).at > s.at)
<1>1. s \in States(list) /\ Len(list) \in Nat /\ s.at \in Nat /\ s.at < Len(list) /\ s.list \in Seq(Nat)
      /\ Len(s.list) = Len(list) /\ s.at \in 0 .. Len(list) - 1
      /\ \A k \in 0 .. Len(list) - 1 : Nth(s.list, k) \in Nat
  BY StatesNumbers DEF Sinking
<1> DEFINE c == Child(s.list, s.at)
           moved == Swap(s.list, s.at, c)
<1>2. CASE ~(s.at < Len(s.list) \div 2 /\ Nth(s.list, c) < Nth(s.list, s.at))
  BY <1>2 DEF Sink, Nth
<1>3. CASE s.at < Len(s.list) \div 2 /\ Nth(s.list, c) < Nth(s.list, s.at)
  <2>1. /\ c \in 1 .. Len(list) - 1 /\ Parent(c) = s.at /\ s.at < c
        /\ \A i \in 1 .. Len(list) - 1 : Parent(i) = s.at => Nth(s.list, c) <= Nth(s.list, i)
    BY <1>1, <1>3, ChildFits
  <2>2. c \in 0 .. Len(list) - 1 /\ c # s.at /\ c \in Nat \ {0}
    BY <1>1, <2>1
  <2>3. /\ [list |-> moved, at |-> c] \in States(list)
        /\ \A k \in 0 .. Len(list) - 1 :
             Nth(moved, k) = IF k = s.at THEN Nth(s.list, c) ELSE IF k = c THEN Nth(s.list, s.at) ELSE Nth(s.list, k)
    BY <1>1, <2>2, StatesSwap
  <2>4. Sink(s) = [list |-> moved, at |-> c]
    BY <1>3 DEF Sink, Nth
  <2>5. Nth(s.list, c) < Nth(s.list, s.at) /\ Nth(s.list, c) \in Nat /\ Nth(s.list, s.at) \in Nat
    BY <1>1, <1>3, <2>2
  <2> HIDE DEF c, moved
  <2>6. ASSUME NEW i \in 1 .. Len(list) - 1, Parent(i) # c PROVE Nth(moved, Parent(i)) <= Nth(moved, i)
    <3>1. i \in Nat \ {0} /\ i \in 0 .. Len(list) - 1 /\ Parent(i) \in Nat /\ Parent(i) < i
          /\ Parent(i) \in 0 .. Len(list) - 1
      BY <1>1, ParentFits
    <3>2. Nth(s.list, i) \in Nat /\ Nth(s.list, Parent(i)) \in Nat
      BY <1>1, <3>1
    <3>3. Nth(moved, Parent(i)) = IF Parent(i) = s.at THEN Nth(s.list, c) ELSE Nth(s.list, Parent(i))
      BY <2>3, <2>6, <3>1
    <3>4. Nth(moved, i) = IF i = s.at THEN Nth(s.list, c) ELSE IF i = c THEN Nth(s.list, s.at) ELSE Nth(s.list, i)
      BY <2>3, <3>1
    <3>5. CASE Parent(i) = s.at
      <4>1. i # s.at
        BY <3>1, <3>5
      <4>2. Nth(s.list, c) <= Nth(s.list, i)
        BY <2>1, <3>5
      <4>3. QED
        BY <2>5, <3>2, <3>3, <3>4, <3>5, <4>1, <4>2
    <3>6. CASE Parent(i) # s.at /\ i = s.at
      <4>1. Nth(s.list, Parent(s.at)) <= Nth(s.list, c)
        BY <2>1, <3>1, <3>6 DEF Sinking
      <4>2. QED
        BY <2>2, <3>3, <3>4, <3>6, <4>1
    <3>7. CASE Parent(i) # s.at /\ i # s.at
      <4>1. i # c /\ Nth(s.list, Parent(i)) <= Nth(s.list, i)
        BY <2>1, <3>7 DEF Sinking
      <4>2. QED
        BY <3>3, <3>4, <3>7, <4>1
    <3>8. QED
      BY <3>5, <3>6, <3>7
  <2>7. ASSUME NEW i \in 1 .. Len(list) - 1, Parent(i) = c PROVE Nth(moved, Parent(c)) <= Nth(moved, i)
    <3>1. i \in 0 .. Len(list) - 1 /\ i # c /\ i # s.at
      <4>1. i \in Nat \ {0} /\ Parent(i) < i
        BY <1>1, ParentFits
      <4>2. QED
        BY <1>1, <2>1, <2>2, <2>7, <4>1
    <3>2. Nth(moved, s.at) = Nth(s.list, c) /\ Nth(moved, i) = Nth(s.list, i)
      BY <1>1, <2>3, <3>1
    <3>3. Parent(i) # s.at
      BY <2>2, <2>7
    <3>4. Nth(s.list, c) <= Nth(s.list, i)
      BY <2>7, <3>3 DEF Sinking
    <3>5. QED
      BY <2>1, <3>2, <3>4
  <2>8. [list |-> moved, at |-> c] \in Sinking(list)
    BY <2>3, <2>6, <2>7 DEF Sinking
  <2>9. QED
    BY <2>1, <2>4, <2>8
<1>4. QED
  BY <1>2, <1>3

\* When the item does not move down, it is in its place.
LEMMA SunkIsHeap ==
  ASSUME NEW list \in Seq(Nat), NEW s \in Sinking(list), Sink(s) = s
  PROVE  Heap(s.list)
<1>1. s \in States(list) /\ Len(list) \in Nat /\ s.at \in Nat /\ s.at < Len(list) /\ s.list \in Seq(Nat)
      /\ Len(s.list) = Len(list) /\ s.at \in 0 .. Len(list) - 1
      /\ \A k \in 0 .. Len(list) - 1 : Nth(s.list, k) \in Nat
  BY StatesNumbers DEF Sinking
<1> DEFINE c == Child(s.list, s.at)
<1>2. ASSUME NEW i \in 1 .. Len(list) - 1, Parent(i) = s.at PROVE Nth(s.list, s.at) <= Nth(s.list, i)
  <2>1. s.at < Len(s.list) \div 2
    <3>1. i = 2 * s.at + 1 \/ i = 2 * s.at + 2
      <4>1. i \in Nat \ {0}
        BY <1>1
      <4>2. QED
        BY <1>1, <1>2, <4>1, ParentFits
    <3>2. 2 * s.at + 1 < Len(s.list)
      BY <1>1, <1>2, <3>1
    <3>3. QED
      BY <1>1, <3>2, Z3
  <2>2. c \in 0 .. Len(list) - 1 /\ s.at < c /\ Nth(s.list, c) <= Nth(s.list, i)
    <3>1. /\ c \in 1 .. Len(s.list) - 1 /\ s.at < c
          /\ \A j \in 1 .. Len(s.list) - 1 : Parent(j) = s.at => Nth(s.list, c) <= Nth(s.list, j)
      BY <1>1, <2>1, ChildFits
    <3> HIDE DEF c
    <3>2. QED
      BY <1>1, <1>2, <3>1
  <2>3. ~(Nth(s.list, c) < Nth(s.list, s.at))
    <3>1. SUFFICES ASSUME Nth(s.list, c) < Nth(s.list, s.at) PROVE FALSE
      OBVIOUS
    <3>2. Sink(s).at = c
      BY <2>1, <3>1 DEF Sink, Nth
    <3>3. QED
      BY <1>1, <2>2, <3>2
  <2>4. Nth(s.list, c) \in Nat /\ Nth(s.list, s.at) \in Nat /\ Nth(s.list, i) \in Nat
    <3>1. i \in 0 .. Len(list) - 1
      BY <1>1
    <3>2. QED
      BY <1>1, <2>2, <3>1
  <2>5. QED
    BY <2>2, <2>3, <2>4
<1>3. QED
  BY <1>1, <1>2 DEF Sinking, Heap

\* What a loop leaves of a list.
Ordered(list, old) ==
  list \in Seq(Nat) /\ Heap(list) /\ Len(list) = Len(old) /\ ToSet(list) = ToSet(old) /\ IsInjective(list)

\* The loop of push ends, with a heap.
LEMMA SiftedUp ==
  ASSUME NEW list \in Seq(Nat), NEW place, [list |-> list, at |-> place] \in Rising(list)
  PROVE  Ordered(Sifted(Rise, list, place), list)
<1> DEFINE S == Rising(list)
           m == Len(list)
           start == [list |-> list, at |-> place]
           step == [s \in S |-> Rise(s)]
           turns == CHOOSE g : g = [n \in 0..m |-> IF n = 0 THEN start ELSE Rise(g[n - 1])]
<1>1. step \in [S -> S] /\ start \in S /\ m \in Nat
  BY RiseKeeps, LenProperties
<1>2. Sifted(Rise, list, place) = turns[m].list
  BY DEF Sifted
<1>3. \A s \in S : step[s] = Rise(s)
  OBVIOUS
<1> HIDE DEF step, start, m
<1>4. \E g : g = [n \in 0..m |-> IF n = 0 THEN start ELSE Rise(g[n - 1])]
  <2> HIDE DEF S
  <2>1. PICK f \in [0..m -> S] : f[0] = start /\ \A n \in 1..m : f[n] = step[f[n - 1]]
    <3>1. PICK g : Stepwise(g, S, step, start, m)
      BY <1>1, Iterated DEF Steps
    <3>2. QED
      BY <3>1 DEF Stepwise
  <2>2. ASSUME NEW n \in 0..m PROVE f[n] = IF n = 0 THEN start ELSE Rise(f[n - 1])
    <3>1. CASE n = 0
      BY <2>1, <3>1
    <3>2. CASE n # 0
      <4>1. n \in 1..m /\ n - 1 \in 0..m
        BY <1>1, <3>2
      <4>2. QED
        BY <1>3, <2>1, <3>2, <4>1
    <3>3. QED
      BY <3>1, <3>2
  <2>3. f = [n \in 0..m |-> IF n = 0 THEN start ELSE Rise(f[n - 1])]
    BY <2>2
  <2>4. QED
    BY <2>3
<1>5. turns = [n \in 0..m |-> IF n = 0 THEN start ELSE Rise(turns[n - 1])]
  BY <1>4
<1> HIDE DEF turns
<1>6. turns[0] = start /\ \A n \in 0..m - 1 : turns[n + 1] = Rise(turns[n])
  <2>1. turns[0] = start
    BY <1>1, <1>5
  <2>2. \A k \in 1..m : turns[k] = Rise(turns[k - 1])
    BY <1>1, <1>5
  <2>3. ASSUME NEW n \in 0..m - 1 PROVE turns[n + 1] = Rise(turns[n])
    <3>1. PICK k \in 1..m : k = n + 1
      BY <1>1
    <3>2. k - 1 = n
      BY <3>1
    <3>3. QED
      BY <2>2, <3>1, <3>2
  <2>4. QED
    BY <2>1, <2>3
<1> DEFINE T == {n \in Nat : turns[n] \in S /\ (turns[n].at <= m - 1 - n \/ Rise(turns[n]) = turns[n])}
<1>7. \A s \in S : s.at \in Nat /\ s.at < m
  BY StatesNumbers DEF Rising, m
<1>8. \A s \in S : Rise(s) \in S /\ (Rise(s) = s \/ Rise(s).at < s.at)
  BY RiseKeeps
<1> HIDE DEF S
<1>9. 0 \in T
  BY <1>1, <1>6, <1>7
<1>10. ASSUME NEW n \in 0..m - 1, n \in T PROVE n + 1 \in T
  <2>1. turns[n] \in S /\ turns[n + 1] = Rise(turns[n]) /\ n + 1 \in Nat
        /\ (turns[n].at <= m - 1 - n \/ Rise(turns[n]) = turns[n])
    BY <1>6, <1>10
  <2>2. turns[n + 1] \in S /\ turns[n].at \in Nat /\ turns[n + 1].at \in Nat
    BY <1>7, <1>8, <2>1
  <2>3. CASE Rise(turns[n]) = turns[n]
    BY <2>1, <2>2, <2>3
  <2>4. CASE turns[n + 1].at < turns[n].at /\ turns[n].at <= m - 1 - n
    <3>1. turns[n + 1].at <= m - 1 - (n + 1)
      BY <1>1, <2>2, <2>4
    <3>2. QED
      BY <2>1, <2>2, <3>1
  <2>5. QED
    BY <1>8, <2>1, <2>3, <2>4
<1>11. m \in T
  <2> HIDE DEF T
  <2>1. 0..m \subseteq T
    BY <1>1, <1>9, <1>10, Upwards
  <2>2. QED
    BY <1>1, <2>1
<1>12. turns[m] \in S /\ Rise(turns[m]) = turns[m]
  <2>1. turns[m] \in S /\ turns[m].at \in Nat
    BY <1>7, <1>11
  <2>2. ~(turns[m].at <= m - 1 - m)
    BY <1>1, <2>1
  <2>3. QED
    BY <1>11, <2>1, <2>2
<1>13. Heap(turns[m].list)
  BY <1>12, RisenIsHeap DEF S
<1>14. turns[m] \in States(list)
  BY <1>12 DEF S, Rising
<1>15. QED
  BY <1>2, <1>13, <1>14 DEF States, Ordered

\* The loop of pop ends, with a heap.
LEMMA SiftedDown ==
  ASSUME NEW list \in Seq(Nat), NEW place, [list |-> list, at |-> place] \in Sinking(list)
  PROVE  Ordered(Sifted(Sink, list, place), list)
<1> DEFINE S == Sinking(list)
           m == Len(list)
           start == [list |-> list, at |-> place]
           step == [s \in S |-> Sink(s)]
           turns == CHOOSE g : g = [n \in 0..m |-> IF n = 0 THEN start ELSE Sink(g[n - 1])]
<1>1. step \in [S -> S] /\ start \in S /\ m \in Nat
  BY SinkKeeps, LenProperties
<1>2. Sifted(Sink, list, place) = turns[m].list
  BY DEF Sifted
<1>3. \A s \in S : step[s] = Sink(s)
  OBVIOUS
<1> HIDE DEF step, start, m
<1>4. \E g : g = [n \in 0..m |-> IF n = 0 THEN start ELSE Sink(g[n - 1])]
  <2> HIDE DEF S
  <2>1. PICK f \in [0..m -> S] : f[0] = start /\ \A n \in 1..m : f[n] = step[f[n - 1]]
    <3>1. PICK g : Stepwise(g, S, step, start, m)
      BY <1>1, Iterated DEF Steps
    <3>2. QED
      BY <3>1 DEF Stepwise
  <2>2. ASSUME NEW n \in 0..m PROVE f[n] = IF n = 0 THEN start ELSE Sink(f[n - 1])
    <3>1. CASE n = 0
      BY <2>1, <3>1
    <3>2. CASE n # 0
      <4>1. n \in 1..m /\ n - 1 \in 0..m
        BY <1>1, <3>2
      <4>2. QED
        BY <1>3, <2>1, <3>2, <4>1
    <3>3. QED
      BY <3>1, <3>2
  <2>3. f = [n \in 0..m |-> IF n = 0 THEN start ELSE Sink(f[n - 1])]
    BY <2>2
  <2>4. QED
    BY <2>3
<1>5. turns = [n \in 0..m |-> IF n = 0 THEN start ELSE Sink(turns[n - 1])]
  BY <1>4
<1> HIDE DEF turns
<1>6. turns[0] = start /\ \A n \in 0..m - 1 : turns[n + 1] = Sink(turns[n])
  <2>1. turns[0] = start
    BY <1>1, <1>5
  <2>2. \A k \in 1..m : turns[k] = Sink(turns[k - 1])
    BY <1>1, <1>5
  <2>3. ASSUME NEW n \in 0..m - 1 PROVE turns[n + 1] = Sink(turns[n])
    <3>1. PICK k \in 1..m : k = n + 1
      BY <1>1
    <3>2. k - 1 = n
      BY <3>1
    <3>3. QED
      BY <2>2, <3>1, <3>2
  <2>4. QED
    BY <2>1, <2>3
<1> DEFINE T == {n \in Nat : turns[n] \in S /\ (turns[n].at >= n \/ Sink(turns[n]) = turns[n])}
<1>7. \A s \in S : s.at \in Nat /\ s.at < m
  BY StatesNumbers DEF Sinking, m
<1>8. \A s \in S : Sink(s) \in S /\ (Sink(s) = s \/ Sink(s).at > s.at)
  BY SinkKeeps
<1> HIDE DEF S
<1>9. 0 \in T
  BY <1>1, <1>6, <1>7
<1>10. ASSUME NEW n \in 0..m - 1, n \in T PROVE n + 1 \in T
  <2>1. turns[n] \in S /\ turns[n + 1] = Sink(turns[n]) /\ n + 1 \in Nat
        /\ (turns[n].at >= n \/ Sink(turns[n]) = turns[n])
    BY <1>6, <1>10
  <2>2. turns[n + 1] \in S /\ turns[n].at \in Nat /\ turns[n + 1].at \in Nat
    BY <1>7, <1>8, <2>1
  <2>3. CASE Sink(turns[n]) = turns[n]
    BY <2>1, <2>2, <2>3
  <2>4. CASE turns[n + 1].at > turns[n].at /\ turns[n].at >= n
    <3>1. turns[n + 1].at >= n + 1
      BY <1>1, <2>2, <2>4
    <3>2. QED
      BY <2>1, <2>2, <3>1
  <2>5. QED
    BY <1>8, <2>1, <2>3, <2>4
<1>11. m \in T
  <2> HIDE DEF T
  <2>1. 0..m \subseteq T
    BY <1>1, <1>9, <1>10, Upwards
  <2>2. QED
    BY <1>1, <2>1
<1>12. turns[m] \in S /\ Sink(turns[m]) = turns[m]
  <2>1. turns[m] \in S /\ turns[m].at \in Nat /\ turns[m].at < m
    BY <1>7, <1>11
  <2>2. ~(turns[m].at >= m)
    BY <1>1, <2>1
  <2>3. QED
    BY <1>11, <2>1, <2>2
<1>13. Heap(turns[m].list)
  BY <1>12, SunkIsHeap DEF S
<1>14. turns[m] \in States(list)
  BY <1>12 DEF S, Sinking
<1>15. QED
  BY <1>2, <1>13, <1>14 DEF States, Ordered

\* The first of a heap is the least.
LEMMA HeadIsLeast ==
  ASSUME NEW list \in Seq(Nat), Heap(list), NEW e \in ToSet(list)
  PROVE  list # <<>> /\ Head(list) \in Nat /\ Head(list) <= e
<1> DEFINE n == Len(list)
           Less == {i \in 0..n - 1 : ~(Nth(list, 0) <= Nth(list, i))}
<1>1. n \in Nat /\ \A i \in 0..n - 1 : Nth(list, i) \in Nat
  <2>1. n \in Nat /\ \A i \in 1..n : list[i] \in Nat
    BY LenProperties, ElementOfSeq
  <2>2. QED
    BY <2>1 DEF Nth
<1>2. PICK k \in 0..n - 1 : e = Nth(list, k)
  <2>1. PICK j \in 1..n : e = list[j]
    BY LenProperties DEF ToSet
  <2>2. j - 1 \in 0..n - 1 /\ (j - 1) + 1 = j
    BY <1>1
  <2>3. QED
    BY <2>1, <2>2 DEF Nth
<1>3. Less = {}
  <2>1. SUFFICES ASSUME Less # {} PROVE FALSE
    OBVIOUS
  <2>2. Less \subseteq Nat
    OBVIOUS
  <2>3. PICK x \in Less : \A y \in Less : x <= y
    BY <2>1, <2>2, LeastNumber
  <2>4. x \in 0..n - 1 /\ x # 0 /\ 0 \in 0..n - 1
    BY <1>1, <2>3
  <2>5. Parent(x) \in Nat /\ Parent(x) < x /\ Parent(x) \in 0..n - 1
    BY <1>1, <2>4, ParentFits
  <2>6. Parent(x) \notin Less
    BY <2>3, <2>4, <2>5
  <2>7. Nth(list, Parent(x)) <= Nth(list, x)
    BY <1>1, <2>4 DEF Heap
  <2>8. Nth(list, 0) \in Nat /\ Nth(list, x) \in Nat /\ Nth(list, Parent(x)) \in Nat
    BY <1>1, <2>4, <2>5
  <2>9. QED
    BY <2>3, <2>5, <2>6, <2>7, <2>8
<1>4. list # <<>> /\ Head(list) = Nth(list, 0) /\ 0 \in 0..n - 1
  <2>1. n # 0
    BY <1>1, <1>2
  <2>2. list # <<>>
    BY <2>1, EmptySeq
  <2>3. Head(list) = list[1]
    BY <2>2, HeadTailProperties
  <2>4. QED
    BY <1>1, <2>1, <2>2, <2>3 DEF Nth
<1>5. QED
  BY <1>1, <1>2, <1>3, <1>4

\* What push starts its loop with.
LEMMA PushStarts ==
  ASSUME NEW list \in Seq(Nat), Heap(list), IsInjective(list), NEW i \in Nat, i \notin ToSet(list)
  PROVE  /\ Append(list, i) \in Seq(Nat) /\ ToSet(Append(list, i)) = ToSet(list) \cup {i}
         /\ [list |-> Append(list, i), at |-> Len(list)] \in Rising(Append(list, i))
<1> DEFINE n == Len(list)
           more == Append(list, i)
<1>1. n \in Nat /\ DOMAIN list = 1..n /\ \A k \in 1..n : list[k] \in Nat
  BY LenProperties, ElementOfSeq
<1>2. more \in Seq(Nat) /\ Len(more) = n + 1 /\ DOMAIN more = 1..n + 1
      /\ more[n + 1] = i /\ \A k \in 1..n : more[k] = list[k]
  <2>1. more \in Seq(Nat) /\ Len(more) = n + 1 /\ more[n + 1] = i /\ \A k \in 1..n : more[k] = list[k]
    BY AppendProperties
  <2>2. QED
    BY <2>1, LenProperties
<1> HIDE DEF more, n
<1>3. ToSet(list) = {list[k] : k \in 1..n} /\ ToSet(more) = {more[k] : k \in 1..n + 1}
  BY <1>1, <1>2 DEF ToSet
<1>4. \A k \in 1..n + 1 : k \in 1..n \/ k = n + 1
  BY <1>1
<1>5. 1..n \subseteq 1..n + 1 /\ n + 1 \in 1..n + 1
  BY <1>1
<1>6. ToSet(more) = ToSet(list) \cup {i}
  BY <1>2, <1>3, <1>4, <1>5
<1>7. IsInjective(more)
  <2>1. \A k \in 1..n : list[k] # i
    BY <1>3
  <2>2. ASSUME NEW j \in 1..n + 1, NEW k \in 1..n + 1, more[j] = more[k] PROVE j = k
    BY <1>1, <1>2, <1>4, <2>1, <2>2 DEF IsInjective
  <2>3. QED
    BY <1>2, <2>2 DEF IsInjective
<1>8. [list |-> more, at |-> n] \in States(more)
  BY <1>1, <1>2, <1>7 DEF States
<1>9. ASSUME NEW j \in 1 .. Len(more) - 1
      PROVE  /\ j # n => Nth(more, Parent(j)) <= Nth(more, j)
             /\ Parent(j) # n
  <2>1. j \in Nat \ {0} /\ j <= n /\ Parent(j) \in Nat /\ Parent(j) < j
    BY <1>1, <1>2, ParentFits
  <2>2. ASSUME j # n PROVE Nth(more, Parent(j)) <= Nth(more, j)
    <3>1. j \in 1..n - 1 /\ j + 1 \in 1..n /\ Parent(j) + 1 \in 1..n
      BY <1>1, <2>1, <2>2
    <3>2. Nth(list, Parent(j)) <= Nth(list, j)
      BY <3>1 DEF Heap, n
    <3>3. QED
      BY <1>2, <3>1, <3>2 DEF Nth
  <2>3. QED
    BY <1>1, <2>1, <2>2
<1>10. [list |-> more, at |-> n] \in Rising(more)
  BY <1>8, <1>9 DEF Rising
<1>11. QED
  BY <1>2, <1>6, <1>10 DEF more, n

\* What pop starts its loop with: the last item in the place of the first.
LEMMA PopStarts ==
  ASSUME NEW list \in Seq(Nat), Heap(list), IsInjective(list), list # <<>>, Len(list) # 1,
         NEW rest, rest = <<Last(list)>> \o SubSeq(list, 2, Len(list) - 1)
  PROVE  /\ rest \in Seq(Nat) /\ ToSet(rest) = ToSet(list) \ {Head(list)}
         /\ [list |-> rest, at |-> 0] \in Sinking(rest)
<1> DEFINE n == Len(list)
           middle == SubSeq(list, 2, n - 1)
<1>1. n \in Nat /\ n >= 2 /\ DOMAIN list = 1..n /\ \A k \in 1..n : list[k] \in Nat
  <2>1. n \in Nat /\ n # 0
    BY LenProperties, EmptySeq
  <2>2. QED
    BY <2>1, LenProperties, ElementOfSeq
<1>2. middle \in Seq(Nat) /\ Len(middle) = n - 2 /\ \A k \in 1..n - 2 : middle[k] = list[k + 1]
  <2>1. 2 \in 1..n + 1 /\ n - 1 \in 1..n /\ n - 1 - 2 + 1 = n - 2
    BY <1>1
  <2>2. middle \in Seq(Nat) /\ Len(middle) = n - 2 /\ \A k \in 1..n - 2 : middle[k] = list[2 + k - 1]
    BY <1>1, <2>1
  <2>3. \A k \in 1..n - 2 : 2 + k - 1 = k + 1
    BY <1>1
  <2>4. QED
    BY <2>2, <2>3
<1>3. <<Last(list)>> \in Seq(Nat) /\ Len(<<Last(list)>>) = 1 /\ <<Last(list)>>[1] = list[n]
  BY <1>1 DEF Last
<1>4. rest = <<Last(list)>> \o middle
  OBVIOUS
<1> HIDE DEF middle
<1>5. rest \in Seq(Nat) /\ Len(rest) = n - 1 /\ rest[1] = list[n] /\ \A k \in 2..n - 1 : rest[k] = list[k]
  <2>1. rest \in Seq(Nat) /\ Len(rest) = 1 + (n - 2)
        /\ \A k \in 1..1 + (n - 2) : rest[k] = IF k <= 1 THEN <<Last(list)>>[k] ELSE middle[k - 1]
    <3> DEFINE one == <<Last(list)>>
    <3>1. one \in Seq(Nat) /\ Len(one) = 1 /\ middle \in Seq(Nat) /\ Len(middle) = n - 2 /\ rest = one \o middle
      BY <1>2, <1>3, <1>4
    <3> HIDE DEF one
    <3>2. rest \in Seq(Nat) /\ Len(rest) = Len(one) + Len(middle)
          /\ \A k \in 1..Len(one) + Len(middle) : rest[k] = IF k <= Len(one) THEN one[k] ELSE middle[k - Len(one)]
      <4>1. /\ one \o middle \in Seq(Nat) /\ Len(one \o middle) = Len(one) + Len(middle)
            /\ \A k \in 1..Len(one) + Len(middle) :
                 (one \o middle)[k] = IF k <= Len(one) THEN one[k] ELSE middle[k - Len(one)]
        BY <3>1, ConcatProperties
      <4>2. QED
        BY <3>1, <4>1, Zenon
    <3>3. QED
      BY <3>1, <3>2 DEF one
  <2>2. ASSUME NEW k \in 2..n - 1 PROVE rest[k] = list[k]
    <3>1. PICK j \in 1..n - 2 : k = j + 1
      <4>1. k - 1 \in 1..n - 2 /\ k = (k - 1) + 1
        BY <1>1
      <4>2. QED
        BY <4>1
    <3>2. k - 1 = j /\ k \in 1..1 + (n - 2) /\ ~(k <= 1)
      BY <1>1, <3>1
    <3>3. QED
      BY <1>2, <2>1, <3>1, <3>2
  <2>3. QED
    BY <1>1, <1>3, <2>1, <2>2
<1>6. DOMAIN rest = 1..n - 1 /\ Head(list) = list[1]
  BY <1>5, LenProperties, HeadTailProperties
<1>7. /\ ToSet(rest) = {rest[k] : k \in 1..n - 1} /\ ToSet(list) = {list[k] : k \in 1..n}
      /\ \A j, k \in 1..n : list[j] = list[k] => j = k
  BY <1>1, <1>6 DEF ToSet, IsInjective
<1> HIDE DEF n
<1>8. ToSet(rest) = ToSet(list) \ {list[1]}
  <2>1. ASSUME NEW k \in 1..n - 1 PROVE rest[k] \in ToSet(list) /\ rest[k] # list[1]
    <3>1. CASE k = 1
      BY <1>1, <1>5, <1>7, <3>1
    <3>2. CASE k # 1
      <4>1. k \in 2..n - 1 /\ k \in 1..n /\ 1 \in 1..n
        BY <1>1, <3>2
      <4>2. QED
        BY <1>5, <1>7, <3>2, <4>1
    <3>3. QED
      BY <3>1, <3>2
  <2>2. ASSUME NEW k \in 1..n, k # 1 PROVE list[k] \in ToSet(rest)
    <3>1. CASE k = n
      <4>1. 1 \in 1..n - 1
        BY <1>1
      <4>2. QED
        BY <1>5, <1>7, <3>1, <4>1
    <3>2. CASE k # n
      <4>1. k \in 2..n - 1 /\ k \in 1..n - 1
        BY <1>1, <2>2, <3>2
      <4>2. QED
        BY <1>5, <1>7, <4>1
    <3>3. QED
      BY <3>1, <3>2
  <2>3. ToSet(rest) \subseteq ToSet(list) \ {list[1]}
    BY <1>7, <2>1
  <2>4. ASSUME NEW e \in ToSet(list), e # list[1] PROVE e \in ToSet(rest)
    BY <1>7, <2>2, <2>4
  <2>5. QED
    BY <2>3, <2>4
<1>9. IsInjective(rest)
  <2>1. ASSUME NEW k \in 1..n - 1 PROVE \E m \in 2..n : rest[k] = list[m] /\ m = (IF k = 1 THEN n ELSE k)
    BY <1>1, <1>5
  <2>2. ASSUME NEW j \in 1..n - 1, NEW k \in 1..n - 1, rest[j] = rest[k] PROVE j = k
    <3>1. PICK a \in 2..n : rest[j] = list[a] /\ a = (IF j = 1 THEN n ELSE j)
      BY <2>1
    <3>2. PICK b \in 2..n : rest[k] = list[b] /\ b = (IF k = 1 THEN n ELSE k)
      BY <2>1
    <3>3. a \in 1..n /\ b \in 1..n
      BY <1>1
    <3>4. a = b
      BY <1>7, <2>2, <3>1, <3>2, <3>3
    <3>5. QED
      BY <1>1, <3>1, <3>2, <3>4
  <2>3. QED
    BY <1>6, <2>2 DEF IsInjective
<1>10. [list |-> rest, at |-> 0] \in States(rest)
  <2>1. 0 \in 0 .. Len(rest) - 1
    BY <1>1, <1>5
  <2>2. QED
    BY <1>5, <1>9, <2>1 DEF States
<1>11. ASSUME NEW j \in 1 .. Len(rest) - 1, Parent(j) # 0 PROVE Nth(rest, Parent(j)) <= Nth(rest, j)
  <2>1. j \in Nat \ {0} /\ j <= n - 2 /\ Parent(j) \in Nat /\ Parent(j) < j
    <3>1. j \in Nat \ {0} /\ j <= n - 2
      BY <1>1, <1>5
    <3>2. QED
      BY <3>1, ParentFits
  <2>2. j \in 1..n - 1 /\ j + 1 \in 2..n - 1 /\ Parent(j) + 1 \in 2..n - 1
    <3>1. Parent(j) # 0
      BY <1>11
    <3> DEFINE p == Parent(j)
    <3> HIDE DEF p
    <3>2. p \in Nat /\ p # 0 /\ p < j
      BY <2>1, <3>1 DEF p
    <3>3. j + 1 \in 2..n - 1 /\ p + 1 \in 2..n - 1 /\ j \in 1..n - 1
      BY <1>1, <2>1, <3>2
    <3>4. QED
      BY <3>3 DEF p
  <2>3. Nth(list, Parent(j)) <= Nth(list, j)
    BY <2>2 DEF Heap, n
  <2>4. QED
    BY <1>5, <2>2, <2>3 DEF Nth
<1>12. [list |-> rest, at |-> 0] \in Sinking(rest)
  <2> DEFINE s == [list |-> rest, at |-> 0]
  <2>1. s \in States(rest) /\ s.list = rest /\ s.at = 0
    BY <1>10
  <2> HIDE DEF s
  <2>2. ASSUME NEW i \in 1 .. Len(rest) - 1
        PROVE  /\ Parent(i) # s.at => Nth(s.list, Parent(i)) <= Nth(s.list, i)
               /\ ~(s.at > 0)
    <3>1. ~(s.at > 0)
      BY <2>1
    <3>2. Parent(i) # s.at => Nth(s.list, Parent(i)) <= Nth(s.list, i)
      BY <1>11, <2>1, Zenon
    <3>3. QED
      BY <3>1, <3>2
  <2>3. s \in Sinking(rest)
    BY <2>1, <2>2 DEF Sinking
  <2>4. QED
    BY <2>3 DEF s
<1>13. QED
  BY <1>5, <1>6, <1>8, <1>12

----------------------------------------------------------------------------
(* What holds of the queue.                                                *)

Given == 0 .. next - 1

QInv ==
  /\ items \in Seq(Nat) /\ Heap(items) /\ IsInjective(items)
  /\ next \in 0 .. Cardinality(Indices) /\ entered \subseteq Indices
  /\ Given \subseteq entered /\ ToSet(items) = entered \ Given
  /\ result \in Indices \cup {NoItem, Done}

\* Where the queue finds the next item, and where it does not.
LEMMA HeadIsNext ==
  ASSUME QInv
  PROVE  /\ next \in ToSet(items) <=> ~(items = <<>> \/ Head(items) > next)
         /\ next \in ToSet(items) => Head(items) = next
<1>1. next \in Nat /\ items \in Seq(Nat) /\ Heap(items) /\ ToSet(items) = entered \ Given
  BY IndicesAssumption, FS_CardinalityType DEF QInv
<1>2. ASSUME next \in ToSet(items) PROVE ~(items = <<>> \/ Head(items) > next)
  BY <1>1, <1>2, HeadIsLeast
<1>3. ASSUME items # <<>>, ~(Head(items) > next) PROVE next \in ToSet(items) /\ Head(items) = next
  <2>1. Head(items) \in ToSet(items)
    BY <1>1, <1>3, EmptySeq, HeadTailProperties, LenProperties DEF ToSet
  <2>2. Head(items) \in Nat /\ Head(items) \notin Given
    BY <1>1, <2>1, HeadIsLeast
  <2>3. Head(items) = next
    BY <1>1, <1>3, <2>2 DEF Given
  <2>4. QED
    BY <2>1, <2>3
<1>4. QED
  BY <1>2, <1>3

LEMMA PushKeeps ==
  ASSUME QInv, NEW i \in Indices, Push(i)
  PROVE  QInv' /\ Promise!Put(i)
<1>1. /\ items \in Seq(Nat) /\ Heap(items) /\ IsInjective(items)
      /\ i \in Nat /\ i \notin entered /\ i \notin ToSet(items) /\ i \notin Given
  BY IndicesAssumption DEF QInv, Push
<1>2. /\ Append(items, i) \in Seq(Nat) /\ ToSet(Append(items, i)) = ToSet(items) \cup {i}
      /\ [list |-> Append(items, i), at |-> Len(items)] \in Rising(Append(items, i))
  BY <1>1, PushStarts
<1>3. Ordered(items', Append(items, i))
  <2>1. Ordered(Sifted(Rise, Append(items, i), Len(items)), Append(items, i))
    BY <1>2, SiftedUp
  <2>2. items' = Sifted(Rise, Append(items, i), Len(items))
    BY DEF Push
  <2>3. QED
    BY <2>1, <2>2, Zenon
<1>4. /\ items' \in Seq(Nat) /\ Heap(items') /\ IsInjective(items') /\ ToSet(items') = ToSet(items) \cup {i}
  BY <1>2, <1>3 DEF Ordered
<1>5. entered' = entered \cup {i} /\ next' = next /\ result' = Done
  BY DEF Push
<1>6. ToSet(items)' = ToSet(items) \cup {i} /\ Heap(items)' /\ IsInjective(items)'
  BY <1>4 DEF ToSet, Heap, IsInjective, Nth
<1>7. QInv'
  BY <1>1, <1>4, <1>5, <1>6 DEF QInv, Given
<1>8. Promise!Put(i)
  BY <1>1, <1>5, <1>6 DEF Promise!Put, Done
<1>9. QED
  BY <1>7, <1>8

LEMMA PopKeeps ==
  ASSUME QInv, Pop
  PROVE  QInv' /\ (Promise!Take \/ Promise!Miss)
<1>1. /\ items \in Seq(Nat) /\ Heap(items) /\ IsInjective(items)
      /\ Cardinality(Indices) \in Nat /\ next \in Nat
  BY IndicesAssumption, FS_CardinalityType DEF QInv
<1>2. CASE items = <<>> \/ Head(items) > next
  <2>1. next \notin ToSet(items)
    BY <1>2, HeadIsNext
  <2>2. result' = NoItem /\ UNCHANGED <<items, next, entered>>
    BY <1>2 DEF Pop
  <2>3. ToSet(items)' = ToSet(items) /\ (Heap(items)' <=> Heap(items)) /\ (IsInjective(items)' <=> IsInjective(items))
    BY <2>2 DEF ToSet, Heap, IsInjective, Nth
  <2>4. Promise!Miss
    BY <2>1, <2>2, <2>3 DEF Promise!Miss, NoItem
  <2>5. QInv'
    BY <2>2, <2>3 DEF QInv, Given
  <2>6. QED
    BY <2>4, <2>5
<1>3. CASE ~(items = <<>> \/ Head(items) > next)
  <2>1. next \in ToSet(items) /\ items # <<>>
    BY <1>3, HeadIsNext
  <2>2. Head(items) = next
    BY <2>1, HeadIsNext
  <2>3. result' = next /\ next' = next + 1 /\ entered' = entered
    BY <1>3, <2>2 DEF Pop
  <2>4. items' \in Seq(Nat) /\ Heap(items') /\ IsInjective(items') /\ ToSet(items') = ToSet(items) \ {next}
    <3>1. CASE Len(items) = 1
      <4>1. items' = <<>>
        BY <1>3, <3>1 DEF Pop
      <4>2. <<>> \in Seq(Nat) /\ Heap(<<>>) /\ IsInjective(<<>>) /\ ToSet(<<>>) = {}
        BY DEF Heap, IsInjective, ToSet
      <4>3. ToSet(items) = {next}
        BY <1>1, <2>1, <2>2, <3>1, LenProperties, HeadTailProperties DEF ToSet
      <4>4. QED
        BY <4>1, <4>2, <4>3
    <3>2. CASE Len(items) # 1
      <4>1. PICK rest : rest = <<Last(items)>> \o SubSeq(items, 2, Len(items) - 1)
        OBVIOUS
      <4>2. /\ rest \in Seq(Nat) /\ ToSet(rest) = ToSet(items) \ {Head(items)}
            /\ [list |-> rest, at |-> 0] \in Sinking(rest)
        BY <1>1, <2>1, <3>2, <4>1, PopStarts
      <4>3. Ordered(Sifted(Sink, rest, 0), rest)
        BY <4>2, SiftedDown
      <4>4. items' = Sifted(Sink, rest, 0)
        BY <1>3, <3>2, <4>1 DEF Pop
      <4>5. Ordered(items', rest)
        BY <4>3, <4>4, Zenon
      <4>6. QED
        BY <2>2, <4>2, <4>5 DEF Ordered
    <3>3. QED
      BY <3>1, <3>2
  <2>5. ToSet(items)' = ToSet(items) \ {next} /\ Heap(items)' /\ IsInjective(items)'
    BY <2>4 DEF ToSet, Heap, IsInjective, Nth
  <2>6. Promise!Take
    BY <2>1, <2>3, <2>5 DEF Promise!Take
  <2>7. QInv'
    <3>1. next \in entered /\ next \in Indices /\ next < Cardinality(Indices)
      <4>1. next \in entered /\ next \in Indices
        BY <2>1 DEF QInv
      <4>2. Indices = 0 .. Cardinality(Indices) - 1
        BY IndicesAssumption
      <4>3. next \in 0 .. Cardinality(Indices) - 1
        BY <4>1, <4>2, Zenon
      <4>4. QED
        BY <1>1, <4>1, <4>3
    <3>2. Given' = Given \cup {next}
      BY <1>1, <2>3 DEF Given
    <3>3. next' \in 0 .. Cardinality(Indices)
      BY <1>1, <2>3, <3>1
    <3>4. QED
      BY <2>3, <2>4, <2>5, <3>1, <3>2, <3>3 DEF QInv
  <2>8. QED
    BY <2>6, <2>7
<1>4. QED
  BY <1>2, <1>3

\* Every call keeps the heap and what it stands for.
LEMMA QInvHolds == QSpec => []QInv
<1>1. QInit => QInv
  <2>1. SUFFICES ASSUME QInit PROVE QInv
    OBVIOUS
  <2>2. items = <<>> /\ next = 0 /\ entered = {} /\ result = Done
    BY <2>1 DEF QInit
  <2>3. <<>> \in Seq(Nat) /\ Heap(<<>>) /\ IsInjective(<<>>) /\ ToSet(<<>>) = {} /\ 0 .. 0 - 1 = {}
    BY DEF Heap, IsInjective, ToSet
  <2>4. Cardinality(Indices) \in Nat
    BY IndicesAssumption, FS_CardinalityType
  <2>5. QED
    BY <2>2, <2>3, <2>4 DEF QInv, Given
<1>2. QInv /\ [QNext]_queueVars => QInv'
  <2>1. SUFFICES ASSUME QInv, [QNext]_queueVars PROVE QInv'
    OBVIOUS
  <2>2. CASE QNext
    BY <2>1, <2>2, PushKeeps, PopKeeps DEF QNext
  <2>3. CASE UNCHANGED queueVars
    BY <2>1, <2>3 DEF queueVars, QInv, Given, Heap, Nth, ToSet, IsInjective
  <2>4. QED
    BY <2>1, <2>2, <2>3
<1>3. QED
  BY <1>1, <1>2, PTL DEF QSpec

\* OrderedQueue: nothing the queue was not given, nothing twice, and nothing after it was given on.
THEOREM QueueTypeCorrect == QSpec => []QTypeOK
<1>1. QInv => QTypeOK
  BY DEF QInv, QTypeOK
<1>2. QED
  BY <1>1, QInvHolds, PTL

\* OrderedQueue.push, pop: whatever order the items come in, pop gives the next one as soon as
\* it is there, and nothing before.
THEOREM QueueKeepsPromise == QSpec => QueueImplements
<1>1. QInit => Promise!CInit
  BY DEF QInit, Promise!CInit, Done, ToSet
<1>2. QInv /\ [QNext]_queueVars => [Promise!CNext]_(Promise!consecutiveVars)
  <2>1. SUFFICES ASSUME QInv, [QNext]_queueVars PROVE [Promise!CNext]_(Promise!consecutiveVars)
    OBVIOUS
  <2>2. CASE QNext
    BY <2>1, <2>2, PushKeeps, PopKeeps DEF QNext, Promise!CNext
  <2>3. CASE UNCHANGED queueVars
    BY <2>3 DEF queueVars, Promise!consecutiveVars, ToSet
  <2>4. QED
    BY <2>1, <2>2, <2>3
<1>3. QED
  BY <1>1, <1>2, QInvHolds, PTL DEF QSpec, QueueImplements, Promise!CSpec

----------------------------------------------------------------------------
(* The raw streams.  First the longs in a tap.                             *)

Byte == 0..255
Taps == [arr : Seq(Byte), pos : Nat]

\* What was not read yet.
Unread(buffer) == SubSeq(buffer.arr, buffer.pos + 1, Len(buffer.arr))

\* The bytes from the position on.
LEMMA UnreadBytes ==
  ASSUME NEW t \in Taps
  PROVE  /\ t.arr \in Seq(Byte) /\ Len(t.arr) \in Nat /\ t.pos \in Nat
         /\ Unread(t) \in Seq(Byte) /\ Len(Unread(t)) \in Nat
         /\ t.pos <= Len(t.arr) => Len(Unread(t)) = Len(t.arr) - t.pos
         /\ \A i \in Nat : ByteAt(t, i) = (IF i < Len(Unread(t)) THEN Unread(t)[i + 1] ELSE 0)
         /\ \A i \in Nat : ByteAt(t, i) \in Byte
<1>1. t.arr \in Seq(Byte) /\ Len(t.arr) \in Nat /\ t.pos \in Nat
  BY LenProperties DEF Taps
<1>2. PICK a \in Seq(Byte) : a = t.arr
  BY <1>1
<1>3. PICK p \in Nat : p = t.pos
  BY <1>1
<1>4. PICK u : u = SubSeq(a, p + 1, Len(a))
  OBVIOUS
<1>5. u = Unread(t)
  BY <1>2, <1>3, <1>4 DEF Unread
<1>6. Len(a) \in Nat /\ \A i \in 1..Len(a) : a[i] \in Byte
  BY LenProperties, ElementOfSeq
<1>7. CASE p < Len(a)
  <2>1. u \in Seq(Byte) /\ Len(u) = Len(a) - p /\ \A i \in 1..Len(a) - p : u[i] = a[p + i]
    BY <1>4, <1>6, <1>7, SubSeqProperties
  <2>2. ASSUME NEW i \in Nat
        PROVE  ByteAt(t, i) = (IF i < Len(u) THEN u[i + 1] ELSE 0) /\ ByteAt(t, i) \in Byte
    <3>1. CASE p + i < Len(a)
      <4>1. i + 1 \in 1..Len(a) - p /\ p + i + 1 \in 1..Len(a) /\ p + (i + 1) = p + i + 1
        BY <1>6, <1>7, <3>1
      <4>2. u[i + 1] = a[p + i + 1] /\ a[p + i + 1] \in Byte /\ i < Len(u)
        BY <1>6, <2>1, <3>1, <4>1
      <4>3. ByteAt(t, i) = a[p + i + 1]
        BY <1>2, <1>3, <3>1 DEF ByteAt
      <4>4. QED
        BY <4>2, <4>3
    <3>2. CASE ~(p + i < Len(a))
      <4>1. ByteAt(t, i) = 0
        BY <1>2, <1>3, <3>2 DEF ByteAt
      <4>2. ~(i < Len(u)) /\ 0 \in Byte
        BY <1>6, <2>1, <3>2 DEF Byte
      <4>3. QED
        BY <4>1, <4>2
    <3>3. QED
      BY <3>1, <3>2
  <2>3. Len(u) \in Nat /\ Len(u) = Len(t.arr) - t.pos
    BY <1>2, <1>3, <1>6, <1>7, <2>1
  <2>4. QED
    BY <1>1, <1>5, <2>1, <2>2, <2>3
<1>8. CASE ~(p < Len(a))
  <2>1. u = <<>>
    BY <1>4, <1>6, <1>8, SubSeqEmpty
  <2>2. u \in Seq(Byte) /\ Len(u) = 0
    BY <2>1
  <2>3. p <= Len(a) => Len(u) = Len(a) - p
    BY <1>6, <1>8, <2>2
  <2>4. ASSUME NEW i \in Nat PROVE ByteAt(t, i) = 0
    <3>1. ~(p + i < Len(a))
      BY <1>6, <1>8
    <3>2. QED
      BY <1>2, <1>3, <3>1 DEF ByteAt
  <2>5. \A i \in Nat : ByteAt(t, i) = (IF i < Len(u) THEN u[i + 1] ELSE 0) /\ ByteAt(t, i) \in Byte
    BY <2>2, <2>4 DEF Byte
  <2>6. QED
    BY <1>1, <1>2, <1>3, <1>5, <2>2, <2>3, <2>5
<1>9. QED
  BY <1>7, <1>8

\* A long ends with the first byte below 128, at the latest with what is read behind the end.
LEMMA VarintEnds ==
  ASSUME NEW t \in Taps
  PROVE  /\ VarintLength(t) \in 1..Len(t.arr) + 1
         /\ ByteAt(t, VarintLength(t) - 1) < 128
         /\ \A i \in 0..VarintLength(t) - 2 : ByteAt(t, i) >= 128
<1>1. PICK m \in Nat : m = Len(t.arr)
  BY UnreadBytes
<1>2. t.pos \in Nat /\ \A i \in Nat : ByteAt(t, i) \in Byte
  BY UnreadBytes
<1> DEFINE Low == {n \in 1..m + 1 : ByteAt(t, n - 1) < 128}
<1>3. m + 1 \in Low
  <2>1. ByteAt(t, m + 1 - 1) = 0
    <3>1. m + 1 - 1 = m /\ ~(t.pos + m < m)
      BY <1>2
    <3>2. QED
      BY <1>1, <3>1 DEF ByteAt
  <2>2. QED
    BY <2>1
<1>4. PICK n \in Low : \A k \in Low : n <= k
  <2>1. Low \in SUBSET Nat
    OBVIOUS
  <2> HIDE DEF Low
  <2>2. QED
    BY <1>3, <2>1, LeastNumber
<1>5. \A i \in 0..n - 2 : ByteAt(t, i) >= 128
  <2>1. SUFFICES ASSUME NEW i \in 0..n - 2 PROVE ByteAt(t, i) >= 128
    OBVIOUS
  <2>2. i \in Nat /\ i + 1 \in 1..m + 1 /\ i + 1 < n /\ i + 1 - 1 = i
    BY <1>4
  <2>3. i + 1 \notin Low
    <3> HIDE DEF Low
    <3>1. i + 1 \in Low => n <= i + 1
      BY <1>4
    <3>2. n \in Nat
      BY <1>4 DEF Low
    <3>3. QED
      BY <2>2, <3>1, <3>2
  <2>4. ByteAt(t, i) \in Byte
    BY <1>2, <2>2
  <2>5. QED
    BY <2>2, <2>3, <2>4 DEF Byte
<1>6. n \in 1..Len(t.arr) + 1 /\ ByteAt(t, n - 1) < 128
  BY <1>1, <1>4
<1> HIDE DEF Low
<1>7. QED
  BY <1>5, <1>6 DEF VarintLength

\* A long is read forwards, valid or not.
LEMMA ReadMoves ==
  ASSUME NEW t \in Taps
  PROVE  /\ ReadLong(t).tap \in Taps /\ ReadLong(t).tap.arr = t.arr
         /\ ReadLong(t).tap.pos = t.pos + VarintLength(t) /\ ReadLong(t).tap.pos > t.pos
<1>1. t.arr \in Seq(Byte) /\ Len(t.arr) \in Nat /\ t.pos \in Nat /\ DOMAIN t = {"arr", "pos"}
  BY UnreadBytes DEF Taps
<1>2. PICK n \in Nat : n = VarintLength(t) /\ n > 0
  BY <1>1, VarintEnds
<1>3. Len(Bytes(t, n)) = n
  <2>1. PICK b : b = Bytes(t, n)
    OBVIOUS
  <2>2. b = [i \in 1..n |-> ByteAt(t, i - 1)]
    BY <2>1 DEF Bytes
  <2>3. \A i \in 1..n : ByteAt(t, i - 1) \in Byte
    BY UnreadBytes
  <2>4. b \in [1..n -> Byte]
    BY <2>2, <2>3
  <2>5. QED
    BY <2>1, <2>4, LenProperties
<1>4. ReadLong(t).tap = Moved(t, n)
  BY <1>2, <1>3 DEF ReadLong, Got
<1>5. Moved(t, n) = [arr |-> t.arr, pos |-> t.pos + n]
  BY <1>1 DEF Moved, Taps
<1>6. QED
  BY <1>1, <1>2, <1>4, <1>5 DEF Taps

\* Of a tap of which the end was passed nothing is read that is valid.
LEMMA InvalidStays ==
  ASSUME NEW t \in Taps, ~IsValid(t)
  PROVE  ~IsValid(ReadLong(t).tap)
<1>1. t.pos \in Nat /\ Len(t.arr) \in Nat
  BY UnreadBytes
<1>2. ReadLong(t).tap.pos > t.pos /\ ReadLong(t).tap.arr = t.arr /\ ReadLong(t).tap.pos \in Nat
  BY ReadMoves DEF Taps
<1>3. QED
  BY <1>1, <1>2 DEF IsValid

\* The values of the digits, from each of them on.
Weighed(f, list, m) ==
  /\ f[m + 1] = 0
  /\ \A i \in 1..m : f[i] = (list[i] % 128) + 128 * f[i + 1]

Weights(f, list, m) == f = [i \in 1..m + 1 |-> IF i > m THEN 0 ELSE (list[i] % 128) + 128 * f[i + 1]]

LEMMA WeightsExist ==
  ASSUME NEW list, NEW m \in Nat
  PROVE  \E f : Weights(f, list, m)
<1> DEFINE Good(f, n) == f = [i \in m + 1 - n .. m + 1 |-> IF i > m THEN 0 ELSE (list[i] % 128) + 128 * f[i + 1]]
           T == {n \in Nat : \E f : Good(f, n)}
<1>1. 0 \in T
  <2> DEFINE e == [i \in m + 1 - 0 .. m + 1 |-> 0]
  <2>1. \A i \in m + 1 - 0 .. m + 1 : i > m
    OBVIOUS
  <2>2. Good(e, 0)
    BY <2>1
  <2>3. QED
    BY <2>2
<1>2. ASSUME NEW n \in 0..m - 1, n \in T PROVE n + 1 \in T
  <2>1. PICK f : Good(f, n)
    BY <1>2
  <2>2. n \in Nat
    OBVIOUS
  <2>3. PICK p \in Nat : p = m - n
    BY <2>2
  <2>4. p \in 1..m /\ m + 1 - n = p + 1 /\ m + 1 - (n + 1) = p
    BY <2>2, <2>3
  <2> DEFINE g == [i \in p .. m + 1 |-> IF i = p THEN (list[p] % 128) + 128 * f[p + 1] ELSE f[i]]
  <2>5. ASSUME NEW i \in p .. m + 1
        PROVE  g[i] = IF i > m THEN 0 ELSE (list[i] % 128) + 128 * g[i + 1]
    <3>1. CASE i = p
      <4>1. p + 1 \in p .. m + 1 /\ p + 1 # p /\ ~(p > m)
        BY <2>4
      <4>2. g[p + 1] = f[p + 1]
        BY <4>1
      <4>3. g[p] = (list[p] % 128) + 128 * f[p + 1]
        BY <2>4
      <4> HIDE DEF g
      <4>4. QED
        BY <3>1, <4>1, <4>2, <4>3
    <3>2. CASE i # p
      <4>1. i \in p + 1 .. m + 1
        BY <2>4, <3>2
      <4>2. g[i] = f[i]
        BY <3>2
      <4>3. f[i] = IF i > m THEN 0 ELSE (list[i] % 128) + 128 * f[i + 1]
        BY <2>1, <2>4, <4>1
      <4>4. ~(i > m) => i + 1 \in p .. m + 1 /\ i + 1 # p
        BY <2>4, <4>1
      <4>5. ~(i > m) => g[i + 1] = f[i + 1]
        BY <4>4
      <4> HIDE DEF g
      <4>6. QED
        BY <4>2, <4>3, <4>5
    <3>3. QED
      BY <3>1, <3>2
  <2>6. g = [i \in p .. m + 1 |-> g[i]]
    OBVIOUS
  <2> HIDE DEF g
  <2>7. g = [i \in p .. m + 1 |-> IF i > m THEN 0 ELSE (list[i] % 128) + 128 * g[i + 1]]
    BY <2>5, <2>6
  <2>8. Good(g, n + 1)
    BY <2>4, <2>7
  <2>9. \E h : Good(h, n + 1)
    BY <2>8, Zenon
  <2> HIDE DEF Good
  <2>10. QED
    BY <2>2, <2>9
<1>3. m \in T
  <2> HIDE DEF T
  <2>1. 0..m \subseteq T
    BY <1>1, <1>2, Upwards
  <2>2. QED
    BY <2>1
<1>4. PICK f : f = [i \in m + 1 - m .. m + 1 |-> IF i > m THEN 0 ELSE (list[i] % 128) + 128 * f[i + 1]]
  BY <1>3
<1>5. m + 1 - m = 1
  OBVIOUS
<1>6. QED
  BY <1>4, <1>5 DEF Weights

LEMMA NumberWeighs ==
  ASSUME NEW list, Len(list) \in Nat
  PROVE  \E f : Weighed(f, list, Len(list)) /\ NumberOf(list) = f[1]
<1> DEFINE m == Len(list)
           f == CHOOSE g : g = [i \in 1..m + 1 |-> IF i > m THEN 0 ELSE (list[i] % 128) + 128 * g[i + 1]]
<1>1. NumberOf(list) = f[1]
  BY DEF NumberOf
<1>2. \E g : g = [i \in 1..m + 1 |-> IF i > m THEN 0 ELSE (list[i] % 128) + 128 * g[i + 1]]
  <2> HIDE DEF m
  <2>1. m \in Nat
    BY DEF m
  <2>2. \E g : Weights(g, list, m)
    BY <2>1, WeightsExist
  <2>3. QED
    BY <2>2, Zenon DEF Weights
<1>3. f = [i \in 1..m + 1 |-> IF i > m THEN 0 ELSE (list[i] % 128) + 128 * f[i + 1]]
  BY <1>2
<1> HIDE DEF f
<1>4. m \in Nat
  OBVIOUS
<1> HIDE DEF m
<1>5. f[m + 1] = 0
  <2>1. m + 1 \in 1..m + 1 /\ m + 1 > m
    BY <1>4
  <2>2. QED
    BY <1>3, <2>1
<1>6. \A i \in 1..m : f[i] = (list[i] % 128) + 128 * f[i + 1]
  <2>1. \A i \in 1..m : i \in 1..m + 1 /\ ~(i > m)
    BY <1>4
  <2>2. QED
    BY <1>3, <2>1
<1>7. QED
  BY <1>1, <1>5, <1>6 DEF Weighed, m

\* The numbers whose digits are written.
Codes == {n \in Nat : n < 2147483648}

\* Which digit is the last.
LEMMA DigitCount ==
  ASSUME NEW n \in Codes
  PROVE  \E k \in 1..5 :
           /\ n \div PlaceValue[k] \in 0..127
           /\ Digits(n) = [i \in 1..k |-> ((n \div PlaceValue[i]) % 128) + (IF i < k THEN 128 ELSE 0)]
<1> DEFINE Fits(k) == (k > 1 => n >= PlaceValue[k]) /\ \A j \in k + 1 .. 5 : n < PlaceValue[j]
<1>0. n \in Nat
  BY DEF Codes
<1>1. /\ PlaceValue[1] = 1 /\ PlaceValue[2] = 128 /\ PlaceValue[3] = 16384
      /\ PlaceValue[4] = 2097152 /\ PlaceValue[5] = 268435456
  BY DEF PlaceValue
<1>2. \E k \in 1..5 : Fits(k)
  <2>1. CASE n < 128
    <3>1. Fits(1)
      BY <1>0, <1>1, <2>1
    <3>2. QED
      BY <3>1
  <2>2. CASE n >= 128 /\ n < 16384
    <3>1. Fits(2)
      BY <1>0, <1>1, <2>2
    <3>2. QED
      BY <3>1
  <2>3. CASE n >= 16384 /\ n < 2097152
    <3>1. Fits(3)
      BY <1>0, <1>1, <2>3
    <3>2. QED
      BY <3>1
  <2>4. CASE n >= 2097152 /\ n < 268435456
    <3>1. Fits(4)
      BY <1>0, <1>1, <2>4
    <3>2. QED
      BY <3>1
  <2>5. CASE n >= 268435456
    <3>1. Fits(5)
      BY <1>0, <1>1, <2>5
    <3>2. QED
      BY <3>1
  <2>6. QED
    BY <1>0, <2>1, <2>2, <2>3, <2>4, <2>5
<1>3. PICK k : k = CHOOSE j \in 1..5 : Fits(j)
  OBVIOUS
<1>4. k \in 1..5 /\ Fits(k)
  BY <1>2, <1>3
<1>5. Digits(n) = [i \in 1..k |-> ((n \div PlaceValue[i]) % 128) + (IF i < k THEN 128 ELSE 0)]
  BY <1>3 DEF Digits
<1>6. n \div PlaceValue[k] \in 0..127
  <2>1. k = 1 \/ k = 2 \/ k = 3 \/ k = 4 \/ k = 5
    BY <1>4
  <2>2. CASE k = 1
    BY <1>0, <1>1, <1>4, <2>2
  <2>3. CASE k = 2
    BY <1>0, <1>1, <1>4, <2>3
  <2>4. CASE k = 3
    BY <1>0, <1>1, <1>4, <2>4
  <2>5. CASE k = 4
    BY <1>0, <1>1, <1>4, <2>5
  <2>6. CASE k = 5
    BY <1>1, <2>6 DEF Codes
  <2>7. QED
    BY <2>1, <2>2, <2>3, <2>4, <2>5, <2>6
<1> HIDE DEF Fits
<1>7. QED
  BY <1>4, <1>5, <1>6

\* Each place is worth 128 of the place before.
LEMMA Quotients ==
  ASSUME NEW n \in Codes
  PROVE  /\ n \div PlaceValue[1] = n
         /\ \A i \in 1..5 : n \div PlaceValue[i] \in Nat
         /\ \A i \in 1..4 : n \div PlaceValue[i + 1] = (n \div PlaceValue[i]) \div 128
<1>0. n \in Nat
  BY DEF Codes
<1>1. /\ PlaceValue[1] = 1 /\ PlaceValue[2] = 128 /\ PlaceValue[3] = 16384
      /\ PlaceValue[4] = 2097152 /\ PlaceValue[5] = 268435456
  BY DEF PlaceValue
<1>2. n \div 1 = n
  BY <1>0
<1>3. n \div 128 = (n \div 1) \div 128
  BY <1>0
<1>4. n \div 16384 = (n \div 128) \div 128
  BY <1>0
<1>5. n \div 2097152 = (n \div 16384) \div 128
  BY <1>0
<1>6. n \div 268435456 = (n \div 2097152) \div 128
  BY <1>0
<1>7. \A i \in 1..4 : n \div PlaceValue[i + 1] = (n \div PlaceValue[i]) \div 128
  <2>1. SUFFICES ASSUME NEW i \in 1..4 PROVE n \div PlaceValue[i + 1] = (n \div PlaceValue[i]) \div 128
    OBVIOUS
  <2>2. i = 1 \/ i = 2 \/ i = 3 \/ i = 4
    OBVIOUS
  <2>3. CASE i = 1
    BY <1>1, <1>3, <2>3
  <2>4. CASE i = 2
    BY <1>1, <1>4, <2>4
  <2>5. CASE i = 3
    BY <1>1, <1>5, <2>5
  <2>6. CASE i = 4
    BY <1>1, <1>6, <2>6
  <2>7. QED
    BY <2>2, <2>3, <2>4, <2>5, <2>6
<1>8. \A i \in 1..5 : n \div PlaceValue[i] \in Nat
  <2>1. SUFFICES ASSUME NEW i \in 1..5 PROVE n \div PlaceValue[i] \in Nat
    OBVIOUS
  <2>2. PlaceValue[i] \in {1, 128, 16384, 2097152, 268435456}
    BY <1>1
  <2>3. QED
    BY <1>0, <2>2
<1>9. QED
  BY <1>1, <1>2, <1>7, <1>8

\* The code of a number: all digits but the last have their high bit set, and they make the
\* number again.
LEMMA DigitsMakeNumber ==
  ASSUME NEW n \in Codes
  PROVE  /\ Digits(n) \in Seq(Byte) /\ Len(Digits(n)) \in Nat \ {0}
         /\ Digits(n)[Len(Digits(n))] < 128
         /\ \A i \in 1..Len(Digits(n)) - 1 : Digits(n)[i] >= 128
         /\ NumberOf(Digits(n)) = n
<1>1. PICK d : d = Digits(n)
  OBVIOUS
<1>2. PICK k \in 1..5 :
        /\ n \div PlaceValue[k] \in 0..127
        /\ d = [i \in 1..k |-> ((n \div PlaceValue[i]) % 128) + (IF i < k THEN 128 ELSE 0)]
  BY <1>1, DigitCount
<1>3. PICK q : q = [i \in 1..5 |-> n \div PlaceValue[i]]
  OBVIOUS
<1>4. /\ q[1] = n /\ q[k] \in 0..127
      /\ \A i \in 1..5 : q[i] \in Nat
      /\ \A i \in 1..4 : q[i + 1] = q[i] \div 128
  <2>1. \A i \in 1..5 : q[i] = n \div PlaceValue[i]
    BY <1>3
  <2>2. \A i \in 1..4 : i \in 1..5 /\ i + 1 \in 1..5
    OBVIOUS
  <2>3. q[1] = n /\ \A i \in 1..5 : q[i] \in Nat
    BY <2>1, Quotients
  <2>4. \A i \in 1..4 : q[i + 1] = q[i] \div 128
    BY <2>1, <2>2, Quotients
  <2>5. q[k] \in 0..127
    BY <1>2, <2>1
  <2>6. QED
    BY <2>3, <2>4, <2>5
<1>5. \A i \in 1..k : d[i] = (q[i] % 128) + (IF i < k THEN 128 ELSE 0)
  <2>1. \A i \in 1..k : i \in 1..5
    OBVIOUS
  <2>2. \A i \in 1..k : q[i] = n \div PlaceValue[i]
    BY <1>3, <2>1
  <2>3. QED
    BY <1>2, <2>2
<1>6. \A i \in 1..k : d[i] \in Byte /\ d[i] % 128 = q[i] % 128 /\ (i < k => d[i] >= 128) /\ (i = k => d[i] < 128)
  <2>1. SUFFICES ASSUME NEW i \in 1..k
                 PROVE  d[i] \in Byte /\ d[i] % 128 = q[i] % 128 /\ (i < k => d[i] >= 128) /\ (i = k => d[i] < 128)
    OBVIOUS
  <2>2. i \in 1..5 /\ q[i] \in Nat
    BY <1>4
  <2>3. PICK r \in 0..127 : r = q[i] % 128
    BY <2>2
  <2>4. d[i] = r + (IF i < k THEN 128 ELSE 0)
    BY <1>5, <2>3
  <2>5. r % 128 = r /\ (r + 128) % 128 = r
    OBVIOUS
  <2>6. CASE i < k
    BY <2>3, <2>4, <2>5, <2>6 DEF Byte
  <2>7. CASE ~(i < k)
    BY <2>3, <2>4, <2>5, <2>7 DEF Byte
  <2>8. QED
    BY <2>6, <2>7
<1>7. d \in Seq(Byte) /\ Len(d) = k
  <2>1. d = [i \in 1..k |-> d[i]]
    BY <1>2
  <2>2. d \in [1..k -> Byte]
    BY <1>6, <2>1
  <2>3. k \in Nat
    OBVIOUS
  <2>4. QED
    BY <2>2, <2>3, LenProperties
<1>8. PICK f : Weighed(f, d, k) /\ NumberOf(d) = f[1]
  <2>1. Len(d) \in Nat
    BY <1>7
  <2>2. QED
    BY <1>7, <2>1, NumberWeighs
<1> DEFINE T == {j \in Nat : j < k => f[k - j] = q[k - j]}
<1>9. 0 \in T
  <2>1. f[k] = (d[k] % 128) + 128 * f[k + 1] /\ f[k + 1] = 0 /\ k \in 1..k
    BY <1>8 DEF Weighed
  <2>2. d[k] % 128 = q[k] % 128
    BY <1>6, <2>1
  <2>3. q[k] % 128 = q[k]
    BY <1>4
  <2>4. f[k] = q[k]
    BY <1>4, <2>1, <2>2, <2>3
  <2>5. k - 0 = k
    OBVIOUS
  <2>6. QED
    BY <2>4, <2>5
<1>10. ASSUME NEW j \in 0..k - 1, j \in T PROVE j + 1 \in T
  <2>1. SUFFICES ASSUME j + 1 < k PROVE f[k - (j + 1)] = q[k - (j + 1)]
    BY <1>10
  <2>2. PICK i \in Nat : i = k - (j + 1)
    BY <2>1
  <2>3. i \in 1..4 /\ i \in 1..k /\ i \in 1..5 /\ i + 1 \in 1..5 /\ i + 1 = k - j
    BY <2>1, <2>2
  <2>4. f[i + 1] = q[i + 1] /\ q[i] \in Nat /\ q[i + 1] = q[i] \div 128
    BY <1>4, <1>10, <2>3
  <2>5. f[i] = (d[i] % 128) + 128 * f[i + 1] /\ d[i] % 128 = q[i] % 128
    BY <1>6, <1>8, <2>3 DEF Weighed
  <2>6. PICK a \in Nat : a = q[i]
    BY <2>4
  <2>7. a = (a % 128) + 128 * (a \div 128)
    BY <2>6
  <2>8. f[i] = q[i]
    BY <2>4, <2>5, <2>6, <2>7
  <2>9. QED
    BY <2>2, <2>8
<1>11. f[1] = n
  <2> HIDE DEF T
  <2>1. 0..k - 1 \subseteq T
    <3>1. k - 1 \in Nat /\ \A j \in 0..k - 1 - 1 : j \in 0..k - 1
      OBVIOUS
    <3>2. QED
      BY <1>9, <1>10, <3>1, Upwards
  <2>2. k - 1 \in 0..k - 1 /\ k - 1 < k /\ k - (k - 1) = 1
    OBVIOUS
  <2>3. k - 1 \in T
    BY <2>1, <2>2
  <2>4. f[1] = q[1]
    BY <2>2, <2>3 DEF T
  <2>5. QED
    BY <1>4, <2>4
<1> HIDE DEF T
<1>12. k \in Nat \ {0} /\ k \in 1..k /\ \A i \in 1..k - 1 : i \in 1..k /\ i < k
  OBVIOUS
<1>13. QED
  BY <1>1, <1>6, <1>7, <1>8, <1>11, <1>12

\* The two halves of the zigzag: a long and its number.
LEMMA ZigzagsBack ==
  ASSUME NEW n \in SmallLongs
  PROVE  /\ Zigzag(n) \in Codes
         /\ n = IF Zigzag(n) % 2 = 0 THEN Zigzag(n) \div 2 ELSE -((Zigzag(n) + 1) \div 2)
<1>1. n \in Int /\ n >= -1073741824 /\ n < 1073741824
  <2>1. LongLimit \in Nat
    BY SMT DEF LongLimit
  <2>2. n \in Int /\ n >= -LongLimit /\ n < LongLimit
    BY <2>1 DEF SmallLongs
  <2>3. LongLimit = 1073741824
    BY SMT DEF LongLimit
  <2>4. QED
    BY <2>2, <2>3, SMT
<1>2. CASE n >= 0
  <2>1. Zigzag(n) = 2 * n
    BY <1>2 DEF Zigzag
  <2>2. (2 * n) % 2 = 0 /\ (2 * n) \div 2 = n
    BY <1>1
  <2>3. QED
    BY <1>1, <1>2, <2>1, <2>2 DEF Codes
<1>3. CASE ~(n >= 0)
  <2>1. Zigzag(n) = -2 * n - 1
    BY <1>3 DEF Zigzag
  <2>2. (-2 * n - 1) % 2 = 1 /\ (-2 * n - 1 + 1) \div 2 = -n
    BY <1>1
  <2>3. QED
    BY <1>1, <1>3, <2>1, <2>2 DEF Codes
<1>4. QED
  BY <1>2, <1>3

\* A tap that was moved on holds the rest of what was not read.
LEMMA UnreadMoved ==
  ASSUME NEW t \in Taps, NEW u \in Taps, NEW k \in Nat, u.arr = t.arr, u.pos = t.pos + k, u.pos <= Len(t.arr)
  PROVE  Unread(u) = SubSeq(Unread(t), k + 1, Len(Unread(t)))
<1>1. PICK a \in Seq(Byte) : a = t.arr
  BY UnreadBytes
<1>2. PICK p \in Nat : p = t.pos
  BY UnreadBytes
<1>3. PICK m \in Nat : m = Len(a)
  BY LenProperties
<1>4. p + k <= m
  BY <1>1, <1>2, <1>3
<1>5. PICK w : w = SubSeq(a, p + 1, m)
  OBVIOUS
<1>6. PICK v : v = SubSeq(a, p + k + 1, m)
  OBVIOUS
<1>7. Unread(t) = w
  BY <1>1, <1>2, <1>3, <1>5 DEF Unread
<1>8. Unread(u) = v
  <2>1. u.pos = p + k
    BY <1>2
  <2>2. QED
    BY <1>1, <1>3, <1>6, <2>1 DEF Unread
<1>9. \A i \in 1..m : a[i] \in Byte
  BY <1>3, ElementOfSeq
<1>10. w \in Seq(Byte) /\ Len(w) = m - p /\ \A i \in 1..m - p : w[i] = a[p + i]
  <2>1. \A i \in p + 1 .. m : a[i] \in Byte
    BY <1>9
  <2>2. p + 1 \in Int /\ m \in Int /\ m - (p + 1) + 1 = m - p /\ p + 1 <= m + 1 /\ \A i \in 1..m - p : p + 1 + i - 1 = p + i
    BY <1>4
  <2>3. QED
    BY <1>3, <1>5, <2>1, <2>2, SubSeqProperties
<1>11. v \in Seq(Byte) /\ Len(v) = m - p - k /\ \A i \in 1..m - p - k : v[i] = a[p + k + i]
  <2>1. \A i \in p + k + 1 .. m : a[i] \in Byte
    BY <1>9
  <2>2. p + k + 1 \in Int /\ p + k + 1 <= m + 1
    BY <1>4
  <2>3. QED
    BY <1>3, <1>6, <2>1, <2>2, SubSeqProperties
<1>12. PICK s : s = SubSeq(w, k + 1, m - p)
  OBVIOUS
<1>13. s \in Seq(Byte) /\ Len(s) = m - p - k /\ \A i \in 1..m - p - k : s[i] = w[k + i]
  <2>1. \A i \in 1..m - p : w[i] \in Byte
    BY <1>10, ElementOfSeq
  <2>2. k + 1 \in Int /\ m - p \in Int /\ k + 1 <= m - p + 1
    BY <1>4
  <2>3. QED
    BY <1>4, <1>10, <1>12, <2>1, <2>2, SubSeqProperties
<1>14. \A i \in 1..m - p - k : s[i] = v[i]
  <2>1. SUFFICES ASSUME NEW i \in 1..m - p - k PROVE s[i] = v[i]
    OBVIOUS
  <2>2. k + i \in 1..m - p /\ p + (k + i) = p + k + i
    BY <1>4
  <2>3. QED
    BY <1>10, <1>11, <1>13, <2>2
<1>15. s = v
  <2>1. Len(s) = Len(v)
    BY <1>11, <1>13
  <2>2. \A i \in 1..Len(s) : s[i] = v[i]
    BY <1>13, <1>14
  <2>3. QED
    BY <1>11, <1>13, <2>1, <2>2, SeqEqual
<1>16. QED
  BY <1>7, <1>8, <1>10, <1>12, <1>15

\* Two ways to cut the same bytes agree where they overlap.
LEMMA SameBytes ==
  ASSUME NEW a \in Seq(Byte), NEW r \in Seq(Byte), NEW p \in Seq(Byte), NEW t \in Seq(Byte), Cuts(a, r, p, t),
         NEW i \in Nat, i < Len(a), i < Len(p)
  PROVE  a[i + 1] = p[i + 1]
<1>1. Len(a) \in Nat /\ Len(p) \in Nat /\ Len(r) \in Nat /\ Len(t) \in Nat
  BY LenProperties
<1>2. \A j \in 1..Len(a) + Len(r) : (a \o r)[j] = IF j <= Len(a) THEN a[j] ELSE r[j - Len(a)]
  BY ConcatProperties
<1>3. \A j \in 1..Len(p) + Len(t) : (p \o t)[j] = IF j <= Len(p) THEN p[j] ELSE t[j - Len(p)]
  BY ConcatProperties
<1>4. i + 1 \in 1..Len(a) + Len(r) /\ i + 1 <= Len(a) /\ i + 1 \in 1..Len(p) + Len(t) /\ i + 1 <= Len(p)
  BY <1>1
<1>5. (a \o r)[i + 1] = a[i + 1] /\ (p \o t)[i + 1] = p[i + 1]
  BY <1>2, <1>3, <1>4
<1>6. QED
  BY <1>5 DEF Cuts

\* The bytes of a long.
Code(n) == Digits(Zigzag(n))

LEMMA CodeBytes ==
  ASSUME NEW n \in SmallLongs
  PROVE  /\ Code(n) \in Seq(Byte) /\ Len(Code(n)) \in Nat \ {0}
         /\ Code(n)[Len(Code(n))] < 128
         /\ \A i \in 1..Len(Code(n)) - 1 : Code(n)[i] >= 128
         /\ n = IF NumberOf(Code(n)) % 2 = 0 THEN NumberOf(Code(n)) \div 2 ELSE -((NumberOf(Code(n)) + 1) \div 2)
<1>1. PICK z \in Codes : z = Zigzag(n) /\ n = IF z % 2 = 0 THEN z \div 2 ELSE -((z + 1) \div 2)
  BY ZigzagsBack
<1>2. NumberOf(Digits(z)) = z
  BY DigitsMakeNumber
<1>3. QED
  BY <1>1, <1>2, DigitsMakeNumber DEF Code

\* A long that was written is read again: as soon as all its bytes are there, and before that
\* what is read is not valid.
THEOREM LongReadsBack ==
  ASSUME NEW t \in Taps, IsValid(t), NEW n \in SmallLongs, NEW more \in Seq(Byte), NEW rest \in Seq(Byte),
         Cuts(Unread(t), more, Code(n), rest)
  PROVE  /\ Len(Unread(t)) >= Len(Code(n)) =>
              /\ ReadLong(t).val = n /\ IsValid(ReadLong(t).tap)
              /\ Cuts(Unread(ReadLong(t).tap), more, <<>>, rest)
         /\ Len(Unread(t)) < Len(Code(n)) => ~IsValid(ReadLong(t).tap)
<1>1. PICK u \in Seq(Byte) : u = Unread(t)
  BY UnreadBytes
<1>2. PICK c \in Seq(Byte) : c = Code(n)
  BY CodeBytes
<1>3. Len(u) \in Nat /\ Len(c) \in Nat \ {0} /\ Len(t.arr) \in Nat /\ t.pos \in Nat /\ Len(u) = Len(t.arr) - t.pos
  <2>1. t.pos <= Len(t.arr)
    BY DEF IsValid
  <2>2. QED
    BY <1>1, <1>2, <2>1, UnreadBytes, CodeBytes
<1>4. PICK m \in Nat : m = VarintLength(t) /\ m >= 1 /\ m <= Len(t.arr) + 1
  BY <1>3, VarintEnds
<1>5. ByteAt(t, m - 1) < 128 /\ \A i \in 0..m - 2 : ByteAt(t, i) >= 128
  BY <1>4, VarintEnds
<1>6. \A i \in Nat : i < Len(u) => ByteAt(t, i) = u[i + 1]
  BY <1>1, UnreadBytes
<1>7. \A i \in Nat : i < Len(u) /\ i < Len(c) => u[i + 1] = c[i + 1]
  <2>1. Cuts(u, more, c, rest)
    BY <1>1, <1>2
  <2>2. QED
    BY <2>1, SameBytes
<1>8. c[Len(c)] < 128 /\ \A i \in 1..Len(c) - 1 : c[i] >= 128
  BY <1>2, CodeBytes
<1>9. PICK after \in Taps : after = ReadLong(t).tap /\ after.arr = t.arr /\ after.pos = t.pos + m
  BY <1>4, ReadMoves
<1>10. CASE Len(u) >= Len(c)
  <2>1. m = Len(c)
    <3>1. ASSUME m < Len(c) PROVE FALSE
      <4>1. m - 1 \in Nat /\ m - 1 < Len(u) /\ m - 1 < Len(c) /\ m - 1 + 1 = m /\ m \in 1..Len(c) - 1
        BY <1>3, <1>4, <1>10, <3>1
      <4>2. ByteAt(t, m - 1) = c[m]
        BY <1>6, <1>7, <4>1
      <4>3. c[m] \in Byte /\ c[m] >= 128
        BY <1>8, <4>1, ElementOfSeq
      <4>4. c[m] < 128
        BY <1>5, <4>2
      <4>5. \A x \in Byte : ~(x < 128 /\ x >= 128)
        BY DEF Byte
      <4>6. QED
        BY <4>3, <4>4, <4>5
    <3>2. ASSUME m > Len(c) PROVE FALSE
      <4>1. PICK l \in Nat : l = Len(c) /\ l - 1 \in Nat /\ l - 1 + 1 = l /\ l - 1 < Len(u) /\ l - 1 < Len(c) /\ l - 1 \in 0..m - 2
        BY <1>3, <1>10, <3>2
      <4>2. ByteAt(t, l - 1) = c[l]
        BY <1>6, <1>7, <4>1
      <4>3. c[l] \in Byte
        BY <1>3, <4>1, ElementOfSeq
      <4>4. c[l] < 128 /\ ByteAt(t, l - 1) >= 128
        BY <1>5, <1>8, <4>1
      <4>5. \A x \in Byte : ~(x < 128 /\ x >= 128)
        BY DEF Byte
      <4>6. QED
        BY <4>2, <4>3, <4>4, <4>5
    <3>3. QED
      BY <1>3, <3>1, <3>2
  <2>2. Bytes(t, m) = c
    <3>1. PICK b : b = Bytes(t, m)
      OBVIOUS
    <3>2. b = [i \in 1..m |-> ByteAt(t, i - 1)]
      BY <3>1 DEF Bytes
    <3>3. ASSUME NEW i \in 1..m PROVE ByteAt(t, i - 1) = c[i] /\ c[i] \in Byte
      <4>1. i - 1 \in Nat /\ i - 1 + 1 = i /\ i - 1 < Len(u) /\ i - 1 < Len(c)
        BY <1>3, <1>10, <2>1
      <4>2. c[i] \in Byte
        BY <2>1, ElementOfSeq
      <4>3. QED
        BY <1>6, <1>7, <4>1, <4>2
    <3>4. b \in [1..m -> Byte]
      BY <3>2, <3>3
    <3>5. b \in Seq(Byte) /\ Len(b) = m
      BY <3>4, LenProperties
    <3>6. \A i \in 1..Len(b) : b[i] = c[i]
      BY <3>2, <3>3, <3>5
    <3>7. QED
      BY <2>1, <3>1, <3>5, <3>6, SeqEqual
  <2>3. ReadLong(t).val = n
    <3>1. n = IF NumberOf(c) % 2 = 0 THEN NumberOf(c) \div 2 ELSE -((NumberOf(c) + 1) \div 2)
      BY <1>2, CodeBytes
    <3>2. QED
      BY <1>4, <2>2, <3>1 DEF ReadLong, Got
  <2>4. after.pos <= Len(t.arr)
    BY <1>3, <1>9, <1>10, <2>1
  <2>5. IsValid(after)
    BY <1>9, <2>4 DEF IsValid
  <2>6. Unread(after) = SubSeq(u, Len(c) + 1, Len(u))
    BY <1>1, <1>9, <2>1, <2>4, UnreadMoved
  <2>7. Cuts(SubSeq(u, Len(c) + 1, Len(u)), more, <<>>, rest)
    <3>1. Cuts(u, more, c, rest)
      BY <1>1, <1>2
    <3>2. QED
      BY <1>10, <3>1, ReadOff
  <2>8. QED
    BY <1>1, <1>2, <1>3, <1>9, <1>10, <2>3, <2>5, <2>6, <2>7
<1>11. CASE Len(u) < Len(c)
  <2>1. m > Len(u)
    <3>1. ASSUME m <= Len(u) PROVE FALSE
      <4>1. m - 1 \in Nat /\ m - 1 < Len(u) /\ m - 1 < Len(c) /\ m - 1 + 1 = m /\ m \in 1..Len(c) - 1
        BY <1>3, <1>4, <1>11, <3>1
      <4>2. ByteAt(t, m - 1) = c[m]
        BY <1>6, <1>7, <4>1
      <4>3. c[m] \in Byte /\ c[m] >= 128
        BY <1>8, <4>1, ElementOfSeq
      <4>4. c[m] < 128
        BY <1>5, <4>2
      <4>5. \A x \in Byte : ~(x < 128 /\ x >= 128)
        BY DEF Byte
      <4>6. QED
        BY <4>3, <4>4, <4>5
    <3>2. QED
      BY <1>3, <3>1
  <2>2. ~(after.pos <= Len(t.arr))
    BY <1>3, <1>9, <2>1
  <2>3. ~IsValid(after)
    BY <1>9, <2>2 DEF IsValid
  <2>4. QED
    BY <1>1, <1>2, <1>3, <1>9, <1>11, <2>3
<1>12. QED
  BY <1>3, <1>10, <1>11

----------------------------------------------------------------------------
(* Records of two longs, written and read. *)

Pairs == {v \in Seq(SmallLongs) : Len(v) = 2}
PairCode(v) == Code(v[1]) \o Code(v[2])

LEMMA PairBytes ==
  ASSUME NEW v \in Pairs
  PROVE  /\ v = <<v[1], v[2]>> /\ v[1] \in SmallLongs /\ v[2] \in SmallLongs
         /\ PairCode(v) \in Seq(Byte) /\ Len(PairCode(v)) \in Nat \ {0}
         /\ Len(PairCode(v)) = Len(Code(v[1])) + Len(Code(v[2]))
<1>1. v \in Seq(SmallLongs) /\ Len(v) = 2
  BY DEF Pairs
<1>2. v[1] \in SmallLongs /\ v[2] \in SmallLongs
  BY <1>1, ElementOfSeq
<1>3. v = <<v[1], v[2]>>
  BY <1>1
<1>4. PICK a \in Seq(Byte) : a = Code(v[1]) /\ Len(a) \in Nat \ {0}
  BY <1>2, CodeBytes
<1>5. PICK b \in Seq(Byte) : b = Code(v[2]) /\ Len(b) \in Nat \ {0}
  BY <1>2, CodeBytes
<1>6. a \o b \in Seq(Byte) /\ Len(a \o b) = Len(a) + Len(b)
  BY ConcatProperties
<1>7. Len(a \o b) \in Nat \ {0}
  BY <1>4, <1>5, <1>6
<1>8. QED
  BY <1>2, <1>3, <1>4, <1>5, <1>6, <1>7 DEF PairCode

\* Bytes can be cut after another sequence of theirs.
LEMMA Recut ==
  ASSUME NEW a \in Seq(Byte), NEW r \in Seq(Byte), NEW p \in Seq(Byte), NEW t \in Seq(Byte)
  PROVE  /\ Cuts(a, r, <<>>, p \o t) <=> Cuts(a, r, p, t)
         /\ \A q \in Seq(Byte) : Cuts(a, r, q \o p, t) => Cuts(a, r, q, p \o t)
<1>1. <<>> \o (p \o t) = p \o t
  BY ConcatProperties, ConcatEmptySeq
<1>2. ASSUME NEW q \in Seq(Byte) PROVE (q \o p) \o t = q \o (p \o t)
  BY ConcatAssociative, SMTT(60)
<1>3. QED
  BY <1>1, <1>2 DEF Cuts

\* The same of records: what is read is the record if it is valid, and it is if all is there.
LEMMA PairReadsBack ==
  ASSUME NEW t \in Taps, IsValid(t), NEW v \in Pairs, NEW more \in Seq(Byte), NEW rest \in Seq(Byte),
         Cuts(Unread(t), more, PairCode(v), rest),
         NEW first, first = ReadLong(t), NEW second, second = ReadLong(first.tap)
  PROVE  /\ IsValid(second.tap) => <<first.val, second.val>> = v /\ Cuts(Unread(second.tap), more, <<>>, rest)
         /\ Len(Unread(t)) >= Len(PairCode(v)) => IsValid(second.tap)
<1>1. PICK c \in Seq(Byte) : c = Code(v[1]) /\ Len(c) \in Nat
  BY PairBytes, CodeBytes
<1>2. PICK d \in Seq(Byte) : d = Code(v[2]) /\ Len(d) \in Nat
  BY PairBytes, CodeBytes
<1>3. PICK u \in Seq(Byte) : u = Unread(t) /\ Len(u) \in Nat
  BY UnreadBytes
<1>4. d \o rest \in Seq(Byte)
  BY ConcatProperties
<1>5. Cuts(u, more, c, d \o rest)
  <2>1. Cuts(u, more, c \o d, rest)
    BY <1>1, <1>2, <1>3 DEF PairCode
  <2>2. QED
    BY <2>1, Recut
<1>6. first.tap \in Taps /\ second.tap \in Taps
  BY ReadMoves
<1>7. v[1] \in SmallLongs /\ v[2] \in SmallLongs /\ v = <<v[1], v[2]>>
  BY PairBytes
<1>8. Len(PairCode(v)) = Len(c) + Len(d)
  BY <1>1, <1>2, PairBytes
<1>9. CASE Len(u) < Len(c)
  <2>1. ~IsValid(first.tap)
    BY <1>1, <1>3, <1>4, <1>5, <1>7, <1>9, LongReadsBack
  <2>2. ~IsValid(second.tap)
    BY <1>6, <2>1, InvalidStays
  <2>3. ~(Len(u) >= Len(PairCode(v)))
    BY <1>1, <1>2, <1>3, <1>8, <1>9
  <2>4. QED
    BY <1>3, <2>2, <2>3
<1>10. CASE Len(u) >= Len(c)
  <2>1. first.val = v[1] /\ IsValid(first.tap) /\ Cuts(Unread(first.tap), more, <<>>, d \o rest)
    BY <1>1, <1>3, <1>4, <1>5, <1>7, <1>10, LongReadsBack
  <2>2. PICK w \in Seq(Byte) : w = Unread(first.tap) /\ Len(w) \in Nat
    BY <1>6, UnreadBytes
  <2>3. Cuts(w, more, d, rest)
    BY <2>1, <2>2, Recut
  <2>4. Len(w) = Len(u) - Len(c)
    <3>1. w \o more \in Seq(Byte) /\ Len(w \o more) = Len(w) + Len(more) /\ Len(more) \in Nat
      BY ConcatProperties, LenProperties
    <3>2. Len(u \o more) = Len(u) + Len(more) /\ Len(c \o (d \o rest)) = Len(c) + Len(d \o rest)
      BY <1>4, ConcatProperties
    <3>3. u \o more = c \o (d \o rest) /\ w \o more = d \o rest
      BY <1>5, <2>3 DEF Cuts
    <3>4. Len(u) + Len(more) = Len(c) + (Len(w) + Len(more))
      BY <3>1, <3>2, <3>3
    <3>5. QED
      BY <1>1, <1>3, <2>2, <3>1, <3>4
  <2>5. Len(w) >= Len(d) => /\ second.val = v[2] /\ IsValid(second.tap)
                            /\ Cuts(Unread(second.tap), more, <<>>, rest)
    BY <1>2, <1>6, <1>7, <2>1, <2>2, <2>3, LongReadsBack
  <2>6. Len(w) < Len(d) => ~IsValid(second.tap)
    BY <1>2, <1>6, <1>7, <2>1, <2>2, <2>3, LongReadsBack
  <2>7. Len(w) >= Len(d) \/ Len(w) < Len(d)
    BY <1>2, <2>2
  <2>8. Len(u) >= Len(PairCode(v)) => Len(w) >= Len(d)
    BY <1>1, <1>2, <1>3, <1>8, <2>4
  <2>9. QED
    BY <1>3, <1>7, <2>1, <2>5, <2>6, <2>7, <2>8
<1>11. QED
  BY <1>1, <1>3, <1>9, <1>10

\* At the end there is nothing to read.
LEMMA EndIsInvalid ==
  ASSUME NEW t \in Taps, Len(Unread(t)) = 0
  PROVE  ~IsValid(ReadLong(ReadLong(t).tap).tap)
<1>1. t.pos \in Nat /\ Len(t.arr) \in Nat /\ (t.pos <= Len(t.arr) => 0 = Len(t.arr) - t.pos)
  BY UnreadBytes
<1>2. PICK after \in Taps : after = ReadLong(t).tap /\ after.arr = t.arr /\ after.pos > t.pos /\ after.pos \in Nat
  <2>1. ReadLong(t).tap \in Taps
    BY ReadMoves
  <2>2. ReadLong(t).tap.pos \in Nat
    BY <2>1 DEF Taps
  <2>3. QED
    BY <2>1, <2>2, ReadMoves
<1>3. ~(after.pos <= Len(t.arr))
  BY <1>1, <1>2
<1>4. ~IsValid(after)
  BY <1>2, <1>3 DEF IsValid
<1>5. QED
  BY <1>2, <1>4, InvalidStays

\* Bytes that are written are behind those before them; a tap that is full stays as it is.
LEMMA WritesBehind ==
  ASSUME NEW t \in Taps, NEW b \in Seq(Byte), NEW w, w = WriteEach(t, b)
  PROVE  /\ w \in Taps /\ Len(w.arr) = Len(t.arr) /\ w.pos = t.pos + Len(b)
         /\ IsValid(w) => IsValid(t) /\ Written(t) \in Seq(Byte) /\ Written(w) = Written(t) \o b
         /\ t.pos >= Len(t.arr) => w.arr = t.arr
<1>1. PICK a \in Seq(Byte) : a = t.arr
  BY UnreadBytes
<1>2. PICK p \in Nat : p = t.pos
  BY UnreadBytes
<1>3. PICK m \in Nat : m = Len(a)
  BY LenProperties
<1>4. PICK l \in Nat : l = Len(b)
  BY LenProperties
<1>5. \A i \in 1..m : a[i] \in Byte
  BY <1>3, ElementOfSeq
<1>6. \A i \in 1..l : b[i] \in Byte
  BY <1>4, ElementOfSeq
<1>7. DOMAIN a = 1..m /\ a \in [1..m -> Byte]
  BY <1>3, LenProperties
<1>8. PICK c : c = [i \in 1..m |-> IF i \in p + 1 .. p + l THEN b[i - p] ELSE a[i]]
  OBVIOUS
<1>9. w = [arr |-> c, pos |-> p + l]
  BY <1>1, <1>2, <1>4, <1>7, <1>8 DEF WriteEach
<1>10. \A i \in 1..m : c[i] \in Byte
  <2>1. SUFFICES ASSUME NEW i \in 1..m PROVE c[i] \in Byte
    OBVIOUS
  <2>2. i \in p + 1 .. p + l => i - p \in 1..l
    OBVIOUS
  <2>3. c[i] = IF i \in p + 1 .. p + l THEN b[i - p] ELSE a[i]
    BY <1>8
  <2>4. QED
    BY <1>5, <1>6, <2>2, <2>3
<1>11. c \in Seq(Byte) /\ Len(c) = m
  <2>1. c \in [1..m -> Byte]
    BY <1>8, <1>10
  <2>2. QED
    BY <2>1, LenProperties
<1>12. w \in Taps /\ Len(w.arr) = Len(t.arr) /\ w.pos = t.pos + Len(b) /\ w.arr = c
  <2>1. p + l \in Nat
    OBVIOUS
  <2>2. w \in Taps
    BY <1>9, <1>11, <2>1 DEF Taps
  <2>3. QED
    BY <1>1, <1>2, <1>3, <1>4, <1>9, <1>11, <2>2
<1>13. ASSUME IsValid(w) PROVE IsValid(t) /\ Written(t) \in Seq(Byte) /\ Written(w) = Written(t) \o b
  <2>1. p + l <= m
    BY <1>9, <1>11, <1>13 DEF IsValid
  <2>2. IsValid(t)
    <3>1. p <= m
      BY <2>1
    <3>2. QED
      BY <1>1, <1>2, <1>3, <3>1 DEF IsValid
  <2>3. PICK r : r = SubSeq(a, 1, p)
    OBVIOUS
  <2>4. r \in Seq(Byte) /\ Len(r) = p /\ \A i \in 1..p : r[i] = a[i]
    <3>1. p \in 0..Len(a)
      BY <1>3, <2>1
    <3>2. \A i \in 1..p : a[i] \in Byte
      BY <1>5, <2>1
    <3>3. QED
      BY <1>3, <2>3, <3>1, <3>2, SubSeqProperties
  <2>5. PICK s : s = SubSeq(c, 1, p + l)
    OBVIOUS
  <2>6. s \in Seq(Byte) /\ Len(s) = p + l /\ \A i \in 1..p + l : s[i] = c[i]
    <3>1. p + l \in 0..Len(c)
      BY <1>11, <2>1
    <3>2. \A i \in 1..p + l : c[i] \in Byte
      BY <1>10, <2>1
    <3>3. QED
      BY <1>11, <2>5, <3>1, <3>2, SubSeqProperties
  <2>7. r \o b \in Seq(Byte) /\ Len(r \o b) = p + l /\ \A i \in 1..p + l : (r \o b)[i] = IF i <= p THEN r[i] ELSE b[i - p]
    BY <1>4, <2>4, ConcatProperties
  <2>8. \A i \in 1..p + l : s[i] = (r \o b)[i]
    <3>1. SUFFICES ASSUME NEW i \in 1..p + l PROVE s[i] = (r \o b)[i]
      OBVIOUS
    <3>2. i \in 1..m /\ (i <= p <=> ~(i \in p + 1 .. p + l))
      BY <2>1
    <3>3. c[i] = IF i <= p THEN a[i] ELSE b[i - p]
      BY <1>8, <3>2
    <3>4. i <= p => r[i] = a[i]
      <4>1. i <= p => i \in 1..p
        OBVIOUS
      <4>2. QED
        BY <2>4, <4>1
    <3>5. s[i] = c[i]
      BY <2>6
    <3>6. (r \o b)[i] = IF i <= p THEN r[i] ELSE b[i - p]
      BY <2>7
    <3>7. QED
      BY <3>3, <3>4, <3>5, <3>6
  <2>9. s = r \o b
    <3>1. PICK q : q = r \o b
      OBVIOUS
    <3>2. QED
      BY <2>6, <2>7, <2>8, <3>1, SeqEqual
  <2>10. Written(t) = r /\ Written(w) = s
    BY <1>1, <1>2, <1>9, <2>3, <2>5 DEF Written
  <2>11. QED
    BY <2>2, <2>4, <2>9, <2>10
<1>14. ASSUME t.pos >= Len(t.arr) PROVE c = a
  <2>1. p >= m
    BY <1>1, <1>2, <1>3, <1>14
  <2>2. \A i \in 1..m : ~(i \in p + 1 .. p + l)
    BY <2>1
  <2>3. \A i \in 1..m : c[i] = a[i]
    BY <1>8, <2>2
  <2>4. QED
    BY <1>3, <1>11, <2>3, SeqEqual
<1>15. QED
  BY <1>1, <1>12, <1>13, <1>14

\* What a value is written as, whole or up to where its type throws.
RecordCode(v) ==
  (IF Len(v) > 0 THEN Code(v[1]) ELSE <<>>) \o (IF Len(v) > 1 THEN Code(v[2]) ELSE <<>>)

LEMMA RecordWritten ==
  ASSUME NEW t \in Taps, NEW v \in Seq(SmallLongs), Len(v) <= 2, NEW w, w = WriteRecord(t, v)
  PROVE  /\ RecordCode(v) \in Seq(Byte) /\ Len(RecordCode(v)) \in Nat
         /\ w \in Taps /\ Len(w.arr) = Len(t.arr) /\ w.pos = t.pos + Len(RecordCode(v))
         /\ IsValid(w) => Written(w) = Written(t) \o RecordCode(v)
         /\ t.pos >= Len(t.arr) => w.arr = t.arr
         /\ Len(v) = 2 => v \in Pairs /\ RecordCode(v) = PairCode(v)
         /\ Len(v) = 0 => w = t /\ RecordCode(v) = <<>>
<1> DEFINE a == IF Len(v) > 0 THEN Code(v[1]) ELSE <<>>
           b == IF Len(v) > 1 THEN Code(v[2]) ELSE <<>>
           first == IF Len(v) > 0 THEN WriteLong(t, v[1]) ELSE t
<1>1. Len(v) \in Nat
  BY LenProperties
<1>2. Len(v) > 0 => v[1] \in SmallLongs
  BY <1>1, ElementOfSeq
<1>3. Len(v) > 1 => v[2] \in SmallLongs
  BY <1>1, ElementOfSeq
<1>4. a \in Seq(Byte) /\ b \in Seq(Byte)
  BY <1>2, <1>3, CodeBytes
<1>5. t.pos \in Nat /\ Len(t.arr) \in Nat
  BY UnreadBytes
<1>6. /\ first \in Taps /\ Len(first.arr) = Len(t.arr) /\ first.pos = t.pos + Len(a)
      /\ IsValid(first) => IsValid(t) /\ Written(first) = Written(t) \o a
      /\ IsValid(t) => Written(t) \in Seq(Byte)
      /\ t.pos >= Len(t.arr) => first.arr = t.arr
  <2>1. IsValid(t) => Written(t) \in Seq(Byte)
    <3>1. t.arr \in Seq(Byte)
      BY UnreadBytes
    <3>2. IsValid(t) => t.pos \in 0..Len(t.arr)
      BY <1>5 DEF IsValid
    <3>3. \A i \in 1..Len(t.arr) : t.arr[i] \in Byte
      BY <3>1, ElementOfSeq
    <3>4. QED
      BY <1>5, <3>1, <3>2, <3>3, SubSeqProperties DEF Written
  <2>2. CASE Len(v) > 0
    <3>1. first = WriteEach(t, a)
      BY <2>2 DEF WriteLong, Code
    <3> HIDE DEF first, a
    <3>2. QED
      BY <1>4, <2>1, <3>1, WritesBehind
  <2>3. CASE ~(Len(v) > 0)
    <3>1. first = t /\ a = <<>> /\ Len(a) = 0
      BY <2>3
    <3>2. IsValid(t) => Written(t) \o <<>> = Written(t)
      BY <2>1, ConcatEmptySeq
    <3> HIDE DEF first, a
    <3>3. QED
      BY <1>5, <2>1, <3>1, <3>2
  <2>4. QED
    BY <2>2, <2>3
<1>7. RecordCode(v) = a \o b
  BY DEF RecordCode
<1>8. w = IF Len(v) > 1 THEN WriteLong(first, v[2]) ELSE first
  BY DEF WriteRecord
<1>9. Len(a) \in Nat /\ Len(b) \in Nat /\ a \o b \in Seq(Byte) /\ Len(a \o b) = Len(a) + Len(b)
  <2> HIDE DEF a, b
  <2>1. QED
    BY <1>4, ConcatProperties, LenProperties
<1>10. Len(v) = 2 => v \in Pairs /\ RecordCode(v) = PairCode(v)
  <2>1. Len(v) = 2 => Len(v) > 0 /\ Len(v) > 1
    OBVIOUS
  <2>2. Len(v) = 2 => a = Code(v[1]) /\ b = Code(v[2])
    BY <2>1
  <2> HIDE DEF a, b
  <2>3. QED
    BY <1>7, <2>2 DEF Pairs, PairCode
<1>11. Len(v) = 0 => w = t /\ RecordCode(v) = <<>>
  <2>1. Len(v) = 0 => ~(Len(v) > 0) /\ ~(Len(v) > 1)
    OBVIOUS
  <2>2. Len(v) = 0 => a = <<>> /\ b = <<>> /\ first = t
    BY <2>1
  <2>3. <<>> \o <<>> = <<>>
    BY ConcatEmptySeq, EmptySeq
  <2> HIDE DEF a, b, first
  <2>4. QED
    BY <1>7, <1>8, <2>1, <2>2, <2>3
<1>12. CASE Len(v) > 1
  <2>1. w = WriteEach(first, b)
    BY <1>8, <1>12 DEF WriteLong, Code
  <2> HIDE DEF first, a, b
  <2>2. /\ w \in Taps /\ Len(w.arr) = Len(first.arr) /\ w.pos = first.pos + Len(b)
        /\ IsValid(w) => IsValid(first) /\ Written(first) \in Seq(Byte) /\ Written(w) = Written(first) \o b
        /\ first.pos >= Len(first.arr) => w.arr = first.arr
    <3>1. first \in Taps /\ b \in Seq(Byte)
      BY <1>4, <1>6
    <3>2. QED
      BY <2>1, <3>1, WritesBehind
  <2>3. w.pos = t.pos + Len(a \o b) /\ Len(w.arr) = Len(t.arr)
    BY <1>5, <1>6, <1>9, <2>2
  <2>4. t.pos >= Len(t.arr) => w.arr = t.arr
    <3>1. t.pos >= Len(t.arr) => first.pos >= Len(first.arr)
      BY <1>5, <1>6, <1>9
    <3>2. QED
      BY <1>6, <2>2, <3>1
  <2>5. IsValid(w) => Written(w) = Written(t) \o (a \o b)
    <3>1. SUFFICES ASSUME IsValid(w) PROVE Written(w) = Written(t) \o (a \o b)
      OBVIOUS
    <3>2. PICK x \in Seq(Byte) : x = Written(t)
      BY <1>6, <2>2, <3>1
    <3>3. Written(w) = (x \o a) \o b
      BY <1>6, <2>2, <3>1, <3>2
    <3>4. (x \o a) \o b = x \o (a \o b)
      BY <1>4, ConcatAssociative, SMTT(60)
    <3>5. QED
      BY <3>2, <3>3, <3>4
  <2>6. w \in Taps
    BY <2>2
  <2>7. RecordCode(v) \in Seq(Byte) /\ Len(RecordCode(v)) \in Nat /\ w.pos = t.pos + Len(RecordCode(v))
    BY <1>7, <1>9, <2>3
  <2>8. IsValid(w) => Written(w) = Written(t) \o RecordCode(v)
    BY <1>7, <2>5
  <2>9. QED
    BY <1>10, <1>11, <2>3, <2>4, <2>6, <2>7, <2>8
<1>13. CASE ~(Len(v) > 1)
  <2>1. w = first /\ b = <<>>
    BY <1>8, <1>13
  <2>2. a \o b = a
    <3> HIDE DEF a
    <3>1. QED
      BY <1>4, <2>1, ConcatEmptySeq
  <2> HIDE DEF first, a, b
  <2>3. QED
    BY <1>4, <1>6, <1>7, <1>9, <1>10, <1>11, <2>1, <2>2
<1>14. QED
  BY <1>12, <1>13

\* A tap that was emptied has room.
LEMMA EmptiedHasRoom ==
  ASSUME NEW t \in Taps, NEW size \in Nat, NEW e, e = Emptied(t, size)
  PROVE  e \in Taps /\ e.pos = 0 /\ Len(e.arr) \in Nat /\ Len(e.arr) >= size /\ Written(e) = <<>>
<1>1. t.arr \in Seq(Byte) /\ Len(t.arr) \in Nat
  BY UnreadBytes
<1>2. CASE size > Len(t.arr)
  <2>1. e = [arr |-> [i \in 1..2 * size |-> 0], pos |-> 0]
    BY <1>2 DEF Emptied, Blank, Tap
  <2>2. PICK z : z = [i \in 1..2 * size |-> 0]
    OBVIOUS
  <2>3. 2 * size \in Nat /\ 0 \in Byte
    BY DEF Byte
  <2>4. z \in [1..2 * size -> Byte]
    BY <2>2, <2>3
  <2>5. z \in Seq(Byte) /\ Len(z) = 2 * size
    BY <2>3, <2>4, LenProperties
  <2>6. e \in Taps /\ e.pos = 0 /\ e.arr = z
    BY <2>1, <2>2, <2>5 DEF Taps
  <2>7. QED
    BY <2>3, <2>5, <2>6 DEF Written
<1>3. CASE ~(size > Len(t.arr))
  <2>1. e = [t EXCEPT !.pos = 0]
    BY <1>3 DEF Emptied
  <2>2. e \in Taps /\ e.pos = 0 /\ e.arr = t.arr
    BY <2>1 DEF Taps
  <2>3. Written(e) = SubSeq(t.arr, 1, 0)
    BY <2>2 DEF Written
  <2>4. SubSeq(t.arr, 1, 0) = <<>>
    BY <1>1, SubSeqEmpty
  <2>5. QED
    BY <1>1, <1>3, <2>2, <2>3, <2>4
<1>4. QED
  BY <1>1, <1>2, <1>3

\* The values that are whole, one value further.
LEMMA AcceptedMore ==
  ASSUME NEW S, NEW values \in Seq(Seq(S))
  PROVE  /\ Accepted(SubSeq(values, 1, 0)) = <<>>
         /\ Accepted(SubSeq(values, 1, Len(values))) = Accepted(values)
         /\ \A n \in 0..Len(values) :
              /\ Accepted(SubSeq(values, 1, n)) \in Seq({v \in Seq(S) : Len(v) = 2})
              /\ n < Len(values) =>
                   Accepted(SubSeq(values, 1, n + 1)) =
                     IF Len(values[n + 1]) = 2 THEN Append(Accepted(SubSeq(values, 1, n)), values[n + 1])
                                               ELSE Accepted(SubSeq(values, 1, n))
<1> DEFINE Whole == {v \in Seq(S) : Len(v) = 2}
           One(v) == IF Len(v) = 2 THEN <<v>> ELSE <<>>
           Ones(list) == [i \in DOMAIN list |-> One(list[i])]
<1>1. \A list : Accepted(list) = FlattenSeq(Ones(list))
  BY DEF Accepted
<1>2. ASSUME NEW v \in Seq(S) PROVE One(v) \in Seq(Whole)
  <2>1. CASE Len(v) = 2
    <3>1. v \in Whole
      BY <2>1
    <3> HIDE DEF Whole
    <3>2. <<v>> \in Seq(Whole)
      BY <3>1
    <3>3. QED
      BY <2>1, <3>2
  <2>2. CASE Len(v) # 2
    BY <2>2, EmptySeq
  <2>3. QED
    BY <2>1, <2>2
<1>3. Len(values) \in Nat /\ \A i \in 1..Len(values) : values[i] \in Seq(S)
  BY LenProperties, ElementOfSeq
<1>4. ASSUME NEW list \in Seq(Seq(S)) PROVE Ones(list) \in Seq(Seq(Whole)) /\ Len(Ones(list)) = Len(list)
  <2>1. Len(list) \in Nat /\ DOMAIN list = 1..Len(list) /\ \A i \in 1..Len(list) : list[i] \in Seq(S)
    BY LenProperties, ElementOfSeq
  <2> HIDE DEF One, Whole
  <2>2. Ones(list) \in [1..Len(list) -> Seq(Whole)]
    BY <1>2, <2>1
  <2>3. QED
    BY <2>1, <2>2, LenProperties
<1>5. Accepted(SubSeq(values, 1, 0)) = <<>>
  <2>1. SubSeq(values, 1, 0) = <<>>
    BY <1>3, SubSeqEmpty
  <2>2. Ones(<<>>) = <<>>
    OBVIOUS
  <2>3. FlattenSeq(<<>>) = <<>>
    BY DEF FlattenSeq
  <2>4. QED
    BY <1>1, <2>1, <2>2, <2>3
<1>6. Accepted(SubSeq(values, 1, Len(values))) = Accepted(values)
  BY SubSeqFull
<1>7. ASSUME NEW n \in 0..Len(values) PROVE Accepted(SubSeq(values, 1, n)) \in Seq(Whole)
  <2>1. SubSeq(values, 1, n) \in Seq(Seq(S))
    BY FirstOnes
  <2> HIDE DEF Ones, Whole
  <2>2. QED
    BY <1>1, <1>4, <2>1, FlatTyped
<1>8. ASSUME NEW n \in 0..Len(values), n < Len(values)
      PROVE  Accepted(SubSeq(values, 1, n + 1)) =
               IF Len(values[n + 1]) = 2 THEN Append(Accepted(SubSeq(values, 1, n)), values[n + 1])
                                         ELSE Accepted(SubSeq(values, 1, n))
  <2>1. PICK l \in Seq(Seq(S)) : l = SubSeq(values, 1, n)
    BY FirstOnes
  <2>2. PICK v \in Seq(S) : v = values[n + 1]
    BY <1>8, FirstOnes
  <2>3. SubSeq(values, 1, n + 1) = Append(l, v)
    BY <1>8, <2>1, <2>2, FirstOnes
  <2>4. PICK m \in Nat : m = Len(l)
    BY LenProperties
  <2>5. /\ Append(l, v) \in Seq(Seq(S)) /\ Len(Append(l, v)) = m + 1
        /\ \A i \in 1..m : Append(l, v)[i] = l[i]
        /\ Append(l, v)[m + 1] = v
    BY <2>4, AppendProperties
  <2>6. PICK k : k = Append(l, v)
    OBVIOUS
  <2>7. Ones(k) = Append(Ones(l), One(v))
    <3>1. PICK o \in Seq(Seq(Whole)) : o = Ones(l) /\ Len(o) = m
      BY <1>4, <2>4
    <3>2. PICK e \in Seq(Whole) : e = One(v)
      BY <1>2
    <3>3. PICK p \in Seq(Seq(Whole)) : p = Ones(k) /\ Len(p) = m + 1
      BY <1>4, <2>5, <2>6
    <3>4. DOMAIN l = 1..m /\ DOMAIN k = 1..m + 1
      BY <2>4, <2>5, <2>6, LenProperties
    <3>5. \A i \in 1..m : o[i] = One(l[i])
      <4> HIDE DEF One
      <4>1. QED
        BY <3>1, <3>4
    <3>6. \A i \in 1..m + 1 : p[i] = One(k[i])
      <4> HIDE DEF One
      <4>1. QED
        BY <3>3, <3>4
    <3> HIDE DEF One, Ones, Whole
    <3>7. PICK q : q = Append(o, e)
      OBVIOUS
    <3>8. q \in Seq(Seq(Whole)) /\ Len(q) = m + 1 /\ (\A i \in 1..m : q[i] = o[i]) /\ q[m + 1] = e
      <4>1. q \in Seq(Seq(Whole)) /\ Len(q) = Len(o) + 1 /\ (\A i \in 1..Len(o) : q[i] = o[i]) /\ q[Len(o) + 1] = e
        BY <3>7, AppendProperties
      <4>2. QED
        BY <3>1, <4>1
    <3>9. \A i \in 1..m + 1 : p[i] = q[i]
      <4>1. SUFFICES ASSUME NEW i \in 1..m + 1 PROVE p[i] = q[i]
        OBVIOUS
      <4>2. CASE i = m + 1
        <5>1. k[m + 1] = v /\ p[m + 1] = One(k[m + 1])
          BY <2>5, <2>6, <3>6, <4>2
        <5>2. QED
          BY <3>2, <3>8, <4>2, <5>1
      <4>3. CASE i # m + 1
        <5>1. i \in 1..m
          BY <4>3
        <5>2. k[i] = l[i]
          BY <2>5, <2>6, <5>1
        <5>3. QED
          BY <3>5, <3>6, <3>8, <5>1, <5>2
      <4>4. QED
        BY <4>2, <4>3
    <3>10. p = q
      BY <3>3, <3>8, <3>9, SeqEqual
    <3>11. QED
      BY <3>1, <3>2, <3>3, <3>7, <3>10
  <2>8. Accepted(k) = FlattenSeq(Ones(l)) \o One(v)
    <3>1. Ones(l) \in Seq(Seq(Whole)) /\ One(v) \in Seq(Whole)
      BY <1>2, <1>4
    <3> HIDE DEF One, Ones, Whole
    <3>2. QED
      BY <1>1, <2>7, <3>1, FlatMore
  <2>9. Accepted(l) = FlattenSeq(Ones(l)) /\ Accepted(l) \in Seq(Whole)
    BY <1>1, <1>7, <2>1
  <2> HIDE DEF Ones
  <2>10. CASE Len(v) = 2
    <3>1. v \in Whole /\ One(v) = <<v>>
      BY <2>10
    <3> HIDE DEF Whole, One
    <3>2. Append(Accepted(l), v) = Accepted(l) \o <<v>>
      BY <2>9, <3>1, AppendIsConcat
    <3>3. QED
      BY <2>1, <2>2, <2>3, <2>6, <2>8, <2>9, <2>10, <3>1, <3>2
  <2>11. CASE Len(v) # 2
    <3>1. One(v) = <<>>
      BY <2>11
    <3> HIDE DEF Whole, One
    <3>2. Accepted(l) \o <<>> = Accepted(l)
      BY <2>9, ConcatEmptySeq
    <3>3. QED
      BY <2>1, <2>2, <2>3, <2>6, <2>8, <2>9, <2>11, <3>1, <3>2
  <2>12. QED
    BY <2>10, <2>11
<1>9. QED
  BY <1>5, <1>6, <1>7, <1>8

\* One sequence more is behind the first ones.
LEMMA BehindMore ==
  ASSUME NEW S, NEW list \in Seq(Seq(S)), NEW e \in Seq(S), NEW k \in 0..Len(list)
  PROVE  Behind(list, k) \in Seq(S) /\ Behind(Append(list, e), k) = Behind(list, k) \o e
<1>1. PICK m \in Nat : m = Len(list)
  BY LenProperties
<1>2. PICK more \in Seq(Seq(S)) : more = Append(list, e) /\ Len(more) = m + 1 /\ \A i \in 1..m : more[i] = list[i]
  <2>1. PICK l \in Seq(Seq(S)) : l = Append(list, e)
    BY AppendProperties
  <2>2. Len(l) = Len(list) + 1 /\ \A i \in 1..Len(list) : l[i] = list[i]
    BY <2>1, AppendProperties
  <2>3. QED
    BY <1>1, <2>1, <2>2
<1>3. k \in 0..Len(more)
  BY <1>1, <1>2
<1>4. PICK b \in Seq(S) : b = Behind(list, k) /\ FlattenSeq(list) = FlattenSeq(SubSeq(list, 1, k)) \o b
  BY FlatCut
<1>5. PICK c \in Seq(S) : c = Behind(more, k) /\ FlattenSeq(more) = FlattenSeq(SubSeq(more, 1, k)) \o c
  BY <1>3, FlatCut
<1>6. SubSeq(more, 1, k) = SubSeq(list, 1, k)
  <2>1. PICK x \in Seq(Seq(S)) : x = SubSeq(more, 1, k) /\ Len(x) = k
    BY <1>3, FirstOnes
  <2>2. PICK y \in Seq(Seq(S)) : y = SubSeq(list, 1, k) /\ Len(y) = k
    BY FirstOnes
  <2>3. \A i \in 1..k : x[i] = more[i]
    <3>1. \A i \in 1..k : more[i] \in Seq(S)
      BY <1>1, <1>2, ElementOfSeq
    <3>2. QED
      BY <1>2, <1>3, <2>1, <3>1, SubSeqProperties
  <2>4. \A i \in 1..k : y[i] = list[i]
    <3>1. \A i \in 1..k : list[i] \in Seq(S)
      BY <1>1, ElementOfSeq
    <3>2. QED
      BY <1>1, <2>2, <3>1, SubSeqProperties
  <2>5. \A i \in 1..k : x[i] = y[i]
    BY <1>1, <1>2, <2>3, <2>4
  <2>6. x = y
    BY <2>1, <2>2, <2>5, SeqEqual
  <2>7. QED
    BY <2>1, <2>2, <2>6
<1>7. PICK f \in Seq(S) : f = FlattenSeq(SubSeq(list, 1, k))
  BY FlatCut
<1>8. f \o c = (f \o b) \o e
  <2>1. FlattenSeq(more) = FlattenSeq(list) \o e
    BY <1>2, FlatMore
  <2>2. QED
    BY <1>4, <1>5, <1>6, <1>7, <2>1
<1>9. (f \o b) \o e = f \o (b \o e)
  BY ConcatAssociative, SMTT(60)
<1>10. b \o e \in Seq(S)
  BY ConcatProperties
<1>11. f \o c = f \o (b \o e)
  BY <1>8, <1>9
<1>12. c = b \o e
  BY <1>10, <1>11, Cancelled
<1>13. QED
  BY <1>2, <1>4, <1>5, <1>12

\* The bytes of records, one sequence each.
Coded(list) == [i \in DOMAIN list |-> PairCode(list[i])]

LEMMA CodedMore ==
  ASSUME NEW list \in Seq(Pairs)
  PROVE  /\ Coded(list) \in Seq(Seq(Byte)) /\ Len(Coded(list)) = Len(list)
         /\ \A i \in 1..Len(list) : Coded(list)[i] = PairCode(list[i])
         /\ \A v \in Pairs : Coded(Append(list, v)) = Append(Coded(list), PairCode(v))
<1>1. ASSUME NEW l \in Seq(Pairs)
      PROVE  /\ Coded(l) \in Seq(Seq(Byte)) /\ Len(Coded(l)) = Len(l)
             /\ \A i \in 1..Len(l) : Coded(l)[i] = PairCode(l[i])
  <2>1. Len(l) \in Nat /\ DOMAIN l = 1..Len(l) /\ \A i \in 1..Len(l) : l[i] \in Pairs
    BY LenProperties, ElementOfSeq
  <2>2. \A i \in 1..Len(l) : PairCode(l[i]) \in Seq(Byte)
    BY <2>1, PairBytes
  <2>3. PICK c : c = Coded(l)
    OBVIOUS
  <2>4. c = [i \in 1..Len(l) |-> PairCode(l[i])]
    BY <2>1, <2>3 DEF Coded
  <2>5. c \in [1..Len(l) -> Seq(Byte)]
    BY <2>2, <2>4
  <2>6. c \in Seq(Seq(Byte)) /\ Len(c) = Len(l)
    BY <2>1, <2>5, LenProperties
  <2>7. \A i \in 1..Len(l) : c[i] = PairCode(l[i])
    BY <2>4
  <2>8. QED
    BY <2>3, <2>6, <2>7
<1>2. ASSUME NEW v \in Pairs PROVE Coded(Append(list, v)) = Append(Coded(list), PairCode(v))
  <2>1. PICK m \in Nat : m = Len(list)
    BY LenProperties
  <2>2. PICK k \in Seq(Pairs) : k = Append(list, v) /\ Len(k) = m + 1 /\ (\A i \in 1..m : k[i] = list[i]) /\ k[m + 1] = v
    BY <2>1, AppendProperties
  <2>3. PICK x \in Seq(Seq(Byte)) : x = Coded(k) /\ Len(x) = m + 1 /\ \A i \in 1..m + 1 : x[i] = PairCode(k[i])
    BY <1>1, <2>2
  <2>4. PICK c \in Seq(Seq(Byte)) : c = Coded(list) /\ Len(c) = m /\ \A i \in 1..m : c[i] = PairCode(list[i])
    BY <1>1, <2>1
  <2>5. PICK e \in Seq(Byte) : e = PairCode(v)
    BY PairBytes
  <2>6. PICK y : y = Append(c, e)
    OBVIOUS
  <2>7. y \in Seq(Seq(Byte)) /\ Len(y) = m + 1 /\ (\A i \in 1..m : y[i] = c[i]) /\ y[m + 1] = e
    <3>1. y \in Seq(Seq(Byte)) /\ Len(y) = Len(c) + 1 /\ (\A i \in 1..Len(c) : y[i] = c[i]) /\ y[Len(c) + 1] = e
      BY <2>6, AppendProperties
    <3>2. QED
      BY <2>4, <3>1
  <2>8. \A i \in 1..m + 1 : x[i] = y[i]
    <3>1. SUFFICES ASSUME NEW i \in 1..m + 1 PROVE x[i] = y[i]
      OBVIOUS
    <3>2. CASE i = m + 1
      BY <2>2, <2>3, <2>5, <2>7, <3>2
    <3>3. CASE i # m + 1
      <4>1. i \in 1..m
        BY <3>3
      <4>2. x[i] = PairCode(k[i]) /\ k[i] = list[i] /\ c[i] = PairCode(list[i]) /\ y[i] = c[i]
        BY <2>2, <2>3, <2>4, <2>7, <4>1
      <4>3. QED
        BY <4>2
    <3>4. QED
      BY <3>2, <3>3
  <2>9. x = y
    BY <2>3, <2>7, <2>8, SeqEqual
  <2>10. QED
    BY <2>2, <2>3, <2>4, <2>5, <2>6, <2>9
<1>3. QED
  BY <1>1, <1>2

\* The first k records of a list are done; the bytes of the others are unread or ahead,
\* unless the end has come.
Due(list, done, k, over, unread, ahead) ==
  /\ k \in 0..Len(list) /\ done = SubSeq(list, 1, k)
  /\ IF over THEN k = Len(list) ELSE Cuts(unread, ahead, <<>>, Behind(Coded(list), k))

\* A record more is written.
LEMMA DueMore ==
  ASSUME NEW list \in Seq(Pairs), NEW done, NEW k, NEW unread \in Seq(Byte), NEW ahead \in Seq(Byte), NEW v \in Pairs,
         Due(list, done, k, FALSE, unread, ahead)
  PROVE  Due(Append(list, v), done, k, FALSE, unread, ahead \o PairCode(v))
<1>1. PICK m \in Nat : m = Len(list)
  BY LenProperties
<1>2. k \in 0..m /\ done = SubSeq(list, 1, k) /\ Cuts(unread, ahead, <<>>, Behind(Coded(list), k))
  BY <1>1 DEF Due
<1>3. PICK more \in Seq(Pairs) : more = Append(list, v) /\ Len(more) = m + 1 /\ \A i \in 1..m : more[i] = list[i]
  <2>1. PICK l \in Seq(Pairs) : l = Append(list, v)
    BY AppendProperties
  <2>2. Len(l) = Len(list) + 1 /\ \A i \in 1..Len(list) : l[i] = list[i]
    BY <2>1, AppendProperties
  <2>3. QED
    BY <1>1, <2>1, <2>2
<1>4. PICK e \in Seq(Byte) : e = PairCode(v)
  BY PairBytes
<1>5. PICK c \in Seq(Seq(Byte)) : c = Coded(list) /\ Len(c) = m
  BY <1>1, CodedMore
<1>6. Coded(more) = Append(c, e)
  BY <1>3, <1>4, <1>5, CodedMore
<1>7. k \in 0..Len(c)
  BY <1>2, <1>5
<1>8. PICK b \in Seq(Byte) : b = Behind(c, k) /\ Behind(Append(c, e), k) = b \o e
  BY <1>7, BehindMore
<1>9. unread \o ahead = b
  <2>1. <<>> \o b = b
    BY ConcatEmptySeq
  <2>2. QED
    BY <1>2, <1>5, <1>8, <2>1 DEF Cuts
<1>10. unread \o (ahead \o e) = b \o e
  <2>1. (unread \o ahead) \o e = unread \o (ahead \o e)
    BY ConcatAssociative, SMTT(60)
  <2>2. QED
    BY <1>9, <2>1
<1>11. <<>> \o (b \o e) = b \o e
  BY ConcatProperties, ConcatEmptySeq
<1>12. SubSeq(more, 1, k) = SubSeq(list, 1, k)
  <2>1. PICK x \in Seq(Pairs) : x = SubSeq(more, 1, k) /\ Len(x) = k
    <3>1. k \in 0..Len(more)
      BY <1>2, <1>3
    <3>2. QED
      BY <3>1, FirstOnes
  <2>2. PICK y \in Seq(Pairs) : y = SubSeq(list, 1, k) /\ Len(y) = k
    BY <1>1, <1>2, FirstOnes
  <2>3. \A i \in 1..k : x[i] = more[i]
    <3>1. \A i \in 1..k : more[i] \in Pairs
      BY <1>2, <1>3, ElementOfSeq
    <3>2. QED
      BY <1>2, <1>3, <2>1, <3>1, SubSeqProperties
  <2>4. \A i \in 1..k : y[i] = list[i]
    <3>1. \A i \in 1..k : list[i] \in Pairs
      BY <1>1, <1>2, ElementOfSeq
    <3>2. QED
      BY <1>1, <1>2, <2>2, <3>1, SubSeqProperties
  <2>5. \A i \in 1..k : x[i] = y[i]
    BY <1>2, <1>3, <2>3, <2>4
  <2>6. x = y
    BY <2>1, <2>2, <2>5, SeqEqual
  <2>7. QED
    BY <2>1, <2>2, <2>6
<1>13. k \in 0..Len(more) /\ done = SubSeq(more, 1, k)
  BY <1>1, <1>2, <1>3, <1>12
<1>14. Cuts(unread, ahead \o e, <<>>, Behind(Coded(more), k))
  BY <1>6, <1>8, <1>10, <1>11 DEF Cuts
<1>15. QED
  BY <1>3, <1>4, <1>13, <1>14 DEF Due

\* Of a tap with a record due: what is read, if it is valid, is that record, and the next is
\* due; and if it is not although nothing more comes, all records are done.
LEMMA DueIsRead ==
  ASSUME NEW list \in Seq(Pairs), NEW done, NEW k, NEW t \in Taps, IsValid(t), NEW ahead \in Seq(Byte),
         Due(list, done, k, FALSE, Unread(t), ahead),
         NEW first, first = ReadLong(t), NEW second, second = ReadLong(first.tap)
  PROVE  /\ IsValid(second.tap) =>
              Due(list, Append(done, <<first.val, second.val>>), k + 1, FALSE, Unread(second.tap), ahead)
         /\ ~IsValid(second.tap) /\ ahead = <<>> => Due(list, done, k, TRUE, Unread(second.tap), ahead)
<1>1. PICK m \in Nat : m = Len(list)
  BY LenProperties
<1>2. k \in 0..m /\ done = SubSeq(list, 1, k) /\ Cuts(Unread(t), ahead, <<>>, Behind(Coded(list), k))
  BY <1>1 DEF Due
<1>3. PICK c \in Seq(Seq(Byte)) : c = Coded(list) /\ Len(c) = m /\ \A i \in 1..m : c[i] = PairCode(list[i])
  BY <1>1, CodedMore
<1>4. PICK u \in Seq(Byte) : u = Unread(t) /\ Len(u) \in Nat
  BY UnreadBytes
<1>5. CASE k = m
  <2>1. Behind(c, k) = <<>>
    BY <1>3, <1>5, BehindNext
  <2>2. u \o ahead = <<>>
    <3>1. <<>> \o <<>> = <<>>
      BY EmptySeq, ConcatEmptySeq
    <3>2. QED
      BY <1>2, <1>3, <1>4, <2>1, <3>1 DEF Cuts
  <2>3. Len(u) = 0
    <3>1. Len(u \o ahead) = Len(u) + Len(ahead) /\ Len(ahead) \in Nat
      BY ConcatProperties, LenProperties
    <3>2. Len(u \o ahead) = 0
      BY <2>2
    <3>3. QED
      BY <1>4, <3>1, <3>2
  <2>4. ~IsValid(second.tap)
    BY <1>4, <2>3, EndIsInvalid
  <2>5. Due(list, done, k, TRUE, Unread(second.tap), ahead)
    BY <1>1, <1>2, <1>5 DEF Due
  <2>6. QED
    BY <2>4, <2>5
<1>6. CASE k # m
  <2>1. k \in 0..Len(c) - 1 /\ k + 1 \in 1..m /\ k \in 0..Len(list) /\ k < Len(list) /\ k + 1 \in 0..Len(list)
    BY <1>1, <1>2, <1>3, <1>6
  <2>2. PICK v \in Pairs : v = list[k + 1] /\ SubSeq(list, 1, k + 1) = Append(done, v)
    BY <1>2, <2>1, FirstOnes
  <2>3. c[k + 1] = PairCode(v)
    BY <1>3, <2>1, <2>2
  <2>4. PICK rest \in Seq(Byte) : rest = Behind(c, k + 1)
    BY <1>1, <1>3, <2>1, FlatCut
  <2>5. Behind(c, k) = PairCode(v) \o rest
    BY <2>1, <2>3, <2>4, BehindNext
  <2>6. PairCode(v) \in Seq(Byte)
    BY PairBytes
  <2>7. Cuts(u, ahead, PairCode(v), rest)
    <3>1. Cuts(u, ahead, <<>>, PairCode(v) \o rest)
      BY <1>2, <1>3, <1>4, <2>5
    <3>2. QED
      BY <2>6, <3>1, Recut
  <2>8. /\ IsValid(second.tap) => <<first.val, second.val>> = v /\ Cuts(Unread(second.tap), ahead, <<>>, rest)
        /\ Len(u) >= Len(PairCode(v)) => IsValid(second.tap)
    BY <1>4, <2>7, PairReadsBack
  <2>9. IsValid(second.tap) =>
          Due(list, Append(done, <<first.val, second.val>>), k + 1, FALSE, Unread(second.tap), ahead)
    BY <1>3, <2>1, <2>2, <2>4, <2>8 DEF Due
  <2>10. ahead = <<>> => IsValid(second.tap)
    <3>1. SUFFICES ASSUME ahead = <<>> PROVE Len(u) >= Len(PairCode(v))
      BY <2>8
    <3>2. u = PairCode(v) \o rest
      <4>1. u \o <<>> = u
        BY ConcatEmptySeq
      <4>2. QED
        BY <2>7, <3>1, <4>1 DEF Cuts
    <3>3. Len(u) = Len(PairCode(v)) + Len(rest) /\ Len(rest) \in Nat /\ Len(PairCode(v)) \in Nat
      BY <2>6, <3>2, ConcatProperties, LenProperties
    <3>4. QED
      BY <3>3
  <2>11. QED
    BY <2>9, <2>10
<1>7. QED
  BY <1>5, <1>6

----------------------------------------------------------------------------
(* Bytes in a tap: their length, then they.                                *)

BytesCode(b) == Code(Len(b)) \o b

\* What is read as a number is one, also past the end.
LEMMA NumberIsNat ==
  ASSUME NEW list \in Seq(Byte)
  PROVE  NumberOf(list) \in Nat
<1>1. PICK m \in Nat : m = Len(list)
  BY LenProperties
<1>2. PICK f : Weighed(f, list, m) /\ NumberOf(list) = f[1]
  BY <1>1, NumberWeighs
<1>3. \A i \in 1..m : list[i] \in Nat
  <2>1. \A x \in Byte : x \in Nat
    BY DEF Byte
  <2>2. QED
    BY <1>1, <2>1, ElementOfSeq
<1> DEFINE T == {j \in Nat : j <= m => f[m + 1 - j] \in Nat}
<1>4. 0 \in T
  BY <1>2 DEF Weighed
<1>5. ASSUME NEW j \in 0..m - 1, j \in T PROVE j + 1 \in T
  <2>1. PICK i \in 1..m : i = m - j /\ i = m + 1 - (j + 1) /\ i + 1 = m + 1 - j
    OBVIOUS
  <2>2. f[i + 1] \in Nat
    <3>1. j <= m
      OBVIOUS
    <3>2. QED
      BY <1>5, <2>1, <3>1
  <2>3. f[i] = (list[i] % 128) + 128 * f[i + 1]
    BY <1>2 DEF Weighed
  <2>4. PICK a \in Nat, b \in Nat : a = list[i] /\ b = f[i + 1]
    BY <1>3, <2>2
  <2>5. (a % 128) + 128 * b \in Nat
    OBVIOUS
  <2>6. f[m + 1 - (j + 1)] \in Nat
    BY <2>1, <2>3, <2>4, <2>5
  <2>7. QED
    BY <2>6
<1> HIDE DEF T
<1>6. 0..m \subseteq T
  BY <1>4, <1>5, Upwards
<1>7. m \in T /\ m + 1 - m = 1
  BY <1>6
<1>8. QED
  BY <1>2, <1>7 DEF T

LEMMA ReadIsInt ==
  ASSUME NEW t \in Taps
  PROVE  ReadLong(t).val \in Int
<1>1. PICK n \in Nat : n = VarintLength(t)
  BY VarintEnds, UnreadBytes
<1>2. PICK b : b = Bytes(t, n)
  OBVIOUS
<1>3. b \in Seq(Byte)
  <2>1. b = [i \in 1..n |-> ByteAt(t, i - 1)]
    BY <1>2 DEF Bytes
  <2>2. \A i \in 1..n : ByteAt(t, i - 1) \in Byte
    BY UnreadBytes
  <2>3. b \in [1..n -> Byte]
    BY <2>1, <2>2
  <2>4. QED
    BY <2>3
<1>4. PICK z \in Nat : z = NumberOf(b)
  BY <1>3, NumberIsNat
<1>5. ReadLong(t).val = IF z % 2 = 0 THEN z \div 2 ELSE -((z + 1) \div 2)
  BY <1>1, <1>2, <1>4 DEF ReadLong, Got
<1>6. z \div 2 \in Int /\ -((z + 1) \div 2) \in Int
  OBVIOUS
<1>7. QED
  BY <1>5, <1>6

\* A length is a long that has a code.
LEMMA LengthIsSmall ==
  ASSUME NEW n \in Nat, n < LongLimit
  PROVE  n \in SmallLongs
<1>1. PICK m \in Nat : m = LongLimit
  BY DEF LongLimit
<1>2. n \in -m .. m - 1
  BY <1>1
<1>3. QED
  BY <1>1, <1>2 DEF SmallLongs

\* A tap that moved on.
LEMMA MovedOn ==
  ASSUME NEW t \in Taps, NEW n \in Nat
  PROVE  /\ Moved(t, n) \in Taps /\ Moved(t, n).arr = t.arr /\ Moved(t, n).pos = t.pos + n
         /\ IsValid(Moved(t, n)) <=> IsValid(t) /\ n <= Len(Unread(t))
<1>1. PICK a \in Seq(Byte), p \in Nat : a = t.arr /\ p = t.pos
  BY UnreadBytes
<1>2. PICK m \in Nat : m = Len(a)
  BY LenProperties
<1>3. Moved(t, n) = [arr |-> a, pos |-> p + n]
  BY <1>1 DEF Moved, Taps
<1>4. Moved(t, n) \in Taps
  BY <1>3 DEF Taps
<1>5. IsValid(Moved(t, n)) <=> p + n <= m
  BY <1>2, <1>3 DEF IsValid
<1>6. IsValid(t) <=> p <= m
  BY <1>1, <1>2 DEF IsValid
<1>7. p <= m => Len(Unread(t)) = m - p
  BY <1>1, <1>2, UnreadBytes
<1>8. p + n <= m <=> p <= m /\ n <= m - p
  OBVIOUS
<1>9. QED
  BY <1>1, <1>3, <1>4, <1>5, <1>6, <1>7, <1>8

\* They are written behind what is there, and there was room for them if the tap is valid then.
LEMMA BytesWritten ==
  ASSUME NEW t \in Taps, NEW b \in Seq(Byte), Len(b) < LongLimit, NEW w, w = WriteBytes(t, b)
  PROVE  /\ BytesCode(b) \in Seq(Byte) /\ w \in Taps
         /\ Len(w.arr) = Len(t.arr) /\ w.pos = t.pos + Len(BytesCode(b))
         /\ IsValid(w) => IsValid(t) /\ Written(w) = Written(t) \o BytesCode(b)
<1>1. PICK n \in Nat : n = Len(b) /\ n \in SmallLongs
  BY LenProperties, LengthIsSmall
<1>2. PICK c \in Seq(Byte) : c = Code(n) /\ Len(c) \in Nat
  BY <1>1, CodeBytes
<1>3. BytesCode(b) = c \o b /\ c \o b \in Seq(Byte) /\ Len(c \o b) = Len(c) + n
  BY <1>1, <1>2, ConcatProperties DEF BytesCode
<1>4. PICK s : s = WriteEach(t, c)
  OBVIOUS
<1>5. WriteLong(t, n) = s
  BY <1>2, <1>4 DEF WriteLong, Code
<1>6. /\ s \in Taps /\ Len(s.arr) = Len(t.arr) /\ s.pos = t.pos + Len(c)
      /\ IsValid(s) => IsValid(t) /\ Written(t) \in Seq(Byte) /\ Written(s) = Written(t) \o c
  BY <1>4, WritesBehind
<1>7. t.pos \in Nat /\ Len(t.arr) \in Nat
  BY UnreadBytes
<1>8. w = IF s.pos + n > Len(s.arr) THEN Moved(s, n) ELSE WriteEach(s, b)
  BY <1>1, <1>5 DEF WriteBytes, WriteFixed
<1>9. t.pos + Len(c) + n = t.pos + Len(c \o b)
  BY <1>2, <1>3, <1>7
<1>10. CASE s.pos + n > Len(s.arr)
  <2>1. w \in Taps /\ w.arr = s.arr /\ w.pos = s.pos + n
    BY <1>6, <1>8, <1>10, MovedOn
  <2>2. ~(w.pos <= Len(w.arr))
    BY <1>2, <1>6, <1>7, <1>10, <2>1
  <2>3. ~IsValid(w)
    BY <2>2 DEF IsValid
  <2>4. QED
    BY <1>3, <1>6, <1>9, <2>1, <2>3
<1>11. CASE ~(s.pos + n > Len(s.arr))
  <2>1. w = WriteEach(s, b)
    BY <1>8, <1>11
  <2>2. /\ w \in Taps /\ Len(w.arr) = Len(s.arr) /\ w.pos = s.pos + n
        /\ IsValid(w) => IsValid(s) /\ Written(s) \in Seq(Byte) /\ Written(w) = Written(s) \o b
    <3>1. s \in Taps /\ b \in Seq(Byte)
      BY <1>6
    <3>2. PICK x : x = WriteEach(s, b)
      OBVIOUS
    <3>3. /\ x \in Taps /\ Len(x.arr) = Len(s.arr) /\ x.pos = s.pos + Len(b)
          /\ IsValid(x) => IsValid(s) /\ Written(s) \in Seq(Byte) /\ Written(x) = Written(s) \o b
      BY <3>1, <3>2, WritesBehind, SMTT(60)
    <3>4. QED
      BY <1>1, <2>1, <3>2, <3>3
  <2>3. IsValid(w) => Written(w) = Written(t) \o (c \o b)
    <3>1. SUFFICES ASSUME IsValid(w) PROVE Written(w) = Written(t) \o (c \o b)
      OBVIOUS
    <3>2. PICK x \in Seq(Byte) : x = Written(t)
      BY <1>6, <2>2, <3>1
    <3>3. Written(w) = (x \o c) \o b
      BY <1>6, <2>2, <3>1, <3>2
    <3>4. (x \o c) \o b = x \o (c \o b)
      BY ConcatAssociative, SMTT(60)
    <3>5. QED
      BY <3>2, <3>3, <3>4
  <2>4. QED
    BY <1>3, <1>6, <1>9, <2>2, <2>3
<1>12. QED
  BY <1>10, <1>11

\* What is read at once, if it is there.
LEMMA FixedReadsBack ==
  ASSUME NEW t \in Taps, IsValid(t), NEW b \in Seq(Byte), NEW more \in Seq(Byte), NEW rest \in Seq(Byte),
         Cuts(Unread(t), more, b, rest), NEW n \in Nat, n = Len(b), NEW w, w = ReadFixed(t, n)
  PROVE  /\ w.tap = Moved(t, n)
         /\ Len(Unread(t)) >= n => w.val = <<"buffer", b>> /\ IsValid(w.tap) /\ Cuts(Unread(w.tap), more, <<>>, rest)
         /\ Len(Unread(t)) < n => ~IsValid(w.tap)
<1>1. PICK u \in Seq(Byte) : u = Unread(t) /\ Len(u) \in Nat
  BY UnreadBytes
<1>2. PICK after \in Taps : after = Moved(t, n) /\ after.arr = t.arr /\ after.pos = t.pos + n /\ (IsValid(after) <=> n <= Len(u))
  BY <1>1, MovedOn
<1>3. w = [val |-> IF IsValid(after) THEN <<"buffer", Bytes(t, n)>> ELSE Undefined, tap |-> after]
  BY <1>2 DEF ReadFixed, Got
<1>4. CASE n <= Len(u)
  <2>1. Bytes(t, n) = b
    <3>1. PICK c : c = Bytes(t, n)
      OBVIOUS
    <3>2. c = [i \in 1..n |-> ByteAt(t, i - 1)]
      BY <3>1 DEF Bytes
    <3>3. ASSUME NEW i \in 1..n PROVE ByteAt(t, i - 1) = b[i] /\ b[i] \in Byte
      <4>1. PICK j \in Nat : j = i - 1 /\ j + 1 = i /\ j < Len(u) /\ j < Len(b)
        BY <1>1, <1>4
      <4>2. ByteAt(t, j) = u[j + 1]
        BY <1>1, <4>1, UnreadBytes
      <4>3. Cuts(u, more, b, rest)
        BY <1>1
      <4>4. u[j + 1] = b[j + 1]
        BY <4>1, <4>3, SameBytes
      <4>5. b[i] \in Byte
        BY ElementOfSeq
      <4>6. QED
        BY <4>1, <4>2, <4>4, <4>5
    <3>4. c \in [1..n -> Byte]
      BY <3>2, <3>3
    <3>5. c \in Seq(Byte) /\ Len(c) = n
      BY <3>4, LenProperties
    <3>6. \A i \in 1..Len(c) : c[i] = b[i]
      BY <3>2, <3>3, <3>5
    <3>7. QED
      BY <3>1, <3>5, <3>6, SeqEqual
  <2>2. IsValid(after)
    BY <1>2, <1>4
  <2>3. after.pos <= Len(t.arr)
    BY <1>2, <2>2 DEF IsValid
  <2>4. Unread(after) = SubSeq(u, n + 1, Len(u))
    BY <1>1, <1>2, <2>3, UnreadMoved
  <2>5. Cuts(SubSeq(u, Len(b) + 1, Len(u)), more, <<>>, rest)
    <3>1. Cuts(u, more, b, rest) /\ Len(u) >= Len(b)
      BY <1>1, <1>4
    <3>2. QED
      BY <3>1, ReadOff
  <2>6. Cuts(Unread(after), more, <<>>, rest)
    BY <2>4, <2>5
  <2>7. w.val = <<"buffer", b>> /\ w.tap = after
    BY <1>3, <2>1, <2>2
  <2>8. QED
    BY <1>1, <1>2, <1>4, <2>2, <2>6, <2>7
<1>5. CASE ~(n <= Len(u))
  BY <1>1, <1>2, <1>3, <1>5
<1>6. QED
  BY <1>4, <1>5

\* Bytes that were written are read again, whatever comes after them and however much of it
\* has arrived: with all of it there they are given, and it is taken; with less, the tap is no
\* longer valid.
THEOREM BytesReadBack ==
  ASSUME NEW t \in Taps, IsValid(t), NEW b \in Seq(Byte), Len(b) < LongLimit, NEW more \in Seq(Byte),
         NEW rest \in Seq(Byte), Cuts(Unread(t), more, BytesCode(b), rest)
  PROVE  /\ SkipBytes(t) = ReadBytes(t).tap
         /\ Len(Unread(t)) >= Len(BytesCode(b)) =>
              /\ ReadBytes(t).val = <<"buffer", b>> /\ IsValid(ReadBytes(t).tap)
              /\ Cuts(Unread(ReadBytes(t).tap), more, <<>>, rest)
         /\ Len(Unread(t)) < Len(BytesCode(b)) => ~IsValid(ReadBytes(t).tap)
<1>1. PICK n \in Nat : n = Len(b) /\ n \in SmallLongs
  BY LenProperties, LengthIsSmall
<1>2. PICK c \in Seq(Byte) : c = Code(n) /\ Len(c) \in Nat
  BY <1>1, CodeBytes
<1>3. PICK u \in Seq(Byte) : u = Unread(t) /\ Len(u) \in Nat
  BY UnreadBytes
<1>4. BytesCode(b) = c \o b /\ Len(BytesCode(b)) = Len(c) + n
  BY <1>1, <1>2, ConcatProperties DEF BytesCode
<1>5. PICK tail \in Seq(Byte) : tail = b \o rest
  BY ConcatProperties
<1>6. Cuts(Unread(t), more, Code(n), tail)
  <2>1. Cuts(u, more, c \o b, rest)
    BY <1>3, <1>4
  <2>2. Cuts(u, more, c, tail)
    BY <1>5, <2>1, Recut
  <2>3. QED
    BY <1>2, <1>3, <2>2
<1>7. PICK s \in Taps, v \in Int : s = ReadLong(t).tap /\ v = ReadLong(t).val
  BY ReadMoves, ReadIsInt
<1>8. /\ Len(u) >= Len(c) => v = n /\ IsValid(s) /\ Cuts(Unread(s), more, <<>>, tail)
      /\ Len(u) < Len(c) => ~IsValid(s)
  BY <1>1, <1>2, <1>3, <1>5, <1>6, <1>7, LongReadsBack
<1>9. ReadBytes(t) = IF v < 0 THEN Got(Undefined, Invalidated(t)) ELSE ReadFixed(s, v)
  BY <1>7 DEF ReadBytes
<1>10. SkipBytes(t) = ReadBytes(t).tap
  <2>1. SkipBytes(t) = IF v < 0 THEN Invalidated(t) ELSE Moved(s, v)
    BY <1>7 DEF SkipBytes
  <2>2. ReadFixed(s, v).tap = Moved(s, v)
    BY DEF ReadFixed, Got
  <2>3. Got(Undefined, Invalidated(t)).tap = Invalidated(t)
    BY DEF Got
  <2>4. QED
    BY <1>9, <2>1, <2>2, <2>3
<1>11. CASE Len(u) >= Len(c)
  <2>1. v = n /\ IsValid(s) /\ Cuts(Unread(s), more, <<>>, tail)
    BY <1>8, <1>11
  <2>2. PICK x \in Seq(Byte) : x = Unread(s) /\ Len(x) \in Nat
    BY UnreadBytes
  <2>3. Cuts(x, more, b, rest)
    BY <1>5, <2>1, <2>2, Recut
  <2>4. Len(x) = Len(u) - Len(c)
    <3>1. Len(u \o more) = Len(u) + Len(more) /\ Len(x \o more) = Len(x) + Len(more) /\ Len(more) \in Nat
      BY ConcatProperties, LenProperties
    <3>2. Len(c \o tail) = Len(c) + Len(tail) /\ Len(tail) \in Nat
      BY ConcatProperties, LenProperties
    <3>3. u \o more = c \o tail
      BY <1>2, <1>3, <1>6 DEF Cuts
    <3>4. x \o more = tail
      <4>1. <<>> \o tail = tail
        BY ConcatEmptySeq
      <4>2. QED
        BY <2>1, <2>2, <4>1 DEF Cuts
    <3>5. Len(u) + Len(more) = Len(c) + Len(tail) /\ Len(x) + Len(more) = Len(tail)
      BY <3>1, <3>2, <3>3, <3>4
    <3>6. PICK i \in Nat, j \in Nat, k \in Nat, l \in Nat, m \in Nat :
            i = Len(u) /\ j = Len(x) /\ k = Len(c) /\ l = Len(more) /\ m = Len(tail)
      BY <1>2, <1>3, <2>2, <3>1, <3>2
    <3>7. i + l = k + m /\ j + l = m
      BY <3>5, <3>6
    <3>8. j = i - k
      BY <3>7
    <3>9. QED
      BY <3>6, <3>8
  <2>5. PICK w : w = ReadFixed(s, n)
    OBVIOUS
  <2>6. ReadBytes(t) = w
    <3>1. ~(n < 0)
      OBVIOUS
    <3>2. QED
      BY <1>9, <2>1, <2>5, <3>1
  <2>7. Cuts(Unread(s), more, b, rest)
    BY <2>2, <2>3
  <2>8. /\ Len(x) >= n => w.val = <<"buffer", b>> /\ IsValid(w.tap) /\ Cuts(Unread(w.tap), more, <<>>, rest)
        /\ Len(x) < n => ~IsValid(w.tap)
    BY <1>1, <2>1, <2>2, <2>5, <2>7, FixedReadsBack
  <2>9. (Len(u) >= Len(c) + n <=> Len(x) >= n) /\ (Len(u) < Len(c) + n <=> Len(x) < n)
    BY <1>2, <1>3, <2>2, <2>4
  <2>10. QED
    BY <1>3, <1>4, <1>10, <2>6, <2>8, <2>9
<1>12. CASE Len(u) < Len(c)
  <2>1. ~IsValid(s)
    BY <1>8, <1>12
  <2>2. ~IsValid(ReadBytes(t).tap)
    <3>1. CASE v < 0
      <4>1. ReadBytes(t).tap = Invalidated(t)
        BY <1>9, <3>1 DEF Got
      <4>2. PICK m \in Nat : m = Len(t.arr)
        BY UnreadBytes
      <4>3. Invalidated(t).arr = t.arr /\ Invalidated(t).pos = m + 1
        BY <4>2 DEF Invalidated, Taps
      <4>4. ~(m + 1 <= m)
        OBVIOUS
      <4>5. QED
        BY <4>1, <4>2, <4>3, <4>4 DEF IsValid
    <3>2. CASE ~(v < 0)
      <4>1. v \in Nat
        BY <3>2
      <4>2. ReadBytes(t).tap = Moved(s, v)
        BY <1>9, <3>2 DEF ReadFixed, Got
      <4>3. QED
        BY <2>1, <4>1, <4>2, MovedOn
    <3>3. QED
      BY <3>1, <3>2
  <2>3. ~(Len(u) >= Len(c) + n)
    BY <1>2, <1>3, <1>12
  <2>4. QED
    BY <1>3, <1>4, <1>10, <2>2, <2>3
<1>13. QED
  BY <1>2, <1>3, <1>11, <1>12

----------------------------------------------------------------------------
(* The streams: what the two taps, the wire and the values agree on. *)

RawTyped ==
  /\ job \in Writes /\ encoded \in 0..Len(job.values)
  /\ tap \in Taps /\ IsValid(tap) /\ wire \in Seq(Byte) /\ input \in Taps
  /\ flushed \in BOOLEAN /\ tainted \in BOOLEAN /\ hasWriteCb \in BOOLEAN /\ written \in BOOLEAN
  /\ wantsPush \in BOOLEAN /\ inputEnded \in BOOLEAN /\ reads \in BOOLEAN
  /\ outputEnded \in BOOLEAN /\ misfired \in BOOLEAN

\* Each end comes after the one before it; up to the last the decoder has not read too far.
EndsInTurn ==
  /\ flushed => encoded = Len(job.values)
  /\ inputEnded => flushed /\ wire = <<>>
  /\ outputEnded => inputEnded
  /\ ~outputEnded => IsValid(input)

\* While the last write was called back, the stream does not read, up to the end.
CalledOnce == ~misfired /\ (hasWriteCb /\ ~written /\ ~inputEnded => reads)

\* What is with the encoder, and what the decoder does not have yet.
Kept == IF flushed THEN <<>> ELSE Written(tap)
Ahead == wire \o Kept

\* What was pushed are the first of the whole values; the bytes of the others are on the way.
AllDue ==
  ~tainted => \E k : Due(Accepted(SubSeq(job.values, 1, encoded)), decoded, k, outputEnded, Unread(input), Ahead)

RInv == RawTyped /\ EndsInTurn /\ CalledOnce /\ AllDue

LEMMA JobIs ==
  ASSUME job \in Writes
  PROVE  /\ job.values \in Seq(Seq(SmallLongs)) /\ Len(job.values) \in Nat /\ job.batch \in Nat
         /\ \A i \in 1..Len(job.values) : job.values[i] \in Seq(SmallLongs) /\ Len(job.values[i]) <= 2
<1>1. /\ job.values \in Seq(Seq(SmallLongs)) /\ job.batch \in Nat
      /\ \A i \in DOMAIN job.values : Len(job.values[i]) <= 2
  BY WritesAssumption
<1>2. Len(job.values) \in Nat /\ DOMAIN job.values = 1..Len(job.values)
  BY <1>1, LenProperties
<1>3. \A i \in 1..Len(job.values) : job.values[i] \in Seq(SmallLongs)
  BY <1>1, ElementOfSeq
<1>4. QED
  BY <1>1, <1>2, <1>3

LEMMA KeptBytes ==
  ASSUME RawTyped
  PROVE  Written(tap) \in Seq(Byte) /\ Kept \in Seq(Byte) /\ Ahead \in Seq(Byte)
<1>1. tap.arr \in Seq(Byte) /\ tap.pos \in Nat /\ Len(tap.arr) \in Nat /\ tap.pos <= Len(tap.arr)
  BY UnreadBytes DEF RawTyped, IsValid
<1>2. Written(tap) \in Seq(Byte)
  <2>1. tap.pos \in 0..Len(tap.arr)
    BY <1>1
  <2>2. QED
    BY <1>1, <2>1, FirstOnes DEF Written
<1>3. Kept \in Seq(Byte)
  BY <1>2, EmptySeq DEF Kept
<1>4. wire \in Seq(Byte)
  BY DEF RawTyped
<1>5. wire \o Kept \in Seq(Byte)
  BY <1>3, <1>4, ConcatProperties
<1>6. QED
  BY <1>2, <1>3, <1>5 DEF Ahead

\* The whole values so far, and with the next.
LEMMA WholeSoFar ==
  ASSUME job \in Writes, encoded \in 0..Len(job.values)
  PROVE  /\ Accepted(SubSeq(job.values, 1, encoded)) \in Seq(Pairs)
         /\ encoded < Len(job.values) =>
              Accepted(SubSeq(job.values, 1, encoded + 1)) =
                IF Len(job.values[encoded + 1]) = 2
                  THEN Append(Accepted(SubSeq(job.values, 1, encoded)), job.values[encoded + 1])
                  ELSE Accepted(SubSeq(job.values, 1, encoded))
<1>1. PICK values \in Seq(Seq(SmallLongs)) : values = job.values
  BY JobIs
<1>2. encoded \in 0..Len(values)
  BY <1>1
<1>3. Accepted(SubSeq(values, 1, encoded)) \in Seq({v \in Seq(SmallLongs) : Len(v) = 2})
  BY <1>2, AcceptedMore
<1>4. encoded < Len(values) =>
        Accepted(SubSeq(values, 1, encoded + 1)) =
          IF Len(values[encoded + 1]) = 2 THEN Append(Accepted(SubSeq(values, 1, encoded)), values[encoded + 1])
                                          ELSE Accepted(SubSeq(values, 1, encoded))
  BY <1>2, AcceptedMore
<1>5. QED
  BY <1>1, <1>3, <1>4 DEF Pairs

\* What a value does to tap and wire: the tap is valid again, and what was and is on the way
\* differs by the value, unless the encoder pushes half of it.
LEMMA TransformWrites ==
  ASSUME RawTyped, Transform, NEW v, v = job.values[encoded + 1]
  PROVE  /\ v \in Seq(SmallLongs) /\ Len(v) \in 0..2 /\ encoded < Len(job.values) /\ encoded' = encoded + 1
         /\ tap' \in Taps /\ IsValid(tap') /\ wire' \in Seq(Byte)
         /\ Len(v) = 0 => tap' = tap /\ wire' = wire
         /\ ~Taints(v) /\ Len(v) = 2 => wire' \o Written(tap') = (wire \o Written(tap)) \o PairCode(v)
<1>1. job \in Writes /\ encoded \in 0..Len(job.values) /\ encoded < Len(job.values) /\ encoded' = encoded + 1
  BY DEF RawTyped, Transform
<1>2. encoded + 1 \in 1..Len(job.values) /\ Len(job.values) \in Nat
  BY <1>1, JobIs
<1>3. v \in Seq(SmallLongs) /\ Len(v) <= 2
  BY <1>1, <1>2, JobIs
<1>4. Len(v) \in 0..2
  <2>1. PICK m \in Nat : m = Len(v)
    BY <1>3, LenProperties
  <2>2. m <= 2
    BY <1>3, <2>1
  <2>3. \A x \in Nat : x <= 2 => x \in 0..2
    OBVIOUS
  <2>4. m \in 0..2
    BY <2>2, <2>3
  <2>5. QED
    BY <2>1, <2>4
<1>5. PICK full : /\ full = WriteRecord(tap, v)
                  /\ IF IsValid(full) THEN tap' = full /\ wire' = wire
                     ELSE /\ wire' = IF tap.pos > 0 THEN wire \o full.arr ELSE wire
                          /\ tap' = WriteRecord(Emptied(full, full.pos - tap.pos), v)
  BY DEF Transform
<1>6. tap \in Taps /\ IsValid(tap) /\ wire \in Seq(Byte) /\ Written(tap) \in Seq(Byte)
  BY KeptBytes DEF RawTyped
<1>7. PICK r \in Seq(Byte) : r = RecordCode(v) /\ Len(r) \in Nat
  BY <1>3, <1>6, RecordWritten
<1>8. /\ full \in Taps /\ Len(full.arr) = Len(tap.arr) /\ full.pos = tap.pos + Len(r)
      /\ IsValid(full) => Written(full) = Written(tap) \o r
      /\ tap.pos >= Len(tap.arr) => full.arr = tap.arr
      /\ Len(v) = 0 => full = tap
  <2>1. full = WriteRecord(tap, v)
    BY <1>5
  <2>2. /\ full \in Taps /\ Len(full.arr) = Len(tap.arr) /\ full.pos = tap.pos + Len(RecordCode(v))
        /\ IsValid(full) => Written(full) = Written(tap) \o RecordCode(v)
        /\ tap.pos >= Len(tap.arr) => full.arr = tap.arr
        /\ Len(v) = 0 => full = tap
    BY <1>3, <1>6, <2>1, RecordWritten
  <2>3. QED
    BY <1>7, <2>2
<1>9. Len(v) = 2 => r = PairCode(v)
  BY <1>3, <1>6, <1>7, RecordWritten
<1>10. tap.pos \in Nat /\ Len(tap.arr) \in Nat /\ tap.arr \in Seq(Byte) /\ tap.pos <= Len(tap.arr)
  BY <1>6, UnreadBytes DEF IsValid
<1>11. CASE IsValid(full)
  <2>1. tap' = full /\ wire' = wire
    BY <1>5, <1>11
  <2>2. wire \o (Written(tap) \o r) = (wire \o Written(tap)) \o r
    <3>1. PICK x \in Seq(Byte) : x = Written(tap)
      BY <1>6
    <3>2. (wire \o x) \o r = wire \o (x \o r)
      BY <1>6, ConcatAssociative, SMTT(60)
    <3>3. QED
      BY <3>1, <3>2
  <2>3. Written(tap') = Written(tap) \o r
    BY <1>8, <1>11, <2>1
  <2>4. QED
    BY <1>1, <1>3, <1>4, <1>6, <1>8, <1>9, <1>11, <2>1, <2>2, <2>3
<1>12. CASE ~IsValid(full)
  <2>1. Len(v) # 0
    BY <1>6, <1>8, <1>12
  <2>2. full.pos - tap.pos = Len(r)
    BY <1>7, <1>8, <1>10
  <2>3. PICK e \in Taps : e = Emptied(full, Len(r)) /\ e.pos = 0 /\ Len(e.arr) \in Nat /\ Len(e.arr) >= Len(r) /\ Written(e) = <<>>
    BY <1>7, <1>8, EmptiedHasRoom
  <2>4. tap' = WriteRecord(e, v)
    BY <1>5, <1>12, <2>2, <2>3
  <2>5. /\ tap' \in Taps /\ Len(tap'.arr) = Len(e.arr) /\ tap'.pos = e.pos + Len(r)
        /\ IsValid(tap') => Written(tap') = Written(e) \o r
    BY <1>3, <1>7, <2>3, <2>4, RecordWritten
  <2>6. tap'.pos <= Len(tap'.arr)
    BY <1>7, <2>3, <2>5
  <2>7. IsValid(tap')
    BY <2>6 DEF IsValid
  <2>8. Written(tap') = r
    BY <2>3, <2>5, <2>7, ConcatEmptySeq
  <2>9. full.arr \in Seq(Byte)
    BY <1>8, UnreadBytes
  <2>10. wire' \in Seq(Byte)
    <3>1. wire \o full.arr \in Seq(Byte)
      BY <1>6, <2>9, ConcatProperties
    <3>2. QED
      BY <1>5, <1>6, <1>12, <3>1
  <2>11. ASSUME ~Taints(v) PROVE wire' = wire \o Written(tap)
    <3>1. ~(tap.pos \in 1..Len(tap.arr) - 1)
      BY <1>5, <1>12, <2>11 DEF Taints
    <3>2. tap.pos = 0 \/ (tap.pos > 0 /\ tap.pos = Len(tap.arr))
      <4>1. PICK p \in Nat, m \in Nat : p = tap.pos /\ m = Len(tap.arr) /\ p <= m
        BY <1>10
      <4>2. ~(p \in 1..m - 1)
        BY <3>1, <4>1
      <4>3. p = 0 \/ (p > 0 /\ p = m)
        BY <4>1, <4>2
      <4>4. QED
        BY <4>1, <4>3
    <3>3. CASE tap.pos = 0
      <4>1. Written(tap) = <<>>
        BY <1>10, <3>3, SubSeqEmpty DEF Written
      <4>2. wire' = wire
        BY <1>5, <1>12, <3>3
      <4>3. QED
        BY <1>6, <4>1, <4>2, ConcatEmptySeq
    <3>4. CASE tap.pos > 0 /\ tap.pos = Len(tap.arr)
      <4>1. Written(tap) = tap.arr
        BY <1>10, <3>4, SubSeqFull DEF Written
      <4>2. full.arr = tap.arr
        BY <1>8, <1>10, <3>4
      <4>3. QED
        BY <1>5, <1>12, <3>4, <4>1, <4>2
    <3>5. QED
      BY <3>2, <3>3, <3>4
  <2>12. QED
    BY <1>1, <1>3, <1>4, <1>9, <2>1, <2>5, <2>7, <2>8, <2>10, <2>11
<1>13. QED
  BY <1>11, <1>12

\* Bytes that go from the wire, or from the encoder, to the decoder are still due.
LEMMA DueArrives ==
  ASSUME NEW list, NEW done, NEW k, NEW unread \in Seq(Byte), NEW now \in Seq(Byte), NEW later \in Seq(Byte),
         NEW kept \in Seq(Byte), Due(list, done, k, FALSE, unread, (now \o later) \o kept)
  PROVE  Due(list, done, k, FALSE, unread \o now, later \o kept)
<1>1. PICK a \in Seq(Byte) : a = later \o kept
  BY ConcatProperties
<1>2. (now \o later) \o kept = now \o a
  BY <1>1, ConcatAssociative, SMTT(60)
<1>3. unread \o (now \o a) = (unread \o now) \o a
  BY ConcatAssociative, SMTT(60)
<1>4. k \in 0..Len(list) /\ done = SubSeq(list, 1, k)
  BY DEF Due
<1>5. Cuts(unread, now \o a, <<>>, Behind(Coded(list), k))
  BY <1>2 DEF Due
<1>6. Cuts(unread \o now, a, <<>>, Behind(Coded(list), k))
  BY <1>3, <1>5 DEF Cuts
<1>7. QED
  BY <1>1, <1>4, <1>6 DEF Due

LEMMA TransformKeeps ==
  ASSUME RInv, Transform
  PROVE  RInv'
<1>1. RawTyped /\ EndsInTurn /\ CalledOnce /\ AllDue
  BY DEF RInv
<1>2. PICK v : v = job.values[encoded + 1]
  OBVIOUS
<1>3. /\ v \in Seq(SmallLongs) /\ Len(v) \in 0..2 /\ encoded < Len(job.values) /\ encoded' = encoded + 1
      /\ tap' \in Taps /\ IsValid(tap') /\ wire' \in Seq(Byte)
      /\ Len(v) = 0 => tap' = tap /\ wire' = wire
      /\ ~Taints(v) /\ Len(v) = 2 => wire' \o Written(tap') = (wire \o Written(tap)) \o PairCode(v)
  BY <1>1, <1>2, TransformWrites
<1>4. /\ flushed = FALSE /\ tainted' = (tainted \/ Taints(v)) /\ job' = job /\ flushed' = flushed
      /\ input' = input /\ hasWriteCb' = hasWriteCb /\ written' = written /\ wantsPush' = wantsPush
      /\ inputEnded' = inputEnded /\ reads' = reads /\ decoded' = decoded /\ outputEnded' = outputEnded
      /\ misfired' = misfired
  BY <1>1, <1>2 DEF Transform, RawTyped, decoderSide
<1>5. RawTyped'
  <2>1. encoded + 1 \in 0..Len(job.values)
    <3>1. Len(job.values) \in Nat /\ encoded \in 0..Len(job.values)
      BY <1>1, JobIs DEF RawTyped
    <3>2. QED
      BY <1>3, <3>1
  <2>2. job' \in Writes /\ encoded' \in 0..Len(job'.values)
    BY <1>1, <1>3, <1>4, <2>1 DEF RawTyped
  <2>3. tainted' \in BOOLEAN
    BY <1>4
  <2>4. QED
    BY <1>1, <1>3, <1>4, <2>2, <2>3 DEF RawTyped, IsValid
<1>6. EndsInTurn'
  BY <1>1, <1>4 DEF EndsInTurn, IsValid
<1>7. CalledOnce'
  BY <1>1, <1>4 DEF CalledOnce
<1>8. ASSUME ~tainted'
      PROVE  \E k : Due(Accepted(SubSeq(job'.values, 1, encoded')), decoded', k, outputEnded', Unread(input'), Ahead')
  <2>1. ~tainted /\ ~Taints(v)
    BY <1>4, <1>8
  <2>2. PICK list \in Seq(Pairs) : list = Accepted(SubSeq(job.values, 1, encoded))
    BY <1>1, WholeSoFar DEF RawTyped
  <2>3. PICK u \in Seq(Byte) : u = Unread(input)
    BY <1>1, UnreadBytes DEF RawTyped
  <2>4. PICK a \in Seq(Byte) : a = Ahead
    BY <1>1, KeptBytes
  <2>5. outputEnded = FALSE
    BY <1>1, <1>4 DEF EndsInTurn, RawTyped
  <2>6. PICK k : Due(list, decoded, k, FALSE, u, a)
    BY <1>1, <2>1, <2>2, <2>3, <2>4, <2>5 DEF AllDue
  <2>7. a = wire \o Written(tap) /\ Ahead' = wire' \o Written(tap')
    BY <1>4, <2>4 DEF Ahead, Kept, Written
  <2>8. job'.values = job.values
    BY <1>4
  <2>9. Accepted(SubSeq(job'.values, 1, encoded')) = IF Len(v) = 2 THEN Append(list, v) ELSE list
    BY <1>1, <1>2, <1>3, <2>2, <2>8, WholeSoFar DEF RawTyped
  <2>10. CASE Len(v) = 0
    <3>1. Accepted(SubSeq(job'.values, 1, encoded')) = list
      BY <2>9, <2>10
    <3>2. Ahead' = a
      BY <1>3, <2>7, <2>10
    <3>3. QED
      BY <1>4, <2>3, <2>5, <2>6, <3>1, <3>2
  <2>11. CASE Len(v) = 2
    <3>1. v \in Pairs
      BY <1>3, <2>11 DEF Pairs
    <3>2. Accepted(SubSeq(job'.values, 1, encoded')) = Append(list, v)
      BY <2>9, <2>11
    <3>3. Ahead' = a \o PairCode(v)
      BY <1>3, <2>1, <2>7, <2>11
    <3>4. Due(Append(list, v), decoded, k, FALSE, u, a \o PairCode(v))
      BY <2>6, <3>1, DueMore
    <3>5. QED
      BY <1>4, <2>3, <2>5, <3>2, <3>3, <3>4
  <2>12. Len(v) = 0 \/ Len(v) = 2
    <3>1. Len(v) # 1
      BY <2>1 DEF Taints
    <3>2. QED
      BY <1>3, <3>1
  <2>13. QED
    BY <2>10, <2>11, <2>12
<1>9. AllDue'
  BY <1>8 DEF AllDue
<1>10. QED
  BY <1>5, <1>6, <1>7, <1>9 DEF RInv

LEMMA RawFlushKeeps ==
  ASSUME RInv, Flush
  PROVE  RInv'
<1>1. RawTyped /\ EndsInTurn /\ CalledOnce /\ AllDue
  BY DEF RInv
<1>2. /\ flushed = FALSE /\ encoded = Len(job.values) /\ flushed' = TRUE /\ wire' = wire \o Written(tap)
      /\ job' = job /\ encoded' = encoded /\ tap' = tap /\ tainted' = tainted
      /\ input' = input /\ hasWriteCb' = hasWriteCb /\ written' = written /\ wantsPush' = wantsPush
      /\ inputEnded' = inputEnded /\ reads' = reads /\ decoded' = decoded /\ outputEnded' = outputEnded
      /\ misfired' = misfired
  BY <1>1 DEF Flush, RawTyped, decoderSide
<1>3. wire \in Seq(Byte) /\ Written(tap) \in Seq(Byte) /\ wire \o Written(tap) \in Seq(Byte)
  BY <1>1, KeptBytes, ConcatProperties DEF RawTyped
<1>4. RawTyped'
  BY <1>1, <1>2, <1>3 DEF RawTyped, IsValid
<1>5. EndsInTurn'
  BY <1>1, <1>2 DEF EndsInTurn, IsValid
<1>6. CalledOnce'
  BY <1>1, <1>2 DEF CalledOnce
<1>7. Ahead' = Ahead
  <2>1. Ahead = wire \o Written(tap)
    BY <1>2 DEF Ahead, Kept
  <2>2. Ahead' = (wire \o Written(tap)) \o <<>>
    BY <1>2 DEF Ahead, Kept
  <2>3. (wire \o Written(tap)) \o <<>> = wire \o Written(tap)
    BY <1>3, ConcatEmptySeq
  <2>4. QED
    BY <2>1, <2>2, <2>3
<1>8. AllDue'
  BY <1>1, <1>2, <1>7 DEF AllDue
<1>9. QED
  BY <1>4, <1>5, <1>6, <1>8 DEF RInv

\* What a read does, with that tap: the next record is pushed, or the end, or the write is
\* called back, once.
LEMMA RecordReadKeeps ==
  ASSUME NEW buffer \in Taps, IsValid(buffer), NEW open \in BOOLEAN, NEW final \in BOOLEAN,
         ReadOne(buffer, open, final), outputEnded = FALSE, misfired = FALSE,
         hasWriteCb' /\ ~final => open,
         NEW list \in Seq(Pairs), NEW ahead \in Seq(Byte), final => ahead = <<>>
  PROVE  /\ input' \in Taps /\ wantsPush' \in BOOLEAN /\ reads' \in BOOLEAN /\ written' \in BOOLEAN
         /\ outputEnded' \in BOOLEAN /\ misfired' = FALSE
         /\ outputEnded' => final
         /\ ~outputEnded' => IsValid(input')
         /\ hasWriteCb' /\ ~written' /\ ~final => reads'
         /\ (\E k : Due(list, decoded, k, FALSE, Unread(buffer), ahead))
              => \E k : Due(list, decoded', k, outputEnded', Unread(input'), ahead)
<1>1. PICK first : first = ReadLong(buffer)
  OBVIOUS
<1>2. PICK second : second = ReadLong(first.tap)
  OBVIOUS
<1>3. first.tap \in Taps /\ second.tap \in Taps
  BY <1>1, <1>2, ReadMoves
<1>4. \A k : Due(list, decoded, k, FALSE, Unread(buffer), ahead) =>
        /\ IsValid(second.tap) =>
             Due(list, Append(decoded, <<first.val, second.val>>), k + 1, FALSE, Unread(second.tap), ahead)
        /\ ~IsValid(second.tap) /\ ahead = <<>> => Due(list, decoded, k, TRUE, Unread(second.tap), ahead)
  BY <1>1, <1>2, DueIsRead
<1>5. \/ /\ IsValid(second.tap) /\ input' = second.tap
         /\ decoded' = Append(decoded, <<first.val, second.val>>)
         /\ reads' = FALSE /\ wantsPush' = FALSE /\ written' = open
         /\ outputEnded' = outputEnded /\ misfired' = misfired
      \/ /\ ~IsValid(second.tap) /\ final /\ input' = second.tap /\ outputEnded' = TRUE
         /\ reads' = FALSE /\ wantsPush' = FALSE /\ written' = open
         /\ decoded' = decoded /\ misfired' = misfired
      \/ /\ ~IsValid(second.tap) /\ ~final /\ input' = buffer /\ wantsPush' = TRUE
         /\ reads' = TRUE /\ written' = FALSE
         /\ misfired' = (misfired \/ (hasWriteCb' /\ ~open))
         /\ decoded' = decoded /\ outputEnded' = outputEnded
  BY <1>1, <1>2 DEF ReadOne
<1>6. CASE /\ IsValid(second.tap) /\ input' = second.tap
           /\ decoded' = Append(decoded, <<first.val, second.val>>)
           /\ reads' = FALSE /\ wantsPush' = FALSE /\ written' = open
           /\ outputEnded' = outputEnded /\ misfired' = misfired
  <2>1. (\E k : Due(list, decoded, k, FALSE, Unread(buffer), ahead))
          => \E k : Due(list, decoded', k, outputEnded', Unread(input'), ahead)
    BY <1>4, <1>6
  <2>2. IsValid(input')
    BY <1>6
  <2>3. QED
    BY <1>3, <1>6, <2>1, <2>2
<1>7. CASE /\ ~IsValid(second.tap) /\ final /\ input' = second.tap /\ outputEnded' = TRUE
           /\ reads' = FALSE /\ wantsPush' = FALSE /\ written' = open
           /\ decoded' = decoded /\ misfired' = misfired
  <2>1. (\E k : Due(list, decoded, k, FALSE, Unread(buffer), ahead))
          => \E k : Due(list, decoded', k, outputEnded', Unread(input'), ahead)
    BY <1>4, <1>7
  <2>2. QED
    BY <1>3, <1>7, <2>1
<1>8. CASE /\ ~IsValid(second.tap) /\ ~final /\ input' = buffer /\ wantsPush' = TRUE
           /\ reads' = TRUE /\ written' = FALSE
           /\ misfired' = (misfired \/ (hasWriteCb' /\ ~open))
           /\ decoded' = decoded /\ outputEnded' = outputEnded
  <2>1. (\E k : Due(list, decoded, k, FALSE, Unread(buffer), ahead))
          => \E k : Due(list, decoded', k, outputEnded', Unread(input'), ahead)
    BY <1>8
  <2>2. misfired' = FALSE
    BY <1>8
  <2>3. IsValid(input')
    BY <1>8
  <2>4. QED
    BY <1>8, <2>1, <2>2, <2>3
<1>9. QED
  BY <1>5, <1>6, <1>7, <1>8

LEMMA ReceiveKeeps ==
  ASSUME RInv, NEW n \in 1..Len(wire), Receive(n)
  PROVE  RInv'
<1>1. RawTyped /\ EndsInTurn /\ CalledOnce /\ AllDue
  BY DEF RInv
<1>2. /\ written = FALSE /\ inputEnded = FALSE /\ hasWriteCb' = TRUE
      /\ wire' = SubSeq(wire, n + 1, Len(wire))
      /\ job' = job /\ encoded' = encoded /\ tap' = tap /\ flushed' = flushed /\ tainted' = tainted
      /\ inputEnded' = inputEnded
  BY <1>1 DEF Receive, RawTyped, encoderSide
<1>3. outputEnded = FALSE /\ misfired = FALSE /\ IsValid(input) /\ input \in Taps /\ wire \in Seq(Byte)
  BY <1>1, <1>2 DEF EndsInTurn, CalledOnce, RawTyped
<1>4. PICK u \in Seq(Byte) : u = Unread(input)
  BY <1>3, UnreadBytes
<1>5. PICK now \in Seq(Byte), later \in Seq(Byte) :
        now = SubSeq(wire, 1, n) /\ later = SubSeq(wire, n + 1, Len(wire)) /\ wire = now \o later
  <2>1. PICK m \in Nat : m = Len(wire) /\ n \in 1..m
    BY <1>3, LenProperties
  <2>2. n \in 0..Len(wire) /\ n \in Int /\ n + 1 \in Int /\ m \in Int
    BY <2>1
  <2>3. SubSeq(wire, 1, n) \in Seq(Byte)
    BY <1>3, <2>2, FirstOnes
  <2>4. SubSeq(wire, n + 1, m) \in Seq(Byte)
    <3>1. \A i \in n + 1 .. m : wire[i] \in Byte
      BY <1>3, <2>1, ElementOfSeq
    <3>2. QED
      BY <2>2, <3>1, SubSeqProperties
  <2>5. SubSeq(wire, 1, n) \o SubSeq(wire, n + 1, m) = SubSeq(wire, 1, m)
    <3>1. 1 \in 1..Len(wire) + 1 /\ n \in 1 - 1 .. Len(wire) /\ m \in n..Len(wire)
      BY <2>1
    <3>2. QED
      BY <1>3, <3>1, ConcatAdjacentSubSeq
  <2>6. SubSeq(wire, 1, m) = wire
    BY <1>3, <2>1, SubSeqFull
  <2>7. QED
    BY <2>1, <2>3, <2>4, <2>5, <2>6
<1>6. PICK all \in Seq(Byte) : all = u \o now
  BY ConcatProperties
<1>7. PICK buffer : buffer = Forward(input, now)
  OBVIOUS
<1>8. /\ buffer = [arr |-> all, pos |-> 0] /\ buffer \in Taps
      /\ IsValid(buffer) /\ Unread(buffer) = all
  <2>1. buffer = [arr |-> all, pos |-> 0]
    BY <1>4, <1>6, <1>7 DEF Forward, Tap, Unread
  <2>2. buffer \in Taps
    BY <2>1 DEF Taps
  <2>3. IsValid(buffer)
    BY <2>1, LenProperties DEF IsValid
  <2>4. Unread(buffer) = SubSeq(all, 1, Len(all))
    BY <2>1 DEF Unread
  <2>5. QED
    BY <2>1, <2>2, <2>3, <2>4, SubSeqFull
<1>9. IF wantsPush THEN ReadOne(buffer, TRUE, FALSE)
      ELSE /\ input' = buffer /\ written' = TRUE
           /\ wantsPush' = wantsPush /\ reads' = reads /\ decoded' = decoded
           /\ outputEnded' = outputEnded /\ misfired' = misfired
  BY <1>5, <1>7 DEF Receive
<1>10. PICK list \in Seq(Pairs) : list = Accepted(SubSeq(job.values, 1, encoded))
  BY <1>1, WholeSoFar DEF RawTyped
<1>11. PICK kept \in Seq(Byte) : kept = Kept
  BY <1>1, KeptBytes
<1>12. PICK ahead \in Seq(Byte) : ahead = later \o kept
  BY ConcatProperties
<1>13. Ahead' = ahead
  BY <1>2, <1>5, <1>11, <1>12 DEF Ahead, Kept, Written
<1>14. ASSUME ~tainted PROVE \E k : Due(list, decoded, k, FALSE, Unread(buffer), ahead)
  <2>1. PICK k : Due(list, decoded, k, FALSE, u, (now \o later) \o kept)
    BY <1>1, <1>3, <1>4, <1>5, <1>10, <1>11, <1>14 DEF AllDue, Ahead
  <2>2. Due(list, decoded, k, FALSE, u \o now, later \o kept)
    BY <2>1, DueArrives
  <2>3. QED
    BY <1>6, <1>8, <1>12, <2>2
<1>15. /\ input' \in Taps /\ wantsPush' \in BOOLEAN /\ reads' \in BOOLEAN /\ written' \in BOOLEAN
       /\ outputEnded' = FALSE /\ misfired' = FALSE /\ IsValid(input')
       /\ hasWriteCb' /\ ~written' => reads'
       /\ (\E k : Due(list, decoded, k, FALSE, Unread(buffer), ahead))
            => \E k : Due(list, decoded', k, outputEnded', Unread(input'), ahead)
  <2>1. CASE wantsPush
    <3>1. ReadOne(buffer, TRUE, FALSE)
      BY <1>9, <2>1
    <3>2. /\ input' \in Taps /\ wantsPush' \in BOOLEAN /\ reads' \in BOOLEAN /\ written' \in BOOLEAN
          /\ outputEnded' \in BOOLEAN /\ misfired' = FALSE
          /\ outputEnded' => FALSE
          /\ ~outputEnded' => IsValid(input')
          /\ hasWriteCb' /\ ~written' /\ ~FALSE => reads'
          /\ (\E k : Due(list, decoded, k, FALSE, Unread(buffer), ahead))
               => \E k : Due(list, decoded', k, outputEnded', Unread(input'), ahead)
      BY <1>3, <1>8, <3>1, RecordReadKeeps
    <3>3. QED
      BY <3>2
  <2>2. CASE ~wantsPush
    <3>1. /\ input' = buffer /\ written' = TRUE
          /\ wantsPush' = wantsPush /\ reads' = reads /\ decoded' = decoded
          /\ outputEnded' = outputEnded /\ misfired' = misfired
      BY <1>9, <2>2
    <3>2. (\E k : Due(list, decoded, k, FALSE, Unread(buffer), ahead))
            => \E k : Due(list, decoded', k, outputEnded', Unread(input'), ahead)
      BY <1>3, <3>1
    <3>3. wantsPush' \in BOOLEAN /\ reads' \in BOOLEAN
      BY <1>1, <3>1 DEF RawTyped
    <3>4. IsValid(input')
      BY <1>8, <3>1
    <3>5. QED
      BY <1>3, <1>8, <3>1, <3>2, <3>3, <3>4
  <2>3. QED
    BY <2>1, <2>2
<1>16. RawTyped'
  <2>1. wire' \in Seq(Byte)
    BY <1>2, <1>5
  <2>2. IsValid(tap)'
    BY <1>1, <1>2 DEF RawTyped, IsValid
  <2>3. hasWriteCb' \in BOOLEAN /\ outputEnded' \in BOOLEAN /\ misfired' \in BOOLEAN
    BY <1>2, <1>15
  <2>4. QED
    BY <1>1, <1>2, <1>15, <2>1, <2>2, <2>3 DEF RawTyped
<1>17. EndsInTurn'
  <2>1. IsValid(input)'
    BY <1>15 DEF IsValid
  <2>2. QED
    BY <1>1, <1>2, <1>15, <2>1 DEF EndsInTurn
<1>18. CalledOnce'
  BY <1>15 DEF CalledOnce
<1>19. AllDue'
  <2>1. SUFFICES ASSUME ~tainted'
                 PROVE  \E k : Due(Accepted(SubSeq(job'.values, 1, encoded')), decoded', k, outputEnded', Unread(input'), Ahead')
    BY DEF AllDue, Unread
  <2>2. Accepted(SubSeq(job'.values, 1, encoded')) = list /\ ~tainted
    BY <1>2, <1>10, <2>1
  <2>3. QED
    BY <1>13, <1>14, <1>15, <2>2
<1>20. QED
  BY <1>16, <1>17, <1>18, <1>19 DEF RInv

\* The stream asks for a value, or the input has ended.
LEMMA ReadingKeeps ==
  ASSUME RInv, NEW open \in BOOLEAN, ReadOne(input, open, inputEnded'), outputEnded = FALSE,
         inputEnded' \in BOOLEAN, inputEnded' => flushed /\ wire = <<>>,
         hasWriteCb' = hasWriteCb, hasWriteCb /\ ~inputEnded' => open,
         UNCHANGED <<encoderSide, wire>>
  PROVE  RInv'
<1>1. RawTyped /\ EndsInTurn /\ CalledOnce /\ AllDue
  BY DEF RInv
<1>2. /\ job' = job /\ encoded' = encoded /\ tap' = tap /\ flushed' = flushed /\ tainted' = tainted /\ wire' = wire
  BY DEF encoderSide
<1>3. misfired = FALSE /\ IsValid(input) /\ input \in Taps
  BY <1>1 DEF EndsInTurn, CalledOnce, RawTyped
<1>4. PICK buffer \in Taps : buffer = input
  BY <1>3
<1>5. PICK final \in BOOLEAN : final = inputEnded'
  OBVIOUS
<1>6. PICK list \in Seq(Pairs) : list = Accepted(SubSeq(job.values, 1, encoded))
  BY <1>1, WholeSoFar DEF RawTyped
<1>7. PICK ahead \in Seq(Byte) : ahead = Ahead
  BY <1>1, KeptBytes
<1>8. Ahead' = ahead
  BY <1>2, <1>7 DEF Ahead, Kept, Written
<1>9. final => ahead = <<>>
  BY <1>5, <1>7, EmptySeq, ConcatEmptySeq DEF Ahead, Kept
<1>10. ReadOne(buffer, open, final)
  BY <1>4, <1>5
<1>11. hasWriteCb' /\ ~final => open
  BY <1>5
<1>12. /\ input' \in Taps /\ wantsPush' \in BOOLEAN /\ reads' \in BOOLEAN /\ written' \in BOOLEAN
       /\ outputEnded' \in BOOLEAN /\ misfired' = FALSE
       /\ outputEnded' => final
       /\ ~outputEnded' => IsValid(input')
       /\ hasWriteCb' /\ ~written' /\ ~final => reads'
       /\ (\E k : Due(list, decoded, k, FALSE, Unread(buffer), ahead))
            => \E k : Due(list, decoded', k, outputEnded', Unread(input'), ahead)
  BY <1>3, <1>4, <1>9, <1>10, <1>11, RecordReadKeeps
<1>13. RawTyped'
  <2>1. IsValid(tap)'
    BY <1>1, <1>2 DEF RawTyped, IsValid
  <2>2. hasWriteCb' \in BOOLEAN /\ misfired' \in BOOLEAN
    BY <1>1, <1>12 DEF RawTyped
  <2>3. QED
    BY <1>1, <1>2, <1>12, <2>1, <2>2 DEF RawTyped
<1>14. EndsInTurn'
  <2>1. ~outputEnded' => IsValid(input)'
    BY <1>12 DEF IsValid
  <2>2. QED
    BY <1>1, <1>2, <1>5, <1>12, <2>1 DEF EndsInTurn
<1>15. CalledOnce'
  BY <1>5, <1>12 DEF CalledOnce
<1>16. AllDue'
  <2>1. SUFFICES ASSUME ~tainted'
                 PROVE  \E k : Due(Accepted(SubSeq(job'.values, 1, encoded')), decoded', k, outputEnded', Unread(input'), Ahead')
    BY DEF AllDue, Unread
  <2>2. Accepted(SubSeq(job'.values, 1, encoded')) = list /\ ~tainted
    BY <1>2, <1>6, <2>1
  <2>3. \E k : Due(list, decoded, k, FALSE, Unread(buffer), ahead)
    BY <1>1, <1>4, <1>6, <1>7, <2>2 DEF AllDue
  <2>4. QED
    BY <1>8, <1>12, <2>2, <2>3
<1>17. QED
  BY <1>13, <1>14, <1>15, <1>16 DEF RInv

LEMMA AskValueKeeps ==
  ASSUME RInv, AskValue
  PROVE  RInv'
<1>1. RawTyped /\ EndsInTurn /\ CalledOnce
  BY DEF RInv
<1>2. /\ reads = FALSE /\ outputEnded = FALSE /\ hasWriteCb' = hasWriteCb /\ inputEnded' = inputEnded
      /\ ReadOne(input, written, inputEnded) /\ UNCHANGED <<encoderSide, wire>>
  BY <1>1 DEF AskValue, RawTyped
<1>3. PICK open \in BOOLEAN : open = written
  BY <1>1 DEF RawTyped
<1>4. ReadOne(input, open, inputEnded')
  BY <1>2, <1>3
<1>5. inputEnded' \in BOOLEAN /\ (inputEnded' => flushed /\ wire = <<>>)
  BY <1>1, <1>2 DEF RawTyped, EndsInTurn
<1>6. hasWriteCb /\ ~inputEnded' => open
  BY <1>1, <1>2, <1>3 DEF CalledOnce
<1>7. QED
  BY <1>2, <1>4, <1>5, <1>6, ReadingKeeps

LEMMA FinishInputKeeps ==
  ASSUME RInv, FinishInput
  PROVE  RInv'
<1>1. RawTyped /\ EndsInTurn
  BY DEF RInv
<1>2. /\ flushed /\ wire = <<>> /\ inputEnded = FALSE /\ inputEnded' = TRUE /\ hasWriteCb' = hasWriteCb
      /\ ReadOne(input, FALSE, TRUE) /\ UNCHANGED <<encoderSide, wire>>
  BY <1>1 DEF FinishInput, RawTyped
<1>3. outputEnded = FALSE
  BY <1>1, <1>2 DEF EndsInTurn, RawTyped
<1>4. ReadOne(input, FALSE, inputEnded')
  BY <1>2
<1>5. QED
  BY <1>2, <1>3, <1>4, ReadingKeeps

LEMMA RInvInitially == RInit => RInv
<1>1. SUFFICES ASSUME RInit PROVE RInv
  OBVIOUS
<1>2. /\ job \in Writes /\ encoded = 0 /\ tap = Blank(job.batch) /\ flushed = FALSE /\ wire = <<>>
      /\ tainted = FALSE /\ input = Tap(<<>>) /\ hasWriteCb = FALSE /\ written = FALSE /\ wantsPush = FALSE
      /\ inputEnded = FALSE /\ reads = FALSE /\ decoded = <<>> /\ outputEnded = FALSE /\ misfired = FALSE
  BY <1>1 DEF RInit
<1>3. PICK values \in Seq(Seq(SmallLongs)) : values = job.values /\ Len(values) \in Nat
  BY <1>2, JobIs
<1>4. PICK size \in Nat : size = job.batch
  BY <1>2, JobIs
<1>5. tap \in Taps /\ tap.pos = 0 /\ Written(tap) = <<>> /\ IsValid(tap)
  <2>1. PICK z : z = [i \in 1..size |-> 0]
    OBVIOUS
  <2>2. z \in [1..size -> Byte]
    BY <2>1 DEF Byte
  <2>3. z \in Seq(Byte) /\ Len(z) = size
    BY <2>2, LenProperties
  <2>4. tap = [arr |-> z, pos |-> 0]
    BY <1>2, <1>4, <2>1 DEF Blank, Tap
  <2>5. SubSeq(z, 1, 0) = <<>>
    BY SubSeqEmpty
  <2>6. QED
    BY <2>3, <2>4, <2>5 DEF Taps, Written, IsValid
<1>6. <<>> \in Seq(Byte) /\ Len(<<>>) = 0 /\ SubSeq(<<>>, 1, 0) = <<>>
  BY EmptySeq, SubSeqEmpty
<1>7. input \in Taps /\ IsValid(input) /\ Unread(input) = <<>>
  <2>1. input = [arr |-> <<>>, pos |-> 0]
    BY <1>2 DEF Tap
  <2>2. QED
    BY <1>6, <2>1 DEF Taps, IsValid, Unread
<1>8. RawTyped
  <2>1. 0 \in 0..Len(values)
    BY <1>3
  <2>2. job \in Writes /\ encoded \in 0..Len(job.values)
    BY <1>2, <1>3, <2>1
  <2>3. tap \in Taps /\ IsValid(tap) /\ wire \in Seq(Byte) /\ input \in Taps
    BY <1>2, <1>5, <1>6, <1>7
  <2>4. QED
    BY <1>2, <2>2, <2>3 DEF RawTyped
<1>9. EndsInTurn /\ CalledOnce
  BY <1>2, <1>7 DEF EndsInTurn, CalledOnce
<1>10. AllDue
  <2>1. PICK list \in Seq(Pairs) : list = Accepted(SubSeq(values, 1, 0)) /\ list = <<>>
    <3>1. Accepted(SubSeq(values, 1, 0)) = <<>>
      BY <1>3, AcceptedMore
    <3>2. <<>> \in Seq(Pairs)
      BY EmptySeq
    <3>3. QED
      BY <3>1, <3>2
  <2>2. Behind(Coded(list), 0) = <<>>
    <3>1. PICK c \in Seq(Seq(Byte)) : c = Coded(list) /\ Len(c) = 0
      BY <1>6, <2>1, CodedMore
    <3>2. QED
      BY <3>1, BehindNext
  <2>3. Ahead = <<>> \o <<>>
    BY <1>2, <1>5 DEF Ahead, Kept
  <2>4. <<>> \o <<>> = <<>>
    BY EmptySeq, ConcatEmptySeq
  <2>5. Cuts(<<>>, <<>>, <<>>, <<>>)
    BY DEF Cuts
  <2>6. Due(list, <<>>, 0, FALSE, <<>>, <<>>)
    BY <1>6, <2>1, <2>2, <2>5 DEF Due
  <2>7. Due(list, decoded, 0, outputEnded, Unread(input), Ahead)
    BY <1>2, <1>7, <2>3, <2>4, <2>6
  <2>8. list = Accepted(SubSeq(job.values, 1, encoded))
    BY <1>2, <1>3, <2>1
  <2>9. QED
    BY <2>7, <2>8 DEF AllDue
<1>11. QED
  BY <1>8, <1>9, <1>10 DEF RInv

LEMMA RInvStep == RInv /\ [RNext]_rawVars => RInv'
<1>1. SUFFICES ASSUME RInv, [RNext]_rawVars PROVE RInv'
  OBVIOUS
<1>2. CASE Transform
  BY <1>1, <1>2, TransformKeeps
<1>3. CASE Flush
  BY <1>1, <1>3, RawFlushKeeps
<1>4. CASE \E n \in 1..Len(wire) : Receive(n)
  BY <1>1, <1>4, ReceiveKeeps
<1>5. CASE AskValue
  BY <1>1, <1>5, AskValueKeeps
<1>6. CASE FinishInput
  BY <1>1, <1>6, FinishInputKeeps
<1>7. CASE UNCHANGED rawVars
  <2>1. /\ job' = job /\ encoded' = encoded /\ tap' = tap /\ flushed' = flushed /\ tainted' = tainted
        /\ wire' = wire /\ input' = input /\ hasWriteCb' = hasWriteCb /\ written' = written
        /\ wantsPush' = wantsPush /\ inputEnded' = inputEnded /\ reads' = reads /\ decoded' = decoded
        /\ outputEnded' = outputEnded /\ misfired' = misfired
    BY <1>7 DEF rawVars
  <2>2. RawTyped' /\ EndsInTurn' /\ CalledOnce'
    BY <1>1, <2>1 DEF RInv, RawTyped, EndsInTurn, CalledOnce, IsValid
  <2>3. Ahead' = Ahead
    BY <2>1 DEF Ahead, Kept, Written
  <2>4. AllDue'
    BY <1>1, <2>1, <2>3 DEF RInv, AllDue, Unread
  <2>5. QED
    BY <2>2, <2>4 DEF RInv
<1>8. QED
  BY <1>1, <1>2, <1>3, <1>4, <1>5, <1>6, <1>7 DEF RNext

THEOREM RInvHolds == RSpec => []RInv
BY RInvInitially, RInvStep, PTL DEF RSpec

\* The taps, positions and flags of the two streams stay what they are.
THEOREM RawTypeCorrect == RSpec => []RTypeOK
<1>1. RInv => RTypeOK
  <2>1. SUFFICES ASSUME RInv PROVE RTypeOK
    OBVIOUS
  <2>2. RawTyped
    BY <2>1 DEF RInv
  <2>3. tap.pos \in 0..Len(tap.arr)
    <3>1. tap.pos \in Nat /\ Len(tap.arr) \in Nat /\ tap.pos <= Len(tap.arr)
      BY <2>2, UnreadBytes DEF RawTyped, IsValid
    <3>2. QED
      BY <3>1
  <2>4. encoded \in 0..Len(job.values) /\ input.pos \in Nat
    BY <2>2 DEF RawTyped, Taps
  <2>5. {flushed, tainted, hasWriteCb, written, wantsPush, inputEnded, reads, outputEnded, misfired} \subseteq BOOLEAN
    BY <2>2 DEF RawTyped
  <2>6. \A b \in ToSet(wire) \cup ToSet(input.arr) : b \in 0..255
    <3>1. wire \in Seq(Byte) /\ input.arr \in Seq(Byte)
      BY <2>2 DEF RawTyped, Taps
    <3>2. \A s \in Seq(Byte) : \A i \in DOMAIN s : s[i] \in Byte
      BY ElementOfSeq, LenProperties
    <3>3. QED
      BY <3>1, <3>2 DEF ToSet, Byte
  <2>7. QED
    BY <2>3, <2>4, <2>5, <2>6 DEF RTypeOK
<1>2. QED
  BY <1>1, RInvHolds, PTL

\* RawEncoder and RawDecoder, for any values and any batchSize: as long as the encoder has
\* pushed whole values only, the decoder gives what was written, in order and in the end all
\* of it, wherever taps end and however the bytes are cut.
THEOREM ValuesComeBack == RSpec => []RawRoundTrips
<1>1. RInv => RawRoundTrips
  <2>1. SUFFICES ASSUME RInv PROVE RawRoundTrips
    OBVIOUS
  <2>2. RawTyped /\ EndsInTurn /\ CalledOnce /\ AllDue
    BY <2>1 DEF RInv
  <2>3. PICK values \in Seq(Seq(SmallLongs)) : values = job.values
    BY <2>2, JobIs DEF RawTyped
  <2>4. ASSUME ~tainted
        PROVE  /\ IsPrefix(decoded, Accepted(SubSeq(job.values, 1, encoded)))
               /\ outputEnded => decoded = Accepted(job.values)
    <3>1. PICK list \in Seq(Pairs) : list = Accepted(SubSeq(job.values, 1, encoded))
      BY <2>2, WholeSoFar DEF RawTyped
    <3>2. PICK k : Due(list, decoded, k, outputEnded, Unread(input), Ahead)
      BY <2>2, <2>4, <3>1 DEF AllDue
    <3>3. k \in 0..Len(list) /\ decoded = SubSeq(list, 1, k) /\ (outputEnded => k = Len(list))
      BY <3>2 DEF Due
    <3>4. PICK done \in Seq(Pairs) : done = decoded /\ Len(done) = k
      BY <3>3, FirstOnes
    <3>5. IsPrefix(done, list)
      <4>1. SubSeq(done, 1, Len(done)) = done
        BY SubSeqFull
      <4>2. PICK m \in Nat : m = Len(list)
        BY LenProperties
      <4>3. k <= m
        BY <3>3, <4>2
      <4>4. QED
        BY <3>3, <3>4, <4>1, <4>2, <4>3 DEF IsPrefix
    <3>6. outputEnded => done = Accepted(job.values)
      <4>1. SUFFICES ASSUME outputEnded PROVE done = Accepted(job.values)
        OBVIOUS
      <4>2. encoded = Len(values)
        BY <2>2, <2>3, <4>1 DEF EndsInTurn
      <4>3. list = Accepted(values)
        BY <2>3, <3>1, <4>2, AcceptedMore
      <4>4. done = SubSeq(list, 1, Len(list))
        BY <3>3, <3>4, <4>1
      <4>5. QED
        BY <2>3, <4>3, <4>4, SubSeqFull
    <3>7. QED
      BY <3>1, <3>4, <3>5, <3>6
  <2>5. QED
    BY <2>2, <2>4 DEF RawRoundTrips, CalledOnce
<1>2. QED
  BY <1>1, RInvHolds, PTL

\* The streams together: values are read and written in order, none of them is lost, and no
\* write is called back twice, in container files whose blocks, but for the last, have values.
THEOREM OrderIsKept ==
  ASSUME OnlyLastIsEmpty
  PROVE  DSpec /\ ESpec /\ RSpec => []StreamsKeepOrder
<1>1. DSpec => []ReadsInOrder
  BY FilesAreReadInOrder
<1>2. ESpec => []WritesInOrder
  BY ValuesAreWrittenInOrder
<1>3. RSpec => []RawRoundTrips
  BY ValuesComeBack
<1>4. ReadsInOrder /\ WritesInOrder /\ RawRoundTrips => StreamsKeepOrder
  BY DEF StreamsKeepOrder
<1>5. QED
  BY <1>1, <1>2, <1>3, <1>4, PTL
=============================================================================
