----------------------------- MODULE AvroLongs -----------------------------
(***************************************************************************)
(* The buffer of lib/avsc, and the longs and the bytes in it: an array of   *)
(* bytes and a position.  Reading and writing past the end does not fail:   *)
(* what is read there counts as zero, what is written there is lost, and    *)
(* the position moves on, so that isValid() tells afterwards whether there  *)
(* was room, and the position how much would have been needed.              *)
(*                                                                          *)
(* A reader returns the value and the tap after it.  Numbers are those of   *)
(* the integer path of readLong and writeLong, below 2^30 in absolute       *)
(* value, so that five bytes hold them.                                     *)
(***************************************************************************)
EXTENDS Integers, Sequences, SequencesExt

Tap(arr) == [arr |-> arr, pos |-> 0]
Blank(capacity) == Tap([i \in 1..capacity |-> 0])

IsValid(tap) == tap.pos <= Len(tap.arr)
Written(tap) == SubSeq(tap.arr, 1, tap.pos)
Moved(tap, n) == [tap EXCEPT !.pos = @ + n]
Got(val, tap) == [val |-> val, tap |-> tap]

\* forward: what was not read yet, followed by new bytes.
Forward(tap, bytes) == Tap(SubSeq(tap.arr, tap.pos + 1, Len(tap.arr)) \o bytes)

\* The i-th byte from here, counted from 0; there is nothing after the end.
ByteAt(tap, i) == IF tap.pos + i < Len(tap.arr) THEN tap.arr[tap.pos + i + 1] ELSE 0
Bytes(tap, n) == [i \in 1..n |-> ByteAt(tap, i - 1)]

\* Bytes written one by one, each if there is room for it.
WriteEach(tap, bytes) ==
  [arr |-> [i \in DOMAIN tap.arr |->
              IF i \in tap.pos + 1 .. tap.pos + Len(bytes) THEN bytes[i - tap.pos] ELSE tap.arr[i]],
   pos |-> tap.pos + Len(bytes)]

-----------------------------------------------------------------------------
(* Longs of variable length: base 128, the lowest digit first, the high bit of all but the last
   set, and even for the numbers from 0 upwards, odd for the others. *)

\* Bytes up to and with the first whose high bit is not set.
VarintLength(tap) ==
  CHOOSE n \in 1 .. Len(tap.arr) + 1 :
    /\ ByteAt(tap, n - 1) < 128
    /\ \A i \in 0 .. n - 2 : ByteAt(tap, i) >= 128

\* The number whose digits they are.
NumberOf(bytes) ==
  LET from[i \in 1 .. Len(bytes) + 1] == IF i > Len(bytes) THEN 0 ELSE (bytes[i] % 128) + 128 * from[i + 1]
  IN  from[1]

ReadLong(tap) ==
  LET bytes == Bytes(tap, VarintLength(tap))
      zigzag == NumberOf(bytes)
  IN  Got(IF zigzag % 2 = 0 THEN zigzag \div 2 ELSE -((zigzag + 1) \div 2), Moved(tap, Len(bytes)))

SkipLong(tap) == Moved(tap, VarintLength(tap))

PlaceValue == <<1, 128, 16384, 2097152, 268435456>>
Digits(n) ==
  LET last == CHOOSE k \in 1..5 : (k > 1 => n >= PlaceValue[k]) /\ \A j \in k + 1 .. 5 : n < PlaceValue[j]
  IN  [i \in 1..last |-> ((n \div PlaceValue[i]) % 128) + (IF i < last THEN 128 ELSE 0)]

\* The longs of the integer path.
LongLimit == 1073741824
SmallLongs == -LongLimit .. LongLimit - 1

Zigzag(n) == IF n >= 0 THEN 2 * n ELSE -2 * n - 1
WriteLong(tap, n) == WriteEach(tap, Digits(Zigzag(n)))

-----------------------------------------------------------------------------
(* Bytes: so many of them, or their length, then they. *)

Undefined == <<"undefined", 0>>     \* JavaScript's undefined

Invalidated(tap) == [tap EXCEPT !.pos = Len(tap.arr) + 1]

\* Bytes written together, if there is room for them all.
WriteFixed(tap, bytes) ==
  IF tap.pos + Len(bytes) > Len(tap.arr) THEN Moved(tap, Len(bytes)) ELSE WriteEach(tap, bytes)

ReadFixed(tap, len) ==
  LET after == Moved(tap, len)
  IN  Got(IF IsValid(after) THEN <<"buffer", Bytes(tap, len)>> ELSE Undefined, after)

ReadBytes(tap) ==
  LET len == ReadLong(tap)
  IN  IF len.val < 0 THEN Got(Undefined, Invalidated(tap)) ELSE ReadFixed(len.tap, len.val)

SkipBytes(tap) ==
  LET len == ReadLong(tap)
  IN  IF len.val < 0 THEN Invalidated(tap) ELSE Moved(len.tap, len.val)

WriteBytes(tap, bytes) == WriteFixed(WriteLong(tap, Len(bytes)), bytes)
=============================================================================
