------------------------------ MODULE AvroTap ------------------------------
(***************************************************************************)
(* The rest of the buffer of lib/avsc: booleans, floating-point numbers,    *)
(* strings, and full longs.                                                 *)
(*                                                                          *)
(* A string is a sequence of UTF-16 code units, as in JavaScript.  A full   *)
(* long is the eight bytes of unpackLongBytes and packLongBytes.            *)
(***************************************************************************)
EXTENDS AvroLongs

-----------------------------------------------------------------------------
(* Booleans and floating-point numbers. *)

ReadBoolean(tap) == Got(<<"boolean", ByteAt(tap, 0) # 0>>, Moved(tap, 1))
WriteBoolean(tap, b) == WriteEach(tap, <<IF b THEN 1 ELSE 0>>)

\* Numbers are counted in halves, below 2^30 of them.  A float is a sign, an exponent and the
\* binary digits after the first; bias is what is added to the exponent of a number of halves,
\* top how many digits share the byte of the exponent's last bits.
Format(size) == IF size = 4 THEN [digits |-> 23, bias |-> 126, top |-> 7]
                            ELSE [digits |-> 52, bias |-> 1022, top |-> 4]

\* m * 2^k without what is below one, and its lowest byte.
Shifted(m, k) == CASE k < -30 -> 0 [] k \in -30 .. -1 -> m \div 2^(-k) [] OTHER -> m * 2^k
LowByte(m, k) == IF k >= 8 THEN 0 ELSE IF k >= 0 THEN Shifted(m % 256, k) % 256 ELSE Shifted(m, k) % 256

Magnitude(n) == IF n < 0 THEN -n ELSE n
Exponent(m) == CHOOSE e \in 0..30 : Shifted(m, -e) = 1

\* Cut to 24 digits: to the nearer number that has no more, or the one whose last is even.
Rounded(m) ==
  LET unit == Shifted(1, Exponent(m) - 23)
      cut == m \div unit
      up == 2 * (m % unit) > unit \/ (2 * (m % unit) = unit /\ cut % 2 = 1)
  IN  IF unit <= 1 THEN m ELSE (IF up THEN cut + 1 ELSE cut) * unit

\* What the DataView makes of a number: 4 or 8 bytes, the lowest digits first.
FloatBytes(n, size) ==
  LET f == Format(size)
      m == IF size = 4 THEN Rounded(Magnitude(n)) ELSE Magnitude(n)
      e == Exponent(m)
      exponent == e + f.bias
      digits(i) == LowByte(m - Shifted(1, e), f.digits - e - 8 * (i - 1))
  IN  IF n = 0 THEN [i \in 1..size |-> 0]
      ELSE [i \in 1..size |->
              CASE i = size     -> exponent \div 2^(8 - f.top) + (IF n < 0 THEN 128 ELSE 0)
                [] i = size - 1 -> digits(i) + (exponent % 2^(8 - f.top)) * 2^f.top
                [] OTHER        -> digits(i)]

\* The number that such bytes hold.
NumberIn(bytes) ==
  LET size == Len(bytes)
      f == Format(size)
      e == (bytes[size] % 128) * 2^(8 - f.top) + bytes[size - 1] \div 2^f.top - f.bias
      digits(i) == Shifted(IF i = size - 1 THEN bytes[i] % 2^f.top ELSE bytes[i], e - f.digits + 8 * (i - 1))
      m == Shifted(1, e) + FoldFunction(+, 0, [i \in 1 .. size - 1 |-> digits(i)])
  IN  IF \A i \in 1..size : bytes[i] = 0 THEN 0 ELSE IF bytes[size] >= 128 THEN -m ELSE m

ReadFloat(tap, size) ==
  LET after == Moved(tap, size)
  IN  Got(IF IsValid(after) THEN NumberIn(Bytes(tap, size)) ELSE 0, after)
WriteFloat(tap, n, size) == WriteFixed(tap, FloatBytes(n, size))

-----------------------------------------------------------------------------
(* Strings: bytes that a string is made of, and made from. *)

IsHigh(unit) == unit \in 55296..56319
IsLow(unit) == unit \in 56320..57343

\* The UTF-8 form of a string of code units: a list of groups, one per character.
RECURSIVE Utf8(_)
Utf8(units) ==
  IF units = <<>> THEN <<>>
  ELSE LET c == units[1]
       IN  CASE c < 128  -> <<<<c>>>> \o Utf8(Tail(units))
             [] c \in 128..2047 ->
                  <<<<192 + c \div 64, 128 + (c % 64)>>>> \o Utf8(Tail(units))
             [] IsHigh(c) /\ Len(units) > 1 /\ IsLow(units[2]) ->
                  LET p == 65536 + (c - 55296) * 1024 + (units[2] - 56320)
                  IN  <<<<240 + p \div 262144, 128 + ((p \div 4096) % 64),
                          128 + ((p \div 64) % 64), 128 + (p % 64)>>>> \o Utf8(SubSeq(units, 3, Len(units)))
             [] OTHER ->
                  <<<<224 + c \div 4096, 128 + ((c \div 64) % 64), 128 + (c % 64)>>>> \o Utf8(Tail(units))

\* What a TextDecoder makes of bytes: the code units they stand for.
RECURSIVE Units(_)
Units(bytes) ==
  IF bytes = <<>> THEN <<>>
  ELSE LET b == bytes[1]
           size == CASE b < 128 -> 1 [] b \in 128..223 -> 2 [] b \in 224..239 -> 3 [] OTHER -> 4
           low(i) == bytes[i] % 64
           rest == Units(SubSeq(bytes, size + 1, Len(bytes)))
       IN  CASE Len(bytes) < size -> <<65533>>
             [] size = 1 -> <<b>> \o rest
             [] size = 2 -> <<(b % 32) * 64 + low(2)>> \o rest
             [] size = 3 -> <<(b % 16) * 4096 + low(2) * 64 + low(3)>> \o rest
             [] OTHER -> LET p == (b % 8) * 262144 + low(2) * 4096 + low(3) * 64 + low(4) - 65536
                         IN  <<55296 + p \div 1024, 56320 + (p % 1024)>> \o rest

ReadString(tap) ==
  LET bytes == ReadBytes(tap)
  IN  Got(IF bytes.val = Undefined THEN bytes.val ELSE <<"string", Units(bytes.val[2])>>, bytes.tap)

\* Up to 21 units are written character by character after a byte set aside for the
\* length, longer ones at once.
MaxShort == 21
WriteString(tap, units) ==
  LET groups == Utf8(units)
      size == FoldLeft(LAMBDA n, group : n + Len(group), 0, groups)
      short == FoldLeft(WriteFixed, Moved(tap, 1), groups)
  IN  IF Len(units) > MaxShort
        THEN WriteFixed(WriteLong(tap, size), FlattenSeq(groups))
        ELSE [WriteLong([short EXCEPT !.pos = tap.pos], size) EXCEPT !.pos = short.pos]

-----------------------------------------------------------------------------
(* Comparing encoded values. *)

Sign(a, b) == IF a = b THEN 0 ELSE IF a < b THEN -1 ELSE 1

\* Lexicographic comparison of two sequences of numbers: of bytes, or of code units.
Lexicographic(s, t) ==
  LET differ == {i \in 1..Len(s) : i <= Len(t) /\ s[i] # t[i]}
  IN  IF differ = {} THEN Sign(Len(s), Len(t))
      ELSE LET first == CHOOSE i \in differ : \A k \in differ : i <= k
           IN  Sign(s[first], t[first])

-----------------------------------------------------------------------------
(* Longs of 64 bits, as the bytes of a custom long type, least significant first. *)

Inverted(bytes) == [i \in DOMAIN bytes |-> 255 - bytes[i]]

\* The loop of unpackLongBytes: n holds j bits that are not yet in res.
RECURSIVE UnpackFrom(_, _, _, _)
UnpackFrom(tap, n, j, res) ==
  IF ByteAt(tap, -1) < 128
    THEN Got(IF Len(res) < 8 THEN Append(res, n % 256) ELSE res, tap)
    ELSE LET m == n + (ByteAt(tap, 0) % 128) * 2^j
         IN  IF j + 7 >= 8
               THEN UnpackFrom(Moved(tap, 1), m \div 256, j - 1, Append(res, m % 256))
               ELSE UnpackFrom(Moved(tap, 1), m, j + 7, res)

UnpackLongBytes(tap) ==
  LET b == ByteAt(tap, 0)
      unpacked == UnpackFrom(Moved(tap, 1), (b % 128) \div 2, 6, <<>>)
      res == [i \in 1..8 |-> IF i <= Len(unpacked.val) THEN unpacked.val[i] ELSE 0]
  IN  Got(IF b % 2 = 1 THEN Inverted(res) ELSE res, unpacked.tap)

\* The bytes of n while more than 7 of its j bits are ready, all with the high bit set.
RECURSIVE PackBits(_, _, _)
PackBits(tap, n, j) ==
  IF j > 7 THEN PackBits(WriteEach(tap, <<128 + (n % 128)>>), n \div 128, j - 7)
           ELSE [tap |-> tap, n |-> n, j |-> j]

PackLongBytes(tap, buf) ==
  LET neg == buf[8] >= 128
      b == IF neg THEN Inverted(buf) ELSE buf
      parts == <<b[1] + b[2] * 256 + b[3] * 65536, b[4] + b[5] * 256 + b[6] * 65536, b[7] + b[8] * 256>>
      last == CHOOSE m \in 1..3 : /\ m > 1 => parts[m] # 0
                                  /\ \A k \in m + 1 .. 3 : parts[k] = 0
      leading == FoldLeft(LAMBDA st, part : PackBits(st.tap, st.n + part * 2^st.j, st.j + 24),
                          [tap |-> tap, n |-> IF neg THEN 1 ELSE 0, j |-> 1], SubSeq(parts, 1, last - 1))
  IN  WriteEach(leading.tap, Digits(leading.n + parts[last] * 2^leading.j))
=============================================================================
