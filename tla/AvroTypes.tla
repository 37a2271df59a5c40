----------------------------- MODULE AvroTypes -----------------------------
(***************************************************************************)
(* The types of lib/avsc: checking a value, writing it to a tap, reading    *)
(* and skipping it, comparing two values and their two encodings, and       *)
(* copying it from and to its JSON form.                                    *)
(*                                                                          *)
(* A type is a record whose t is its type name; "ref" stands for a type     *)
(* object that is used again, under its key in Named.  A JavaScript value   *)
(* is a pair of its bucket and its content: a number in halves, so that     *)
(* some are no integers; an object as a function from names; "day" is an    *)
(* instance of a user's class.  One operator stands for one method;         *)
(* RECURSIVE ones dispatch on the type.  Mut... operators are faulty        *)
(* variants of the operator that follows.                                   *)
(***************************************************************************)
EXTENDS AvroTap

CONSTANTS
  Named,     \* the types that schemas refer to, by key
  Letters,   \* names as code units
  MaxInt,    \* the largest int; the smallest is one less than its negative
  MaxLong    \* the bound of a safe long, on both sides

Null == <<"null", 0>>
Throw == <<"throw", 0>>        \* an exception instead of a value
Number(n) == <<"number", 2 * n>>
Object(f) == IF \E n \in DOMAIN f : f[n] = Throw THEN Throw ELSE <<"object", f>>
Array(s) == IF \E i \in DOMAIN s : s[i] = Throw THEN Throw ELSE <<"array", s>>
FieldOf(v, name) == IF v[1] = "object" /\ name \in DOMAIN v[2] THEN v[2][name] ELSE Undefined

Deref(T) == IF T.t = "ref" THEN Named[T.key] ELSE T
IsNamed(T) == T.t \in {"record", "enum", "fixed"} /\ T.name # ""

\* The primitive classes: the values they take, how these are written, and the types
\* of a writer that they read.
NullType == [bucket |-> "null", wire |-> "none", reads |-> {"null"}]
BooleanType == [bucket |-> "boolean", wire |-> "boolean", reads |-> {"boolean"}]
IntType == [bucket |-> "number", wire |-> "varint", takes |-> -MaxInt - 1 .. MaxInt, reads |-> {"int"}]
LongType == [bucket |-> "number", wire |-> "varint", takes |-> -MaxLong .. MaxLong, reads |-> {"int", "long"}]
FloatType == [bucket |-> "number", wire |-> "float", size |-> 4, reads |-> {"int", "long", "float"}]
DoubleType ==
  [bucket |-> "number", wire |-> "float", size |-> 8, reads |-> {"int", "long", "float", "double"}]
StringType == [bucket |-> "string", wire |-> "string", reads |-> {"bytes", "string"}]
BytesType == [bucket |-> "buffer", wire |-> "bytes", reads |-> {"bytes", "string"}]

Primitive == [null |-> NullType, boolean |-> BooleanType, int |-> IntType, long |-> LongType,
              float |-> FloatType, double |-> DoubleType, string |-> StringType, bytes |-> BytesType]
IsPrimitive(T) == T.t \in DOMAIN Primitive

PrimitiveCheck(T, v) ==
  LET class == Primitive[T.t]
  IN  /\ v[1] = class.bucket
      /\ class.wire = "varint" => v[2] % 2 = 0 /\ v[2] \div 2 \in class.takes

\* What is in a buffer when a type is picked by name alone, t.  A long that is not safe is
\* refused, an int is not looked at.
PrimitiveRead(t, tap) ==
  LET class == Primitive[t]
      number(r) == Got(IF t = "long" /\ r.val \notin class.takes THEN Throw ELSE Number(r.val), r.tap)
      half(r) == Got(<<"number", r.val>>, r.tap)
  IN  CASE class.wire = "none"    -> Got(Null, tap)
        [] class.wire = "boolean" -> ReadBoolean(tap)
        [] class.wire = "varint"  -> number(ReadLong(tap))
        [] class.wire = "float"   -> half(ReadFloat(tap, class.size))
        [] class.wire = "string"  -> ReadString(tap)
        [] class.wire = "bytes"   -> ReadBytes(tap)

PrimitiveSkip(t, tap) ==
  LET class == Primitive[t]
  IN  CASE class.wire = "none"    -> tap
        [] class.wire = "boolean" -> Moved(tap, 1)
        [] class.wire = "varint"  -> SkipLong(tap)
        [] class.wire = "float"   -> Moved(tap, class.size)
        [] OTHER                  -> SkipBytes(tap)

PrimitiveWrite(t, v, tap) ==
  LET class == Primitive[t]
  IN  CASE class.wire = "none"    -> tap
        [] class.wire = "boolean" -> WriteBoolean(tap, v[2])
        [] class.wire = "varint"  -> WriteLong(tap, v[2] \div 2)
        [] class.wire = "float"   -> WriteFloat(tap, v[2], class.size)
        [] class.wire = "string"  -> WriteString(tap, v[2])
        [] class.wire = "bytes"   -> WriteBytes(tap, v[2])

\* The buckets by which a union without wrapping tells its branches apart.
TypeBucket(T) ==
  CASE IsPrimitive(T)               -> Primitive[T.t].bucket
    [] T.t = "fixed"                -> "buffer"
    [] T.t = "enum"                 -> "string"
    [] T.t \in {"map", "record"}    -> "object"
    [] OTHER                        -> T.t
ValueBucket(v) == IF v[1] = "day" THEN "object" ELSE v[1]

RECURSIVE BranchName(_)
BranchName(T) ==
  CASE T.t = "ref"     -> BranchName(Deref(T))
    [] T.t = "logical" -> BranchName(T.under)
    [] IsNamed(T)      -> T.name
    [] OTHER           -> T.t

BranchNamed(T, name) == {i \in DOMAIN T.types : BranchName(T.types[i]) = name}
Only(S) == CHOOSE x \in S : TRUE
-----------------------------------------------------------------------------
(* Checking a value. *)

RECURSIVE Check(_, _)

\* The branch a value belongs to when unions are not wrapped, 0 if there is none; two
\* candidates are refused with an error.
GetIndex(T, v) ==
  LET candidates == {i \in DOMAIN T.types :
                       IF T.types[i].t = "logical" THEN Check(T.types[i], v)
                       ELSE TypeBucket(Deref(T.types[i])) = ValueBucket(v)}
  IN  IF Cardinality(candidates) = 1 THEN Only(candidates) ELSE 0

\* The branch of a wrapped value: it is an object with the branch's name as only key.
WrappedIndex(T, v) ==
  LET names == IF v = Null THEN {"null"} ELSE IF v[1] = "object" THEN DOMAIN v[2] ELSE {}
      branches == IF Cardinality(names) = 1 THEN BranchNamed(T, Only(names)) ELSE {}
  IN  IF branches = {} THEN 0 ELSE Only(branches)
Unwrapped(v) == IF v = Null THEN v ELSE v[2][Only(DOMAIN v[2])]

UnwrappedUnionCheck(T, v) ==
  LET i == GetIndex(T, v) IN i > 0 /\ Check(T.types[i], v)
WrappedUnionCheck(T, v) ==
  LET i == WrappedIndex(T, v) IN i > 0 /\ Check(T.types[i], Unwrapped(v))

EnumCheck(T, v) == v[1] = "string" /\ \E i \in DOMAIN T.symbols : Letters[T.symbols[i]] = v[2]
SymbolIndex(T, v) == Only({i \in DOMAIN T.symbols : Letters[T.symbols[i]] = v[2]})
FixedCheck(T, v) == v[1] = "buffer" /\ Len(v[2]) = T.size
MapCheck(T, v) == v[1] = "object" /\ \A key \in DOMAIN v[2] : Check(T.values, v[2][key])
ArrayCheck(T, v) == v[1] = "array" /\ \A i \in DOMAIN v[2] : Check(T.items, v[2][i])

\* A field that is missing is fine if it has a default.
RecordCheck(T, v) ==
  /\ v[1] \in {"object", "array", "buffer", "day"}
  /\ \A i \in DOMAIN T.fields :
       LET field == T.fields[i]
           value == FieldOf(v, field.name)
       IN  (value = Undefined /\ field.default # Undefined) \/ Check(field.type, value)

\* A user's logical type, kept as the number of the day.
ToValue(v) == IF v[1] = "day" THEN <<"number", v[2]>> ELSE Undefined
FromValue(v) == IF v[1] = "number" THEN <<"day", v[2]>> ELSE Throw
LogicalCheck(T, v) == ToValue(v) # Undefined /\ Check(T.under, ToValue(v))

Check(T, v) ==
  CASE T.t = "ref"     -> Check(Deref(T), v)
    [] T.t = "union"   -> IF T.wrapped THEN WrappedUnionCheck(T, v) ELSE UnwrappedUnionCheck(T, v)
    [] T.t = "enum"    -> EnumCheck(T, v)
    [] T.t = "fixed"   -> FixedCheck(T, v)
    [] T.t = "map"     -> MapCheck(T, v)
    [] T.t = "array"   -> ArrayCheck(T, v)
    [] T.t = "record"  -> RecordCheck(T, v)
    [] T.t = "logical" -> LogicalCheck(T, v)
    [] OTHER           -> PrimitiveCheck(T, v)

-----------------------------------------------------------------------------
(* Copying, and the JSON form of a value. *)

\* coerce is 0, 2 (from JSON) or 3 (to JSON); wrap is 0, 1 (promote a value into the first
\* branch that takes it), 2 (into the first branch: a default) or 3 (drop the wrapping).
RECURSIVE Copy(_, _, _, _)

Checked(T, v) == IF Check(T, v) THEN v ELSE Throw

\* Bytes and fixed have a string of as many characters as JSON form.
BytesCopy(T, v, coerce) ==
  CASE coerce = 3 -> IF Check(T, v) THEN <<"string", v[2]>> ELSE Throw
    [] coerce = 2 -> IF v[1] # "string" THEN Throw
                     ELSE Checked(T, <<"buffer", [i \in DOMAIN v[2] |-> v[2][i] % 256]>>)
    [] OTHER      -> Checked(T, v)

Wrap(T, i, v) ==
  IF T.types[i].t = "null" \/ v = Throw THEN v ELSE Object(BranchName(T.types[i]) :> v)

UnwrappedUnionCopy(T, v, coerce, wrap) ==
  LET unwraps == wrap # 2 /\ coerce = 2
      i == CASE wrap = 2 -> 1 [] unwraps -> WrappedIndex(T, v) [] OTHER -> GetIndex(T, v)
      copy == Copy(T.types[i], IF unwraps THEN Unwrapped(v) ELSE v, coerce, wrap)
  IN  IF i = 0 THEN Throw
      ELSE IF v = Null \/ wrap = 3 \/ coerce # 3 THEN copy ELSE Wrap(T, i, copy)

WrappedUnionCopy(T, v, coerce, wrap) ==
  LET i == WrappedIndex(T, v)
      promoted == {k \in DOMAIN T.types : Copy(T.types[k], v, coerce, wrap) # Throw}
      first == CHOOSE k \in promoted : \A l \in promoted : k <= l
  IN  CASE wrap = 2 -> Wrap(T, 1, Copy(T.types[1], v, coerce, wrap))
        [] wrap # 2 /\ i > 0 ->
             LET copy == Copy(T.types[i], Unwrapped(v), coerce, wrap)
             IN  IF wrap = 3 THEN copy ELSE Wrap(T, i, copy)
        [] wrap = 1 /\ i = 0 /\ promoted # {} -> Wrap(T, first, Copy(T.types[first], v, coerce, wrap))
        [] OTHER -> Throw

MapCopy(T, v, coerce, wrap) ==
  IF v[1] # "object" THEN Throw ELSE Object([key \in DOMAIN v[2] |-> Copy(T.values, v[2][key], coerce, wrap)])
ArrayCopy(T, v, coerce, wrap) ==
  IF v[1] # "array" THEN Throw ELSE Array([i \in DOMAIN v[2] |-> Copy(T.items, v[2][i], coerce, wrap)])

\* The value that a field of a schema has by default, given there in its JSON form.
DefaultValue(field) ==
  IF field.default = Undefined THEN Undefined ELSE Copy(field.type, field.default, 2, 2)

\* Missing fields get their default first; this is then copied like any other value.
RecordCopy(T, v, coerce, wrap) ==
  LET value(field) == IF FieldOf(v, field.name) = Undefined THEN DefaultValue(field)
                      ELSE FieldOf(v, field.name)
      named(name) == T.fields[Only({i \in DOMAIN T.fields : T.fields[i].name = name})]
  IN  IF v \in {Null, Undefined} THEN Throw
      ELSE Object([name \in {T.fields[i].name : i \in DOMAIN T.fields} |->
                     Copy(named(name).type, value(named(name)), coerce, wrap)])

LogicalCopy(T, v, coerce, wrap) ==
  LET under(x) == Copy(T.under, x, coerce, wrap)
  IN  CASE coerce = 3 -> under(ToValue(v))
        [] coerce = 2 -> FromValue(under(v))
        [] OTHER      -> FromValue(under(ToValue(v)))

Copy(T, v, coerce, wrap) ==
  CASE T.t = "ref"     -> Copy(Deref(T), v, coerce, wrap)
    [] T.t = "union"   -> IF T.wrapped THEN WrappedUnionCopy(T, v, coerce, wrap)
                          ELSE UnwrappedUnionCopy(T, v, coerce, wrap)
    [] T.t \in {"bytes", "fixed"} -> BytesCopy(T, v, coerce)
    [] T.t = "map"     -> MapCopy(T, v, coerce, wrap)
    [] T.t = "array"   -> ArrayCopy(T, v, coerce, wrap)
    [] T.t = "record"  -> RecordCopy(T, v, coerce, wrap)
    [] T.t = "logical" -> LogicalCopy(T, v, coerce, wrap)
    [] OTHER           -> Checked(T, v)

ToJSON(T, v) == Copy(T, v, 3, 0)        \* toString
FromJSON(T, json) == Copy(T, json, 2, 0)  \* fromString

-----------------------------------------------------------------------------
(* Writing a valid value. *)

RECURSIVE Write(_, _, _)

UnwrappedUnionWrite(T, v, tap) ==
  LET i == GetIndex(T, v)
      indexed == WriteLong(tap, i - 1)
  IN  IF v = Null THEN indexed ELSE Write(T.types[i], v, indexed)

WrappedUnionWrite(T, v, tap) ==
  LET i == WrappedIndex(T, v) IN Write(T.types[i], Unwrapped(v), WriteLong(tap, i - 1))

EnumWrite(T, v, tap) ==
  WriteLong(tap, SymbolIndex(T, v) - 1)

\* Arrays and maps are one block, unless they are empty, and a zero.
BlockWrite(n, items(_), tap) ==
  WriteLong(IF n = 0 THEN tap ELSE items(WriteLong(tap, n)), 0)

MapWrite(T, v, tap) ==
  LET entry(at, key) == Write(T.values, v[2][key], WriteString(at, Letters[key]))
  IN  BlockWrite(Cardinality(DOMAIN v[2]),
                 LAMBDA start : FoldLeft(entry, start, SetToSeq(DOMAIN v[2])), tap)

ArrayWrite(T, v, tap) ==
  BlockWrite(Len(v[2]), LAMBDA start : FoldLeft(LAMBDA at, item : Write(T.items, item, at), start, v[2]), tap)

MinimalCapacity == 64     \* enough for the values of an instance

\* A default was encoded once, when the type was made, and is written together.
RecordWrite(T, v, tap) ==
  LET write(at, field) ==
        IF FieldOf(v, field.name) = Undefined /\ field.default # Undefined
          THEN WriteFixed(at, Written(Write(field.type, DefaultValue(field), Blank(MinimalCapacity))))
          ELSE Write(field.type, FieldOf(v, field.name), at)
  IN  FoldLeft(write, tap, T.fields)

Write(T, v, tap) ==
  CASE T.t = "ref"     -> Write(Deref(T), v, tap)
    [] T.t = "union"   -> IF T.wrapped THEN WrappedUnionWrite(T, v, tap) ELSE UnwrappedUnionWrite(T, v, tap)
    [] T.t = "enum"    -> EnumWrite(T, v, tap)
    [] T.t = "fixed"   -> WriteFixed(tap, v[2])
    [] T.t = "map"     -> MapWrite(T, v, tap)
    [] T.t = "array"   -> ArrayWrite(T, v, tap)
    [] T.t = "record"  -> RecordWrite(T, v, tap)
    [] T.t = "logical" -> Write(T.under, ToValue(v), tap)
    [] OTHER           -> PrimitiveWrite(T.t, v, tap)

\* toBuffer: a first attempt in the shared tap, and a second in a buffer of the size that
\* the first one shows to be needed.
MutToBuffer(T, v, capacity) ==
  LET first == Write(T, v, Blank(capacity))
  IN  IF first.pos < capacity THEN Written(first)
      ELSE Write(T, v, Blank(first.pos - 1)).arr
ToBuffer(T, v, capacity) ==
  LET first == Write(T, v, Blank(capacity))
  IN  IF IsValid(first) THEN Written(first) ELSE Write(T, v, Blank(first.pos)).arr

-----------------------------------------------------------------------------
(* Reading and skipping. *)

RECURSIVE ReadValue(_, _)
RECURSIVE ReadBlocks(_, _, _)
RECURSIVE Skip(_, _)

\* An index picks a branch or a symbol; any other is an error.
UnionRead(T, tap) ==
  LET index == ReadLong(tap)
      i == index.val + 1
  IN  IF i \notin DOMAIN T.types THEN Got(Throw, index.tap)
      ELSE LET branch == ReadValue(T.types[i], index.tap)
           IN  IF T.wrapped /\ T.types[i].t # "null"
                 THEN Got(Object(BranchName(T.types[i]) :> branch.val), branch.tap)
                 ELSE branch
UnionSkip(T, tap) ==
  LET index == ReadLong(tap) IN Skip(T.types[index.val + 1], index.tap)

EnumRead(T, tap) ==
  LET index == ReadLong(tap)
      i == index.val + 1
  IN  Got(IF i \in DOMAIN T.symbols THEN <<"string", Letters[T.symbols[i]]>> ELSE Throw, index.tap)

\* The number of items in a block: negative if its size in bytes follows.
ReadArraySize(tap) ==
  LET n == ReadLong(tap) IN IF n.val < 0 THEN Got(-n.val, SkipLong(n.tap)) ELSE n

\* An entry of a map is its key, then its value, and so two reads.
EntryRead(T, tap) ==
  LET key == ReadString(tap)
      value == ReadValue(T.values, key.tap)
  IN  Got(<<key.val, value.val>>, value.tap)

\* The items of an array or the entries of a map, block by block until one is empty.
ReadBlocks(T, tap, items) ==
  LET n == ReadArraySize(tap)
      next(r, k) == LET item == IF T.t = "map" THEN EntryRead(T, r.tap) ELSE ReadValue(T.items, r.tap)
                    IN  Got(Append(r.val, item.val), item.tap)
  IN  IF n.val = 0 THEN Got(items, n.tap)
      ELSE LET block == FoldLeft(next, Got(items, n.tap), [k \in 1..n.val |-> k])
           IN  ReadBlocks(T, block.tap, block.val)

ArrayRead(T, tap) == LET r == ReadBlocks(T, tap, <<>>) IN Got(Array(r.val), r.tap)

\* A later entry replaces an earlier one with the same key.
Entries(read) ==
  LET named(key) == {i \in DOMAIN read : read[i][1] = <<"string", Letters[key]>>}
  IN  Object([key \in {k \in DOMAIN Letters : named(k) # {}} |-> read[Max(named(key))][2]])
MapRead(T, tap) == LET r == ReadBlocks(T, tap, <<>>) IN Got(Entries(r.val), r.tap)

\* Blocks with a size are skipped as a whole.
RECURSIVE SkipBlocks(_, _)
SkipBlocks(T, tap) ==
  LET n == ReadLong(tap)
      item(at, k) == IF T.t = "map" THEN Skip(T.values, SkipBytes(at)) ELSE Skip(T.items, at)
  IN  IF n.val = 0 THEN n.tap
      ELSE SkipBlocks(T, IF n.val < 0
                           THEN LET size == ReadLong(n.tap) IN Moved(size.tap, size.val)
                           ELSE FoldLeft(item, n.tap, [k \in 1..n.val |-> k]))

\* Fields in order.  The constructor puts a default in the place of what is undefined.
RecordRead(T, tap) ==
  LET next(r, field) == LET value == ReadValue(field.type, r.tap)
                        IN  Got(Append(r.val, IF value.val = Undefined THEN DefaultValue(field) ELSE value.val),
                                value.tap)
      r == FoldLeft(next, Got(<<>>, tap), T.fields)
      at(name) == Only({i \in DOMAIN T.fields : T.fields[i].name = name})
  IN  Got(Object([name \in {T.fields[i].name : i \in DOMAIN T.fields} |-> r.val[at(name)]]), r.tap)
RecordSkip(T, tap) == FoldLeft(LAMBDA at, field : Skip(field.type, at), tap, T.fields)

LogicalRead(T, tap) == LET r == ReadValue(T.under, tap) IN Got(FromValue(r.val), r.tap)

ReadValue(T, tap) ==
  CASE T.t = "ref"     -> ReadValue(Deref(T), tap)
    [] T.t = "union"   -> UnionRead(T, tap)
    [] T.t = "enum"    -> EnumRead(T, tap)
    [] T.t = "fixed"   -> ReadFixed(tap, T.size)
    [] T.t = "map"     -> MapRead(T, tap)
    [] T.t = "array"   -> ArrayRead(T, tap)
    [] T.t = "record"  -> RecordRead(T, tap)
    [] T.t = "logical" -> LogicalRead(T, tap)
    [] OTHER           -> PrimitiveRead(T.t, tap)

Skip(T, tap) ==
  CASE T.t = "ref"     -> Skip(Deref(T), tap)
    [] T.t = "union"   -> UnionSkip(T, tap)
    [] T.t = "enum"    -> SkipLong(tap)
    [] T.t = "fixed"   -> Moved(tap, T.size)
    [] T.t \in {"map", "array"} -> SkipBlocks(T, tap)
    [] T.t = "record"  -> RecordSkip(T, tap)
    [] T.t = "logical" -> Skip(T.under, tap)
    [] OTHER           -> PrimitiveSkip(T.t, tap)

\* fromBuffer: a value, or an error if the buffer is too short or too long.
FromBuffer(T, bytes) ==
  LET r == ReadValue(T, Tap(bytes))
  IN  IF r.val = Throw \/ r.tap.pos # Len(bytes) THEN Throw ELSE r.val

-----------------------------------------------------------------------------
(* Comparing values, and their encodings. *)

PrimitiveCompare(T, v, w) ==
  CASE v[1] \in {"string", "buffer"} -> Lexicographic(v[2], w[2])
    [] v[1] = "boolean" -> Sign(IF v[2] THEN 1 ELSE 0, IF w[2] THEN 1 ELSE 0)
    [] OTHER            -> Sign(v[2], w[2])

RECURSIVE Compare(_, _, _)

UnionCompare(T, v, w) ==
  LET branch(x) == IF T.wrapped THEN WrappedIndex(T, x) ELSE GetIndex(T, x)
      content(x) == IF T.wrapped THEN Unwrapped(x) ELSE x
  IN  IF branch(v) = branch(w) THEN Compare(T.types[branch(v)], content(v), content(w))
      ELSE Sign(branch(v), branch(w))

\* The first that differs decides, then the length.
ArrayCompare(T, v, w) ==
  LET order(i) == Compare(T.items, v[2][i], w[2][i])
      differ == {i \in 1..Len(v[2]) : i <= Len(w[2]) /\ order(i) # 0}
  IN  IF differ = {} THEN Sign(Len(v[2]), Len(w[2]))
      ELSE order(CHOOSE i \in differ : \A k \in differ : i <= k)

\* order is 1, -1 or 0, for fields that are ignored.
RecordCompare(T, v, w) ==
  LET next(order, field) ==
        IF order # 0 \/ field.order = 0 THEN order
        ELSE field.order * Compare(field.type, FieldOf(v, field.name), FieldOf(w, field.name))
  IN  FoldLeft(next, 0, T.fields)

Compare(T, v, w) ==
  CASE T.t = "ref"     -> Compare(Deref(T), v, w)
    [] T.t = "union"   -> UnionCompare(T, v, w)
    [] T.t = "enum"    -> Sign(SymbolIndex(T, v), SymbolIndex(T, w))
    [] T.t = "fixed"   -> Lexicographic(v[2], w[2])
    [] T.t = "array"   -> ArrayCompare(T, v, w)
    [] T.t = "record"  -> RecordCompare(T, v, w)
    [] T.t = "logical" -> Compare(T.under, ToValue(v), ToValue(w))
    [] T.t = "null"    -> 0
    [] OTHER           -> PrimitiveCompare(T, v, w)

\* Two taps are read side by side; what is compared is what was read.
Both(order, tap1, tap2) == [val |-> order, tap1 |-> tap1, tap2 |-> tap2]
MatchRead(r1, r2) ==
  Both(IF r1.val[1] \in {"string", "buffer"} THEN Lexicographic(r1.val[2], r2.val[2])
       ELSE Sign(r1.val[2], r2.val[2]), r1.tap, r2.tap)
MatchLong(tap1, tap2) ==
  LET n1 == ReadLong(tap1)
      n2 == ReadLong(tap2)
  IN  Both(Sign(n1.val, n2.val), n1.tap, n2.tap)

\* A boolean is compared as a byte, a string by its bytes.
PrimitiveMatch(t, tap1, tap2) ==
  CASE t = "null"      -> Both(0, tap1, tap2)
    [] t = "boolean"   -> Both(ByteAt(tap1, 0) - ByteAt(tap2, 0), Moved(tap1, 1), Moved(tap2, 1))
    [] t \in {"string", "bytes"} -> MatchRead(ReadBytes(tap1), ReadBytes(tap2))
    [] t \in {"int", "long"} -> MatchLong(tap1, tap2)
    [] OTHER           -> MatchRead(PrimitiveRead(t, tap1), PrimitiveRead(t, tap2))

RECURSIVE Match(_, _, _)
RECURSIVE MatchItems(_, _, _, _, _)

UnionMatch(T, tap1, tap2) ==
  LET n1 == ReadLong(tap1)
      n2 == ReadLong(tap2)
  IN  IF n1.val = n2.val THEN Match(T.types[n1.val + 1], n1.tap, n2.tap)
      ELSE Both(Sign(n1.val, n2.val), n1.tap, n2.tap)

\* n1 and n2 items are left of the current blocks.
MatchItems(T, tap1, n1, tap2, n2) ==
  IF n1 = 0 \/ n2 = 0 THEN Both(Sign(n1, n2), tap1, tap2)
  ELSE LET item == Match(T.items, tap1, tap2)
           left(n, tap) == IF n = 1 THEN ReadArraySize(tap) ELSE Got(n - 1, tap)
           left1 == left(n1, item.tap1)
           left2 == left(n2, item.tap2)
       IN  IF item.val # 0 THEN item ELSE MatchItems(T, left1.tap, left1.val, left2.tap, left2.val)

\* The size of the first block is read as if it were not negative.
ArrayMatch(T, tap1, tap2) ==
  LET n1 == ReadLong(tap1)
      n2 == ReadLong(tap2)
  IN  MatchItems(T, n1.tap, n1.val, n2.tap, n2.val)

MutRecordMatch(T, tap1, tap2) ==
  LET next(at, field) ==
        IF at.val # 0 \/ field.order = 0 THEN at
        ELSE LET m == Match(field.type, at.tap1, at.tap2) IN [m EXCEPT !.val = field.order * @]
  IN  FoldLeft(next, Both(0, tap1, tap2), T.fields)
\* Fields without an order are skipped on both sides.
RecordMatch(T, tap1, tap2) ==
  LET next(at, field) ==
        CASE at.val # 0      -> at
          [] field.order = 0 -> Both(0, Skip(field.type, at.tap1), Skip(field.type, at.tap2))
          [] OTHER           -> LET m == Match(field.type, at.tap1, at.tap2)
                                IN  [m EXCEPT !.val = field.order * @]
  IN  FoldLeft(next, Both(0, tap1, tap2), T.fields)

Match(T, tap1, tap2) ==
  CASE T.t = "ref"     -> Match(Deref(T), tap1, tap2)
    [] T.t = "union"   -> UnionMatch(T, tap1, tap2)
    [] T.t = "enum"    -> MatchLong(tap1, tap2)
    [] T.t = "fixed"   -> MatchRead(ReadFixed(tap1, T.size), ReadFixed(tap2, T.size))
    [] T.t = "array"   -> ArrayMatch(T, tap1, tap2)
    [] T.t = "record"  -> RecordMatch(T, tap1, tap2)
    [] T.t = "logical" -> Match(T.under, tap1, tap2)
    [] OTHER           -> PrimitiveMatch(T.t, tap1, tap2)

CompareBuffers(T, buf1, buf2) == Match(T, Tap(buf1), Tap(buf2)).val

=============================================================================
