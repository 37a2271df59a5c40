--------------------------- MODULE AvroPromises ----------------------------
(***************************************************************************)
(* What the types of lib/avsc promise about the values they encode, each    *)
(* stated against a reference that works on values and knows no bytes, no   *)
(* registry and no buckets.                                                 *)
(*                                                                          *)
(* A behaviour uses one sample: a type and two of its values, a pair of     *)
(* types and a value of the one that writes, a sequence of values, or the   *)
(* eight bytes of a long.                                                   *)
(***************************************************************************)
EXTENDS AvroResolvers, AvroCombine

CONSTANTS
  Samples,    \* [type, values]: types, with values of theirs
  Readers,    \* types that others are read as
  Lots,       \* sequences of values that a type is inferred from
  Longs       \* [bytes, value]: numbers as the eight bytes of a custom long

VARIABLE sample

None == [kind |-> "none"]
AInit == sample = None

\* fromBuffer, toBuffer, fromString, toString: on a value of a type.
UseType ==
  /\ sample = None
  /\ \E s \in Samples : \E v \in s.values : sample' = [kind |-> "type", type |-> s.type, v |-> v]
\* compare and compareBuffers: on two values of a type.
CompareTwo ==
  /\ sample = None
  /\ \E s \in Samples : \E v, w \in s.values :
       sample' = [kind |-> "pair", type |-> s.type, v |-> v, w |-> w]
\* createResolver, and fromBuffer with the resolver.
ReadAs ==
  /\ sample = None
  /\ \E s \in Samples, R \in Readers : \E v \in s.values :
       sample' = [kind |-> "resolver", type |-> s.type, reader |-> R, v |-> v]
\* forValue of several values, combined by forTypes.
Infer ==
  /\ sample = None
  /\ \E lot \in Lots, strict \in BOOLEAN : sample' = [kind |-> "inferred", values |-> lot, strict |-> strict]
\* A long of a custom type, packed and unpacked.
UseLong ==
  /\ sample = None
  /\ \E n \in Longs : sample' = [kind |-> "long", long |-> n]
\* The sample is used, which is where the promises are to hold.
Used == [kind |-> "done"]
Use == sample \notin {None, Used} /\ sample' = Used

ANext == UseType \/ CompareTwo \/ ReadAs \/ Infer \/ UseLong \/ Use

-----------------------------------------------------------------------------
(* References. *)

Encoded(T, v) == Written(Write(T, v, Blank(MinimalCapacity)))

\* v with the defaults of what it lacks.
Complete(T, v) == Copy(T, v, 0, 0)

\* The nearest number with at most 24 binary digits, of two the one with an even last digit.
IsFloat(m) == \E k \in 0..7 : m % 2^k = 0 /\ m \div 2^k <= 2^24
NearestFloat(n) ==
  LET m == Magnitude(n)
      away(f) == Magnitude(f - m)
      floats == {f \in m - 64 .. m + 64 : f >= 0 /\ IsFloat(f)}
      nearest == {f \in floats : \A g \in floats : away(f) <= away(g)}
      even == CHOOSE f \in nearest : \A g \in nearest : f = g \/ f % (2 * Magnitude(f - g)) = 0
  IN  IF n < 0 THEN -even ELSE even

\* What is left of v, complete, in its encoding: all of it, except where a float rounds it.
RECURSIVE Kept(_, _)
Kept(T, v) ==
  CASE T.t = "ref"    -> Kept(Deref(T), v)
    [] T.t = "float"  -> <<"number", NearestFloat(v[2])>>
    [] T.t = "array"  -> Array([i \in DOMAIN v[2] |-> Kept(T.items, v[2][i])])
    [] T.t = "map"    -> Object([key \in DOMAIN v[2] |-> Kept(T.values, v[2][key])])
    [] T.t = "record" -> Object([name \in DOMAIN v[2] |->
                           Kept(T.fields[Only({i \in DOMAIN T.fields : T.fields[i].name = name})].type, v[2][name])])
    [] T.t = "union"  -> IF ~T.wrapped THEN Kept(T.types[GetIndex(T, v)], v)
                         ELSE Wrap(T, WrappedIndex(T, v), Kept(T.types[WrappedIndex(T, v)], Unwrapped(v)))
    [] OTHER          -> v

\* Items, one to a block, the odd ones with the size of the block: what other writers do.
InBlocks(T, v) ==
  LET item(n) == IF T.t = "map"
                   THEN LET key == SetToSeq(DOMAIN v[2])[n]
                        IN  Written(WriteString(Blank(MinimalCapacity), Letters[key])) \o Encoded(T.values, v[2][key])
                   ELSE Encoded(T.items, v[2][n])
      count == IF T.t = "map" THEN Cardinality(DOMAIN v[2]) ELSE Len(v[2])
      number(n) == Written(WriteLong(Blank(MinimalCapacity), n))
      block(n) == (IF n % 2 = 1 THEN number(-1) \o number(Len(item(n))) ELSE number(1)) \o item(n)
  IN  FlattenSeq([n \in 1..count |-> block(n)]) \o number(0)

\* A reader R can read everything a writer W writes; assumed are the pairs of records that
\* were met before.
RECURSIVE Readable(_, _, _)
FieldReadable(field, W, assumed) ==
  LET named == {k \in DOMAIN W.fields : W.fields[k].name \in Aliases(field)}
  IN  \/ named = {} /\ field.default # Undefined
      \/ \E k \in named : named = {k} /\ Readable(field.type, W.fields[k].type, assumed)
Readable(R, W, assumed) ==
  CASE R.t = "ref" -> Readable(Deref(R), W, assumed)
    [] W.t = "ref" /\ R.t # "ref" -> Readable(R, Deref(W), assumed)
    [] R.t \notin {"ref", "union", "logical"} /\ W.t = "logical" -> Readable(R, W.under, assumed)
    [] R.t # "ref" /\ W.t = "union" -> \A i \in DOMAIN W.types : Readable(R, W.types[i], assumed)
    [] R.t = "union" /\ W.t \notin {"ref", "union"} ->
         \E i \in DOMAIN R.types : Readable(R.types[i], W, assumed)
    [] R.t = "record" /\ W.t = "record" ->
         \/ <<R, W>> \in assumed
         \/ /\ HasCompatibleName(R, W)
            /\ \A i \in DOMAIN R.fields : FieldReadable(R.fields[i], W, assumed \cup {<<R, W>>})
    [] R.t = "logical" /\ W.t \notin {"ref", "union"} -> DayResolves(W)
    [] IsPrimitive(R) /\ W.t \notin {"ref", "union", "logical"} -> W.t \in Primitive[R.t].reads
    [] R.t = "enum" /\ W.t = "enum" -> /\ HasCompatibleName(R, W)
                                       /\ R.default # "" \/ ToSet(W.symbols) \subseteq ToSet(R.symbols)
    [] R.t = "fixed" /\ W.t = "fixed" -> HasCompatibleName(R, W) /\ R.size = W.size
    [] R.t = "array" /\ W.t = "array" -> Readable(R.items, W.items, assumed)
    [] R.t = "map" /\ W.t = "map" -> Readable(R.values, W.values, assumed)
    [] OTHER -> FALSE

\* What a value v of W is, read as R.
RECURSIVE Read(_, _, _)
ReadField(field, W, v) ==
  LET named == {k \in DOMAIN W.fields : W.fields[k].name \in Aliases(field)}
      writer == W.fields[Only(named)]
      value == IF FieldOf(v, writer.name) = Undefined THEN DefaultValue(writer) ELSE FieldOf(v, writer.name)
  IN  IF named = {} THEN DefaultValue(field) ELSE Read(field.type, writer.type, value)
ReadPrimitive(R, v) ==
  CASE R.t = "string" /\ v[1] = "buffer" -> <<"string", Units(v[2])>>
    [] R.t = "bytes" /\ v[1] = "string"  -> <<"buffer", FlattenSeq(Utf8(v[2]))>>
    [] OTHER                             -> v
Read(R, W, v) ==
  CASE R.t = "ref" -> Read(Deref(R), W, v)
    [] W.t = "ref" /\ R.t # "ref" -> Read(R, Deref(W), v)
    [] R.t \notin {"ref", "union", "logical"} /\ W.t = "logical" -> Read(R, W.under, ToValue(v))
    [] R.t # "ref" /\ W.t = "union" ->
         IF W.wrapped THEN Read(R, W.types[WrappedIndex(W, v)], Unwrapped(v))
         ELSE Read(R, W.types[GetIndex(W, v)], v)
    [] R.t = "union" /\ W.t \notin {"ref", "union"} ->
         LET i == Min({k \in DOMAIN R.types : Readable(R.types[k], W, {})})
         IN  IF R.wrapped THEN Wrap(R, i, Read(R.types[i], W, v)) ELSE Read(R.types[i], W, v)
    [] R.t = "record" /\ W.t = "record" ->
         Object([name \in {R.fields[i].name : i \in DOMAIN R.fields} |->
                   ReadField(R.fields[Only({i \in DOMAIN R.fields : R.fields[i].name = name})], W, v)])
    [] R.t = "logical" /\ W.t \notin {"ref", "union"} -> IF W.t = "logical" THEN v ELSE FromValue(v)
    [] IsPrimitive(R) /\ W.t \notin {"ref", "union", "logical"} -> ReadPrimitive(R, v)
    [] R.t = "enum" -> IF \E i \in DOMAIN R.symbols : Letters[R.symbols[i]] = v[2] THEN v
                       ELSE <<"string", Letters[R.default]>>
    [] R.t = "array" -> Array([i \in DOMAIN v[2] |-> Read(R.items, W.items, v[2][i])])
    [] R.t = "map" -> Object([key \in DOMAIN v[2] |-> Read(R.values, W.values, v[2][key])])
    [] OTHER -> v

\* The numbers of the bytes of a long.
LittleEndian(bytes) == bytes[1] + 256 * bytes[2] + 65536 * bytes[3] + 16777216 * bytes[4]
LongOf(bytes) == IF bytes[8] < 128 THEN LittleEndian(bytes) ELSE -LittleEndian(Inverted(bytes)) - 1

\* v without what a record got since it was inferred: optional fields, as null.
RECURSIVE Without(_, _)
Without(v, w) ==
  CASE v[1] = "object" /\ w[1] = "object" ->
         Object([name \in {n \in DOMAIN v[2] : n \in DOMAIN w[2] \/ v[2][n] # Null} |->
                   IF name \in DOMAIN w[2] THEN Without(v[2][name], w[2][name]) ELSE v[2][name]])
    [] v[1] = "array" /\ w[1] = "array" ->
         Array([i \in DOMAIN v[2] |-> IF i \in DOMAIN w[2] THEN Without(v[2][i], w[2][i]) ELSE v[2][i]])
    [] OTHER -> v

-----------------------------------------------------------------------------
(* Promises. *)

\* A sample is of one of the five kinds.
ATypeOK == sample.kind \in {"none", "done", "type", "pair", "resolver", "inferred", "long"}

\* Type.toBuffer, fromBuffer, _skip and clone: however small the shared buffer was, the bytes
\* are the same; read or skipped they give the value, a float rounded, and end where they end; cut short, or
\* with anything after them, they are refused; and so is nothing another writer cut in blocks.
ValueRoundTrips ==
  sample.kind = "type" =>
    LET T == sample.type
        v == sample.v
        bytes == Encoded(T, v)
        value == Kept(T, Complete(T, v))
    IN  /\ Check(T, v)
        /\ FromBuffer(T, bytes) = value
        /\ Skip(T, Tap(bytes)).pos = Len(bytes)
        /\ \A capacity \in 0 .. Len(bytes) + 1 : ToBuffer(T, v, capacity) = bytes
        /\ \A n \in 0 .. Len(bytes) - 1 : FromBuffer(T, SubSeq(bytes, 1, n)) = Throw
        /\ FromBuffer(T, Append(bytes, 0)) = Throw
        /\ T.t \in {"array", "map"} =>
             /\ FromBuffer(T, InBlocks(T, v)) = value
             /\ Skip(T, Tap(InBlocks(T, v))).pos = Len(InBlocks(T, v))

\* toString and fromString, _copy with the two coercions: the JSON form of a value stands for
\* it, also of bytes, unions and missing fields.
JSONRoundTrips ==
  sample.kind = "type" => FromJSON(sample.type, ToJSON(sample.type, sample.v)) = Complete(sample.type, sample.v)

\* unpackLongBytes and packLongBytes: a custom long has the bytes of its number, and is
\* written as the number is; a long type reads that number, and refuses one that is not safe.
LongsAgree ==
  sample.kind = "long" =>
    LET bytes == sample.long.bytes
        packed == Written(PackLongBytes(Blank(MinimalCapacity), bytes))
        unpacked == UnpackLongBytes(Tap(packed))
    IN  /\ unpacked.val = bytes /\ unpacked.tap.pos = Len(packed)
        /\ sample.long.small =>
             /\ ReadLong(Tap(packed)).val = LongOf(bytes)
             /\ packed = Written(WriteLong(Blank(MinimalCapacity), LongOf(bytes)))
             /\ FromBuffer(T0("long"), packed) =
                  IF Magnitude(LongOf(bytes)) <= MaxLong THEN Number(LongOf(bytes)) ELSE Throw

RECURSIVE IsOrdered(_)
IsOrdered(T) ==
  CASE T.t = "ref"    -> TRUE
    [] T.t = "map"    -> FALSE
    [] T.t = "array"  -> IsOrdered(T.items)
    [] T.t = "union"  -> \A i \in DOMAIN T.types : IsOrdered(T.types[i])
    [] T.t = "record" -> \A i \in DOMAIN T.fields : T.fields[i].order = 0 \/ IsOrdered(T.fields[i].type)
    [] OTHER          -> TRUE

\* compare and compareBuffers: the order of values, with floats rounded, is that of their
\* encodings, read side by side up to the first difference, whatever the fields' orders say.
ComparesAlike ==
  sample.kind = "pair" /\ IsOrdered(sample.type) =>
    LET T == sample.type
        v == Kept(T, Complete(T, sample.v))
        w == Kept(T, Complete(T, sample.w))
    IN  /\ Compare(T, v, w) = CompareBuffers(T, Encoded(T, v), Encoded(T, w))
        /\ Compare(T, w, v) = -Compare(T, v, w)

\* Two records under one key, or one that failed: what the registry cannot tell apart.
Muddled(made) ==
  \E key \in DOMAIN made.registry : made.registry[key] = Pending \/ key = <<"", "">>

\* createResolver, fromBuffer with a resolver: it is made if the reader's schema can read all
\* that the writer's writes, and then reads what the rules of schema resolution make of the
\* value, whether or not the end of the record is skipped.  It is not made otherwise, unless
\* the registry of resolvers mixes up two records.
ResolverReads ==
  sample.kind = "resolver" =>
    LET R == sample.reader
        W == sample.type
        made == Resolver(R, W)
        bytes == Encoded(W, sample.v)
    IN  /\ Readable(R, W, {}) => made.ok
        /\ made.ok /\ ~Muddled(made) =>
             /\ Readable(R, W, {})
             /\ \A noCheck \in BOOLEAN : FromBufferAs(made, bytes, noCheck) = Read(R, W, Kept(W, sample.v))

\* forValue and forTypes: the type inferred from several values takes each of them, and gives
\* it back, with null for what others had, and with a number rounded where the type inferred
\* for it is float; without strictDefaults the order does not matter.
TakesAll ==
  sample.kind = "inferred" =>
    LET T == ForTypes(Types(sample.values, LAMBDA v : ForValue(v, sample.strict)), sample.strict)
        back == ForTypes(Types(Reverse(sample.values), LAMBDA v : ForValue(v, sample.strict)), sample.strict)
    IN  /\ T # Bad
        /\ \A i \in DOMAIN sample.values :
             LET v == sample.values[i]
             IN  /\ Check(T, v) /\ Check(back, v)
                 /\ Without(FromBuffer(T, Encoded(T, v)), v) = Kept(T, v)

\* Whatever is encoded, in whichever form, is what is decoded, but for the rounding of floats
\* in the binary form, and values are ordered as
\* their encodings are.
EncodingsExact == [][ValueRoundTrips /\ JSONRoundTrips /\ LongsAgree /\ ComparesAlike]_sample

\* A resolver reads what it should, and is made whenever it can.
ResolverSound == [][ResolverReads]_sample

\* An inferred type takes all it was inferred from, and loses nothing but the digits that a
\* float has not.
CombinedTakesAll == [][TakesAll]_sample
=============================================================================
