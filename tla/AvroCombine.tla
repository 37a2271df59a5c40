---------------------------- MODULE AvroCombine ----------------------------
(***************************************************************************)
(* Types inferred from values, and types combined into one that takes the   *)
(* values of each: forValue and forTypes of lib/avsc.                       *)
(*                                                                          *)
(* Bad stands for an error instead of a type.  The type of an empty array   *)
(* is an array of nulls that is told apart by its identity.                 *)
(* Mut... operators are faulty variants of the operator that follows.       *)
(***************************************************************************)
EXTENDS AvroTypes

Bad == [t |-> "error"]
T0(t) == [t |-> t]
EmptyArrayType == [t |-> "array", items |-> T0("null"), empty |-> TRUE]

ArrayOf(items) == IF items = Bad THEN Bad ELSE [t |-> "array", items |-> items]
MapOf(values) == IF values = Bad THEN Bad ELSE [t |-> "map", values |-> values]

FieldWith(name, type, default) ==
  [name |-> name, type |-> type, default |-> default, order |-> 1, aliases |-> {}]

\* The constructor of a field refuses a default that its type does not take.
RecordOf(fields) ==
  IF \E i \in DOMAIN fields : \/ fields[i].type = Bad
                              \/ DefaultValue(fields[i]) = Throw
    THEN Bad ELSE [t |-> "record", name |-> "", aliases |-> {}, fields |-> fields]

Bucket(T) == TypeBucket(Deref(T))
IsLogical(T) == Deref(T).t = "logical"
IsAmbiguous(types) ==
  \E i, k \in DOMAIN types : /\ i # k /\ Bucket(types[i]) = Bucket(types[k])
                             /\ ~IsLogical(types[i]) /\ ~IsLogical(types[k])

\* A union's branches have different names and are no unions; it is wrapped if need be.
UnionOf(types, wrap) ==
  IF \/ \E i \in DOMAIN types : types[i] = Bad \/ Deref(types[i]).t = "union"
     \/ \E i, k \in DOMAIN types : i # k /\ BranchName(types[i]) = BranchName(types[k])
    THEN Bad ELSE [t |-> "union", wrapped |-> wrap \/ IsAmbiguous(types), types |-> types]

Types(seq, F(_)) == [i \in DOMAIN seq |-> F(seq[i])]
Distinct(seq) == SelectSeq([i \in DOMAIN seq |-> IF \E k \in 1 .. i - 1 : seq[k] = seq[i]
                                                   THEN <<"again">> ELSE <<"first", seq[i]>>],
                           LAMBDA x : x # <<"again">>)

-----------------------------------------------------------------------------
(* Types of one bucket. *)

NumberNames == <<"int", "long", "float", "double">>
Rank(T) == CHOOSE i \in 1..4 : NumberNames[i] = Deref(T).t

\* The first of those that take most.
CombineNumbers(types) ==
  types[CHOOSE i \in DOMAIN types : \A k \in DOMAIN types :
          \/ Rank(types[i]) > Rank(types[k])
          \/ Rank(types[i]) = Rank(types[k]) /\ i <= k]

CombineStrings(types) ==
  LET strings == {i \in DOMAIN types : Deref(types[i]).t = "string"}
      symbols == FlattenSeq(Types(types, LAMBDA T : Deref(T).symbols))
  IN  IF strings # {} THEN types[Min(strings)]
      ELSE [t |-> "enum", name |-> "", aliases |-> {}, default |-> "",
            symbols |-> Types(Distinct(symbols), LAMBDA x : x[2])]

CombineBuffers(types) ==
  LET bytes == {i \in DOMAIN types : Deref(types[i]).t = "bytes"}
  IN  CASE bytes # {} -> types[Min(bytes)]
        [] \A i \in DOMAIN types : Deref(types[i]).size = Deref(types[1]).size -> types[1]
        [] OTHER -> T0("bytes")

RECURSIVE ForTypes(_, _)

\* The fields called name of the records that have one.
FieldsNamed(records, name) ==
  FlattenSeq(Types(records, LAMBDA R : SelectSeq(R.fields, LAMBDA f : f.name = name)))

\* The types of these fields, and the last default; null is put in front, and is the default,
\* if a record has no such field and there is no default.
MutCombinedField(records, name) ==
  LET fields == FieldsNamed(records, name)
      types == Types(fields, LAMBDA f : f.type)
  IN  [types |-> types, default |-> Undefined, optional |-> FALSE]
CombinedField(records, name) ==
  LET fields == FieldsNamed(records, name)
      types == Types(fields, LAMBDA f : f.type)
      defaults == SelectSeq(Types(fields, DefaultValue), LAMBDA d : d # Undefined)
      optional == defaults = <<>> /\ Len(fields) < Len(records)
  IN  [optional |-> optional,
       types |-> IF optional THEN <<T0("null")>> \o types ELSE types,
       default |-> CASE optional -> Null [] defaults # <<>> -> Last(defaults) [] OTHER -> Undefined]

\* The branch that takes the default goes first.
DefaultFirst(T, default) ==
  LET valid == {i \in DOMAIN T.types : Check(T.types[i], default)}
      i == Min(valid)
  IN  IF default = Undefined \/ T.t # "union" THEN T
      ELSE IF valid = {} THEN Bad
      ELSE UnionOf([T.types EXCEPT ![1] = T.types[i], ![i] = T.types[1]], FALSE)

\* A record if all are records, and fields that are missing somewhere may be optional; else
\* a map.
CombineObjects(types, strict) ==
  LET objects == Types(types, LAMBDA T : Deref(T))
      names == Distinct(FlattenSeq([i \in DOMAIN objects |->
                 IF objects[i].t = "record" THEN Types(objects[i].fields, LAMBDA f : f.name) ELSE <<>>]))
      all == FlattenSeq([i \in DOMAIN objects |->
               IF objects[i].t = "map" THEN <<objects[i].values>>
               ELSE Types(objects[i].fields, LAMBDA f : f.type)])
      combined == [n \in DOMAIN names |-> CombinedField(objects, names[n][2])]
      isRecord == /\ \A i \in DOMAIN objects : objects[i].t = "record"
                  /\ strict => \A n \in DOMAIN combined : ~combined[n].optional
      field(n) == FieldWith(names[n][2], DefaultFirst(ForTypes(combined[n].types, strict), combined[n].default),
                            combined[n].default)
  IN  IF \E i \in DOMAIN objects : objects[i].t \notin {"map", "record"} THEN Bad
      ELSE IF isRecord THEN RecordOf([n \in DOMAIN names |-> field(n)])
      ELSE MapOf(ForTypes(all, strict))

CombineArrays(types, strict) ==
  LET typed == SelectSeq(types, LAMBDA T : T # EmptyArrayType)
  IN  IF typed = <<>> THEN EmptyArrayType
      ELSE ArrayOf(ForTypes(Types(typed, LAMBDA T : T.items), strict))

Combine(bucket, types, strict) ==
  CASE Len(types) = 1 \/ bucket \in {"null", "boolean"} -> types[1]
    [] bucket = "number" -> CombineNumbers(types)
    [] bucket = "string" -> CombineStrings(types)
    [] bucket = "buffer" -> CombineBuffers(types)
    [] bucket = "array"  -> CombineArrays(types, strict)
    [] OTHER             -> CombineObjects(types, strict)

-----------------------------------------------------------------------------
(* Wrapped unions combine with each other and with null only. *)

CombineWrapped(types, branches) ==
  LET named(T) == SelectSeq(branches, LAMBDA B : BranchName(B) = BranchName(T))
  IN  IF \/ \E i \in DOMAIN types : types[i].t # "null" /\ ~(types[i].t = "union" /\ types[i].wrapped)
         \/ \E i \in DOMAIN branches : named(branches[i])[1] # branches[i]
        THEN Bad ELSE UnionOf(Types(Distinct(branches), LAMBDA x : x[2]), TRUE)

ForTypes(types, strict) ==
  LET branches == FlattenSeq(Types(types, LAMBDA T : IF T.t = "union" THEN T.types ELSE <<T>>))
      buckets == Types(Distinct(Types(branches, Bucket)), LAMBDA x : x[2])
      of(bucket) == SelectSeq(branches, LAMBDA T : Bucket(T) = bucket)
      augmented == [b \in DOMAIN buckets |-> Combine(buckets[b], of(buckets[b]), strict)]
  IN  CASE types = <<>> \/ (\E i \in DOMAIN types : types[i] = Bad) -> Bad
        [] Len(types) = 1 -> types[1]
        [] OTHER ->
             IF \E i \in DOMAIN types : types[i].t = "union" /\ types[i].wrapped
               THEN CombineWrapped(types, branches)
             ELSE IF Len(augmented) = 1 THEN augmented[1]
             ELSE UnionOf(augmented, FALSE)

-----------------------------------------------------------------------------
(* Inference. *)

IsLetter(unit) == unit \in 65..90 \/ unit \in 97..122 \/ unit = 95
IsValidName(units) ==
  /\ units # <<>> /\ IsLetter(units[1])
  /\ \A i \in DOMAIN units : IsLetter(units[i]) \/ units[i] \in 48..57

\* An integer that is no int is a float up to twice a safe long, less one.
NumberType(n) ==
  CASE n % 2 = 0 /\ n \div 2 \in IntType.takes -> T0("int")
    [] Magnitude(n) < 4 * MaxLong - 2           -> T0("float")
    [] OTHER                                    -> T0("double")

RECURSIVE ForValue(_, _)
ObjectType(v, strict) ==
  LET names == SetToSeq(DOMAIN v[2])
      types == Types(names, LAMBDA name : ForValue(v[2][name], strict))
  IN  IF \E i \in DOMAIN names : ~IsValidName(Letters[names[i]])
        THEN MapOf(ForTypes(types, strict))
        ELSE RecordOf([i \in DOMAIN names |-> FieldWith(names[i], types[i], Undefined)])

ForValue(v, strict) ==
  CASE v[1] \in {"string", "boolean", "null"} -> T0(v[1])
    [] v[1] = "number" -> NumberType(v[2])
    [] v[1] = "buffer" -> T0("bytes")
    [] v[1] = "array" -> IF v[2] = <<>> THEN EmptyArrayType
                         ELSE ArrayOf(ForTypes(Types(v[2], LAMBDA w : ForValue(w, strict)), strict))
    [] v[1] = "object" -> ObjectType(v, strict)
    [] OTHER -> Bad
=============================================================================
