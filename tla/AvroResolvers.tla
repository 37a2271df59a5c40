--------------------------- MODULE AvroResolvers ---------------------------
(***************************************************************************)
(* Reading what was written with one schema, the writer's, as another, the  *)
(* reader's: createResolver of lib/avsc, with the registry that lets types  *)
(* refer to themselves, and the reader a resolver holds.                    *)
(*                                                                          *)
(* A resolver is a record; its read says how it reads.  Registered stands   *)
(* for one that is looked up when it reads, since it may not be complete    *)
(* when the resolver that uses it is made.  Mut... operators are faulty      *)
(* variants of the operator that follows.                                   *)
(***************************************************************************)
EXTENDS AvroTypes

\* What createResolver leaves: a resolver, or a failure, and the registry either way.
Made(resolver, registry) == [ok |-> TRUE, resolver |-> resolver, registry |-> registry]
Failed(registry) == [ok |-> FALSE, registry |-> registry]

Pending == [read |-> "none"]            \* registered, and not or never completed
As(T) == [read |-> "type", type |-> T]  \* reads like type T
Registered(key) == [read |-> "registered", key |-> key]

Aliases(T) == {T.name} \cup T.aliases
HasCompatibleName(R, W) == W.name = "" \/ W.name \in Aliases(R)

\* The user's logical type reads days, and ints as days.
DayResolves(W) == W.t \in {"int", "logical"}

RECURSIVE CreateResolver(_, _, _)

\* Several resolvers in order, each of them with the registry that the last one left; an
\* error ends it.  pairs are reader and writer.
Each(pairs, registry) ==
  LET next(all, pair) ==
        IF ~all.ok THEN all
        ELSE LET made == CreateResolver(pair[1], pair[2], all.registry)
             IN  IF made.ok THEN Made(Append(all.resolver, made.resolver), made.registry) ELSE made
  IN  FoldLeft(next, Made(<<>>, registry), pairs)

\* Floats and doubles read a long as it is, like an int.
PrimitiveUpdate(R, W, registry) ==
  CASE W.t \notin Primitive[R.t].reads                  -> Failed(registry)
    [] R.t \in {"string", "bytes"}                      -> Made(As(R), registry)
    [] R.t \in {"float", "double"} /\ W.t = "long"      -> Made(As([t |-> "int"]), registry)
    [] OTHER                                            -> Made(As(W), registry)

Known(R, symbol) == \E i \in DOMAIN R.symbols : R.symbols[i] = symbol
EnumUpdate(R, W, registry) ==
  IF /\ W.t = "enum" /\ HasCompatibleName(R, W)
     /\ (\A i \in DOMAIN W.symbols : Known(R, W.symbols[i])) \/ R.default # ""
    THEN Made([read |-> "enum",
               symbols |-> [i \in DOMAIN W.symbols |->
                              IF Known(R, W.symbols[i]) THEN W.symbols[i] ELSE R.default]], registry)
    ELSE Failed(registry)

FixedUpdate(R, W, registry) ==
  IF W.t = "fixed" /\ R.size = W.size /\ HasCompatibleName(R, W) THEN Made(As(R), registry)
  ELSE Failed(registry)

MapUpdate(R, W, registry) ==
  IF W.t # "map" THEN Failed(registry)
  ELSE LET values == CreateResolver(R.values, W.values, registry)
       IN  IF values.ok THEN Made([read |-> "map", values |-> values.resolver], values.registry) ELSE values

ArrayUpdate(R, W, registry) ==
  IF W.t # "array" THEN Failed(registry)
  ELSE LET items == CreateResolver(R.items, W.items, registry)
       IN  IF items.ok THEN Made([read |-> "array", items |-> items.resolver], items.registry) ELSE items

\* The first branch that can read the writer's type; errors of others are dropped, what
\* they registered is not.
UnionUpdate(R, W, registry) ==
  LET next(made, T) == IF made.ok THEN made
                       ELSE LET branch == CreateResolver(T, W, made.registry)
                            IN  IF branch.ok
                                  THEN Made([read |-> "branch", branch |-> T, wrapped |-> R.wrapped,
                                             resolver |-> branch.resolver], branch.registry)
                                  ELSE branch
  IN  FoldLeft(next, Failed(registry), R.types)

\* Each of the reader's fields, in order, reads one of the writer's, under one of its names,
\* or has a default; several may read the same one.  The result has, for each field, the
\* number of the writer's field, or 0, and its resolver.
FieldResolvers(R, W, registry) ==
  LET next(all, field) ==
        LET named == {k \in DOMAIN W.fields : W.fields[k].name \in Aliases(field)}
            made == CreateResolver(field.type, W.fields[Only(named)].type, all.registry)
        IN  CASE ~all.ok -> all
              [] Cardinality(named) > 1 -> Failed(all.registry)
              [] named = {} -> IF field.default = Undefined THEN Failed(all.registry)
                               ELSE Made(Append(all.resolver, [from |-> 0]), all.registry)
              [] OTHER -> IF ~made.ok THEN made
                          ELSE Made(Append(all.resolver, [from |-> Only(named), resolver |-> made.resolver]),
                                    made.registry)
  IN  FoldLeft(next, Made(<<>>, registry), R.fields)

\* The writer's fields in order, with the reader's fields each of them is read into; from
\* lazy on there is nobody who reads any.
RecordUpdate(R, W, registry) ==
  LET made == FieldResolvers(R, W, registry)
      into(k) == SelectSeq([i \in DOMAIN R.fields |-> i], LAMBDA i : made.resolver[i].from = k)
      read == {made.resolver[i].from : i \in DOMAIN R.fields}
      reads(k) == [n \in DOMAIN into(k) |-> [name |-> R.fields[into(k)[n]].name,
                                             resolver |-> made.resolver[into(k)[n]].resolver]]
  IN  IF ~HasCompatibleName(R, W) THEN Failed(registry)
      ELSE IF ~made.ok THEN made
      ELSE Made([read |-> "record", fields |-> R.fields,
                 steps |-> [k \in DOMAIN W.fields |-> [skips |-> W.fields[k].type, reads |-> reads(k)]],
                 lazy |-> 1 + Max(read \cup {0})],
                made.registry)

LogicalUpdate(R, W, registry) ==
  IF DayResolves(W) THEN Made([read |-> "logical", type |-> W], registry) ELSE Failed(registry)

Update(R, W, registry) ==
  CASE R.t = "union"   -> UnionUpdate(R, W, registry)
    [] R.t = "enum"    -> EnumUpdate(R, W, registry)
    [] R.t = "fixed"   -> FixedUpdate(R, W, registry)
    [] R.t = "map"     -> MapUpdate(R, W, registry)
    [] R.t = "array"   -> ArrayUpdate(R, W, registry)
    [] R.t = "logical" -> LogicalUpdate(R, W, registry)
    [] OTHER           -> PrimitiveUpdate(R, W, registry)

\* Two records are resolved once: the key of their names is registered first.
CreateRegistered(R, W, registry) ==
  LET key == <<R.name, W.name>>
      made == RecordUpdate(R, W, (key :> Pending) @@ registry)
  IN  IF key \in DOMAIN registry THEN Made(Registered(key), registry)
      ELSE IF ~made.ok THEN made
      ELSE Made(Registered(key), [made.registry EXCEPT ![key] = made.resolver])

CreateResolver(R, W, registry) ==
  CASE R.t = "ref" -> CreateResolver(Deref(R), W, registry)
    [] W.t = "ref" /\ R.t # "ref" -> CreateResolver(R, Deref(W), registry)
    [] R.t \notin {"ref", "union", "logical"} /\ W.t = "logical" -> CreateResolver(R, W.under, registry)
    [] R.t # "ref" /\ W.t = "union" ->
         LET all == Each([i \in DOMAIN W.types |-> <<R, W.types[i]>>], registry)
         IN  IF all.ok THEN Made([read |-> "union", resolvers |-> all.resolver], all.registry) ELSE all
    [] R.t = "record" /\ W.t \notin {"ref", "union", "logical"} ->
         IF W.t = "record" THEN CreateRegistered(R, W, registry) ELSE Failed(registry)
    [] OTHER -> Update(R, W, registry)

Resolver(R, W) == CreateResolver(R, W, <<>>)
-----------------------------------------------------------------------------
(* Reading with a resolver. *)

RECURSIVE Resolve(_, _, _, _)
RECURSIVE ResolveBlocks(_, _, _, _)

UnionResolve(r, registry, tap) ==
  LET index == ReadLong(tap)
      i == index.val + 1
  IN  IF i \notin DOMAIN r.resolvers THEN Got(Throw, index.tap)
      ELSE Resolve(r.resolvers[i], registry, index.tap, FALSE)

BranchResolve(r, registry, tap) ==
  LET content == Resolve(r.resolver, registry, tap, FALSE)
  IN  IF r.wrapped /\ r.branch.t # "null"
        THEN Got(Object(BranchName(r.branch) :> content.val), content.tap)
        ELSE content

ResolveBlocks(r, registry, tap, items) ==
  LET n == ReadArraySize(tap)
      item(at) == IF r.read = "array" THEN Resolve(r.items, registry, at, FALSE)
                  ELSE LET key == ReadString(at)
                           value == Resolve(r.values, registry, key.tap, FALSE)
                       IN  Got(<<key.val, value.val>>, value.tap)
      next(at, k) == LET i == item(at.tap) IN Got(Append(at.val, i.val), i.tap)
      block == FoldLeft(next, Got(items, n.tap), [k \in 1..n.val |-> k])
  IN  IF n.val = 0 THEN Got(items, n.tap) ELSE ResolveBlocks(r, registry, block.tap, block.val)

MutStepResolve(step, registry, tap) ==
  LET reads == [n \in DOMAIN step.reads |-> Resolve(step.reads[n].resolver, registry, tap, FALSE)]
  IN  IF reads = <<>> THEN Got(<<>>, tap) ELSE Got([n \in DOMAIN reads |-> reads[n].val], reads[1].tap)
\* A field that several fields are read from is read again for each, from the same place.
StepResolve(step, registry, tap) ==
  LET reads == [n \in DOMAIN step.reads |-> Resolve(step.reads[n].resolver, registry, tap, FALSE)]
  IN  IF reads = <<>> THEN Got(<<>>, Skip(step.skips, tap))
      ELSE Got([n \in DOMAIN reads |-> reads[n].val], reads[1].tap)

\* What was read goes to the record's constructor, with defaults for the rest.
RecordResolve(r, registry, tap, lazy) ==
  LET steps == IF lazy THEN SubSeq(r.steps, 1, r.lazy - 1) ELSE r.steps
      next(at, step) ==
        LET got == StepResolve(step, registry, at.tap)
        IN  Got(FoldLeft(LAMBDA vals, n : (step.reads[n].name :> got.val[n]) @@ vals, at.val,
                         [n \in DOMAIN step.reads |-> n]), got.tap)
      all == FoldLeft(next, Got(<<>>, tap), steps)
      default(name) == DefaultValue(r.fields[Only({i \in DOMAIN r.fields : r.fields[i].name = name})])
  IN  Got(Object([name \in {r.fields[i].name : i \in DOMAIN r.fields} |->
                    IF name \in DOMAIN all.val /\ all.val[name] # Undefined THEN all.val[name]
                    ELSE default(name)]), all.tap)

LogicalResolve(r, tap) ==
  LET v == ReadValue(r.type, tap)
  IN  Got(IF r.type.t = "logical" THEN v.val ELSE FromValue(v.val), v.tap)

Resolve(r, registry, tap, lazy) ==
  CASE r.read = "none"       -> Got(Throw, tap)
    [] r.read = "type"       -> ReadValue(r.type, tap)
    [] r.read = "enum"       -> EnumRead(r, tap)
    [] r.read = "union"      -> UnionResolve(r, registry, tap)
    [] r.read = "branch"     -> BranchResolve(r, registry, tap)
    [] r.read = "map"        -> Got(Entries(ResolveBlocks(r, registry, tap, <<>>).val),
                                    ResolveBlocks(r, registry, tap, <<>>).tap)
    [] r.read = "array"      -> Got(Array(ResolveBlocks(r, registry, tap, <<>>).val),
                                    ResolveBlocks(r, registry, tap, <<>>).tap)
    [] r.read = "record"     -> RecordResolve(r, registry, tap, lazy)
    [] r.read = "logical"    -> LogicalResolve(r, tap)
    [] r.read = "registered" -> Resolve(registry[r.key], registry, tap, lazy)

\* fromBuffer with a resolver; without a check, the end of a record nobody reads is left.
FromBufferAs(made, bytes, noCheck) ==
  LET r == Resolve(made.resolver, made.registry, Tap(bytes), noCheck)
      complete == IF noCheck THEN IsValid(r.tap) ELSE r.tap.pos = Len(bytes)
  IN  IF r.val = Throw \/ ~complete THEN Throw ELSE r.val
=============================================================================
