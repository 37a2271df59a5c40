---------------------------- MODULE AvroSchemas ----------------------------
(***************************************************************************)
(* How lib/avsc makes types from schemas, and schemas from types: the       *)
(* scope of names, the registry that references are resolved in, logical    *)
(* types that take the place of the type they annotate, and the protocols   *)
(* of lib/avsc-rpc, whose types and messages share one registry.            *)
(*                                                                          *)
(* Types are objects: a type is the number of an object in world.types, and *)
(* a registry the number of an object in world.registries.  A name is the   *)
(* sequence of its parts, <<>> if there is none; a leading "" is the dot of *)
(* an absolute name.  A constructor gives the changed world and the type,   *)
(* 0 if it throws.  Mut... operators are faulty variants of the operator    *)
(* that follows.                                                            *)
(***************************************************************************)
EXTENDS Integers, Sequences, SequencesExt, FiniteSets, TLC

CONSTANTS
  Schemas,         \* the schemas that types are made from
  Protocols,       \* the protocols that services are made from
  LogicalTypes     \* the user's logical types: the types each may annotate

Primitives == {"null", "boolean", "int", "long", "float", "double", "bytes", "string"}
NoSpace == <<"undefined">>     \* a namespace that is undefined; <<>> is the empty one

Options == [namespace |-> NoSpace, registry |-> 1, assertLogicalTypes |-> FALSE, logicalTypes |-> TRUE]
EmptyWorld == [types |-> <<>>, registries |-> << <<>> >>, logical |-> 0]

Fail(w) == [world |-> w, id |-> 0]
Built(w, id) == [world |-> w, id |-> id]
-----------------------------------------------------------------------------
(* Names. *)

Qualify(name, space) ==
  IF Len(name) > 1 THEN IF Head(name) = "" THEN Tail(name) ELSE name
  ELSE IF space \in {NoSpace, <<>>} THEN name ELSE space \o name

MaybeQualify(name, space) ==
  IF Last(name) \in Primitives THEN <<Last(name)>> ELSE Qualify(name, space)

ImpliedNamespace(name) ==
  IF Len(name) = 1 THEN NoSpace ELSE IF Head(name) = "" THEN <<>> ELSE Front(name)

Space(schema, opts) == IF schema.namespace = NoSpace THEN opts.namespace ELSE schema.namespace

\* The options that the fields of a record are made with.
MutRecordScope(schema, opts) ==
  [opts EXCEPT !.namespace = IF schema.namespace # NoSpace THEN schema.namespace ELSE @]
RecordScope(schema, opts) ==
  [opts EXCEPT !.namespace =
     IF schema.namespace # NoSpace THEN schema.namespace
     ELSE IF schema.name # <<>> /\ ImpliedNamespace(schema.name) # NoSpace
       THEN ImpliedNamespace(schema.name)
     ELSE @]
-----------------------------------------------------------------------------
(* Making types. *)

Anonymous(kind) ==
  [kind |-> kind, name |-> <<>>, namespace |-> NoSpace, aliases |-> <<>>, parts |-> <<>>,
   labels |-> <<>>, size |-> 0, logicalType |-> ""]

\* The constructor of Type.  A logical type under construction is registered in the place
\* of the type it annotates, and learns which one that is.
NewType(schema, opts, w) ==
  LET id == Len(w.types) + 1
      name == IF schema.name = <<>> THEN <<>> ELSE MaybeQualify(schema.name, Space(schema, opts))
      type == [kind |-> schema.kind, name |-> name, labels |-> schema.labels, size |-> schema.size,
               aliases |-> [i \in DOMAIN schema.aliases |-> MaybeQualify(schema.aliases[i], Space(schema, opts))],
               parts |-> <<>>, logicalType |-> "", wrapped |-> FALSE]
      annotated == IF w.logical = 0 THEN w.types ELSE [w.types EXCEPT ![w.logical].parts = <<id>>]
      grown == [w EXCEPT !.types = Append(annotated, type), !.logical = 0]
  IN  IF name = <<>> THEN Built(grown, id)
      ELSE IF Last(name) \in Primitives \/ name \in DOMAIN w.registries[opts.registry] THEN Fail(grown)
      ELSE Built([grown EXCEPT !.registries[opts.registry] = (name :> IF w.logical = 0 THEN id ELSE w.logical) @@ @], id)

RECURSIVE ForSchema(_, _, _)

\* The parts of a type, in turn; the first that throws ends it.
ForSchemas(schemas, opts, w) ==
  FoldLeft(LAMBDA made, schema :
             IF ~made.ok THEN made
             ELSE LET part == ForSchema(schema, opts, made.world)
                  IN  [ok |-> part.id > 0, world |-> part.world, ids |-> Append(made.ids, part.id)],
           [ok |-> TRUE, world |-> w, ids |-> <<>>], schemas)

\* A type whose constructor has run gets its parts.
WithParts(made, schemas, opts) ==
  IF made.id = 0 THEN made
  ELSE LET parts == ForSchemas(schemas, opts, made.world)
       IN  IF parts.ok THEN Built([parts.world EXCEPT !.types[made.id].parts = parts.ids], made.id)
           ELSE Fail(parts.world)

OrThrow(made, valid) == IF valid THEN made ELSE Fail(made.world)

NewRecord(schema, opts, w) ==
  LET scope == RecordScope(schema, opts)
  IN  WithParts(OrThrow(NewType(schema, scope, w), IsInjective(schema.labels)), schema.parts, scope)
NewEnum(schema, opts, w) ==
  OrThrow(NewType(schema, opts, w), schema.labels # <<>> /\ IsInjective(schema.labels))
NewFixed(schema, opts, w) == OrThrow(NewType(schema, opts, w), schema.size >= 0)
\* Arrays and maps have no name, whatever the schema says.
NewCollection(schema, opts, w) == WithParts(NewType(Anonymous(schema.kind), opts, w), schema.parts, opts)
NewPrimitive(schema, opts, w) == NewType(Anonymous(schema.kind), opts, w)

Underlying(w, id) == IF w.types[id].kind = "logical" THEN w.types[id].parts[1] ELSE id
BranchNameOf(w, id) ==
  LET type == w.types[Underlying(w, id)]
  IN  IF type.name # <<>> THEN type.name ELSE <<type.kind>>

BucketOf(kind) ==
  CASE kind \in {"int", "long", "float", "double"} -> "number"
    [] kind \in {"bytes", "fixed"}                 -> "buffer"
    [] kind = "enum"                               -> "string"
    [] kind \in {"map", "record"}                  -> "object"
    [] OTHER                                       -> kind

AreAmbiguous(w, ids) ==
  \E i, j \in DOMAIN ids :
    i < j /\ w.types[ids[i]].kind # "logical" /\ w.types[ids[j]].kind # "logical"
          /\ BucketOf(w.types[ids[i]].kind) = BucketOf(w.types[ids[j]].kind)

\* The branches are made first, without the logical type the union may be annotated with.
NewUnion(schema, opts, w) ==
  LET branches == ForSchemas(schema.parts, opts, [w EXCEPT !.logical = 0])
      ids == branches.ids
      made == NewType(Anonymous("union"), opts, [branches.world EXCEPT !.logical = w.logical])
      valid == /\ ids # <<>> /\ \A i \in DOMAIN ids : made.world.types[ids[i]].kind # "union"
               /\ IsInjective([i \in DOMAIN ids |-> BranchNameOf(made.world, ids[i])])
  IN  IF ~branches.ok THEN Fail(branches.world)
      ELSE IF ~valid THEN Fail(made.world)
      ELSE Built([made.world EXCEPT !.types[made.id].parts = ids,
                                    !.types[made.id].wrapped = AreAmbiguous(made.world, ids)], made.id)

\* The constructor of a user's logical type: that of LogicalType, and then a check of the
\* type that was made, which the registry keeps when it fails.
NewLogical(schema, opts, w) ==
  LET id == Len(w.types) + 1
      type == [Anonymous("logical") EXCEPT !.logicalType = schema.logicalType] @@ [wrapped |-> FALSE]
      under == ForSchema(schema, opts, [w EXCEPT !.types = Append(@, type), !.logical = id])
      done == [under.world EXCEPT !.logical = 0]
  IN  IF under.id = 0 THEN Fail([done EXCEPT !.types[id].parts = <<>>])
      ELSE OrThrow(Built(done, id), done.types[under.id].kind \in LogicalTypes[schema.logicalType])

MakeType(schema, opts, w) ==
  CASE schema.kind = "union"            -> NewUnion(schema, opts, w)
    [] schema.kind = "record"           -> NewRecord(schema, opts, w)
    [] schema.kind = "enum"             -> NewEnum(schema, opts, w)
    [] schema.kind = "fixed"            -> NewFixed(schema, opts, w)
    [] schema.kind \in {"array", "map"} -> NewCollection(schema, opts, w)
    [] schema.kind \in Primitives       -> NewPrimitive(schema, opts, w)

\* A reference to a type by its name.
Reference(schema, opts, w) ==
  LET name == MaybeQualify(schema.name, opts.namespace)
      made == NewPrimitive(Anonymous(Last(name)), opts, w)
  IN  IF name \in DOMAIN w.registries[opts.registry] THEN Built(w, w.registries[opts.registry][name])
      ELSE IF Last(name) \in Primitives
        THEN Built([made.world EXCEPT !.registries[opts.registry] = (name :> made.id) @@ @], made.id)
      ELSE Fail(w)

HasLogicalType(schema, opts) ==
  schema.kind # "union" /\ opts.logicalTypes /\ schema.logicalType \in DOMAIN LogicalTypes

\* When a logical type throws, the type it annotates is made instead, with the registry
\* as it was before: a copy, while the caller keeps the one that was used.
ForSchema(schema, opts, w) ==
  IF schema.kind = "name" THEN Reference(schema, opts, w)
  ELSE IF ~HasLogicalType(schema, opts) \/ w.logical > 0 THEN MakeType(schema, opts, w)
  ELSE LET made == NewLogical(schema, opts, w)
       IN  IF made.id > 0 \/ opts.assertLogicalTypes THEN made
           ELSE MakeType(schema, [opts EXCEPT !.registry = Len(made.world.registries) + 1],
                         [made.world EXCEPT !.registries = Append(@, w.registries[opts.registry])])
-----------------------------------------------------------------------------
(* The schema of a type, with its attributes; seen are the names that were defined. *)

NameSchema(name) == [kind |-> "name", name |-> name]

RECURSIVE Attrs(_, _, _)
AttrsOfParts(w, ids, seen) ==
  FoldLeft(LAMBDA done, id : LET part == Attrs(w, id, done.seen)
                             IN  [schemas |-> Append(done.schemas, part.schema), seen |-> part.seen],
           [schemas |-> <<>>, seen |-> seen], ids)

MutLogicalAttrs(w, type, seen) == Attrs(w, type.parts[1], seen)
LogicalAttrs(w, type, seen) ==
  LET under == Attrs(w, type.parts[1], seen)
      visited == w.types[type.parts[1]].name \in seen
      full == IF under.schema.kind = "name" THEN Anonymous(under.schema.name[1]) ELSE under.schema
  IN  IF visited THEN under ELSE [under EXCEPT !.schema = [full EXCEPT !.logicalType = type.logicalType]]

Attrs(w, id, seen) ==
  LET type == w.types[id]
      named == IF type.name = <<>> THEN seen ELSE seen \cup {type.name}
      parts == AttrsOfParts(w, type.parts, named)
  IN  CASE type.kind = "logical"                         -> LogicalAttrs(w, type, seen)
        [] type.name # <<>> /\ type.name \in seen        -> [schema |-> NameSchema(type.name), seen |-> seen]
        [] type.kind \in Primitives                      -> [schema |-> NameSchema(<<type.kind>>), seen |-> seen]
        [] type.kind = "union" -> [schema |-> [kind |-> "union", parts |-> parts.schemas], seen |-> parts.seen]
        [] OTHER ->
             [schema |-> [Anonymous(type.kind) EXCEPT !.name = type.name, !.aliases = type.aliases,
                            !.labels = type.labels, !.size = type.size, !.parts = parts.schemas],
              seen |-> parts.seen]

SchemaOf(made) == Attrs(made.world, made.id, {}).schema

-----------------------------------------------------------------------------
(* The protocols of lib/avsc-rpc. *)

WithoutName(w, opts, name) ==
  [w EXCEPT !.registries[opts.registry] = Restrict(@, DOMAIN @ \ {name})]

\* The types of a message.  Its request is a record with a placeholder for a name, which
\* is taken out of the registry again.
MessageForSchema(schema, opts, w) ==
  LET placeholder == <<"ipc", schema.key>>
      request == ForSchema([Anonymous("record") EXCEPT !.name = placeholder, !.labels = schema.labels,
                              !.parts = schema.request,
                              !.namespace = IF opts.namespace = NoSpace THEN <<>> ELSE opts.namespace], opts, w)
      response == ForSchema(schema.response, opts, WithoutName(request.world, opts, placeholder))
      error == ForSchema([kind |-> "union", parts |-> <<NameSchema(<<"string">>)>> \o schema.errors],
                         opts, response.world)
      valid == schema.oneWay => error.world.types[response.id].kind = "null" /\ schema.errors = <<>>
  IN  IF request.id = 0 \/ response.id = 0 \/ error.id = 0 \/ ~valid THEN [ok |-> FALSE, world |-> w]
      ELSE [ok |-> TRUE, world |-> error.world]

ProtocolScope(ptcl, opts) ==
  [opts EXCEPT !.namespace = IF ptcl.namespace # NoSpace THEN ptcl.namespace
                             ELSE IF Len(ptcl.name) > 1 THEN ImpliedNamespace(ptcl.name)
                             ELSE @]

\* Service.forProtocol: all types and messages share a registry.
ForProtocol(ptcl, opts) ==
  LET scope == ProtocolScope(ptcl, opts)
      types == ForSchemas(ptcl.types, scope, EmptyWorld)
  IN  FoldLeft(LAMBDA made, message : IF made.ok THEN MessageForSchema(message, scope, made.world) ELSE made,
               [ok |-> types.ok, world |-> types.world], ptcl.messages)
=============================================================================
