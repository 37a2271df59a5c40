-------------------------- MODULE SchemaPromises ---------------------------
(***************************************************************************)
(* What lib/avsc promises about names, references and schemas, stated       *)
(* against references that know scopes, but no registry and no objects.  A  *)
(* behaviour picks a schema or a protocol.                                  *)
(***************************************************************************)
EXTENDS AvroSchemas

VARIABLE source

NoSource == [from |-> "none"]
SInitSource == source = NoSource

ReadSchema ==
  /\ source = NoSource
  /\ \E schema \in Schemas : source' = [from |-> "schema", schema |-> schema]
ReadProtocol ==
  /\ source = NoSource
  /\ \E ptcl \in Protocols : source' = [from |-> "protocol", ptcl |-> ptcl]

\* The types that were made of it are used.
UseTypes ==
  /\ source.from \in {"schema", "protocol"}
  /\ source' = [from |-> "done"]

SourceNext == ReadSchema \/ ReadProtocol \/ UseTypes

\* One behaviour reads one schema, or one protocol.
SourceTypeOK == source.from \in {"none", "schema", "protocol", "done"}
-----------------------------------------------------------------------------
(* References. *)

NullSpace(space) == space \in {NoSpace, <<>>}

\* The full name of a definition, and the namespace of the names inside it.
FullName(schema, outer) ==
  LET space == IF schema.namespace = NoSpace THEN outer ELSE schema.namespace
  IN  IF Head(schema.name) = "" THEN Tail(schema.name)
      ELSE IF Len(schema.name) > 1 \/ NullSpace(space) THEN schema.name
      ELSE space \o schema.name
InnerSpace(schema, outer) ==
  IF schema.namespace # NoSpace THEN schema.namespace
  ELSE IF schema.kind = "record" /\ schema.name # <<>> THEN Front(FullName(schema, outer))
  ELSE outer

\* The full names that a schema defines.
RECURSIVE Declared(_, _)
Declared(schema, outer) ==
  IF schema.kind = "name" THEN {}
  ELSE IF schema.kind = "union" THEN UNION {Declared(schema.parts[i], outer) : i \in DOMAIN schema.parts}
  ELSE (IF schema.name = <<>> THEN {} ELSE {FullName(schema, outer)})
         \cup UNION {Declared(schema.parts[i], InnerSpace(schema, outer)) : i \in DOMAIN schema.parts}
DeclaredIn(schemas, outer) == UNION {Declared(schemas[i], outer) : i \in DOMAIN schemas}

DeclaredByMessage(message, space) ==
  DeclaredIn(message.request \o <<message.response>> \o message.errors, space)

\* The schema without the logical types that are not valid where they stand.
RECURSIVE OnlyValid(_)
OnlyValid(schema) ==
  IF schema.kind = "name" THEN schema
  ELSE LET inner == [schema EXCEPT !.parts = [i \in DOMAIN @ |-> OnlyValid(@[i])]]
       IN  IF schema.kind = "union" \/ schema.logicalType \notin DOMAIN LogicalTypes THEN inner
           ELSE IF schema.kind \in LogicalTypes[schema.logicalType] THEN inner
           ELSE [inner EXCEPT !.logicalType = ""]

\* Two types look the same from outside; assumed are the pairs that were met before.
RECURSIVE Alike(_, _, _, _, _)
Alike(v, a, w, b, assumed) ==
  <<a, b>> \in assumed \/
    LET type == v.types[a]
        other == w.types[b]
    IN  /\ [type EXCEPT !.parts = <<>>] = [other EXCEPT !.parts = <<>>]
        /\ Len(type.parts) = Len(other.parts)
        /\ \A i \in DOMAIN type.parts : Alike(v, type.parts[i], w, other.parts[i], assumed \cup {<<a, b>>})
AlikeTypes(made, other) == Alike(made.world, made.id, other.world, other.id, {})

\* A schema written by a type says no namespace: in it the names that have none are
\* misread inside the definitions of names that have one.
RECURSIVE Misread(_, _)
Misread(schema, outer) ==
  CASE schema.kind = "name"  -> ~NullSpace(outer) /\ Len(schema.name) = 1 /\ schema.name[1] \notin Primitives
    [] schema.kind = "union" -> \E i \in DOMAIN schema.parts : Misread(schema.parts[i], outer)
    [] OTHER ->
         LET inner == InnerSpace(schema, outer)
         IN  \/ schema.name # <<>> /\ Len(schema.name) = 1 /\ ~NullSpace(outer)
             \/ \E i \in DOMAIN schema.aliases :
                  Len(schema.aliases[i]) = 1 /\ ~NullSpace(IF schema.kind = "record" THEN inner ELSE outer)
             \/ \E i \in DOMAIN schema.parts : Misread(schema.parts[i], inner)
-----------------------------------------------------------------------------
(* Properties. *)

Names(w) == {name \in DOMAIN w.registries[1] : name[1] \notin Primitives}

\* forSchema and forProtocol: whatever the nesting of namespaces, the registry holds the
\* full names of the types that the schema or the protocol defines and no others; the
\* records made for requests are not left in it.
NamesDeclared ==
  /\ source.from = "schema" =>
       LET made == ForSchema(source.schema, Options, EmptyWorld)
       IN  made.id > 0 /\ OnlyValid(source.schema) = source.schema =>
             Names(made.world) = Declared(source.schema, NoSpace)
  /\ source.from = "protocol" =>
       LET made == ForProtocol(source.ptcl, Options)
           space == IF source.ptcl.namespace # NoSpace THEN source.ptcl.namespace ELSE Front(source.ptcl.name)
       IN  made.ok => Names(made.world) =
             DeclaredIn(source.ptcl.types, space)
               \cup UNION {DeclaredByMessage(source.ptcl.messages[i], space) : i \in DOMAIN source.ptcl.messages}

\* schema: the schema of a type makes a type that looks the same, recursion, aliases and
\* logical types included, which is how the header of a file is read; unless a name without
\* namespace stands inside a definition that has one.
ReadsItsSchema ==
  source.from = "schema" =>
    LET made == ForSchema(source.schema, Options, EmptyWorld)
        schema == SchemaOf(made)
        again == ForSchema(schema, Options, EmptyWorld)
    IN  made.id > 0 => (again.id > 0 /\ AlikeTypes(made, again)) = ~Misread(schema, NoSpace)

\* The names that are known are those that were defined, and a schema that was written out
\* makes the same type.
SchemasExact == [][NamesDeclared /\ ReadsItsSchema]_source
=============================================================================
