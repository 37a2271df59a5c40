----------------------------- MODULE MCSchemas -----------------------------
(* Schemas and protocols for TLC: definitions nested in one another under     *)
(* namespaces that are given, implied, inherited, empty or overruled by a     *)
(* full name, and references to them from inside, before and after.           *)
EXTENDS SchemaPromises

N(name) == NameSchema(name)
Num == N(<<"int">>)
Def(kind, name, space) == [Anonymous(kind) EXCEPT !.name = name, !.namespace = space]
Rec(name, space, parts) ==
  [Def("record", name, space) EXCEPT !.labels = SubSeq(<<"f", "g", "h">>, 1, Len(parts)), !.parts = parts]
Id(name, space) == [Def("fixed", name, space) EXCEPT !.size = 2]
Hue(name, space) == [Def("enum", name, space) EXCEPT !.labels = <<"R", "G">>]
Either(parts) == [kind |-> "union", parts |-> parts]
ListOf(part) == [Anonymous("array") EXCEPT !.parts = <<part>>]
MapTo(part) == [Anonymous("map") EXCEPT !.parts = <<part>>]
Annotated(logical, schema) == [schema EXCEPT !.logicalType = logical]

MCLogicalTypes == [day |-> {"int"}, money |-> {"fixed", "record"}]

Spaces == {NoSpace, <<>>, <<"n">>, <<"n", "m">>}
Inner == {<<"B">>, <<"n", "B">>, <<"", "B">>}
Outer == {<<"A">>, <<"n", "A">>, <<"", "A">>}
Inside ==
  {Id(name, space) : name \in Inner, space \in {NoSpace, <<>>, <<"k">>}}
    \cup {Rec(name, NoSpace, <<Hue(<<"C">>, NoSpace), N(<<"C">>)>>) : name \in Inner}

\* Two definitions, one inside the other, and references to both.
Nested ==
  {Rec(name, space, <<inside, N(<<"B">>), Either(<<N(<<"null">>), N(<<"A">>)>>)>>) :
     name \in Outer, space \in Spaces, inside \in Inside}
    \cup {Rec(name, space, <<inside, ListOf(N(<<"n", "B">>))>>) : name \in Outer, space \in Spaces, inside \in Inside}
    \cup {Rec(name, space, <<Id(<<"B">>, <<>>), MapTo(N(<<"", "B">>))>>) : name \in Outer, space \in Spaces}

Others == {
  N(<<"string">>), N(<<"X">>), Either(<<>>), Either(<<Either(<<Num>>)>>), Either(<<Num, Num>>), Either(<<Num, N(<<"float">>)>>),
  [Hue(<<"E">>, NoSpace) EXCEPT !.labels = <<"R", "R">>], Def("enum", <<"E">>, NoSpace), Id(<<"int">>, NoSpace),
  [Id(<<"E">>, NoSpace) EXCEPT !.size = -1],
  [Rec(<<"A">>, NoSpace, <<Num, Num>>) EXCEPT !.labels = <<"f", "f">>],
  Rec(<<"A">>, NoSpace, <<Id(<<"A">>, NoSpace)>>), Rec(<<>>, <<"n">>, <<Id(<<"B">>, NoSpace), N(<<"n", "B">>)>>),
  Either(<<Id(<<"A">>, NoSpace), Id(<<"A">>, <<"n">>), MapTo(N(<<"A">>))>>),
  [Rec(<<"A">>, <<"n">>, <<MapTo(N(<<"A">>))>>) EXCEPT !.aliases = <<<<"Z">>, <<"", "Y">>>>],
  [Rec(<<"A">>, <<"n">>, <<MapTo(N(<<"A">>))>>) EXCEPT !.aliases = <<<<"Z">>, <<"k", "Y">>>>],
  Rec(<<"A">>, <<"n">>, <<[Id(<<"k", "B">>, NoSpace) EXCEPT !.aliases = <<<<"Z">>>>], N(<<"k", "B">>)>>),
  Annotated("day", [Anonymous("int") EXCEPT !.size = 0]), Annotated("day", Anonymous("string")), Annotated("hour", Anonymous("int")),
  Rec(<<"A">>, NoSpace, <<Annotated("day", Anonymous("int")), Num, Either(<<Annotated("day", Anonymous("int")), N(<<"long">>)>>)>>),
  Annotated("money", Rec(<<"A">>, NoSpace, <<ListOf(N(<<"A">>)), Annotated("money", Id(<<"B">>, NoSpace)), N(<<"B">>)>>)),
  Annotated("money", Rec(<<"A">>, <<"n">>, <<Annotated("day", Id(<<"B">>, NoSpace)), Either(<<N(<<"null">>), N(<<"A">>)>>)>>))}

MCSchemaSet == Nested \cup Others

Message(key, request, response, errors, oneWay) ==
  [key |-> key, labels |-> SubSeq(<<"f", "g">>, 1, Len(request)), request |-> request, response |-> response,
   errors |-> errors, oneWay |-> oneWay]
MCProtocols ==
  {[name |-> name, namespace |-> space, types |-> types, messages |-> messages] :
     name \in {<<"P">>, <<"n", "P">>}, space \in {NoSpace, <<"n">>, <<>>},
     types \in {<<>>, <<Id(<<"B">>, NoSpace), Rec(<<"k", "A">>, NoSpace, <<Hue(<<"C">>, NoSpace)>>)>>},
     messages \in {
       <<Message("m", <<Num>>, N(<<"null">>), <<>>, TRUE)>>,
       <<Message("m", <<Rec(<<"D">>, NoSpace, <<Num>>), N(<<"D">>)>>, N(<<"D">>), <<N(<<"D">>)>>, FALSE),
         Message("o", <<N(<<"D">>)>>, Id(<<"G">>, <<"m">>), <<>>, FALSE)>>,
       <<Message("m", <<Num>>, N(<<"string">>), <<Rec(<<"D">>, NoSpace, <<>>)>>, FALSE)>>,
       <<Message("m", <<N(<<"B">>)>>, N(<<"k", "A">>), <<>>, FALSE)>>,
       <<Message("m", <<Num>>, Num, <<>>, TRUE)>>}}

SourceSpec == SInitSource /\ [][SourceNext]_source
=============================================================================
