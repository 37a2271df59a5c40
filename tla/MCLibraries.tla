---------------------------- MODULE MCLibraries ----------------------------
(* The parts of lib/avsc, for TLC: its types, with the values of small schemas, its   *)
(* schemas, the adapters that lib/avsc-rpc makes of them, and its streams; and with    *)
(* them lib/rpc-server.  They share no state, so that they are checked side by side:   *)
(* part says which of them moves.                                                      *)
EXTENDS RpcAdapters, MCSchemas, Streams, OrderedQueue, ServerLifecycle

CONSTANTS p1, p2

VARIABLE part

librariesVars == <<part, sample, exchange, source, decoderVars, encoderVars, rawVars, queueVars, lifeVars>>

MCLetters ==
  [x |-> <<120>>, y |-> <<121>>, z |-> <<122>>, value |-> <<118, 97>>, next |-> <<110>>,
   R |-> <<82>>, G |-> <<71>>, B |-> <<66>>, BOTH |-> <<66, 79>>, CLIENT |-> <<67>>, NONE |-> <<78>>,
   key |-> <<107, 45>>, other |-> <<107, 233>>]

T(t) == [t |-> t]
Field(name, type) == FieldWith(name, type, Undefined)
Record(name, fields) == [t |-> "record", name |-> name, aliases |-> {}, fields |-> fields]
Union(wrapped, types) == [t |-> "union", wrapped |-> wrapped, types |-> types]
Enum(name, symbols, default) ==
  [t |-> "enum", name |-> name, aliases |-> {}, symbols |-> symbols, default |-> default]
Fixed(name, size) == [t |-> "fixed", name |-> name, aliases |-> {}, size |-> size]
Ref(key) == [t |-> "ref", key |-> key]
Str(units) == <<"string", units>>
Buf(bytes) == <<"buffer", bytes>>
Bool(b) == <<"boolean", b>>
Half(n) == <<"number", n>>          \* a number in halves
Day == [t |-> "logical", under |-> T("int")]
DayOf(n) == <<"day", 2 * n>>

\* Lists, and a newer version of theirs, refer to themselves.
List == Record("List", <<Field("value", T("int")), Field("next", Union(FALSE, <<T("null"), Ref("List")>>))>>)
NewList ==
  [Record("NewList", <<Field("next", Union(TRUE, <<Ref("NewList"), T("null")>>)),
                       [Field("y", T("double")) EXCEPT !.aliases = {"value"}]>>) EXCEPT !.aliases = {"List"}]
MCNamed == [List |-> List, NewList |-> NewList]
Node(n, rest) == Object([value |-> Number(n), next |-> rest])

Color == Enum("Color", <<"R", "G">>, "")
Pair == Fixed("Pair", 2)
Long21 == [i \in 1..21 |-> 97]
Strings == {Str(<<>>), Str(<<97>>), Str(<<97, 98>>), Str(<<233>>), Str(<<8364>>), Str(<<55357, 56832>>),
            Str(Long21), Str(Append(Long21, 233))}
Ints == {Number(n) : n \in {-65, -64, -1, 0, 1, 63, 64, MaxInt, -MaxInt - 1}}

\* Numbers of 24 binary digits, of more, half-way between two floats, and one that is rounded
\* to more digits than it has.
Halves == {Half(n) : n \in {0, 1, -4, 16777215, 16777217, -16777219, 33554431, 1000000007}}

\* Fields that are compared upwards, not at all, downwards; two have defaults, in JSON form.
Point ==
  Record("Point", <<[Field("x", T("int")) EXCEPT !.order = -1],
                    [Field("y", Union(FALSE, <<T("bytes"), T("null")>>)) EXCEPT !.order = 0, !.default = Str(<<7>>)],
                    [Field("z", Union(TRUE, <<T("string"), Color>>)) EXCEPT !.default = Str(<<122>>)]>>)
One == Object([x |-> Number(1)])
Points == {One, Object([x |-> Number(2)]),
           Object([x |-> Number(1), y |-> Null, z |-> Object("Color" :> Str(<<71>>))]),
           Object([x |-> Number(1), y |-> Buf(<<200, 1>>), z |-> Object("string" :> Str(<<>>))])}

\* Reads points: x as another name, twice; nothing of the end.
Axis ==
  [Record("Axis", <<[Field("value", T("long")) EXCEPT !.aliases = {"x"}],
                    Field("x", Union(FALSE, <<T("null"), T("float")>>)),
                    [Field("next", Color) EXCEPT !.default = Str(<<82>>)]>>) EXCEPT !.aliases = {"Point"}]
\* Reads the middle of points only, as a string.
Middle == [Record("Middle", <<Field("y", Union(FALSE, <<T("null"), T("string")>>))>>) EXCEPT !.aliases = {"Point"}]

\* Two records without names, and one that can only be read as a part of another.
Nameless == Record("Nameless", <<Field("x", Record("", <<Field("y", T("int"))>>)),
                                 Field("z", Record("", <<Field("R", T("int"))>>))>>)
Partial == [Record("Partial", <<Field("x", Union(FALSE, <<Record("", <<Field("G", T("int"))>>), T("null")>>))>>)
              EXCEPT !.aliases = {"Nameless"}]

MCSamples == {
  [type |-> Nameless, values |-> {Object([x |-> Object([y |-> Number(1)]), z |-> Object([R |-> Number(2)])])}],
  [type |-> T("null"), values |-> {Null}],
  [type |-> T("boolean"), values |-> {Bool(TRUE), Bool(FALSE)}],
  [type |-> T("int"), values |-> Ints],
  [type |-> T("long"), values |-> Ints \cup {Number(8192), Number(-8193), Number(-MaxLong)}],
  [type |-> T("float"), values |-> Halves],
  [type |-> T("double"), values |-> Halves],
  [type |-> T("string"), values |-> Strings],
  [type |-> T("bytes"), values |-> {Buf(<<>>), Buf(<<0>>), Buf(<<200, 1>>), Buf(<<97>>)}],
  [type |-> Color, values |-> {Str(<<82>>), Str(<<71>>)}],
  [type |-> Pair, values |-> {Buf(<<0, 255>>), Buf(<<1, 0>>)}],
  [type |-> Day, values |-> {DayOf(1), DayOf(-2)}],
  [type |-> [t |-> "array", items |-> T("int")],
   values |-> {Array(<<>>), Array(<<Number(1)>>), Array(<<Number(1), Number(64)>>), Array(<<Number(2)>>)}],
  [type |-> [t |-> "map", values |-> Union(FALSE, <<T("null"), Day>>)],
   values |-> {Object(<<>>), Object([key |-> DayOf(3)]), Object([key |-> Null, other |-> DayOf(1)])}],
  [type |-> Union(FALSE, <<T("string"), T("null"), T("long")>>), values |-> {Null, Number(-3), Str(<<97>>)}],
  [type |-> Union(TRUE, <<T("int"), T("null"), T("float"), Pair>>),
   values |-> {Null, Object("int" :> Number(1)), Object("float" :> Half(1)), Object("Pair" :> Buf(<<1, 2>>))}],
  [type |-> Point, values |-> Points],
  [type |-> [t |-> "array", items |-> Point], values |-> UNION {{Array(<<p, One>>), Array(<<One, p>>)} : p \in Points}],
  [type |-> Ref("List"), values |-> {Node(1, Null), Node(1, Node(2, Null)), Node(1, Node(0, Node(3, Null)))}]
}

MCReaders == {T(t) : t \in DOMAIN Primitive} \cup {
  Enum("Color", <<"G", "B">>, "B"), Enum("Color", <<"B", "G", "R">>, ""), Enum("Color", <<"B">>, ""),
  Enum("Colour", <<"R", "G">>, ""), Pair, Fixed("Pair", 3), Day,
  [t |-> "array", items |-> T("double")], [t |-> "map", values |-> Union(TRUE, <<T("int"), T("null")>>)],
  [t |-> "array", items |-> Axis],
  Union(FALSE, <<T("null"), T("double"), T("bytes")>>), Union(TRUE, <<T("string"), T("long"), T("null"), Axis>>),
  Union(FALSE, <<Day, T("string")>>), Axis, Middle, Point, Nameless, Partial, Ref("NewList"), List}

MCLots == {
  <<Number(1), Half(1)>>, <<Number(1), Half(1500000000), Null>>,
  <<Number(16777217), Half(1)>>, <<Half(16777217), Str(<<>>)>>,
  <<Object([x |-> Number(16777219)]), Object([x |-> Array(<<>>)]), Object([x |-> Number(MaxInt + 1)])>>,
  <<Array(<<Number(16777217), Null>>), Array(<<Half(-33554431)>>)>>, <<Number(MaxInt), Number(-MaxInt - 1)>>,
  <<Number(2 * MaxLong - 2), Null>>, <<Number(2 * MaxLong - 1), Number(16777217)>>,
  <<Str(<<97>>), Number(1), Bool(TRUE)>>,
  <<Array(<<>>), Array(<<Number(1)>>), Array(<<Null>>)>>, <<Array(<<>>), Array(<<>>)>>,
  <<Array(<<Number(1), Str(<<>>)>>), Null, Array(<<Half(1), Buf(<<1>>)>>)>>,
  <<Object([x |-> Number(1)]), Object([y |-> Str(<<97>>)])>>,
  <<Object([x |-> Number(1), y |-> Null]), Object([x |-> Half(1)]), Object([x |-> Number(1), y |-> Bool(TRUE)])>>,
  <<Object([x |-> Number(1)]), Object([key |-> Str(<<97>>)])>>,
  <<Object([x |-> Object([y |-> Number(1)])]), Object([x |-> Object([z |-> Array(<<>>)])])>>,
  <<Array(<<Object([x |-> Number(1)]), Object([y |-> Number(1)])>>), Array(<<Object([x |-> Null])>>)>>,
  <<Buf(<<1>>), Object(<<>>), Object([key |-> Null])>>}

MCLongs ==
  [bytes : {<<a, b, c, 0, 0, 0, 0, 0>> : a \in {0, 1, 63, 64, 127, 128, 255}, b \in {0, 1, 255}, c \in {0, 5}}
           \cup {<<a, b, 255, 255, 255, 255, 255, 255>> : a \in {0, 191, 192, 255}, b \in {0, 255}}
           \* The largest and the smallest safe long, and what is next to them.
           \cup {<<0, 0, 0, 16, 0, 0, 0, 0>>, <<1, 0, 0, 16, 0, 0, 0, 0>>}
           \cup {<<0, 0, 0, 240, 255, 255, 255, 255>>, <<255, 255, 255, 239, 255, 255, 255, 255>>},
   small : {TRUE}]
  \cup [bytes : {<<0, 0, 0, 1, 0, 0, 0, 0>>, <<1, 2, 3, 4, 5, 6, 7, 127>>, <<255, 0, 0, 255, 255, 0, 0, 128>>,
                 <<0, 0, 0, 0, 0, 0, 0, 128>>, <<0, 0, 0, 0, 0, 1, 0, 0>>, <<0, 0, 0, 0, 0, 0, 1, 0>>},
        small : {FALSE}]

\* A message of a client, and messages of servers that read it, or do not.
Say(request, response, errors, oneWay) ==
  [request |-> Record("Say", request), response |-> response, oneWay |-> oneWay,
   error |-> Union(FALSE, <<T("string")>> \o errors)]
Ask == Say(<<Field("x", T("int")), Field("next", Union(FALSE, <<T("null"), Ref("List")>>))>>, Color, <<Point>>, FALSE)
Tell == Say(<<Field("y", T("string"))>>, T("null"), <<>>, TRUE)
Client == [x |-> Ask, y |-> Tell]
AskedFor == [Field("z", Union(TRUE, <<T("int"), T("string")>>)) EXCEPT !.default = Number(9)]
AlsoAsk == Say(<<[Field("value", T("double")) EXCEPT !.aliases = {"x"}], AskedFor>>, Enum("Color", <<"G">>, ""), <<>>, FALSE)
Versions == {
  Client, [x |-> AlsoAsk, y |-> Tell, z |-> Ask], [x |-> Ask], [Client EXCEPT !.y.oneWay = FALSE],
  [Client EXCEPT !.x.response = Enum("Color", <<"G", "B">>, "")], [Client EXCEPT !.x.error = Union(FALSE, <<T("string"), T("bytes")>>)],
  [Client EXCEPT !.x.request = Record("Say", <<Field("x", T("string"))>>)],
  [Client EXCEPT !.x.request = Record("Say", <<Field("x", Day), Field("next", Union(TRUE, <<T("null"), Ref("List")>>))>>),
                 !.x.response = Enum("Color", <<"R", "G">>, "R")]}
Prefix(n) == Buf([i \in 1..16 |-> n])
Handshakes ==
  {[prefix |-> HandshakeRequest, handshake |-> Object([clientHash |-> Prefix(1), serverHash |-> Prefix(2)])],
   [prefix |-> HandshakeResponse,
    handshake |-> Object([match |-> Str(<<67>>), serverProtocol |-> Str(<<97>>), serverHash |-> Prefix(3),
                          meta |-> Object([key |-> Buf(<<1>>)])])]}
Requests == {<<"x", Object([x |-> Number(64), next |-> Node(1, Null)])>>, <<"x", Object([x |-> Number(-1), next |-> Null])>>,
             <<"y", Object([y |-> Str(<<97, 233>>)])>>, <<"", Null>>}
Answers ==
  BOOLEAN \X {Null, Str(<<71>>), Object([x |-> Number(1), y |-> Null, z |-> Object("string" :> Str(<<>>))])}

\* Every server gets every request of a message it has, and gives the answers of its types.
Given(server, name, isError, answer) ==
  Check(IF name = "" THEN T("null") ELSE IF isError THEN server[name].error ELSE server[name].response, answer)
MCExchanges ==
  {[client |-> Client, server |-> server, name |-> request[1], headers |-> headers, request |-> request[2],
    isError |-> answer[1], answer |-> answer[2], prefix |-> shake.prefix, handshake |-> shake.handshake] :
     <<server, request, answer>> \in {with \in Versions \X Requests \X Answers :
                                        /\ with[2][1] \in DOMAIN with[1] \cup {""}
                                        /\ Given(with[1], with[2][1], with[3][1], with[3][2])},
     headers \in {Object(<<>>), Object([key |-> Buf(<<7>>)])}, shake \in Handshakes}

\* Blocks and their values, an empty one last; and values, some larger than a block.
MCCounts == <<2, 1, 1, 0>>
MCSizes == <<1, 2, 1, 1, 5, 2, 3, 2, 12, 1>>

\* Pairs of longs that fill the taps exactly; one that does not; and one that throws half-way.
MCWrites ==
  {[values |-> <<<<1, 2>>, <<3, -4>>, <<>>, <<100, -100>>, <<5, 6>>, <<7, 8>>, <<9, 0>>>>, batch |-> 2],
   [values |-> <<<<100, 200>>, <<3000, -4000>>, <<>>, <<100, -100>>>>, batch |-> 4],
   [values |-> <<<<1, 2>>, <<100, 5>>, <<3, 4>>>>, batch |-> 3],
   [values |-> <<<<1, 2>>, <<5>>, <<3, 4>>>>, batch |-> 8]}

LibrariesInit ==
  /\ part \in {"types", "adapters", "schemas", "decoder", "encoder", "raw", "queue", "lifecycle"}
  /\ AInit /\ XInit /\ SInitSource /\ DInit /\ EInit /\ RInit /\ QInit /\ LInit
  \* What a part chooses at the start matters only where it moves.
  /\ part # "encoder" => needHeader
  /\ part # "raw" => job = CHOOSE w \in Writes : TRUE

typeVars == <<sample, exchange, source>>
otherVars == <<lifeVars, decoderVars, encoderVars, rawVars, queueVars>>

InTypes(action) == part = "types" /\ action /\ UNCHANGED <<part, exchange, source, otherVars>>
InAdapters(action) == part = "adapters" /\ action /\ UNCHANGED <<part, sample, source, otherVars>>
InSchemas(action) == part = "schemas" /\ action /\ UNCHANGED <<part, sample, exchange, otherVars>>
InDecoder(action) == part = "decoder" /\ action /\ UNCHANGED <<part, typeVars, encoderVars, rawVars, queueVars, lifeVars>>
InEncoder(action) == part = "encoder" /\ action /\ UNCHANGED <<part, typeVars, decoderVars, rawVars, queueVars, lifeVars>>
InRaw(action) == part = "raw" /\ action /\ UNCHANGED <<part, typeVars, decoderVars, encoderVars, queueVars, lifeVars>>
InQueue(action) == part = "queue" /\ action /\ UNCHANGED <<part, typeVars, decoderVars, encoderVars, rawVars, lifeVars>>
\* The two processes are alike: p1 is the first to be launched.
InLifecycle(action) ==
  /\ part = "lifecycle" /\ action /\ UNCHANGED <<part, typeVars, decoderVars, encoderVars, rawVars, queueVars>>
  /\ up'[p2] # "unborn" => up[p1] # "unborn"

LibrariesNext ==
  \/ InTypes(ANext) \/ InAdapters(XNext) \/ InSchemas(SourceNext)
  \/ InDecoder(DNext) \/ InEncoder(ENext) \/ InRaw(RNext) \/ InQueue(QNext)
  \/ InLifecycle(LNext)

\* Streams, ticks and codecs go on while they can; a server's process runs, and its clients
\* do not stay connected for ever.
LibrariesFairness ==
  /\ WF_decoderVars(part = "decoder" /\ DNext)
  /\ WF_encoderVars(part = "encoder" /\ ENext)
  /\ WF_rawVars(part = "raw" /\ RNext)
  /\ \A p \in Procs : WF_lifeVars(Runs(p))
  /\ \A p \in Procs, g \in Servers : WF_lifeVars(Disconnect(p, g))

LibrariesSpec == LibrariesInit /\ [][LibrariesNext]_librariesVars /\ LibrariesFairness

\* The parts keep their types.
LibrariesTypeOK == ATypeOK /\ XTypeOK /\ SourceTypeOK /\ DTypeOK /\ ETypeOK /\ RTypeOK /\ QTypeOK /\ LTypeOK

\* Every file is read to its end, and written to its end, unless an error is emitted.
FilesEnd == (part = "decoder" ~> (ended \/ failed))
             /\ (part = "encoder" ~> (broken \/ (ends = 1 /\ FileComplete)))
             /\ (part = "raw" ~> outputEnded)
=============================================================================
