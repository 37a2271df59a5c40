---------------------------- MODULE RpcAdapters ----------------------------
(***************************************************************************)
(* What a client and a server of lib/avsc-rpc make of each other's bytes:   *)
(* the adapter of their two services, with a reader for every request,      *)
(* response and error, the requests and responses as they are sent, and     *)
(* the handshake before them.                                               *)
(*                                                                          *)
(* A service is a function from the names of its messages to these; "" is   *)
(* the name of the ping, which belongs to no service.  Mut... operators are *)
(* faulty variants of the operator that follows.                            *)
(***************************************************************************)
EXTENDS AvroPromises

CONSTANT Exchanges   \* [client, server, name, headers, request, isError, answer, prefix, handshake]

VARIABLE exchange

NoExchange == [name |-> "none"]
XInit == exchange = NoExchange

\* A client sends a message, and is answered.
Exchange ==
  /\ exchange = NoExchange
  /\ exchange' \in Exchanges

\* What both made of it is used.
Exchanged == [name |-> "exchanged"]
UseExchange == exchange \notin {NoExchange, Exchanged} /\ exchange' = Exchanged

XNext == Exchange \/ UseExchange

\* An exchange is of two services.
XTypeOK == exchange.name \in {"none", "exchanged"} \/ exchange \in Exchanges
-----------------------------------------------------------------------------
(* The types of the package. *)

MapBytes == [t |-> "map", values |-> [t |-> "bytes"]]
StringOf(name) == IF name = "" THEN <<>> ELSE Letters[name]

MD5 == [t |-> "fixed", name |-> "MD5", aliases |-> {}, size |-> 16]
Optional(type) == [t |-> "union", wrapped |-> FALSE, types |-> <<[t |-> "null"], type>>]
HandshakeRequest ==
  [t |-> "record", name |-> "HandshakeRequest", aliases |-> {},
   fields |-> <<FieldWith("clientHash", MD5, Undefined),
                FieldWith("clientProtocol", Optional([t |-> "string"]), Null),
                FieldWith("serverHash", MD5, Undefined),
                FieldWith("meta", Optional(MapBytes), Null)>>]
HandshakeMatch ==
  [t |-> "enum", name |-> "HandshakeMatch", aliases |-> {}, symbols |-> <<"BOTH", "CLIENT", "NONE">>, default |-> ""]
HandshakeResponse ==
  [t |-> "record", name |-> "HandshakeResponse", aliases |-> {},
   fields |-> <<FieldWith("match", HandshakeMatch, Undefined),
                FieldWith("serverProtocol", Optional([t |-> "string"]), Null),
                FieldWith("serverHash", Optional(MD5), Null),
                FieldWith("meta", Optional(MapBytes), Null)>>]

\* The prefix of a buffer, and what comes after it.
ReadHead(T, buf) ==
  LET head == ReadValue(T, Tap(buf))
  IN  IF ~IsValid(head.tap) \/ head.val = Throw THEN Throw
      ELSE [head |-> head.val, tail |-> SubSeq(buf, head.tap.pos + 1, Len(buf))]
-----------------------------------------------------------------------------
(* Adapters. *)

\* Equals: the canonical schemas of two types are the same, without defaults, aliases,
\* logical types and the representation of unions; assumed are the pairs met before.
RECURSIVE Equals(_, _, _)
Equals(T, U, assumed) ==
  LET a == Deref(T)
      b == Deref(U)
      met == assumed \cup {<<a, b>>}
      each(s, r) == Len(s) = Len(r) /\ \A i \in DOMAIN s : Equals(s[i], r[i], met)
      types(fields) == [i \in DOMAIN fields |-> fields[i].type]
      names(fields) == [i \in DOMAIN fields |-> fields[i].name]
  IN  CASE <<a, b>> \in assumed -> TRUE
        [] a.t = "logical"      -> Equals(a.under, b, assumed)
        [] b.t = "logical"      -> Equals(a, b.under, assumed)
        [] a.t # b.t            -> FALSE
        [] a.t = "record" -> a.name = b.name /\ names(a.fields) = names(b.fields) /\ each(types(a.fields), types(b.fields))
        [] a.t = "union"  -> each(a.types, b.types)
        [] a.t = "enum"   -> a.name = b.name /\ a.symbols = b.symbols
        [] a.t = "fixed"  -> a.name = b.name /\ a.size = b.size
        [] a.t = "array"  -> Equals(a.items, b.items, met)
        [] a.t = "map"    -> Equals(a.values, b.values, met)
        [] OTHER          -> TRUE

CreateReader(R, W) == IF Equals(R, W, {}) THEN Made(As(R), <<>>) ELSE Resolver(R, W)

\* The server reads requests, the client responses and errors.
MutMessageReaders(c, s) ==
  [request  |-> CreateReader(s.request, c.request),
   error    |-> CreateReader(s.error, c.error),
   response |-> CreateReader(c.response, s.response)]
MessageReaders(c, s) ==
  [request  |-> CreateReader(s.request, c.request),
   error    |-> CreateReader(c.error, s.error),
   response |-> CreateReader(c.response, s.response)]

\* The readers of the client's messages; ok if all of them can be made.
CreateReaders(client, server) ==
  LET readers == [n \in DOMAIN client \cap DOMAIN server |-> MessageReaders(client[n], server[n])]
  IN  [ok |-> \A n \in DOMAIN client :
                /\ n \in DOMAIN server /\ server[n].oneWay = client[n].oneWay
                /\ \A r \in DOMAIN readers[n] : readers[n][r].ok,
       readers |-> readers]

ReadWith(reader, tap) == Resolve(reader.resolver, reader.registry, tap, FALSE)

\* The bytes of a request of a client's message.
RequestToBuffer(client, name, headers, request) ==
  Encoded(MapBytes, headers) \o Written(WriteString(Blank(MinimalCapacity), StringOf(name)))
    \o (IF name = "" THEN <<>> ELSE Encoded(client[name].request, request))

\* The bytes of a response to a server's message.
ResponseToBuffer(server, name, headers, isError, answer) ==
  LET type == IF isError THEN server[name].error ELSE server[name].response
  IN  Encoded(MapBytes, headers) \o Written(WriteBoolean(Blank(MinimalCapacity), isError))
        \o (IF name = "" THEN <<>> ELSE Encoded(type, answer))

\* What a server makes of the bytes of a request; a name without a reader throws.
DecodeRequest(readers, buf) ==
  LET hdr == ReadValue(MapBytes, Tap(buf))
      name == ReadString(hdr.tap)
      known == {n \in DOMAIN readers : <<"string", StringOf(n)>> = name.val}
      req == IF name.val = <<"string", <<>>>> THEN Got(Undefined, name.tap)
             ELSE IF known = {} THEN Got(Throw, name.tap)
             ELSE ReadWith(readers[Only(known)].request, name.tap)
  IN  IF Throw \in {hdr.val, req.val} \/ ~IsValid(req.tap) THEN Throw
      ELSE [headers |-> hdr.val, name |-> name.val[2], request |-> req.val]

\* What a client makes of the bytes of a response to the message of that name; the headers
\* are added to those it has.  The response to a ping is not checked.
DecodeResponse(readers, buf, headers, name) ==
  LET hdr == ReadValue(MapBytes, Tap(buf))
      isError == ReadBoolean(hdr.tap)
      answer == IF name = "" THEN Got(Undefined, isError.tap)
                ELSE ReadWith(IF isError.val[2] THEN readers[name].error ELSE readers[name].response, isError.tap)
  IN  IF Throw \in {hdr.val, answer.val} \/ (name # "" /\ ~IsValid(answer.tap)) THEN Throw
      ELSE [headers |-> Object(hdr.val[2] @@ headers[2]), isError |-> isError.val[2], answer |-> answer.val]
-----------------------------------------------------------------------------
(* Properties. *)

\* Both services can read all that the other writes.
Compatible(client, server) ==
  \A n \in DOMAIN client :
    /\ n \in DOMAIN server /\ server[n].oneWay = client[n].oneWay
    /\ Readable(server[n].request, client[n].request, {})
    /\ Readable(client[n].error, server[n].error, {})
    /\ Readable(client[n].response, server[n].response, {})

\* createReaders, the adapter and the wrapped messages: there are readers exactly for
\* compatible services; with them the server understands every request, and the client every
\* response and error, as schema resolution says, headers included, and bytes that were cut
\* short are refused, in the handshake or after it, rather than read as something shorter.
Understood ==
  exchange \notin {NoExchange, Exchanged} =>
    LET x == exchange
        made == CreateReaders(x.client, x.server)
        ping == x.name = ""
        request == RequestToBuffer(x.client, x.name, x.headers, x.request)
        response == ResponseToBuffer(x.server, x.name, x.headers, x.isError, x.answer)
        cs == x.client[x.name]
        ss == x.server[x.name]
        packet == Encoded(x.prefix, x.handshake) \o request
        begin == Len(packet) - Len(request)
    IN  /\ made.ok = Compatible(x.client, x.server)
        /\ made.ok =>
             /\ DecodeRequest(made.readers, request) =
                  [headers |-> x.headers, name |-> StringOf(x.name),
                   request |-> IF ping THEN Undefined ELSE Read(ss.request, cs.request, x.request)]
             /\ DecodeResponse(made.readers, response, Object(<<>>), x.name) =
                  [headers |-> x.headers, isError |-> x.isError,
                   answer |-> IF ping THEN Undefined
                              ELSE IF x.isError THEN Read(cs.error, ss.error, x.answer)
                              ELSE Read(cs.response, ss.response, x.answer)]
             /\ \A n \in 0 .. Len(request) - 1 : DecodeRequest(made.readers, SubSeq(request, 1, n)) = Throw
             /\ ~ping => \A n \in 0 .. Len(response) - 1 :
                           DecodeResponse(made.readers, SubSeq(response, 1, n), Object(<<>>), x.name) = Throw
        /\ ReadHead(x.prefix, packet) = [head |-> Complete(x.prefix, x.handshake), tail |-> request]
        /\ \A n \in 0 .. begin - 1 : ReadHead(x.prefix, SubSeq(packet, 1, n)) = Throw

\* Compatible services understand each other, and nothing is made of truncated messages.
AdaptersAgree == [][Understood]_exchange
=============================================================================
