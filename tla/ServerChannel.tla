--------------------------- MODULE ServerChannel ---------------------------
(***************************************************************************)
(* The stateful server channel of lib/avsc-rpc: it answers handshakes until *)
(* one names a protocol it knows or carries one it can adapt, then hands    *)
(* each request to its handler and writes the responses in the order the    *)
(* handlers finish; destroy() stops listening at once and ends the stream   *)
(* when the last handler has answered.                                      *)
(*                                                                          *)
(* One action is one synchronous section of JavaScript, as in               *)
(* ClientChannel.  The client is left open: its requests arrive at any      *)
(* moment, each at most once.  Mut... operators are faulty variants, as     *)
(* there.                                                                   *)
(***************************************************************************)
EXTENDS Naturals, Sequences, FiniteSets

CONSTANTS
  Calls,            \* the requests that may arrive
  OneWayCalls,      \* those of one-way messages
  UnhandledCalls,   \* those of messages without a handler
  MangledCalls,     \* those whose request does not decode
  IdMask,           \* message ids are 0..IdMask
  KnownClient,      \* the client's protocol is in the server's cache
  Compatible        \* the server can adapt the client's protocol

VARIABLES
  slistening,   \* the listener on the readable's 'data' event
  spending,     \* the channel's count of requests being handled
  sdraining,    \* destroy was called
  sdestroyed,   \* the channel has ended
  known,        \* the server's cache holds an adapter for the client
  request,      \* how far each request has got
  requestId,    \* the message id it came with
  sfirst,       \* the request that came behind the handshake, if one did
  sticks,       \* nextTick queue: the requests whose chain completes
  sout,         \* messages written and not yet taken by the transport
  sforced,      \* history: destroy was called with noWait
  smidway,      \* history: a 'handshake' listener destroyed the channel being opened
  scaught       \* history: the requests whose own events had listeners that called
                \* destroy while the request was not counted

serverVars == <<slistening, spending, sdraining, sdestroyed, known, request, requestId,
                sfirst, sticks, sout, sforced, smidway, scaught>>

SIds == 0..IdMask
Stages == {"unseen", "handling", "thrown", "answered", "replied", "dropped"}
Replies == [type : {"handshake"}, match : {"MATCH", "NONE"}]
             \cup [type : {"reply"}, id : SIds, call : Calls]

\* Every variable keeps its type; the pending count never falls below zero.
STypeOK ==
  /\ slistening \in {"handshake", "request", "none"}
  /\ spending \in Nat
  /\ sdraining \in BOOLEAN /\ sdestroyed \in BOOLEAN
  /\ known \in BOOLEAN
  /\ request \in [Calls -> Stages]
  /\ requestId \in [Calls -> SIds]
  /\ sfirst \subseteq Calls
  /\ sticks \in Seq(Calls)
  /\ sout \in Seq(Replies)
  /\ sforced \in BOOLEAN /\ smidway \in BOOLEAN
  /\ scaught \subseteq Calls

SInit ==
  /\ slistening = "handshake"
  /\ spending = 0
  /\ sdraining = FALSE
  /\ sdestroyed = FALSE
  /\ known = KnownClient
  /\ request = [c \in Calls |-> "unseen"]
  /\ requestId = [c \in Calls |-> 0]
  /\ sfirst = {}
  /\ sticks = <<>>
  /\ sout = <<>>
  /\ sforced = FALSE
  /\ smidway = FALSE
  /\ scaught = {}

HandshakeReply(match) == [type |-> "handshake", match |-> match]

\* The answer to the request behind a handshake shares its message with the
\* handshake's; it is a reply like the others here.
Reply(c, id) == [type |-> "reply", id |-> id, call |-> c]

----------------------------------------------------------------------------
(* destroy().  Listeners of the channel's 'handshake' and 'incomingCall'    *)
(* events and of the server's 'error' event, and the formatter of system    *)
(* errors, run inside the channel's sections and may call it too: destroys  *)
(* is the set of the arguments they give it in a section.                   *)

MutSEnds(noWait, pending) == TRUE
MutSNeverEnds(noWait, pending) == noWait
SEnds(noWait, pending) == noWait \/ pending = 0

\* '_drain' is emitted by the first destroy and removes the listeners.
MutListenerDrained == slistening
ListenerDrained == IF sdraining THEN slistening ELSE "none"

\* What calls of destroy do to the channel while its count is pending, but for its end.
Drains(destroys) ==
  /\ sdraining' = (sdraining \/ destroys # {})
  /\ slistening' = (IF destroys = {} THEN slistening ELSE ListenerDrained)
  /\ sforced' = (sforced \/ TRUE \in destroys)

EndedBy(destroys, pending) == sdestroyed \/ \E noWait \in destroys : SEnds(noWait, pending)

\* destroy(noWait)
SDestroy(noWait) ==
  /\ Drains({noWait})
  /\ sdestroyed' = EndedBy({noWait}, spending)
  /\ UNCHANGED <<spending, known, request, requestId, sfirst, sticks, sout, smidway, scaught>>

\* The readable's 'end', listened to until the channel drains.
SOnEnd == ~sdraining /\ SDestroy(FALSE)

\* The writable's 'finish', when something other than the channel ended it.
SOnFinish == ~sdestroyed /\ SDestroy(TRUE)

----------------------------------------------------------------------------
(* Handshakes and requests.                                                *)

\* _getAdapter: an adapter is in the cache or is made from the client's
\* protocol, which the handshake must carry and the server must support.
Adapted(full) == known \/ (full /\ Compatible)

\* onHandshake with a ping, or in vain; wellFormed is false for a message that is
\* not a handshake.  Listeners of 'handshake', and of 'error' if it is in vain, may
\* destroy the channel; onRequest is installed after the former.
OnHandshake(wellFormed, full, destroys) ==
  LET ok == wellFormed /\ Adapted(full)
  IN /\ slistening = "handshake"
     /\ known' = (known \/ ok)
     /\ sdraining' = (sdraining \/ destroys # {})
     /\ slistening' = (IF ok THEN "request" ELSE IF destroys # {} THEN "none" ELSE slistening)
     /\ sforced' = (sforced \/ TRUE \in destroys)
     /\ smidway' = (smidway \/ (ok /\ destroys # {}))
     /\ sdestroyed' = EndedBy(destroys, spending)
     /\ sout' = (IF sdestroyed' THEN sout
                 ELSE Append(sout, HandshakeReply(IF ok THEN "MATCH" ELSE "NONE")))
     /\ UNCHANGED <<spending, request, requestId, sfirst, sticks, scaught>>

\* The handler of a one-way message may throw; nobody calls prev() for it then.
MayThrow(c) == c \in OneWayCalls /\ c \notin UnhandledCalls /\ c \notin MangledCalls

\* _receive, and what of the chain runs in it; sdestroyed' and sdraining' are what
\* listeners of the request's own 'incomingCall' or 'error' event leave.  They run
\* before the request is counted.  A request that does not decode is answered on the
\* spot; a one-way message or one without a handler has gone through its chain when
\* _receive returns.
Receive(c, id, throws, destroys) ==
  /\ request[c] = "unseen"
  /\ throws => MayThrow(c)
  /\ requestId' = [requestId EXCEPT ![c] = id]
  /\ scaught' = (IF destroys = {} THEN scaught ELSE scaught \cup {c})
  /\ \/ /\ c \in MangledCalls
        /\ request' = [request EXCEPT ![c] = IF sdestroyed' THEN "dropped" ELSE "replied"]
        /\ sout' = (IF sdestroyed' THEN sout ELSE Append(sout, Reply(c, id)))
        /\ UNCHANGED <<spending, sticks>>
     \/ /\ c \notin MangledCalls
        /\ spending' = spending + 1
        /\ \/ /\ throws
              /\ request' = [request EXCEPT ![c] = "thrown"]
              /\ UNCHANGED sticks
           \/ /\ ~throws /\ c \in OneWayCalls \cup UnhandledCalls
              /\ request' = [request EXCEPT ![c] = "answered"]
              /\ sticks' = Append(sticks, c)
           \/ /\ c \notin OneWayCalls \cup UnhandledCalls
              /\ request' = [request EXCEPT ![c] = "handling"]
              /\ UNCHANGED sticks
        /\ UNCHANGED sout

\* onRequest
OnRequest(c, id, throws, destroys) ==
  /\ slistening = "request"
  /\ Drains(destroys)
  /\ sdestroyed' = EndedBy(destroys, spending)
  /\ Receive(c, id, throws, destroys)
  /\ UNCHANGED <<known, sfirst, smidway>>

\* onHandshake with a request behind the handshake, where others ping: 'handshake'
\* listeners call destroy as in opening, those of the request's events as in destroys.
OnFirstRequest(c, id, full, throws, opening, destroys) ==
  /\ slistening = "handshake"
  /\ Adapted(full)
  /\ known' = TRUE
  /\ sdraining' = (sdraining \/ opening \cup destroys # {})
  /\ slistening' = (IF opening = {} /\ destroys # {} THEN "none" ELSE "request")
  /\ sforced' = (sforced \/ TRUE \in opening \cup destroys)
  /\ smidway' = (smidway \/ opening # {})
  /\ sdestroyed' = EndedBy(opening \cup destroys, spending)
  /\ sfirst' = {c}
  /\ Receive(c, id, throws, destroys)

\* The handler of a request answers, or throws: the chain completes in a tick.
HandlerAnswers(c) ==
  /\ request[c] = "handling"
  /\ request' = [request EXCEPT ![c] = "answered"]
  /\ sticks' = Append(sticks, c)
  /\ UNCHANGED <<slistening, spending, sdraining, sdestroyed, known, requestId, sfirst, sout,
                 sforced, smidway, scaught>>

\* No response is written to a one-way message; done, which answers the request
\* behind a handshake, writes one to any.
Silent(c) == c \in OneWayCalls /\ c \notin sfirst

MutSLeft == IF sdestroyed THEN spending ELSE spending - 1
SLeft == spending - 1

MutDrainsOut == FALSE
DrainsOut == sdraining /\ spending = 1

\* onCompletion: listeners of the request's 'error' event run once it is no longer
\* counted and before its response is written, unless the channel has ended; and a
\* draining channel with nothing left pending ends.
RunCompletion(destroys) ==
  /\ sticks # <<>>
  /\ Drains(destroys)
  /\ LET c == Head(sticks)
         ended == EndedBy(destroys, SLeft)
     IN /\ request' = [request EXCEPT ![c] = IF ended THEN "dropped" ELSE "replied"]
        /\ sout' = (IF ended \/ Silent(c) THEN sout ELSE Append(sout, Reply(c, requestId[c])))
        /\ scaught' = (IF destroys = {} THEN scaught ELSE scaught \cup {c})
        /\ sdestroyed' = (ended \/ DrainsOut)
  /\ sticks' = Tail(sticks)
  /\ spending' = SLeft
  /\ UNCHANGED <<known, requestId, sfirst, smidway>>

\* The transport takes the oldest message written.
STake ==
  /\ sout # <<>>
  /\ sout' = Tail(sout)
  /\ UNCHANGED <<slistening, spending, sdraining, sdestroyed, known, request, requestId,
                 sfirst, sticks, sforced, smidway, scaught>>

----------------------------------------------------------------------------
(* The channel against an arbitrary client.                                *)

\* Bound on the messages written and not taken, for the open system.
CONSTANT MaxOut

ASSUME ServerAssumption ==
  /\ IsFiniteSet(Calls)
  /\ OneWayCalls \subseteq Calls
  /\ UnhandledCalls \subseteq Calls
  /\ MangledCalls \subseteq Calls
  /\ IdMask \in Nat /\ MaxOut \in Nat
  /\ KnownClient \in BOOLEAN /\ Compatible \in BOOLEAN

\* Listeners call destroy not at all, without noWait, or with it; who calls both ways
\* does no more than who calls it with noWait.
Destroys == {{}, {FALSE}, {TRUE}}

Client ==
  \/ \E wellFormed, full \in BOOLEAN, destroys \in Destroys :
       Len(sout) < MaxOut /\ OnHandshake(wellFormed, full, destroys)
  \/ \E c \in Calls, id \in SIds, throws \in BOOLEAN, destroys \in Destroys :
       \/ OnRequest(c, id, throws, destroys)
       \/ \E full \in BOOLEAN, opening \in Destroys :
            OnFirstRequest(c, id, full, throws, opening, destroys)
  \/ SOnEnd
  \/ STake

ServerUser == \/ \E c \in Calls : HandlerAnswers(c)
              \/ \E noWait \in BOOLEAN : SDestroy(noWait)
              \/ SOnFinish

Completes == \E destroys \in Destroys : RunCompletion(destroys)

SNext == Client \/ ServerUser \/ Completes

SSpec == SInit /\ [][SNext]_serverVars

\* Ticks run, and every handler that is to call back does.
SFairSpec == /\ SSpec
             /\ WF_serverVars(Completes)
             /\ \A c \in Calls : WF_serverVars(HandlerAnswers(c))

----------------------------------------------------------------------------
(* Properties.                                                             *)

\* The requests counted: taken in, their chain not complete.  That of a one-way
\* message whose handler threw never completes.
Handled == {c \in Calls : request[c] \in {"handling", "thrown", "answered"}}
Thrown == {c \in Calls : request[c] = "thrown"}

\* The pending counter is the number of requests whose chain has not completed,
\* so that a drain ends neither before the last of them nor, unless one threw, never.
SPendingExact == spending = Cardinality(Handled)

\* Requests that were taken in and get no response: the channel ended before.
Lost == {c \in Calls : request[c] = "dropped" \/ (sdestroyed /\ c \in Handled)}

\* A channel that nobody destroyed with noWait answers every request it accepted
\* before it ends, but for one: that in whose own 'incomingCall' or 'error' event a
\* listener destroyed it, when that request was not counted.  (Destroyed by a
\* 'handshake' listener it goes on listening, and throws away every response.)
GracefulEndAnswersAll ==
  ~sforced /\ ~smidway => /\ Lost \subseteq scaught
                          /\ \A c, d \in Lost : c = d

\* Once the channel drains, no request is taken in and no handler is run for one; the
\* one whose own 'incomingCall' or 'error' event made it drain still is.  It is as
\* well deaf to all if a 'handshake' listener destroyed it only when the client was not
\* known.  And nothing is written once the channel has ended the stream.
DrainStopsRequests ==
  [][/\ \A c \in Calls : request[c] = "unseen" /\ request'[c] # "unseen" /\ sdraining' /\ ~smidway'
                           => ~sdraining /\ c \in scaught'
     /\ sdestroyed => Len(sout') <= Len(sout)]_serverVars

\* A draining channel ends if every handler calls back, unless it waits for one-way
\* messages whose handlers threw: it waits for those, and for nothing else, for ever.
SDrainEnds == sdraining ~> (sdestroyed \/ (Thrown # {} /\ Handled = Thrown))

=============================================================================
