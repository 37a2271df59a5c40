------------------------ MODULE RpcConnection_proofs ------------------------
(***************************************************************************)
(* Proofs about a client channel and a server channel at the two ends of a *)
(* stream, for every set of calls and every option.  As long as there is   *)
(* an id for every call that can be sent, the connection implements the    *)
(* calls of RpcCalls step by step, however the stream may end; and when a  *)
(* drain is all that ends it, no call that was sent is cut off.            *)
(***************************************************************************)
EXTENDS RpcConnection, ClientChannel_proofs

----------------------------------------------------------------------------
(* The inductive invariant.                                                *)

\* A call that was settled has an outcome, and a response it was given is its own.
CallsFit ==
  /\ \A c \in Calls : status[c] \in {"settled", "done"} => outcome[c] # "none"
  /\ \A c \in Calls : outcome[c] = "response" => answer[c] = c

ServerTypes ==
  /\ request \in [Calls -> Server!Stages]
  /\ requestId \in [Calls -> Server!SIds]
  /\ sticks \in Seq(Calls)
  /\ sout \in Seq(Server!Replies)

\* What is on its way names a call by the id that call was given: a request that was
\* written, one the server took in, a response it wrote, and one the client has read.
RequestsFit ==
  \A m \in Members(out) : m.type = "request" => m.call \in Given /\ m.id = idOf[m.call]

TakenFits ==
  \A c \in Calls : request[c] # "unseen" => c \in Given /\ requestId[c] = idOf[c]

AnsweringFits == \A c \in Members(sticks) : request[c] # "unseen"

RepliesFit ==
  \A m \in Members(sout) : m.type = "reply" => request[m.call] # "unseen" /\ m.id = idOf[m.call]

ResponsesFit ==
  \A t \in Members(ticks) : t.task = "reply" /\ t.of # NoCall =>
    t.of = t.call /\ request[t.call] # "unseen"

ExchangeFits ==
  RequestsFit /\ TakenFits /\ AnsweringFits /\ RepliesFit /\ ResponsesFit

ConnInv == Inv /\ SentInv /\ CallsFit /\ ServerTypes /\ ExchangeFits

----------------------------------------------------------------------------
(* The abstract state and its steps.                                       *)

Seen == {c \in Calls : request[c] # "unseen"}

\* What a step does to the abstract state it need not change.
SamePhases == \A c \in Calls : PhaseOf(c)' = PhaseOf(c)
SameResults == \A c \in Calls : ResultOf(c)' = ResultOf(c)

Implements == [Contract!Next]_(Contract!absVars)

LEMMA PhaseValues ==
  ASSUME NEW c
  PROVE  /\ status[c] = "new" => PhaseOf(c) = "idle"
         /\ status[c] = "done" => PhaseOf(c) = "finished"
         /\ status[c] \notin {"new", "done"} => PhaseOf(c) = "waiting"
         /\ status'[c] = "new" => PhaseOf(c)' = "idle"
         /\ status'[c] = "done" => PhaseOf(c)' = "finished"
         /\ status'[c] \notin {"new", "done"} => PhaseOf(c)' = "waiting"
  BY Zenon DEF PhaseOf

LEMMA ResultValues ==
  ASSUME NEW c
  PROVE  /\ outcome[c] = "none" <=> ResultOf(c) = "none"
         /\ ResultOf(c) = "unsent" => outcome[c] \in {"invalid", "destroyed"}
         /\ outcome'[c] = "none" => ResultOf(c)' = "none"
         /\ outcome'[c] = "sentOnly" => ResultOf(c)' = "ok"
         /\ outcome'[c] = "response" /\ answer'[c] = c => ResultOf(c)' = "ok"
         /\ outcome'[c] \in {"invalid", "destroyed"} => ResultOf(c)' = "unsent"
         /\ outcome'[c] \in {"undecodable", "timeout", "interrupted"} => ResultOf(c)' = "lost"
  BY Zenon DEF ResultOf

LEMMA KeptPhase ==
  ASSUME NEW c, status'[c] = status[c]
  PROVE  PhaseOf(c)' = PhaseOf(c)
  BY Zenon DEF PhaseOf

LEMMA KeptResult ==
  ASSUME NEW c, outcome'[c] = outcome[c], answer'[c] = answer[c]
  PROVE  ResultOf(c)' = ResultOf(c)
  BY Zenon DEF ResultOf

LEMMA StepStutters ==
  ASSUME SamePhases, SameResults, Seen' = Seen
  PROVE  Implements
  BY DEF SamePhases, SameResults, Seen, Implements, Contract!absVars

LEMMA StepMakes ==
  ASSUME NEW c \in Calls, PhaseOf(c) = "idle", PhaseOf(c)' = "waiting",
         \A e \in Calls \ {c} : PhaseOf(e)' = PhaseOf(e), SameResults, Seen' = Seen
  PROVE  Implements
<1>1. Contract!Make(c)
  BY DEF SameResults, Seen, Contract!Make
<1>2. QED
  BY <1>1 DEF Implements, Contract!Next

LEMMA StepTakes ==
  ASSUME NEW c \in Calls, PhaseOf(c) # "idle", ResultOf(c) # "unsent", c \notin Seen,
         Seen' = Seen \cup {c}, SamePhases, SameResults
  PROVE  Implements
<1>1. Contract!Take(c)
  BY DEF SamePhases, SameResults, Seen, Contract!Take
<1>2. QED
  BY <1>1 DEF Implements, Contract!Next

LEMMA StepFinishes ==
  ASSUME NEW c \in Calls, PhaseOf(c) = "waiting", ResultOf(c) # "none", PhaseOf(c)' = "finished",
         \A e \in Calls \ {c} : PhaseOf(e)' = PhaseOf(e), SameResults, Seen' = Seen
  PROVE  Implements
<1>1. Contract!Finish(c)
  BY DEF SameResults, Seen, Contract!Finish
<1>2. QED
  BY <1>1 DEF Implements, Contract!Next

LEMMA StepSettles ==
  ASSUME NEW c \in Calls, PhaseOf(c) = "waiting", ResultOf(c) = "none",
         \/ ResultOf(c)' = "ok" /\ c \in Seen \cup OneWayCalls
         \/ ResultOf(c)' = "unsent" /\ c \notin Seen,
         \A e \in Calls \ {c} : ResultOf(e)' = ResultOf(e), SamePhases, Seen' = Seen
  PROVE  Implements
<1>1. Contract!Settle(c, ResultOf(c)')
  BY DEF SamePhases, Seen, Contract!Settle
<1>2. ResultOf(c)' \in {"ok", "unsent"}
  OBVIOUS
<1>3. QED
  BY <1>1, <1>2 DEF Implements, Contract!Next

LEMMA StepLoses ==
  ASSUME NEW S \in SUBSET Calls, \A c \in S : PhaseOf(c) = "waiting" /\ ResultOf(c) = "none",
         \A c \in Calls : ResultOf(c)' = (IF c \in S THEN "lost" ELSE ResultOf(c)),
         SamePhases, Seen' = Seen
  PROVE  Implements
<1>1. CASE S = {}
  BY <1>1, StepStutters DEF SameResults
<1>2. CASE S # {}
  <2>1. Contract!Lose(S)
    BY <1>2 DEF SamePhases, Seen, Contract!Lose
  <2>2. QED
    BY <2>1 DEF Implements, Contract!Next
<1>3. QED
  BY <1>1, <1>2
----------------------------------------------------------------------------
(* Types, and the client's own invariant, between two ends of a stream.    *)

\* The replies of the server.
LEMMA ReplyTypes ==
  /\ \A match \in {"MATCH", "NONE"} :
       /\ Server!HandshakeReply(match) \in Server!Replies
       /\ Server!HandshakeReply(match).type = "handshake"
  /\ \A c \in Calls, id \in Server!SIds :
       /\ Server!Reply(c, id) \in Server!Replies
       /\ Server!Reply(c, id).call = c /\ Server!Reply(c, id).id = id
  BY DEF Server!HandshakeReply, Server!Reply, Server!Replies

\* What taking a request in, and completing one, does to what is on its way.
LEMMA Received ==
  ASSUME NEW c, NEW id, NEW throws, NEW destroys, Server!OnRequest(c, id, throws, destroys)
  PROVE  /\ request[c] = "unseen" /\ requestId' = [requestId EXCEPT ![c] = id]
         /\ \E s \in {"dropped", "replied", "answered", "handling", "thrown"} :
              request' = [request EXCEPT ![c] = s]
         /\ sout' = sout \/ sout' = Append(sout, Server!Reply(c, id))
         /\ sticks' = sticks \/ sticks' = Append(sticks, c)
  BY DEF Server!OnRequest, Server!Receive

LEMMA Completed ==
  ASSUME NEW destroys, Server!RunCompletion(destroys)
  PROVE  /\ sticks # <<>> /\ sticks' = Tail(sticks) /\ requestId' = requestId
         /\ \E s \in {"dropped", "replied"} : request' = [request EXCEPT ![Head(sticks)] = s]
         /\ \/ sout' = sout
            \/ sout' = Append(sout, Server!Reply(Head(sticks), requestId[Head(sticks)]))
  BY DEF Server!RunCompletion

LEMMA RequestTypes ==
  ASSUME NEW c \in Calls, NEW id \in Ids, ServerTypes,
         NEW throws, NEW destroys, Server!OnRequest(c, id, throws, destroys)
  PROVE  ServerTypes'
<1>1. Append(sticks, c) \in Seq(Calls) /\ Append(sout, Server!Reply(c, id)) \in Seq(Server!Replies)
  BY AppendMembers, ReplyTypes DEF ServerTypes, Ids, Server!SIds
<1>2. sticks' \in Seq(Calls) /\ sout' \in Seq(Server!Replies)
  BY <1>1, Received DEF ServerTypes
<1>3. request' \in [Calls -> Server!Stages]
  <2>1. PICK s \in Server!Stages : request' = [request EXCEPT ![c] = s]
    BY Received DEF Server!Stages
  <2>2. QED
    BY <2>1 DEF ServerTypes
<1>4. requestId' \in [Calls -> Server!SIds]
  BY Received DEF ServerTypes, Server!SIds, Ids
<1>5. QED
  BY <1>2, <1>3, <1>4 DEF ServerTypes

LEMMA CompletionTypes ==
  ASSUME ServerTypes, NEW destroys, Server!RunCompletion(destroys)
  PROVE  ServerTypes'
<1>1. sticks # <<>> /\ sticks' = Tail(sticks) /\ requestId' = requestId
  BY Completed
<1>2. PICK c \in Calls : c = Head(sticks) /\ Tail(sticks) \in Seq(Calls)
  BY <1>1, TailMembers DEF ServerTypes
<1>3. Append(sout, Server!Reply(c, requestId[c])) \in Seq(Server!Replies)
  BY <1>2, AppendMembers, ReplyTypes DEF ServerTypes
<1>4. sout' \in Seq(Server!Replies)
  BY <1>2, <1>3, Completed DEF ServerTypes
<1>5. request' \in [Calls -> Server!Stages]
  BY <1>2, Completed DEF ServerTypes, Server!Stages
<1>6. QED
  BY <1>1, <1>2, <1>4, <1>5 DEF ServerTypes

LEMMA ServerTypesKept ==
  ASSUME Inv, ServerTypes, [ConnNext]_connVars
  PROVE  ServerTypes'
<1> USE DEF ServerTypes
<1>1. CASE UNCHANGED serverSide
  BY <1>1 DEF serverSide
<1>2. ASSUME NEW c \in Calls, Server!HandlerAnswers(c) PROVE ServerTypes'
  BY <1>2, AppendMembers DEF Server!HandlerAnswers, Server!Stages
<1>3. ASSUME NEW noWait, Server!SDestroy(noWait) PROVE ServerTypes'
  BY <1>3 DEF Server!SDestroy
<1>4. CASE ServerSteps \/ ServerSeesEnd
  BY <1>2, <1>3, <1>4, CompletionTypes DEF ServerSteps, ServerCompletes, ServerSeesEnd, Server!SOnEnd
<1>5. CASE DeliverToServer
  <2>1. Head(out) \in Messages
    BY <1>5, TailMembers DEF DeliverToServer, Inv, TypeOK
  <2>2. ASSUME NEW ok, NEW full, NEW destroys, Server!OnHandshake(ok, full, destroys)
        PROVE  ServerTypes'
    BY <2>2, ReplyTypes, AppendMembers DEF Server!OnHandshake
  <2>3. Head(out).type = "request" => Head(out).call \in Calls /\ Head(out).id \in Ids
    BY <2>1 DEF Messages
  <2>4. QED
    BY <1>1, <1>5, <2>2, <2>3, RequestTypes DEF DeliverToServer
<1>6. CASE DeliverToClient
  BY <1>6, TailMembers DEF DeliverToClient, Server!STake
<1>7. QED
  BY <1>1, <1>4, <1>5, <1>6 DEF ConnNext, ClientSteps, ClientSeesEnd, Break, connVars

\* A step of the connection is one the client would take against any peer, or it hands
\* over a message.
LEMMA ClientSide ==
  ASSUME ServerTypes, [ConnNext]_connVars
  PROVE  \/ [Next]_vars
         \/ Take
         \/ \E match \in {"MATCH", "NONE"} : OnPing(match)
         \/ \E m \in Members(sout) : /\ m.type = "reply" /\ m.id \in Ids /\ m.call \in Calls
                                     /\ OnMessage(m.id, m.call)
<1>1. CASE ClientSteps
  <2>1. ClientSteps => Next
    BY ConnAssumption DEF ClientSteps, Next, User, Timer, Peer
  <2>2. QED
    BY <1>1, <2>1
<1>2. CASE ServerSteps \/ ServerSeesEnd \/ Break \/ UNCHANGED connVars
  BY <1>2 DEF ServerSteps, ServerSeesEnd, Break, connVars
<1>3. CASE DeliverToServer
  BY <1>3 DEF DeliverToServer, Take
<1>4. CASE DeliverToClient
  <2>1. sout # <<>> /\ Head(sout) \in Members(sout) /\ Head(sout) \in Server!Replies
    BY <1>4, TailMembers DEF DeliverToClient, ServerTypes
  <2>2. /\ Head(sout).type = "handshake" => Head(sout).match \in {"MATCH", "NONE"}
        /\ Head(sout).type = "reply" => Head(sout).id \in Ids /\ Head(sout).call \in Calls
    BY <2>1 DEF Server!Replies, Server!SIds, Ids
  <2>3. QED
    BY <1>4, <2>1, <2>2 DEF DeliverToClient
<1>5. CASE ClientSeesEnd
  <2>1. ClientSeesEnd => Next
    BY DEF ClientSeesEnd, Next, Peer
  <2>2. QED
    BY <1>5, <2>1
<1>6. QED
  BY <1>1, <1>2, <1>3, <1>4, <1>5 DEF ConnNext

LEMMA TypesKept ==
  ASSUME Inv, ServerTypes, [ConnNext]_connVars
  PROVE  Inv' /\ ServerTypes'
<1>1. Inv'
  BY ClientSide, NextInv, TakeStep, OnPingStep, OnMessageStep
<1>2. QED
  BY <1>1, ServerTypesKept

LEMMA InitTypes ==
  ASSUME ConnInit
  PROVE  Inv /\ ServerTypes
<1>1. Inv
  BY InitInv DEF ConnInit
<1>2. ServerTypes
  BY OptionsAssumption DEF ConnInit, Server!SInit, ServerTypes, Server!Stages, Server!SIds
<1>3. QED
  BY <1>1, <1>2

----------------------------------------------------------------------------
(* The client's steps.                                                     *)

\* What the client does leaves what is on its way fit.
ClientKeeps ==
  /\ Given \subseteq Given' /\ \A c \in Given : idOf'[c] = idOf[c]
  /\ \A m \in Members(out') : m.type = "request" =>
       m \in Members(out) \/ (m.call \in Given' /\ m.id = idOf'[m.call])
  /\ \A t \in Members(ticks') : t.task = "reply" => t \in Members(ticks)

LEMMA ClientExchange ==
  ASSUME ConnInv, ClientKeeps, UNCHANGED serverSide
  PROVE  ExchangeFits'
<1>1. UNCHANGED <<request, requestId, sticks, sout>>
  BY DEF serverSide
<1>2. AnsweringFits'
  BY <1>1 DEF ConnInv, ExchangeFits, AnsweringFits, Members
<1>3. RequestsFit'
  BY DEF ConnInv, ExchangeFits, RequestsFit, ClientKeeps
<1>4. TakenFits'
  BY <1>1 DEF ConnInv, ExchangeFits, TakenFits, ClientKeeps
<1>5. RepliesFit'
  <2>1. \A m \in Members(sout) : m.type = "reply" => m.call \in Calls
    <3>1. Members(sout) \subseteq Server!Replies
      BY MembersType DEF ConnInv, ServerTypes
    <3>2. QED
      BY <3>1 DEF Server!Replies
  <2>2. \A m \in Members(sout) : m.type = "reply" => m.call \in Given
    BY <2>1 DEF ConnInv, ExchangeFits, RepliesFit, TakenFits
  <2>3. Members(sout') = Members(sout)
    BY <1>1
  <2>4. QED
    BY <1>1, <2>2, <2>3 DEF ConnInv, ExchangeFits, RepliesFit, ClientKeeps
<1>6. ResponsesFit'
  BY <1>1 DEF ConnInv, ExchangeFits, ResponsesFit, ClientKeeps
<1>7. QED
  BY <1>2, <1>3, <1>4, <1>5, <1>6 DEF ExchangeFits

\* Nothing happens to any call.
LEMMA CallsRest ==
  ASSUME ConnInv, UNCHANGED callVars, Seen' = Seen
  PROVE  CallsFit' /\ Implements
<1>1. UNCHANGED <<status, outcome, answer>>
  BY DEF callVars
<1>2. SamePhases /\ SameResults
  BY <1>1, KeptPhase, KeptResult DEF SamePhases, SameResults
<1>3. QED
  BY <1>1, <1>2, StepStutters DEF ConnInv, CallsFit

\* One call gets its outcome.
LEMMA OneSettles ==
  ASSUME ConnInv, NEW c \in Calls, NotYetSettled(c), NEW kind \in Outcomes \ {"none"}, NEW d,
         status' = [status EXCEPT ![c] = "settled"],
         outcome' = [outcome EXCEPT ![c] = kind],
         answer' = [answer EXCEPT ![c] = d],
         Seen' = Seen,
         kind = "response" => d = c /\ c \in Seen,
         kind = "sentOnly" => c \in OneWayCalls,
         kind \in {"invalid", "destroyed"} => c \notin Seen
  PROVE  CallsFit' /\ Implements
<1>1. /\ status \in [Calls -> Statuses] /\ outcome \in [Calls -> Outcomes]
      /\ answer \in [Calls -> Calls \cup {NoCall}]
  BY DEF ConnInv, Inv, TypeOK
<1>2. status[c] \in {"starting", "sent"} /\ outcome[c] = "none"
  BY DEF NotYetSettled, ConnInv, Inv, OutcomesFit
<1>3. CallsFit'
  BY <1>1 DEF ConnInv, CallsFit
<1>4. SamePhases
  <2>1. PhaseOf(c)' = PhaseOf(c)
    BY <1>1, <1>2, PhaseValues
  <2>2. QED
    BY <1>1, <2>1, KeptPhase DEF SamePhases
<1>5. \A e \in Calls \ {c} : ResultOf(e)' = ResultOf(e)
  BY <1>1, KeptResult
<1>6. PhaseOf(c) = "waiting" /\ ResultOf(c) = "none"
  BY <1>2, PhaseValues, ResultValues
<1>7. outcome'[c] = kind /\ answer'[c] = d
  BY <1>1
<1>8. CASE kind \in {"response", "sentOnly"}
  <2>1. ResultOf(c)' = "ok"
    BY <1>7, <1>8, ResultValues
  <2>2. QED
    BY <1>3, <1>4, <1>5, <1>6, <1>8, <2>1, StepSettles
<1>9. CASE kind \in {"invalid", "destroyed"}
  <2>1. ResultOf(c)' = "unsent"
    BY <1>7, <1>9, ResultValues
  <2>2. QED
    BY <1>3, <1>4, <1>5, <1>6, <1>9, <2>1, StepSettles
<1>10. CASE kind \in {"undecodable", "timeout", "interrupted"}
  <2>1. ResultOf(c)' = "lost"
    BY <1>7, <1>10, ResultValues
  <2>2. \A e \in Calls : ResultOf(e)' = (IF e \in {c} THEN "lost" ELSE ResultOf(e))
    BY <1>5, <2>1
  <2>3. {c} \in SUBSET Calls /\ \A e \in {c} : PhaseOf(e) = "waiting" /\ ResultOf(e) = "none"
    BY <1>6
  <2>4. QED
    BY <1>3, <1>4, <2>2, <2>3, StepLoses
<1>11. QED
  BY <1>8, <1>9, <1>10 DEF Outcomes

\* Some calls that were sent are interrupted, and some that were queued start.
LEMMA SomeInterrupted ==
  ASSUME ConnInv, NEW S \in SUBSET Calls, NEW R \in SUBSET Calls,
         \A c \in S : status[c] = "sent", \A c \in R : status[c] = "queued",
         status' = [c \in Calls |-> IF c \in S THEN "settled"
                                    ELSE IF c \in R THEN "starting" ELSE status[c]],
         outcome' = [c \in Calls |-> IF c \in S THEN "interrupted" ELSE outcome[c]],
         UNCHANGED answer, Seen' = Seen
  PROVE  CallsFit' /\ Implements
<1>1. CallsFit'
  BY DEF ConnInv, CallsFit
<1>2. SamePhases
  <2>1. ASSUME NEW c \in Calls PROVE PhaseOf(c)' = PhaseOf(c)
    <3>1. CASE c \in S \cup R
      BY <3>1, PhaseValues
    <3>2. CASE c \notin S \cup R
      BY <3>2, KeptPhase
    <3>3. QED
      BY <3>1, <3>2
  <2>2. QED
    BY <2>1 DEF SamePhases
<1>3. \A c \in S : PhaseOf(c) = "waiting" /\ ResultOf(c) = "none"
  <2>1. \A c \in S : outcome[c] = "none"
    BY DEF ConnInv, Inv, OutcomesFit
  <2>2. QED
    BY <2>1, PhaseValues, ResultValues
<1>4. \A c \in Calls : ResultOf(c)' = (IF c \in S THEN "lost" ELSE ResultOf(c))
  BY KeptResult, ResultValues
<1>5. QED
  BY <1>1, <1>2, <1>3, <1>4, StepLoses

LEMMA DestroyImplements ==
  ASSUME ConnInv, NEW noWait \in BOOLEAN, Destroy(noWait), UNCHANGED <<out, request>>
  PROVE  ClientKeeps /\ CallsFit' /\ Implements
<1>1. /\ \A t \in Members(ticks') : t \in Members(ticks) \/ t.task \in {"settle", "start"}
      /\ Given' = Given /\ UNCHANGED idOf
  BY DestroyEffect DEF ConnInv
<1>2. ClientKeeps
  BY <1>1 DEF ClientKeeps
<1>3. PICK S, R \in SUBSET Calls :
        /\ \A c \in S : status[c] = "sent"
        /\ \A c \in R : status[c] = "queued"
        /\ status' = [c \in Calls |-> IF c \in S THEN "settled"
                                      ELSE IF c \in R THEN "starting" ELSE status[c]]
        /\ outcome' = [c \in Calls |-> IF c \in S THEN "interrupted" ELSE outcome[c]]
        /\ UNCHANGED answer
  BY DestroyEffect DEF ConnInv
<1>4. Seen' = Seen
  BY DEF Seen
<1>5. QED
  BY <1>2, <1>3, <1>4, SomeInterrupted

\* The callback of a call that was sent.
LEMMA RunCallbackImplements ==
  ASSUME ConnInv, NEW c \in Given, NEW kind \in GivenOutcomes, NEW d, NEW rest,
         Members(rest) \subseteq Members(ticks), rest \in Seq(Tasks),
         RunCallback(c, kind, d, rest), UNCHANGED <<idOf, out, request>>,
         kind = "response" => d = c /\ c \in Seen,
         kind = "sentOnly" => c \in OneWayCalls
  PROVE  ClientKeeps /\ CallsFit' /\ Implements
<1>1. Seen' = Seen /\ c \in Calls
  BY DEF Seen, Given
<1>2. CASE AlreadyRun(c)
  <2>1. ticks' = rest /\ UNCHANGED callVars
    BY <1>2 DEF RunCallback
  <2>2. Given' = Given
    BY <2>1 DEF Given, callVars
  <2>3. ClientKeeps
    BY <2>1, <2>2 DEF ClientKeeps
  <2>4. QED
    BY <1>1, <2>1, <2>3, CallsRest
<1>3. CASE ~AlreadyRun(c)
  <2>1. status[c] = "sent"
    BY <1>3, FoundItself DEF ConnInv
  <2>2. /\ status' = [status EXCEPT ![c] = "settled"]
        /\ outcome' = [outcome EXCEPT ![c] = kind]
        /\ answer' = [answer EXCEPT ![c] = d]
        /\ ticks' = Append(rest, Tick("settle", c))
    BY <1>3, <2>1 DEF RunCallback, Settle, NotYetSettled
  <2>3. Given' = Given
    BY <1>1, <2>1, <2>2 DEF Given, GivenOutcomes, ConnInv, Inv, TypeOK
  <2>4. Members(ticks') = Members(rest) \cup {Tick("settle", c)}
    BY <1>1, <2>2, AppendMembers, TickTypes
  <2>5. ClientKeeps
    BY <2>3, <2>4 DEF ClientKeeps, Tick, Task
  <2>6. CallsFit' /\ Implements
    <3>1. kind \in Outcomes \ {"none"} /\ kind \notin {"invalid", "destroyed"}
      BY DEF GivenOutcomes, Outcomes
    <3>2. NotYetSettled(c)
      BY <2>1 DEF NotYetSettled
    <3>3. QED
      BY <1>1, <2>2, <3>1, <3>2, OneSettles
  <2>7. QED
    BY <2>5, <2>6
<1>4. QED
  BY <1>2, <1>3

LEMMA CallImplements ==
  ASSUME ConnInv, NEW c \in Calls, Call(c), UNCHANGED request
  PROVE  ClientKeeps /\ CallsFit' /\ Implements
<1>1. /\ status[c] = "new" /\ UNCHANGED <<outcome, answer, idOf, out>>
      /\ \E s \in {"starting", "queued"} : status' = [status EXCEPT ![c] = s]
      /\ status \in [Calls -> Statuses] /\ outcome \in [Calls -> Outcomes]
  BY DEF Call, registryVars, transportVars, ConnInv, Inv, TypeOK
<1>2. \A t \in Members(ticks') : t \in Members(ticks) \/ t.task = "start"
  <2>1. CASE ticks' = Append(ticks, Tick("start", c))
    <3>1. Members(ticks') = Members(ticks) \cup {Tick("start", c)}
      BY <2>1, TickTypes, AppendMembers DEF ConnInv, Inv, TypeOK
    <3>2. QED
      BY <3>1 DEF Tick, Task
  <2>2. CASE ticks' = ticks
    BY <2>2
  <2>3. QED
    BY <2>1, <2>2 DEF Call
<1>3. Given' = Given
  BY <1>1 DEF Given
<1>4. ClientKeeps
  BY <1>1, <1>2, <1>3 DEF ClientKeeps
<1>5. CallsFit'
  BY <1>1 DEF ConnInv, CallsFit
<1>6. PhaseOf(c) = "idle" /\ PhaseOf(c)' = "waiting"
  <2>1. status'[c] \in {"starting", "queued"}
    BY <1>1
  <2>2. QED
    BY <1>1, <2>1, PhaseValues
<1>7. SameResults /\ \A e \in Calls \ {c} : PhaseOf(e)' = PhaseOf(e)
  BY <1>1, KeptPhase, KeptResult DEF SameResults
<1>8. Seen' = Seen
  BY DEF Seen
<1>9. QED
  BY <1>4, <1>5, <1>6, <1>7, <1>8, StepMakes

LEMMA RunPingImplements ==
  ASSUME ConnInv, ticks # <<>>, RunPing(Head(ticks)), UNCHANGED request
  PROVE  ClientKeeps /\ CallsFit' /\ Implements
<1>1. ticks' = Tail(ticks) /\ UNCHANGED <<callVars, status, outcome, idOf>>
  BY DEF RunPing, callVars, registryVars
<1>2. Given' = Given /\ Seen' = Seen
  BY <1>1 DEF Given, Seen
<1>3. \A m \in Members(out') : m \in Members(out) \/ m.type = "handshake"
  <2>1. PICK full \in BOOLEAN : out' = out \/ out' = Append(out, Handshake(full))
    BY DEF RunPing, Write
  <2>2. Members(Append(out, Handshake(full))) = Members(out) \cup {Handshake(full)}
    BY MessageTypes, AppendMembers DEF ConnInv, Inv, TypeOK
  <2>3. Handshake(full).type = "handshake"
    BY DEF Handshake
  <2>4. QED
    BY <2>1, <2>2, <2>3
<1>4. Members(ticks') \subseteq Members(ticks)
  BY <1>1, TakeTick DEF ConnInv
<1>5. ClientKeeps
  BY <1>1, <1>2, <1>3, <1>4 DEF ClientKeeps
<1>6. QED
  BY <1>1, <1>2, <1>5, CallsRest

LEMMA RunStartImplements ==
  ASSUME ConnInv, ticks # <<>>, RunStart(Head(ticks)), UNCHANGED request
  PROVE  ClientKeeps /\ CallsFit' /\ Implements
<1> DEFINE rest == Tail(ticks)
<1>1. PICK c \in Calls :
        c = Head(ticks).call /\ status[c] = "starting" /\ outcome[c] = "none"
  <2>1. Head(ticks).call \in Calls /\ status[Head(ticks).call] = "starting"
    BY TakeTick DEF RunStart, TickFits, ConnInv
  <2>2. QED
    BY <2>1 DEF ConnInv, Inv, OutcomesFit
<1>2. c \notin Given /\ c \notin Seen /\ Seen' = Seen
  BY <1>1 DEF Given, Seen, ConnInv, ExchangeFits, TakenFits
<1>3. rest \in Seq(Tasks) /\ Members(rest) \subseteq Members(ticks)
  BY TakeTick DEF ConnInv
<1>4. /\ status \in [Calls -> Statuses] /\ outcome \in [Calls -> Outcomes]
      /\ idOf \in [Calls -> Ids] /\ out \in Seq(Messages)
  BY DEF ConnInv, Inv, TypeOK
<1>5. CASE Unsendable(c)
  <2>1. PICK kind \in {"invalid", "destroyed"} :
          /\ status' = [status EXCEPT ![c] = "settled"]
          /\ outcome' = [outcome EXCEPT ![c] = kind]
          /\ answer' = [answer EXCEPT ![c] = NoCall]
          /\ ticks' = Append(rest, Tick("settle", c))
          /\ UNCHANGED <<idOf, out>>
    BY <1>1, <1>5 DEF RunStart, Settle, NotYetSettled, registryVars
  <2> HIDE DEF rest
  <2>2. Members(ticks') = Members(rest) \cup {Tick("settle", c)}
    BY <1>1, <1>3, <2>1, TickTypes, AppendMembers
  <2>3. Given' = Given
    BY <1>1, <1>4, <2>1 DEF Given
  <2>4. ClientKeeps
    BY <1>3, <2>1, <2>2, <2>3 DEF ClientKeeps, Tick, Task
  <2>5. NotYetSettled(c) /\ kind \in Outcomes \ {"none"}
    BY <1>1, <2>1 DEF NotYetSettled, Outcomes
  <2>6. CallsFit' /\ Implements
    BY <1>1, <1>2, <2>1, <2>5, OneSettles
  <2>7. QED
    BY <2>4, <2>6
<1>6. CASE ~Unsendable(c)
  <2> DEFINE id == NextId
             m == Request(c, id)
             t == Tick("oneway", c)
  <2>1. /\ status' = [status EXCEPT ![c] = "sent"]
        /\ idOf' = [idOf EXCEPT ![c] = id]
        /\ out' = out \/ out' = Append(out, m)
        /\ ticks' = rest \/ ticks' = Append(rest, t)
        /\ UNCHANGED <<outcome, answer>>
    BY <1>1, <1>6 DEF RunStart, Write
  <2>2. id \in Ids
    BY OptionsAssumption DEF NextId, Ids, ConnInv, Inv, TypeOK
  <2>3. m \in Messages /\ m.call = c /\ m.id = id
    BY <1>1, <2>2, MessageTypes DEF Request
  <2>4. t \in Tasks /\ t.task = "oneway"
    BY <1>1, TickTypes DEF Tick, Task
  <2> HIDE DEF rest, id, m, t
  <2>5. Members(Append(out, m)) = Members(out) \cup {m}
    BY <1>4, <2>3, AppendMembers
  <2>6. Members(Append(rest, t)) = Members(rest) \cup {t}
    BY <1>3, <2>4, AppendMembers
  <2>7. Given' = Given \cup {c} /\ idOf'[c] = id /\ \A e \in Given : idOf'[e] = idOf[e]
    BY <1>1, <1>2, <1>4, <2>1 DEF Given
  <2>8. /\ \A w \in Members(out') : w \in Members(out) \/ w = m
        /\ \A u \in Members(ticks') : u \in Members(ticks) \/ u = t
    BY <1>3, <2>1, <2>5, <2>6
  <2>9. ClientKeeps
    BY <2>3, <2>4, <2>7, <2>8 DEF ClientKeeps
  <2>10. CallsFit'
    BY <1>4, <2>1 DEF ConnInv, CallsFit
  <2>11. SamePhases /\ SameResults
    <3>1. PhaseOf(c)' = PhaseOf(c)
      <4>1. status'[c] = "sent"
        BY <1>1, <1>4, <2>1
      <4>2. QED
        BY <1>1, <4>1, PhaseValues
    <3>2. \A e \in Calls \ {c} : PhaseOf(e)' = PhaseOf(e)
      BY <1>4, <2>1, KeptPhase
    <3>3. QED
      BY <2>1, <3>1, <3>2, KeptResult DEF SamePhases, SameResults
  <2>12. QED
    BY <1>2, <2>9, <2>10, <2>11, StepStutters
<1>7. QED
  BY <1>5, <1>6

LEMMA RunReplyImplements ==
  ASSUME ConnInv, ticks # <<>>, RunReply(Head(ticks)), UNCHANGED request
  PROVE  ClientKeeps /\ CallsFit' /\ Implements
<1> DEFINE t == Head(ticks)
<1>1. t \in Members(ticks) /\ t.task = "reply" /\ Tail(ticks) \in Seq(Tasks)
      /\ Members(Tail(ticks)) \subseteq Members(ticks)
  BY TakeTick, TailMembers DEF RunReply, ConnInv, Inv, TypeOK
<1>2. t.call \in Given /\ Decoded(t.call, t.of) \in GivenOutcomes
  BY <1>1 DEF ConnInv, SentInv, IdsFit, TicksGiven, Decoded, GivenOutcomes
<1>3. /\ Decoded(t.call, t.of) = "response" => t.of = t.call /\ t.call \in Seen
      /\ Decoded(t.call, t.of) = "sentOnly" => t.call \in OneWayCalls
  BY <1>1, <1>2 DEF ConnInv, ExchangeFits, ResponsesFit, Decoded, Seen, Given
<1>4. /\ RunCallback(t.call, Decoded(t.call, t.of), t.of, Tail(ticks))
      /\ UNCHANGED <<idOf, out>>
  BY DEF RunReply, transportVars
<1>5. QED
  BY <1>1, <1>2, <1>3, <1>4, RunCallbackImplements

LEMMA RunOneWayImplements ==
  ASSUME ConnInv, ticks # <<>>, RunOneWay(Head(ticks)), UNCHANGED request
  PROVE  ClientKeeps /\ CallsFit' /\ Implements
<1> DEFINE d == cbs[idOf[Head(ticks).call]]
<1>1. idOf[Head(ticks).call] \in Ids /\ d \in Calls \cup {NoCall}
  BY TakeTick DEF RunOneWay, TickFits, ConnInv, Inv, TypeOK
<1>2. Tail(ticks) \in Seq(Tasks) /\ Members(Tail(ticks)) \subseteq Members(ticks)
      /\ UNCHANGED <<idOf, out>>
  BY TakeTick DEF ConnInv, RunOneWay, transportVars
<1>3. CASE d = NoCall
  <2>1. ticks' = Tail(ticks) /\ UNCHANGED callVars
    BY <1>3 DEF RunOneWay
  <2>2. Given' = Given /\ Seen' = Seen
    BY <2>1 DEF Given, Seen, callVars
  <2>3. ClientKeeps
    BY <1>2, <2>1, <2>2 DEF ClientKeeps
  <2>4. QED
    BY <2>1, <2>2, <2>3, CallsRest
<1>4. CASE d # NoCall
  <2>1. d \in Given
    BY <1>1, <1>4 DEF ConnInv, Inv, RegistryFits, Given
  <2>2. /\ Decoded(d, NoCall) \in GivenOutcomes /\ Decoded(d, NoCall) # "response"
        /\ Decoded(d, NoCall) = "sentOnly" => d \in OneWayCalls
    BY DEF Decoded, GivenOutcomes
  <2>3. RunCallback(d, Decoded(d, NoCall), NoCall, Tail(ticks))
    BY <1>4 DEF RunOneWay
  <2>4. QED
    BY <1>2, <2>1, <2>2, <2>3, RunCallbackImplements
<1>5. QED
  BY <1>3, <1>4

LEMMA RunSettleImplements ==
  ASSUME ConnInv, ticks # <<>>, RunSettle(Head(ticks)), UNCHANGED request
  PROVE  ClientKeeps /\ CallsFit' /\ Implements
<1>1. PICK c \in Calls :
        c = Head(ticks).call /\ status[c] = "settled" /\ status \in [Calls -> Statuses]
  BY TakeTick DEF RunSettle, TickFits, ConnInv, Inv, TypeOK
<1>2. /\ status' = [status EXCEPT ![c] = "done"] /\ ticks' = Tail(ticks)
      /\ UNCHANGED <<outcome, answer, idOf, out>>
  BY <1>1 DEF RunSettle, registryVars, transportVars
<1>3. Members(ticks') \subseteq Members(ticks)
  BY <1>2, TakeTick DEF ConnInv
<1>4. Given' = Given /\ Seen' = Seen
  BY <1>1, <1>2 DEF Given, Seen
<1>5. ClientKeeps
  BY <1>2, <1>3, <1>4 DEF ClientKeeps
<1>6. outcome[c] # "none" /\ CallsFit'
  BY <1>1, <1>2 DEF ConnInv, CallsFit
<1>7. PhaseOf(c) = "waiting" /\ ResultOf(c) # "none" /\ PhaseOf(c)' = "finished"
  <2>1. status'[c] = "done"
    BY <1>1, <1>2
  <2>2. QED
    BY <1>1, <1>6, <2>1, PhaseValues, ResultValues
<1>8. SameResults /\ \A e \in Calls \ {c} : PhaseOf(e)' = PhaseOf(e)
  BY <1>1, <1>2, KeptPhase, KeptResult DEF SameResults
<1>9. QED
  BY <1>1, <1>4, <1>5, <1>6, <1>7, <1>8, StepFinishes

LEMMA CallbackReturnsImplements ==
  ASSUME ConnInv, CallbackReturns, UNCHANGED request
  PROVE  ClientKeeps /\ CallsFit' /\ Implements
<1>1. UNCHANGED out
  BY DEF CallbackReturns, transportVars
<1>2. CASE DrainedOut
  BY <1>1, <1>2, DestroyImplements DEF CallbackReturns
<1>3. CASE ~DrainedOut
  <2>1. UNCHANGED <<callVars, idOf, ticks>>
    BY <1>3 DEF CallbackReturns, registryVars
  <2>2. Given' = Given /\ Seen' = Seen
    BY <2>1 DEF Given, Seen, callVars
  <2>3. ClientKeeps
    BY <1>1, <2>1, <2>2 DEF ClientKeeps
  <2>4. QED
    BY <2>1, <2>2, <2>3, CallsRest
<1>4. QED
  BY <1>2, <1>3

LEMMA CallTimesOutImplements ==
  ASSUME ConnInv, NEW c \in Calls, CallTimesOut(c), UNCHANGED request
  PROVE  ClientKeeps /\ CallsFit' /\ Implements
<1>1. c \in Given /\ ticks \in Seq(Tasks) /\ UNCHANGED <<idOf, out>>
  BY DEF CallTimesOut, ConnInv, SentInv, IdsFit, TimersGiven, Inv, TypeOK, transportVars
<1>2. CASE AlreadyRun(c)
  <2>1. UNCHANGED <<callVars, ticks>>
    BY <1>2 DEF CallTimesOut
  <2>2. Given' = Given /\ Seen' = Seen
    BY <2>1 DEF Given, Seen, callVars
  <2>3. ClientKeeps
    BY <1>1, <2>1, <2>2 DEF ClientKeeps
  <2>4. QED
    BY <2>1, <2>2, <2>3, CallsRest
<1>3. CASE ~AlreadyRun(c)
  BY <1>1, <1>3, RunCallbackImplements DEF CallTimesOut, GivenOutcomes
<1>4. QED
  BY <1>2, <1>3

LEMMA OnPingImplements ==
  ASSUME ConnInv, NEW match, OnPing(match), UNCHANGED request
  PROVE  ClientKeeps /\ CallsFit' /\ Implements
<1>1. UNCHANGED out
  BY DEF OnPing, transportVars
<1>2. CASE ticks' = Append(ticks, Tick("retry", NoCall)) /\ UNCHANGED <<callVars, registryVars>>
  <2>1. Members(ticks') = Members(ticks) \cup {Tick("retry", NoCall)}
    BY <1>2, TickTypes, AppendMembers DEF ConnInv, Inv, TypeOK
  <2>2. Given' = Given /\ Seen' = Seen /\ UNCHANGED idOf
    BY <1>2 DEF Given, Seen, callVars, registryVars
  <2>3. ClientKeeps
    BY <1>1, <2>1, <2>2 DEF ClientKeeps, Tick, Task
  <2>4. QED
    BY <1>2, <2>2, <2>3, CallsRest
<1>3. CASE /\ ticks' = ticks \o TicksFor("start", ready) /\ ready' = <<>>
           /\ status' = [c \in Calls |-> IF c \in Members(ready) THEN "starting" ELSE status[c]]
           /\ UNCHANGED <<outcome, answer, registryVars>>
  <2>1. /\ \A t \in Members(TicksFor("start", ready)) : t.task = "start"
        /\ TicksFor("start", ready) \in Seq(Tasks)
    BY <1>3, ReadySent DEF ConnInv
  <2>2. Members(ticks') = Members(ticks) \cup Members(TicksFor("start", ready))
    BY <1>3, <2>1, ConcatMembers DEF ConnInv, Inv, TypeOK
  <2>3. /\ \A c \in Members(ready) : status[c] = "queued"
        /\ Members(ready) \in SUBSET Calls
    BY MembersType DEF ConnInv, Inv, TypeOK, ReadyFits
  <2>4. Given' = Given /\ Seen' = Seen /\ UNCHANGED idOf
    BY <1>3, <2>3 DEF Given, Seen, registryVars
  <2>5. ClientKeeps
    BY <1>1, <2>1, <2>2, <2>4 DEF ClientKeeps
  <2>6. CallsFit' /\ Implements
    <3> DEFINE S == {}
    <3>1. /\ status' = [c \in Calls |-> IF c \in S THEN "settled"
                                        ELSE IF c \in Members(ready) THEN "starting" ELSE status[c]]
          /\ S \in SUBSET Calls /\ \A c \in S : status[c] = "sent"
      BY <1>3
    <3>2. outcome' = [c \in Calls |-> IF c \in S THEN "interrupted" ELSE outcome[c]]
      BY <1>3 DEF ConnInv, Inv, TypeOK
    <3> HIDE DEF S
    <3>3. QED
      BY <1>3, <2>3, <2>4, <3>1, <3>2, SomeInterrupted
  <2>7. QED
    BY <2>5, <2>6
<1>4. CASE Destroy(TRUE)
  BY <1>1, <1>4, DestroyImplements
<1>5. QED
  BY <1>2, <1>3, <1>4 DEF OnPing

\* Whatever the client's process does.
LEMMA ClientStepsImplement ==
  ASSUME ConnInv, ClientSteps
  PROVE  CallsFit' /\ ExchangeFits' /\ Implements
<1>1. UNCHANGED serverSide /\ UNCHANGED request
  BY DEF ClientSteps, serverSide
<1>2. ASSUME NEW noWait \in ClientDestroys, UserDestroys(noWait)
      PROVE  ClientKeeps /\ CallsFit' /\ Implements
  BY <1>1, <1>2, ConnAssumption, DestroyImplements DEF UserDestroys, transportVars
<1>3. ASSUME RunTick PROVE ClientKeeps /\ CallsFit' /\ Implements
  BY <1>1, <1>3, RunPingImplements, RunStartImplements, RunReplyImplements, RunOneWayImplements,
     RunSettleImplements DEF RunTick
<1>4. ASSUME ConnectTimesOut PROVE ClientKeeps /\ CallsFit' /\ Implements
  BY <1>1, <1>4, DestroyImplements DEF ConnectTimesOut, transportVars
<1>5. ASSUME OnFinish PROVE ClientKeeps /\ CallsFit' /\ Implements
  BY <1>1, <1>5, DestroyImplements DEF OnFinish
<1>6. ClientKeeps /\ CallsFit' /\ Implements
  BY <1>1, <1>2, <1>3, <1>4, <1>5, CallImplements, CallbackReturnsImplements,
     CallTimesOutImplements DEF ClientSteps
<1>7. QED
  BY <1>1, <1>6, ClientExchange

----------------------------------------------------------------------------
(* The server's steps and the stream.                                      *)

\* The server takes nothing in, and names by its id whatever it answers.
LEMMA ServerAnswers ==
  ASSUME ConnInv, ServerTypes', UNCHANGED <<callVars, idOf, ticks, out, requestId>>,
         \A c \in Calls : request'[c] = "unseen" <=> request[c] = "unseen",
         \A c \in Members(sticks') : request[c] # "unseen",
         \A m \in Members(sout') : m.type = "reply" =>
           m \in Members(sout) \/ (request[m.call] # "unseen" /\ m.id = requestId[m.call])
  PROVE  CallsFit' /\ ExchangeFits' /\ Implements
<1>1. Given' = Given /\ Seen' = Seen
  BY DEF Given, Seen, callVars
<1>2. CallsFit' /\ Implements
  BY <1>1, CallsRest
<1>3. RequestsFit' /\ TakenFits' /\ ResponsesFit'
  <2>1. \A t \in Members(ticks) : t.task = "reply" => t.call \in Calls
    BY DEF ConnInv, SentInv, IdsFit, TicksGiven, Given
  <2>2. Members(ticks') = Members(ticks) /\ Members(out') = Members(out)
    BY DEF Members
  <2>3. QED
    BY <1>1, <2>1, <2>2 DEF ConnInv, ExchangeFits, RequestsFit, TakenFits, ResponsesFit
<1>4. AnsweringFits'
  <2>1. Members(sticks') \subseteq Calls
    BY MembersType DEF ServerTypes
  <2>2. QED
    BY <2>1 DEF AnsweringFits
<1>5. RepliesFit'
  <2>1. \A m \in Members(sout') : m.type = "reply" => m.call \in Calls
    <3>1. Members(sout') \subseteq Server!Replies
      BY MembersType DEF ServerTypes
    <3>2. QED
      BY <3>1 DEF Server!Replies
  <2>2. QED
    BY <2>1 DEF RepliesFit, TakenFits, ConnInv, ExchangeFits
<1>6. QED
  BY <1>2, <1>3, <1>4, <1>5 DEF ExchangeFits

LEMMA ServerStepsImplement ==
  ASSUME ConnInv, ServerTypes', ServerSteps
  PROVE  CallsFit' /\ ExchangeFits' /\ Implements
<1>1. UNCHANGED <<callVars, idOf, ticks, out>>
  BY DEF ServerSteps, vars, registryVars, loopVars, transportVars
<1>2. /\ request \in [Calls -> Server!Stages] /\ requestId \in [Calls -> Server!SIds]
      /\ sticks \in Seq(Calls) /\ sout \in Seq(Server!Replies)
      /\ \A c \in Members(sticks) : request[c] # "unseen"
  BY DEF ConnInv, ServerTypes, ExchangeFits, AnsweringFits
<1>3. ASSUME NEW c \in Calls, Server!HandlerAnswers(c)
      PROVE  CallsFit' /\ ExchangeFits' /\ Implements
  <2>1. /\ request[c] = "handling" /\ request' = [request EXCEPT ![c] = "answered"]
        /\ sticks' = Append(sticks, c) /\ UNCHANGED <<requestId, sout>>
    BY <1>3 DEF Server!HandlerAnswers
  <2>2. Members(sticks') = Members(sticks) \cup {c}
    BY <1>2, <2>1, AppendMembers
  <2>3. \A e \in Calls : request'[e] = "unseen" <=> request[e] = "unseen"
    BY <1>2, <2>1
  <2>4. QED
    BY <1>1, <1>2, <2>1, <2>2, <2>3, ServerAnswers
<1>4. ASSUME NEW destroys, Server!RunCompletion(destroys)
      PROVE  CallsFit' /\ ExchangeFits' /\ Implements
  <2>1. PICK c : c = Head(sticks)
    OBVIOUS
  <2>2. c \in Calls /\ request[c] # "unseen" /\ Members(sticks') \subseteq Members(sticks)
    BY <1>2, <1>4, <2>1, TailMembers, Completed
  <2> DEFINE m == Server!Reply(c, requestId[c])
  <2>3. /\ \E s \in {"dropped", "replied"} : request' = [request EXCEPT ![c] = s]
        /\ sout' = sout \/ sout' = Append(sout, m)
        /\ UNCHANGED requestId
    BY <1>4, <2>1, Completed
  <2>4. m \in Server!Replies /\ m.call = c /\ m.id = requestId[c]
    BY <1>2, <2>2, ReplyTypes
  <2> HIDE DEF m
  <2>5. Members(Append(sout, m)) = Members(sout) \cup {m}
    BY <1>2, <2>4, AppendMembers
  <2>6. \A e \in Calls : request'[e] = "unseen" <=> request[e] = "unseen"
    BY <1>2, <2>2, <2>3
  <2>7. \A w \in Members(sout') : w \in Members(sout) \/ w = m
    BY <2>3, <2>5
  <2>8. QED
    BY <1>1, <1>2, <2>2, <2>3, <2>4, <2>6, <2>7, ServerAnswers
<1>5. ASSUME NEW noWait, Server!SDestroy(noWait)
      PROVE  CallsFit' /\ ExchangeFits' /\ Implements
  <2>1. UNCHANGED <<request, requestId, sticks, sout>>
    BY <1>5 DEF Server!SDestroy
  <2>2. QED
    BY <1>1, <1>2, <2>1, ServerAnswers
<1>6. QED
  BY <1>3, <1>4, <1>5 DEF ServerSteps, ServerCompletes

LEMMA ServerSeesEndImplements ==
  ASSUME ConnInv, ServerTypes', ServerSeesEnd
  PROVE  CallsFit' /\ ExchangeFits' /\ Implements
<1>1. UNCHANGED <<callVars, idOf, ticks, out, request, requestId, sticks, sout>>
  BY DEF ServerSeesEnd, Server!SOnEnd, Server!SDestroy, vars, registryVars, loopVars,
         transportVars
<1>2. QED
  BY <1>1, ServerAnswers DEF ConnInv, ExchangeFits, AnsweringFits

\* A request is taken in: the call was given the id it comes with, and its caller has
\* not been told that it was not sent.
LEMMA RequestImplements ==
  ASSUME ConnInv, ServerTypes', NEW c \in Given,
         NEW throws, NEW destroys, Server!OnRequest(c, idOf[c], throws, destroys),
         UNCHANGED <<callVars, idOf, ticks>>, Members(out') \subseteq Members(out)
  PROVE  CallsFit' /\ ExchangeFits' /\ Implements
<1> DEFINE id == idOf[c]
           m == Server!Reply(c, id)
<1>1. c \in Calls /\ id \in Server!SIds
  BY DEF Given, ConnInv, Inv, TypeOK, Ids, Server!SIds
<1>2. m \in Server!Replies /\ m.call = c /\ m.id = id
  BY <1>1, ReplyTypes
<1>3. /\ request[c] = "unseen" /\ requestId' = [requestId EXCEPT ![c] = id]
      /\ \E s \in {"dropped", "replied", "answered", "handling", "thrown"} :
           request' = [request EXCEPT ![c] = s]
      /\ sout' = sout \/ sout' = Append(sout, m)
      /\ sticks' = sticks \/ sticks' = Append(sticks, c)
  BY Received
<1> HIDE DEF m, id
<1>4. /\ request \in [Calls -> Server!Stages] /\ requestId \in [Calls -> Server!SIds]
      /\ sticks \in Seq(Calls) /\ sout \in Seq(Server!Replies)
  BY DEF ConnInv, ServerTypes
<1>5. /\ \A e \in Members(sticks') : e \in Members(sticks) \/ e = c
      /\ \A w \in Members(sout') : w \in Members(sout) \/ w = m
  <2>1. Members(Append(sout, m)) = Members(sout) \cup {m}
    BY <1>2, <1>4, AppendMembers
  <2>2. Members(Append(sticks, c)) = Members(sticks) \cup {c}
    BY <1>1, <1>4, AppendMembers
  <2>3. QED
    BY <1>3, <1>4, <2>1, <2>2
<1>6. /\ request'[c] # "unseen" /\ requestId'[c] = id
      /\ \A e \in Calls \ {c} : request'[e] = request[e] /\ requestId'[e] = requestId[e]
  BY <1>1, <1>3, <1>4
<1>7. Given' = Given /\ Seen' = Seen \cup {c} /\ c \notin Seen
  BY <1>1, <1>3, <1>6 DEF Given, Seen, callVars
<1>8. RequestsFit' /\ TakenFits'
  BY <1>6, <1>7 DEF ConnInv, ExchangeFits, RequestsFit, TakenFits, id
<1>9. AnsweringFits' /\ RepliesFit'
  <2>1. Members(sticks) \subseteq Calls /\ Members(sout) \subseteq Server!Replies
    BY <1>4, MembersType
  <2>2. \A w \in Members(sout) : w.type = "reply" => w.call \in Calls
    BY <2>1 DEF Server!Replies
  <2>3. QED
    BY <1>1, <1>2, <1>5, <1>6, <2>1, <2>2
    DEF ConnInv, ExchangeFits, AnsweringFits, RepliesFit, TakenFits, id
<1>10. ResponsesFit'
  <2>1. \A t \in Members(ticks) : t.task = "reply" => t.call \in Calls
    BY DEF ConnInv, SentInv, IdsFit, TicksGiven, Given
  <2>2. Members(ticks') = Members(ticks)
    BY DEF Members
  <2>3. QED
    BY <1>6, <2>1, <2>2 DEF ConnInv, ExchangeFits, ResponsesFit
<1>11. CallsFit' /\ SamePhases /\ SameResults
  <2>1. UNCHANGED <<status, outcome, answer>>
    BY DEF callVars
  <2>2. QED
    BY <2>1, KeptPhase, KeptResult DEF ConnInv, CallsFit, SamePhases, SameResults
<1>12. PhaseOf(c) # "idle" /\ ResultOf(c) # "unsent"
  <2>1. outcome[c] \notin {"invalid", "destroyed"} /\ status[c] \in {"sent", "settled", "done"}
    BY <1>1 DEF Given, ConnInv, Inv, OutcomesFit
  <2>2. QED
    BY <2>1, PhaseValues, ResultValues
<1>13. QED
  BY <1>1, <1>7, <1>8, <1>9, <1>10, <1>11, <1>12, StepTakes DEF ExchangeFits

LEMMA DeliverToServerImplements ==
  ASSUME ConnInv, ServerTypes', DeliverToServer
  PROVE  CallsFit' /\ ExchangeFits' /\ Implements
<1>1. /\ out # <<>> /\ out' = Tail(out) /\ UNCHANGED <<callVars, idOf, ticks>>
  BY DEF DeliverToServer, registryVars, loopVars
<1>2. Head(out) \in Members(out) /\ Head(out) \in Messages /\ Members(out') \subseteq Members(out)
  BY <1>1, TailMembers DEF ConnInv, Inv, TypeOK
<1>3. ASSUME Head(out).type = "request", NEW throws, NEW destroys,
             Server!OnRequest(Head(out).call, Head(out).id, throws, destroys)
      PROVE  CallsFit' /\ ExchangeFits' /\ Implements
  <2>1. PICK c \in Given : c = Head(out).call /\ Head(out).id = idOf[c]
    BY <1>2, <1>3 DEF ConnInv, ExchangeFits, RequestsFit
  <2>2. QED
    BY <1>1, <1>2, <1>3, <2>1, RequestImplements
<1>4. ASSUME /\ UNCHANGED <<request, requestId, sticks>>
             /\ \/ sout' = sout
                \/ \E match \in {"MATCH", "NONE"} :
                     sout' = Append(sout, Server!HandshakeReply(match))
      PROVE  CallsFit' /\ ExchangeFits' /\ Implements
  <2>1. sout \in Seq(Server!Replies)
    BY DEF ConnInv, ServerTypes
  <2>2. \A m \in Members(sout') : m \in Members(sout) \/ m.type = "handshake"
    <3>1. ASSUME NEW match \in {"MATCH", "NONE"},
                 sout' = Append(sout, Server!HandshakeReply(match))
          PROVE  \A m \in Members(sout') : m \in Members(sout) \/ m.type = "handshake"
      BY <2>1, <3>1, ReplyTypes, AppendMembers
    <3>2. QED
      BY <1>4, <3>1
  <2>3. Given' = Given /\ Seen' = Seen
    BY <1>1, <1>4 DEF Given, Seen, callVars
  <2>4. CallsFit' /\ Implements
    BY <1>1, <2>3, CallsRest
  <2>5. RequestsFit' /\ TakenFits' /\ AnsweringFits' /\ ResponsesFit' /\ RepliesFit'
    <3>1. Members(ticks') = Members(ticks) /\ Members(sticks') = Members(sticks)
      BY <1>1, <1>4 DEF Members
    <3>2. QED
      BY <1>1, <1>2, <1>4, <2>2, <2>3, <3>1
      DEF ConnInv, ExchangeFits, RequestsFit, TakenFits, AnsweringFits, ResponsesFit, RepliesFit
  <2>6. QED
    BY <2>4, <2>5 DEF ExchangeFits
<1>5. ASSUME NEW destroys, Server!OnHandshake(Head(out).type = "handshake", Head(out).full, destroys)
      PROVE  CallsFit' /\ ExchangeFits' /\ Implements
  BY <1>4, <1>5 DEF Server!OnHandshake
<1>6. CASE UNCHANGED serverSide
  BY <1>4, <1>6 DEF serverSide
<1>7. QED
  BY <1>3, <1>5, <1>6 DEF DeliverToServer

\* A response that is read finds the call it answers, and no other.
LEMMA ResponseFindsItsCall ==
  ASSUME ConnInv, NEW m \in Members(sout), m.type = "reply", cbs[m.id] # NoCall
  PROVE  cbs[m.id] = m.call /\ request[m.call] # "unseen" /\ m.id \in Ids /\ m.call \in Calls
<1>1. m.call \in Calls /\ m.id \in Ids
  <2>1. Members(sout) \subseteq Server!Replies
    BY MembersType DEF ConnInv, ServerTypes
  <2>2. QED
    BY <2>1 DEF Server!Replies, Server!SIds, Ids
<1>2. request[m.call] # "unseen" /\ m.call \in Given /\ m.id = idOf[m.call]
  BY <1>1 DEF ConnInv, ExchangeFits, RepliesFit, TakenFits
<1>3. cbs[m.id] \in Given /\ idOf[cbs[m.id]] = m.id
  BY <1>1 DEF ConnInv, Inv, TypeOK, RegistryFits, Given
<1>4. QED
  BY <1>1, <1>2, <1>3 DEF ConnInv, SentInv, IdsFit, IdsApart

LEMMA DeliverToClientImplements ==
  ASSUME ConnInv, ServerTypes', DeliverToClient
  PROVE  CallsFit' /\ ExchangeFits' /\ Implements
<1>1. /\ sout # <<>> /\ sout' = Tail(sout) /\ UNCHANGED <<request, requestId, sticks>>
  BY DEF DeliverToClient, Server!STake
<1>2. PICK m \in Members(sout) :
        \/ OnPing(m.match)
        \/ m.type = "reply" /\ OnMessage(m.id, m.call)
        \/ UNCHANGED vars
  <2>1. Head(sout) \in Members(sout)
    BY <1>1, TailMembers DEF ConnInv, ServerTypes
  <2>2. QED
    BY <2>1 DEF DeliverToClient
<1>3. Members(sout') \subseteq Members(sout)
  BY <1>1, TailMembers DEF ConnInv, ServerTypes
<1>4. AnsweringFits'
  BY <1>1 DEF ConnInv, ExchangeFits, AnsweringFits, Members
<1>5. ASSUME Given \subseteq Given' /\ \A c \in Given : idOf'[c] = idOf[c]
      PROVE  RepliesFit' /\ TakenFits'
  <2>1. Members(sout) \subseteq Server!Replies
    BY MembersType DEF ConnInv, ServerTypes
  <2>2. \A w \in Members(sout) : w.type = "reply" => w.call \in Calls
    BY <2>1 DEF Server!Replies
  <2>3. QED
    BY <1>1, <1>3, <1>5, <2>2 DEF ConnInv, ExchangeFits, RepliesFit, TakenFits
<1>6. CASE OnPing(m.match)
  <2>1. ClientKeeps /\ CallsFit' /\ Implements
    BY <1>1, <1>6, OnPingImplements
  <2>2. RequestsFit' /\ ResponsesFit'
    BY <1>1, <2>1 DEF ConnInv, ExchangeFits, RequestsFit, ResponsesFit, ClientKeeps
  <2>3. QED
    BY <1>4, <1>5, <2>1, <2>2 DEF ExchangeFits, ClientKeeps
<1>7. CASE m.type = "reply" /\ OnMessage(m.id, m.call)
  <2>1. /\ ticks' = Append(ticks, Task("reply", cbs[m.id], m.call)) /\ cbs[m.id] # NoCall
        /\ UNCHANGED <<callVars, idOf, out>>
    BY <1>7 DEF OnMessage, registryVars, transportVars
  <2>2. cbs[m.id] = m.call /\ request[m.call] # "unseen" /\ m.call \in Calls
    BY <1>7, <2>1, ResponseFindsItsCall
  <2> DEFINE t == Task("reply", m.call, m.call)
  <2>3. t \in Tasks /\ t.call = m.call /\ t.of = m.call
    BY <2>2, TickTypes DEF Task
  <2>4. ticks' = Append(ticks, t)
    BY <2>1, <2>2
  <2> HIDE DEF t
  <2>5. Members(ticks') = Members(ticks) \cup {t}
    BY <2>3, <2>4, AppendMembers DEF ConnInv, Inv, TypeOK
  <2>6. ResponsesFit'
    BY <1>1, <2>2, <2>3, <2>5 DEF ConnInv, ExchangeFits, ResponsesFit
  <2>7. Given' = Given /\ Seen' = Seen
    BY <1>1, <2>1 DEF Given, Seen, callVars
  <2>8. RequestsFit'
    BY <2>1, <2>7 DEF ConnInv, ExchangeFits, RequestsFit, Members
  <2>9. CallsFit' /\ Implements
    BY <2>1, <2>7, CallsRest
  <2>10. QED
    BY <1>4, <1>5, <2>1, <2>6, <2>7, <2>8, <2>9 DEF ExchangeFits
<1>8. CASE UNCHANGED vars
  <2>1. UNCHANGED <<callVars, idOf, ticks, out>>
    BY <1>8 DEF vars, registryVars, loopVars, transportVars
  <2>2. Given' = Given /\ Seen' = Seen
    BY <1>1, <2>1 DEF Given, Seen, callVars
  <2>3. RequestsFit' /\ ResponsesFit'
    BY <1>1, <2>1, <2>2 DEF ConnInv, ExchangeFits, RequestsFit, ResponsesFit, Members
  <2>4. CallsFit' /\ Implements
    BY <2>1, <2>2, CallsRest
  <2>5. QED
    BY <1>4, <1>5, <2>1, <2>2, <2>3, <2>4 DEF ExchangeFits
<1>9. QED
  BY <1>2, <1>6, <1>7, <1>8

----------------------------------------------------------------------------
(* The connection implements the calls.                                    *)

LEMMA ClientFits ==
  ASSUME IdsSuffice, ConnInv, [ConnNext]_connVars
  PROVE  SentInv'
<1> USE DEF ConnInv
<1>1. CASE [Next]_vars
  BY <1>1, NextSent
<1>2. CASE Take
  <2>1. UNCHANGED <<status, outcome, idOf, lastId, cbs, timers, ready, draining, destroyed,
                    connected, listening, ticks, duplicated>>
    BY <1>2 DEF Take, callVars, registryVars, channelVars, loopVars
  <2>2. QED
    BY <2>1, IdleSent
<1>3. QED
  BY <1>1, <1>2, ClientSide, OnPingSent, OnMessageSent

LEMMA InitConn ==
  ASSUME ConnInit
  PROVE  ConnInv /\ Contract!Init
<1>1. Inv /\ SentInv /\ ServerTypes
  BY InitTypes, InitSent DEF ConnInit
<1>2. CallsFit /\ ExchangeFits
  <2>1. \A t \in Members(ticks) : t.task = "ping"
    BY DEF ConnInit, Init, Members, Tick, Task
  <2>2. Members(out) = {} /\ Members(sticks) = {} /\ Members(sout) = {}
    BY DEF ConnInit, Init, Server!SInit, Members
  <2>3. \A c \in Calls : status[c] = "new" /\ outcome[c] = "none" /\ request[c] = "unseen"
    BY DEF ConnInit, Init, Server!SInit
  <2>4. QED
    BY <2>1, <2>2, <2>3 DEF CallsFit, ExchangeFits, RequestsFit, TakenFits, AnsweringFits,
                            RepliesFit, ResponsesFit
<1>3. Contract!Init
  <2>1. \A c \in Calls : PhaseOf(c) = "idle" /\ ResultOf(c) = "none"
    <3>1. \A c \in Calls : status[c] = "new" /\ outcome[c] = "none"
      BY DEF ConnInit, Init
    <3>2. QED
      BY <3>1, PhaseValues, ResultValues
  <2>2. {c \in Calls : request[c] # "unseen"} = {}
    BY DEF ConnInit, Server!SInit
  <2>3. QED
    BY <2>1, <2>2 DEF Contract!Init
<1>4. QED
  BY <1>1, <1>2, <1>3 DEF ConnInv

LEMMA ConnStep ==
  ASSUME IdsSuffice, ConnInv, [ConnNext]_connVars
  PROVE  ConnInv' /\ Implements
<1>1. Inv' /\ ServerTypes' /\ SentInv'
  BY TypesKept, ClientFits DEF ConnInv
<1>2. CASE ClientSeesEnd
  <2>1. Destroy(TRUE) /\ UNCHANGED <<out, request, serverSide>>
    BY <1>2 DEF ClientSeesEnd, OnEnd, transportVars, serverSide
  <2>2. ClientKeeps /\ CallsFit' /\ Implements
    BY <2>1, DestroyImplements
  <2>3. QED
    BY <1>1, <2>1, <2>2, ClientExchange DEF ConnInv
<1>3. CASE Break \/ UNCHANGED connVars
  <2>1. UNCHANGED <<vars, serverSide>>
    BY <1>3 DEF Break, connVars
  <2>2. UNCHANGED <<callVars, idOf, ticks, out, request, requestId, sticks, sout>>
    BY <2>1 DEF vars, registryVars, loopVars, transportVars, serverSide
  <2>3. CallsFit' /\ ExchangeFits' /\ Implements
    BY <1>1, <2>2, ServerAnswers DEF ConnInv, ExchangeFits, AnsweringFits
  <2>4. QED
    BY <1>1, <2>3 DEF ConnInv
<1>4. QED
  BY <1>1, <1>2, <1>3, ClientStepsImplement, ServerStepsImplement, ServerSeesEndImplements,
     DeliverToServerImplements, DeliverToClientImplements DEF ConnNext, ConnInv

LEMMA ConnInvHolds ==
  ASSUME IdsSuffice
  PROVE  ConnSpec => []ConnInv
<1>1. ConnInit => ConnInv
  BY InitConn
<1>2. ConnInv /\ [ConnNext]_connVars => ConnInv'
  BY ConnStep
<1>3. QED
  BY <1>1, <1>2, PTL DEF ConnSpec

\* With an id for every call that can be sent, the two channels over one stream implement
\* the calls they promise: a callback runs once, with its own response or with an error;
\* the server takes a request in at most once, and never after its caller was told that it
\* was not sent.  (The part of KeepsPromise that is not about fairness.)
THEOREM ConnectionImplementsCalls ==
  ASSUME IdsSuffice
  PROVE  ConnSpec => Contract!Spec
<1>1. ConnInit => Contract!Init
  BY InitConn
<1>2. ConnInv /\ [ConnNext]_connVars => [Contract!Next]_(Contract!absVars)
  BY ConnStep DEF Implements
<1>3. QED
  BY <1>1, <1>2, ConnInvHolds, PTL DEF ConnSpec, Contract!Spec
----------------------------------------------------------------------------
(* A connection that only drains.                                          *)

\* The client's user may destroy the channel but not at once, the server's user never
\* does, no call and no handshake has a timeout, and nobody ends the client's side of the
\* stream: a drain is all that ends the connection, unless the stream breaks.
OnlyDrains ==
  /\ UntimedCalls = Calls
  /\ ~ConnectTimeout
  /\ ClientDestroys \subseteq {FALSE}
  /\ ServerDestroys = {}
  /\ ~MayFinish

\* The server drains, and ends, only after the client has ended: the client never sees the
\* server's end of the stream before its own, which would interrupt what is in flight.
ClientEndsFirst ==
  /\ sdestroyed => sdraining
  /\ sdraining => destroyed

NothingIsTimed == timers = {} /\ ~connTimer /\ ~finished

DrainInv == Inv /\ ServerTypes /\ ClientEndsFirst /\ NothingIsTimed /\ DrainLosesNothing

\* What the client does cuts nothing off.
CutsNothing ==
  /\ timers' = {} /\ ~connTimer' /\ ~finished'
  /\ destroyed => destroyed'
  /\ DrainLosesNothing'

LEMMA DestroyCutsNothing ==
  ASSUME DrainInv, Destroy(FALSE), UNCHANGED finished
  PROVE  CutsNothing
<1>1. /\ timers' = timers \ {} /\ connTimer' = (connTimer /\ ~Ends(FALSE))
      /\ destroyed' = (destroyed \/ Ends(FALSE))
      /\ outcome' = [c \in Calls |-> IF c \in {} THEN "interrupted" ELSE outcome[c]]
  BY DEF Destroy, Interrupted
<1>2. DrainLosesNothing'
  BY <1>1 DEF DrainInv, DrainLosesNothing
<1>3. QED
  BY <1>1, <1>2 DEF CutsNothing, DrainInv, NothingIsTimed

LEMMA SettleCutsNothing ==
  ASSUME DrainInv, NEW c \in Calls, NEW kind \in Outcomes \ {"interrupted", "timeout"}, NEW d,
         NEW rest, Settle(c, kind, d, rest)
  PROVE  DrainLosesNothing'
  BY DEF Settle, callVars, DrainInv, DrainLosesNothing, Inv, TypeOK

LEMMA RunCallbackCutsNothing ==
  ASSUME DrainInv, NEW c \in Calls, NEW kind \in Outcomes \ {"interrupted", "timeout"}, NEW d,
         NEW rest, RunCallback(c, kind, d, rest), UNCHANGED <<channelVars, finished>>
  PROVE  CutsNothing
<1>1. timers' = {} /\ ~connTimer' /\ ~finished' /\ destroyed' = destroyed
  BY DEF RunCallback, DrainInv, NothingIsTimed, channelVars
<1>2. DrainLosesNothing'
  <2>1. CASE UNCHANGED callVars
    BY <2>1 DEF callVars, DrainInv, DrainLosesNothing
  <2>2. QED
    BY <2>1, SettleCutsNothing DEF RunCallback
<1>3. QED
  BY <1>1, <1>2 DEF CutsNothing

LEMMA DecodedIsNoCut ==
  \A c, d : Decoded(c, d) \in Outcomes \ {"interrupted", "timeout"}
  BY DEF Decoded, Outcomes

LEMMA RunTickCutsNothing ==
  ASSUME OnlyDrains, DrainInv, RunTick
  PROVE  CutsNothing
<1> USE DEF DrainInv, NothingIsTimed
<1>1. PICK t \in Tasks : t = Head(ticks) /\ ticks # <<>>
  BY TakeTick DEF RunTick
<1>2. CASE RunPing(t)
  BY <1>2 DEF RunPing, CutsNothing, callVars, registryVars, channelVars, DrainLosesNothing
<1>3. CASE RunStart(t)
  <2>1. t.call \in Calls
    BY <1>1, <1>3, TakeTick DEF RunStart, TickFits
  <2>2. /\ timers' = {} /\ ~connTimer' /\ ~finished' /\ destroyed' = destroyed
    BY <1>3, <2>1 DEF RunStart, registryVars, channelVars, OnlyDrains, Timed
  <2>3. DrainLosesNothing'
    <3>1. CASE UNCHANGED outcome
      BY <3>1 DEF DrainLosesNothing
    <3>2. ASSUME NEW kind \in {"invalid", "destroyed"}, Settle(t.call, kind, NoCall, Tail(ticks))
          PROVE  DrainLosesNothing'
      BY <2>1, <3>2, SettleCutsNothing DEF Outcomes
    <3>3. QED
      BY <1>3, <3>1, <3>2 DEF RunStart
  <2>4. QED
    BY <2>2, <2>3 DEF CutsNothing
<1>4. CASE RunReply(t)
  <2>1. t.call \in Calls
    BY <1>1, <1>4, TakeTick DEF RunReply, TickFits
  <2>2. QED
    BY <1>4, <2>1, DecodedIsNoCut, RunCallbackCutsNothing DEF RunReply, transportVars
<1>5. CASE RunOneWay(t)
  <2>1. PICK d : d = cbs[idOf[t.call]]
    OBVIOUS
  <2>2. CASE d = NoCall
    BY <1>5, <2>1, <2>2
    DEF RunOneWay, CutsNothing, callVars, channelVars, transportVars, DrainLosesNothing
  <2>3. CASE d # NoCall
    <3>1. idOf[t.call] \in Ids
      BY <1>1, <1>5, TakeTick DEF RunOneWay, TickFits, Inv, TypeOK
    <3>2. d \in Calls
      BY <2>1, <2>3, <3>1 DEF Inv, TypeOK
    <3>3. QED
      BY <1>5, <2>1, <2>3, <3>2, DecodedIsNoCut, RunCallbackCutsNothing
      DEF RunOneWay, transportVars
  <2>4. QED
    BY <2>2, <2>3
<1>6. CASE RunSettle(t)
  BY <1>6 DEF RunSettle, CutsNothing, registryVars, transportVars, DrainLosesNothing
<1>7. QED
  BY <1>1, <1>2, <1>3, <1>4, <1>5, <1>6 DEF RunTick

LEMMA ClientCutsNothing ==
  ASSUME OnlyDrains, DrainInv, [ConnNext]_connVars
  PROVE  CutsNothing
<1> USE DEF DrainInv, NothingIsTimed
<1>1. CASE UNCHANGED <<outcome, timers, connTimer, finished, destroyed>>
  BY <1>1 DEF CutsNothing, DrainLosesNothing
<1>2. CASE ClientSteps
  <2>1. ASSUME NEW noWait \in ClientDestroys, UserDestroys(noWait) PROVE CutsNothing
    BY <2>1, DestroyCutsNothing DEF OnlyDrains, UserDestroys, transportVars
  <2>2. ASSUME NEW c \in Calls, Call(c) PROVE CutsNothing
    BY <1>1, <2>2 DEF Call, registryVars, transportVars
  <2>3. CASE CallbackReturns
    BY <1>1, <2>3, DestroyCutsNothing
    DEF CallbackReturns, callVars, registryVars, transportVars
  <2>4. ~ConnectTimesOut /\ ~MayFinish /\ \A c \in Calls : ~CallTimesOut(c)
    BY DEF ConnectTimesOut, CallTimesOut, OnlyDrains
  <2>5. QED
    BY <1>2, <2>1, <2>2, <2>3, <2>4, RunTickCutsNothing DEF ClientSteps
<1>3. CASE ServerSteps \/ ServerSeesEnd \/ Break \/ DeliverToServer \/ UNCHANGED connVars
  BY <1>1, <1>3 DEF ServerSteps, ServerSeesEnd, Break, DeliverToServer, connVars, vars, callVars,
                    registryVars, channelVars, transportVars
<1>4. CASE DeliverToClient
  <2>1. sout # <<>> /\ Head(sout) \in Server!Replies
    BY <1>4, TailMembers DEF DeliverToClient, ServerTypes
  <2>2. Head(sout).type = "handshake" => Head(sout).match \in {"MATCH", "NONE"}
    BY <2>1 DEF Server!Replies
  <2>3. ASSUME NEW match \in {"MATCH", "NONE"}, OnPing(match) PROVE CutsNothing
    <3>1. UNCHANGED <<outcome, timers, destroyed, finished>>
      BY <2>3 DEF OnPing, callVars, registryVars, channelVars, transportVars
    <3>2. connTimer' = FALSE \/ connTimer' = connTimer
      BY <2>3 DEF OnPing, channelVars
    <3>3. QED
      BY <3>1, <3>2 DEF CutsNothing, DrainLosesNothing
  <2>4. QED
    BY <1>1, <1>4, <2>2, <2>3
    DEF DeliverToClient, OnMessage, vars, callVars, registryVars, channelVars, transportVars
<1>5. ~ClientSeesEnd
  BY DEF ClientSeesEnd, OnEnd, ClientEndsFirst
<1>6. QED
  BY <1>2, <1>3, <1>4, <1>5 DEF ConnNext

\* Where the server's side destroys nothing, its listeners do not.
LEMMA NobodyListens ==
  ASSUME OnlyDrains, NEW destroys \in ListenersDestroy
  PROVE  destroys = {}
  BY DEF OnlyDrains, ListenersDestroy

LEMMA ServerDrainsLast ==
  ASSUME OnlyDrains, DrainInv, [ConnNext]_connVars, CutsNothing
  PROVE  ClientEndsFirst'
<1> USE DEF DrainInv, ClientEndsFirst, CutsNothing
<1>1. CASE UNCHANGED <<sdraining, sdestroyed>>
  BY <1>1
<1>2. CASE ServerSteps
  <2>1. ASSUME NEW c \in Calls, Server!HandlerAnswers(c) PROVE ClientEndsFirst'
    BY <1>1, <2>1 DEF Server!HandlerAnswers
  <2>2. CASE Server!RunCompletion({})
    BY <2>2 DEF Server!RunCompletion, Server!Drains, Server!EndedBy, Server!DrainsOut
  <2>3. ServerCompletes => Server!RunCompletion({})
    BY NobodyListens DEF ServerCompletes
  <2>4. QED
    BY <1>2, <2>1, <2>2, <2>3 DEF ServerSteps, OnlyDrains
<1>3. CASE ServerSeesEnd
  <2>1. destroyed
    BY <1>3 DEF ServerSeesEnd, NothingIsTimed
  <2>2. QED
    BY <1>3, <2>1 DEF ServerSeesEnd, Server!SOnEnd, Server!SDestroy, Server!Drains
<1>4. CASE DeliverToServer
  <2>1. ASSUME NEW ok, NEW full, Server!OnHandshake(ok, full, {}) PROVE ClientEndsFirst'
    BY <2>1 DEF Server!OnHandshake, Server!EndedBy
  <2>2. ASSUME NEW c, NEW id, NEW throws, Server!OnRequest(c, id, throws, {}) PROVE ClientEndsFirst'
    BY <2>2 DEF Server!OnRequest, Server!Drains, Server!EndedBy
  <2>3. QED
    BY <1>1, <1>4, <2>1, <2>2, NobodyListens DEF DeliverToServer, serverSide
<1>5. CASE DeliverToClient
  BY <1>1, <1>5 DEF DeliverToClient, Server!STake
<1>6. QED
  BY <1>1, <1>2, <1>3, <1>4, <1>5
  DEF ConnNext, ClientSteps, ClientSeesEnd, Break, connVars, serverSide

LEMMA DrainInvHolds ==
  ASSUME OnlyDrains
  PROVE  ConnSpec => []DrainInv
<1>1. ConnInit => DrainInv
  <2>1. ConnInit => NothingIsTimed /\ DrainLosesNothing /\ ClientEndsFirst
    BY DEF ConnInit, Init, Server!SInit, NothingIsTimed, DrainLosesNothing, ClientEndsFirst,
           OnlyDrains
  <2>2. QED
    BY <2>1, InitTypes DEF DrainInv
<1>2. DrainInv /\ [ConnNext]_connVars => DrainInv'
  <2> SUFFICES ASSUME DrainInv, [ConnNext]_connVars PROVE DrainInv'
    OBVIOUS
  <2>1. Inv' /\ ServerTypes'
    BY TypesKept DEF DrainInv
  <2>2. CutsNothing
    BY ClientCutsNothing
  <2>3. ClientEndsFirst'
    BY <2>2, ServerDrainsLast
  <2>4. QED
    BY <2>1, <2>2, <2>3 DEF DrainInv, CutsNothing, NothingIsTimed
<1>3. QED
  BY <1>1, <1>2, PTL DEF ConnSpec

\* When a drain is all that ends the connection, no call that was sent is cut off, for any
\* number of calls, whether or not ids run out, and even if the stream breaks: a caller is
\* given the server's answer, or is told that nothing was sent, or still waits.
THEOREM DrainsLoseNothing ==
  ASSUME OnlyDrains
  PROVE  ConnSpec => []DrainLosesNothing
<1>1. DrainInv => DrainLosesNothing
  BY DEF DrainInv
<1>2. QED
  BY <1>1, DrainInvHolds, PTL

=============================================================================
