----------------------- MODULE ClientServices_proofs -----------------------
(***************************************************************************)
(* Proofs about the parts of an RPC service beside the stateful client,    *)
(* for every set of calls, channels and middleware functions.  The server  *)
(* channel: what a drain waits for is exact, a channel that is not forced  *)
(* answers everything before it ends, and draining takes in nothing new.   *)
(* The middleware chain: a call completes once, after all that was left    *)
(* for the way back has run in reverse, and a response set early keeps the *)
(* request from the handler.  Stateless channels: they implement RpcCalls, *)
(* and what a drain waits for is exact there too.                          *)
(* The client: it gives calls only to channels that take them.  The frame  *)
(* codecs: however a stream is cut, its messages are read as written.      *)
(***************************************************************************)
EXTENDS MCClientServices, SequenceLemmas, FiniteSetTheorems

----------------------------------------------------------------------------
(* The stateful server channel: its inductive invariant.                   *)

\* The requests whose chain completes in a tick have been answered, and each of them
\* completes once.
TicksAnswer ==
  /\ \A i \in 1..Len(sticks) : request[sticks[i]] = "answered"
  /\ \A i, j \in 1..Len(sticks) : i # j => sticks[i] # sticks[j]

\* No response is thrown away before the channel ends, and what is lost then is the one
\* request in whose own event it was destroyed.
EndsWell ==
  /\ \A c \in Calls : request[c] = "dropped" => sdestroyed
  /\ GracefulEndAnswersAll

\* A channel that drains listens no more, unless it was destroyed in its handshake.
DrainsDeaf ==
  /\ sdestroyed => sdraining
  /\ sdraining => slistening # "handshake"
  /\ sdraining /\ ~smidway => slistening = "none"

SInv == STypeOK /\ SPendingExact /\ TicksAnswer /\ EndsWell /\ DrainsDeaf

----------------------------------------------------------------------------
(* Counting.                                                               *)

\* The requests being handled are finitely many.
LEMMA HandledFinite ==
  IsFiniteSet(Handled) /\ Cardinality(Handled) \in Nat
  BY ServerAssumption, FS_Subset, FS_CardinalityType DEF Handled

\* A request that is taken in, and one whose chain completes, change the count by one.
LEMMA HandledGrows ==
  ASSUME NEW c \in Calls, c \notin Handled, Handled' = Handled \cup {c}
  PROVE  Cardinality(Handled') = Cardinality(Handled) + 1
  BY HandledFinite, FS_AddElement

LEMMA HandledShrinks ==
  ASSUME NEW c \in Calls, c \in Handled, Handled' = Handled \ {c}
  PROVE  /\ Cardinality(Handled') = Cardinality(Handled) - 1
         /\ Cardinality(Handled) > 0
         /\ Cardinality(Handled) = 1 => Handled' = {}
<1>1. Cardinality(Handled') = Cardinality(Handled) - 1 /\ IsFiniteSet(Handled')
  BY HandledFinite, FS_RemoveElement
<1>2. Cardinality(Handled) # 0
  BY HandledFinite, FS_EmptySet
<1>3. Cardinality(Handled) = 1 => Handled' = {}
  BY <1>1, FS_EmptySet
<1>4. QED
  BY <1>1, <1>2, <1>3, HandledFinite

\* Nothing is being handled when the count is zero.
LEMMA NoneHandled ==
  ASSUME SPendingExact, spending = 0
  PROVE  Handled = {}
  BY HandledFinite, FS_EmptySet DEF SPendingExact

----------------------------------------------------------------------------
(* Calls of destroy.                                                       *)

\* A channel is ended by who does not wait, or when nothing is pending.
LEMMA EndedByWhom ==
  ASSUME NEW destroys \in Destroys, NEW pending
  PROVE  /\ EndedBy(destroys, pending) \in BOOLEAN
         /\ sdestroyed => EndedBy(destroys, pending)
         /\ EndedBy(destroys, pending) =>
              sdestroyed \/ TRUE \in destroys \/ (destroys # {} /\ pending = 0)
         /\ destroys # {} /\ pending = 0 => EndedBy(destroys, pending)
<1>1. CASE destroys = {}
  BY <1>1 DEF EndedBy
<1>2. CASE destroys = {TRUE}
  BY <1>2 DEF EndedBy, SEnds
<1>3. CASE destroys = {FALSE}
  BY <1>3 DEF EndedBy, SEnds
<1>4. QED
  BY <1>1, <1>2, <1>3 DEF Destroys

----------------------------------------------------------------------------
(* The steps.                                                              *)

LEMMA InitSInv == SInit => SInv
<1> SUFFICES ASSUME SInit PROVE SInv
  OBVIOUS
<1>1. known \in BOOLEAN
  BY ServerAssumption, Zenon DEF SInit
<1>2. requestId \in [Calls -> SIds]
  BY ServerAssumption DEF SInit, SIds
<1>3. STypeOK
  <2>1. sdraining \in BOOLEAN /\ sdestroyed \in BOOLEAN /\ sforced \in BOOLEAN /\ smidway \in BOOLEAN
    BY Zenon DEF SInit
  <2>2. sticks \in Seq(Calls) /\ sout \in Seq(Replies) /\ sfirst \subseteq Calls /\ scaught \subseteq Calls
    BY DEF SInit
  <2>3. slistening \in {"handshake", "request", "none"} /\ spending \in Nat /\ request \in [Calls -> Stages]
    BY DEF SInit, Stages
  <2>4. QED
    BY <1>1, <1>2, <2>1, <2>2, <2>3 DEF STypeOK
<1>4. TicksAnswer /\ DrainsDeaf
  BY DEF SInit, TicksAnswer, DrainsDeaf
<1>5. Handled = {} /\ Lost = {}
  BY DEF SInit, Handled, Lost
<1>6. SPendingExact
  BY <1>5, FS_EmptySet DEF SInit, SPendingExact
<1>7. EndsWell
  BY <1>5 DEF SInit, EndsWell, GracefulEndAnswersAll
<1>8. QED
  BY <1>3, <1>4, <1>6, <1>7 DEF SInv

\* A request is taken in while the channel is open, or after a 'handshake' listener has
\* destroyed it.  If the channel ends in the section without being forced, nothing else was
\* pending and it was destroyed in the request's own event.
LEMMA ReceiveStep ==
  ASSUME SInv, NEW c \in Calls, NEW id \in SIds, NEW throws \in BOOLEAN, NEW destroys,
         Receive(c, id, throws, destroys),
         sdestroyed' \in BOOLEAN,
         ~sforced' => ~sforced, ~smidway' => ~smidway /\ ~sdraining,
         sdestroyed => sdestroyed',
         ~sforced' /\ ~smidway' /\ sdestroyed' => destroys # {} /\ spending = 0
  PROVE  /\ SPendingExact' /\ TicksAnswer' /\ EndsWell'
         /\ request' \in [Calls -> Stages] /\ requestId' \in [Calls -> SIds]
         /\ spending' \in Nat /\ sticks' \in Seq(Calls) /\ sout' \in Seq(Replies)
         /\ scaught' \subseteq Calls
<1> USE DEF SInv
<1>1. /\ request[c] = "unseen" /\ request \in [Calls -> Stages] /\ c \notin Handled
      /\ requestId' \in [Calls -> SIds] /\ scaught' \subseteq Calls
      /\ spending \in Nat /\ sticks \in Seq(Calls) /\ sout \in Seq(Replies)
      /\ destroys # {} => c \in scaught'
  BY DEF Receive, STypeOK, Handled
<1>2. \A i \in 1..Len(sticks) : sticks[i] \in Calls /\ sticks[i] # c
  BY <1>1, ElementOfSeq DEF TicksAnswer
<1>3. Append(sout, Reply(c, id)) \in Seq(Replies) /\ Append(sticks, c) \in Seq(Calls)
  <2>1. Reply(c, id) \in Replies
    BY DEF Reply, Replies
  <2>2. QED
    BY <1>1, <2>1, AppendProperties
<1>4. ~sforced' /\ ~smidway' => /\ \A d \in Calls : request[d] # "dropped"
                                /\ sdestroyed' => Handled = {} /\ c \in scaught'
  BY <1>1, NoneHandled DEF EndsWell, DrainsDeaf
<1>5. CASE c \in MangledCalls
  <2>1. /\ request' = [request EXCEPT ![c] = IF sdestroyed' THEN "dropped" ELSE "replied"]
        /\ sout' = (IF sdestroyed' THEN sout ELSE Append(sout, Reply(c, id)))
        /\ UNCHANGED <<spending, sticks>>
    BY <1>5 DEF Receive
  <2>2. /\ request' \in [Calls -> Stages] /\ spending' \in Nat /\ sticks' \in Seq(Calls)
        /\ sout' \in Seq(Replies)
    <3>1. PICK stage \in Stages : request' = [request EXCEPT ![c] = stage]
      BY <2>1 DEF Stages
    <3>2. request' \in [Calls -> Stages]
      BY <1>1, <3>1
    <3>3. QED
      BY <1>1, <1>3, <2>1, <3>2
  <2>3. Handled' = Handled
    BY <1>1, <2>1 DEF Handled
  <2>4. SPendingExact' /\ TicksAnswer'
    BY <1>1, <1>2, <2>1, <2>3 DEF SPendingExact, TicksAnswer
  <2>5. \A d \in Calls : request'[d] = "dropped" => sdestroyed'
    BY <1>1, <2>1 DEF EndsWell
  <2>6. GracefulEndAnswersAll'
    <3>1. SUFFICES ASSUME ~sforced', ~smidway' PROVE Lost' \subseteq {c} /\ Lost' \subseteq scaught'
      BY DEF GracefulEndAnswersAll
    <3>2. Lost' \subseteq {c} /\ (Lost' # {} => sdestroyed')
      BY <1>1, <1>4, <2>1, <2>3, <3>1 DEF Lost
    <3>3. QED
      BY <1>4, <3>1, <3>2
  <2>7. QED
    BY <1>1, <2>2, <2>4, <2>5, <2>6 DEF EndsWell
<1>6. CASE c \notin MangledCalls
  <2>1. /\ spending' = spending + 1 /\ sout' = sout
        /\ \/ /\ request' = [request EXCEPT ![c] = "answered"]
              /\ sticks' = Append(sticks, c)
           \/ /\ \/ request' = [request EXCEPT ![c] = "handling"]
                 \/ request' = [request EXCEPT ![c] = "thrown"]
              /\ sticks' = sticks
    BY <1>6 DEF Receive
  <2>2. /\ request' \in [Calls -> Stages] /\ spending' \in Nat /\ sticks' \in Seq(Calls)
        /\ sout' \in Seq(Replies)
    <3>1. PICK stage \in Stages : request' = [request EXCEPT ![c] = stage]
      BY <2>1 DEF Stages
    <3>2. request' \in [Calls -> Stages]
      BY <1>1, <3>1
    <3>3. spending' \in Nat /\ sout' \in Seq(Replies)
      BY <1>1, <2>1
    <3>4. sticks' \in Seq(Calls)
      BY <1>1, <1>3, <2>1
    <3>5. QED
      BY <3>2, <3>3, <3>4
  <2>3. Handled' = Handled \cup {c}
    BY <1>1, <2>1 DEF Handled
  <2>4. SPendingExact'
    BY <1>1, <2>1, <2>3, HandledGrows DEF SPendingExact
  <2>5. TicksAnswer'
    <3>1. \A d \in Calls : request[d] = "answered" => request'[d] = "answered"
      BY <1>1, <2>1
    <3>2. CASE sticks' = sticks
      BY <1>2, <3>1, <3>2 DEF TicksAnswer
    <3>3. CASE sticks' = Append(sticks, c) /\ request'[c] = "answered"
      <4>1. /\ Len(sticks') = Len(sticks) + 1 /\ Len(sticks) \in Nat
            /\ \A i \in 1..Len(sticks) : sticks'[i] = sticks[i]
            /\ sticks'[Len(sticks) + 1] = c
        BY <1>1, <3>3, AppendProperties, LenProperties
      <4>2. QED
        BY <1>2, <3>1, <3>3, <4>1 DEF TicksAnswer
    <3>4. QED
      BY <1>1, <2>1, <3>2, <3>3
  <2>6. \A d \in Calls : request'[d] = "dropped" => sdestroyed'
    BY <1>1, <2>1 DEF EndsWell
  <2>7. GracefulEndAnswersAll'
    <3>1. SUFFICES ASSUME ~sforced', ~smidway' PROVE Lost' \subseteq {c} /\ Lost' \subseteq scaught'
      BY DEF GracefulEndAnswersAll
    <3>2. Lost' \subseteq {c} /\ (Lost' # {} => sdestroyed')
      BY <1>1, <1>4, <2>1, <2>3, <3>1 DEF Lost
    <3>3. QED
      BY <1>4, <3>1, <3>2
  <2>8. QED
    BY <1>1, <2>2, <2>4, <2>5, <2>6, <2>7 DEF EndsWell
<1>7. QED
  BY <1>5, <1>6

LEMMA OnRequestStep ==
  ASSUME SInv, NEW c \in Calls, NEW id \in SIds, NEW throws \in BOOLEAN, NEW destroys \in Destroys,
         OnRequest(c, id, throws, destroys)
  PROVE  SInv'
<1>1. /\ slistening = "request" /\ Receive(c, id, throws, destroys)
      /\ sdraining' = (sdraining \/ destroys # {}) /\ sforced' = (sforced \/ TRUE \in destroys)
      /\ slistening' = (IF destroys = {} THEN slistening ELSE ListenerDrained)
      /\ sdestroyed' = EndedBy(destroys, spending)
      /\ UNCHANGED <<known, sfirst, smidway>>
  BY DEF OnRequest, Drains
<1>2. /\ sdestroyed' \in BOOLEAN /\ (sdestroyed => sdestroyed')
      /\ (~sforced' => ~sforced) /\ (~smidway' => ~smidway /\ ~sdraining)
      /\ (~sforced' /\ ~smidway' /\ sdestroyed' => destroys # {} /\ spending = 0)
  BY <1>1, EndedByWhom DEF SInv, STypeOK, DrainsDeaf
<1>3. /\ SPendingExact' /\ TicksAnswer' /\ EndsWell'
      /\ request' \in [Calls -> Stages] /\ requestId' \in [Calls -> SIds]
      /\ spending' \in Nat /\ sticks' \in Seq(Calls) /\ sout' \in Seq(Replies)
      /\ scaught' \subseteq Calls
  BY <1>1, <1>2, ReceiveStep
<1>4. STypeOK'
  BY <1>1, <1>2, <1>3 DEF SInv, STypeOK, ListenerDrained
<1>5. DrainsDeaf'
  BY <1>1, EndedByWhom DEF SInv, STypeOK, DrainsDeaf, ListenerDrained
<1>6. QED
  BY <1>3, <1>4, <1>5 DEF SInv

\* The same with a handshake before it, whose listeners may have destroyed the channel.
LEMMA OnFirstRequestStep ==
  ASSUME SInv, NEW c \in Calls, NEW id \in SIds, NEW full \in BOOLEAN, NEW throws \in BOOLEAN,
         NEW opening \in Destroys, NEW destroys \in Destroys,
         OnFirstRequest(c, id, full, throws, opening, destroys)
  PROVE  SInv'
<1>1. /\ slistening = "handshake" /\ Receive(c, id, throws, destroys)
      /\ known' = TRUE /\ sfirst' = {c}
      /\ sdraining' = (sdraining \/ opening \cup destroys # {})
      /\ slistening' = (IF opening = {} /\ destroys # {} THEN "none" ELSE "request")
      /\ sforced' = (sforced \/ TRUE \in opening \cup destroys)
      /\ smidway' = (smidway \/ opening # {})
      /\ sdestroyed' = EndedBy(opening \cup destroys, spending)
  BY DEF OnFirstRequest
<1>2. EndedBy(opening \cup destroys, spending) <=> EndedBy(opening, spending) \/ EndedBy(destroys, spending)
  BY DEF EndedBy
<1>3. /\ sdestroyed' \in BOOLEAN /\ (sdestroyed => sdestroyed') /\ sdestroyed \in BOOLEAN
      /\ sdestroyed' => sdraining'
  <2>1. sdestroyed' \in BOOLEAN
    BY <1>1 DEF EndedBy
  <2>2. (sdestroyed => sdestroyed') /\ sdestroyed \in BOOLEAN
    BY <1>1, <1>2, EndedByWhom DEF SInv, STypeOK
  <2>3. sdestroyed' => sdraining'
    BY <1>1, <1>2 DEF EndedBy, SInv, DrainsDeaf
  <2>4. QED
    BY <2>1, <2>2, <2>3
<1>4. ~sdraining /\ ~sdestroyed
  BY <1>1 DEF SInv, DrainsDeaf
<1>5. ~sforced' => ~sforced
  BY <1>1
<1>6. ~smidway' => ~smidway /\ ~sdraining /\ opening = {}
  BY <1>1, <1>4
<1>7. ~sforced' /\ ~smidway' /\ sdestroyed' => destroys # {} /\ spending = 0
  BY <1>1, <1>2, <1>4, <1>6, EndedByWhom DEF EndedBy
<1>8. /\ SPendingExact' /\ TicksAnswer' /\ EndsWell'
      /\ request' \in [Calls -> Stages] /\ requestId' \in [Calls -> SIds]
      /\ spending' \in Nat /\ sticks' \in Seq(Calls) /\ sout' \in Seq(Replies)
      /\ scaught' \subseteq Calls
  BY <1>1, <1>3, <1>5, <1>6, <1>7, ReceiveStep
<1>9. STypeOK'
  BY <1>1, <1>3, <1>8 DEF SInv, STypeOK
<1>10. DrainsDeaf'
  BY <1>1, <1>3, <1>4, <1>6 DEF DrainsDeaf
<1>11. QED
  BY <1>8, <1>9, <1>10 DEF SInv

\* A handler answers: its request goes on to its tick.
LEMMA HandlerAnswersStep ==
  ASSUME SInv, NEW c \in Calls, HandlerAnswers(c)
  PROVE  SInv'
<1> USE DEF SInv
<1>1. /\ request[c] = "handling" /\ request' = [request EXCEPT ![c] = "answered"]
      /\ sticks' = Append(sticks, c) /\ request \in [Calls -> Stages] /\ sticks \in Seq(Calls)
      /\ UNCHANGED <<slistening, spending, sdraining, sdestroyed, known, requestId, sfirst, sout,
                     sforced, smidway, scaught>>
  BY DEF HandlerAnswers, STypeOK
<1>2. STypeOK'
  BY <1>1 DEF STypeOK, Stages
<1>3. SPendingExact' /\ Lost' = Lost
  <2>1. Handled' = Handled
    BY <1>1 DEF Handled
  <2>2. QED
    BY <1>1, <2>1 DEF SPendingExact, Lost
<1>4. TicksAnswer'
  <2>1. \A i \in 1..Len(sticks) : sticks[i] \in Calls /\ sticks[i] # c
    BY <1>1, ElementOfSeq DEF TicksAnswer
  <2>2. /\ Len(sticks') = Len(sticks) + 1 /\ Len(sticks) \in Nat
        /\ \A i \in 1..Len(sticks) : sticks'[i] = sticks[i]
        /\ sticks'[Len(sticks) + 1] = c
    BY <1>1, AppendProperties, LenProperties
  <2>3. QED
    BY <1>1, <2>1, <2>2 DEF TicksAnswer
<1>5. EndsWell' /\ DrainsDeaf'
  BY <1>1, <1>3 DEF EndsWell, GracefulEndAnswersAll, DrainsDeaf
<1>6. QED
  BY <1>2, <1>3, <1>4, <1>5

\* A chain completes: its response is written if no listener has ended the channel, and
\* the last one ends a channel that drains.
LEMMA RunCompletionStep ==
  ASSUME SInv, NEW destroys \in Destroys, RunCompletion(destroys)
  PROVE  SInv'
<1> USE DEF SInv
<1> DEFINE c == Head(sticks)
           ended == EndedBy(destroys, spending - 1)
<1>1. /\ sticks # <<>> /\ sticks \in Seq(Calls) /\ request \in [Calls -> Stages]
      /\ request' = [request EXCEPT ![c] = IF ended THEN "dropped" ELSE "replied"]
      /\ sout' = (IF ended \/ Silent(c) THEN sout ELSE Append(sout, Reply(c, requestId[c])))
      /\ scaught' = (IF destroys = {} THEN scaught ELSE scaught \cup {c})
      /\ sticks' = Tail(sticks) /\ spending' = spending - 1
      /\ sdestroyed' = (ended \/ DrainsOut)
      /\ sdraining' = (sdraining \/ destroys # {}) /\ sforced' = (sforced \/ TRUE \in destroys)
      /\ slistening' = (IF destroys = {} THEN slistening ELSE ListenerDrained)
      /\ UNCHANGED <<known, requestId, sfirst, smidway>>
  BY DEF RunCompletion, SLeft, STypeOK, Drains
<1>2. /\ c \in Calls /\ c = sticks[1] /\ Tail(sticks) \in Seq(Calls) /\ Len(Tail(sticks)) = Len(sticks) - 1
      /\ Len(sticks) \in Nat /\ Len(sticks) > 0
      /\ \A i \in 1..Len(Tail(sticks)) : Tail(sticks)[i] = sticks[i + 1]
  BY <1>1, HeadTailProperties, EmptySeq, LenProperties
<1>3. request[c] = "answered"
  BY <1>2 DEF TicksAnswer
<1>4. c \in Handled /\ Handled' = Handled \ {c}
  BY <1>1, <1>2, <1>3 DEF Handled
<1>5. SPendingExact' /\ spending > 0 /\ (spending = 1 => Handled' = {})
  BY <1>1, <1>2, <1>4, HandledShrinks DEF SPendingExact
<1>6. /\ ended \in BOOLEAN /\ (sdestroyed => ended)
      /\ ended => sdestroyed \/ TRUE \in destroys \/ (destroys # {} /\ spending = 1)
  <2>1. spending - 1 = 0 => spending = 1
    BY DEF STypeOK
  <2>2. QED
    BY <2>1, EndedByWhom
<1>7. STypeOK'
  <2>1. sout' \in Seq(Replies)
    BY <1>1, <1>2 DEF STypeOK, Replies, Reply
  <2>2. QED
    BY <1>1, <1>2, <1>5, <1>6, <2>1 DEF STypeOK, Stages, DrainsOut, ListenerDrained
<1>8. TicksAnswer'
  <2>1. \A i \in 1..Len(Tail(sticks)) : /\ i + 1 \in 1..Len(sticks)
                                        /\ Tail(sticks)[i] = sticks[i + 1] /\ sticks[i + 1] \in Calls
                                        /\ sticks[i + 1] # c
    BY <1>1, <1>2, ElementOfSeq DEF TicksAnswer
  <2>2. QED
    BY <1>1, <1>2, <2>1 DEF TicksAnswer
<1>9. EndsWell'
  <2>1. \A d \in Calls : request'[d] = "dropped" => sdestroyed'
    BY <1>1, <1>2, <1>6 DEF EndsWell
  <2>2. SUFFICES ASSUME ~sforced', ~smidway'
                 PROVE  Lost' \subseteq scaught' /\ \A d, e \in Lost' : d = e
    BY <2>1 DEF EndsWell, GracefulEndAnswersAll
  <2>3. ~sforced /\ ~smidway /\ TRUE \notin destroys
    BY <1>1, <2>2
  <2>4. CASE sdestroyed
    <3>1. Lost' = Lost
      BY <1>1, <1>2, <1>4, <1>6, <2>4 DEF Lost
    <3>2. QED
      BY <1>1, <2>3, <3>1 DEF EndsWell, GracefulEndAnswersAll
  <2>5. CASE ~sdestroyed /\ ended
    <3>1. Handled' = {} /\ c \in scaught' /\ \A d \in Calls : request[d] # "dropped"
      BY <1>1, <1>5, <1>6, <2>3, <2>5 DEF EndsWell
    <3>2. Lost' \subseteq {c}
      BY <1>1, <1>2, <3>1 DEF Lost
    <3>3. QED
      BY <3>1, <3>2
  <2>6. CASE ~sdestroyed /\ ~ended
    <3>1. /\ \A d \in Calls : request'[d] # "dropped"
          /\ sdestroyed' => Handled' = {}
      BY <1>1, <1>2, <1>5, <2>6 DEF EndsWell, DrainsOut
    <3>2. Lost' = {}
      BY <3>1 DEF Lost
    <3>3. QED
      BY <3>2
  <2>7. QED
    BY <2>4, <2>5, <2>6
<1>10. DrainsDeaf'
  BY <1>1, <1>6, EndedByWhom DEF DrainsDeaf, DrainsOut, ListenerDrained, STypeOK, EndedBy
<1>11. QED
  BY <1>5, <1>7, <1>8, <1>9, <1>10

\* Steps that move no request: handshakes, destroys and the transport.
LEMMA QuietStep ==
  ASSUME SInv, STypeOK', DrainsDeaf', UNCHANGED <<spending, request, sticks, scaught>>,
         ~sforced' => ~sforced, ~smidway' => ~smidway, sdestroyed => sdestroyed',
         ~sforced' /\ ~smidway' /\ sdestroyed' => sdestroyed \/ spending = 0
  PROVE  SInv'
<1>1. Handled' = Handled
  BY DEF Handled
<1>2. SPendingExact' /\ TicksAnswer'
  BY <1>1 DEF SInv, SPendingExact, TicksAnswer
<1>3. SUFFICES ASSUME ~sforced', ~smidway'
               PROVE  Lost' \subseteq scaught' /\ \A d, e \in Lost' : d = e
  BY <1>2 DEF SInv, EndsWell, GracefulEndAnswersAll
<1>4. CASE sdestroyed' = sdestroyed \/ sdestroyed
  <2>1. Lost' = Lost
    BY <1>1, <1>4 DEF Lost, SInv, STypeOK
  <2>2. QED
    BY <1>3, <2>1 DEF SInv, EndsWell, GracefulEndAnswersAll
<1>5. CASE ~sdestroyed
  <2>1. \A c \in Calls : request'[c] # "dropped"
    BY <1>5 DEF SInv, EndsWell
  <2>2. sdestroyed' => Handled' = {}
    BY <1>1, <1>3, <1>5, NoneHandled DEF SInv
  <2>3. Lost' = {}
    BY <2>1, <2>2 DEF Lost
  <2>4. QED
    BY <2>3
<1>6. QED
  BY <1>4, <1>5

LEMMA OnHandshakeStep ==
  ASSUME SInv, NEW wellFormed \in BOOLEAN, NEW full \in BOOLEAN, NEW destroys \in Destroys,
         OnHandshake(wellFormed, full, destroys)
  PROVE  SInv'
<1> DEFINE ok == wellFormed /\ Adapted(full)
<1>1. /\ slistening = "handshake" /\ known' = (known \/ ok)
      /\ sdraining' = (sdraining \/ destroys # {}) /\ sforced' = (sforced \/ TRUE \in destroys)
      /\ slistening' = (IF ok THEN "request" ELSE IF destroys # {} THEN "none" ELSE slistening)
      /\ smidway' = (smidway \/ (ok /\ destroys # {}))
      /\ sdestroyed' = EndedBy(destroys, spending)
      /\ sout' = (IF sdestroyed' THEN sout
                  ELSE Append(sout, HandshakeReply(IF ok THEN "MATCH" ELSE "NONE")))
      /\ UNCHANGED <<spending, request, requestId, sfirst, sticks, scaught>>
  BY DEF OnHandshake
<1>2. ~sdraining /\ ~sdestroyed
  BY <1>1 DEF SInv, DrainsDeaf
<1>3. sdestroyed' \in BOOLEAN /\ (sdestroyed' => sforced' \/ (destroys # {} /\ spending = 0))
  BY <1>1, <1>2, EndedByWhom
<1>4. ok \in BOOLEAN /\ known' \in BOOLEAN
  BY <1>1 DEF Adapted
<1>5. sout' \in Seq(Replies)
  <2>1. \A match \in {"MATCH", "NONE"} : HandshakeReply(match) \in Replies
    BY DEF HandshakeReply, Replies
  <2>2. QED
    BY <1>1, <2>1, AppendProperties DEF SInv, STypeOK
<1>6. STypeOK'
  BY <1>1, <1>3, <1>4, <1>5 DEF SInv, STypeOK
<1>7. DrainsDeaf'
  BY <1>1, <1>2, <1>4, EndedByWhom DEF DrainsDeaf, EndedBy
<1>8. QED
  BY <1>1, <1>2, <1>3, <1>6, <1>7, QuietStep

LEMMA SDestroyStep ==
  ASSUME SInv, NEW noWait \in BOOLEAN, SDestroy(noWait)
  PROVE  SInv'
<1>1. /\ sdraining' = TRUE /\ sforced' = (sforced \/ noWait) /\ slistening' = ListenerDrained
      /\ sdestroyed' = (sdestroyed \/ SEnds(noWait, spending))
      /\ UNCHANGED <<spending, known, request, requestId, sfirst, sticks, sout, smidway, scaught>>
  BY DEF SDestroy, Drains, EndedBy
<1>2. STypeOK'
  BY <1>1 DEF SInv, STypeOK, ListenerDrained, SEnds
<1>3. DrainsDeaf'
  BY <1>1 DEF SInv, DrainsDeaf, ListenerDrained, STypeOK
<1>4. QED
  BY <1>1, <1>2, <1>3, QuietStep DEF SEnds

LEMMA STakeStep ==
  ASSUME SInv, STake
  PROVE  SInv'
<1>1. Tail(sout) \in Seq(Replies)
  BY HeadTailProperties DEF SInv, STypeOK, STake
<1>2. STypeOK'
  BY <1>1 DEF SInv, STypeOK, STake
<1>3. DrainsDeaf'
  BY DEF SInv, DrainsDeaf, STake
<1>4. QED
  BY <1>2, <1>3, QuietStep DEF STake

LEMMA NextSInv == SInv /\ [SNext]_serverVars => SInv'
<1> SUFFICES ASSUME SInv, [SNext]_serverVars PROVE SInv'
  OBVIOUS
<1>1. ASSUME NEW wellFormed \in BOOLEAN, NEW full \in BOOLEAN, NEW destroys \in Destroys,
             OnHandshake(wellFormed, full, destroys)
      PROVE SInv'
  BY <1>1, OnHandshakeStep
<1>2. ASSUME NEW c \in Calls, NEW id \in SIds, NEW throws \in BOOLEAN, NEW destroys \in Destroys,
             \/ OnRequest(c, id, throws, destroys)
             \/ \E full \in BOOLEAN, opening \in Destroys :
                  OnFirstRequest(c, id, full, throws, opening, destroys)
      PROVE SInv'
  BY <1>2, OnRequestStep, OnFirstRequestStep
<1>3. ASSUME NEW c \in Calls, HandlerAnswers(c) PROVE SInv'
  BY <1>3, HandlerAnswersStep
<1>4. ASSUME NEW noWait \in BOOLEAN, SDestroy(noWait) PROVE SInv'
  BY <1>4, SDestroyStep
<1>5. CASE SOnEnd \/ SOnFinish
  BY <1>4, <1>5 DEF SOnEnd, SOnFinish
<1>6. CASE STake
  BY <1>6, STakeStep
<1>7. CASE Completes
  BY <1>7, RunCompletionStep DEF Completes
<1>8. CASE UNCHANGED serverVars
  BY <1>8 DEF SInv, STypeOK, SPendingExact, Handled, Lost, TicksAnswer, EndsWell, GracefulEndAnswersAll,
    DrainsDeaf, serverVars
<1>9. QED
  BY <1>1, <1>2, <1>3, <1>4, <1>5, <1>6, <1>7, <1>8 DEF SNext, Client, ServerUser

----------------------------------------------------------------------------
(* The theorems.                                                           *)

\* The inductive invariant of the server channel holds in every reachable state, whatever
\* the client sends, handlers and listeners do and users destroy.
THEOREM SInvHolds == SSpec => []SInv
  BY InitSInv, NextSInv, PTL DEF SSpec

\* Every variable keeps its type; the pending count never falls below zero.
THEOREM STypeCorrect == SSpec => []STypeOK
<1>1. SInv => STypeOK
  BY DEF SInv
<1>2. QED
  BY <1>1, SInvHolds, PTL

\* The pending count of a server channel is the number of requests it took in whose chain
\* has not completed.
THEOREM SPendingIsExact == SSpec => []SPendingExact
<1>1. SInv => SPendingExact
  BY DEF SInv
<1>2. QED
  BY <1>1, SInvHolds, PTL

\* A channel nobody forced, nor destroyed by a 'handshake' listener, loses the response of
\* no request when it ends but of the one in whose own event it was destroyed.
THEOREM GracefulEndIsComplete == SSpec => []GracefulEndAnswersAll
<1>1. SInv => GracefulEndAnswersAll
  BY DEF SInv, EndsWell
<1>2. QED
  BY <1>1, SInvHolds, PTL

\* A channel that drains takes no request in, but the one in whose own event it began to,
\* and one that has ended writes nothing.
THEOREM DrainTakesNothingIn == SSpec => DrainStopsRequests
<1> DEFINE Taken(c) == request[c] = "unseen" /\ request'[c] # "unseen" /\ sdraining' /\ ~smidway'
           Step ==
             /\ \A c \in Calls : request[c] = "unseen" /\ request'[c] # "unseen" /\ sdraining' /\ ~smidway'
                                   => ~sdraining /\ c \in scaught'
             /\ sdestroyed => Len(sout') <= Len(sout)
<1>1. SInv /\ [SNext]_serverVars => [Step]_serverVars
  <2> SUFFICES ASSUME SInv, SNext PROVE Step
    BY DEF serverVars
  <2>1. sout \in Seq(Replies) /\ request \in [Calls -> Stages] /\ Len(sout) \in Nat
    BY LenProperties DEF SInv, STypeOK
  <2>2. ASSUME NEW c \in Calls, Taken(c) PROVE ~sdraining /\ c \in scaught'
    <3>1. ASSUME NEW d \in Calls, NEW id \in SIds, NEW throws \in BOOLEAN, NEW destroys \in Destroys,
                 OnRequest(d, id, throws, destroys)
          PROVE  ~sdraining /\ c \in scaught'
      <4>1. /\ slistening = "request" /\ sdraining' = (sdraining \/ destroys # {}) /\ smidway' = smidway
            /\ Receive(d, id, throws, destroys)
        BY <3>1 DEF OnRequest, Drains
      <4>2. c = d
        BY <2>1, <2>2, <4>1 DEF Receive
      <4>3. ~sdraining /\ destroys # {}
        BY <2>2, <4>1 DEF SInv, DrainsDeaf
      <4>4. QED
        BY <4>1, <4>2, <4>3 DEF Receive
    <3>2. ASSUME NEW d \in Calls, NEW id \in SIds, NEW full \in BOOLEAN, NEW throws \in BOOLEAN,
                 NEW opening \in Destroys, NEW destroys \in Destroys,
                 OnFirstRequest(d, id, full, throws, opening, destroys)
          PROVE  ~sdraining /\ c \in scaught'
      <4>1. /\ slistening = "handshake" /\ sdraining' = (sdraining \/ opening \cup destroys # {})
            /\ smidway' = (smidway \/ opening # {}) /\ Receive(d, id, throws, destroys)
        BY <3>2 DEF OnFirstRequest
      <4>2. c = d
        BY <2>1, <2>2, <4>1 DEF Receive
      <4>3. ~sdraining /\ destroys # {}
        BY <2>2, <4>1 DEF SInv, DrainsDeaf
      <4>4. QED
        BY <4>1, <4>2, <4>3 DEF Receive
    <3>3. sticks # <<>> => Head(sticks) \in Calls /\ request[Head(sticks)] = "answered"
      BY HeadTailProperties, EmptySeq, LenProperties DEF SInv, STypeOK, TicksAnswer
    <3>4. ASSUME NEW destroys, RunCompletion(destroys) PROVE FALSE
      BY <2>1, <2>2, <3>3, <3>4 DEF RunCompletion
    <3>5. ASSUME NEW d \in Calls, HandlerAnswers(d) PROVE FALSE
      BY <2>1, <2>2, <3>5 DEF HandlerAnswers
    <3>6. ASSUME request' = request PROVE FALSE
      BY <2>2, <3>6
    <3>7. QED
      BY <3>1, <3>2, <3>4, <3>5, <3>6 DEF SNext, Client, ServerUser, Completes, OnHandshake,
        SDestroy, SOnEnd, SOnFinish, STake
  <2>3. sdestroyed => Len(sout') <= Len(sout)
    <3>1. SUFFICES ASSUME sdestroyed PROVE Len(sout') <= Len(sout)
      OBVIOUS
    <3>2. slistening # "handshake"
      BY <3>1 DEF SInv, DrainsDeaf
    <3>3. sout # <<>> => Len(Tail(sout)) <= Len(sout)
      BY <2>1, HeadTailProperties
    <3>4. ASSUME NEW c \in Calls, NEW id \in SIds, NEW throws \in BOOLEAN, NEW destroys \in Destroys,
                 OnRequest(c, id, throws, destroys)
          PROVE  sout' = sout
      BY <3>1, <3>4 DEF OnRequest, Receive, EndedBy
    <3>5. ASSUME NEW destroys, RunCompletion(destroys) PROVE sout' = sout
      BY <3>1, <3>5 DEF RunCompletion, EndedBy
    <3>6. sout' = sout \/ (sout # <<>> /\ sout' = Tail(sout))
      BY <3>2, <3>4, <3>5 DEF SNext, Client, ServerUser, Completes, OnHandshake, OnFirstRequest,
        HandlerAnswers, SDestroy, SOnEnd, SOnFinish, STake
    <3>7. QED
      BY <2>1, <3>3, <3>6
  <2>4. QED
    BY <2>2, <2>3
<1>2. QED
  BY <1>1, SInvHolds, PTL DEF SSpec, DrainStopsRequests

----------------------------------------------------------------------------
(* The middleware chain: its inductive invariant.                          *)

\* Functions are kept in the order of the chain and unwound from its end.
Ordered ==
  /\ \A i, j \in 1..Len(kept) : i < j => kept[i] < kept[j]
  /\ \A i, j \in 1..Len(unwound) : i < j => unwound[i] > unwound[j]
  /\ \A i \in 1..Len(kept), j \in 1..Len(unwound) : kept[i] < unwound[j]
  /\ \A i \in 1..Len(kept) : kept[i] < reached

\* What was left for the way back is kept, or was called.
NoneLost == left = ToSet(kept) \cup ToSet(unwound)

\* The way back has called each function but the last one, which may still call back.
InTurn ==
  /\ returned \subseteq ToSet(unwound)
  /\ \A i \in 1..Len(unwound) : i < Len(unwound) => unwound[i] \in returned

\* The callback that moves the chain on is one: of the function reached, of the tick, or of
\* the function unwound last; or the call has completed.
OneMoves ==
  /\ forwarded \subseteq 1..reached /\ 1..(reached - 1) \subseteq forwarded
  /\ (reached \notin forwarded \/ turning) => unwound = <<>> /\ completions = <<>>
  /\ turning => reached \in forwarded
  /\ (unwound # <<>> /\ unwound[Len(unwound)] \notin returned) => completions = <<>>
  /\ completions # <<>> => Len(completions) = 1 /\ kept = <<>>

MInv == MTypeOK /\ Ordered /\ NoneLost /\ InTurn /\ OneMoves

----------------------------------------------------------------------------
(* Sequences.                                                              *)

LEMMA Pushed ==
  ASSUME NEW S, NEW s \in Seq(S), NEW e \in S
  PROVE  /\ Append(s, e) \in Seq(S) /\ Len(Append(s, e)) = Len(s) + 1
         /\ \A i \in 1..Len(s) : Append(s, e)[i] = s[i]
         /\ Append(s, e)[Len(s) + 1] = e
         /\ ToSet(Append(s, e)) = ToSet(s) \cup {e}
<1>1. /\ Append(s, e) \in Seq(S) /\ Len(Append(s, e)) = Len(s) + 1
      /\ \A i \in 1..Len(s) : Append(s, e)[i] = s[i]
      /\ Append(s, e)[Len(s) + 1] = e
  BY AppendProperties
<1>2. Len(s) \in Nat /\ DOMAIN s = 1..Len(s) /\ DOMAIN Append(s, e) = 1..(Len(s) + 1)
  BY <1>1, LenProperties
<1>3. \A x : x \in ToSet(Append(s, e)) <=> x \in ToSet(s) \/ x = e
  BY <1>1, <1>2 DEF ToSet
<1>4. QED
  BY <1>1, <1>3

LEMMA Popped ==
  ASSUME NEW S, NEW s \in Seq(S), s # <<>>
  PROVE  /\ Front(s) \in Seq(S) /\ Last(s) \in S
         /\ Len(s) \in Nat \ {0} /\ Len(Front(s)) = Len(s) - 1 /\ Last(s) = s[Len(s)]
         /\ \A i \in 1..Len(Front(s)) : Front(s)[i] = s[i]
         /\ ToSet(s) = ToSet(Front(s)) \cup {Last(s)}
<1>1. Len(s) \in Nat \ {0} /\ DOMAIN s = 1..Len(s) /\ Last(s) = s[Len(s)] /\ Last(s) \in S
  BY LenProperties, EmptySeq DEF Last
<1>2. /\ Front(s) \in Seq(S) /\ Len(Front(s)) = Len(s) - 1
      /\ \A i \in 1..Len(Front(s)) : Front(s)[i] = s[i]
  BY <1>1 DEF Front
<1>3. DOMAIN Front(s) = 1..(Len(s) - 1)
  BY <1>2, LenProperties
<1>4. \A x : x \in ToSet(s) <=> x \in ToSet(Front(s)) \/ x = Last(s)
  BY <1>1, <1>2, <1>3 DEF ToSet
<1>5. QED
  BY <1>1, <1>2, <1>4

----------------------------------------------------------------------------
(* The steps.                                                              *)

\* What a step to the way back needs, and what it leaves.
LEMMA BackwardKeeps ==
  ASSUME MTypeOK, Ordered, NoneLost, NEW e \in Results, Backward(e),
         completions = <<>>, UNCHANGED <<reached, left, answered>>,
         returned' = ToSet(unwound)
  PROVE  /\ kept' \in Seq(1..ChainLength) /\ unwound' \in Seq(1..ChainLength)
         /\ completions' \in Seq(Results) /\ cause' \in Results
         /\ Ordered' /\ NoneLost' /\ InTurn'
         /\ (unwound' # <<>> /\ unwound'[Len(unwound')] \notin returned') => completions' = <<>>
         /\ completions' # <<>> => Len(completions') = 1 /\ kept' = <<>>
<1> DEFINE P == 1..ChainLength
<1>1. /\ kept \in Seq(P) /\ unwound \in Seq(P) /\ completions \in Seq(Results)
      /\ Len(unwound) \in Nat /\ DOMAIN unwound = 1..Len(unwound)
  BY LenProperties DEF MTypeOK
<1>2. cause' = e
  BY DEF Backward
<1>3. CASE kept = <<>>
  <2>1. completions' = Append(completions, e) /\ UNCHANGED <<kept, unwound>>
    BY <1>3 DEF Backward
  <2>2. completions' \in Seq(Results) /\ Len(completions') = 1
    BY <1>1, <2>1, Pushed
  <2>3. Ordered' /\ NoneLost'
    BY <2>1 DEF Ordered, NoneLost
  <2>4. \A i \in 1..Len(unwound) : unwound[i] \in returned'
    BY <1>1 DEF ToSet
  <2>5. unwound # <<>> => Len(unwound) \in 1..Len(unwound)
    BY <1>1, EmptySeq
  <2>6. InTurn'
    BY <2>1, <2>4 DEF InTurn
  <2>7. QED
    BY <1>1, <1>2, <1>3, <2>1, <2>2, <2>3, <2>4, <2>5, <2>6
<1>4. CASE kept # <<>>
  <2>1. unwound' = Append(unwound, Last(kept)) /\ kept' = Front(kept) /\ completions' = completions
    BY <1>4 DEF Backward
  <2>2. /\ Front(kept) \in Seq(P) /\ Last(kept) \in P
        /\ Len(kept) \in Nat \ {0} /\ Len(kept') = Len(kept) - 1 /\ Last(kept) = kept[Len(kept)]
        /\ \A i \in 1..Len(kept') : kept'[i] = kept[i]
        /\ ToSet(kept) = ToSet(kept') \cup {Last(kept)}
    BY <1>1, <1>4, <2>1, Popped
  <2>3. /\ unwound' \in Seq(P) /\ Len(unwound') = Len(unwound) + 1
        /\ \A i \in 1..Len(unwound) : unwound'[i] = unwound[i]
        /\ unwound'[Len(unwound) + 1] = Last(kept)
        /\ ToSet(unwound') = ToSet(unwound) \cup {Last(kept)}
    BY <1>1, <2>1, <2>2, Pushed
  <2>4. NoneLost'
    BY <2>2, <2>3 DEF NoneLost
  <2>5. Ordered'
    <3>1. /\ \A i \in 1..Len(kept) : kept[i] \in Int
          /\ \A i \in 1..Len(unwound) : unwound[i] \in Int
      <4>1. P \subseteq Int
        OBVIOUS
      <4>2. \A i \in 1..Len(kept) : kept[i] \in P
        BY <1>1, ElementOfSeq
      <4>3. \A i \in 1..Len(unwound) : unwound[i] \in P
        BY <1>1, ElementOfSeq
      <4>4. QED
        BY <4>1, <4>2, <4>3
    <3>2. \A i, j \in 1..Len(kept') : i < j => kept'[i] < kept'[j]
      BY <2>2 DEF Ordered
    <3>3. \A i \in 1..Len(kept') : kept'[i] < Last(kept) /\ kept'[i] < reached'
      BY <2>2 DEF Ordered
    <3>4. \A j \in 1..Len(unwound) : Last(kept) < unwound[j]
      BY <2>2 DEF Ordered
    <3>5. \A i, j \in 1..Len(unwound') : i < j => unwound'[i] > unwound'[j]
      <4> SUFFICES ASSUME NEW i \in 1..Len(unwound'), NEW j \in 1..Len(unwound'), i < j
                   PROVE  unwound'[i] > unwound'[j]
        OBVIOUS
      <4>1. i \in 1..Len(unwound) /\ unwound'[i] = unwound[i] /\ unwound[i] \in Int
        BY <1>1, <2>3, <3>1
      <4>2. CASE j \in 1..Len(unwound)
        BY <2>3, <4>1, <4>2 DEF Ordered
      <4>3. CASE j = Len(unwound) + 1
        BY <2>2, <2>3, <3>4, <4>1, <4>3
      <4>4. QED
        BY <1>1, <2>3, <4>2, <4>3
    <3>6. \A i \in 1..Len(kept'), j \in 1..Len(unwound') : kept'[i] < unwound'[j]
      <4> SUFFICES ASSUME NEW i \in 1..Len(kept'), NEW j \in 1..Len(unwound')
                   PROVE  kept'[i] < unwound'[j]
        OBVIOUS
      <4>1. i \in 1..Len(kept) /\ kept'[i] = kept[i]
        BY <2>2
      <4>2. CASE j \in 1..Len(unwound)
        BY <2>3, <4>1, <4>2 DEF Ordered
      <4>3. CASE j = Len(unwound) + 1
        BY <2>3, <3>3, <4>3
      <4>4. QED
        BY <1>1, <2>3, <4>2, <4>3
    <3>7. QED
      BY <3>2, <3>3, <3>5, <3>6 DEF Ordered
  <2>6. InTurn'
    BY <1>1, <2>3 DEF InTurn, ToSet
  <2>7. QED
    BY <1>1, <1>2, <2>1, <2>2, <2>3, <2>4, <2>5, <2>6
<1>5. QED
  BY <1>3, <1>4

LEMMA DuplicateKeeps == ASSUME MInv, Duplicate PROVE MInv'
<1>1. duplicates' \in 0..MaxDuplicates
  BY ChainAssumption DEF MInv, MTypeOK, Duplicate
<1>2. QED
  BY <1>1 DEF MInv, MTypeOK, Ordered, NoneLost, InTurn, OneMoves, Duplicate

\* A function of the chain calls back for the first time: it is the one reached.
LEMMA ForwardKeeps ==
  ASSUME MInv, NEW i \in 1..ChainLength, NEW e \in Results, NEW keeps \in BOOLEAN,
         ForwardCallback(i, e, keeps)
  PROVE  MInv'
<1>1. CASE i \in forwarded
  BY <1>1, DuplicateKeeps DEF ForwardCallback
<1>2. CASE i \notin forwarded
  <2>1. /\ i = reached /\ reached \in Nat /\ i < Handler /\ ChainLength \in Nat
    BY <1>2, ChainAssumption DEF MInv, MTypeOK, OneMoves, ForwardCallback, Handler
  <2>2. /\ forwarded' = forwarded \cup {i} /\ UNCHANGED <<turning, returned, answered, duplicates>>
        /\ unwound = <<>> /\ completions = <<>> /\ ~turning /\ returned = {}
    BY <1>2, <2>1 DEF ForwardCallback, MInv, OneMoves, InTurn, ToSet
  <2>3. CASE Stops(e)
    <3>1. Backward(e) /\ UNCHANGED <<reached, left>>
      BY <1>2, <2>3 DEF ForwardCallback
    <3>2. returned' = ToSet(unwound)
      BY <2>2 DEF ToSet
    <3>3. /\ kept' \in Seq(1..ChainLength) /\ unwound' \in Seq(1..ChainLength)
          /\ completions' \in Seq(Results) /\ cause' \in Results
          /\ Ordered' /\ NoneLost' /\ InTurn'
          /\ (unwound' # <<>> /\ unwound'[Len(unwound')] \notin returned') => completions' = <<>>
          /\ completions' # <<>> => Len(completions') = 1 /\ kept' = <<>>
      BY <2>2, <3>1, <3>2, BackwardKeeps DEF MInv
    <3>4. MTypeOK'
      BY <2>1, <2>2, <3>1, <3>3 DEF MInv, MTypeOK, Handler
    <3>5. OneMoves'
      BY <2>1, <2>2, <3>1, <3>3 DEF MInv, OneMoves
    <3>6. QED
      BY <3>3, <3>4, <3>5 DEF MInv
  <2>4. CASE ~Stops(e)
    <3>1. /\ reached' = i + 1 /\ UNCHANGED <<unwound, completions, cause>>
          /\ \/ kept' = Append(kept, i) /\ left' = left \cup {i}
             \/ kept' = kept /\ left' = left
      BY <1>2, <2>4 DEF ForwardCallback
    <3>2. kept \in Seq(1..ChainLength) /\ Len(kept) \in Nat
      BY LenProperties DEF MInv, MTypeOK
    <3>3. kept' \in Seq(1..ChainLength) /\ NoneLost'
      <4>1. CASE kept' = Append(kept, i) /\ left' = left \cup {i}
        <5>1. kept' \in Seq(1..ChainLength) /\ ToSet(kept') = ToSet(kept) \cup {i}
          <6> DEFINE P == 1..ChainLength
          <6>1. kept \in Seq(P) /\ i \in P
            BY <3>2
          <6> HIDE DEF P
          <6>2. Append(kept, i) \in Seq(P) /\ ToSet(Append(kept, i)) = ToSet(kept) \cup {i}
            BY <6>1, Pushed
          <6>3. QED
            BY <4>1, <6>2 DEF P
        <5>2. QED
          BY <3>1, <4>1, <5>1 DEF MInv, NoneLost
      <4>2. CASE kept' = kept /\ left' = left
        BY <3>1, <3>2, <4>2 DEF MInv, NoneLost
      <4>3. QED
        BY <3>1, <4>1, <4>2
    <3>4. Ordered'
      <4>1. Len(unwound') = 0
        BY <2>2, <3>1
      <4>2. /\ \A k \in 1..Len(kept) : kept[k] \in Int /\ kept[k] < i
            /\ \A k, l \in 1..Len(kept) : k < l => kept[k] < kept[l]
        BY <2>1, <3>2 DEF MInv, Ordered
      <4>3. CASE kept' = kept
        BY <2>1, <3>1, <4>1, <4>2, <4>3 DEF Ordered
      <4>4. CASE kept' = Append(kept, i)
        <5>1. /\ Len(kept') = Len(kept) + 1 /\ kept'[Len(kept) + 1] = i
              /\ \A k \in 1..Len(kept) : kept'[k] = kept[k]
          BY <3>2, <4>4, Pushed
        <5>2. QED
          <6>1. \A k \in 1..Len(kept') : k \in 1..Len(kept) \/ k = Len(kept) + 1
            BY <3>2, <5>1
          <6>2. \A k \in 1..Len(kept') : kept'[k] \in Int /\ kept'[k] < reached'
            BY <2>1, <3>1, <4>2, <5>1, <6>1
          <6>3. \A k, l \in 1..Len(kept') : k < l => kept'[k] < kept'[l]
            <7> SUFFICES ASSUME NEW k \in 1..Len(kept'), NEW l \in 1..Len(kept'), k < l
                         PROVE  kept'[k] < kept'[l]
              OBVIOUS
            <7>1. k \in 1..Len(kept)
              BY <3>2, <5>1
            <7>2. QED
              BY <4>2, <5>1, <6>1, <7>1
          <6>4. QED
            BY <4>1, <6>2, <6>3 DEF Ordered
      <4>5. QED
        BY <3>1, <4>3, <4>4
    <3>5. MTypeOK'
      <4>1. reached' \in 1..Handler /\ forwarded' \subseteq 1..Handler
        BY <2>1, <2>2, <3>1 DEF MInv, MTypeOK, Handler
      <4>2. left' \subseteq 1..ChainLength
        BY <3>1 DEF MInv, MTypeOK
      <4>3. QED
        BY <2>2, <3>1, <3>3, <4>1, <4>2 DEF MInv, MTypeOK
    <3>6. OneMoves' /\ InTurn'
      BY <2>1, <2>2, <3>1 DEF MInv, OneMoves, InTurn
    <3>7. QED
      BY <3>3, <3>4, <3>5, <3>6 DEF MInv
  <2>5. QED
    BY <2>3, <2>4
<1>3. QED
  BY <1>1, <1>2

\* The handler calls back for the first time: a tick will turn the chain.
LEMMA HandlerKeeps == ASSUME MInv, NEW e \in Results, HandlerCallback(e) PROVE MInv'
<1>1. CASE HandlerDone
  BY <1>1, DuplicateKeeps DEF HandlerCallback
<1>2. CASE ~HandlerDone
  <2>1. /\ reached = Handler /\ reached \notin forwarded /\ forwarded' = forwarded \cup {Handler}
        /\ cause' = e /\ turning' = TRUE /\ reached \in Nat
        /\ UNCHANGED <<reached, kept, left, unwound, returned, answered, completions, duplicates>>
    BY <1>2, ChainAssumption DEF HandlerCallback, HandlerDone, Handler
  <2>2. MTypeOK'
    BY <2>1, ChainAssumption DEF MInv, MTypeOK, Handler
  <2>3. Ordered' /\ NoneLost' /\ InTurn'
    BY <2>1 DEF MInv, Ordered, NoneLost, InTurn
  <2>4. OneMoves'
    <3>1. reached \in 1..reached
      BY ChainAssumption, <2>1 DEF Handler
    <3>2. unwound = <<>> /\ completions = <<>>
      BY <2>1 DEF MInv, OneMoves
    <3>3. QED
      BY <2>1, <3>1, <3>2 DEF MInv, OneMoves
  <2>5. QED
    BY <2>2, <2>3, <2>4 DEF MInv
<1>3. QED
  BY <1>1, <1>2

LEMMA TurnKeeps == ASSUME MInv, Turn PROVE MInv'
<1>1. /\ turning /\ turning' = FALSE /\ Backward(cause) /\ cause \in Results
      /\ UNCHANGED <<reached, forwarded, left, returned, answered, duplicates>>
      /\ unwound = <<>> /\ completions = <<>> /\ reached \in forwarded
  BY DEF Turn, MInv, MTypeOK, OneMoves
<1>2. returned' = ToSet(unwound)
  BY <1>1 DEF MInv, InTurn, ToSet
<1>3. /\ kept' \in Seq(1..ChainLength) /\ unwound' \in Seq(1..ChainLength)
      /\ completions' \in Seq(Results) /\ cause' \in Results
      /\ Ordered' /\ NoneLost' /\ InTurn'
      /\ (unwound' # <<>> /\ unwound'[Len(unwound')] \notin returned') => completions' = <<>>
      /\ completions' # <<>> => Len(completions') = 1 /\ kept' = <<>>
  BY <1>1, <1>2, BackwardKeeps DEF MInv
<1>4. MTypeOK'
  BY <1>1, <1>3 DEF MInv, MTypeOK
<1>5. OneMoves'
  BY <1>1, <1>3 DEF MInv, OneMoves
<1>6. QED
  BY <1>3, <1>4, <1>5 DEF MInv

\* A function of the way back calls back for the first time: it is the one called last.
LEMMA BackwardCallbackKeeps ==
  ASSUME MInv, NEW i \in 1..ChainLength, NEW e \in Results, BackwardCallback(i, e)
  PROVE  MInv'
<1>1. CASE i \in returned
  BY <1>1, DuplicateKeeps DEF BackwardCallback
<1>2. CASE i \notin returned
  <2>1. /\ i \in ToSet(unwound) /\ returned' = returned \cup {i} /\ Backward(e)
        /\ UNCHANGED <<reached, forwarded, left, turning, answered, duplicates>>
    BY <1>2 DEF BackwardCallback
  <2>2. Len(unwound) \in Nat /\ DOMAIN unwound = 1..Len(unwound)
    BY LenProperties DEF MInv, MTypeOK
  <2>3. unwound # <<>> /\ i = unwound[Len(unwound)]
    BY <1>2, <2>1, <2>2 DEF MInv, InTurn, ToSet
  <2>4. returned' = ToSet(unwound)
    BY <2>1, <2>2, <2>3 DEF MInv, InTurn, ToSet
  <2>5. completions = <<>> /\ ~turning /\ reached \in forwarded
    BY <1>2, <2>3 DEF MInv, MTypeOK, OneMoves
  <2>6. /\ kept' \in Seq(1..ChainLength) /\ unwound' \in Seq(1..ChainLength)
        /\ completions' \in Seq(Results) /\ cause' \in Results
        /\ Ordered' /\ NoneLost' /\ InTurn'
        /\ (unwound' # <<>> /\ unwound'[Len(unwound')] \notin returned') => completions' = <<>>
        /\ completions' # <<>> => Len(completions') = 1 /\ kept' = <<>>
    BY <2>1, <2>4, <2>5, BackwardKeeps DEF MInv
  <2>7. MTypeOK'
    BY <2>1, <2>6 DEF MInv, MTypeOK
  <2>8. OneMoves'
    BY <2>1, <2>5, <2>6 DEF MInv, OneMoves
  <2>9. QED
    BY <2>6, <2>7, <2>8 DEF MInv
<1>3. QED
  BY <1>1, <1>2

----------------------------------------------------------------------------
(* The theorems.                                                           *)

LEMMA MInvInitially == MInit => MInv
<1> SUFFICES ASSUME MInit PROVE MInv
  OBVIOUS
<1>1. /\ kept = <<>> /\ unwound = <<>> /\ completions = <<>> /\ left = {} /\ forwarded = {}
      /\ returned = {} /\ ~turning /\ reached = 1
  BY DEF MInit
<1>2. MTypeOK
  <2>1. 1 \in 1..Handler /\ 0 \in 0..MaxDuplicates /\ cause \in Results
    BY ChainAssumption DEF MInit, Handler, Results
  <2>2. kept \in Seq(1..ChainLength) /\ unwound \in Seq(1..ChainLength) /\ completions \in Seq(Results)
    BY <1>1, EmptySeq
  <2>3. QED
    BY <2>1, <2>2 DEF MInit, MTypeOK
<1>3. Ordered
  BY <1>1 DEF Ordered
<1>4. NoneLost /\ InTurn
  BY <1>1 DEF NoneLost, InTurn, ToSet
<1>5. OneMoves
  BY <1>1 DEF OneMoves
<1>6. QED
  BY <1>2, <1>3, <1>4, <1>5 DEF MInv

LEMMA MInvStep == MInv /\ [MNext]_chainVars => MInv'
<1> SUFFICES ASSUME MInv, [MNext]_chainVars PROVE MInv'
  OBVIOUS
<1>1. ASSUME NEW i \in 1..ChainLength, NEW e \in Results, NEW keeps \in BOOLEAN,
             ForwardCallback(i, e, keeps)
      PROVE  MInv'
  BY <1>1, ForwardKeeps
<1>2. ASSUME NEW i \in 1..ChainLength, NEW e \in Results, BackwardCallback(i, e) PROVE MInv'
  BY <1>2, BackwardCallbackKeeps
<1>3. ASSUME NEW e \in Results, HandlerCallback(e) PROVE MInv'
  BY <1>3, HandlerKeeps
<1>4. CASE Turn
  BY <1>4, TurnKeeps
<1>5. CASE SetResponse
  BY <1>5 DEF SetResponse, MInv, MTypeOK, Ordered, NoneLost, InTurn, OneMoves
<1>6. CASE UNCHANGED chainVars
  BY <1>6 DEF chainVars, MInv, MTypeOK, Ordered, NoneLost, InTurn, OneMoves
<1>7. QED
  BY <1>1, <1>2, <1>3, <1>4, <1>5, <1>6 DEF MNext

\* In every state of every chain one callback at most moves it on.
THEOREM MInvHolds == MSpec => []MInv
BY MInvInitially, MInvStep, PTL DEF MSpec

\* What the invariant says of a call that has completed.
LEMMA InvUnwinds == MInv => CompletesUnwound
<1> SUFFICES ASSUME MInv PROVE CompletesUnwound
  OBVIOUS
<1>1. /\ Len(unwound) \in Nat /\ DOMAIN unwound = 1..Len(unwound) /\ completions \in Seq(Results)
  BY LenProperties DEF MInv, MTypeOK
<1>2. completions # <<>> => kept = <<>> /\ returned = left
  <2>1. SUFFICES ASSUME completions # <<>> PROVE returned = ToSet(unwound) /\ kept = <<>>
    BY DEF MInv, NoneLost, ToSet
  <2>2. unwound # <<>> => unwound[Len(unwound)] \in returned
    BY <2>1 DEF MInv, OneMoves
  <2>3. \A i \in 1..Len(unwound) : unwound[i] \in returned
    BY <1>1, <2>2 DEF MInv, InTurn
  <2>4. QED
    BY <1>1, <2>1, <2>3 DEF MInv, InTurn, OneMoves, ToSet
<1>3. Len(completions) <= 1
  <2>1. CASE completions = <<>>
    BY <2>1
  <2>2. CASE completions # <<>>
    <3>1. Len(completions) = 1
      BY <2>2 DEF MInv, OneMoves
    <3>2. QED
      BY <3>1
  <2>3. QED
    BY <2>1, <2>2
<1>4. QED
  BY <1>1, <1>2, <1>3 DEF CompletesUnwound, MInv, Ordered

\* A call completes once, after every function left for the way back has been called, the last
\* left first, and has called back; and the handler is not called once a response is set.
THEOREM EveryChainUnwinds == MSpec => ChainUnwinds
<1>1. MInv /\ [MNext]_chainVars =>
        [answered /\ reached # Handler => reached' # Handler]_chainVars
  <2> SUFFICES ASSUME MInv, MNext, answered, reached # Handler PROVE reached' # Handler
    BY DEF chainVars
  <2>1. ASSUME NEW i \in 1..ChainLength, NEW e \in Results, NEW keeps \in BOOLEAN,
               ForwardCallback(i, e, keeps)
        PROVE  reached' # Handler
    BY <2>1 DEF ForwardCallback, Stops, Duplicate
  <2>2. ASSUME NEW i \in 1..ChainLength, NEW e \in Results, BackwardCallback(i, e)
        PROVE  reached' # Handler
    BY <2>2 DEF BackwardCallback, Duplicate
  <2>3. ASSUME NEW e \in Results, HandlerCallback(e) PROVE reached' # Handler
    BY <2>3 DEF HandlerCallback
  <2>4. QED
    BY <2>1, <2>2, <2>3 DEF MNext, Turn, SetResponse
<1>2. QED
  BY <1>1, MInvHolds, InvUnwinds, PTL DEF MSpec, ChainUnwinds

----------------------------------------------------------------------------
(* Stateless channels: what holds of each call.                            *)

HTicks == {"start", "emit", "settle"} \X AllCalls
Statuses == {"new", "starting", "sent", "settled", "done"}
HOutcomes == {"none", "response", "failed", "timeout", "interrupted", "destroyed", "invalid"}
Exchanges ==
  [at : {"none", "request", "handling", "answering", "answered", "over"},
   full : BOOLEAN, refused : BOOLEAN, writable : BOOLEAN, draining : BOOLEAN, gone : BOOLEAN]

HTyped ==
  /\ hstatus \in [AllCalls -> Statuses]
  /\ houtcome \in [AllCalls -> HOutcomes]
  /\ hregistry \in Seq(AllCalls) /\ Distinct(hregistry)
  /\ hticks \in Seq(HTicks)
  /\ ex \in [AllCalls -> Exchanges]
  /\ received \in [AllCalls -> {0, 1}]
  /\ hpending \in Int

Waits(kind, c) == Contains(hticks, <<kind, c>>)

\* A call is given an outcome when it is settled; it is registered between the two; each
\* tick finds it where it was when the tick was queued, and starts come but once.
ClientFitsCall(c) ==
  /\ houtcome[c] = "none" <=> hstatus[c] \in {"new", "starting", "sent"}
  /\ Contains(hregistry, c) => hstatus[c] = "sent"
  /\ Waits("start", c) => hstatus[c] = "starting"
  /\ Waits("settle", c) => hstatus[c] \in {"settled", "done"}
  /\ Once(hticks, <<"start", c>>) /\ Once(hticks, <<"emit", c>>)

\* No exchange has begun for the call.
NotBegun(c) == ex[c].at = "none" /\ received[c] = 0

\* A request is received once if it was not refused, and not before it is sent; it is sent
\* (again) only while there is no exchange and it was not received, and never after the
\* caller was told that it was not sent.
ExchangeFitsCall(c) ==
  /\ hstatus[c] \in {"new", "starting"} => NotBegun(c) /\ ~Waits("emit", c)
  /\ houtcome[c] \in {"invalid", "destroyed"} => NotBegun(c) /\ ~Waits("emit", c)
  /\ Waits("emit", c) => ex[c].at \in {"none", "over"} /\ received[c] = 0
  /\ ex[c].at = "request" => received[c] = 0 /\ ~ex[c].refused
  /\ ex[c].at = "handling" => received[c] = 1 /\ ~ex[c].refused
  /\ ex[c].at \in {"answering", "answered"} => (received[c] = 0 <=> ex[c].refused)

HCallFits(c) == ClientFitsCall(c) /\ ExchangeFitsCall(c)

\* The calls that are waited for are counted; one that is settled is until its tick, which
\* comes once.  The ping has no tick.
Open == {d \in AllCalls : hstatus[d] \notin {"new", "done"}}

CountFits ==
  /\ IsFiniteSet(Open) /\ hpending = Cardinality(Open)
  /\ \A d \in AllCalls : /\ Once(hticks, <<"settle", d>>)
                         /\ Waits("settle", d) => hstatus[d] = "settled"
  /\ ~Waits("settle", Ping)

StatelessInv == HTyped /\ CountFits /\ \A c \in AllCalls : HCallFits(c)

----------------------------------------------------------------------------
(* The abstract state and its steps.                                       *)

HSeen == {c \in HCalls : received[c] > 0}
SamePhases == \A c \in HCalls : PhaseOf(c)' = PhaseOf(c)
SameResults == \A c \in HCalls : ResultOf(c)' = ResultOf(c)
Implements == [Contract!Next]_(Contract!absVars)

LEMMA PhaseValues ==
  ASSUME NEW c
  PROVE  /\ hstatus[c] = "new" => PhaseOf(c) = "idle"
         /\ hstatus[c] = "done" => PhaseOf(c) = "finished"
         /\ hstatus[c] \notin {"new", "done"} => PhaseOf(c) = "waiting"
         /\ hstatus'[c] = "new" => PhaseOf(c)' = "idle"
         /\ hstatus'[c] = "done" => PhaseOf(c)' = "finished"
         /\ hstatus'[c] \notin {"new", "done"} => PhaseOf(c)' = "waiting"
  BY Zenon DEF PhaseOf

LEMMA ResultValues ==
  ASSUME NEW c \in AllCalls, HTyped, HTyped'
  PROVE  /\ houtcome[c] = "none" <=> ResultOf(c) = "none"
         /\ ResultOf(c) = "unsent" <=> houtcome[c] \in {"invalid", "destroyed"}
         /\ houtcome'[c] = houtcome[c] => ResultOf(c)' = ResultOf(c)
         /\ houtcome'[c] = "response" => ResultOf(c)' = "ok"
         /\ houtcome'[c] \in {"invalid", "destroyed"} => ResultOf(c)' = "unsent"
         /\ houtcome'[c] \in {"failed", "timeout", "interrupted"} => ResultOf(c)' = "lost"
<1>1. ~(received[c] > 1) /\ ~(received'[c] > 1)
  <2>1. received[c] \in {0, 1} /\ received'[c] \in {0, 1}
    BY DEF HTyped
  <2>2. QED
    BY <2>1
<1>2. houtcome[c] \in HOutcomes /\ houtcome'[c] \in HOutcomes
  BY DEF HTyped
<1>3. /\ ResultOf(c) = IF houtcome[c] = "none" THEN "none"
                       ELSE IF houtcome[c] = "response" THEN "ok"
                       ELSE IF houtcome[c] \in {"invalid", "destroyed"} THEN "unsent" ELSE "lost"
      /\ ResultOf(c)' = IF houtcome'[c] = "none" THEN "none"
                        ELSE IF houtcome'[c] = "response" THEN "ok"
                        ELSE IF houtcome'[c] \in {"invalid", "destroyed"} THEN "unsent" ELSE "lost"
  BY Zenon, <1>1 DEF ResultOf
<1>4. QED
  BY <1>2, <1>3 DEF HOutcomes

LEMMA StepStutters ==
  ASSUME SamePhases, SameResults, HSeen' = HSeen
  PROVE  Implements
  BY DEF SamePhases, SameResults, HSeen, Implements, Contract!absVars

LEMMA StepMakes ==
  ASSUME NEW c \in HCalls, PhaseOf(c) = "idle", PhaseOf(c)' = "waiting",
         \A e \in HCalls \ {c} : PhaseOf(e)' = PhaseOf(e), SameResults, HSeen' = HSeen
  PROVE  Implements
<1>1. Contract!Make(c)
  BY DEF SameResults, HSeen, Contract!Make
<1>2. QED
  BY <1>1 DEF Implements, Contract!Next

LEMMA StepTakes ==
  ASSUME NEW c \in HCalls, PhaseOf(c) # "idle", ResultOf(c) # "unsent", c \notin HSeen,
         HSeen' = HSeen \cup {c}, SamePhases, SameResults
  PROVE  Implements
<1>1. Contract!Take(c)
  BY DEF SamePhases, SameResults, HSeen, Contract!Take
<1>2. QED
  BY <1>1 DEF Implements, Contract!Next

LEMMA StepFinishes ==
  ASSUME NEW c \in HCalls, PhaseOf(c) = "waiting", ResultOf(c) # "none", PhaseOf(c)' = "finished",
         \A e \in HCalls \ {c} : PhaseOf(e)' = PhaseOf(e), SameResults, HSeen' = HSeen
  PROVE  Implements
<1>1. Contract!Finish(c)
  BY DEF SameResults, HSeen, Contract!Finish
<1>2. QED
  BY <1>1 DEF Implements, Contract!Next

LEMMA StepSettles ==
  ASSUME NEW c \in HCalls, PhaseOf(c) = "waiting", ResultOf(c) = "none",
         \/ ResultOf(c)' = "ok" /\ c \in HSeen
         \/ ResultOf(c)' = "unsent" /\ c \notin HSeen,
         \A e \in HCalls \ {c} : ResultOf(e)' = ResultOf(e), SamePhases, HSeen' = HSeen
  PROVE  Implements
<1>1. Contract!Settle(c, ResultOf(c)')
  BY DEF SamePhases, HSeen, Contract!Settle
<1>2. ResultOf(c)' \in {"ok", "unsent"}
  OBVIOUS
<1>3. QED
  BY <1>1, <1>2 DEF Implements, Contract!Next

LEMMA StepLoses ==
  ASSUME NEW S \in SUBSET HCalls, \A c \in S : PhaseOf(c) = "waiting" /\ ResultOf(c) = "none",
         \A c \in HCalls : ResultOf(c)' = (IF c \in S THEN "lost" ELSE ResultOf(c)),
         SamePhases, HSeen' = HSeen
  PROVE  Implements
<1>1. CASE S = {}
  BY <1>1, StepStutters DEF SameResults
<1>2. CASE S # {}
  <2>1. Contract!Lose(S)
    BY <1>2 DEF SamePhases, HSeen, Contract!Lose
  <2>2. QED
    BY <2>1 DEF Implements, Contract!Next
<1>3. QED
  BY <1>1, <1>2

----------------------------------------------------------------------------
(* Settling calls.                                                         *)

\* What the queue holds once a tick may have been taken from it.
LeftTicks(rest) ==
  /\ rest \in Seq(HTicks)
  /\ \A t : Contains(rest, t) => Contains(hticks, t)
  /\ \A t : Once(hticks, t) => Once(rest, t)

\* A tick that settles a call is queued once more for the calls of S but the ping, which is
\* taken off the count at once.
Counts(S, rest) ==
  /\ \A d \in AllCalls : Once(rest, <<"settle", d>>) /\ ~(d \in S /\ Contains(rest, <<"settle", d>>))
                          => Once(hticks', <<"settle", d>>)
  /\ Contains(hticks', <<"settle", Ping>>) => Contains(rest, <<"settle", Ping>>)
  /\ hpending' = IF Ping \in S THEN hpending - 1 ELSE hpending

\* The calls of S are settled, c with kind and the others as interrupted.  A tick is queued
\* for none but them, and none of them stays registered.
Settles(S, c, kind, rest) ==
  /\ hstatus' = [d \in AllCalls |-> IF d \notin S THEN hstatus[d]
                                    ELSE IF d = Ping THEN "done" ELSE "settled"]
  /\ houtcome' = [d \in AllCalls |-> IF d \notin S THEN houtcome[d]
                                     ELSE IF d = c THEN kind ELSE "interrupted"]
  /\ hregistry' \in Seq(AllCalls) /\ Distinct(hregistry')
  /\ \A d : Contains(hregistry', d) => Contains(hregistry, d) /\ d \notin S
  /\ hticks' \in Seq(HTicks)
  /\ \A d \in AllCalls :
       /\ Contains(hticks', <<"settle", d>>) => Contains(rest, <<"settle", d>>) \/ d \in S
       /\ \A step \in {"start", "emit"} :
            /\ Contains(hticks', <<step, d>>) => Contains(rest, <<step, d>>)
            /\ Once(rest, <<step, d>>) => Once(hticks', <<step, d>>)
  /\ Counts(S, rest)

\* The queue as it is, and without the tick that runs.
LEMMA TicksLeft ==
  ASSUME HTyped
  PROVE  /\ LeftTicks(hticks)
         /\ \A t : hticks # <<>> /\ Head(hticks) = t =>
              /\ LeftTicks(Tail(hticks)) /\ Contains(hticks, t)
              /\ Once(hticks, t) => ~Contains(Tail(hticks), t)
<1>1. hticks \in Seq(HTicks)
  BY DEF HTyped
<1>2. QED
  BY <1>1, Dequeued DEF LeftTicks

\* The registry is emptied and its calls, but for the ping, are settled in the next tick.
LEMMA InterruptLeaves ==
  ASSUME HTyped, NEW pings, NEW rest, LeftTicks(rest), Interrupt(pings, rest)
  PROVE  /\ \A d : Contains(Others, d) <=> Contains(hregistry, d) /\ d # Ping
         /\ hregistry' \in Seq(AllCalls) /\ Distinct(hregistry') /\ \A d : ~Contains(hregistry', d)
         /\ hticks' \in Seq(HTicks)
         /\ \A d \in AllCalls :
              /\ Contains(hticks', <<"settle", d>>) =>
                   Contains(rest, <<"settle", d>>) \/ Contains(Others, d)
              /\ \A step \in {"start", "emit"} :
                   /\ Contains(hticks', <<step, d>>) => Contains(rest, <<step, d>>)
                   /\ Once(rest, <<step, d>>) => Once(hticks', <<step, d>>)
         /\ \A d \in AllCalls :
              /\ Once(rest, <<"settle", d>>) /\ ~Contains(Others, d) => Once(hticks', <<"settle", d>>)
              /\ ~Contains(rest, <<"settle", d>>) => Once(hticks', <<"settle", d>>)
<1> DEFINE u == SettleTicks(Others)
<1>1. hregistry \in Seq(AllCalls) /\ Distinct(hregistry) /\ rest \in Seq(HTicks)
  BY DEF HTyped, LeftTicks
<1>2. /\ Others \in Seq(AllCalls) /\ Distinct(Others)
      /\ \A d : Contains(Others, d) <=> Contains(hregistry, d) /\ d # Ping
  BY <1>1, RemovedFirst DEF Others
<1>3. /\ Len(Others) \in Nat /\ DOMAIN Others = 1..Len(Others)
      /\ \A i \in 1..Len(Others) : Others[i] \in AllCalls
  BY <1>2
<1>4. /\ u \in Seq(HTicks) /\ Len(u) = Len(Others)
      /\ \A i \in 1..Len(u) : u[i] = <<"settle", Others[i]>>
  BY <1>3 DEF SettleTicks, HTicks
<1>5. \A t : Contains(u, t) => \E d : t = <<"settle", d>> /\ Contains(Others, d)
  BY <1>3, <1>4 DEF Contains
<1> HIDE DEF u
<1>6. hregistry' = <<>> /\ hticks' = rest \o u
  BY DEF Interrupt, u
<1>7. hregistry' \in Seq(AllCalls) /\ Distinct(hregistry') /\ \A d : ~Contains(hregistry', d)
  BY <1>6 DEF Distinct, Contains
<1>8. /\ hticks' \in Seq(HTicks)
      /\ \A t : Contains(hticks', t) <=> Contains(rest, t) \/ Contains(u, t)
      /\ \A t : Once(rest, t) /\ ~Contains(u, t) => Once(hticks', t)
  BY <1>1, <1>4, <1>6, Joined
<1>9. ASSUME NEW d, NEW step \in {"start", "emit"} PROVE ~Contains(u, <<step, d>>)
  <2>1. SUFFICES ASSUME NEW e, <<step, d>> = <<"settle", e>> PROVE FALSE
    BY <1>5
  <2>2. step = "settle"
    BY <2>1
  <2>3. QED
    BY <2>2
<1>10. ASSUME NEW d, Contains(u, <<"settle", d>>) PROVE Contains(Others, d)
  <2>1. PICK e : <<"settle", d>> = <<"settle", e>> /\ Contains(Others, e)
    BY <1>5, <1>10
  <2>2. d = e
    BY <2>1
  <2>3. QED
    BY <2>1, <2>2
<1>11. \A d : Once(u, <<"settle", d>>)
  <2>1. SUFFICES ASSUME NEW d, NEW i \in 1..Len(u), NEW j \in 1..Len(u),
                        u[i] = <<"settle", d>>, u[j] = <<"settle", d>>
                 PROVE  i = j
    BY DEF Once
  <2>2. Others[i] = d /\ Others[j] = d
    BY <1>4, <2>1
  <2>3. QED
    BY <1>2, <1>4, <2>2 DEF Distinct
<1>12. ASSUME NEW d, ~Contains(rest, <<"settle", d>>) PROVE Once(hticks', <<"settle", d>>)
  BY <1>1, <1>4, <1>6, <1>11, <1>12, JoinedOnce
<1>13. QED
  BY <1>2, <1>7, <1>8, <1>9, <1>10, <1>12

LEMMA PingFailureSettles ==
  ASSUME HTyped, NEW kind, NEW rest, LeftTicks(rest), PingFailed(kind, rest)
  PROVE  Settles({Ping} \cup {d \in AllCalls : Contains(hregistry, d)}, Ping, kind, rest)
<1> DEFINE S == {Ping} \cup {d \in AllCalls : Contains(hregistry, d)}
<1>1. /\ \A d : Contains(Others, d) <=> Contains(hregistry, d) /\ d # Ping
      /\ hregistry' \in Seq(AllCalls) /\ Distinct(hregistry') /\ \A d : ~Contains(hregistry', d)
      /\ hticks' \in Seq(HTicks)
      /\ \A d \in AllCalls :
           /\ Contains(hticks', <<"settle", d>>) =>
                Contains(rest, <<"settle", d>>) \/ Contains(Others, d)
           /\ \A step \in {"start", "emit"} :
                /\ Contains(hticks', <<step, d>>) => Contains(rest, <<step, d>>)
                /\ Once(rest, <<step, d>>) => Once(hticks', <<step, d>>)
      /\ \A d \in AllCalls :
           /\ Once(rest, <<"settle", d>>) /\ ~Contains(Others, d) => Once(hticks', <<"settle", d>>)
           /\ ~Contains(rest, <<"settle", d>>) => Once(hticks', <<"settle", d>>)
  BY InterruptLeaves DEF PingFailed
<1>2. \A d \in AllCalls : d \in S <=> d = Ping \/ Contains(Others, d)
  BY <1>1
<1>3. hstatus' = [d \in AllCalls |-> IF d \notin S THEN hstatus[d]
                                     ELSE IF d = Ping THEN "done" ELSE "settled"]
  BY <1>1, <1>2 DEF PingFailed
<1>4. houtcome' = [d \in AllCalls |-> IF d \notin S THEN houtcome[d]
                                      ELSE IF d = Ping THEN kind ELSE "interrupted"]
  BY <1>1, <1>2 DEF PingFailed
<1>5. Counts(S, rest)
  <2>1. hpending' = hpending - 1 /\ Ping \in S /\ Ping \in AllCalls
    BY DEF PingFailed, Interrupt, AllCalls
  <2> HIDE DEF S
  <2>2. QED
    BY <1>1, <1>2, <2>1 DEF Counts
<1> HIDE DEF S
<1>7. Settles(S, Ping, kind, rest)
  BY <1>1, <1>2, <1>3, <1>4, <1>5 DEF Settles
<1>8. QED
  BY <1>7 DEF S

\* Whom a call that is resumed takes along: all that is registered, if it is the ping and
\* fails.
Resumed(c, kind) ==
  {c} \cup (IF c = Ping /\ kind # "response" THEN {d \in AllCalls : Contains(hregistry, d)} ELSE {})

LEMMA ResumeSettles ==
  ASSUME HTyped, NEW c \in AllCalls, NEW kind, NEW rest, LeftTicks(rest), Resume(c, kind, rest)
  PROVE  Settles(Resumed(c, kind), c, kind, rest)
<1>0. hregistry \in Seq(AllCalls) /\ Distinct(hregistry) /\ rest \in Seq(HTicks)
  BY DEF HTyped, LeftTicks
<1>1. CASE c # Ping
  <2>1. /\ Given({c}, kind) /\ hticks' = Append(rest, <<"settle", c>>)
        /\ hregistry' = RemoveFirst(hregistry, c) /\ hpending' = hpending
    BY <1>1 DEF Resume
  <2>2. /\ hregistry' \in Seq(AllCalls) /\ Distinct(hregistry')
        /\ \A d : Contains(hregistry', d) <=> Contains(hregistry, d) /\ d # c
    BY <1>0, <2>1, RemovedFirst
  <2>3. <<"settle", c>> \in HTicks
    BY DEF HTicks
  <2>4. /\ hticks' \in Seq(HTicks)
        /\ \A t : Contains(hticks', t) <=> Contains(rest, t) \/ t = <<"settle", c>>
        /\ \A t : Once(rest, t) /\ t # <<"settle", c>> => Once(hticks', t)
        /\ ~Contains(rest, <<"settle", c>>) => Once(hticks', <<"settle", c>>)
    BY <1>0, <2>1, <2>3, Enqueued
  <2>5. Resumed(c, kind) = {c}
    BY <1>1 DEF Resumed
  <2>6. /\ hstatus' = [d \in AllCalls |-> IF d \notin {c} THEN hstatus[d]
                                          ELSE IF d = Ping THEN "done" ELSE "settled"]
        /\ houtcome' = [d \in AllCalls |-> IF d \notin {c} THEN houtcome[d]
                                           ELSE IF d = c THEN kind ELSE "interrupted"]
    BY <2>1 DEF Given
  <2>7. \A d, e : \A step \in {"start", "emit"} :
          <<step, d>> # <<"settle", e>> /\ (<<"settle", d>> = <<"settle", e>> => d = e)
    OBVIOUS
  <2>8. Counts({c}, rest)
    <3>1. Ping \in AllCalls /\ Ping \notin {c}
      BY <1>1 DEF AllCalls
    <3>2. QED
      BY <2>1, <2>4, <2>7, <3>1 DEF Counts
  <2>9. Settles({c}, c, kind, rest)
    BY <2>2, <2>4, <2>6, <2>7, <2>8 DEF Settles
  <2>10. QED
    BY <2>5, <2>9
<1>2. CASE c = Ping /\ kind # "response"
  <2>1. PingFailed(kind, rest)
    BY <1>2 DEF Resume
  <2>2. QED
    BY <1>2, <2>1, PingFailureSettles DEF Resumed
<1>3. CASE c = Ping /\ kind = "response"
  <2>1. Given({Ping}, kind) /\ hticks' = rest /\ hregistry' = Others /\ hpending' = hpending - 1
    BY <1>3 DEF Resume
  <2>2. /\ hregistry' \in Seq(AllCalls) /\ Distinct(hregistry')
        /\ \A d : Contains(hregistry', d) <=> Contains(hregistry, d) /\ d # Ping
    BY <1>0, <2>1, RemovedFirst DEF Others
  <2>3. Resumed(c, kind) = {Ping}
    BY <1>3 DEF Resumed
  <2>4. /\ hstatus' = [d \in AllCalls |-> IF d \notin {Ping} THEN hstatus[d]
                                          ELSE IF d = Ping THEN "done" ELSE "settled"]
        /\ houtcome' = [d \in AllCalls |-> IF d \notin {Ping} THEN houtcome[d]
                                           ELSE IF d = Ping THEN kind ELSE "interrupted"]
    BY <2>1 DEF Given
  <2>5. Counts({Ping}, rest)
    BY <2>1 DEF Counts
  <2>6. Settles({Ping}, Ping, kind, rest)
    BY <1>0, <2>1, <2>2, <2>4, <2>5 DEF Settles
  <2>7. QED
    BY <1>3, <2>3, <2>6
<1>4. QED
  BY <1>1, <1>2, <1>3

\* Calls that are settled were registered, or c is told before it is sent.
MaySettle(S, c, kind, rest) ==
  \A d \in S :
    \/ Contains(hregistry, d) /\ (d = c => kind \notin {"invalid", "destroyed"})
    \/ d = c /\ hstatus[c] = "starting" /\ ~Contains(rest, <<"start", c>>)

\* Calls are settled only while they wait and have no outcome; what the client knows of each
\* fits together afterwards, and fits the exchanges that stayed as they were.
LEMMA SettlingKeepsCalls ==
  ASSUME StatelessInv, NEW S \in SUBSET AllCalls, NEW c \in AllCalls,
         NEW kind \in HOutcomes \ {"none"}, NEW rest, LeftTicks(rest),
         MaySettle(S, c, kind, rest), Settles(S, c, kind, rest)
  PROVE  /\ hstatus' \in [AllCalls -> Statuses] /\ houtcome' \in [AllCalls -> HOutcomes]
         /\ \A d \in S : hstatus[d] \in {"starting", "sent"} /\ houtcome[d] = "none"
         /\ \A d \in AllCalls :
              /\ ClientFitsCall(d)'
              /\ ex'[d] = ex[d] /\ received'[d] = received[d] => ExchangeFitsCall(d)'
<1>0. HTyped /\ \A d \in AllCalls : HCallFits(d)
  BY DEF StatelessInv
<1>1. hstatus' \in [AllCalls -> Statuses] /\ houtcome' \in [AllCalls -> HOutcomes]
  <2>1. \A d \in AllCalls : hstatus[d] \in Statuses /\ houtcome[d] \in HOutcomes
    BY <1>0 DEF HTyped
  <2>2. {"done", "settled"} \subseteq Statuses /\ "interrupted" \in HOutcomes /\ kind \in HOutcomes
    BY DEF Statuses, HOutcomes
  <2>3. QED
    BY <2>1, <2>2 DEF Settles
<1>2. ASSUME NEW d \in S PROVE hstatus[d] \in {"starting", "sent"} /\ houtcome[d] = "none"
  BY <1>0 DEF MaySettle, HCallFits, ClientFitsCall
<1>3. ASSUME NEW d \in AllCalls PROVE ClientFitsCall(d)'
  <2>0. ClientFitsCall(d) /\ Waits("start", d)' = Contains(hticks', <<"start", d>>)
        /\ Waits("settle", d)' = Contains(hticks', <<"settle", d>>)
    BY <1>0 DEF HCallFits, Waits
  <2>1. Once(hticks, <<"start", d>>) /\ Once(hticks, <<"emit", d>>)
    BY <2>0 DEF ClientFitsCall
  <2>2. Once(hticks', <<"start", d>>) /\ Once(hticks', <<"emit", d>>)
    BY <2>1 DEF LeftTicks, Settles
  <2>3. CASE d \notin S
    <3>1. /\ hstatus'[d] = hstatus[d] /\ houtcome'[d] = houtcome[d]
          /\ Contains(hregistry', d) => Contains(hregistry, d)
          /\ Contains(hticks', <<"start", d>>) => Waits("start", d)
          /\ Contains(hticks', <<"settle", d>>) => Waits("settle", d)
      BY <2>3 DEF Settles, LeftTicks, Waits
    <3>2. QED
      BY <2>0, <2>2, <3>1 DEF ClientFitsCall
  <2>4. CASE d \in S
    <3>1. /\ hstatus'[d] \in {"done", "settled"} /\ houtcome'[d] # "none"
          /\ ~Contains(hregistry', d)
      BY <2>4, <1>0 DEF Settles, HOutcomes
    <3>2. ~Contains(rest, <<"start", d>>)
      <4>1. CASE d = c /\ hstatus[c] = "starting" /\ ~Contains(rest, <<"start", c>>)
        BY <4>1
      <4>2. CASE Contains(hregistry, d)
        BY <2>0, <4>2 DEF ClientFitsCall, LeftTicks, Waits
      <4>3. QED
        BY <2>4, <4>1, <4>2 DEF MaySettle
    <3>3. ~Contains(hticks', <<"start", d>>)
      BY <3>2 DEF Settles
    <3>4. QED
      BY <2>0, <2>2, <3>1, <3>3 DEF ClientFitsCall
  <2>5. QED
    BY <2>3, <2>4
<1>4. ASSUME NEW d \in AllCalls, ex'[d] = ex[d], received'[d] = received[d]
      PROVE  ExchangeFitsCall(d)'
  <2>1. ExchangeFitsCall(d)
    BY <1>0 DEF HCallFits
  <2>2. Waits("emit", d)' => Waits("emit", d)
    BY DEF Waits, Settles, LeftTicks
  <2>3. hstatus'[d] \in {"new", "starting"} => hstatus[d] \in {"new", "starting"}
    BY DEF Settles
  <2>4. houtcome'[d] \in {"invalid", "destroyed"} =>
          houtcome[d] \in {"invalid", "destroyed"} \/ hstatus[d] \in {"new", "starting"}
    BY DEF Settles, MaySettle
  <2>5. NotBegun(d)' <=> NotBegun(d)
    BY <1>4 DEF NotBegun
  <2>6. QED
    BY <1>4, <2>1, <2>2, <2>3, <2>4, <2>5 DEF ExchangeFitsCall
<1>5. QED
  BY <1>1, <1>2, <1>3, <1>4

LEMMA SettlingImplements ==
  ASSUME StatelessInv, NEW S \in SUBSET AllCalls, NEW c \in AllCalls,
         NEW kind \in HOutcomes \ {"none"}, NEW rest, LeftTicks(rest),
         MaySettle(S, c, kind, rest), Settles(S, c, kind, rest), HTyped', HSeen' = HSeen,
         \/ c = Ping \/ kind \in {"failed", "timeout", "interrupted"}
         \/ S \subseteq {c} /\ c \in HSeen /\ kind = "response"
         \/ S \subseteq {c} /\ c \notin HSeen /\ kind \in {"invalid", "destroyed"}
  PROVE  Implements
<1>0. HTyped
  BY DEF StatelessInv
<1>1. \A d \in S : hstatus[d] \in {"starting", "sent"} /\ houtcome[d] = "none"
  BY SettlingKeepsCalls
<1>2. \A d \in HCalls : d \in AllCalls /\ d # Ping
  BY StatelessAssumption DEF AllCalls
<1>3. \A d \in S \ {Ping} : d \in HCalls
  BY DEF AllCalls
<1>4. SamePhases
  <2>1. ASSUME NEW d \in HCalls PROVE PhaseOf(d)' = PhaseOf(d)
    <3>1. CASE d \notin S
      <4>1. hstatus'[d] = hstatus[d]
        BY <1>2, <3>1 DEF Settles
      <4>2. QED
        BY <4>1, PhaseValues
    <3>2. CASE d \in S
      <4>1. hstatus'[d] = "settled"
        BY <1>2, <3>2 DEF Settles
      <4>2. QED
        BY <1>1, <3>2, <4>1, PhaseValues
    <3>3. QED
      BY <3>1, <3>2
  <2>2. QED
    BY <2>1 DEF SamePhases
<1>5. \A d \in HCalls \ S : ResultOf(d)' = ResultOf(d)
  <2>1. ASSUME NEW d \in HCalls \ S PROVE ResultOf(d)' = ResultOf(d)
    <3>1. d \in AllCalls /\ houtcome'[d] = houtcome[d]
      BY <1>2 DEF Settles
    <3>2. QED
      BY <1>0, <3>1, ResultValues
  <2>2. QED
    BY <2>1
<1>6. \A d \in S \ {Ping} : PhaseOf(d) = "waiting" /\ ResultOf(d) = "none"
  <2>1. ASSUME NEW d \in S \ {Ping} PROVE PhaseOf(d) = "waiting" /\ ResultOf(d) = "none"
    BY <1>0, <1>1, PhaseValues, ResultValues
  <2>2. QED
    BY <2>1
<1>7. \A d \in S \ {Ping} : houtcome'[d] = (IF d = c THEN kind ELSE "interrupted")
  BY DEF Settles
<1>8. CASE c = Ping \/ kind \in {"failed", "timeout", "interrupted"}
  <2>1. ASSUME NEW d \in S \ {Ping} PROVE ResultOf(d)' = "lost"
    <3>1. houtcome'[d] \in {"failed", "timeout", "interrupted"}
      BY <1>7, <1>8
    <3>2. QED
      BY <1>0, <3>1, ResultValues
  <2>2. S \ {Ping} \in SUBSET HCalls
    BY <1>3
  <2>3. \A d \in HCalls : ResultOf(d)' = (IF d \in S \ {Ping} THEN "lost" ELSE ResultOf(d))
    BY <1>2, <1>5, <2>1
  <2>4. QED
    BY <1>4, <1>6, <2>2, <2>3, StepLoses
<1>9. CASE S = {} \/ c = Ping
  <2>1. CASE S = {}
    BY <1>4, <1>5, <2>1, StepStutters DEF SameResults
  <2>2. QED
    BY <1>8, <1>9, <2>1
<1>10. CASE S = {c} /\ c # Ping /\ c \in HSeen /\ kind = "response"
  <2>1. c \in HCalls /\ ResultOf(c)' = "ok"
    BY <1>0, <1>3, <1>7, <1>10, ResultValues
  <2>2. \A d \in HCalls \ {c} : ResultOf(d)' = ResultOf(d)
    BY <1>5, <1>10
  <2>3. QED
    BY <1>4, <1>6, <1>10, <2>1, <2>2, StepSettles
<1>11. CASE S = {c} /\ c # Ping /\ c \notin HSeen /\ kind \in {"invalid", "destroyed"}
  <2>1. c \in HCalls /\ ResultOf(c)' = "unsent"
    <3>1. houtcome'[c] \in {"invalid", "destroyed"}
      BY <1>7, <1>11
    <3>2. QED
      BY <1>0, <1>3, <1>11, <3>1, ResultValues
  <2>2. \A d \in HCalls \ {c} : ResultOf(d)' = ResultOf(d)
    BY <1>5, <1>11
  <2>3. QED
    BY <1>4, <1>6, <1>11, <2>1, <2>2, StepSettles
<1>12. QED
  BY <1>8, <1>9, <1>10, <1>11

----------------------------------------------------------------------------
(* Steps that settle calls.                                                *)

\* Exchanges stay as they are, or come to an end.
ExchangesEnd ==
  /\ ex' \in [AllCalls -> Exchanges]
  /\ \A d \in AllCalls : ex'[d] = ex[d] \/ (ex[d].at \notin {"none", "over"} /\ ex'[d].at = "over")

\* A step that opens and closes no call, and settles none, leaves the count as it is.
LEMMA CountStays ==
  ASSUME CountFits, hpending' = hpending,
         \A d \in AllCalls : hstatus[d] \in {"new", "done"} <=> hstatus'[d] \in {"new", "done"},
         \A d \in AllCalls : hstatus[d] = "settled" => hstatus'[d] = "settled",
         \A d : Waits("settle", d)' => Waits("settle", d),
         \A d \in AllCalls : Once(hticks, <<"settle", d>>) => Once(hticks', <<"settle", d>>)
  PROVE  CountFits'
<1>1. Open' = Open
  BY DEF Open
<1>2. QED
  BY <1>1 DEF CountFits

\* The calls that are settled stay open, but for the ping.
LEMMA SettlingCounts ==
  ASSUME HTyped, CountFits, NEW S \in SUBSET AllCalls, NEW c, NEW kind, NEW rest, LeftTicks(rest),
         Settles(S, c, kind, rest), \A d \in S : hstatus[d] \in {"starting", "sent"}
  PROVE  CountFits'
<1>1. Ping \in AllCalls /\ Counts(S, rest)
  BY DEF AllCalls, Settles
<1>2. \A d \in AllCalls : hstatus'[d] = IF d \notin S THEN hstatus[d] ELSE IF d = Ping THEN "done" ELSE "settled"
  BY DEF Settles
<1>3. IsFiniteSet(Open') /\ hpending' = Cardinality(Open')
  <2>1. CASE Ping \in S
    <3>1. Open' = Open \ {Ping} /\ Ping \in Open
      BY <1>1, <1>2, <2>1 DEF Open
    <3>2. IsFiniteSet(Open \ {Ping}) /\ Cardinality(Open \ {Ping}) = Cardinality(Open) - 1
      BY <3>1, FS_RemoveElement DEF CountFits
    <3>3. QED
      BY <1>1, <2>1, <3>1, <3>2 DEF Counts, CountFits
  <2>2. CASE Ping \notin S
    <3>1. Open' = Open
      BY <1>1, <1>2, <2>2 DEF Open
    <3>2. QED
      BY <1>1, <2>2, <3>1 DEF Counts, CountFits
  <2>3. QED
    BY <2>1, <2>2
<1>4. ASSUME NEW d \in AllCalls
      PROVE  Once(hticks', <<"settle", d>>) /\ (Waits("settle", d)' => hstatus'[d] = "settled")
  <2>1. /\ Once(rest, <<"settle", d>>)
        /\ Contains(rest, <<"settle", d>>) => hstatus[d] = "settled" /\ d \notin S
    BY DEF CountFits, LeftTicks, Waits
  <2>2. Once(hticks', <<"settle", d>>)
    BY <1>1, <2>1 DEF Counts
  <2>3. ASSUME Waits("settle", d)' PROVE hstatus'[d] = "settled"
    <3>1. Contains(rest, <<"settle", d>>) \/ d \in S
      BY <2>3 DEF Settles, Waits
    <3>2. d = Ping => Contains(rest, <<"settle", d>>)
      BY <1>1, <2>3 DEF Counts, Waits
    <3>3. QED
      BY <1>2, <2>1, <3>1, <3>2
  <2>4. QED
    BY <2>2, <2>3
<1>5. ~Waits("settle", Ping)'
  BY <1>1 DEF Counts, CountFits, LeftTicks, Waits
<1>6. QED
  BY <1>3, <1>4, <1>5 DEF CountFits

LEMMA SettlingStep ==
  ASSUME StatelessInv, NEW S \in SUBSET AllCalls, NEW c \in AllCalls,
         NEW kind \in HOutcomes \ {"none"}, NEW rest, LeftTicks(rest),
         MaySettle(S, c, kind, rest), Settles(S, c, kind, rest),
         received' = received, ExchangesEnd,
         \/ c = Ping \/ kind \in {"failed", "timeout", "interrupted"}
         \/ S \subseteq {c} /\ received[c] > 0 /\ kind = "response"
         \/ S \subseteq {c} /\ ~(received[c] > 0) /\ kind \in {"invalid", "destroyed"}
  PROVE  StatelessInv' /\ Implements
<1>0. HTyped /\ \A d \in AllCalls : HCallFits(d)
  BY DEF StatelessInv
<1>1. /\ hstatus' \in [AllCalls -> Statuses] /\ houtcome' \in [AllCalls -> HOutcomes]
      /\ \A d \in S : hstatus[d] \in {"starting", "sent"} /\ houtcome[d] = "none"
      /\ \A d \in AllCalls :
           /\ ClientFitsCall(d)'
           /\ ex'[d] = ex[d] /\ received'[d] = received[d] => ExchangeFitsCall(d)'
  BY SettlingKeepsCalls
<1>2. HTyped' /\ CountFits'
  <2>1. hpending' \in Int
    BY <1>0 DEF HTyped, Settles, Counts
  <2>2. HTyped'
    BY <1>0, <1>1, <2>1 DEF HTyped, Settles, ExchangesEnd
  <2>3. CountFits'
    BY <1>0, <1>1, SettlingCounts DEF StatelessInv
  <2>4. QED
    BY <2>2, <2>3
<1>3. ASSUME NEW d \in AllCalls, ex[d].at \notin {"none", "over"}, ex'[d].at = "over"
      PROVE  ExchangeFitsCall(d)'
  <2>1. ExchangeFitsCall(d) /\ ~NotBegun(d)
    BY <1>0, <1>3 DEF HCallFits, NotBegun
  <2>2. /\ ~Waits("emit", d) /\ hstatus[d] \notin {"new", "starting"}
        /\ houtcome[d] \notin {"invalid", "destroyed"}
    BY <1>3, <2>1 DEF ExchangeFitsCall
  <2>3. ~Waits("emit", d)'
    BY <2>2 DEF Waits, Settles, LeftTicks
  <2>4. hstatus'[d] \notin {"new", "starting"} /\ houtcome'[d] \notin {"invalid", "destroyed"}
    BY <2>2 DEF Settles, MaySettle
  <2>5. QED
    BY <1>3, <2>3, <2>4 DEF ExchangeFitsCall
<1>4. \A d \in AllCalls : HCallFits(d)'
  BY <1>1, <1>3 DEF HCallFits, ExchangesEnd
<1>5. HSeen' = HSeen
  BY DEF HSeen
<1>6. c \in HCalls \/ c = Ping
  BY DEF AllCalls
<1>7. c \in HCalls => (c \in HSeen <=> received[c] > 0)
  BY DEF HSeen
<1>8. \/ c = Ping \/ kind \in {"failed", "timeout", "interrupted"}
      \/ S \subseteq {c} /\ c \in HSeen /\ kind = "response"
      \/ S \subseteq {c} /\ c \notin HSeen /\ kind \in {"invalid", "destroyed"}
  BY <1>6, <1>7
<1>9. Implements
  BY <1>2, <1>5, <1>8, SettlingImplements
<1>10. QED
  BY <1>2, <1>4, <1>9 DEF StatelessInv

\* Nobody is settled: only a tick may have been taken from the queue.
LEMMA NobodySettled ==
  ASSUME HTyped, NEW c, NEW kind, NEW rest, LeftTicks(rest), hticks' = rest,
         hstatus' = hstatus, houtcome' = houtcome, hregistry' = hregistry, hpending' = hpending
  PROVE  Settles({}, c, kind, rest) /\ MaySettle({}, c, kind, rest)
<1>1. Counts({}, rest)
  BY DEF Counts
<1>2. QED
  BY <1>1 DEF HTyped, LeftTicks, Settles, MaySettle

\* A callback settles its call, and those that go with it, or does nothing.
LEMMA CallbackSettles ==
  ASSUME StatelessInv, NEW c \in AllCalls, NEW kind \in {"response", "failed", "timeout"},
         NEW rest, LeftTicks(rest), HCallback(c, kind, rest)
  PROVE  \E S \in SUBSET AllCalls :
           /\ Settles(S, c, kind, rest) /\ MaySettle(S, c, kind, rest)
           /\ kind = "response" => S \subseteq {c}
<1>0. HTyped
  BY DEF StatelessInv
<1>1. CASE Contains(hregistry, c)
  <2>1. Resume(c, kind, rest)
    BY <1>1 DEF HCallback
  <2>2. Settles(Resumed(c, kind), c, kind, rest)
    BY <1>0, <2>1, ResumeSettles
  <2>3. Resumed(c, kind) \in SUBSET AllCalls /\ (kind = "response" => Resumed(c, kind) \subseteq {c})
    BY DEF Resumed
  <2>4. MaySettle(Resumed(c, kind), c, kind, rest)
    BY <1>1 DEF MaySettle, Resumed
  <2>5. QED
    BY <2>2, <2>3, <2>4
<1>2. CASE ~Contains(hregistry, c)
  <2>1. /\ hticks' = rest /\ hstatus' = hstatus /\ houtcome' = houtcome /\ hregistry' = hregistry
        /\ hpending' = hpending
    BY <1>2 DEF HCallback
  <2>2. Settles({}, c, kind, rest) /\ MaySettle({}, c, kind, rest)
    BY <1>0, <2>1, NobodySettled
  <2>3. QED
    BY <2>2
<1>3. QED
  BY <1>1, <1>2

\* A callback that runs as its exchange ends, or while the exchanges stay as they are.
LEMMA CallbackStep ==
  ASSUME StatelessInv, NEW c \in AllCalls, NEW kind \in {"response", "failed", "timeout"},
         NEW rest, LeftTicks(rest), HCallback(c, kind, rest),
         received' = received, ExchangesEnd, kind = "response" => received[c] > 0
  PROVE  StatelessInv' /\ Implements
<1>1. PICK S \in SUBSET AllCalls :
        /\ Settles(S, c, kind, rest) /\ MaySettle(S, c, kind, rest)
        /\ kind = "response" => S \subseteq {c}
  BY CallbackSettles
<1>2. kind \in HOutcomes \ {"none"}
  BY DEF HOutcomes
<1>3. QED
  BY <1>1, <1>2, SettlingStep

LEMMA DestroySteps ==
  ASSUME StatelessInv, NEW noWait \in BOOLEAN, HDestroy(noWait)
  PROVE  StatelessInv' /\ Implements
<1>0. HTyped /\ LeftTicks(hticks) /\ Ping \in AllCalls /\ "interrupted" \in HOutcomes \ {"none"}
  BY TicksLeft DEF StatelessInv, AllCalls, HOutcomes
<1>1. received' = received /\ ExchangesEnd
  BY <1>0 DEF HDestroy, serverEnd, ExchangesEnd, HTyped
<1>2. SUFFICES \E S \in SUBSET AllCalls :
                 Settles(S, Ping, "interrupted", hticks) /\ MaySettle(S, Ping, "interrupted", hticks)
  BY <1>0, <1>1, SettlingStep
<1>3. CASE noWait /\ Contains(hregistry, Ping)
  <2>1. PingFailed("interrupted", hticks)
    BY <1>3 DEF HDestroy
  <2>2. Settles({Ping} \cup {d \in AllCalls : Contains(hregistry, d)}, Ping, "interrupted", hticks)
    BY <1>0, <2>1, PingFailureSettles
  <2>3. MaySettle({Ping} \cup {d \in AllCalls : Contains(hregistry, d)}, Ping, "interrupted", hticks)
    BY <1>3 DEF MaySettle
  <2>4. QED
    BY <1>0, <2>2, <2>3
<1>4. CASE noWait /\ ~Contains(hregistry, Ping)
  <2> DEFINE S == {d \in AllCalls : Contains(hregistry, d)}
  <2>1. Interrupt(0, hticks) /\ Given(ToSet(hregistry), "interrupted")
    BY <1>4 DEF HDestroy
  <2>2. hregistry \in Seq(AllCalls)
    BY <1>0 DEF HTyped
  <2>3. \A d : d \in ToSet(hregistry) <=> d \in S
    BY <2>2 DEF ToSet, Contains
  <2>4. /\ \A d : Contains(Others, d) <=> Contains(hregistry, d) /\ d # Ping
        /\ hregistry' \in Seq(AllCalls) /\ Distinct(hregistry') /\ \A d : ~Contains(hregistry', d)
        /\ hticks' \in Seq(HTicks)
        /\ \A d \in AllCalls :
             /\ Contains(hticks', <<"settle", d>>) =>
                  Contains(hticks, <<"settle", d>>) \/ Contains(Others, d)
             /\ \A step \in {"start", "emit"} :
                  /\ Contains(hticks', <<step, d>>) => Contains(hticks, <<step, d>>)
                  /\ Once(hticks, <<step, d>>) => Once(hticks', <<step, d>>)
        /\ \A d \in AllCalls :
             /\ Once(hticks, <<"settle", d>>) /\ ~Contains(Others, d) => Once(hticks', <<"settle", d>>)
             /\ ~Contains(hticks, <<"settle", d>>) => Once(hticks', <<"settle", d>>)
    BY <1>0, <2>1, InterruptLeaves
  <2>5. /\ hstatus' = [d \in AllCalls |-> IF d \notin S THEN hstatus[d]
                                          ELSE IF d = Ping THEN "done" ELSE "settled"]
        /\ houtcome' = [d \in AllCalls |-> IF d \notin S THEN houtcome[d]
                                           ELSE IF d = Ping THEN "interrupted" ELSE "interrupted"]
    <3>1. ToSet(hregistry) = S
      BY <2>3
    <3> HIDE DEF S
    <3>2. QED
      BY <2>1, <3>1 DEF Given
  <2>6. \A d \in AllCalls : Contains(Others, d) => d \in S
    BY <2>4
  <2>7. MaySettle(S, Ping, "interrupted", hticks)
    BY DEF MaySettle
  <2>11. Ping \notin S /\ hpending' = hpending
    <3>1. hpending' = hpending - 0 /\ hpending \in Int
      BY <1>0, <2>1 DEF Interrupt, HTyped
    <3>2. QED
      BY <1>4, <3>1
  <2> HIDE DEF S
  <2>12. Counts(S, hticks)
    BY <1>0, <2>4, <2>6, <2>11 DEF Counts
  <2>8. Settles(S, Ping, "interrupted", hticks)
    BY <2>4, <2>5, <2>6, <2>12 DEF Settles
  <2>9. S \in SUBSET AllCalls
    BY DEF S
  <2>10. QED
    BY <2>7, <2>8, <2>9
<1>5. CASE ~noWait
  <2>1. /\ hticks' = hticks /\ hstatus' = hstatus /\ houtcome' = houtcome /\ hregistry' = hregistry
        /\ hpending' = hpending
    BY <1>5 DEF HDestroy
  <2>2. QED
    BY <1>0, <2>1, NobodySettled
<1>6. QED
  BY <1>3, <1>4, <1>5

LEMMA TimeoutSteps ==
  ASSUME StatelessInv, NEW c \in AllCalls, HTimeout(c)
  PROVE  StatelessInv' /\ Implements
<1>1. HTyped /\ LeftTicks(hticks)
  BY TicksLeft DEF StatelessInv
<1>2. received' = received /\ ExchangesEnd
  BY <1>1 DEF HTimeout, serverEnd, ExchangesEnd, HTyped
<1>3. QED
  BY <1>1, <1>2, CallbackStep DEF HTimeout

LEMMA FailureSteps ==
  ASSUME StatelessInv, NEW c \in AllCalls, HExchangeFails(c)
  PROVE  StatelessInv' /\ Implements
<1>1. HTyped /\ LeftTicks(hticks)
  BY TicksLeft DEF StatelessInv
<1>2. [NoExchange EXCEPT !.at = "over"] \in Exchanges /\ [NoExchange EXCEPT !.at = "over"].at = "over"
  BY DEF NoExchange, Exchanges
<1>3. received' = received /\ ExchangesEnd
  BY <1>1, <1>2 DEF HExchangeFails, ExchangesEnd, HTyped
<1>4. CASE HCallback(c, "failed", hticks)
  BY <1>1, <1>3, <1>4, CallbackStep
<1>5. CASE UNCHANGED clientVars
  <2>1. Settles({}, c, "failed", hticks) /\ MaySettle({}, c, "failed", hticks)
    BY <1>1, <1>5, NobodySettled DEF clientVars
  <2>2. "failed" \in HOutcomes \ {"none"}
    BY DEF HOutcomes
  <2>3. QED
    BY <1>1, <1>3, <2>1, <2>2, SettlingStep
<1>6. QED
  BY <1>4, <1>5 DEF HExchangeFails

LEMMA StartSteps ==
  ASSUME StatelessInv, NEW c \in AllCalls, HStart(c)
  PROVE  StatelessInv' /\ Implements
<1> DEFINE rest == Tail(hticks)
<1>0. HTyped /\ \A d \in AllCalls : HCallFits(d)
  BY DEF StatelessInv
<1>1. ClientFitsCall(c) /\ ExchangeFitsCall(c)
  BY <1>0 DEF HCallFits
<1>2. hticks # <<>> /\ Head(hticks) = <<"start", c>>
  BY DEF HStart, Running
<1>3. /\ LeftTicks(rest) /\ Contains(hticks, <<"start", c>>)
      /\ Once(hticks, <<"start", c>>) => ~Contains(rest, <<"start", c>>)
  BY <1>0, <1>2, TicksLeft
<1>4. hstatus[c] = "starting" /\ ~Contains(rest, <<"start", c>>)
  BY <1>1, <1>3 DEF ClientFitsCall, Waits
<1>5. NotBegun(c) /\ ~Waits("emit", c)
  BY <1>1, <1>4 DEF ExchangeFitsCall
<1>6. received' = received /\ ex' = ex
  BY DEF HStart, serverEnd
<1> HIDE DEF rest
<1>7. ASSUME NEW kind \in {"destroyed", "invalid"}, Resume(c, kind, rest)
      PROVE  StatelessInv' /\ Implements
  <2>1. Settles(Resumed(c, kind), c, kind, rest)
    BY <1>0, <1>3, <1>7, ResumeSettles
  <2>2. /\ Resumed(c, kind) \in SUBSET AllCalls /\ (c # Ping => Resumed(c, kind) \subseteq {c})
        /\ kind \in HOutcomes \ {"none"}
    BY DEF Resumed, HOutcomes
  <2>3. MaySettle(Resumed(c, kind), c, kind, rest)
    BY <1>4 DEF MaySettle, Resumed
  <2>4. ExchangesEnd
    BY <1>0, <1>6 DEF ExchangesEnd, HTyped
  <2>5. ~(received[c] > 0)
    BY <1>5 DEF NotBegun
  <2>6. QED
    BY <1>3, <1>6, <2>1, <2>2, <2>3, <2>4, <2>5, SettlingStep
<1>8. ASSUME /\ hstatus' = [hstatus EXCEPT ![c] = "sent"]
             /\ hregistry' = Append(hregistry, c)
             /\ hticks' = Append(rest, <<"emit", c>>)
             /\ houtcome' = houtcome /\ hpending' = hpending
      PROVE  StatelessInv' /\ Implements
  <2>1. hregistry \in Seq(AllCalls) /\ Distinct(hregistry) /\ rest \in Seq(HTicks)
        /\ <<"emit", c>> \in HTicks
    BY <1>0, <1>3 DEF HTyped, LeftTicks, HTicks
  <2>2. /\ hregistry' \in Seq(AllCalls)
        /\ \A d : Contains(hregistry', d) <=> Contains(hregistry, d) \/ d = c
    BY <1>8, <2>1, Enqueued
  <2>3. ~Contains(hregistry, c)
    BY <1>1, <1>4 DEF ClientFitsCall
  <2>4. Distinct(hregistry')
    BY <1>8, <2>1, <2>3, AppendProperties, LenProperties DEF Distinct, Contains
  <2>5. /\ hticks' \in Seq(HTicks)
        /\ \A t : Contains(hticks', t) <=> Contains(rest, t) \/ t = <<"emit", c>>
        /\ \A t : Once(rest, t) /\ t # <<"emit", c>> => Once(hticks', t)
        /\ ~Contains(rest, <<"emit", c>>) => Once(hticks', <<"emit", c>>)
    BY <1>8, <2>1, Enqueued
  <2>6. ~Contains(rest, <<"emit", c>>)
    BY <1>3, <1>5 DEF LeftTicks, Waits
  <2>7. HTyped' /\ CountFits'
    <3>1. HTyped'
      BY <1>0, <1>6, <1>8, <2>2, <2>4, <2>5 DEF HTyped, Statuses
    <3>2. \A d \in AllCalls : hstatus'[d] = IF d = c THEN "sent" ELSE hstatus[d]
      BY <1>0, <1>8 DEF HTyped
    <3>3. \A d : Contains(hticks', <<"settle", d>>) => Contains(hticks, <<"settle", d>>)
      BY <1>3, <2>5 DEF LeftTicks
    <3>4. \A d : Once(hticks, <<"settle", d>>) => Once(hticks', <<"settle", d>>)
      BY <1>3, <2>5 DEF LeftTicks
    <3>7. /\ \A d \in AllCalls : hstatus[d] \in {"new", "done"} <=> hstatus'[d] \in {"new", "done"}
          /\ \A d \in AllCalls : hstatus[d] = "settled" => hstatus'[d] = "settled"
      BY <1>4, <3>2
    <3>8. \A d : Waits("settle", d)' => Waits("settle", d)
      BY <3>3 DEF Waits
    <3>5. CountFits'
      BY <1>8, <3>4, <3>7, <3>8, CountStays DEF StatelessInv
    <3>6. QED
      BY <3>1, <3>5
  <2>8. ASSUME NEW d \in AllCalls PROVE ClientFitsCall(d)'
    <3>1. ClientFitsCall(d)
      BY <1>0 DEF HCallFits
    <3>2. hstatus'[d] = IF d = c THEN "sent" ELSE hstatus[d]
      BY <1>0, <1>8 DEF HTyped
    <3>3. \A e : <<"start", d>> # <<"emit", e>> /\ <<"settle", d>> # <<"emit", e>>
                 /\ (<<"emit", d>> = <<"emit", e>> => d = e)
      OBVIOUS
    <3>4. Once(rest, <<"start", d>>) /\ Once(rest, <<"emit", d>>)
      BY <1>3, <3>1 DEF ClientFitsCall, LeftTicks
    <3>5. Once(hticks', <<"start", d>>) /\ Once(hticks', <<"emit", d>>)
      BY <2>5, <2>6, <3>3, <3>4
    <3>6. /\ Contains(hticks', <<"start", d>>) => Waits("start", d) /\ d # c
          /\ Contains(hticks', <<"settle", d>>) => Waits("settle", d)
      BY <1>3, <1>4, <2>5, <3>3 DEF LeftTicks, Waits
    <3>7. ~Waits("settle", c)
      BY <1>1, <1>4 DEF ClientFitsCall
    <3>8. /\ Waits("start", d)' = Contains(hticks', <<"start", d>>)
          /\ Waits("settle", d)' = Contains(hticks', <<"settle", d>>)
      BY DEF Waits
    <3>9. QED
      BY <1>4, <1>8, <2>2, <3>1, <3>2, <3>5, <3>6, <3>7, <3>8 DEF ClientFitsCall
  <2>9. ASSUME NEW d \in AllCalls PROVE ExchangeFitsCall(d)'
    <3>1. ExchangeFitsCall(d)
      BY <1>0 DEF HCallFits
    <3>2. hstatus'[d] = IF d = c THEN "sent" ELSE hstatus[d]
      BY <1>0, <1>8 DEF HTyped
    <3>3. Waits("emit", d)' => Waits("emit", d) \/ d = c
      BY <1>3, <2>5 DEF LeftTicks, Waits
    <3>4. NotBegun(d)' <=> NotBegun(d)
      BY <1>6 DEF NotBegun
    <3>5. houtcome[c] = "none"
      BY <1>1, <1>4 DEF ClientFitsCall
    <3>6. QED
      BY <1>5, <1>6, <1>8, <3>1, <3>2, <3>3, <3>4, <3>5 DEF ExchangeFitsCall, NotBegun
  <2>10. StatelessInv'
    BY <2>7, <2>8, <2>9 DEF StatelessInv, HCallFits
  <2>11. SamePhases
    <3>1. ASSUME NEW d \in HCalls PROVE PhaseOf(d)' = PhaseOf(d)
      <4>1. hstatus'[d] = IF d = c THEN "sent" ELSE hstatus[d]
        BY <1>0, <1>8 DEF HTyped, AllCalls
      <4>2. QED
        BY <1>4, <4>1, PhaseValues
    <3>2. QED
      BY <3>1 DEF SamePhases
  <2>12. SameResults
    <3>1. \A d \in HCalls : d \in AllCalls
      BY DEF AllCalls
    <3>2. QED
      BY <1>0, <1>8, <2>7, <3>1, ResultValues DEF SameResults
  <2>13. HSeen' = HSeen
    BY <1>6 DEF HSeen
  <2>14. QED
    BY <2>10, <2>11, <2>12, <2>13, StepStutters
<1>9. \/ Resume(c, "destroyed", rest) \/ Resume(c, "invalid", rest)
      \/ /\ hstatus' = [hstatus EXCEPT ![c] = "sent"]
         /\ hregistry' = Append(hregistry, c)
         /\ hticks' = Append(rest, <<"emit", c>>)
         /\ houtcome' = houtcome /\ hpending' = hpending
  BY DEF HStart, rest
<1>10. QED
  BY <1>7, <1>8, <1>9

----------------------------------------------------------------------------
(* Steps that settle nobody.                                               *)

\* The phases and results of calls whose status is the same to the caller.
LEMMA SameToCaller ==
  ASSUME HTyped, HTyped', hstatus' = hstatus, houtcome' = houtcome, received' = received
  PROVE  Implements
<1>1. \A d \in HCalls : d \in AllCalls
  BY DEF AllCalls
<1>2. SamePhases
  BY PhaseValues DEF SamePhases
<1>3. SameResults
  BY <1>1, ResultValues DEF SameResults
<1>4. HSeen' = HSeen
  BY DEF HSeen
<1>5. QED
  BY <1>2, <1>3, <1>4, StepStutters

\* A call: its start is queued.
LEMMA CallSteps ==
  ASSUME StatelessInv, NEW c \in AllCalls, HCall(c)
  PROVE  StatelessInv' /\ Implements
<1>0. HTyped /\ \A d \in AllCalls : HCallFits(d)
  BY DEF StatelessInv
<1>1. /\ c \in HCalls /\ hstatus[c] = "new" /\ hstatus' = [hstatus EXCEPT ![c] = "starting"]
      /\ hticks' = Append(hticks, <<"start", c>>)
      /\ houtcome' = houtcome /\ hregistry' = hregistry /\ ex' = ex /\ received' = received
      /\ hpending' = hpending + 1
  BY DEF HCall, serverEnd
<1>2. hticks \in Seq(HTicks) /\ <<"start", c>> \in HTicks
  BY <1>0 DEF HTyped, HTicks
<1>3. /\ hticks' \in Seq(HTicks)
      /\ \A t : Contains(hticks', t) <=> Contains(hticks, t) \/ t = <<"start", c>>
      /\ \A t : Once(hticks, t) /\ t # <<"start", c>> => Once(hticks', t)
      /\ ~Contains(hticks, <<"start", c>>) => Once(hticks', <<"start", c>>)
  BY <1>1, <1>2, Enqueued
<1>4. ~Contains(hticks, <<"start", c>>)
  BY <1>0, <1>1 DEF HCallFits, ClientFitsCall, Waits
<1>5. HTyped' /\ CountFits'
  <2>1. HTyped'
    BY <1>0, <1>1, <1>3 DEF HTyped, Statuses
  <2>2. \A d \in AllCalls : hstatus'[d] = IF d = c THEN "starting" ELSE hstatus[d]
    BY <1>0, <1>1 DEF HTyped
  <2>3. Open' = Open \cup {c} /\ c \notin Open
    BY <1>1, <2>2 DEF Open
  <2>4. IsFiniteSet(Open \cup {c}) /\ Cardinality(Open \cup {c}) = Cardinality(Open) + 1
    BY <2>3, FS_AddElement DEF StatelessInv, CountFits
  <2>5. IsFiniteSet(Open') /\ hpending' = Cardinality(Open')
    BY <1>1, <2>3, <2>4 DEF StatelessInv, CountFits
  <2>6. /\ \A d : Contains(hticks', <<"settle", d>>) => Contains(hticks, <<"settle", d>>)
        /\ \A d : Once(hticks, <<"settle", d>>) => Once(hticks', <<"settle", d>>)
    BY <1>3
  <2>7. CountFits'
    BY <1>1, <2>2, <2>5, <2>6 DEF StatelessInv, CountFits, Waits
  <2>8. QED
    BY <2>1, <2>7
<1>6. ASSUME NEW d \in AllCalls PROVE HCallFits(d)'
  <2>1. ClientFitsCall(d) /\ ExchangeFitsCall(d)
    BY <1>0 DEF HCallFits
  <2>2. hstatus'[d] = IF d = c THEN "starting" ELSE hstatus[d]
    BY <1>0, <1>1 DEF HTyped
  <2>3. \A e : <<"emit", d>> # <<"start", e>> /\ <<"settle", d>> # <<"start", e>>
               /\ (<<"start", d>> = <<"start", e>> => d = e)
    OBVIOUS
  <2>4. Once(hticks', <<"start", d>>) /\ Once(hticks', <<"emit", d>>)
    BY <1>3, <1>4, <2>1, <2>3 DEF ClientFitsCall
  <2>5. /\ Waits("start", d)' => Waits("start", d) \/ d = c
        /\ Waits("settle", d)' => Waits("settle", d)
        /\ Waits("emit", d)' => Waits("emit", d)
    BY <1>3, <2>3 DEF Waits
  <2>6. ClientFitsCall(d)'
    BY <1>1, <2>1, <2>2, <2>4, <2>5 DEF ClientFitsCall
  <2>7. NotBegun(d)' <=> NotBegun(d)
    BY <1>1 DEF NotBegun
  <2>8. ExchangeFitsCall(d)'
    BY <1>1, <2>1, <2>2, <2>5, <2>7 DEF ExchangeFitsCall
  <2>9. QED
    BY <2>6, <2>8 DEF HCallFits
<1>7. PhaseOf(c) = "idle" /\ PhaseOf(c)' = "waiting"
  <2>1. hstatus'[c] = "starting"
    BY <1>0, <1>1 DEF HTyped
  <2>2. QED
    BY <1>1, <2>1, PhaseValues
<1>8. \A d \in HCalls \ {c} : PhaseOf(d)' = PhaseOf(d)
  <2>1. ASSUME NEW d \in HCalls \ {c} PROVE PhaseOf(d)' = PhaseOf(d)
    <3>1. hstatus'[d] = hstatus[d]
      BY <1>0, <1>1 DEF HTyped, AllCalls
    <3>2. QED
      BY <3>1, PhaseValues
  <2>2. QED
    BY <2>1
<1>9. SameResults
  <2>1. \A d \in HCalls : d \in AllCalls
    BY DEF AllCalls
  <2>2. QED
    BY <1>0, <1>1, <1>5, <2>1, ResultValues DEF SameResults
<1>10. HSeen' = HSeen
  BY <1>1 DEF HSeen
<1>11. QED
  BY <1>1, <1>5, <1>6, <1>7, <1>8, <1>9, <1>10, StepMakes DEF StatelessInv

\* A call that is called back.
LEMMA SettleSteps ==
  ASSUME StatelessInv, NEW c \in AllCalls, HSettle(c)
  PROVE  StatelessInv' /\ Implements
<1>0. HTyped /\ \A d \in AllCalls : HCallFits(d)
  BY DEF StatelessInv
<1>1. /\ hticks # <<>> /\ Head(hticks) = <<"settle", c>> /\ hticks' = Tail(hticks)
      /\ hstatus' = [hstatus EXCEPT ![c] = "done"]
      /\ houtcome' = houtcome /\ hregistry' = hregistry /\ ex' = ex /\ received' = received
      /\ hpending' = hpending - 1
  BY DEF HSettle, Running, serverEnd
<1>2. /\ LeftTicks(hticks') /\ Contains(hticks, <<"settle", c>>)
      /\ Once(hticks, <<"settle", c>>) => ~Contains(hticks', <<"settle", c>>)
  BY <1>0, <1>1, TicksLeft
<1>3. hstatus[c] = "settled" /\ houtcome[c] # "none" /\ c \in HCalls /\ ~Contains(hticks', <<"settle", c>>)
  BY <1>0, <1>2 DEF StatelessInv, CountFits, HCallFits, ClientFitsCall, Waits, AllCalls
<1>4. HTyped' /\ CountFits'
  <2>1. HTyped'
    BY <1>0, <1>1, <1>2 DEF HTyped, Statuses, LeftTicks
  <2>2. \A d \in AllCalls : hstatus'[d] = IF d = c THEN "done" ELSE hstatus[d]
    BY <1>0, <1>1 DEF HTyped
  <2>3. Open' = Open \ {c} /\ c \in Open
    BY <1>3, <2>2 DEF Open
  <2>4. IsFiniteSet(Open \ {c}) /\ Cardinality(Open \ {c}) = Cardinality(Open) - 1
    BY <2>3, FS_RemoveElement DEF StatelessInv, CountFits
  <2>5. IsFiniteSet(Open') /\ hpending' = Cardinality(Open')
    BY <1>1, <2>3, <2>4 DEF StatelessInv, CountFits
  <2>6. CountFits'
    BY <1>2, <1>3, <2>2, <2>5 DEF StatelessInv, CountFits, Waits, LeftTicks
  <2>7. QED
    BY <2>1, <2>6
<1>5. ASSUME NEW d \in AllCalls PROVE HCallFits(d)'
  <2>1. ClientFitsCall(d) /\ ExchangeFitsCall(d)
    BY <1>0 DEF HCallFits
  <2>2. hstatus'[d] = IF d = c THEN "done" ELSE hstatus[d]
    BY <1>0, <1>1 DEF HTyped
  <2>3. Once(hticks', <<"start", d>>) /\ Once(hticks', <<"emit", d>>)
    BY <1>2, <2>1 DEF ClientFitsCall, LeftTicks
  <2>4. \A kind : Waits(kind, d)' => Waits(kind, d)
    BY <1>2 DEF Waits, LeftTicks
  <2>5. ClientFitsCall(d)'
    BY <1>1, <1>3, <2>1, <2>2, <2>3, <2>4 DEF ClientFitsCall
  <2>6. NotBegun(d)' <=> NotBegun(d)
    BY <1>1 DEF NotBegun
  <2>7. ExchangeFitsCall(d)'
    BY <1>1, <2>1, <2>2, <2>4, <2>6 DEF ExchangeFitsCall
  <2>8. QED
    BY <2>5, <2>7 DEF HCallFits
<1>6. ASSUME NEW d \in HCalls PROVE hstatus'[d] = IF d = c THEN "done" ELSE hstatus[d]
  BY <1>0, <1>1 DEF HTyped, AllCalls
<1>7. SameResults
  <2>1. \A d \in HCalls : d \in AllCalls
    BY DEF AllCalls
  <2>2. QED
    BY <1>0, <1>1, <1>4, <2>1, ResultValues DEF SameResults
<1>8. HSeen' = HSeen
  BY <1>1 DEF HSeen
<1>9. PhaseOf(c) = "waiting" /\ PhaseOf(c)' = "finished" /\ ResultOf(c) # "none"
  BY <1>0, <1>3, <1>4, <1>6, PhaseValues, ResultValues
<1>10. ASSUME NEW d \in HCalls \ {c} PROVE PhaseOf(d)' = PhaseOf(d)
  BY <1>6, <1>10, PhaseValues
<1>11. QED
  BY <1>3, <1>4, <1>5, <1>7, <1>8, <1>9, <1>10, StepFinishes DEF StatelessInv

\* The client's side after a step that leaves all but the queue, to which nothing but a
\* request to be sent again is added.
LEMMA QueueOnly ==
  ASSUME StatelessInv, NEW c \in AllCalls, NEW rest, LeftTicks(rest),
         \/ hticks' = rest
         \/ hticks' = Append(rest, <<"emit", c>>) /\ ~Contains(rest, <<"emit", c>>),
         hstatus' = hstatus, houtcome' = houtcome, hregistry' = hregistry, hpending' = hpending
  PROVE  /\ hticks' \in Seq(HTicks) /\ CountFits' /\ \A d \in AllCalls : ClientFitsCall(d)'
         /\ \A d \in AllCalls : Waits("emit", d)' => Waits("emit", d) \/ d = c
<1>0. \A d \in AllCalls : ClientFitsCall(d)
  BY DEF StatelessInv, HCallFits
<1>1. rest \in Seq(HTicks) /\ <<"emit", c>> \in HTicks
  BY DEF LeftTicks, HTicks
<1>2. /\ hticks' \in Seq(HTicks)
      /\ \A t : Contains(hticks', t) => Contains(rest, t) \/ t = <<"emit", c>>
      /\ \A t : Once(rest, t) => Once(hticks', t)
  <2>1. CASE hticks' = rest
    BY <1>1, <2>1
  <2>2. CASE hticks' = Append(rest, <<"emit", c>>) /\ ~Contains(rest, <<"emit", c>>)
    <3>1. /\ Append(rest, <<"emit", c>>) \in Seq(HTicks)
          /\ \A t : Contains(Append(rest, <<"emit", c>>), t) <=> Contains(rest, t) \/ t = <<"emit", c>>
          /\ \A t : Once(rest, t) /\ t # <<"emit", c>> => Once(Append(rest, <<"emit", c>>), t)
          /\ ~Contains(rest, <<"emit", c>>) => Once(Append(rest, <<"emit", c>>), <<"emit", c>>)
      BY <1>1, Enqueued
    <3>2. QED
      BY <2>2, <3>1
  <2>3. QED
    BY <2>1, <2>2
<1>3. ASSUME NEW d \in AllCalls PROVE ClientFitsCall(d)'
  <2>1. <<"start", d>> # <<"emit", c>> /\ <<"settle", d>> # <<"emit", c>>
    OBVIOUS
  <2>2. /\ Waits("start", d)' => Waits("start", d)
        /\ Waits("settle", d)' => Waits("settle", d)
    BY <1>2, <2>1 DEF Waits, LeftTicks
  <2>3. Once(hticks', <<"start", d>>) /\ Once(hticks', <<"emit", d>>)
    BY <1>0, <1>2 DEF ClientFitsCall, LeftTicks
  <2>4. ClientFitsCall(d)
    BY <1>0
  <2>5. QED
    BY <2>2, <2>3, <2>4 DEF ClientFitsCall
<1>4. ASSUME NEW d \in AllCalls, Waits("emit", d)' PROVE Waits("emit", d) \/ d = c
  <2>1. <<"emit", d>> = <<"emit", c>> => d = c
    OBVIOUS
  <2>2. QED
    BY <1>2, <1>4, <2>1 DEF Waits, LeftTicks
<1>5. CountFits'
  <2>1. \A d : <<"settle", d>> # <<"emit", c>>
    OBVIOUS
  <2>2. \A d : Waits("settle", d)' => Waits("settle", d)
    BY <1>2, <2>1 DEF Waits, LeftTicks
  <2>3. \A d \in AllCalls : Once(hticks, <<"settle", d>>) => Once(hticks', <<"settle", d>>)
    BY <1>2 DEF LeftTicks
  <2>4. QED
    BY <2>2, <2>3, CountStays DEF StatelessInv
<1>6. QED
  BY <1>2, <1>3, <1>4, <1>5

\* What a request, once written, is.
LEMMA EmitSteps ==
  ASSUME StatelessInv, NEW c \in AllCalls, HEmit(c)
  PROVE  StatelessInv' /\ Implements
<1> DEFINE rest == Tail(hticks)
<1>0. HTyped /\ \A d \in AllCalls : HCallFits(d)
  BY DEF StatelessInv
<1>1. hticks # <<>> /\ Head(hticks) = <<"emit", c>> /\ received' = received
  BY DEF HEmit, Running
<1>2. /\ LeftTicks(rest) /\ Contains(hticks, <<"emit", c>>)
      /\ Once(hticks, <<"emit", c>>) => ~Contains(rest, <<"emit", c>>)
  BY <1>0, <1>1, TicksLeft
<1>3. ~Contains(rest, <<"emit", c>>) /\ Waits("emit", c)
  BY <1>0, <1>2 DEF HCallFits, ClientFitsCall, Waits
<1> HIDE DEF rest
<1>4. \/ /\ ex' = [ex EXCEPT ![c] = [NoExchange EXCEPT !.at = "request", !.full = ex[c].refused]]
         /\ hticks' = rest /\ hstatus' = hstatus /\ houtcome' = houtcome /\ hregistry' = hregistry
         /\ hpending' = hpending
      \/ ex' = ex /\ HCallback(c, "failed", rest)
      \/ /\ ex' = ex
         /\ hticks' = rest /\ hstatus' = hstatus /\ houtcome' = houtcome /\ hregistry' = hregistry
         /\ hpending' = hpending
  BY DEF HEmit, rest
<1>5. CASE ex' = ex /\ HCallback(c, "failed", rest)
  <2>1. ExchangesEnd
    BY <1>0, <1>5 DEF ExchangesEnd, HTyped
  <2>2. QED
    BY <1>1, <1>2, <1>5, <2>1, CallbackStep
<1>6. ASSUME hticks' = rest, hstatus' = hstatus, houtcome' = houtcome, hregistry' = hregistry,
             hpending' = hpending,
             \/ ex' = ex
             \/ ex' = [ex EXCEPT ![c] = [NoExchange EXCEPT !.at = "request", !.full = ex[c].refused]]
      PROVE  StatelessInv' /\ Implements
  <2>1. hticks' \in Seq(HTicks) /\ CountFits' /\ \A d \in AllCalls : ClientFitsCall(d)'
    BY <1>2, <1>6, QueueOnly
  <2>2. ex[c].refused \in BOOLEAN
    BY <1>0 DEF HTyped, Exchanges
  <2>3. [NoExchange EXCEPT !.at = "request", !.full = ex[c].refused] \in Exchanges
    BY <2>2 DEF NoExchange, Exchanges
  <2>4. HTyped'
    BY <1>0, <1>1, <1>6, <2>1, <2>3 DEF HTyped
  <2>5. ASSUME NEW d \in AllCalls PROVE ExchangeFitsCall(d)'
    <3>1. ExchangeFitsCall(d)
      BY <1>0 DEF HCallFits
    <3>2. Waits("emit", d)' => Waits("emit", d) /\ d # c
      BY <1>2, <1>3, <1>6 DEF Waits, LeftTicks
    <3>3. CASE ex'[d] = ex[d]
      <4>1. NotBegun(d)' <=> NotBegun(d)
        BY <1>1, <3>3 DEF NotBegun
      <4>2. QED
        BY <1>1, <1>6, <3>1, <3>2, <3>3, <4>1 DEF ExchangeFitsCall
    <3>4. CASE ex'[d] # ex[d]
      <4>1. d = c /\ ex'[d].at = "request" /\ ~ex'[d].refused
        BY <1>0, <1>6, <3>4, <2>2 DEF HTyped, NoExchange
      <4>2. received[d] = 0 /\ hstatus[d] \notin {"new", "starting"}
            /\ houtcome[d] \notin {"invalid", "destroyed"}
        BY <1>3, <3>1, <4>1 DEF ExchangeFitsCall
      <4>3. QED
        BY <1>1, <1>6, <3>2, <4>1, <4>2 DEF ExchangeFitsCall
    <3>5. QED
      BY <3>3, <3>4
  <2>6. StatelessInv'
    BY <2>1, <2>4, <2>5 DEF StatelessInv, HCallFits
  <2>7. QED
    BY <1>0, <1>1, <1>6, <2>4, <2>6, SameToCaller
<1>7. QED
  BY <1>4, <1>5, <1>6

\* An answer is the call's, or the request is sent again, as it was not received.
LEMMA ReadSteps ==
  ASSUME StatelessInv, NEW c \in AllCalls, HRead(c)
  PROVE  StatelessInv' /\ Implements
<1>0. HTyped /\ (\A d \in AllCalls : HCallFits(d)) /\ LeftTicks(hticks)
  BY TicksLeft DEF StatelessInv
<1>1. /\ ex[c].at = "answered" /\ ex' = [ex EXCEPT ![c].at = "over"] /\ received' = received
  BY DEF HRead
<1>2. /\ ex[c] \in Exchanges /\ ex'[c].at = "over" /\ ex'[c] \in Exchanges
      /\ ex' \in [AllCalls -> Exchanges]
      /\ \A d \in AllCalls : d # c => ex'[d] = ex[d]
  <2>1. ex[c] \in Exchanges
    BY <1>0 DEF HTyped
  <2>2. [ex[c] EXCEPT !.at = "over"] \in Exchanges /\ [ex[c] EXCEPT !.at = "over"].at = "over"
    BY <2>1 DEF Exchanges
  <2>3. QED
    BY <1>0, <1>1, <2>1, <2>2 DEF HTyped
<1>3. ExchangesEnd
  BY <1>1, <1>2 DEF ExchangesEnd
<1>4. /\ ExchangeFitsCall(c) /\ (received[c] = 0 <=> ex[c].refused) /\ received[c] \in {0, 1}
      /\ ~NotBegun(c) /\ ~Waits("emit", c)
  <2>1. ExchangeFitsCall(c)
    BY <1>0 DEF HCallFits
  <2>2. QED
    BY <1>0, <1>1, <2>1 DEF ExchangeFitsCall, NotBegun, HTyped
<1>5. \/ ~ex[c].refused /\ HCallback(c, "response", hticks)
      \/ HCallback(c, "failed", hticks)
      \/ /\ ex[c].refused /\ hticks' = Append(hticks, <<"emit", c>>)
         /\ hstatus' = hstatus /\ houtcome' = houtcome /\ hregistry' = hregistry /\ hpending' = hpending
  BY DEF HRead
<1>6. CASE ~ex[c].refused /\ HCallback(c, "response", hticks)
  <2>1. received[c] > 0
    BY <1>4, <1>6
  <2>2. QED
    BY <1>0, <1>1, <1>3, <1>6, <2>1, CallbackStep
<1>7. CASE HCallback(c, "failed", hticks)
  BY <1>0, <1>1, <1>3, <1>7, CallbackStep
<1>8. CASE /\ ex[c].refused /\ hticks' = Append(hticks, <<"emit", c>>)
           /\ hstatus' = hstatus /\ houtcome' = houtcome /\ hregistry' = hregistry /\ hpending' = hpending
  <2>1. ~Contains(hticks, <<"emit", c>>)
    BY <1>4 DEF Waits
  <2>2. /\ hticks' \in Seq(HTicks) /\ CountFits' /\ \A d \in AllCalls : ClientFitsCall(d)'
        /\ \A d \in AllCalls : Waits("emit", d)' => Waits("emit", d) \/ d = c
    BY <1>0, <1>8, <2>1, QueueOnly
  <2>3. HTyped'
    BY <1>0, <1>1, <1>2, <1>8, <2>2 DEF HTyped
  <2>4. ASSUME NEW d \in AllCalls PROVE ExchangeFitsCall(d)'
    <3>1. ExchangeFitsCall(d)
      BY <1>0 DEF HCallFits
    <3>2. CASE d = c
      BY <1>1, <1>2, <1>4, <1>8, <3>1, <3>2 DEF ExchangeFitsCall
    <3>3. CASE d # c
      <4>1. ex'[d] = ex[d] /\ (NotBegun(d)' <=> NotBegun(d))
        BY <1>1, <1>2, <3>3 DEF NotBegun
      <4>2. QED
        BY <1>1, <1>8, <2>2, <3>1, <3>3, <4>1 DEF ExchangeFitsCall
    <3>4. QED
      BY <3>2, <3>3
  <2>5. StatelessInv'
    BY <2>2, <2>3, <2>4 DEF StatelessInv, HCallFits
  <2>6. QED
    BY <1>0, <1>1, <1>8, <2>3, <2>5, SameToCaller
<1>9. QED
  BY <1>5, <1>6, <1>7, <1>8

----------------------------------------------------------------------------
(* The server's steps.                                                     *)

LEMMA ServerKeepsCalls ==
  ASSUME StatelessInv, NEW c \in AllCalls, UNCHANGED clientVars,
         NEW e \in Exchanges, ex' = [ex EXCEPT ![c] = e],
         received' \in [AllCalls -> {0, 1}], \A d \in AllCalls : d # c => received'[d] = received[d],
         ex'[c] = e => ExchangeFitsCall(c)'
  PROVE  StatelessInv' /\ HTyped'
<1>0. HTyped /\ \A d \in AllCalls : HCallFits(d)
  BY DEF StatelessInv
<1>1. /\ hstatus' = hstatus /\ houtcome' = houtcome /\ hregistry' = hregistry /\ hticks' = hticks
      /\ hpending' = hpending
  BY DEF clientVars
<1>2. HTyped' /\ ex'[c] = e /\ CountFits'
  <2>1. HTyped' /\ ex'[c] = e
    BY <1>0, <1>1 DEF HTyped
  <2>2. CountFits'
    BY <1>1, CountStays DEF StatelessInv, Waits
  <2>3. QED
    BY <2>1, <2>2
<1>3. ASSUME NEW d \in AllCalls PROVE HCallFits(d)'
  <2>1. ClientFitsCall(d)'
    BY <1>0, <1>1 DEF HCallFits, ClientFitsCall, Waits
  <2>2. CASE d # c
    <3>1. ex'[d] = ex[d] /\ received'[d] = received[d]
      BY <1>0, <2>2 DEF HTyped
    <3>2. ExchangeFitsCall(d)'
      BY <1>0, <1>1, <3>1 DEF HCallFits, ExchangeFitsCall, NotBegun, Waits
    <3>3. QED
      BY <2>1, <3>2 DEF HCallFits
  <2>3. CASE d = c
    BY <1>2, <2>1, <2>3 DEF HCallFits
  <2>4. QED
    BY <2>2, <2>3
<1>4. QED
  BY <1>2, <1>3 DEF StatelessInv

\* What done makes of an exchange.
LEMMA AnsweredIs ==
  ASSUME NEW e \in Exchanges
  PROVE  /\ Answered(e) \in Exchanges
         /\ Answered(e).at \in {"over", "answered", "answering"}
         /\ Answered(e).at \in {"answered", "answering"} => Answered(e).refused = e.refused
<1>1. CASE e.gone
  BY <1>1 DEF Answered, NoExchange, Exchanges
<1>2. CASE ~e.gone /\ e.writable
  BY <1>2 DEF Answered, NoExchange, Exchanges
<1>3. CASE ~e.gone /\ ~e.writable
  BY <1>3 DEF Answered, NoExchange, Exchanges
<1>4. QED
  BY <1>1, <1>2, <1>3

\* What is known of a call whose exchange is at the server.
LEMMA AtServer ==
  ASSUME StatelessInv, NEW c \in AllCalls, ex[c].at \notin {"none", "over"}
  PROVE  /\ hstatus[c] \notin {"new", "starting"} /\ houtcome[c] \notin {"invalid", "destroyed"}
         /\ ~Waits("emit", c)
  BY DEF StatelessInv, HCallFits, ExchangeFitsCall, NotBegun

\* An exchange that goes on.
LEMMA GoesOn ==
  ASSUME StatelessInv, NEW c \in AllCalls, ex[c].at \notin {"none", "over"}, UNCHANGED clientVars,
         ex'[c].at \in {"request", "handling", "answering", "answered", "over"},
         ex'[c].at = "request" => received'[c] = 0 /\ ~ex'[c].refused,
         ex'[c].at = "handling" => received'[c] = 1 /\ ~ex'[c].refused,
         ex'[c].at \in {"answering", "answered"} => (received'[c] = 0 <=> ex'[c].refused)
  PROVE  ExchangeFitsCall(c)'
<1>1. /\ hstatus'[c] = hstatus[c] /\ houtcome'[c] = houtcome[c]
      /\ Waits("emit", c)' = Waits("emit", c)
  BY DEF clientVars, Waits
<1>2. QED
  BY <1>1, AtServer DEF ExchangeFitsCall

\* A step of the server's that takes in nothing.
LEMMA ServerQuiet ==
  ASSUME StatelessInv, NEW c \in AllCalls, ex[c].at \notin {"none", "over"}, UNCHANGED clientVars,
         NEW e \in Exchanges, ex' = [ex EXCEPT ![c] = e], received' = received,
         e.at \in {"request", "handling", "answering", "answered", "over"},
         e.at = "request" => received[c] = 0 /\ ~e.refused,
         e.at = "handling" => received[c] = 1 /\ ~e.refused,
         e.at \in {"answering", "answered"} => (received[c] = 0 <=> e.refused)
  PROVE  StatelessInv' /\ Implements
<1>0. HTyped
  BY DEF StatelessInv
<1>1. ex'[c] = e => ExchangeFitsCall(c)'
  BY GoesOn
<1>2. received' \in [AllCalls -> {0, 1}]
  BY <1>0 DEF HTyped
<1>3. StatelessInv' /\ HTyped'
  BY <1>1, <1>2, ServerKeepsCalls
<1>4. QED
  BY <1>0, <1>3, SameToCaller DEF clientVars

LEMMA ReceiveSteps ==
  ASSUME StatelessInv, NEW c \in AllCalls, HReceive(c)
  PROVE  StatelessInv' /\ Implements
<1>0. HTyped /\ ExchangeFitsCall(c) /\ ClientFitsCall(c) /\ ex[c] \in Exchanges
  BY DEF StatelessInv, HCallFits, HTyped
<1>1. ex[c].at = "request" /\ received[c] = 0 /\ ~ex[c].refused /\ UNCHANGED clientVars
  BY <1>0 DEF HReceive, ExchangeFitsCall
<1>2. CASE Accepted(c)
  <2> DEFINE e == IF c = Ping \/ c \in Undecodable THEN Answered(ex[c])
                  ELSE [ex[c] EXCEPT !.at = "handling"]
  <2>1. ex' = [ex EXCEPT ![c] = e] /\ received' = [received EXCEPT ![c] = @ + 1]
    BY <1>2 DEF HReceive
  <2>2. received' = [received EXCEPT ![c] = 1]
    BY <1>1, <2>1
  <2>3. e \in Exchanges /\ e.at \in {"over", "answered", "answering", "handling"}
        /\ (e.at # "over" => ~e.refused)
    <3>1. CASE c = Ping \/ c \in Undecodable
      BY <1>0, <1>1, <3>1, AnsweredIs
    <3>2. CASE ~(c = Ping \/ c \in Undecodable)
      BY <1>0, <1>1, <3>2 DEF Exchanges
    <3>3. QED
      BY <3>1, <3>2
  <2> HIDE DEF e
  <2>4. received' \in [AllCalls -> {0, 1}] /\ received'[c] = 1
        /\ \A d \in AllCalls : d # c => received'[d] = received[d]
    BY <1>0, <2>2 DEF HTyped
  <2>5. ex'[c] = e => ExchangeFitsCall(c)'
    BY <1>1, <2>3, <2>4, GoesOn
  <2>6. StatelessInv' /\ HTyped'
    BY <1>1, <2>1, <2>3, <2>4, <2>5, ServerKeepsCalls
  <2>7. SamePhases
    BY <1>1, PhaseValues DEF SamePhases, clientVars
  <2>8. SameResults
    <3>1. \A d \in HCalls : d \in AllCalls
      BY DEF AllCalls
    <3>2. QED
      BY <1>0, <1>1, <2>6, <3>1, ResultValues DEF SameResults, clientVars
  <2>9. CASE c \in HCalls
    <3>1. HSeen' = HSeen \cup {c} /\ c \notin HSeen
      <4>1. ASSUME NEW d \in HCalls PROVE received'[d] > 0 <=> received[d] > 0 \/ d = c
        BY <2>4, <4>1 DEF AllCalls
      <4>2. QED
        BY <1>1, <2>9, <4>1 DEF HSeen
    <3>2. PhaseOf(c) # "idle" /\ ResultOf(c) # "unsent"
      <4>1. hstatus[c] # "new" /\ houtcome[c] \notin {"invalid", "destroyed"}
        BY <1>1, AtServer
      <4>2. QED
        BY <1>0, <2>6, <4>1, PhaseValues, ResultValues
    <3>3. QED
      BY <2>6, <2>7, <2>8, <2>9, <3>1, <3>2, StepTakes
  <2>10. CASE c \notin HCalls
    <3>1. HSeen' = HSeen
      BY <2>4, <2>10 DEF HSeen, AllCalls
    <3>2. QED
      BY <2>6, <2>7, <2>8, <3>1, StepStutters
  <2>11. QED
    BY <2>9, <2>10
<1>3. CASE ~Accepted(c)
  <2> DEFINE r == [ex[c] EXCEPT !.refused = TRUE]
  <2>1. ex' = [ex EXCEPT ![c] = Answered(r)] /\ received' = received
    BY <1>3 DEF HReceive
  <2>2. r \in Exchanges /\ r.refused
    BY <1>0 DEF Exchanges
  <2> HIDE DEF r
  <2>3. /\ Answered(r) \in Exchanges /\ Answered(r).at \in {"over", "answered", "answering"}
        /\ Answered(r).at \in {"answered", "answering"} => Answered(r).refused
    BY <2>2, AnsweredIs
  <2>4. QED
    BY <1>1, <2>1, <2>3, ServerQuiet
<1>4. QED
  BY <1>2, <1>3

LEMMA HandledSteps ==
  ASSUME StatelessInv, NEW c \in AllCalls, HHandled(c)
  PROVE  StatelessInv' /\ Implements
<1> DEFINE a == Answered(ex[c])
           e == IF a.at = "answering" THEN [a EXCEPT !.gone = a.draining] ELSE a
<1>0. ExchangeFitsCall(c) /\ ex[c] \in Exchanges
  BY DEF StatelessInv, HCallFits, HTyped
<1>1. /\ ex[c].at = "handling" /\ received[c] = 1 /\ ~ex[c].refused
      /\ ex' = [ex EXCEPT ![c] = e] /\ received' = received /\ UNCHANGED clientVars
  BY <1>0 DEF HHandled, ExchangeFitsCall
<1>2. /\ a \in Exchanges /\ a.at \in {"over", "answered", "answering"}
      /\ a.at \in {"answered", "answering"} => ~a.refused
  BY <1>0, <1>1, AnsweredIs
<1> HIDE DEF a
<1>3. /\ e \in Exchanges /\ e.at \in {"over", "answered", "answering"}
      /\ e.at \in {"answered", "answering"} => ~e.refused
  BY <1>2 DEF Exchanges
<1> HIDE DEF e
<1>4. /\ e.at \in {"request", "handling", "answering", "answered", "over"}
      /\ e.at # "request" /\ e.at # "handling"
      /\ e.at \in {"answering", "answered"} => (received[c] = 0 <=> e.refused)
  BY <1>1, <1>3
<1>5. ex[c].at \notin {"none", "over"}
  BY <1>1
<1>6. QED
  BY <1>1, <1>3, <1>4, <1>5, ServerQuiet

LEMMA WritableSteps ==
  ASSUME StatelessInv, NEW c \in AllCalls, HWritable(c)
  PROVE  StatelessInv' /\ Implements
<1> DEFINE w == [ex[c] EXCEPT !.writable = TRUE]
           e == IF w.at = "answering" THEN Answered(w) ELSE w
<1>0. ExchangeFitsCall(c) /\ ex[c] \in Exchanges
  BY DEF StatelessInv, HCallFits, HTyped
<1>1. /\ ex[c].at \in {"request", "handling", "answering"}
      /\ ex' = [ex EXCEPT ![c] = e] /\ received' = received /\ UNCHANGED clientVars
  BY DEF HWritable
<1>2. w \in Exchanges /\ w.at = ex[c].at /\ w.refused = ex[c].refused
  BY <1>0 DEF Exchanges
<1> HIDE DEF w
<1>3. CASE w.at = "answering"
  <2>1. /\ e = Answered(w) /\ e \in Exchanges /\ e.at \in {"over", "answered", "answering"}
        /\ e.at \in {"answered", "answering"} => e.refused = ex[c].refused
    BY <1>2, <1>3, AnsweredIs
  <2> HIDE DEF e
  <2>2. QED
    BY <1>0, <1>1, <1>2, <1>3, <2>1, ServerQuiet DEF ExchangeFitsCall
<1>4. CASE w.at # "answering"
  <2>1. e = w
    BY <1>4
  <2> HIDE DEF e
  <2>2. QED
    BY <1>0, <1>1, <1>2, <1>4, <2>1, ServerQuiet DEF ExchangeFitsCall
<1>5. QED
  BY <1>3, <1>4

LEMMA EndSteps ==
  ASSUME StatelessInv, NEW c \in AllCalls, HEnd(c)
  PROVE  StatelessInv' /\ Implements
<1> DEFINE e == [ex[c] EXCEPT !.draining = TRUE, !.gone = ex[c].gone \/ ex[c].at = "answering"]
<1>0. ExchangeFitsCall(c) /\ ex[c] \in Exchanges
  BY DEF StatelessInv, HCallFits, HTyped
<1>1. /\ ex[c].at \in {"handling", "answering"}
      /\ received' = received /\ UNCHANGED clientVars
  BY DEF HEnd
<1>4. ex' = [ex EXCEPT ![c] = e]
  BY Zenon DEF HEnd
<1>2. e \in Exchanges /\ e.at = ex[c].at /\ e.refused = ex[c].refused
  <2>1. (ex[c].gone \/ ex[c].at = "answering") \in BOOLEAN
    BY <1>0 DEF Exchanges
  <2>2. QED
    BY <1>0, <2>1 DEF Exchanges
<1> HIDE DEF e
<1>3. QED
  BY <1>0, <1>1, <1>2, <1>4, ServerQuiet DEF ExchangeFitsCall

----------------------------------------------------------------------------
(* Results.                                                                *)

LEMMA StatelessStart == HInit => StatelessInv /\ Contract!Init
<1> SUFFICES ASSUME HInit PROVE StatelessInv /\ Contract!Init
  OBVIOUS
<1>1. NoExchange \in Exchanges /\ NoExchange.at = "none"
  BY DEF NoExchange, Exchanges
<1>2. Ping \in AllCalls /\ <<"start", Ping>> \in HTicks
  BY DEF AllCalls, HTicks
<1>3. hticks \in Seq(HTicks) /\ Len(hticks) = 1 /\ hticks[1] = <<"start", Ping>>
  BY <1>2 DEF HInit
<1>4. hregistry \in Seq(AllCalls) /\ Len(hregistry) = 0
  BY DEF HInit
<1>5. HTyped
  <2>1. Distinct(hregistry)
    BY <1>4 DEF Distinct
  <2>2. QED
    BY <1>1, <1>3, <1>4, <2>1 DEF HInit, HTyped, Statuses, HOutcomes
<1>6. ASSUME NEW c \in AllCalls PROVE HCallFits(c)
  <2>1. ~Contains(hregistry, c)
    BY <1>4 DEF Contains
  <2>2. \A t : Contains(hticks, t) => t = <<"start", Ping>>
    <3>1. \A i \in 1..Len(hticks) : hticks[i] = <<"start", Ping>>
      BY <1>3
    <3>2. QED
      BY <3>1 DEF Contains
  <2>3. \A t : Once(hticks, t)
    BY <1>3 DEF Once
  <2>4. \A d : <<"start", d>> = <<"start", Ping>> => d = Ping
    OBVIOUS
  <2>5. \A d : <<"emit", d>> # <<"start", Ping>> /\ <<"settle", d>> # <<"start", Ping>>
    OBVIOUS
  <2>6. Waits("start", c) => c = Ping
    BY <2>2, <2>4 DEF Waits
  <2>7. ~Waits("emit", c) /\ ~Waits("settle", c)
    BY <2>2, <2>5 DEF Waits
  <2>8. hstatus[c] = (IF c = Ping THEN "starting" ELSE "new") /\ houtcome[c] = "none"
    BY DEF HInit
  <2>9. ClientFitsCall(c)
    BY <2>1, <2>3, <2>6, <2>7, <2>8 DEF ClientFitsCall
  <2>10. ExchangeFitsCall(c)
    BY <1>1, <2>7, <2>8 DEF HInit, ExchangeFitsCall, NotBegun
  <2>11. QED
    BY <2>9, <2>10 DEF HCallFits
<1>13. CountFits
  <2>1. Open = {Ping}
    BY <1>2 DEF HInit, Open
  <2>2. IsFiniteSet({Ping}) /\ Cardinality({Ping}) = 1
    BY FS_Singleton
  <2>3. \A d : Once(hticks, <<"settle", d>>) /\ ~Waits("settle", d)
    <3>1. \A d : <<"settle", d>> # <<"start", Ping>>
      OBVIOUS
    <3>2. \A i \in 1..Len(hticks) : hticks[i] = <<"start", Ping>>
      BY <1>3
    <3>3. QED
      BY <3>1, <3>2 DEF Once, Waits, Contains
  <2>4. hpending = 1
    BY DEF HInit
  <2>5. QED
    BY <2>1, <2>2, <2>3, <2>4 DEF CountFits
<1>7. \A c \in HCalls : c \in AllCalls /\ c # Ping
  BY StatelessAssumption DEF AllCalls
<1>8. \A c \in HCalls : PhaseOf(c) = "idle"
  BY <1>7, PhaseValues DEF HInit
<1>9. \A c \in HCalls : ResultOf(c) = "none"
  <2>1. ASSUME NEW c \in HCalls PROVE ResultOf(c) = "none"
    <3>1. received[c] = 0 /\ houtcome[c] = "none"
      BY <1>7 DEF HInit
    <3>2. ~(received[c] > 1)
      BY <3>1
    <3>3. QED
      BY Zenon, <3>1, <3>2 DEF ResultOf
  <2>2. QED
    BY <2>1
<1>10. {c \in HCalls : received[c] > 0} = {}
  BY <1>7 DEF HInit
<1>11. Contract!Init
  BY <1>8, <1>9, <1>10 DEF Contract!Init
<1>12. QED
  BY <1>5, <1>6, <1>11, <1>13 DEF StatelessInv

LEMMA StatelessStep == StatelessInv /\ [HNext]_statelessVars => StatelessInv' /\ Implements
<1> SUFFICES ASSUME StatelessInv, [HNext]_statelessVars PROVE StatelessInv' /\ Implements
  OBVIOUS
<1>1. CASE UNCHANGED statelessVars
  <2>1. HTyped /\ hstatus' = hstatus /\ houtcome' = houtcome /\ hregistry' = hregistry
        /\ hticks' = hticks /\ ex' = ex /\ received' = received /\ hpending' = hpending
    BY <1>1 DEF StatelessInv, statelessVars, clientVars
  <2>2. HTyped'
    BY <2>1 DEF HTyped
  <2>5. CountFits'
    BY <2>1, CountStays DEF StatelessInv, Waits
  <2>3. StatelessInv'
    BY <2>1, <2>2, <2>5 DEF StatelessInv, HCallFits, ClientFitsCall, ExchangeFitsCall, NotBegun, Waits
  <2>4. QED
    BY <2>1, <2>2, <2>3, SameToCaller
<1>2. QED
  BY <1>1, DestroySteps, CallSteps, StartSteps, EmitSteps, SettleSteps, TimeoutSteps, ReadSteps,
     FailureSteps, ReceiveSteps, HandledSteps, WritableSteps, EndSteps DEF HNext

\* Stateless channels implement the contract of calls, which says of each call that it is
\* received once at most, that its callback runs once at most, and that it is told a
\* response only if it was received and that it was not sent only if it was not: whatever
\* answers, refusals, failures, timeouts and destructions come, in whatever order.
THEOREM StatelessImplementsCalls == HSpec => Contract!Spec
<1>1. StatelessInv /\ [HNext]_statelessVars => [Contract!Next]_(Contract!absVars)
  BY StatelessStep DEF Implements
<1>2. QED
  BY <1>1, StatelessStart, StatelessStep, PTL DEF HSpec, Contract!Spec

\* The count a draining channel waits for is that of the calls made and not yet completed.
THEOREM StatelessPendingIsExact == HSpec => [](hpending = Cardinality(Open))
<1>1. StatelessInv => hpending = Cardinality(Open)
  BY DEF StatelessInv, CountFits
<1>2. QED
  BY <1>1, StatelessStart, StatelessStep, PTL DEF HSpec

\* What StatelessInv does not look at.
HSwitches ==
  /\ htimers \subseteq AllCalls
  /\ hdraining \in BOOLEAN /\ hdestroyed \in BOOLEAN /\ hknown \in BOOLEAN

LEMMA SwitchesKept == HSwitches /\ [HNext]_statelessVars => HSwitches'
<1> SUFFICES ASSUME HSwitches, [HNext]_statelessVars PROVE HSwitches'
  OBVIOUS
<1> USE DEF HSwitches
<1>1. ASSUME NEW c \in AllCalls, NEW kind, NEW rest, Resume(c, kind, rest), hknown' = hknown PROVE HSwitches'
  BY <1>1 DEF Resume, PingFailed, Interrupt
<1>2. ASSUME NEW c \in AllCalls, NEW kind, NEW rest, HCallback(c, kind, rest), hknown' = hknown PROVE HSwitches'
  BY <1>1, <1>2 DEF HCallback
<1>3. ASSUME NEW noWait \in BOOLEAN, HDestroy(noWait) PROVE HSwitches'
  BY <1>3 DEF HDestroy, PingFailed, Interrupt, serverEnd
<1>4. ASSUME NEW c \in AllCalls, HCall(c) \/ HSettle(c) PROVE HSwitches'
  BY <1>4 DEF HCall, HSettle, serverEnd
<1>5. ASSUME NEW c \in AllCalls, HStart(c) PROVE HSwitches'
  BY <1>1, <1>5 DEF HStart, serverEnd
<1>6. ASSUME NEW c \in AllCalls, HEmit(c) \/ HRead(c) PROVE HSwitches'
  BY <1>2, <1>6 DEF HEmit, HRead
<1>7. ASSUME NEW c \in AllCalls, HTimeout(c) PROVE HSwitches'
  BY <1>2, <1>7 DEF HTimeout, serverEnd
<1>8. ASSUME NEW c \in AllCalls, HExchangeFails(c) PROVE HSwitches'
  BY <1>2, <1>8 DEF HExchangeFails, clientVars
<1>9. ASSUME NEW c \in AllCalls, HReceive(c) PROVE HSwitches'
  BY <1>9 DEF HReceive, clientVars, Accepted
<1>10. ASSUME NEW c \in AllCalls, HHandled(c) \/ HWritable(c) \/ HEnd(c) PROVE HSwitches'
  BY <1>10 DEF HHandled, HWritable, HEnd, clientVars
<1>11. CASE UNCHANGED statelessVars
  BY <1>11 DEF statelessVars, clientVars
<1>12. QED
  BY <1>3, <1>4, <1>5, <1>6, <1>7, <1>8, <1>9, <1>10, <1>11 DEF HNext

LEMMA SwitchesStart == HInit => HSwitches
  BY StatelessAssumption DEF HInit, HSwitches

LEMMA StatelessTypes == StatelessInv /\ HSwitches => HTypeOK
<1> SUFFICES ASSUME StatelessInv, HSwitches PROVE HTypeOK
  OBVIOUS
<1>1. HTyped
  BY DEF StatelessInv
<1>2. hpending \in Nat
  BY FS_CardinalityType DEF StatelessInv, CountFits
<1>3. hticks \in Seq({"start", "emit", "settle"} \X AllCalls)
  BY <1>1 DEF HTyped, HTicks
<1>4. received \in [AllCalls -> 0..2]
  BY <1>1 DEF HTyped
<1>5. QED
  BY <1>1, <1>2, <1>3, <1>4 DEF HTypeOK, HTyped, HSwitches, Statuses, HOutcomes, Exchanges

\* The state of stateless channels keeps its type: the pending count is never negative.
THEOREM StatelessTypeCorrect == HSpec => []HTypeOK
  BY StatelessStart, StatelessStep, SwitchesStart, SwitchesKept, StatelessTypes, PTL DEF HSpec

----------------------------------------------------------------------------
(* The client: a call is only given to a channel that takes calls.         *)

PoolInv == PTypeOK /\ ActiveExact

\* Distinct is IsInjective of the community modules, for a sequence.
LEMMA DistinctInjective ==
  ASSUME NEW S, NEW s \in Seq(S)
  PROVE  Distinct(s) <=> IsInjective(s)
  BY DEF Distinct, IsInjective

LEMMA ContainsToSet ==
  ASSUME NEW S, NEW s \in Seq(S), NEW e
  PROVE  Contains(s, e) <=> e \in ToSet(s)
  BY DEF Contains, ToSet

\* Every second one of the active channels is passed over, and they are the ones that
\* destroyChannels does not reach.
LEMMA EveryOther ==
  ASSUME PoolInv
  PROVE  /\ PassedOver \in Seq(Channels) /\ Distinct(PassedOver)
         /\ Walked \in SUBSET Channels
         /\ ToSet(PassedOver) = ToSet(active) \ Walked
<1> DEFINE n == Len(active)
           m == n \div 2
<1>1. active \in Seq(Channels) /\ n \in Nat /\ DOMAIN active = 1..n /\ Distinct(active)
  BY DistinctInjective DEF PoolInv, PTypeOK, ActiveExact
<1>2. m \in Nat /\ 2 * m <= n /\ n <= 2 * m + 1
  BY <1>1
<1>3. \A i \in 1..m : 2 * i \in 1..n /\ active[2 * i] \in Channels
  BY <1>1, <1>2
<1>4. PassedOver \in Seq(Channels) /\ Len(PassedOver) = m /\ DOMAIN PassedOver = 1..m
      /\ \A i \in 1..m : PassedOver[i] = active[2 * i]
  BY <1>2, <1>3 DEF PassedOver
<1> HIDE DEF m
<1>5. Distinct(PassedOver)
  <2>1. SUFFICES ASSUME NEW i \in 1..m, NEW j \in 1..m, PassedOver[i] = PassedOver[j]
                 PROVE  i = j
    BY <1>4 DEF Distinct
  <2>2. 2 * i = 2 * j
    BY <1>1, <1>3, <1>4, <2>1 DEF Distinct
  <2>3. QED
    BY <1>2, <2>2
<1>6. Walked \in SUBSET Channels
  BY <1>1 DEF Walked
<1>7. ASSUME NEW k \in ToSet(PassedOver) PROVE k \in ToSet(active) \ Walked
  <2>1. PICK i \in 1..m : k = active[2 * i]
    BY <1>4 DEF ToSet
  <2>2. k \in ToSet(active)
    BY <1>1, <1>3, <2>1 DEF ToSet
  <2>3. ASSUME NEW j \in 1..n, j % 2 = 1 PROVE active[j] # k
    <3>1. j # 2 * i
      BY <1>2, <2>3
    <3>2. QED
      BY <1>1, <1>3, <2>1, <3>1 DEF Distinct
  <2>4. QED
    BY <1>1, <2>2, <2>3 DEF Walked
<1>8. ASSUME NEW k \in ToSet(active) \ Walked PROVE k \in ToSet(PassedOver)
  <2>1. PICK j \in 1..n : k = active[j]
    BY <1>1, <1>8 DEF ToSet
  <2>2. j % 2 # 1
    BY <1>1, <1>8, <2>1 DEF Walked
  <2>3. j \div 2 \in 1..m /\ 2 * (j \div 2) = j
    BY <1>1, <1>2, <2>2
  <2>4. QED
    BY <1>4, <2>1, <2>3 DEF ToSet
<1>9. QED
  BY <1>4, <1>5, <1>6, <1>7, <1>8

\* A call that is placed, kept or refused leaves the channels alone.
LEMMA PlacingTyped ==
  ASSUME PoolInv, NEW c \in PoolCalls, Place(c)
  PROVE  listeners' \in Seq(PoolCalls) /\ via' \in [PoolCalls -> Channels \cup {NoChannel}]
         /\ fate' \in [PoolCalls -> {"new", "kept", "refused", "skipped", "given", "done"}]
<1>1. Candidates \in SUBSET Channels
  BY DEF PoolInv, PTypeOK, Candidates, ToSet
<1>2. PTypeOK
  BY DEF PoolInv
<1>3. Append(listeners, c) \in Seq(PoolCalls)
  BY <1>2 DEF PTypeOK
<1>4. /\ listeners' = listeners \/ listeners' = Append(listeners, c)
      /\ via' = via \/ \E k \in Candidates : via' = [via EXCEPT ![c] = k]
      /\ \E f \in {"given", "skipped", "kept", "refused"} : fate' = [fate EXCEPT ![c] = f]
  BY Zenon DEF Place
<1>5. QED
  BY <1>1, <1>2, <1>3, <1>4 DEF PTypeOK

LEMMA PoolStart == PInit => PoolInv
<1> SUFFICES ASSUME PInit PROVE PoolInv
  OBVIOUS
<1>0. <<>> \in Seq(Channels) /\ <<>> \in Seq(PoolCalls)
  OBVIOUS
<1>1. PTypeOK
  BY <1>0, PoolAssumption DEF PInit, PTypeOK
<1>2. ActiveExact
  BY DEF PInit, ActiveExact, ToSet, IsInjective
<1>3. QED
  BY <1>1, <1>2 DEF PoolInv

LEMMA PoolStep == PoolInv /\ [PNext]_poolVars => PoolInv'
<1> SUFFICES ASSUME PoolInv, [PNext]_poolVars PROVE PoolInv'
  OBVIOUS
<1>0. PTypeOK /\ ActiveExact
  BY DEF PoolInv
<1>1. ASSUME UNCHANGED <<active, chan>> PROVE ActiveExact'
  BY <1>0, <1>1 DEF ActiveExact
<1>2. ASSUME NEW c \in PoolCalls, EmitMessage(c) PROVE PoolInv'
  BY <1>0, <1>1, <1>2, PlacingTyped DEF EmitMessage, PoolInv, PTypeOK
<1>3. ASSUME Flush PROVE PoolInv'
  <2>1. Head(flushing) \in PoolCalls /\ Tail(flushing) \in Seq(PoolCalls)
    BY <1>0, <1>3 DEF Flush, PTypeOK
  <2>2. QED
    BY <1>0, <1>1, <1>3, <2>1, PlacingTyped DEF Flush, PoolInv, PTypeOK
<1>4. ASSUME NEW c \in PoolCalls, CallBack(c) PROVE PoolInv'
  <2>1. PTypeOK'
    BY <1>0, <1>4 DEF CallBack, PTypeOK
  <2>2. \A k \in Channels : chan'[k] = "open" <=> chan[k] = "open"
    BY <1>0, <1>4 DEF CallBack, PTypeOK
  <2>3. ActiveExact'
    BY <1>0, <1>4, <2>2 DEF CallBack, ActiveExact
  <2>4. QED
    BY <2>1, <2>3 DEF PoolInv
<1>5. ASSUME NEW k \in Channels, CreateChannel(k) PROVE PoolInv'
  <2>1. active' = Append(active, k) /\ chan' = [chan EXCEPT ![k] = "open"] /\ chan[k] = "none"
    BY <1>5 DEF CreateChannel
  <2>2. /\ active' \in Seq(Channels)
        /\ \A e : Contains(active', e) <=> Contains(active, e) \/ e = k
    BY <1>0, <2>1, Enqueued DEF PTypeOK
  <2>3. PTypeOK'
    <3>1. flushing \o listeners \in Seq(PoolCalls) /\ <<>> \in Seq(PoolCalls)
      BY <1>0 DEF PTypeOK
    <3>2. QED
      BY <1>0, <1>5, <2>1, <2>2, <3>1 DEF CreateChannel, PTypeOK, StillBuffering
  <2>4. k \notin ToSet(active)
    BY <1>0, <2>1 DEF ActiveExact
  <2>5. ToSet(active') = ToSet(active) \cup {k}
    BY <1>0, <2>2, ContainsToSet DEF PTypeOK
  <2>6. ToSet(active') = {e \in Channels : chan'[e] = "open"}
    BY <1>0, <2>1, <2>5 DEF ActiveExact, PTypeOK
  <2>7. IsInjective(active')
    BY <1>0, <2>1, <2>4 DEF ActiveExact, PTypeOK, IsInjective, ToSet
  <2>8. QED
    BY <2>3, <2>6, <2>7 DEF PoolInv, ActiveExact
<1>6. ASSUME NEW k \in Channels, NEW noWait \in BOOLEAN, DestroyChannel(k, noWait) PROVE PoolInv'
  <2>1. /\ active' = RemoveFirst(active, k)
        /\ chan' = [chan EXCEPT ![k] = After(k, noWait)]
        /\ After(k, noWait) \in {"ended", "draining"}
    BY <1>6 DEF DestroyChannel, Without, After
  <2>2. active \in Seq(Channels) /\ Distinct(active)
    BY <1>0, DistinctInjective DEF PTypeOK, ActiveExact
  <2>3. /\ active' \in Seq(Channels) /\ Distinct(active')
        /\ \A e : Contains(active', e) <=> Contains(active, e) /\ e # k
    BY <2>1, <2>2, RemovedFirst
  <2>4. PTypeOK'
    BY <1>0, <1>6, <2>1, <2>3 DEF DestroyChannel, PTypeOK
  <2>5. ToSet(active') = ToSet(active) \ {k}
    BY <2>2, <2>3, ContainsToSet
  <2>6. ToSet(active') = {e \in Channels : chan'[e] = "open"}
    BY <1>0, <2>1, <2>5 DEF ActiveExact, PTypeOK
  <2>7. IsInjective(active')
    BY <2>3, DistinctInjective
  <2>8. QED
    BY <2>4, <2>6, <2>7 DEF PoolInv, ActiveExact
<1>7. ASSUME NEW noWait \in BOOLEAN, DestroyChannels(noWait) PROVE PoolInv'
  <2>1. \A k \in Channels : After(k, noWait) \in {"ended", "draining"}
    BY DEF After
  <2>2. /\ active' \in Seq(Channels) /\ Distinct(active')
        /\ Walked \in SUBSET Channels
        /\ ToSet(active') = ToSet(active) \ Walked
    BY <1>7, EveryOther DEF DestroyChannels
  <2>3. PTypeOK'
    BY <1>0, <1>7, <2>1, <2>2 DEF DestroyChannels, PTypeOK
  <2>4. \A k \in Channels : chan'[k] = "open" <=> chan[k] = "open" /\ k \notin Walked
    BY <1>7, <2>1 DEF DestroyChannels
  <2>5. ToSet(active') = {k \in Channels : chan'[k] = "open"}
    BY <1>0, <2>2, <2>4 DEF ActiveExact
  <2>6. IsInjective(active')
    BY <2>2, DistinctInjective
  <2>7. QED
    BY <2>3, <2>5, <2>6 DEF PoolInv, ActiveExact
<1>8. CASE UNCHANGED poolVars
  BY <1>0, <1>8 DEF PoolInv, PTypeOK, ActiveExact, poolVars
<1>9. QED
  BY <1>2, <1>3, <1>4, <1>5, <1>6, <1>7, <1>8 DEF PNext

\* Whatever calls are made and channels made and destroyed, alone or all together: the
\* channels a call may be given to are those that take calls, each once.
THEOREM CallsGoToOpenChannels == PSpec => []ActiveExact
<1>1. PoolInv => ActiveExact
  BY DEF PoolInv
<1>2. QED
  BY <1>1, PoolStart, PoolStep, PTL DEF PSpec

----------------------------------------------------------------------------
(* The frame codecs: what an integer is written and read as.               *)

\* A number and its lowest byte.
LEMMA LowestByte ==
  ASSUME NEW n \in Int
  PROVE  \E p \in Int, a \in 0..255 : p = n \div 256 /\ a = n % 256 /\ n = 256 * p + a
<1>1. n \div 256 \in Int /\ n % 256 \in 0..255
  BY SMT
<1>2. n % 256 = n - 256 * (n \div 256)
  BY SMT
<1>3. PICK p \in Int : p = n \div 256
  BY <1>1
<1>4. PICK a \in 0..255 : a = n % 256
  BY <1>1
<1>5. n = 256 * p + a
  BY <1>2, <1>3, <1>4, SMT
<1>6. QED
  BY <1>3, <1>4, <1>5

\* What was written as 32 bits is read.
LEMMA IntIsRead ==
  ASSUME NEW n \in Int32
  PROVE  /\ IntBuffer(n) \in Seq(Byte) /\ Len(IntBuffer(n)) = 4
         /\ ReadInt(IntBuffer(n)) = n
<1>0. MaxInt32 = 2147483647
  BY SMT DEF MaxInt32
<1>1. n \in Int /\ -2147483648 <= n /\ n <= 2147483647
  <2>1. PICK m \in Int : m = MaxInt32
    BY <1>0, SMT
  <2>2. n \in -m - 1 .. m
    BY <2>1 DEF Int32
  <2>3. n \in Int /\ -m - 1 <= n /\ n <= m
    BY <2>2, SMT
  <2>4. QED
    BY <1>0, <2>1, <2>3, SMT
<1>2. PICK p \in Int, a \in 0..255 : p = n \div 256 /\ a = n % 256 /\ n = 256 * p + a
  BY <1>1, LowestByte
<1>3. PICK q \in Int, b \in 0..255 : q = p \div 256 /\ b = p % 256 /\ p = 256 * q + b
  <2>1. p \in Int
    BY <1>2
  <2>2. QED
    BY <2>1, LowestByte
<1>4. PICK r \in Int, c \in 0..255 : r = q \div 256 /\ c = q % 256 /\ q = 256 * r + c
  <2>1. q \in Int
    BY <1>3
  <2>2. QED
    BY <2>1, LowestByte
<1>5. n \div 65536 = q
  BY <1>1, <1>2, <1>3, SMT
<1>6. n \div 16777216 = r
  BY <1>1, <1>2, <1>3, <1>4, SMT
<1>7. r \in -128..127
  BY <1>1, <1>2, <1>3, <1>4, SMT
<1>8. PICK e \in 0..255 : e = r % 256 /\ r = IF e < 128 THEN e ELSE e - 256
  BY <1>7, SMT
<1>9. IntBuffer(n) = <<e, c, b, a>>
  BY <1>2, <1>3, <1>4, <1>5, <1>6, <1>8, SMT DEF IntBuffer
<1>10. n = 16777216 * r + 65536 * c + 256 * b + a
  BY <1>2, <1>3, <1>4, SMT
<1>11. ReadInt(<<e, c, b, a>>) = 16777216 * r + 65536 * c + 256 * b + a
  BY <1>8, SMT DEF ReadInt
<1>12. /\ <<e, c, b, a>> \in Seq(Byte) /\ Len(<<e, c, b, a>>) = 4
  BY SMT DEF Byte
<1>13. QED
  BY <1>9, <1>10, <1>11, <1>12, SMT

----------------------------------------------------------------------------
(* What the codecs write, piece by piece.                                  *)

\* The frames of a payload, before they are joined.
FrameList(payload) == [i \in DOMAIN payload |-> FrameOf(payload[i])]

\* What is not too long fits 32 bits.
LEMMA SmallEnough ==
  /\ 0 \in Int32
  /\ \A n \in 1..MaxInt32 : n \in Int32 /\ n \in Nat /\ n # 0
<1>1. PICK m \in Nat : m = MaxInt32
  BY SMT DEF MaxInt32
<1>2. \A n \in Int : -m - 1 <= n /\ n <= m => n \in Int32
  BY <1>1 DEF Int32
<1>3. \A n \in 1..m : n \in Int32 /\ n \in Nat /\ n # 0
  BY <1>2
<1>4. QED
  BY <1>1, <1>2, <1>3

\* A message that a channel writes.
LEMMA WrittenTypes ==
  ASSUME messages \in Traffic, NEW i \in 1..Len(messages)
  PROVE  /\ messages[i] \in [id : Int32, payload : Seq(Seq(Byte))] /\ messages[i].id # NoId
         /\ Len(messages[i].payload) \in Int32 /\ Len(messages[i].payload) \in Nat \ {0}
         /\ \A j \in 1..Len(messages[i].payload) :
              /\ messages[i].payload[j] \in Seq(Byte)
              /\ Len(messages[i].payload[j]) \in Int32 /\ Len(messages[i].payload[j]) \in Nat \ {0}
<1> DEFINE M == [id : Int32, payload : Seq(Seq(Byte))]
           p == messages[i].payload
<1>1. /\ messages \in Seq(M) /\ NoId \notin Int32
      /\ \A e \in DOMAIN messages :
           /\ Len(messages[e].payload) \in 1..MaxInt32
           /\ \A j \in DOMAIN messages[e].payload : Len(messages[e].payload[j]) \in 1..MaxInt32
  BY TrafficAssumption
<1>2. i \in DOMAIN messages /\ messages[i] \in M
  BY <1>1, LenProperties, ElementOfSeq
<1>3. p \in Seq(Seq(Byte)) /\ messages[i].id \in Int32
  BY <1>2
<1>4. /\ Len(p) \in 1..MaxInt32
      /\ \A j \in DOMAIN p : Len(p[j]) \in 1..MaxInt32
  BY <1>1, <1>2
<1> HIDE DEF M, p
<1>5. DOMAIN p = 1..Len(p) /\ \A j \in 1..Len(p) : p[j] \in Seq(Byte)
  BY <1>3, LenProperties, ElementOfSeq
<1>6. Len(p) \in Int32 /\ Len(p) \in Nat \ {0}
  BY <1>4, SmallEnough
<1>7. \A j \in 1..Len(p) : p[j] \in Seq(Byte) /\ Len(p[j]) \in Int32 /\ Len(p[j]) \in Nat \ {0}
  BY <1>4, <1>5, SmallEnough
<1>8. QED
  BY <1>1, <1>2, <1>3, <1>6, <1>7 DEF M, p

\* Its frames.
LEMMA FramesTyped ==
  ASSUME NEW p \in Seq(Seq(Byte)), \A j \in 1..Len(p) : Len(p[j]) \in Int32
  PROVE  /\ FrameList(p) \in Seq(Seq(Byte)) /\ Len(FrameList(p)) = Len(p)
         /\ \A j \in 1..Len(p) : FrameList(p)[j] = IntBuffer(Len(p[j])) \o p[j]
         /\ Frames(p) = FlattenSeq(FrameList(p)) /\ Frames(p) \in Seq(Byte)
<1>1. Len(p) \in Nat /\ DOMAIN p = 1..Len(p) /\ \A j \in 1..Len(p) : p[j] \in Seq(Byte)
  BY LenProperties, ElementOfSeq
<1>2. \A j \in 1..Len(p) : IntBuffer(Len(p[j])) \in Seq(Byte)
  BY IntIsRead
<1>3. \A j \in 1..Len(p) : FrameOf(p[j]) \in Seq(Byte) /\ FrameOf(p[j]) = IntBuffer(Len(p[j])) \o p[j]
  BY <1>1, <1>2, ConcatProperties DEF FrameOf
<1>4. FrameList(p) = [j \in 1..Len(p) |-> FrameOf(p[j])]
  BY <1>1 DEF FrameList
<1>5. FrameList(p) \in Seq(Seq(Byte)) /\ Len(FrameList(p)) = Len(p)
  BY <1>1, <1>3, <1>4
<1>6. Frames(p) = FlattenSeq(FrameList(p))
  BY DEF Frames, FrameList
<1>7. FlattenSeq(FrameList(p)) \in Seq(Byte)
  BY <1>5, FlatTyped
<1>8. QED
  BY <1>3, <1>4, <1>5, <1>6, <1>7

\* The encodings of a channel's messages.
LEMMA EncodingsTyped ==
  ASSUME messages \in Traffic, netty \in BOOLEAN
  PROVE  /\ Len(messages) \in Nat
         /\ Encodings \in Seq(Seq(Byte)) /\ Len(Encodings) = Len(messages)
         /\ \A i \in 1..Len(messages) : Encodings[i] = Encode(messages[i])
<1>1. Len(messages) \in Nat /\ DOMAIN messages = 1..Len(messages)
  BY TrafficAssumption, LenProperties
<1>2. ASSUME NEW i \in 1..Len(messages) PROVE Encode(messages[i]) \in Seq(Byte)
  <2>1. /\ messages[i].payload \in Seq(Seq(Byte)) /\ messages[i].id \in Int32
        /\ Len(messages[i].payload) \in Int32
        /\ \A j \in 1..Len(messages[i].payload) : Len(messages[i].payload[j]) \in Int32
    BY WrittenTypes
  <2>2. Frames(messages[i].payload) \in Seq(Byte)
    BY <2>1, FramesTyped
  <2>3. /\ IntBuffer(messages[i].id) \in Seq(Byte) /\ IntBuffer(Len(messages[i].payload)) \in Seq(Byte)
        /\ IntBuffer(0) \in Seq(Byte)
    BY <2>1, IntIsRead, SmallEnough
  <2>4. IntBuffer(messages[i].id) \o IntBuffer(Len(messages[i].payload)) \in Seq(Byte)
    BY <2>3, ConcatProperties
  <2>5. NettyEncode(messages[i]) \in Seq(Byte)
    BY <2>2, <2>4, ConcatProperties DEF NettyEncode
  <2>6. StandardEncode(messages[i]) \in Seq(Byte)
    BY <2>2, <2>3, ConcatProperties DEF StandardEncode
  <2>7. QED
    BY <2>5, <2>6 DEF Encode
<1>3. Encodings = [i \in 1..Len(messages) |-> Encode(messages[i])]
  BY <1>1 DEF Encodings
<1>4. QED
  BY <1>1, <1>2, <1>3

\* What is behind the first k messages begins with the next.
LEMMA NextEncoding ==
  ASSUME messages \in Traffic, netty \in BOOLEAN, NEW k \in 0..Len(messages) - 1,
         NEW p, p = messages[k + 1].payload
  PROVE  /\ Behind(Encodings, k) \in Seq(Byte) /\ Behind(Encodings, k + 1) \in Seq(Byte)
         /\ Behind(Encodings, k) = Encodings[k + 1] \o Behind(Encodings, k + 1)
         /\ Behind(FrameList(p), 0) \in Seq(Byte)
         /\ ~netty => Behind(Encodings, k) = Behind(FrameList(p), 0) \o (IntBuffer(0) \o Behind(Encodings, k + 1))
         /\ netty => Behind(Encodings, k) = IntBuffer(messages[k + 1].id) \o (IntBuffer(Len(p)) \o (Behind(FrameList(p), 0) \o Behind(Encodings, k + 1)))
<1>1. /\ Len(messages) \in Nat /\ k \in 0..Len(Encodings) - 1
      /\ Encodings \in Seq(Seq(Byte)) /\ Encodings[k + 1] = Encode(messages[k + 1]) /\ Len(Encodings) = Len(messages)
      /\ k + 1 \in 1..Len(messages) /\ k \in 0..Len(Encodings) /\ k + 1 \in 0..Len(Encodings)
  BY EncodingsTyped
<1>2. /\ p \in Seq(Seq(Byte)) /\ messages[k + 1].id \in Int32 /\ Len(p) \in Int32
      /\ \A j \in 1..Len(p) : Len(p[j]) \in Int32
  BY <1>1, WrittenTypes
<1>3. Frames(p) = Behind(FrameList(p), 0) /\ Frames(p) \in Seq(Byte)
  BY <1>2, FramesTyped, BehindNext
<1>4. /\ IntBuffer(messages[k + 1].id) \in Seq(Byte) /\ IntBuffer(Len(p)) \in Seq(Byte)
      /\ IntBuffer(0) \in Seq(Byte)
  BY <1>2, IntIsRead, SmallEnough
<1>5. Behind(Encodings, k) \in Seq(Byte) /\ Behind(Encodings, k + 1) \in Seq(Byte)
  BY <1>1, FlatCut
<1>6. Behind(Encodings, k) = Encodings[k + 1] \o Behind(Encodings, k + 1)
  BY <1>1, BehindNext
<1>7. \A s, t, u \in Seq(Byte) : (s \o t) \o u = s \o (t \o u)
  BY Regrouped
<1>8. ASSUME ~netty
      PROVE  Behind(Encodings, k) = Frames(p) \o (IntBuffer(0) \o Behind(Encodings, k + 1))
  <2> DEFINE a == Frames(p)
             b == IntBuffer(0)
             r == Behind(Encodings, k + 1)
  <2>1. Encodings[k + 1] = a \o b
    BY <1>1, <1>8 DEF Encode, StandardEncode
  <2>2. a \in Seq(Byte) /\ b \in Seq(Byte) /\ r \in Seq(Byte)
    BY <1>3, <1>4, <1>5
  <2>3. Behind(Encodings, k) = (a \o b) \o r
    BY <1>6, <2>1
  <2> HIDE DEF a, b, r
  <2>4. (a \o b) \o r = a \o (b \o r)
    BY <1>7, <2>2
  <2>5. QED
    BY <2>3, <2>4 DEF a, b, r
<1>9. ASSUME netty
      PROVE  Behind(Encodings, k) = IntBuffer(messages[k + 1].id) \o (IntBuffer(Len(p)) \o (Frames(p) \o Behind(Encodings, k + 1)))
  <2> DEFINE a == IntBuffer(messages[k + 1].id)
             b == IntBuffer(Len(p))
             c == Frames(p)
             r == Behind(Encodings, k + 1)
  <2>1. Encodings[k + 1] = (a \o b) \o c
    BY <1>1, <1>9 DEF Encode, NettyEncode
  <2>2. a \in Seq(Byte) /\ b \in Seq(Byte) /\ c \in Seq(Byte) /\ r \in Seq(Byte)
    BY <1>3, <1>4, <1>5
  <2>3. Behind(Encodings, k) = ((a \o b) \o c) \o r
    BY <1>6, <2>1
  <2> HIDE DEF a, b, c, r
  <2>4. ((a \o b) \o c) \o r = (a \o b) \o (c \o r)
    <3>1. PICK e : e = a \o b
      OBVIOUS
    <3>2. e \in Seq(Byte)
      BY <2>2, <3>1, ConcatProperties
    <3>3. (e \o c) \o r = e \o (c \o r)
      BY <1>7, <2>2, <3>2
    <3>4. QED
      BY <3>1, <3>3
  <2>5. (a \o b) \o (c \o r) = a \o (b \o (c \o r))
    <3>1. PICK e : e = c \o r
      OBVIOUS
    <3>2. e \in Seq(Byte)
      BY <2>2, <3>1, ConcatProperties
    <3>3. (a \o b) \o e = a \o (b \o e)
      BY <1>7, <2>2, <3>2
    <3>4. QED
      BY <3>1, <3>3
  <2>6. QED
    BY <2>3, <2>4, <2>5 DEF a, b, c, r
<1>10. QED
  BY <1>3, <1>5, <1>6, <1>8, <1>9

\* Behind the first j frames of a message comes the next.
LEMMA NextFrame ==
  ASSUME NEW p \in Seq(Seq(Byte)), \A j \in 1..Len(p) : Len(p[j]) \in Int32
  PROVE  /\ \A j \in 0..Len(p) : Behind(FrameList(p), j) \in Seq(Byte)
         /\ Behind(FrameList(p), Len(p)) = <<>>
         /\ \A j \in 0..Len(p) - 1 :
              Behind(FrameList(p), j) = (IntBuffer(Len(p[j + 1])) \o p[j + 1]) \o Behind(FrameList(p), j + 1)
<1>1. /\ FrameList(p) \in Seq(Seq(Byte)) /\ Len(FrameList(p)) = Len(p) /\ Len(p) \in Nat
      /\ \A j \in 1..Len(p) : FrameList(p)[j] = IntBuffer(Len(p[j])) \o p[j]
  BY FramesTyped, LenProperties
<1>2. \A j \in 0..Len(p) : Behind(FrameList(p), j) \in Seq(Byte)
  BY <1>1, FlatCut
<1>3. Behind(FrameList(p), Len(p)) = <<>>
  BY <1>1, BehindNext
<1>4. \A j \in 0..Len(p) - 1 : Behind(FrameList(p), j) = FrameList(p)[j + 1] \o Behind(FrameList(p), j + 1)
  BY <1>1, BehindNext
<1>5. \A j \in 0..Len(p) - 1 : j + 1 \in 1..Len(p)
  BY <1>1
<1>6. QED
  BY <1>1, <1>2, <1>3, <1>4, <1>5
----------------------------------------------------------------------------
(* What is read of it.                                                     *)

\* Four bytes are read as the number they were written for.
LEMMA HeadRead ==
  ASSUME NEW buf \in Seq(Byte), NEW r \in Seq(Byte), NEW t \in Seq(Byte), NEW n \in Int32,
         Cuts(buf, r, IntBuffer(n), t), Len(buf) >= 4
  PROVE  /\ ReadInt(buf) = n
         /\ Slice(buf, 4) \in Seq(Byte) /\ Len(Slice(buf, 4)) = Len(buf) - 4
         /\ Slice(buf, 4) \o r = t
<1> DEFINE h == IntBuffer(n)
<1>1. h \in Seq(Byte) /\ Len(h) = 4 /\ ReadInt(h) = n
  BY IntIsRead
<1>0. Cuts(buf, r, h, t)
  OBVIOUS
<1> HIDE DEF h
<1>2. /\ SubSeq(buf, 1, 4) = h
      /\ SubSeq(buf, 5, Len(buf)) \in Seq(Byte) /\ Len(SubSeq(buf, 5, Len(buf))) = Len(buf) - 4
      /\ SubSeq(buf, 5, Len(buf)) \o r = t
  <2>1. h \in Seq(Byte) /\ Len(buf) >= Len(h)
    BY <1>1
  <2>2. /\ SubSeq(buf, 1, Len(h)) = h
        /\ SubSeq(buf, Len(h) + 1, Len(buf)) \in Seq(Byte)
        /\ Len(SubSeq(buf, Len(h) + 1, Len(buf))) = Len(buf) - Len(h)
        /\ SubSeq(buf, Len(h) + 1, Len(buf)) \o r = t
    <3>1. Cuts(SubSeq(buf, Len(h) + 1, Len(buf)), r, <<>>, t) /\ <<>> \o t = t
      BY <1>0, <2>1, ReadOff, ConcatEmptySeq
    <3>2. QED
      <4>1. SubSeq(buf, Len(h) + 1, Len(buf)) \o r = t
        BY <3>1 DEF Cuts
      <4>2. QED
        BY <1>0, <2>1, <4>1, ReadOff
  <2>3. QED
    BY <1>1, <2>2
<1>3. /\ Len(buf) \in Nat /\ \A i \in 1..Len(buf) : buf[i] \in Byte
  BY LenProperties, ElementOfSeq
<1>4. \A i \in 1..4 : h[i] = buf[i]
  BY <1>2, <1>3, SubSeqProperties
<1>5. h[1] = buf[1] /\ h[2] = buf[2] /\ h[3] = buf[3] /\ h[4] = buf[4]
  BY <1>4
<1>6. ReadInt(buf) = ReadInt(h)
  BY <1>5, SMT DEF ReadInt
<1>7. QED
  BY <1>1, <1>2, <1>6 DEF Slice

\* A frame is taken when all of it is there, and leaves the rest.
FrameTakes(buf, r, x, t) ==
  /\ Len(buf) >= 4 => ReadInt(buf) = Len(x)
  /\ HasFrame(buf) <=> Len(buf) >= 4 + Len(x)
  /\ HasFrame(buf) => /\ SubSeq(buf, 5, 4 + Len(x)) = x
                      /\ Slice(buf, 4 + Len(x)) \in Seq(Byte)
                      /\ Len(Slice(buf, 4 + Len(x))) = Len(buf) - (4 + Len(x))
                      /\ Slice(buf, 4 + Len(x)) \o r = t

\* It is, when what has arrived and what has not begin with it.
LEMMA FrameRead ==
  ASSUME NEW buf \in Seq(Byte), NEW r \in Seq(Byte), NEW t \in Seq(Byte), NEW x \in Seq(Byte),
         Len(x) \in Int32, Cuts(buf, r, IntBuffer(Len(x)) \o x, t)
  PROVE  FrameTakes(buf, r, x, t)
<1> DEFINE h == IntBuffer(Len(x))
           f == h \o x
<1>1. h \in Seq(Byte) /\ Len(h) = 4
  BY IntIsRead
<1>2. Len(buf) \in Nat /\ Len(x) \in Nat /\ \A i \in 1..Len(buf) : buf[i] \in Byte
  BY LenProperties, ElementOfSeq
<1>0. Cuts(buf, r, f, t)
  OBVIOUS
<1>3. /\ f \in Seq(Byte) /\ Len(f) = 4 + Len(x)
      /\ \A i \in 1..4 + Len(x) : f[i] = IF i <= 4 THEN h[i] ELSE x[i - 4]
  <2> HIDE DEF h
  <2>1. /\ f \in Seq(Byte) /\ Len(f) = Len(h) + Len(x)
        /\ \A i \in 1..Len(h) + Len(x) : f[i] = IF i <= Len(h) THEN h[i] ELSE x[i - Len(h)]
    BY <1>1, ConcatProperties
  <2> HIDE DEF f
  <2>2. QED
    BY <1>1, <2>1
<1>4. f \o t = h \o (x \o t) /\ x \o t \in Seq(Byte)
  <2> HIDE DEF h
  <2>1. (h \o x) \o t = h \o (x \o t)
    BY <1>1, ConcatAssociative, SMTT(60)
  <2>2. x \o t \in Seq(Byte)
    BY ConcatProperties
  <2>3. QED
    BY <2>1, <2>2
<1>5. Len(buf) >= 4 => ReadInt(buf) = Len(x)
  <2>1. PICK u \in Seq(Byte) : u = x \o t
    BY <1>4
  <2>2. Cuts(buf, r, IntBuffer(Len(x)), u)
    BY <1>0, <1>4, <2>1 DEF Cuts
  <2>3. QED
    BY <2>2, HeadRead
<1>6. HasFrame(buf) <=> Len(buf) >= 4 + Len(x)
  BY <1>2, <1>5 DEF HasFrame
<1>7. ASSUME HasFrame(buf)
      PROVE  /\ SubSeq(buf, 5, 4 + Len(x)) = x
             /\ Slice(buf, 4 + Len(x)) \in Seq(Byte)
             /\ Len(Slice(buf, 4 + Len(x))) = Len(buf) - (4 + Len(x))
             /\ Slice(buf, 4 + Len(x)) \o r = t
  <2> HIDE DEF f
  <2>2. Len(buf) >= 4 + Len(x) /\ Len(buf) >= Len(f) /\ f \in Seq(Byte)
    BY <1>3, <1>6, <1>7
  <2>3. /\ SubSeq(buf, 1, Len(f)) = f
        /\ SubSeq(buf, Len(f) + 1, Len(buf)) \in Seq(Byte)
        /\ Len(SubSeq(buf, Len(f) + 1, Len(buf))) = Len(buf) - Len(f)
        /\ SubSeq(buf, Len(f) + 1, Len(buf)) \o r = t
    <3>1. Cuts(SubSeq(buf, Len(f) + 1, Len(buf)), r, <<>>, t) /\ <<>> \o t = t
      BY <1>0, <2>2, ReadOff, ConcatEmptySeq
    <3>2. QED
      <4>1. SubSeq(buf, Len(f) + 1, Len(buf)) \o r = t
        BY <3>1 DEF Cuts
      <4>2. QED
        BY <1>0, <2>2, <4>1, ReadOff
  <2>4. \A i \in 1..4 + Len(x) : f[i] = buf[i]
    BY <1>2, <1>3, <2>2, <2>3, SubSeqProperties
  <2> DEFINE s == SubSeq(buf, 5, 4 + Len(x))
  <2>5. s \in Seq(Byte) /\ Len(s) = Len(x) /\ \A i \in 1..Len(x) : s[i] = buf[4 + i]
    BY <1>2, <2>2, SubSeqProperties
  <2>6. \A i \in 1..Len(x) : s[i] = x[i]
    <3>1. TAKE i \in 1..Len(x)
    <3>2. 4 + i \in 1..4 + Len(x) /\ ~(4 + i <= 4) /\ 4 + i - 4 = i
      BY <1>2
    <3>3. f[4 + i] = x[i]
      BY <1>3, <3>2
    <3> HIDE DEF s
    <3>4. QED
      BY <2>4, <2>5, <3>2, <3>3
  <2> HIDE DEF s
  <2>7. s = x
    BY <2>5, <2>6, SeqEqual
  <2>8. QED
    BY <1>3, <2>3, <2>7 DEF s, Slice
<1>8. QED
  BY <1>5, <1>6, <1>7 DEF FrameTakes

----------------------------------------------------------------------------
(* Where a decoder is in the stream.                                       *)

\* Messages and decoders.
Read == [id : Int32 \cup {NoId}, payload : Seq(Seq(Byte))]
DecoderType ==
  [id : Int32 \cup {NoId}, frameCount : Nat, buf : Seq(Byte), bufs : Seq(Seq(Byte)), out : Seq(Read)]

\* The first k messages, as they are pushed.
Sent(k) == [i \in 1..k |-> AsRead(messages[i])]

\* What ends message k + 1 and follows it.
Ending(k) == IF netty THEN Behind(Encodings, k + 1) ELSE IntBuffer(0) \o Behind(Encodings, k + 1)

\* What a decoder that gave k messages has not used of the stream.
Unused(d, k) ==
  IF k = Len(messages) THEN <<>>
  ELSE IF netty /\ d.id = NoId THEN Behind(Encodings, k)
  ELSE Behind(FrameList(messages[k + 1].payload), Len(d.bufs)) \o Ending(k)

\* Its fields are those of message k + 1.
AtMessage(d, k) ==
  /\ k \in 0..Len(messages)
  /\ k = Len(messages) => d.bufs = <<>> /\ d.id = NoId
  /\ k < Len(messages) => /\ Len(d.bufs) <= Len(messages[k + 1].payload)
                          /\ d.bufs = SubSeq(messages[k + 1].payload, 1, Len(d.bufs))
  /\ ~netty => d.id = NoId
  /\ netty /\ d.id = NoId => d.bufs = <<>>
  /\ netty /\ d.id # NoId => /\ d.id = messages[k + 1].id
                             /\ d.frameCount = Len(messages[k + 1].payload) - Len(d.bufs)

\* How many messages a decoder has read that pushed those before.
ReadSoFar(d, before) == Len(before) + Len(d.out)

\* The decoder read the messages before and those it gives, and its buffer and the rest
\* are what it has not used.
Reads(d, before, rest) ==
  /\ d \in DecoderType
  /\ AtMessage(d, ReadSoFar(d, before))
  /\ before \o d.out = Sent(ReadSoFar(d, before))
  /\ Cuts(d.buf, rest, <<>>, Unused(d, ReadSoFar(d, before)))

\* What it has is not all that is left of the next message.
HasToWait(d, k) ==
  k < Len(messages) => Len(d.buf) + Len(Behind(Encodings, k + 1)) < Len(Unused(d, k))

\* What is unused, at a message's start and after some of its frames.
LEMMA UnusedTyped ==
  ASSUME messages \in Traffic, netty \in BOOLEAN, NEW d \in DecoderType, NEW k \in 0..Len(messages),
         AtMessage(d, k)
  PROVE  /\ Unused(d, k) \in Seq(Byte)
         /\ d.bufs = <<>> /\ d.id = NoId => Unused(d, k) = Behind(Encodings, k)
         /\ k < Len(messages) => Behind(Encodings, k + 1) \in Seq(Byte) /\ Ending(k) \in Seq(Byte)
<1>1. /\ Len(messages) \in Nat
      /\ Encodings \in Seq(Seq(Byte)) /\ Len(Encodings) = Len(messages)
  BY EncodingsTyped
<1>2. CASE k = Len(messages)
  <2>1. Behind(Encodings, k) = <<>> /\ Unused(d, k) = <<>>
    BY <1>1, <1>2, BehindNext DEF Unused
  <2>2. QED
    BY <1>2, <2>1, EmptySeq
<1>3. CASE k # Len(messages)
  <2>1. k \in 0..Len(messages) - 1 /\ k + 1 \in 1..Len(messages) /\ k < Len(messages)
    BY <1>1, <1>3
  <2>2. PICK p : p = messages[k + 1].payload
    OBVIOUS
  <2>3. p \in Seq(Seq(Byte)) /\ Len(p) \in Nat /\ \A j \in 1..Len(p) : Len(p[j]) \in Int32
    BY <2>1, <2>2, WrittenTypes
  <2>4. /\ Behind(Encodings, k) \in Seq(Byte) /\ Behind(Encodings, k + 1) \in Seq(Byte)
        /\ ~netty => Behind(Encodings, k) = Behind(FrameList(p), 0) \o (IntBuffer(0) \o Behind(Encodings, k + 1))
    BY <2>1, <2>2, NextEncoding
  <2>5. IntBuffer(0) \in Seq(Byte)
    BY IntIsRead, SmallEnough
  <2>6. Ending(k) \in Seq(Byte)
    <3>1. IntBuffer(0) \o Behind(Encodings, k + 1) \in Seq(Byte)
      BY <2>4, <2>5, ConcatProperties
    <3>2. QED
      BY <2>4, <3>1 DEF Ending
  <2>7. Len(d.bufs) \in Nat /\ Len(d.bufs) <= Len(p)
    BY <2>1, <2>2, LenProperties DEF AtMessage, DecoderType
  <2>8. Behind(FrameList(p), Len(d.bufs)) \in Seq(Byte)
    <3>1. PICK n : n = Len(d.bufs)
      OBVIOUS
    <3>2. n \in 0..Len(p)
      BY <2>3, <2>7, <3>1
    <3>3. Behind(FrameList(p), n) \in Seq(Byte)
      BY <2>3, <3>2, NextFrame
    <3>4. QED
      BY <3>1, <3>3
  <2>9. Unused(d, k) = IF netty /\ d.id = NoId THEN Behind(Encodings, k) ELSE Behind(FrameList(p), Len(d.bufs)) \o Ending(k)
    BY <1>3, <2>2 DEF Unused
  <2>10. Behind(FrameList(p), Len(d.bufs)) \o Ending(k) \in Seq(Byte)
    BY <2>6, <2>8, ConcatProperties
  <2>11. ASSUME d.bufs = <<>>, d.id = NoId PROVE Unused(d, k) = Behind(Encodings, k)
    <3>1. Len(d.bufs) = 0
      BY <2>11
    <3>2. ~netty => Ending(k) = IntBuffer(0) \o Behind(Encodings, k + 1)
      BY DEF Ending
    <3>3. ~netty => Unused(d, k) = Behind(FrameList(p), 0) \o Ending(k)
      BY <2>9, <3>1
    <3>4. netty => Unused(d, k) = Behind(Encodings, k)
      BY <2>9, <2>11
    <3>5. QED
      BY <2>4, <3>2, <3>3, <3>4
  <2>12. QED
    BY <2>4, <2>6, <2>9, <2>10, <2>11
<1>4. QED
  BY <1>2, <1>3

\* Inside a message p, after j of its frames: the next frame, or its ending.
Inside(d, k, p, j) ==
  /\ j \in 0..Len(p) /\ Len(p) \in Nat /\ p \in Seq(Seq(Byte))
  /\ j = Len(p) => Unused(d, k) = Ending(k) /\ d.bufs = p
  /\ j < Len(p) => /\ p[j + 1] \in Seq(Byte) /\ Len(p[j + 1]) \in Int32 /\ Len(p[j + 1]) \in Nat \ {0}
                   /\ Behind(FrameList(p), j + 1) \o Ending(k) \in Seq(Byte)
                   /\ Unused(d, k) = (IntBuffer(Len(p[j + 1])) \o p[j + 1]) \o (Behind(FrameList(p), j + 1) \o Ending(k))
                   /\ Append(d.bufs, p[j + 1]) = SubSeq(p, 1, j + 1)

\* What is unused has this form.
LEMMA UnusedInside ==
  ASSUME messages \in Traffic, netty \in BOOLEAN, NEW d \in DecoderType, NEW k \in 0..Len(messages) - 1,
         AtMessage(d, k), netty => d.id # NoId,
         NEW p, p = messages[k + 1].payload, NEW j, j = Len(d.bufs)
  PROVE  Inside(d, k, p, j)
<1>1. /\ Len(messages) \in Nat /\ k + 1 \in 1..Len(messages) /\ k \in 0..Len(messages) /\ k < Len(messages)
      /\ k # Len(messages)
  BY EncodingsTyped
<1>2. /\ p \in Seq(Seq(Byte)) /\ Len(p) \in Nat
      /\ \A i \in 1..Len(p) : p[i] \in Seq(Byte) /\ Len(p[i]) \in Int32 /\ Len(p[i]) \in Nat \ {0}
  BY <1>1, WrittenTypes
<1>3. j \in 0..Len(p) /\ d.bufs = SubSeq(p, 1, j)
  BY <1>1, LenProperties DEF AtMessage, DecoderType
<1>4. Unused(d, k) = Behind(FrameList(p), j) \o Ending(k)
  BY <1>1 DEF Unused
<1>5. Ending(k) \in Seq(Byte)
  BY <1>1, UnusedTyped
<1>6. ASSUME j = Len(p) PROVE Unused(d, k) = Ending(k) /\ d.bufs = p
  <2>1. Behind(FrameList(p), j) = <<>>
    BY <1>2, <1>6, NextFrame
  <2>2. <<>> \o Ending(k) = Ending(k)
    BY <1>5, ConcatEmptySeq
  <2>3. SubSeq(p, 1, j) = p
    BY <1>2, <1>6, SubSeqFull
  <2>4. QED
    BY <1>3, <1>4, <2>1, <2>2, <2>3
<1>7. ASSUME j < Len(p)
      PROVE  /\ p[j + 1] \in Seq(Byte) /\ Len(p[j + 1]) \in Int32 /\ Len(p[j + 1]) \in Nat \ {0}
             /\ Behind(FrameList(p), j + 1) \o Ending(k) \in Seq(Byte)
             /\ Unused(d, k) = (IntBuffer(Len(p[j + 1])) \o p[j + 1]) \o (Behind(FrameList(p), j + 1) \o Ending(k))
             /\ Append(d.bufs, p[j + 1]) = SubSeq(p, 1, j + 1)
  <2>1. j \in 0..Len(p) - 1 /\ j + 1 \in 1..Len(p) /\ j + 1 \in 0..Len(p)
    BY <1>2, <1>3, <1>7
  <2>2. p[j + 1] \in Seq(Byte) /\ Len(p[j + 1]) \in Int32 /\ Len(p[j + 1]) \in Nat \ {0}
    BY <1>2, <2>1
  <2>3. PICK f : f = IntBuffer(Len(p[j + 1])) \o p[j + 1]
    OBVIOUS
  <2>4. IntBuffer(Len(p[j + 1])) \in Seq(Byte)
    BY <2>2, IntIsRead
  <2>5. f \in Seq(Byte)
    BY <2>2, <2>3, <2>4, ConcatProperties
  <2>6. PICK b : b = Behind(FrameList(p), j + 1)
    OBVIOUS
  <2>7. b \in Seq(Byte) /\ Behind(FrameList(p), j) = f \o b
    BY <1>2, <2>1, <2>3, <2>6, NextFrame
  <2>8. PICK e : e = Ending(k)
    OBVIOUS
  <2>9. b \o e \in Seq(Byte)
    BY <1>5, <2>7, <2>8, ConcatProperties
  <2>10. (f \o b) \o e = f \o (b \o e)
    BY <1>5, <2>5, <2>7, <2>8, ConcatAssociative, SMTT(60)
  <2>11. Append(d.bufs, p[j + 1]) = SubSeq(p, 1, j + 1)
    <3>1. SubSeq(p, 1, j + 1) = Append(SubSeq(p, 1, j), p[j + 1])
      BY <1>2, <1>3, <1>7, FirstOnes
    <3>2. QED
      BY <1>3, <3>1
  <2>12. QED
    BY <1>4, <2>2, <2>3, <2>6, <2>7, <2>8, <2>9, <2>10, <2>11
<1>8. QED
  BY <1>2, <1>3, <1>6, <1>7 DEF Inside

----------------------------------------------------------------------------
(* The turns of the decoders' loops.                                       *)

\* A frame is taken.
LEMMA FrameKeeps ==
  ASSUME messages \in Traffic, netty \in BOOLEAN, NEW before \in Seq(Read), NEW rest \in Seq(Byte),
         NEW d, Reads(d, before, rest), ReadSoFar(d, before) < Len(messages),
         netty => d.id # NoId, Len(d.bufs) < Len(messages[ReadSoFar(d, before) + 1].payload),
         NEW c \in Nat, netty => c = d.frameCount - 1,
         HasFrame(d.buf)
  PROVE  /\ Reads([FrameTaken(d) EXCEPT !.frameCount = c], before, rest)
         /\ Len([FrameTaken(d) EXCEPT !.frameCount = c].buf) + 4 <= Len(d.buf)
         /\ ReadInt(d.buf) # 0
<1>20. PICK k : k = ReadSoFar(d, before)
  OBVIOUS
<1>0. PICK p : p = messages[k + 1].payload
  OBVIOUS
<1>1. /\ d \in DecoderType /\ AtMessage(d, k) /\ before \o d.out = Sent(k)
      /\ Cuts(d.buf, rest, <<>>, Unused(d, k))
  BY <1>20 DEF Reads
<1>2. /\ Len(messages) \in Nat /\ k \in 0..Len(messages) - 1 /\ k # Len(messages) /\ k < Len(messages)
  BY <1>1, <1>20, EncodingsTyped DEF AtMessage
<1>3. PICK j : j = Len(d.bufs)
  OBVIOUS
<1>17. PICK x : x = p[j + 1]
  OBVIOUS
<1>18. PICK t : t = Behind(FrameList(p), j + 1) \o Ending(k)
  OBVIOUS
<1>4. /\ j \in 0..Len(p) /\ Len(p) \in Nat /\ j < Len(p)
      /\ x \in Seq(Byte) /\ Len(x) \in Int32 /\ Len(x) \in Nat \ {0}
      /\ t \in Seq(Byte)
      /\ Unused(d, k) = (IntBuffer(Len(x)) \o x) \o t
      /\ Append(d.bufs, x) = SubSeq(p, 1, j + 1)
  <2>1. j < Len(p)
    BY <1>0, <1>3, <1>20
  <2>2. Inside(d, k, p, j)
    BY <1>0, <1>1, <1>2, <1>3, UnusedInside
  <2>3. QED
    BY <1>17, <1>18, <2>1, <2>2 DEF Inside
<1>5. d.buf \in Seq(Byte) /\ Len(d.buf) \in Nat
  BY <1>1, LenProperties DEF DecoderType
<1>6. Cuts(d.buf, rest, IntBuffer(Len(x)) \o x, t)
  <2>1. PICK u : u = Unused(d, k)
    OBVIOUS
  <2>2. u \in Seq(Byte)
    BY <1>1, <1>2, <2>1, UnusedTyped
  <2>3. <<>> \o u = u
    BY <2>2, ConcatEmptySeq
  <2>4. d.buf \o rest = u
    BY <1>1, <2>1, <2>3 DEF Cuts
  <2>5. QED
    BY <1>4, <2>1, <2>4 DEF Cuts
<1>7. /\ ReadInt(d.buf) = Len(x) /\ Len(d.buf) >= 4 + Len(x)
      /\ SubSeq(d.buf, 5, 4 + Len(x)) = x
      /\ Slice(d.buf, 4 + Len(x)) \in Seq(Byte)
      /\ Len(Slice(d.buf, 4 + Len(x))) = Len(d.buf) - (4 + Len(x))
      /\ Slice(d.buf, 4 + Len(x)) \o rest = t
  <2>1. HasFrame(d.buf)
    OBVIOUS
  <2>2. Len(d.buf) >= 4
    BY <2>1 DEF HasFrame
  <2>3. QED
    <3>1. FrameTakes(d.buf, rest, x, t)
      BY <1>4, <1>5, <1>6, FrameRead
    <3>2. QED
      BY <2>1, <2>2, <3>1 DEF FrameTakes
<1>19. PICK e : e = [FrameTaken(d) EXCEPT !.frameCount = c]
  OBVIOUS
<1>8. /\ e = [id |-> d.id, frameCount |-> c, buf |-> Slice(d.buf, 4 + Len(x)), bufs |-> SubSeq(p, 1, j + 1), out |-> d.out]
      /\ SubSeq(p, 1, j + 1) \in Seq(Seq(Byte)) /\ Len(SubSeq(p, 1, j + 1)) = j + 1
  <2>1. FrameTaken(d) = [d EXCEPT !.bufs = Append(d.bufs, x), !.buf = Slice(d.buf, 4 + Len(x))]
    BY <1>1, <1>7 DEF FrameTaken, DecoderType
  <2>2. /\ Append(d.bufs, x) \in Seq(Seq(Byte)) /\ Len(Append(d.bufs, x)) = j + 1
    <3>1. d.bufs \in Seq(Seq(Byte))
      BY <1>1 DEF DecoderType
    <3>2. QED
      BY <1>3, <1>4, <3>1, AppendProperties
  <2>3. QED
    BY <1>1, <1>4, <1>19, <2>1, <2>2 DEF DecoderType
<1>9. e \in DecoderType
  BY <1>1, <1>7, <1>8 DEF DecoderType
<1>10. ReadSoFar(e, before) = k
  BY <1>8, <1>20 DEF ReadSoFar
<1>11. /\ e.id = d.id /\ e.bufs = SubSeq(p, 1, j + 1) /\ Len(e.bufs) = j + 1 /\ e.out = d.out
       /\ e.buf = Slice(d.buf, 4 + Len(x)) /\ e.frameCount = c
  BY <1>8
<1>12. AtMessage(e, k)
  <2>1. /\ k \in 0..Len(messages) /\ k < Len(messages) /\ k # Len(messages)
        /\ netty => d.id # NoId /\ d.id = messages[k + 1].id /\ d.frameCount = Len(p) - j
        /\ ~netty => d.id = NoId
    BY <1>0, <1>1, <1>2, <1>3 DEF AtMessage
  <2>2. netty => c = Len(p) - (j + 1)
    <3>1. ASSUME netty PROVE c = Len(p) - (j + 1)
      <4>1. c = d.frameCount - 1 /\ d.frameCount = Len(p) - j
        BY <2>1, <3>1
      <4>2. PICK n \in Nat : n = Len(p)
        BY <1>4
      <4>3. j \in Nat
        BY <1>4
      <4>4. QED
        BY <4>1, <4>2, <4>3
    <3>2. QED
      BY <3>1
  <2>3. Len(e.bufs) <= Len(p) /\ e.bufs = SubSeq(p, 1, Len(e.bufs))
    BY <1>4, <1>11
  <2>4. ASSUME netty PROVE e.id # NoId /\ e.id = messages[k + 1].id /\ e.frameCount = Len(p) - Len(e.bufs)
    BY <1>11, <2>1, <2>2, <2>4
  <2>5. ~netty => e.id = NoId
    BY <1>11, <2>1
  <2>6. QED
    BY <1>0, <2>1, <2>3, <2>4, <2>5 DEF AtMessage
<1>13. Unused(e, k) = t
  BY <1>0, <1>2, <1>11, <1>12, <1>18 DEF Unused, AtMessage
<1>14. Cuts(e.buf, rest, <<>>, Unused(e, k))
  <2>1. <<>> \o t = t
    BY <1>4, ConcatEmptySeq
  <2>2. QED
    BY <1>7, <1>11, <1>13, <2>1 DEF Cuts
<1>15. Len(e.buf) + 4 <= Len(d.buf)
  BY <1>4, <1>5, <1>7, <1>11
<1>16. QED
  <2>1. Reads(e, before, rest)
    BY <1>1, <1>9, <1>10, <1>11, <1>12, <1>14, <1>20 DEF Reads
  <2>2. ReadInt(d.buf) # 0
    BY <1>4, <1>7
  <2>3. QED
    BY <1>15, <1>19, <2>1, <2>2

\* What is pushed when one more was taken.
Pushes(before, out, k) == before \o out = Sent(k)

\* It is the next of the messages.
LEMMA SentMore ==
  ASSUME NEW k \in Nat, NEW before \in Seq(Read), NEW out \in Seq(Read), Pushes(before, out, k),
         AsRead(messages[k + 1]) \in Read
  PROVE  Pushes(before, Append(out, AsRead(messages[k + 1])), k + 1)
<1>0. PICK m \in Read : m = AsRead(messages[k + 1])
  OBVIOUS
<1>1. Append(out, m) \in Seq(Read) /\ Len(Append(out, m)) = Len(out) + 1
  BY AppendProperties
<1>2. PICK s \in Seq(Read) : s = before \o out /\ s = Sent(k)
  BY ConcatProperties DEF Pushes
<1>3. before \o Append(out, m) = Append(s, m)
  <2>1. before \o Append(out, m) = Append(before \o out, m)
    OBVIOUS
  <2>2. QED
    BY <1>2, <2>1
<1>4. Len(s) = k /\ \A i \in 1..k : s[i] = AsRead(messages[i])
  BY <1>2 DEF Sent
<1>5. Append(s, m) = [i \in 1..k + 1 |-> AsRead(messages[i])]
  <2>1. /\ Append(s, m) \in Seq(Read) /\ Len(Append(s, m)) = k + 1
        /\ \A i \in 1..k + 1 : Append(s, m)[i] = AsRead(messages[i])
    BY <1>0, <1>2, <1>4, AppendProperties
  <2>2. Append(s, m) = [i \in 1..k + 1 |-> Append(s, m)[i]]
    BY <2>1, LenProperties
  <2>3. QED
    BY <2>1, <2>2
<1>6. QED
  BY <1>0, <1>3, <1>5 DEF Sent, Pushes

\* A message is complete, and b is what stays in the buffer.
LEMMA MessageKeeps ==
  ASSUME messages \in Traffic, netty \in BOOLEAN, NEW before \in Seq(Read), NEW rest \in Seq(Byte),
         NEW d, Reads(d, before, rest), ReadSoFar(d, before) < Len(messages),
         netty => d.id # NoId, Len(d.bufs) = Len(messages[ReadSoFar(d, before) + 1].payload),
         NEW b \in Seq(Byte), Cuts(b, rest, <<>>, Behind(Encodings, ReadSoFar(d, before) + 1))
  PROVE  Reads([MessageTaken(d) EXCEPT !.buf = b], before, rest)
<1>1. PICK k : k = ReadSoFar(d, before)
  OBVIOUS
<1>2. /\ d \in DecoderType /\ AtMessage(d, k) /\ before \o d.out = Sent(k)
  BY <1>1 DEF Reads
<1>3. /\ Len(messages) \in Nat /\ k \in 0..Len(messages) - 1 /\ k < Len(messages)
      /\ k \in Nat /\ k + 1 \in 1..Len(messages) /\ k + 1 \in 0..Len(messages)
  BY <1>1, <1>2, EncodingsTyped DEF AtMessage
<1>4. PICK p : p = messages[k + 1].payload
  OBVIOUS
<1>5. d.bufs = p
  <2>1. PICK j : j = Len(d.bufs)
    OBVIOUS
  <2>2. Inside(d, k, p, j)
    BY <1>2, <1>3, <1>4, <2>1, UnusedInside
  <2>3. j = Len(p)
    BY <1>1, <1>4, <2>1
  <2>4. QED
    BY <2>2, <2>3 DEF Inside
<1>6. PICK m : m = [id |-> d.id, payload |-> d.bufs]
  OBVIOUS
<1>7. m \in Read /\ m = AsRead(messages[k + 1])
  <2>1. messages[k + 1] \in [id : Int32, payload : Seq(Seq(Byte))]
    BY <1>3, WrittenTypes
  <2>2. messages[k + 1] = [id |-> messages[k + 1].id, payload |-> p]
    BY <1>4, <2>1
  <2>3. ASSUME netty PROVE m = AsRead(messages[k + 1])
    <3>1. d.id = messages[k + 1].id
      BY <1>2, <2>3 DEF AtMessage
    <3>2. QED
      BY <1>5, <1>6, <2>2, <2>3, <3>1 DEF AsRead
  <2>4. ASSUME ~netty PROVE m = AsRead(messages[k + 1])
    <3>1. d.id = NoId
      BY <1>2, <2>4 DEF AtMessage
    <3>2. PICK w : w = messages[k + 1]
      OBVIOUS
    <3>3. AsRead(w) = [w EXCEPT !.id = NoId]
      BY <2>4 DEF AsRead
    <3>4. w = [id |-> w.id, payload |-> p]
      BY <2>2, <3>2
    <3>5. [w EXCEPT !.id = NoId] = [id |-> NoId, payload |-> p]
      BY <3>4
    <3>6. QED
      BY <1>5, <1>6, <3>1, <3>2, <3>3, <3>5
  <2>5. m \in Read
    BY <1>2, <1>6 DEF DecoderType, Read
  <2>6. QED
    BY <2>3, <2>4, <2>5
<1>8. PICK e : e = [MessageTaken(d) EXCEPT !.buf = b]
  OBVIOUS
<1>9. e = [id |-> NoId, frameCount |-> d.frameCount, buf |-> b, bufs |-> <<>>, out |-> Append(d.out, m)]
  BY <1>2, <1>6, <1>8 DEF MessageTaken, DecoderType
<1>10. e.id = NoId /\ e.buf = b /\ e.bufs = <<>> /\ e.out = Append(d.out, m)
  BY <1>9
<1>11. /\ d.out \in Seq(Read) /\ Append(d.out, m) \in Seq(Read)
       /\ before \o e.out = Sent(k + 1) /\ Len(e.out) = Len(d.out) + 1
  <2>1. d.out \in Seq(Read)
    BY <1>2 DEF DecoderType
  <2>2. Pushes(before, d.out, k) /\ AsRead(messages[k + 1]) \in Read
    BY <1>2, <1>7 DEF Pushes
  <2>3. Pushes(before, Append(d.out, AsRead(messages[k + 1])), k + 1)
    BY <1>3, <2>1, <2>2, SentMore
  <2>4. QED
    BY <1>7, <1>10, <2>1, <2>3, AppendProperties DEF Pushes
<1>12. e \in DecoderType
  <2>1. <<>> \in Seq(Seq(Byte))
    BY EmptySeq
  <2>2. QED
    BY <1>2, <1>9, <1>11, <2>1 DEF DecoderType
<1>13. ReadSoFar(e, before) = k + 1
  BY <1>1, <1>11, LenProperties DEF ReadSoFar
<1>14. AtMessage(e, k + 1)
  <2>1. ASSUME k + 1 < Len(messages)
        PROVE  /\ Len(e.bufs) <= Len(messages[k + 1 + 1].payload)
               /\ e.bufs = SubSeq(messages[k + 1 + 1].payload, 1, Len(e.bufs))
    <3>1. PICK i : i = k + 1 + 1
      OBVIOUS
    <3>2. i \in 1..Len(messages)
      BY <1>3, <2>1, <3>1
    <3>3. Len(messages[i].payload) \in Nat
      BY <3>2, WrittenTypes
    <3>4. Len(e.bufs) = 0 /\ SubSeq(messages[i].payload, 1, 0) = <<>>
      BY <1>10, SubSeqEmpty
    <3>5. QED
      BY <1>10, <3>1, <3>3, <3>4
  <2>2. QED
    BY <1>3, <1>10, <2>1 DEF AtMessage
<1>15. Unused(e, k + 1) = Behind(Encodings, k + 1)
  BY <1>3, <1>10, <1>12, <1>14, UnusedTyped
<1>16. Reads(e, before, rest)
  BY <1>1, <1>10, <1>11, <1>12, <1>13, <1>14, <1>15 DEF Reads
<1>17. QED
  BY <1>8, <1>16

\* The first bytes are left out, and more of them.
LEMMA SliceTwice ==
  ASSUME NEW buf \in Seq(Byte), Len(buf) >= 8
  PROVE  Slice(Slice(buf, 4), 4) = Slice(buf, 8)
<1> DEFINE a == Slice(buf, 4)
           b == Slice(a, 4)
           c == Slice(buf, 8)
           n == Len(buf)
<1>1. n \in Nat /\ n >= 8 /\ \A i \in 1..n : buf[i] \in Byte
  BY LenProperties, ElementOfSeq
<1>2. a \in Seq(Byte) /\ Len(a) = n - 4 /\ \A i \in 1..n - 4 : a[i] = buf[4 + i]
  <2>1. \A i \in 5..n : buf[i] \in Byte
    BY <1>1
  <2> HIDE DEF n
  <2>2. /\ SubSeq(buf, 5, n) \in Seq(Byte) /\ Len(SubSeq(buf, 5, n)) = n - 4
        /\ \A i \in 1..n - 4 : SubSeq(buf, 5, n)[i] = buf[4 + i]
    BY <1>1, <2>1, SubSeqProperties
  <2>3. QED
    BY <2>2 DEF Slice, n
<1>3. c \in Seq(Byte) /\ Len(c) = n - 8 /\ \A i \in 1..n - 8 : c[i] = buf[8 + i]
  <2>1. \A i \in 9..n : buf[i] \in Byte
    BY <1>1
  <2> HIDE DEF n
  <2>2. /\ SubSeq(buf, 9, n) \in Seq(Byte) /\ Len(SubSeq(buf, 9, n)) = n - 8
        /\ \A i \in 1..n - 8 : SubSeq(buf, 9, n)[i] = buf[8 + i]
    BY <1>1, <2>1, SubSeqProperties
  <2>3. QED
    BY <2>2 DEF Slice, n
<1> HIDE DEF n
<1>4. b \in Seq(Byte) /\ Len(b) = n - 8 /\ \A i \in 1..n - 8 : b[i] = a[4 + i]
  <2> HIDE DEF a
  <2>1. \A i \in 5..n - 4 : a[i] \in Byte
    BY <1>1, <1>2, ElementOfSeq
  <2>2. /\ SubSeq(a, 5, n - 4) \in Seq(Byte) /\ Len(SubSeq(a, 5, n - 4)) = n - 8
        /\ \A i \in 1..n - 8 : SubSeq(a, 5, n - 4)[i] = a[4 + i]
    BY <1>1, <2>1, SubSeqProperties
  <2>3. b = SubSeq(a, 5, n - 4)
    BY <1>2 DEF Slice
  <2> HIDE DEF b
  <2>4. QED
    BY <2>2, <2>3
<1> HIDE DEF a, b, c
<1>5. \A i \in 1..n - 8 : b[i] = c[i]
  <2>1. TAKE i \in 1..n - 8
  <2>2. 4 + i \in 1..n - 4 /\ 4 + (4 + i) = 8 + i
    BY <1>1
  <2>3. QED
    BY <1>2, <1>3, <1>4, <2>2
<1>6. b = c
  BY <1>3, <1>4, <1>5, SeqEqual
<1>7. QED
  BY <1>6 DEF a, b, c

\* The header of a Netty message is read.
LEMMA HeaderKeeps ==
  ASSUME messages \in Traffic, netty \in BOOLEAN, netty, NEW before \in Seq(Read), NEW rest \in Seq(Byte),
         NEW d, Reads(d, before, rest), d.id = NoId, Len(d.buf) >= 8
  PROVE  /\ Reads([d EXCEPT !.id = ReadInt(d.buf), !.frameCount = ReadInt(Slice(d.buf, 4)), !.buf = Slice(d.buf, 8)],
                  before, rest)
         /\ Len(Slice(d.buf, 8)) + 4 <= Len(d.buf)
<1>1. PICK k : k = ReadSoFar(d, before)
  OBVIOUS
<1>2. /\ d \in DecoderType /\ AtMessage(d, k) /\ before \o d.out = Sent(k)
      /\ Cuts(d.buf, rest, <<>>, Unused(d, k)) /\ d.bufs = <<>>
  BY <1>1 DEF Reads, AtMessage
<1>3. d.buf \in Seq(Byte) /\ Len(d.buf) \in Nat /\ Len(rest) \in Nat /\ k \in 0..Len(messages)
  BY <1>2, LenProperties DEF DecoderType, AtMessage
<1>4. Unused(d, k) \in Seq(Byte) /\ Unused(d, k) = Behind(Encodings, k)
  BY <1>2, <1>3, UnusedTyped
<1>5. d.buf \o rest = Behind(Encodings, k) /\ Len(d.buf) + Len(rest) = Len(Behind(Encodings, k))
  <2>1. <<>> \o Unused(d, k) = Unused(d, k)
    BY <1>4, ConcatEmptySeq
  <2>2. Len(d.buf \o rest) = Len(d.buf) + Len(rest)
    BY <1>3, ConcatProperties
  <2>3. QED
    BY <1>2, <1>4, <2>1, <2>2 DEF Cuts
<1>6. /\ Len(messages) \in Nat /\ k \in 0..Len(messages) - 1 /\ k < Len(messages) /\ k # Len(messages)
      /\ k + 1 \in 1..Len(messages)
  <2>1. k = Len(messages) => Behind(Encodings, k) = <<>>
    BY EncodingsTyped, BehindNext
  <2>2. k # Len(messages)
    BY <1>3, <1>5, <2>1
  <2>3. QED
    BY <1>3, <2>2, EncodingsTyped
<1>7. PICK p : p = messages[k + 1].payload
  OBVIOUS
<1>8. PICK i : i = messages[k + 1].id
  OBVIOUS
<1>9. i \in Int32 /\ i # NoId /\ Len(p) \in Int32 /\ Len(p) \in Nat /\ p \in Seq(Seq(Byte))
  BY <1>6, <1>7, <1>8, WrittenTypes
<1>10. PICK t : t = Behind(FrameList(p), 0) \o Behind(Encodings, k + 1)
  OBVIOUS
<1>11. /\ t \in Seq(Byte)
       /\ Behind(Encodings, k) = IntBuffer(i) \o (IntBuffer(Len(p)) \o t)
  <2>1. /\ Behind(FrameList(p), 0) \in Seq(Byte) /\ Behind(Encodings, k + 1) \in Seq(Byte)
        /\ Behind(Encodings, k) = IntBuffer(messages[k + 1].id) \o (IntBuffer(Len(p)) \o (Behind(FrameList(p), 0) \o Behind(Encodings, k + 1)))
    BY <1>6, <1>7, NextEncoding
  <2>2. QED
    BY <1>8, <1>10, <2>1, ConcatProperties
<1>12. PICK u : u = IntBuffer(Len(p)) \o t
  OBVIOUS
<1>13. u \in Seq(Byte)
  <2>1. IntBuffer(Len(p)) \in Seq(Byte)
    BY <1>9, IntIsRead
  <2>2. QED
    BY <1>11, <1>12, <2>1, ConcatProperties
<1>14. /\ ReadInt(d.buf) = i
       /\ Slice(d.buf, 4) \in Seq(Byte) /\ Len(Slice(d.buf, 4)) = Len(d.buf) - 4
       /\ Slice(d.buf, 4) \o rest = u
  <2>1. Cuts(d.buf, rest, IntBuffer(i), u)
    BY <1>5, <1>11, <1>12 DEF Cuts
  <2>2. Len(d.buf) >= 4
    BY <1>3
  <2>3. QED
    BY <1>3, <1>9, <1>13, <2>1, <2>2, HeadRead
<1>15. PICK b : b = Slice(d.buf, 4)
  OBVIOUS
<1>16. /\ ReadInt(b) = Len(p)
       /\ Slice(b, 4) \in Seq(Byte) /\ Len(Slice(b, 4)) = Len(b) - 4
       /\ Slice(b, 4) \o rest = t
  <2>1. Cuts(b, rest, IntBuffer(Len(p)), t)
    BY <1>12, <1>14, <1>15 DEF Cuts
  <2>2. Len(b) >= 4 /\ b \in Seq(Byte)
    BY <1>3, <1>14, <1>15
  <2>3. QED
    BY <1>9, <1>11, <2>1, <2>2, HeadRead
<1>17. PICK c : c = Slice(d.buf, 8)
  OBVIOUS
<1>18. c \in Seq(Byte) /\ Len(c) = Len(d.buf) - 8 /\ c \o rest = t
  <2>1. c = Slice(b, 4)
    BY <1>3, <1>15, <1>17, SliceTwice
  <2>2. QED
    <3>1. Len(b) = Len(d.buf) - 4
      BY <1>14, <1>15
    <3>2. Len(c) = Len(b) - 4 /\ c \in Seq(Byte) /\ c \o rest = t
      BY <1>16, <2>1
    <3>3. QED
      BY <1>3, <3>1, <3>2
<1>19. PICK e : e = [d EXCEPT !.id = ReadInt(d.buf), !.frameCount = ReadInt(Slice(d.buf, 4)), !.buf = Slice(d.buf, 8)]
  OBVIOUS
<1>20. e = [id |-> i, frameCount |-> Len(p), buf |-> c, bufs |-> <<>>, out |-> d.out]
  BY <1>2, <1>14, <1>15, <1>16, <1>17, <1>19 DEF DecoderType
<1>21. e.id = i /\ e.frameCount = Len(p) /\ e.buf = c /\ e.bufs = <<>> /\ e.out = d.out /\ Len(e.bufs) = 0
  BY <1>20
<1>22. e \in DecoderType
  <2>1. d.out \in Seq(Read) /\ d.bufs \in Seq(Seq(Byte))
    BY <1>2 DEF DecoderType
  <2>2. QED
    BY <1>2, <1>9, <1>18, <1>20, <2>1 DEF DecoderType
<1>23. ReadSoFar(e, before) = k
  BY <1>1, <1>21 DEF ReadSoFar
<1>24. AtMessage(e, k)
  <2>1. SubSeq(p, 1, 0) = <<>>
    BY SubSeqEmpty
  <2>2. QED
    BY <1>3, <1>6, <1>7, <1>8, <1>9, <1>21, <2>1 DEF AtMessage
<1>25. Unused(e, k) = t
  BY <1>6, <1>7, <1>9, <1>10, <1>21 DEF Unused, Ending
<1>26. Cuts(e.buf, rest, <<>>, Unused(e, k))
  <2>1. <<>> \o t = t
    BY <1>11, ConcatEmptySeq
  <2>2. QED
    BY <1>18, <1>21, <1>25, <2>1 DEF Cuts
<1>27. Reads(e, before, rest)
  BY <1>1, <1>2, <1>21, <1>22, <1>23, <1>24, <1>26 DEF Reads
<1>28. QED
  BY <1>3, <1>17, <1>18, <1>19, <1>27

\* Every turn but the last uses bytes, or ends a message whose bytes were used.
Measure(d) == Len(d.buf) + (IF netty /\ d.id # NoId THEN 2 ELSE 0)

\* A turn goes on, or there is nothing it could do.
Turns(d, e, before, rest) ==
  /\ Reads(e, before, rest)
  /\ Measure(e) + 2 <= Measure(d) \/ (e = d /\ HasToWait(d, ReadSoFar(d, before)))

\* It is about the length of the buffer, so that Decoded takes turns enough.
LEMMA MeasureTyped ==
  ASSUME NEW d \in DecoderType
  PROVE  /\ Len(d.buf) \in Nat /\ Measure(d) \in Nat
         /\ Measure(d) <= Len(d.buf) + 2 /\ Len(d.buf) <= Measure(d)
<1>1. Len(d.buf) \in Nat
  BY LenProperties DEF DecoderType
<1>2. QED
  <2>1. PICK n \in Nat : n = Len(d.buf)
    BY <1>1
  <2>2. PICK b \in {0, 2} : b = IF netty /\ d.id # NoId THEN 2 ELSE 0
    BY Zenon
  <2>3. Measure(d) = n + b
    BY <2>1, <2>2 DEF Measure
  <2>4. QED
    BY <2>1, <2>3

\* A frame is taken or waited for.
LEMMA FrameTurn ==
  ASSUME messages \in Traffic, netty \in BOOLEAN, NEW before \in Seq(Read), NEW rest \in Seq(Byte),
         NEW d, Reads(d, before, rest), ReadSoFar(d, before) < Len(messages),
         netty => d.id # NoId, Len(d.bufs) < Len(messages[ReadSoFar(d, before) + 1].payload),
         ~HasFrame(d.buf)
  PROVE  HasToWait(d, ReadSoFar(d, before))
<1>1. PICK k : k = ReadSoFar(d, before)
  OBVIOUS
<1>2. /\ d \in DecoderType /\ AtMessage(d, k) /\ Cuts(d.buf, rest, <<>>, Unused(d, k))
  BY <1>1 DEF Reads
<1>3. /\ Len(messages) \in Nat /\ k \in 0..Len(messages) - 1 /\ k < Len(messages) /\ k \in 0..Len(messages)
  BY <1>1, <1>2, EncodingsTyped DEF AtMessage
<1>4. PICK p : p = messages[k + 1].payload
  OBVIOUS
<1>5. PICK j : j = Len(d.bufs)
  OBVIOUS
<1>6. PICK x : x = p[j + 1]
  OBVIOUS
<1>7. PICK t : t = Behind(FrameList(p), j + 1) \o Ending(k)
  OBVIOUS
<1>8. /\ x \in Seq(Byte) /\ Len(x) \in Int32 /\ Len(x) \in Nat \ {0} /\ t \in Seq(Byte)
      /\ Unused(d, k) = (IntBuffer(Len(x)) \o x) \o t
      /\ j + 1 \in 0..Len(p) /\ p \in Seq(Seq(Byte))
  <2>1. Inside(d, k, p, j)
    BY <1>2, <1>3, <1>4, <1>5, UnusedInside
  <2>2. j < Len(p)
    BY <1>1, <1>4, <1>5
  <2>3. QED
    <3>1. j + 1 \in 0..Len(p)
      BY <2>1, <2>2 DEF Inside
    <3>2. QED
      BY <1>6, <1>7, <2>1, <2>2, <3>1 DEF Inside
<1>9. d.buf \in Seq(Byte) /\ Len(d.buf) \in Nat
  BY <1>2, LenProperties DEF DecoderType
<1>10. Cuts(d.buf, rest, IntBuffer(Len(x)) \o x, t)
  <2>1. PICK u : u = Unused(d, k)
    OBVIOUS
  <2>2. u \in Seq(Byte)
    BY <1>2, <1>3, <2>1, UnusedTyped
  <2>3. <<>> \o u = u
    BY <2>2, ConcatEmptySeq
  <2>4. d.buf \o rest = u
    BY <1>2, <2>1, <2>3 DEF Cuts
  <2>5. QED
    BY <1>8, <2>1, <2>4 DEF Cuts
<1>11. Len(d.buf) < 4 + Len(x)
  <2>1. FrameTakes(d.buf, rest, x, t)
    BY <1>8, <1>9, <1>10, FrameRead
  <2>2. QED
    BY <1>8, <1>9, <2>1 DEF FrameTakes
<1>12. Len(Unused(d, k)) = 4 + Len(x) + Len(t)
  <2>1. IntBuffer(Len(x)) \in Seq(Byte) /\ Len(IntBuffer(Len(x))) = 4
    BY <1>8, IntIsRead
  <2>2. PICK f : f = IntBuffer(Len(x)) \o x
    OBVIOUS
  <2>3. f \in Seq(Byte) /\ Len(f) = 4 + Len(x)
    <3>1. PICK h : h = IntBuffer(Len(x))
      OBVIOUS
    <3>2. h \o x \in Seq(Byte) /\ Len(h \o x) = Len(h) + Len(x)
      BY <1>8, <2>1, <3>1, ConcatProperties
    <3>3. QED
      BY <2>1, <2>2, <3>1, <3>2
  <2>4. Len(f \o t) = Len(f) + Len(t)
    BY <1>8, <2>3, ConcatProperties
  <2>5. QED
    BY <1>8, <2>2, <2>3, <2>4
<1>13. Len(t) >= Len(Behind(Encodings, k + 1)) /\ Len(t) \in Nat /\ Len(Behind(Encodings, k + 1)) \in Nat
  <2>1. PICK r : r = Behind(Encodings, k + 1)
    OBVIOUS
  <2>2. r \in Seq(Byte) /\ Ending(k) \in Seq(Byte)
    BY <1>2, <1>3, <2>1, UnusedTyped
  <2>3. IntBuffer(0) \in Seq(Byte)
    BY IntIsRead, SmallEnough
  <2>4. Ending(k) = r \/ Ending(k) = IntBuffer(0) \o r
    BY <2>1 DEF Ending
  <2>5. Len(IntBuffer(0) \o r) = Len(IntBuffer(0)) + Len(r) /\ Len(r) \in Nat /\ Len(IntBuffer(0)) \in Nat
    BY <2>2, <2>3, ConcatProperties, LenProperties
  <2>6. Len(Ending(k)) >= Len(r) /\ Len(Ending(k)) \in Nat
    BY <2>4, <2>5
  <2>7. PICK b : b = Behind(FrameList(p), j + 1)
    OBVIOUS
  <2>8. b \in Seq(Byte)
    <3>1. \A i \in 1..Len(p) : Len(p[i]) \in Int32
      <4>1. k + 1 \in 1..Len(messages)
        BY <1>3
      <4>2. QED
        BY <1>4, <4>1, WrittenTypes
    <3>2. \A i \in 0..Len(p) : Behind(FrameList(p), i) \in Seq(Byte)
      BY <1>8, <3>1, NextFrame
    <3>3. QED
      BY <1>8, <2>7, <3>2
  <2>9. Len(t) = Len(b) + Len(Ending(k)) /\ Len(b) \in Nat
    BY <1>7, <2>2, <2>7, <2>8, ConcatProperties, LenProperties
  <2>10. QED
    BY <2>1, <2>5, <2>6, <2>9
<1>14. QED
  <2>1. PICK n \in Nat : n = Len(d.buf)
    BY <1>9
  <2>2. PICK m \in Nat : m = Len(x)
    BY <1>8
  <2>3. PICK u \in Nat : u = Len(t)
    BY <1>13
  <2>4. PICK r \in Nat : r = Len(Behind(Encodings, k + 1))
    BY <1>13
  <2>5. n + r < Len(Unused(d, k))
    <3>1. n < 4 + m
      BY <1>11, <2>1, <2>2
    <3>2. u >= r
      BY <1>13, <2>3, <2>4
    <3>3. Len(Unused(d, k)) = 4 + m + u
      BY <1>12, <2>2, <2>3
    <3>4. QED
      BY <3>1, <3>2, <3>3
  <2>6. QED
    BY <1>1, <2>1, <2>4, <2>5 DEF HasToWait

\* What a Netty message is at least.
LEMMA HeaderLong ==
  ASSUME messages \in Traffic, netty \in BOOLEAN, netty, NEW k \in 0..Len(messages) - 1
  PROVE  /\ Len(Behind(Encodings, k)) \in Nat /\ Len(Behind(Encodings, k + 1)) \in Nat
         /\ Len(Behind(Encodings, k)) >= 8 + Len(Behind(Encodings, k + 1))
<1>1. k + 1 \in 1..Len(messages)
  BY EncodingsTyped
<1>2. PICK p : p = messages[k + 1].payload
  OBVIOUS
<1>3. PICK a : a = IntBuffer(messages[k + 1].id)
  OBVIOUS
<1>4. PICK b : b = IntBuffer(Len(p))
  OBVIOUS
<1>5. PICK f : f = Behind(FrameList(p), 0)
  OBVIOUS
<1>6. PICK r : r = Behind(Encodings, k + 1)
  OBVIOUS
<1>7. a \in Seq(Byte) /\ b \in Seq(Byte) /\ Len(a) = 4 /\ Len(b) = 4
  BY <1>1, <1>2, <1>3, <1>4, WrittenTypes, IntIsRead
<1>8. f \in Seq(Byte) /\ r \in Seq(Byte) /\ Behind(Encodings, k) = a \o (b \o (f \o r))
  BY <1>2, <1>3, <1>4, <1>5, <1>6, NextEncoding
<1>9. Len(f \o r) = Len(f) + Len(r) /\ f \o r \in Seq(Byte) /\ Len(f) \in Nat /\ Len(r) \in Nat
  BY <1>8, ConcatProperties, LenProperties
<1>10. PICK c : c = f \o r
  OBVIOUS
<1>11. Len(b \o c) = 4 + Len(c) /\ b \o c \in Seq(Byte)
  <2>1. c \in Seq(Byte)
    BY <1>9, <1>10
  <2>2. Len(b \o c) = Len(b) + Len(c) /\ b \o c \in Seq(Byte)
    BY <1>7, <2>1, ConcatProperties
  <2>3. QED
    BY <1>7, <2>2
<1>12. PICK e : e = b \o c
  OBVIOUS
<1>13. Len(a \o e) = 4 + Len(e)
  BY <1>7, <1>11, <1>12, ConcatProperties
<1>14. Len(Behind(Encodings, k)) = 8 + Len(f) + Len(r)
  BY <1>8, <1>9, <1>10, <1>11, <1>12, <1>13
<1>15. QED
  BY <1>6, <1>9, <1>14

\* A turn of the Netty decoder: a header, a message, a frame or nothing.
LEMMA NettyTurns ==
  ASSUME messages \in Traffic, netty \in BOOLEAN, netty, NEW before \in Seq(Read), NEW rest \in Seq(Byte),
         NEW d, Reads(d, before, rest)
  PROVE  Turns(d, NettyTurn(d), before, rest)
<1>1. PICK k : k = ReadSoFar(d, before)
  OBVIOUS
<1>2. /\ d \in DecoderType /\ AtMessage(d, k) /\ Cuts(d.buf, rest, <<>>, Unused(d, k))
      /\ k \in 0..Len(messages) /\ Len(messages) \in Nat
  BY <1>1, EncodingsTyped DEF Reads, AtMessage
<1>3. d.buf \in Seq(Byte) /\ Len(d.buf) \in Nat /\ d.frameCount \in Nat
  BY <1>2, LenProperties DEF DecoderType
<1>4. ASSUME d.id = NoId, Len(d.buf) < 8 PROVE Turns(d, NettyTurn(d), before, rest)
  <2>1. NettyTurn(d) = d
    BY <1>4 DEF NettyTurn
  <2>2. ASSUME k < Len(messages) PROVE Len(d.buf) + Len(Behind(Encodings, k + 1)) < Len(Unused(d, k))
    <3>1. d.bufs = <<>>
      BY <1>2, <1>4 DEF AtMessage
    <3>2. Unused(d, k) = Behind(Encodings, k)
      BY <1>2, <1>4, <3>1, UnusedTyped
    <3>3. k \in 0..Len(messages) - 1
      BY <1>2, <2>2
    <3>4. /\ Len(Behind(Encodings, k)) \in Nat /\ Len(Behind(Encodings, k + 1)) \in Nat
          /\ Len(Behind(Encodings, k)) >= 8 + Len(Behind(Encodings, k + 1))
      BY <3>3, HeaderLong
    <3>5. QED
      <4>1. PICK n \in Nat : n = Len(d.buf)
        BY <1>3
      <4>2. PICK m \in Nat : m = Len(Behind(Encodings, k))
        BY <3>4
      <4>3. PICK r \in Nat : r = Len(Behind(Encodings, k + 1))
        BY <3>4
      <4>4. n < 8 /\ m >= 8 + r
        BY <1>4, <3>4, <4>1, <4>2, <4>3
      <4>5. n + r < m
        BY <4>4
      <4>6. QED
        BY <3>2, <4>1, <4>2, <4>3, <4>5
  <2>3. HasToWait(d, ReadSoFar(d, before))
    BY <1>1, <2>2 DEF HasToWait
  <2>4. QED
    BY <2>1, <2>3 DEF Turns
<1>5. ASSUME d.id = NoId, Len(d.buf) >= 8 PROVE Turns(d, NettyTurn(d), before, rest)
  <2>1. PICK e : e = [d EXCEPT !.id = ReadInt(d.buf), !.frameCount = ReadInt(Slice(d.buf, 4)), !.buf = Slice(d.buf, 8)]
    OBVIOUS
  <2>2. NettyTurn(d) = e
    BY <1>2, <1>3, <1>5, <2>1 DEF NettyTurn, DecoderType
  <2>3. Reads(e, before, rest) /\ Len(Slice(d.buf, 8)) + 4 <= Len(d.buf)
    BY <1>5, <2>1, HeaderKeeps
  <2>4. e.buf = Slice(d.buf, 8) /\ e \in DecoderType
    BY <1>2, <2>1, <2>3 DEF DecoderType, Reads
  <2>5. Measure(e) + 2 <= Measure(d)
    <3>1. PICK n \in Nat : n = Len(d.buf)
      BY <1>3
    <3>2. PICK m \in Nat : m = Len(e.buf)
      BY <2>4, MeasureTyped
    <3>3. m + 4 <= n
      BY <2>3, <2>4, <3>1, <3>2
    <3>4. Measure(e) \in Nat /\ Measure(d) \in Nat /\ Measure(e) <= m + 2 /\ n <= Measure(d)
      BY <1>2, <2>4, <3>1, <3>2, MeasureTyped
    <3>5. QED
      BY <3>3, <3>4
  <2>6. QED
    BY <2>2, <2>3, <2>5 DEF Turns
<1>6. ASSUME d.id # NoId PROVE Turns(d, NettyTurn(d), before, rest)
  <2>1. k < Len(messages) /\ k \in 0..Len(messages) - 1
    BY <1>2, <1>6 DEF AtMessage
  <2>2. PICK p : p = messages[k + 1].payload
    OBVIOUS
  <2>3. PICK j : j = Len(d.bufs)
    OBVIOUS
  <2>4. Inside(d, k, p, j)
    BY <1>2, <1>6, <2>1, <2>2, <2>3, UnusedInside
  <2>5. j \in 0..Len(p) /\ Len(p) \in Nat /\ d.frameCount = Len(p) - j
    BY <1>2, <1>6, <2>2, <2>3, <2>4 DEF Inside, AtMessage
  <2>6. ASSUME d.frameCount = 0 PROVE Turns(d, NettyTurn(d), before, rest)
    <3>1. j = Len(p)
      BY <2>5, <2>6
    <3>2. PICK b : b = d.buf
      OBVIOUS
    <3>3. Unused(d, k) = Behind(Encodings, k + 1)
      BY <2>4, <3>1 DEF Inside, Ending
    <3>4. PICK e : e = [MessageTaken(d) EXCEPT !.buf = b]
      OBVIOUS
    <3>5. NettyTurn(d) = e
      BY <1>2, <1>6, <2>6, <3>2, <3>4 DEF NettyTurn, MessageTaken, DecoderType
    <3>6. Cuts(b, rest, <<>>, Behind(Encodings, k + 1)) /\ b \in Seq(Byte)
      BY <1>2, <1>3, <3>2, <3>3
    <3>7. Reads(e, before, rest)
      <4>1. Len(d.bufs) = Len(messages[ReadSoFar(d, before) + 1].payload) /\ ReadSoFar(d, before) < Len(messages)
        BY <1>1, <2>1, <2>2, <2>3, <3>1
      <4>2. Cuts(b, rest, <<>>, Behind(Encodings, ReadSoFar(d, before) + 1))
        BY <1>1, <3>6
      <4>3. QED
        BY <1>6, <3>4, <3>6, <4>1, <4>2, MessageKeeps
    <3>8. e.id = NoId /\ e.buf = d.buf
      BY <1>2, <3>2, <3>4 DEF MessageTaken, DecoderType
    <3>9. Measure(e) = Len(d.buf) + 0
      BY <3>8 DEF Measure
    <3>10. Measure(d) = Len(d.buf) + 2
      BY <1>6 DEF Measure
    <3>11. Measure(e) + 2 <= Measure(d)
      BY <1>3, <3>9, <3>10
    <3>12. QED
      BY <3>5, <3>7, <3>11 DEF Turns
  <2>7. ASSUME d.frameCount # 0 PROVE Turns(d, NettyTurn(d), before, rest)
    <3>1. /\ Len(d.bufs) < Len(messages[ReadSoFar(d, before) + 1].payload) /\ ReadSoFar(d, before) < Len(messages)
          /\ d.frameCount - 1 \in Nat
      BY <1>1, <1>3, <2>1, <2>2, <2>3, <2>5, <2>7
    <3>2. ASSUME ~HasFrame(d.buf) PROVE Turns(d, NettyTurn(d), before, rest)
      <4>1. NettyTurn(d) = d
        BY <1>6, <2>7, <3>2 DEF NettyTurn
      <4>2. HasToWait(d, ReadSoFar(d, before))
        BY <1>6, <3>1, <3>2, FrameTurn
      <4>3. QED
        BY <4>1, <4>2 DEF Turns
    <3>3. ASSUME HasFrame(d.buf) PROVE Turns(d, NettyTurn(d), before, rest)
      <4>1. PICK c \in Nat : c = d.frameCount - 1
        BY <3>1
      <4>2. PICK e : e = [FrameTaken(d) EXCEPT !.frameCount = c]
        OBVIOUS
      <4>3. FrameTaken(d).frameCount = d.frameCount
        BY <1>2 DEF FrameTaken, DecoderType
      <4>4. NettyTurn(d) = e
        BY <1>6, <2>7, <3>3, <4>1, <4>2, <4>3 DEF NettyTurn
      <4>5. Reads(e, before, rest) /\ Len(e.buf) + 4 <= Len(d.buf)
        BY <1>6, <3>1, <3>3, <4>1, <4>2, FrameKeeps
      <4>6. e.id = d.id
        BY <1>2, <4>2 DEF FrameTaken, DecoderType
      <4>7. Measure(e) = Len(e.buf) + 2 /\ Measure(d) = Len(d.buf) + 2
        BY <1>6, <4>6 DEF Measure
      <4>8. Len(e.buf) \in Nat
        BY <4>5, MeasureTyped DEF Reads
      <4>9. Measure(e) + 2 <= Measure(d)
        BY <1>3, <4>5, <4>7, <4>8
      <4>10. QED
        BY <4>4, <4>5, <4>9 DEF Turns
    <3>4. QED
      BY <3>2, <3>3
  <2>8. QED
    BY <2>6, <2>7
<1>7. QED
  BY <1>3, <1>4, <1>5, <1>6

\* A turn of the standard decoder: a frame, the empty frame that ends a message, or nothing.
LEMMA StandardTurns ==
  ASSUME messages \in Traffic, netty \in BOOLEAN, ~netty, NEW before \in Seq(Read), NEW rest \in Seq(Byte),
         NEW d, Reads(d, before, rest)
  PROVE  Turns(d, StandardTurn(d), before, rest)
<1>1. PICK k : k = ReadSoFar(d, before)
  OBVIOUS
<1>2. /\ d \in DecoderType /\ AtMessage(d, k) /\ Cuts(d.buf, rest, <<>>, Unused(d, k))
      /\ k \in 0..Len(messages) /\ Len(messages) \in Nat
  BY <1>1, EncodingsTyped DEF Reads, AtMessage
<1>3. d.buf \in Seq(Byte) /\ Len(d.buf) \in Nat /\ d.frameCount \in Nat
  BY <1>2, LenProperties DEF DecoderType
<1>4. /\ Unused(d, k) \in Seq(Byte) /\ d.buf \o rest = Unused(d, k)
      /\ Len(d.buf) + Len(rest) = Len(Unused(d, k)) /\ Len(rest) \in Nat
  <2>1. PICK u : u = Unused(d, k)
    OBVIOUS
  <2>2. u \in Seq(Byte)
    BY <1>2, <2>1, UnusedTyped
  <2>3. <<>> \o u = u
    BY <2>2, ConcatEmptySeq
  <2>4. d.buf \o rest = u
    BY <1>2, <2>1, <2>3 DEF Cuts
  <2>5. Len(d.buf \o rest) = Len(d.buf) + Len(rest) /\ Len(rest) \in Nat
    BY <1>3, ConcatProperties, LenProperties
  <2>6. QED
    BY <2>1, <2>2, <2>4, <2>5
<1>5. ASSUME k = Len(messages) PROVE Turns(d, StandardTurn(d), before, rest)
  <2>1. Unused(d, k) = <<>>
    BY <1>5 DEF Unused
  <2>2. Len(d.buf) = 0
    BY <1>3, <1>4, <2>1
  <2>3. ~HasFrame(d.buf)
    BY <2>2 DEF HasFrame
  <2>4. StandardTurn(d) = d
    BY <2>3 DEF StandardTurn
  <2>5. HasToWait(d, ReadSoFar(d, before))
    BY <1>1, <1>2, <1>5 DEF HasToWait
  <2>6. QED
    BY <2>4, <2>5 DEF Turns
<1>6. ASSUME k # Len(messages) PROVE Turns(d, StandardTurn(d), before, rest)
  <2>1. k < Len(messages) /\ k \in 0..Len(messages) - 1
    BY <1>2, <1>6
  <2>2. PICK p : p = messages[k + 1].payload
    OBVIOUS
  <2>3. PICK j : j = Len(d.bufs)
    OBVIOUS
  <2>4. Inside(d, k, p, j)
    BY <1>2, <2>1, <2>2, <2>3, UnusedInside
  <2>5. j \in 0..Len(p) /\ Len(p) \in Nat
    BY <2>4 DEF Inside
  <2>6. ASSUME j # Len(p) PROVE Turns(d, StandardTurn(d), before, rest)
    <3>1. /\ Len(d.bufs) < Len(messages[ReadSoFar(d, before) + 1].payload) /\ ReadSoFar(d, before) < Len(messages)
      BY <1>1, <2>1, <2>2, <2>3, <2>5, <2>6
    <3>2. ASSUME ~HasFrame(d.buf) PROVE Turns(d, StandardTurn(d), before, rest)
      <4>1. StandardTurn(d) = d
        BY <3>2 DEF StandardTurn
      <4>2. HasToWait(d, ReadSoFar(d, before))
        BY <3>1, <3>2, FrameTurn
      <4>3. QED
        BY <4>1, <4>2 DEF Turns
    <3>3. ASSUME HasFrame(d.buf) PROVE Turns(d, StandardTurn(d), before, rest)
      <4>1. PICK c \in Nat : c = d.frameCount
        BY <1>3
      <4>2. PICK e : e = [FrameTaken(d) EXCEPT !.frameCount = c]
        OBVIOUS
      <4>3. FrameTaken(d) = e
        BY <1>2, <4>1, <4>2 DEF FrameTaken, DecoderType
      <4>4. Reads(e, before, rest) /\ Len(e.buf) + 4 <= Len(d.buf) /\ ReadInt(d.buf) # 0
        BY <3>1, <3>3, <4>2, FrameKeeps
      <4>5. StandardTurn(d) = e
        BY <3>3, <4>3, <4>4 DEF StandardTurn
      <4>6. Measure(e) = Len(e.buf) + 0 /\ Measure(d) = Len(d.buf) + 0
        BY DEF Measure
      <4>7. Len(e.buf) \in Nat
        BY <4>4, MeasureTyped DEF Reads
      <4>8. Measure(e) + 2 <= Measure(d)
        BY <1>3, <4>4, <4>6, <4>7
      <4>9. QED
        BY <4>4, <4>5, <4>8 DEF Turns
    <3>4. QED
      BY <3>2, <3>3
  <2>7. ASSUME j = Len(p) PROVE Turns(d, StandardTurn(d), before, rest)
    <3>1. PICK r : r = Behind(Encodings, k + 1)
      OBVIOUS
    <3>2. r \in Seq(Byte) /\ Len(r) \in Nat
      BY <1>2, <2>1, <3>1, UnusedTyped, LenProperties
    <3>3. Unused(d, k) = IntBuffer(0) \o r
      BY <2>4, <2>7, <3>1 DEF Inside, Ending
    <3>4. IntBuffer(0) \in Seq(Byte) /\ Len(IntBuffer(0)) = 4 /\ 0 \in Int32
      BY IntIsRead, SmallEnough
    <3>5. Len(Unused(d, k)) = 4 + Len(r)
      <4>1. PICK h : h = IntBuffer(0)
        OBVIOUS
      <4>2. Len(h \o r) = Len(h) + Len(r)
        BY <3>2, <3>4, <4>1, ConcatProperties
      <4>3. QED
        BY <3>3, <3>4, <4>1, <4>2
    <3>6. Len(d.buf) >= 4 => /\ ReadInt(d.buf) = 0
                             /\ Slice(d.buf, 4) \in Seq(Byte) /\ Len(Slice(d.buf, 4)) = Len(d.buf) - 4
                             /\ Slice(d.buf, 4) \o rest = r
      <4>1. Cuts(d.buf, rest, IntBuffer(0), r)
        BY <1>4, <3>3 DEF Cuts
      <4>2. QED
        BY <1>3, <3>2, <3>4, <4>1, HeadRead
    <3>7. HasFrame(d.buf) <=> Len(d.buf) >= 4
      BY <1>3, <3>6 DEF HasFrame
    <3>8. ASSUME ~HasFrame(d.buf) PROVE Turns(d, StandardTurn(d), before, rest)
      <4>1. StandardTurn(d) = d
        BY <3>8 DEF StandardTurn
      <4>2. Len(d.buf) + Len(r) < 4 + Len(r)
        BY <1>3, <3>2, <3>7, <3>8
      <4>3. HasToWait(d, ReadSoFar(d, before))
        BY <1>1, <3>1, <3>5, <4>2 DEF HasToWait
      <4>4. QED
        BY <4>1, <4>3 DEF Turns
    <3>9. ASSUME HasFrame(d.buf) PROVE Turns(d, StandardTurn(d), before, rest)
      <4>1. PICK b : b = Slice(d.buf, 4)
        OBVIOUS
      <4>2. /\ ReadInt(d.buf) = 0 /\ b \in Seq(Byte) /\ Len(b) = Len(d.buf) - 4 /\ b \o rest = r
        BY <3>6, <3>7, <3>9, <4>1
      <4>3. PICK e : e = [MessageTaken(d) EXCEPT !.buf = b]
        OBVIOUS
      <4>4. MessageTaken(d).buf = d.buf
        BY <1>2 DEF MessageTaken, DecoderType
      <4>5. StandardTurn(d) = e
        BY <3>9, <4>1, <4>2, <4>3, <4>4 DEF StandardTurn
      <4>6. Cuts(b, rest, <<>>, Behind(Encodings, ReadSoFar(d, before) + 1))
        <5>1. <<>> \o r = r
          BY <3>2, ConcatEmptySeq
        <5>2. QED
          BY <1>1, <3>1, <4>2, <5>1 DEF Cuts
      <4>7. Len(d.bufs) = Len(messages[ReadSoFar(d, before) + 1].payload) /\ ReadSoFar(d, before) < Len(messages)
        BY <1>1, <2>1, <2>2, <2>3, <2>7
      <4>8. Reads(e, before, rest)
        BY <4>2, <4>3, <4>6, <4>7, MessageKeeps
      <4>9. e.buf = b
        BY <1>2, <4>3 DEF MessageTaken, DecoderType
      <4>10. Measure(e) = Len(b) + 0 /\ Measure(d) = Len(d.buf) + 0
        BY <4>9 DEF Measure
      <4>11. Len(b) \in Nat
        BY <4>2, LenProperties
      <4>12. Measure(e) + 2 <= Measure(d)
        BY <1>3, <4>2, <4>10, <4>11
      <4>13. QED
        BY <4>5, <4>8, <4>12 DEF Turns
    <3>10. QED
      BY <3>8, <3>9
  <2>8. QED
    BY <2>6, <2>7
<1>7. QED
  BY <1>5, <1>6

\* Turn by turn the decoder reads the stream, and ends when it has to wait.
LEMMA DecodedReads ==
  ASSUME messages \in Traffic, netty \in BOOLEAN, NEW before \in Seq(Read), NEW rest \in Seq(Byte),
         NEW d, Reads(d, before, rest)
  PROVE  Reads(Decoded(d), before, rest) /\ HasToWait(Decoded(d), ReadSoFar(Decoded(d), before))
<1>1. PICK S : S = {e \in DecoderType : Reads(e, before, rest)}
  OBVIOUS
<1>2. \A e : e \in S <=> Reads(e, before, rest)
  BY <1>1 DEF Reads
<1>3. \A e \in S : Turns(e, DecodeTurn(e), before, rest) /\ DecodeTurn(e) \in S /\ Measure(e) \in Nat
  <2>1. TAKE e \in S
  <2>2. Reads(e, before, rest) /\ e \in DecoderType
    BY <1>2 DEF Reads
  <2>3. CASE netty
    <3>1. Turns(e, NettyTurn(e), before, rest) /\ DecodeTurn(e) = NettyTurn(e)
      BY <2>2, <2>3, NettyTurns DEF DecodeTurn
    <3>2. QED
      BY <1>2, <2>2, <3>1, MeasureTyped DEF Turns
  <2>4. CASE ~netty
    <3>1. Turns(e, StandardTurn(e), before, rest) /\ DecodeTurn(e) = StandardTurn(e)
      BY <2>2, <2>4, StandardTurns DEF DecodeTurn
    <3>2. QED
      BY <1>2, <2>2, <3>1, MeasureTyped DEF Turns
  <2>5. QED
    BY <2>3, <2>4
<1>4. PICK last \in Nat : last = Len(d.buf) \div 2 + 1
  <2>1. PICK n \in Nat : n = Len(d.buf)
    BY MeasureTyped DEF Reads
  <2>2. n \div 2 + 1 \in Nat
    OBVIOUS
  <2>3. QED
    BY <2>1, <2>2
<1>14. Len(d.buf) + 2 <= 2 * last + 1
  <2>1. PICK n \in Nat : n = Len(d.buf)
    BY MeasureTyped DEF Reads
  <2>2. n + 2 <= 2 * (n \div 2 + 1) + 1
    OBVIOUS
  <2>3. QED
    BY <1>4, <2>1, <2>2
<1>5. \E f : f = [n \in 0..last |-> IF n = 0 THEN d ELSE DecodeTurn(f[n - 1])]
  <2>1. PICK step : step = [e \in S |-> DecodeTurn(e)]
    OBVIOUS
  <2>2. Steps(step, S)
    BY <1>3, <2>1 DEF Steps
  <2>3. d \in S
    BY <1>2
  <2>4. PICK f : Stepwise(f, S, step, d, last)
    BY <2>2, <2>3, Iterated
  <2>5. /\ f \in [0..last -> S] /\ f[0] = d
        /\ \A n \in 1..last : f[n] = step[f[n - 1]]
    BY <2>4 DEF Stepwise
  <2>6. \A n \in 0..last : f[n] = IF n = 0 THEN d ELSE DecodeTurn(f[n - 1])
    <3>1. TAKE n \in 0..last
    <3>2. CASE n = 0
      BY <2>5, <3>2
    <3>3. CASE n # 0
      <4>1. n \in 1..last /\ n - 1 \in 0..last
        BY <3>3
      <4>2. f[n - 1] \in S
        BY <2>5, <4>1
      <4>3. f[n] = step[f[n - 1]]
        BY <2>5, <4>1
      <4>4. QED
        BY <2>1, <3>3, <4>2, <4>3
    <3>4. QED
      BY <3>2, <3>3
  <2>7. f = [n \in 0..last |-> f[n]]
    BY <2>5
  <2>8. f = [n \in 0..last |-> IF n = 0 THEN d ELSE DecodeTurn(f[n - 1])]
    BY <2>6, <2>7
  <2>9. QED
    BY <2>8
<1>6. PICK turns : /\ turns = [n \in 0..last |-> IF n = 0 THEN d ELSE DecodeTurn(turns[n - 1])]
                   /\ Decoded(d) = turns[last]
  <2> DEFINE f == CHOOSE g : g = [n \in 0..last |-> IF n = 0 THEN d ELSE DecodeTurn(g[n - 1])]
  <2>1. f = [n \in 0..last |-> IF n = 0 THEN d ELSE DecodeTurn(f[n - 1])]
    BY <1>5
  <2>2. Decoded(d) = f[last]
    BY <1>4 DEF Decoded
  <2> HIDE DEF f
  <2>3. QED
    BY <2>1, <2>2
<1>7. turns[0] = d /\ \A n \in 1..last : turns[n] = DecodeTurn(turns[n - 1])
  BY <1>6
<1> DEFINE Done(e) == DecodeTurn(e) = e /\ HasToWait(e, ReadSoFar(e, before))
           Good(n) == turns[n] \in S /\ (Measure(turns[n]) <= 2 * (last - n) + 1 \/ Done(turns[n]))
           T == {n \in Nat : Good(n)}
<1>8. 0 \in T
  <2>1. d \in S /\ d \in DecoderType
    BY <1>2 DEF Reads
  <2>2. Measure(d) <= 2 * last + 1
    BY <1>14, <2>1, MeasureTyped
  <2>3. QED
    BY <1>7, <2>1, <2>2
<1>9. ASSUME NEW n \in 0..last - 1, n \in T PROVE n + 1 \in T
  <2>1. PICK m : m = n + 1
    OBVIOUS
  <2>2. m \in 1..last /\ n = m - 1 /\ m \in Nat /\ n \in Nat
    BY <2>1
  <2>3. PICK e : e = turns[n]
    OBVIOUS
  <2>4. PICK g : g = turns[m]
    OBVIOUS
  <2>5. e \in S /\ (Measure(e) <= 2 * (last - n) + 1 \/ Done(e))
    BY <1>9, <2>3
  <2>6. g = DecodeTurn(e)
    BY <1>7, <2>2, <2>3, <2>4
  <2>7. /\ g \in S /\ Measure(e) \in Nat /\ Measure(g) \in Nat
        /\ Measure(g) + 2 <= Measure(e) \/ (g = e /\ HasToWait(e, ReadSoFar(e, before)))
    BY <1>3, <2>5, <2>6 DEF Turns
  <2>8. Measure(g) <= 2 * (last - m) + 1 \/ Done(g)
    <3>1. CASE g = e /\ HasToWait(e, ReadSoFar(e, before))
      BY <2>6, <3>1
    <3>2. CASE Done(e)
      BY <2>6, <3>2
    <3>3. CASE Measure(g) + 2 <= Measure(e) /\ Measure(e) <= 2 * (last - n) + 1
      BY <2>1, <2>2, <2>7, <3>3
    <3>4. QED
      BY <2>5, <2>7, <3>1, <3>2, <3>3
  <2>9. QED
    BY <2>1, <2>2, <2>4, <2>7, <2>8
<1>10. turns[last] \in S /\ (Measure(turns[last]) <= 1 \/ Done(turns[last]))
  <2>1. last \in T
    <3> HIDE DEF T
    <3>1. 0..last \subseteq T
      BY <1>8, <1>9, Upwards
    <3>2. QED
      BY <3>1
  <2>2. last - last = 0
    OBVIOUS
  <2>3. QED
    BY <2>1, <2>2
<1>11. PICK e : e = turns[last]
  OBVIOUS
<1>12. HasToWait(e, ReadSoFar(e, before))
  <2>1. CASE Done(e)
    BY <2>1
  <2>2. CASE Measure(e) <= 1
    <3>1. e \in S /\ DecodeTurn(e) \in S
      BY <1>3, <1>10, <1>11
    <3>2. Measure(e) \in Nat /\ Measure(DecodeTurn(e)) \in Nat
      BY <1>3, <3>1
    <3>3. ~(Measure(DecodeTurn(e)) + 2 <= Measure(e))
      BY <2>2, <3>2
    <3>4. QED
      BY <1>3, <3>1, <3>3 DEF Turns
  <2>3. QED
    BY <1>10, <1>11, <2>1, <2>2
<1>13. QED
  BY <1>2, <1>6, <1>10, <1>11, <1>12

----------------------------------------------------------------------------
(* How many bytes that is.                                                 *)

\* The messages before and behind make up the stream.
LEMMA Ends ==
  ASSUME messages \in Traffic, netty \in BOOLEAN, NEW k \in 0..Len(messages)
  PROVE  /\ EncodingEnd(k) \in Nat /\ Len(Behind(Encodings, k)) \in Nat
         /\ EncodingEnd(k) + Len(Behind(Encodings, k)) = Len(FlattenSeq(Encodings))
         /\ k < Len(messages) => EncodingEnd(k + 1) = EncodingEnd(k) + Len(Encodings[k + 1])
                                 /\ Len(Encodings[k + 1]) \in Nat
<1>1. Encodings \in Seq(Seq(Byte)) /\ Len(Encodings) = Len(messages) /\ Len(messages) \in Nat
  BY EncodingsTyped
<1>2. PICK a : a = FlattenSeq(SubSeq(Encodings, 1, k))
  OBVIOUS
<1>3. PICK b : b = Behind(Encodings, k)
  OBVIOUS
<1>4. a \in Seq(Byte) /\ b \in Seq(Byte) /\ FlattenSeq(Encodings) = a \o b
  BY <1>1, <1>2, <1>3, FlatCut
<1>5. Len(a) \in Nat /\ Len(b) \in Nat /\ Len(a \o b) = Len(a) + Len(b)
  BY <1>4, ConcatProperties, LenProperties
<1>6. ASSUME k < Len(messages)
      PROVE  EncodingEnd(k + 1) = EncodingEnd(k) + Len(Encodings[k + 1]) /\ Len(Encodings[k + 1]) \in Nat
  <2>1. k \in 0..Len(Encodings) - 1
    BY <1>1, <1>6
  <2>2. PICK c : c = Encodings[k + 1]
    OBVIOUS
  <2>3. c \in Seq(Byte) /\ FlattenSeq(SubSeq(Encodings, 1, k + 1)) = a \o c
    BY <1>1, <1>2, <2>1, <2>2, BehindNext
  <2>4. Len(a \o c) = Len(a) + Len(c) /\ Len(c) \in Nat
    BY <1>4, <2>3, ConcatProperties, LenProperties
  <2>5. QED
    BY <1>2, <2>2, <2>3, <2>4 DEF EncodingEnd
<1>7. QED
  BY <1>2, <1>3, <1>4, <1>5, <1>6 DEF EncodingEnd

\* Later messages end later.
LEMMA EndsGrow ==
  ASSUME messages \in Traffic, netty \in BOOLEAN, NEW k \in 0..Len(messages), NEW m \in 0..Len(messages), k <= m
  PROVE  EncodingEnd(k) <= EncodingEnd(m)
<1> DEFINE T == {n \in Nat : EncodingEnd(k) <= EncodingEnd(k + n)}
<1>1. Len(messages) \in Nat /\ k \in Nat /\ m \in Nat /\ m <= Len(messages)
  BY EncodingsTyped
<1>2. 0 \in T
  <2>1. EncodingEnd(k) \in Nat /\ k + 0 = k
    BY <1>1, Ends
  <2>2. QED
    BY <2>1
<1>3. ASSUME NEW n \in 0..m - k - 1, n \in T PROVE n + 1 \in T
  <2>1. PICK i : i = k + n
    OBVIOUS
  <2>2. i \in 0..Len(messages) /\ i < Len(messages) /\ k + (n + 1) = i + 1 /\ n + 1 \in Nat
    BY <1>1, <2>1
  <2>3. /\ EncodingEnd(i + 1) = EncodingEnd(i) + Len(Encodings[i + 1])
        /\ Len(Encodings[i + 1]) \in Nat /\ EncodingEnd(i) \in Nat
    BY <2>2, Ends
  <2>4. EncodingEnd(k) <= EncodingEnd(i) /\ EncodingEnd(k) \in Nat
    BY <1>3, <2>1, Ends
  <2>5. EncodingEnd(k) <= EncodingEnd(i + 1)
    BY <2>3, <2>4
  <2>6. QED
    BY <2>2, <2>5
<1>4. m - k \in T
  <2> HIDE DEF T
  <2>1. m - k \in Nat
    BY <1>1
  <2>2. 0..m - k \subseteq T
    BY <1>2, <1>3, <2>1, Upwards
  <2>3. QED
    BY <2>1, <2>2
<1>5. k + (m - k) = m
  BY <1>1
<1>6. QED
  BY <1>4, <1>5

\* The whole messages among the bytes that have arrived.
LEMMA WholeIs ==
  ASSUME messages \in Traffic, netty \in BOOLEAN, arrived \in Nat, NEW k \in 0..Len(messages),
         EncodingEnd(k) <= arrived, k < Len(messages) => EncodingEnd(k + 1) > arrived
  PROVE  WholeMessages = k
<1> DEFINE Whole(n) == EncodingEnd(n) <= arrived /\ (n < Len(messages) => EncodingEnd(n + 1) > arrived)
<1>1. ASSUME NEW n \in 0..Len(messages), Whole(n) PROVE n = k
  <2>1. Len(messages) \in Nat /\ n \in Nat /\ k \in Nat
    BY EncodingsTyped
  <2>2. \A i \in 0..Len(messages) : EncodingEnd(i) \in Nat
    BY Ends
  <2>3. CASE n < k
    <3>1. n + 1 \in 0..Len(messages) /\ n + 1 <= k /\ n < Len(messages)
      BY <2>1, <2>3
    <3>2. EncodingEnd(n + 1) <= EncodingEnd(k)
      BY <3>1, EndsGrow
    <3>3. EncodingEnd(n + 1) > arrived /\ EncodingEnd(n + 1) \in Nat /\ EncodingEnd(k) \in Nat
      BY <1>1, <2>2, <3>1
    <3>4. QED
      BY <3>2, <3>3
  <2>4. CASE k < n
    <3>1. k + 1 \in 0..Len(messages) /\ k + 1 <= n /\ k < Len(messages)
      BY <2>1, <2>4
    <3>2. EncodingEnd(k + 1) <= EncodingEnd(n)
      BY <3>1, EndsGrow
    <3>3. EncodingEnd(k + 1) > arrived /\ EncodingEnd(k + 1) \in Nat /\ EncodingEnd(n) \in Nat
      BY <2>2, <3>1
    <3>4. EncodingEnd(n) <= arrived
      BY <1>1
    <3>5. QED
      BY <3>2, <3>3, <3>4
  <2>5. QED
    BY <2>1, <2>3, <2>4
<1>2. Whole(k)
  OBVIOUS
<1>3. WholeMessages = CHOOSE n \in 0..Len(messages) : Whole(n)
  BY DEF WholeMessages
<1> HIDE DEF Whole
<1>4. QED
  BY <1>1, <1>2, <1>3

\* How much of a message is used.
LEMMA UnusedLength ==
  ASSUME messages \in Traffic, netty \in BOOLEAN, NEW d \in DecoderType, NEW k \in 0..Len(messages), AtMessage(d, k)
  PROVE  /\ Len(Unused(d, k)) \in Nat /\ Len(Unused(d, k)) <= Len(Behind(Encodings, k))
         /\ d.bufs # <<>> => Len(Unused(d, k)) < Len(Behind(Encodings, k))
         /\ d.bufs = <<>> /\ d.id = NoId => Len(Unused(d, k)) = Len(Behind(Encodings, k))
         /\ d.bufs = <<>> /\ d.id # NoId => netty /\ Len(Unused(d, k)) = Len(Behind(Encodings, k)) - 8
<1>1. Len(messages) \in Nat /\ k \in Nat /\ Len(Behind(Encodings, k)) \in Nat
  BY EncodingsTyped, Ends
<1>2. CASE d.bufs = <<>> /\ d.id = NoId
  <2>1. Unused(d, k) = Behind(Encodings, k)
    BY <1>2, UnusedTyped
  <2>2. QED
    BY <1>1, <1>2, <2>1
<1>3. CASE ~(d.bufs = <<>> /\ d.id = NoId)
  <2>1. k \in 0..Len(messages) - 1 /\ k < Len(messages) /\ k + 1 \in 1..Len(messages)
    BY <1>1, <1>3 DEF AtMessage
  <2>2. netty => d.id # NoId
    BY <1>3 DEF AtMessage
  <2>3. PICK p : p = messages[k + 1].payload
    OBVIOUS
  <2>4. PICK j : j = Len(d.bufs)
    OBVIOUS
  <2>5. j \in 0..Len(p) /\ Len(p) \in Nat /\ p \in Seq(Seq(Byte))
    <3>1. Inside(d, k, p, j)
      BY <2>1, <2>2, <2>3, <2>4, UnusedInside
    <3>2. QED
      BY <3>1 DEF Inside
  <2>6. \A i \in 1..Len(p) : p[i] \in Seq(Byte) /\ Len(p[i]) \in Int32 /\ Len(p[i]) \in Nat \ {0}
    BY <2>1, <2>3, WrittenTypes
  <2>7. PICK list : list = FrameList(p)
    OBVIOUS
  <2>8. /\ list \in Seq(Seq(Byte)) /\ Len(list) = Len(p)
        /\ \A i \in 1..Len(p) : list[i] = IntBuffer(Len(p[i])) \o p[i]
    BY <2>5, <2>6, <2>7, FramesTyped
  <2>9. PICK a : a = FlattenSeq(SubSeq(list, 1, j))
    OBVIOUS
  <2>10. PICK b : b = Behind(list, j)
    OBVIOUS
  <2>11. /\ a \in Seq(Byte) /\ b \in Seq(Byte) /\ Behind(list, 0) = a \o b
         /\ Len(a) \in Nat /\ Len(b) \in Nat /\ Len(Behind(list, 0)) = Len(a) + Len(b)
    <3>1. a \in Seq(Byte) /\ b \in Seq(Byte) /\ FlattenSeq(list) = a \o b
      BY <2>5, <2>8, <2>9, <2>10, FlatCut
    <3>2. Behind(list, 0) = FlattenSeq(list)
      BY <2>8, BehindNext
    <3>3. Len(a \o b) = Len(a) + Len(b) /\ Len(a) \in Nat /\ Len(b) \in Nat
      BY <3>1, ConcatProperties, LenProperties
    <3>4. QED
      BY <3>1, <3>2, <3>3
  <2>12. d.bufs # <<>> => Len(a) > 0
    <3>1. SUFFICES ASSUME d.bufs # <<>> PROVE Len(a) > 0
      OBVIOUS
    <3>2. j # 0
      BY <2>4, <3>1, EmptySeq DEF DecoderType
    <3>3. PICK i : i = j - 1
      OBVIOUS
    <3>4. i \in 0..Len(list) - 1 /\ i + 1 = j /\ j \in 1..Len(p) /\ i \in 0..Len(list)
      BY <2>5, <2>8, <3>2, <3>3
    <3>5. PICK c : c = FlattenSeq(SubSeq(list, 1, i))
      OBVIOUS
    <3>6. PICK e : e = list[j]
      OBVIOUS
    <3>7. a = c \o e /\ e \in Seq(Byte)
      <4>1. list[i + 1] \in Seq(Byte) /\ FlattenSeq(SubSeq(list, 1, i + 1)) = FlattenSeq(SubSeq(list, 1, i)) \o list[i + 1]
        BY <2>8, <3>4, BehindNext
      <4>2. QED
        BY <2>9, <3>4, <3>5, <3>6, <4>1
    <3>8. c \in Seq(Byte)
      BY <2>8, <3>4, <3>5, FlatCut
    <3>9. Len(e) > 0 /\ Len(e) \in Nat
      <4>1. PICK h : h = IntBuffer(Len(p[j]))
        OBVIOUS
      <4>2. h \in Seq(Byte) /\ Len(h) = 4 /\ p[j] \in Seq(Byte)
        BY <2>6, <3>4, <4>1, IntIsRead
      <4>3. Len(h \o p[j]) = Len(h) + Len(p[j]) /\ Len(p[j]) \in Nat
        BY <4>2, ConcatProperties, LenProperties
      <4>4. e = h \o p[j]
        BY <2>8, <3>4, <3>6, <4>1
      <4>5. QED
        BY <4>2, <4>3, <4>4
    <3>10. Len(c \o e) = Len(c) + Len(e) /\ Len(c) \in Nat
      BY <3>7, <3>8, ConcatProperties, LenProperties
    <3>11. QED
      BY <3>7, <3>9, <3>10
  <2>13. d.bufs = <<>> => Len(a) = 0
    <3>1. SUFFICES ASSUME d.bufs = <<>> PROVE Len(a) = 0
      OBVIOUS
    <3>2. j = 0 /\ SubSeq(list, 1, 0) = <<>> /\ FlattenSeq(<<>>) = <<>>
      BY <2>4, <3>1, SubSeqEmpty DEF FlattenSeq
    <3>3. a = <<>>
      BY <2>9, <3>2
    <3>4. QED
      BY <3>3
  <2>14. PICK z : z = Ending(k)
    OBVIOUS
  <2>15. z \in Seq(Byte) /\ Len(z) \in Nat
    BY <2>1, <2>14, UnusedTyped, LenProperties
  <2>16. Unused(d, k) = b \o z /\ Len(Unused(d, k)) = Len(b) + Len(z)
    <3>1. Unused(d, k) = b \o z
      BY <2>1, <2>2, <2>3, <2>4, <2>7, <2>10, <2>14 DEF Unused
    <3>2. QED
      BY <2>11, <2>15, <3>1, ConcatProperties
  <2>17. Len(Behind(Encodings, k)) = (IF netty THEN 8 ELSE 0) + Len(a) + Len(b) + Len(z)
    <3>1. PICK f : f = Behind(list, 0)
      OBVIOUS
    <3>2. f \in Seq(Byte) /\ Len(f) = Len(a) + Len(b)
      BY <2>11, <3>1, ConcatProperties
    <3>3. Len(f \o z) = Len(a) + Len(b) + Len(z) /\ f \o z \in Seq(Byte)
      <4>1. Len(f \o z) = Len(f) + Len(z) /\ f \o z \in Seq(Byte)
        BY <2>15, <3>2, ConcatProperties
      <4>2. QED
        BY <3>2, <4>1
    <3>4. CASE ~netty
      <4>1. Behind(Encodings, k) = f \o (IntBuffer(0) \o Behind(Encodings, k + 1))
        BY <2>1, <2>3, <2>7, <3>1, <3>4, NextEncoding
      <4>2. Behind(Encodings, k) = f \o z
        BY <2>14, <3>4, <4>1 DEF Ending
      <4>3. QED
        BY <2>11, <2>15, <3>3, <3>4, <4>2
    <3>5. CASE netty
      <4>1. PICK h : h = IntBuffer(messages[k + 1].id)
        OBVIOUS
      <4>2. PICK g : g = IntBuffer(Len(p))
        OBVIOUS
      <4>3. Behind(Encodings, k) = h \o (g \o (f \o z))
        <5>1. Behind(Encodings, k) = IntBuffer(messages[k + 1].id) \o (IntBuffer(Len(p)) \o (Behind(FrameList(p), 0) \o Behind(Encodings, k + 1)))
          BY <2>1, <2>3, <3>5, NextEncoding
        <5>2. z = Behind(Encodings, k + 1)
          BY <2>14, <3>5 DEF Ending
        <5>3. QED
          BY <2>7, <3>1, <4>1, <4>2, <5>1, <5>2
      <4>4. h \in Seq(Byte) /\ g \in Seq(Byte) /\ Len(h) = 4 /\ Len(g) = 4
        BY <2>1, <2>3, <4>1, <4>2, WrittenTypes, IntIsRead
      <4>5. PICK u : u = f \o z
        OBVIOUS
      <4>6. Len(g \o u) = Len(g) + Len(u) /\ g \o u \in Seq(Byte) /\ Len(u) = Len(a) + Len(b) + Len(z)
        BY <3>3, <4>4, <4>5, ConcatProperties
      <4>7. PICK v : v = g \o u
        OBVIOUS
      <4>8. Len(h \o v) = Len(h) + Len(v)
        BY <4>4, <4>6, <4>7, ConcatProperties
      <4>9. Len(Behind(Encodings, k)) = 4 + (4 + (Len(a) + Len(b) + Len(z)))
        BY <4>3, <4>4, <4>5, <4>6, <4>7, <4>8
      <4>10. QED
        BY <2>11, <2>15, <3>5, <4>9
    <3>6. QED
      BY <3>4, <3>5
  <2>18. PICK x \in {0, 8} : x = IF netty THEN 8 ELSE 0
    BY Zenon
  <2>19. Len(Behind(Encodings, k)) = x + Len(a) + Len(b) + Len(z)
    BY <2>17, <2>18
  <2>20. d.bufs = <<>> => netty /\ x = 8
    BY <1>3, <2>18 DEF AtMessage
  <2>21. PICK l \in Nat : l = Len(a)
    BY <2>11
  <2>22. PICK m \in Nat : m = Len(b)
    BY <2>11
  <2>23. PICK o \in Nat : o = Len(z)
    BY <2>15
  <2>24. PICK u : u = Len(Unused(d, k))
    OBVIOUS
  <2>25. PICK w : w = Len(Behind(Encodings, k))
    OBVIOUS
  <2>26. u = m + o /\ w = x + l + m + o
    BY <2>16, <2>19, <2>21, <2>22, <2>23, <2>24, <2>25
  <2>27. u \in Nat /\ u <= w /\ (l > 0 => u < w) /\ (l = 0 /\ x = 8 => u = w - 8)
    BY <2>18, <2>26
  <2>28. /\ d.bufs # <<>> => l > 0
         /\ d.bufs = <<>> => l = 0 /\ netty /\ x = 8 /\ d.id # NoId
    BY <1>3, <2>12, <2>13, <2>20, <2>21
  <2>29. QED
    BY <2>24, <2>25, <2>27, <2>28
<1>4. QED
  BY <1>2, <1>3

----------------------------------------------------------------------------
(* The bytes that have arrived, and what was pushed for them.              *)

\* A decoder that waits, and what of the stream has not arrived.
Standing(d, before, rest) ==
  /\ Reads(d, before, rest) /\ d.out = <<>> /\ HasToWait(d, Len(before))
  /\ rest \in Seq(Byte) /\ arrived + Len(rest) = Len(FlattenSeq(Encodings))

\* It has pushed the messages whose last byte has arrived, and nothing is left of them
\* exactly at the end of a message or of a Netty header.
LEMMA StandsAtWhole ==
  ASSUME messages \in Traffic, netty \in BOOLEAN, arrived \in Nat,
         NEW before \in Seq(Read), NEW rest, NEW d, Standing(d, before, rest)
  PROVE  /\ before = Sent(WholeMessages)
         /\ d.buf = <<>> /\ d.bufs = <<>> => arrived = EncodingEnd(WholeMessages) \/ HeaderOnly
         /\ d.buf # <<>> \/ d.bufs # <<>> => arrived # EncodingEnd(WholeMessages)
         /\ Len(d.buf) <= arrived /\ d.frameCount \in Nat
<1>1. PICK k : k = Len(before)
  OBVIOUS
<1>2. /\ d \in DecoderType /\ d.out = <<>> /\ rest \in Seq(Byte) /\ k \in Nat
      /\ arrived + Len(rest) = Len(FlattenSeq(Encodings))
      /\ Reads(d, before, rest) /\ HasToWait(d, k)
  BY <1>1, LenProperties DEF Standing, Reads
<1>3. ReadSoFar(d, before) = k
  BY <1>1, <1>2 DEF ReadSoFar
<1>4. AtMessage(d, k) /\ before \o d.out = Sent(k) /\ Cuts(d.buf, rest, <<>>, Unused(d, k))
  BY <1>2, <1>3 DEF Reads
<1>5. before = Sent(k)
  BY <1>2, <1>4, ConcatEmptySeq
<1>6. k \in 0..Len(messages) /\ Len(messages) \in Nat
  BY <1>4, EncodingsTyped DEF AtMessage
<1>7. /\ d.buf \in Seq(Byte) /\ Len(d.buf) \in Nat /\ Len(rest) \in Nat /\ d.frameCount \in Nat
      /\ Len(d.buf) = 0 <=> d.buf = <<>>
  <2>1. d.buf \in Seq(Byte) /\ d.frameCount \in Nat
    BY <1>2 DEF DecoderType
  <2>2. QED
    BY <1>2, <2>1, LenProperties, EmptySeq
<1>8. Len(d.buf) + Len(rest) = Len(Unused(d, k))
  <2>1. PICK u : u = Unused(d, k)
    OBVIOUS
  <2>2. u \in Seq(Byte)
    BY <1>2, <1>4, <1>6, <2>1, UnusedTyped
  <2>3. <<>> \o u = u
    BY <2>2, ConcatEmptySeq
  <2>4. d.buf \o rest = u
    BY <1>4, <2>1, <2>3 DEF Cuts
  <2>5. Len(d.buf \o rest) = Len(d.buf) + Len(rest)
    BY <1>2, <1>7, ConcatProperties
  <2>6. QED
    BY <2>1, <2>4, <2>5
<1>9. PICK e \in Nat : e = EncodingEnd(k)
  BY <1>6, Ends
<1>10. PICK b \in Nat : b = Len(Behind(Encodings, k))
  BY <1>6, Ends
<1>11. PICK u \in Nat : u = Len(Unused(d, k))
  BY <1>2, <1>4, <1>6, UnusedLength
<1>12. PICK n \in Nat : n = Len(d.buf)
  BY <1>7
<1>13. arrived = e + (b - u) + n
  <2>1. PICK r \in Nat : r = Len(rest)
    BY <1>7
  <2>2. n + r = u
    BY <1>8, <1>11, <1>12, <2>1
  <2>3. arrived + r = e + b
    BY <1>2, <1>6, <1>9, <1>10, <2>1, Ends
  <2>4. QED
    BY <2>2, <2>3
<1>14. /\ u <= b
       /\ d.bufs # <<>> => u < b
       /\ d.bufs = <<>> /\ d.id = NoId => u = b
       /\ d.bufs = <<>> /\ d.id # NoId => netty /\ u = b - 8
  BY <1>2, <1>4, <1>6, <1>10, <1>11, UnusedLength
<1>15. k < Len(messages) => EncodingEnd(k + 1) > arrived
  <2>1. SUFFICES ASSUME k < Len(messages) PROVE EncodingEnd(k + 1) > arrived
    OBVIOUS
  <2>2. k + 1 \in 0..Len(messages)
    BY <1>6, <2>1
  <2>3. PICK f \in Nat : f = EncodingEnd(k + 1)
    BY <2>2, Ends
  <2>4. PICK c \in Nat : c = Len(Behind(Encodings, k + 1))
    BY <2>2, Ends
  <2>5. f + c = e + b
    BY <1>6, <1>9, <1>10, <2>2, <2>3, <2>4, Ends
  <2>6. n + c < u
    BY <1>2, <1>11, <1>12, <2>1, <2>4 DEF HasToWait
  <2>7. f > arrived
    BY <1>13, <2>5, <2>6
  <2>8. QED
    BY <2>3, <2>7
<1>16. EncodingEnd(k) <= arrived
  <2>1. e <= arrived
    BY <1>13, <1>14
  <2>2. QED
    BY <1>9, <2>1
<1>17. WholeMessages = k
  BY <1>6, <1>15, <1>16, WholeIs
<1>18. ASSUME d.buf = <<>>, d.bufs = <<>> PROVE arrived = EncodingEnd(WholeMessages) \/ HeaderOnly
  <2>1. n = 0
    BY <1>7, <1>12, <1>18
  <2>2. d.id = NoId => arrived = e
    BY <1>13, <1>14, <1>18, <2>1
  <2>3. d.id # NoId => netty /\ arrived = e + 8
    BY <1>13, <1>14, <1>18, <2>1
  <2>4. QED
    BY <1>9, <1>17, <2>2, <2>3 DEF HeaderOnly
<1>19. ASSUME d.buf # <<>> \/ d.bufs # <<>> PROVE arrived # EncodingEnd(WholeMessages)
  <2>1. d.buf # <<>> => n > 0
    BY <1>7, <1>12
  <2>2. arrived # e
    BY <1>13, <1>14, <1>19, <2>1
  <2>3. QED
    BY <1>9, <1>17, <2>2
<1>20. Len(d.buf) <= arrived
  <2>1. n <= arrived
    BY <1>13, <1>14
  <2>2. QED
    BY <1>12, <2>1
<1>21. before = Sent(WholeMessages)
  BY <1>5, <1>17
<1>22. d.buf = <<>> /\ d.bufs = <<>> => arrived = EncodingEnd(WholeMessages) \/ HeaderOnly
  BY <1>18, Zenon
<1>23. d.buf # <<>> \/ d.bufs # <<>> => arrived # EncodingEnd(WholeMessages)
  BY <1>19, Zenon
<1>24. QED
  BY <1>7, <1>20, <1>21, <1>22, <1>23, Zenon

\* What has arrived is put behind the buffer.
LEMMA Fed ==
  ASSUME messages \in Traffic, netty \in BOOLEAN, NEW before \in Seq(Read), NEW rest \in Seq(Byte),
         NEW d, Reads(d, before, rest), NEW a \in Seq(Byte), NEW b \in Seq(Byte), Cuts(a, b, <<>>, rest)
  PROVE  Reads([d EXCEPT !.buf = @ \o a], before, b)
<1>1. PICK k : k = ReadSoFar(d, before)
  OBVIOUS
<1>2. /\ d \in DecoderType /\ AtMessage(d, k) /\ before \o d.out = Sent(k)
      /\ Cuts(d.buf, rest, <<>>, Unused(d, k))
  BY <1>1 DEF Reads
<1>3. PICK e : e = [d EXCEPT !.buf = @ \o a]
  OBVIOUS
<1>4. d.buf \in Seq(Byte)
  BY <1>2 DEF DecoderType
<1>5. d.buf \o a \in Seq(Byte)
  BY <1>4, ConcatProperties
<1>6. /\ e \in DecoderType /\ e.buf = d.buf \o a
      /\ e.id = d.id /\ e.frameCount = d.frameCount /\ e.bufs = d.bufs /\ e.out = d.out
  BY <1>2, <1>3, <1>5 DEF DecoderType
<1>7. ReadSoFar(e, before) = k /\ AtMessage(e, k) /\ Unused(e, k) = Unused(d, k)
  BY <1>1, <1>2, <1>6 DEF ReadSoFar, AtMessage, Unused
<1>8. Cuts(e.buf, b, <<>>, Unused(d, k))
  <2>1. a \o b = rest
    BY ConcatEmptySeq DEF Cuts
  <2>2. (d.buf \o a) \o b = d.buf \o (a \o b)
    <3>1. PICK c \in Seq(Byte) : c = d.buf
      BY <1>4
    <3>2. (c \o a) \o b = c \o (a \o b)
      BY ConcatAssociative, SMTT(60)
    <3>3. QED
      BY <3>1, <3>2
  <2>3. QED
    BY <1>2, <1>6, <2>1, <2>2 DEF Cuts
<1>9. Reads(e, before, b)
  BY <1>2, <1>6, <1>7, <1>8 DEF Reads
<1>10. QED
  BY <1>3, <1>9

\* What it gave has been pushed.
LEMMA PushedOn ==
  ASSUME messages \in Traffic, netty \in BOOLEAN, NEW before \in Seq(Read), NEW rest \in Seq(Byte),
         NEW d, Reads(d, before, rest), HasToWait(d, ReadSoFar(d, before))
  PROVE  /\ before \o d.out \in Seq(Read)
         /\ Reads([d EXCEPT !.out = <<>>], before \o d.out, rest)
         /\ [d EXCEPT !.out = <<>>].out = <<>>
         /\ HasToWait([d EXCEPT !.out = <<>>], Len(before \o d.out))
<1>1. PICK k : k = ReadSoFar(d, before)
  OBVIOUS
<1>2. /\ d \in DecoderType /\ AtMessage(d, k) /\ before \o d.out = Sent(k)
      /\ Cuts(d.buf, rest, <<>>, Unused(d, k)) /\ HasToWait(d, k)
  BY <1>1 DEF Reads
<1>3. PICK e : e = [d EXCEPT !.out = <<>>]
  OBVIOUS
<1>4. PICK after : after = before \o d.out
  OBVIOUS
<1>5. after \in Seq(Read) /\ Len(after) = k /\ after = Sent(k)
  <2>1. d.out \in Seq(Read)
    BY <1>2 DEF DecoderType
  <2>2. QED
    BY <1>1, <1>2, <1>4, <2>1, ConcatProperties DEF ReadSoFar
<1>6. /\ e \in DecoderType /\ e.out = <<>>
      /\ e.id = d.id /\ e.frameCount = d.frameCount /\ e.bufs = d.bufs /\ e.buf = d.buf
  BY <1>2, <1>3, EmptySeq DEF DecoderType
<1>7. AtMessage(e, k) /\ Unused(e, k) = Unused(d, k)
  BY <1>2, <1>6 DEF AtMessage, Unused
<1>8. ReadSoFar(e, after) = k /\ after \o e.out = Sent(k)
  <2>1. Len(e.out) = 0 /\ after \o e.out = after
    BY <1>5, <1>6, ConcatEmptySeq
  <2>2. Len(after) \in Nat
    BY <1>5, LenProperties
  <2>3. QED
    BY <1>5, <2>1, <2>2 DEF ReadSoFar
<1>9. Reads(e, after, rest)
  BY <1>2, <1>6, <1>7, <1>8 DEF Reads
<1>10. HasToWait(e, k)
  BY <1>2, <1>6, <1>7 DEF HasToWait
<1>11. QED
  BY <1>3, <1>4, <1>5, <1>6, <1>9, <1>10

\* A step that leaves the messages and the codec alone.
LEMMA SameStream ==
  ASSUME messages' = messages, netty' = netty
  PROVE  /\ Encodings' = Encodings
         /\ \A k : EncodingEnd(k)' = EncodingEnd(k)
         /\ \A d, before, rest : Reads(d, before, rest) => Reads(d, before, rest)'
         /\ \A d, k : HasToWait(d, k) => HasToWait(d, k)'
<1>1. Encodings' = Encodings
  BY DEF Encodings, Encode, NettyEncode, StandardEncode
<1>2. \A k : EncodingEnd(k)' = EncodingEnd(k)
  BY <1>1 DEF EncodingEnd
<1>3. \A k : Ending(k)' = Ending(k)
  BY <1>1 DEF Ending
<1>4. \A d, k : Unused(d, k)' = Unused(d, k)
  BY <1>1 DEF Unused, Ending
<1>5. \A d, k : AtMessage(d, k) => AtMessage(d, k)'
  BY DEF AtMessage
<1>6. \A k : Sent(k)' = Sent(k)
  BY DEF Sent, AsRead
<1>7. \A d, k : HasToWait(d, k) => HasToWait(d, k)'
  BY <1>1 DEF HasToWait, Unused, Ending
<1>8. \A d, before, rest : Reads(d, before, rest) => Reads(d, before, rest)'
  BY <1>4, <1>5, <1>6 DEF Reads, ReadSoFar
<1>9. QED
  BY <1>1, <1>2, <1>7, <1>8

\* The encoding of a message is not empty.
LEMMA EncodingLong ==
  ASSUME messages \in Traffic, netty \in BOOLEAN, NEW i \in 1..Len(messages)
  PROVE  Encodings[i] \in Seq(Byte) /\ Len(Encodings[i]) \in Nat /\ Len(Encodings[i]) > 0
<1>1. PICK p : p = messages[i].payload
  OBVIOUS
<1>2. /\ p \in Seq(Seq(Byte)) /\ messages[i].id \in Int32 /\ Len(p) \in Int32
      /\ \A j \in 1..Len(p) : Len(p[j]) \in Int32
  BY <1>1, WrittenTypes
<1>3. PICK f : f = Frames(p)
  OBVIOUS
<1>4. f \in Seq(Byte) /\ Len(f) \in Nat
  BY <1>2, <1>3, FramesTyped, LenProperties
<1>5. PICK h : h = IntBuffer(messages[i].id)
  OBVIOUS
<1>6. PICK g : g = IntBuffer(Len(p))
  OBVIOUS
<1>7. PICK z : z = IntBuffer(0)
  OBVIOUS
<1>8. /\ h \in Seq(Byte) /\ Len(h) = 4 /\ g \in Seq(Byte) /\ Len(g) = 4
      /\ z \in Seq(Byte) /\ Len(z) = 4
  BY <1>2, <1>5, <1>6, <1>7, IntIsRead, SmallEnough
<1>9. f \o z \in Seq(Byte) /\ Len(f \o z) = Len(f) + Len(z)
  BY <1>4, <1>8, ConcatProperties
<1>10. h \o g \in Seq(Byte) /\ Len(h \o g) = Len(h) + Len(g)
  BY <1>8, ConcatProperties
<1>11. PICK u : u = h \o g
  OBVIOUS
<1>12. u \o f \in Seq(Byte) /\ Len(u \o f) = Len(u) + Len(f)
  BY <1>4, <1>10, <1>11, ConcatProperties
<1>13. Encodings[i] = IF netty THEN u \o f ELSE f \o z
  BY <1>1, <1>3, <1>5, <1>6, <1>7, <1>11, EncodingsTyped DEF Encode, NettyEncode, StandardEncode
<1>14. CASE netty
  BY <1>4, <1>8, <1>10, <1>11, <1>12, <1>13, <1>14
<1>15. CASE ~netty
  BY <1>4, <1>8, <1>9, <1>13, <1>15
<1>16. QED
  BY <1>14, <1>15

----------------------------------------------------------------------------
(* The invariant.                                                          *)

\* The decoder stands in the stream where what has arrived ends; what has not is in
\* transit, or not yet written, or lost with the line.
FrameInv ==
  /\ netty \in BOOLEAN /\ messages \in Traffic /\ written \in 0..Len(messages)
  /\ lineEnd \in {"open", "cut", "clean", "trailing"}
  /\ bytes \in Seq(Byte) /\ arrived \in Nat /\ pushed \in Seq(Read)
  /\ decoder.out = <<>> /\ HasToWait(decoder, Len(pushed))
  /\ \E rest \in Seq(Byte) : /\ Reads(decoder, pushed, rest)
                             /\ arrived + Len(rest) = Len(FlattenSeq(Encodings))
                             /\ lineEnd = "open" => rest = bytes \o Behind(Encodings, written)
  /\ arrived + Len(bytes) <= EncodingEnd(written)
  /\ lineEnd = "clean" => ~Trailing
  /\ lineEnd = "trailing" => Trailing

\* A new decoder has the whole stream before it.
LEMMA NewDecoderReads ==
  ASSUME messages \in Traffic, netty \in BOOLEAN
  PROVE  /\ Reads(NewDecoder, <<>>, Behind(Encodings, 0)) /\ HasToWait(NewDecoder, 0)
         /\ Behind(Encodings, 0) = FlattenSeq(Encodings) /\ Behind(Encodings, 0) \in Seq(Byte)
         /\ EncodingEnd(0) \in Nat
<1>1. PICK d : d = NewDecoder
  OBVIOUS
<1>2. /\ d.id = NoId /\ d.frameCount = 0 /\ d.buf = <<>> /\ d.bufs = <<>> /\ d.out = <<>>
      /\ d \in DecoderType
  BY <1>1, EmptySeq DEF NewDecoder, DecoderType
<1>3. /\ Len(messages) \in Nat /\ 0 \in 0..Len(messages)
      /\ Encodings \in Seq(Seq(Byte)) /\ Len(Encodings) = Len(messages)
  BY EncodingsTyped
<1>4. Behind(Encodings, 0) = FlattenSeq(Encodings) /\ Behind(Encodings, 0) \in Seq(Byte)
  BY <1>3, BehindNext, FlatTyped
<1>5. AtMessage(d, 0)
  <2>1. Len(d.bufs) = 0
    BY <1>2
  <2>2. ASSUME 0 < Len(messages)
        PROVE  0 <= Len(messages[0 + 1].payload) /\ d.bufs = SubSeq(messages[0 + 1].payload, 1, 0)
    <3>1. 0 + 1 \in 1..Len(messages)
      BY <1>3, <2>2
    <3>2. Len(messages[0 + 1].payload) \in Nat
      BY <3>1, WrittenTypes
    <3>3. SubSeq(messages[0 + 1].payload, 1, 0) = <<>>
      BY SubSeqEmpty
    <3>4. QED
      BY <1>2, <3>2, <3>3
  <2>3. QED
    BY <1>2, <1>3, <2>1, <2>2 DEF AtMessage
<1>6. ReadSoFar(d, <<>>) = 0
  BY <1>2 DEF ReadSoFar
<1>7. Unused(d, 0) = Behind(Encodings, 0)
  BY <1>2, <1>3, <1>5, UnusedTyped
<1>8. Reads(d, <<>>, Behind(Encodings, 0))
  <2>1. <<>> \o d.out = Sent(0)
    <3>1. <<>> \o d.out = <<>>
      BY <1>2
    <3>2. Sent(0) = <<>>
      BY DEF Sent
    <3>3. QED
      BY <3>1, <3>2
  <2>2. Cuts(d.buf, Behind(Encodings, 0), <<>>, Unused(d, 0))
    BY <1>2, <1>7 DEF Cuts
  <2>3. QED
    BY <1>2, <1>5, <1>6, <2>1, <2>2 DEF Reads
<1>9. HasToWait(d, 0)
  <2>1. SUFFICES ASSUME 0 < Len(messages)
                 PROVE  Len(d.buf) + Len(Behind(Encodings, 0 + 1)) < Len(Unused(d, 0))
    BY DEF HasToWait
  <2>2. 0 \in 0..Len(messages) - 1 /\ 1 \in 0..Len(messages) /\ 1 \in 1..Len(messages) /\ 0 + 1 = 1
    BY <1>3, <2>1
  <2>3. EncodingEnd(1) = EncodingEnd(0) + Len(Encodings[1])
    BY <1>3, <2>1, <2>2, Ends
  <2>4. PICK b \in Nat : b = Len(Behind(Encodings, 0))
    BY <1>3, Ends
  <2>5. PICK c \in Nat : c = Len(Behind(Encodings, 1))
    BY <2>2, Ends
  <2>6. PICK n \in Nat : n = Len(Encodings[1]) /\ n > 0
    BY <2>2, EncodingLong
  <2>7. b = n + c
    <3>1. PICK s : s = Encodings[1]
      OBVIOUS
    <3>2. PICK t : t = Behind(Encodings, 1)
      OBVIOUS
    <3>3. s \in Seq(Byte) /\ t \in Seq(Byte) /\ Behind(Encodings, 0) = s \o t
      BY <1>3, <2>2, <3>1, <3>2, EncodingsTyped, ElementOfSeq, NextEncoding
    <3>4. Len(s \o t) = Len(s) + Len(t)
      BY <3>3, ConcatProperties
    <3>5. QED
      BY <2>4, <2>5, <2>6, <3>1, <3>2, <3>3, <3>4
  <2>8. Len(d.buf) = 0
    BY <1>2
  <2>9. QED
    BY <1>7, <2>2, <2>4, <2>5, <2>6, <2>7, <2>8
<1>10. EncodingEnd(0) \in Nat
  BY <1>3, Ends
<1>11. QED
  BY <1>1, <1>4, <1>8, <1>9, <1>10

\* At the start nothing has arrived.
LEMMA FrameInit == FInit => FrameInv
<1>1. SUFFICES ASSUME FInit PROVE FrameInv
  OBVIOUS
<1>2. /\ netty \in BOOLEAN /\ messages \in Traffic /\ written = 0 /\ bytes = <<>> /\ arrived = 0
      /\ decoder = NewDecoder /\ pushed = <<>> /\ lineEnd = "open"
  BY <1>1 DEF FInit
<1>3. PICK r : r = Behind(Encodings, 0)
  OBVIOUS
<1>4. /\ Reads(decoder, pushed, r) /\ r = FlattenSeq(Encodings) /\ r \in Seq(Byte) /\ HasToWait(decoder, 0)
      /\ EncodingEnd(0) \in Nat /\ Len(messages) \in Nat
  BY <1>2, <1>3, NewDecoderReads, EncodingsTyped
<1>5. <<>> \o r = r /\ bytes \in Seq(Byte) /\ pushed \in Seq(Read) /\ Len(pushed) = 0 /\ Len(bytes) = 0
  BY <1>2, <1>4, ConcatEmptySeq, EmptySeq
<1>6. r = bytes \o Behind(Encodings, written)
  BY <1>2, <1>3, <1>5
<1>7. arrived + Len(r) = Len(FlattenSeq(Encodings))
  BY <1>2, <1>4, LenProperties
<1>8. arrived + Len(bytes) <= EncodingEnd(written)
  BY <1>2, <1>4, <1>5
<1>9. decoder.out = <<>>
  BY <1>2 DEF NewDecoder
<1>10. written \in 0..Len(messages)
  BY <1>2, <1>4
<1>11. lineEnd # "clean" /\ lineEnd # "trailing" /\ lineEnd \in {"open", "cut", "clean", "trailing"}
  BY <1>2
<1>12. HasToWait(decoder, Len(pushed))
  BY <1>4, <1>5
<1>13. QED
  BY <1>2, <1>4, <1>5, <1>6, <1>7, <1>8, <1>9, <1>10, <1>11, <1>12 DEF FrameInv

\* A written message moves from what is behind into transit.
LEMMA WriteKeeps ==
  ASSUME FrameInv, WriteMessage
  PROVE  FrameInv'
<1>1. /\ lineEnd = "open" /\ written < Len(messages) /\ written' = written + 1
      /\ bytes' = bytes \o Encode(messages[written + 1])
      /\ netty' = netty /\ messages' = messages /\ arrived' = arrived /\ decoder' = decoder
      /\ pushed' = pushed /\ lineEnd' = lineEnd
  BY DEF WriteMessage
<1>2. /\ netty \in BOOLEAN /\ messages \in Traffic /\ written \in 0..Len(messages)
      /\ bytes \in Seq(Byte) /\ arrived \in Nat /\ pushed \in Seq(Read)
      /\ decoder.out = <<>> /\ HasToWait(decoder, Len(pushed))
      /\ arrived + Len(bytes) <= EncodingEnd(written)
  BY DEF FrameInv
<1>3. PICK rest \in Seq(Byte) : /\ Reads(decoder, pushed, rest)
                                /\ arrived + Len(rest) = Len(FlattenSeq(Encodings))
                                /\ rest = bytes \o Behind(Encodings, written)
  BY <1>1 DEF FrameInv
<1>4. /\ Len(messages) \in Nat /\ written \in 0..Len(messages) - 1 /\ written + 1 \in 1..Len(messages)
      /\ written + 1 \in 0..Len(messages)
  BY <1>1, <1>2, EncodingsTyped
<1>5. PICK e : e = Encodings[written + 1]
  OBVIOUS
<1>6. PICK t : t = Behind(Encodings, written + 1)
  OBVIOUS
<1>7. /\ e \in Seq(Byte) /\ Len(e) \in Nat /\ t \in Seq(Byte) /\ e = Encode(messages[written + 1])
      /\ Behind(Encodings, written) = e \o t
  BY <1>2, <1>4, <1>5, <1>6, EncodingLong, EncodingsTyped, NextEncoding
<1>8. bytes' = bytes \o e /\ bytes \o e \in Seq(Byte) /\ Len(bytes \o e) = Len(bytes) + Len(e)
  BY <1>1, <1>2, <1>7, ConcatProperties
<1>9. rest = (bytes \o e) \o t
  <2>1. PICK s \in Seq(Byte) : s = bytes
    BY <1>2
  <2>2. (s \o e) \o t = s \o (e \o t)
    BY <1>7, ConcatAssociative, SMTT(60)
  <2>3. QED
    BY <1>3, <1>7, <2>1, <2>2
<1>10. arrived + Len(bytes \o e) <= EncodingEnd(written + 1)
  <2>1. EncodingEnd(written + 1) = EncodingEnd(written) + Len(e) /\ EncodingEnd(written) \in Nat
    BY <1>1, <1>2, <1>5, Ends
  <2>2. PICK f \in Nat : f = EncodingEnd(written)
    BY <2>1
  <2>3. PICK n \in Nat : n = Len(bytes)
    BY <1>2, LenProperties
  <2>4. QED
    BY <1>2, <1>7, <1>8, <2>1, <2>2, <2>3
<1>11. /\ Encodings' = Encodings
       /\ \A k : EncodingEnd(k)' = EncodingEnd(k)
       /\ \A d, before, r : Reads(d, before, r) => Reads(d, before, r)'
       /\ \A d, k : HasToWait(d, k) => HasToWait(d, k)'
  BY <1>1, SameStream
<1>12. PICK D : D = decoder
  OBVIOUS
<1>13. PICK P : P = pushed
  OBVIOUS
<1>14. PICK w : w = written + 1
  OBVIOUS
<1>15. decoder' = D /\ pushed' = P /\ written' = w
  BY <1>1, <1>12, <1>13, <1>14
<1>16. Reads(D, P, rest)' /\ HasToWait(D, Len(P))' /\ EncodingEnd(w)' = EncodingEnd(w)
  <2>1. Reads(D, P, rest) /\ HasToWait(D, Len(P))
    BY <1>2, <1>3, <1>12, <1>13
  <2>2. QED
    BY <1>11, <2>1
<1>17. Reads(decoder, pushed, rest)'
  BY <1>15, <1>16
<1>18. HasToWait(decoder, Len(pushed))'
  BY <1>15, <1>16
<1>19. EncodingEnd(written)' = EncodingEnd(w)
  BY <1>15, <1>16
<1>20. rest = bytes' \o Behind(Encodings', written') /\ arrived' + Len(rest) = Len(FlattenSeq(Encodings'))
  BY <1>1, <1>3, <1>6, <1>8, <1>9, <1>11
<1>21. arrived' + Len(bytes') <= EncodingEnd(written)'
  BY <1>1, <1>8, <1>10, <1>14, <1>19
<1>22. \E r \in Seq(Byte) : /\ Reads(decoder, pushed, r)'
                            /\ arrived' + Len(r) = Len(FlattenSeq(Encodings'))
                            /\ lineEnd' = "open" => r = bytes' \o Behind(Encodings', written')
  BY <1>17, <1>20
<1>23. /\ netty' \in BOOLEAN /\ messages' \in Traffic /\ written' \in 0..Len(messages')
       /\ lineEnd' = "open" /\ bytes' \in Seq(Byte) /\ arrived' \in Nat /\ pushed' \in Seq(Read)
       /\ decoder'.out = <<>>
  BY <1>1, <1>2, <1>4, <1>8
<1>24. QED
  BY <1>18, <1>21, <1>22, <1>23 DEF FrameInv

\* A chunk is decoded, and what it gives is pushed.
LEMMA DeliverKeeps ==
  ASSUME FrameInv, NEW n \in 1..Len(bytes), Deliver(n)
  PROVE  FrameInv'
<1>1. PICK x : x = SubSeq(bytes, 1, n)
  OBVIOUS
<1>2. PICK y : y = Slice(bytes, n)
  OBVIOUS
<1>3. /\ lineEnd = "open" /\ bytes' = y /\ arrived' = arrived + n
      /\ decoder' = [Decode(x) EXCEPT !.out = <<>>] /\ pushed' = pushed \o Decode(x).out
      /\ netty' = netty /\ messages' = messages /\ written' = written /\ lineEnd' = lineEnd
  BY <1>1, <1>2 DEF Deliver
<1>4. /\ netty \in BOOLEAN /\ messages \in Traffic /\ written \in 0..Len(messages)
      /\ bytes \in Seq(Byte) /\ arrived \in Nat /\ pushed \in Seq(Read)
      /\ arrived + Len(bytes) <= EncodingEnd(written)
  BY DEF FrameInv
<1>5. PICK rest \in Seq(Byte) : /\ Reads(decoder, pushed, rest)
                                /\ arrived + Len(rest) = Len(FlattenSeq(Encodings))
                                /\ rest = bytes \o Behind(Encodings, written)
  BY <1>3 DEF FrameInv
<1>6. PICK t : t = Behind(Encodings, written)
  OBVIOUS
<1>7. t \in Seq(Byte)
  <2>1. Encodings \in Seq(Seq(Byte)) /\ written \in 0..Len(Encodings)
    BY <1>4, EncodingsTyped
  <2>2. QED
    BY <1>6, <2>1, FlatCut
<1>8. /\ x \in Seq(Byte) /\ Len(x) = n /\ y \in Seq(Byte) /\ Len(y) = Len(bytes) - n /\ bytes = x \o y
      /\ Len(bytes) \in Nat
  <2>1. Len(bytes) \in Nat /\ \A i \in 1..Len(bytes) : bytes[i] \in Byte
    BY <1>4, LenProperties, ElementOfSeq
  <2>2. x \in Seq(Byte) /\ Len(x) = n
    BY <1>1, <2>1, SubSeqProperties
  <2>3. y \in Seq(Byte) /\ Len(y) = Len(bytes) - n
    BY <1>2, <2>1, SubSeqProperties DEF Slice
  <2>4. x \o y = SubSeq(bytes, 1, Len(bytes))
    <3>1. 1 \in 1..Len(bytes) + 1 /\ n \in 1 - 1..Len(bytes) /\ Len(bytes) \in n..Len(bytes)
      BY <2>1
    <3>2. QED
      BY <1>1, <1>2, <1>4, <3>1, ConcatAdjacentSubSeq DEF Slice
  <2>5. QED
    BY <1>4, <2>1, <2>2, <2>3, <2>4, SubSeqFull
<1>9. PICK b : b = y \o t
  OBVIOUS
<1>10. b \in Seq(Byte) /\ Len(b) = Len(y) + Len(t) /\ x \o b = rest /\ Len(rest) = n + Len(b)
  <2>1. b \in Seq(Byte) /\ Len(b) = Len(y) + Len(t)
    BY <1>7, <1>8, <1>9, ConcatProperties
  <2>2. (x \o y) \o t = x \o (y \o t)
    BY <1>7, <1>8, ConcatAssociative, SMTT(60)
  <2>3. x \o b = rest
    BY <1>5, <1>6, <1>8, <1>9, <2>2
  <2>4. Len(x \o b) = Len(x) + Len(b)
    BY <1>8, <2>1, ConcatProperties
  <2>5. QED
    BY <1>8, <2>1, <2>3, <2>4
<1>11. PICK f : f = [decoder EXCEPT !.buf = @ \o x]
  OBVIOUS
<1>12. Reads(f, pushed, b)
  <2>1. Cuts(x, b, <<>>, rest)
    BY <1>5, <1>10, ConcatEmptySeq DEF Cuts
  <2>2. QED
    BY <1>4, <1>5, <1>8, <1>10, <1>11, <2>1, Fed
<1>13. PICK g : g = Decoded(f)
  OBVIOUS
<1>14. Decode(x) = g
  BY <1>11, <1>13 DEF Decode
<1>15. Reads(g, pushed, b) /\ HasToWait(g, ReadSoFar(g, pushed))
  BY <1>4, <1>10, <1>12, <1>13, DecodedReads
<1>16. PICK D : D = [g EXCEPT !.out = <<>>]
  OBVIOUS
<1>17. PICK P : P = pushed \o g.out
  OBVIOUS
<1>18. P \in Seq(Read) /\ Reads(D, P, b) /\ D.out = <<>> /\ HasToWait(D, Len(P))
  BY <1>4, <1>10, <1>15, <1>16, <1>17, PushedOn
<1>19. decoder' = D /\ pushed' = P
  BY <1>3, <1>14, <1>16, <1>17
<1>20. /\ Encodings' = Encodings
       /\ \A k : EncodingEnd(k)' = EncodingEnd(k)
       /\ \A d, before, r : Reads(d, before, r) => Reads(d, before, r)'
       /\ \A d, k : HasToWait(d, k) => HasToWait(d, k)'
  BY <1>3, SameStream
<1>21. Reads(D, P, b)' /\ HasToWait(D, Len(P))'
  BY <1>18, <1>20
<1>22. Reads(decoder, pushed, b)'
  BY <1>19, <1>21
<1>23. HasToWait(decoder, Len(pushed))'
  BY <1>19, <1>21
<1>24. PICK w : w = written
  OBVIOUS
<1>25. EncodingEnd(w)' = EncodingEnd(w) /\ written' = w
  BY <1>3, <1>20, <1>24
<1>26. EncodingEnd(written)' = EncodingEnd(w)
  BY <1>25
<1>27. arrived' + Len(bytes') <= EncodingEnd(written)' /\ arrived' \in Nat
  <2>1. arrived' + Len(bytes') = arrived + Len(bytes) /\ arrived' \in Nat
    BY <1>3, <1>4, <1>8
  <2>2. QED
    BY <1>4, <1>24, <1>26, <2>1
<1>28. b = bytes' \o Behind(Encodings', written') /\ arrived' + Len(b) = Len(FlattenSeq(Encodings'))
  <2>1. arrived + n + Len(b) = arrived + (n + Len(b))
    <3>1. Len(b) \in Nat
      BY <1>10, LenProperties
    <3>2. QED
      BY <1>4, <3>1
  <2>2. QED
    BY <1>3, <1>5, <1>6, <1>9, <1>10, <1>20, <2>1
<1>29. \E r \in Seq(Byte) : /\ Reads(decoder, pushed, r)'
                            /\ arrived' + Len(r) = Len(FlattenSeq(Encodings'))
                            /\ lineEnd' = "open" => r = bytes' \o Behind(Encodings', written')
  BY <1>10, <1>22, <1>28
<1>30. /\ netty' \in BOOLEAN /\ messages' \in Traffic /\ written' \in 0..Len(messages')
       /\ lineEnd' = "open" /\ bytes' \in Seq(Byte) /\ pushed' \in Seq(Read)
       /\ decoder'.out = <<>>
  BY <1>3, <1>4, <1>8, <1>18, <1>19
<1>31. QED
  BY <1>23, <1>27, <1>29, <1>30 DEF FrameInv

\* The rest of the stream is lost, or the decoder looks at what it holds.
LEMMA EndKeeps ==
  ASSUME FrameInv, LineCut \/ FrameFlush \/ UNCHANGED frameVars
  PROVE  FrameInv'
<1>1. /\ netty \in BOOLEAN /\ messages \in Traffic /\ written \in 0..Len(messages)
      /\ lineEnd \in {"open", "cut", "clean", "trailing"}
      /\ bytes \in Seq(Byte) /\ arrived \in Nat /\ pushed \in Seq(Read)
      /\ decoder.out = <<>> /\ HasToWait(decoder, Len(pushed))
      /\ arrived + Len(bytes) <= EncodingEnd(written)
      /\ lineEnd = "clean" => ~Trailing
      /\ lineEnd = "trailing" => Trailing
  BY DEF FrameInv
<1>2. PICK rest \in Seq(Byte) : /\ Reads(decoder, pushed, rest)
                                /\ arrived + Len(rest) = Len(FlattenSeq(Encodings))
                                /\ lineEnd = "open" => rest = bytes \o Behind(Encodings, written)
  BY DEF FrameInv
<1>3. /\ netty' = netty /\ messages' = messages /\ written' = written /\ arrived' = arrived
      /\ decoder' = decoder /\ pushed' = pushed
      /\ bytes' = bytes \/ bytes' = <<>>
      /\ lineEnd' = "open" => bytes' = bytes /\ lineEnd = "open"
      /\ \/ lineEnd' = "cut" \/ lineEnd' = lineEnd
         \/ (lineEnd' = "clean" /\ ~Trailing)
         \/ (lineEnd' = "trailing" /\ Trailing)
  <2>1. CASE LineCut
    BY <2>1 DEF LineCut
  <2>2. CASE FrameFlush
    <3>1. lineEnd' = IF Trailing THEN "trailing" ELSE "clean"
      BY <2>2 DEF FrameFlush
    <3>2. (lineEnd' = "clean" /\ ~Trailing) \/ (lineEnd' = "trailing" /\ Trailing)
      BY <3>1, Zenon
    <3>3. /\ netty' = netty /\ messages' = messages /\ written' = written /\ arrived' = arrived
          /\ decoder' = decoder /\ pushed' = pushed /\ bytes' = bytes
      BY <2>2 DEF FrameFlush
    <3>4. ~(lineEnd' = "open")
      BY <3>2
    <3>5. QED
      BY <3>2, <3>3, <3>4, Zenon
  <2>3. CASE UNCHANGED frameVars
    BY <2>3 DEF frameVars
  <2>4. QED
    BY <2>1, <2>2, <2>3
<1>4. Trailing' <=> Trailing
  BY <1>3 DEF Trailing
<1>5. /\ Encodings' = Encodings
      /\ \A k : EncodingEnd(k)' = EncodingEnd(k)
      /\ \A d, before, r : Reads(d, before, r) => Reads(d, before, r)'
      /\ \A d, k : HasToWait(d, k) => HasToWait(d, k)'
  BY <1>3, SameStream
<1>6. PICK D : D = decoder
  OBVIOUS
<1>7. PICK P : P = pushed
  OBVIOUS
<1>8. PICK w : w = written
  OBVIOUS
<1>9. decoder' = D /\ pushed' = P /\ written' = w
  BY <1>3, <1>6, <1>7, <1>8
<1>10. Reads(D, P, rest)' /\ HasToWait(D, Len(P))' /\ EncodingEnd(w)' = EncodingEnd(w)
  <2>1. Reads(D, P, rest) /\ HasToWait(D, Len(P))
    BY <1>1, <1>2, <1>6, <1>7
  <2>2. QED
    BY <1>5, <2>1
<1>11. Reads(decoder, pushed, rest)'
  BY <1>9, <1>10
<1>12. HasToWait(decoder, Len(pushed))'
  BY <1>9, <1>10
<1>13. EncodingEnd(written)' = EncodingEnd(w)
  BY <1>9, <1>10
<1>14. arrived' + Len(bytes') <= EncodingEnd(written)'
  <2>1. PICK n \in Nat : n = Len(bytes)
    BY <1>1, LenProperties
  <2>2. PICK m \in Nat : m = Len(bytes')
    BY <1>1, <1>3, <2>1
  <2>3. m = n \/ m = 0
    BY <1>3, <2>1, <2>2
  <2>4. PICK e \in Nat : e = EncodingEnd(w)
    BY <1>1, <1>8, Ends
  <2>5. arrived + n <= e
    BY <1>1, <1>8, <2>1, <2>4
  <2>6. arrived + m <= e
    BY <1>1, <2>3, <2>5
  <2>7. QED
    BY <1>3, <1>13, <2>2, <2>4, <2>6
<1>15. \E r \in Seq(Byte) : /\ Reads(decoder, pushed, r)'
                            /\ arrived' + Len(r) = Len(FlattenSeq(Encodings'))
                            /\ lineEnd' = "open" => r = bytes' \o Behind(Encodings', written')
  BY <1>2, <1>3, <1>5, <1>11
<1>16. /\ netty' \in BOOLEAN /\ messages' \in Traffic /\ written' \in 0..Len(messages')
       /\ lineEnd' \in {"open", "cut", "clean", "trailing"}
       /\ bytes' \in Seq(Byte) /\ arrived' \in Nat /\ pushed' \in Seq(Read)
       /\ decoder'.out = <<>>
  BY <1>1, <1>3, EmptySeq
<1>17. (lineEnd' = "clean" => ~Trailing') /\ (lineEnd' = "trailing" => Trailing')
  BY <1>1, <1>3, <1>4
<1>18. QED
  BY <1>12, <1>14, <1>15, <1>16, <1>17 DEF FrameInv

\* It is an invariant.
LEMMA FrameStep == FrameInv /\ [FNext]_frameVars => FrameInv'
<1> SUFFICES ASSUME FrameInv, [FNext]_frameVars PROVE FrameInv'
  OBVIOUS
<1>1. CASE WriteMessage
  BY <1>1, WriteKeeps
<1>2. CASE \E n \in 1..Len(bytes) : Deliver(n)
  BY <1>2, DeliverKeeps
<1>3. CASE LineCut \/ FrameFlush \/ UNCHANGED frameVars
  BY <1>3, EndKeeps
<1>4. QED
  BY <1>1, <1>2, <1>3 DEF FNext

LEMMA FrameAlways == FSpec => []FrameInv
  BY FrameInit, FrameStep, PTL DEF FSpec

\* What the invariant says of a decoder that stands where it stands.
LEMMA FrameStands ==
  ASSUME FrameInv
  PROVE  FramesExact /\ FTypeOK
<1>1. /\ netty \in BOOLEAN /\ messages \in Traffic /\ arrived \in Nat /\ pushed \in Seq(Read)
      /\ written \in 0..Len(messages) /\ lineEnd \in {"open", "cut", "clean", "trailing"}
      /\ arrived + Len(bytes) <= EncodingEnd(written)
      /\ decoder.out = <<>> /\ HasToWait(decoder, Len(pushed))
      /\ lineEnd = "clean" => ~Trailing
      /\ lineEnd = "trailing" => Trailing
  BY DEF FrameInv
<1>2. PICK rest : Standing(decoder, pushed, rest)
  BY DEF FrameInv, Standing
<1>3. /\ pushed = Sent(WholeMessages)
      /\ decoder.buf = <<>> /\ decoder.bufs = <<>> => arrived = EncodingEnd(WholeMessages) \/ HeaderOnly
      /\ decoder.buf # <<>> \/ decoder.bufs # <<>> => arrived # EncodingEnd(WholeMessages)
      /\ Len(decoder.buf) <= arrived /\ decoder.frameCount \in Nat
  BY <1>1, <1>2, StandsAtWhole
<1>4. FTypeOK
  BY <1>1, <1>3 DEF FTypeOK
<1>5. pushed = [i \in 1..WholeMessages |-> AsRead(messages[i])]
  BY <1>3 DEF Sent
<1>6. lineEnd = "clean" => arrived = EncodingEnd(WholeMessages) \/ HeaderOnly
  BY <1>1, <1>3 DEF Trailing
<1>7. lineEnd = "trailing" => arrived # EncodingEnd(WholeMessages)
  BY <1>1, <1>3 DEF Trailing
<1>8. QED
  BY <1>4, <1>5, <1>6, <1>7 DEF FramesExact

\* Whatever messages are written, with whatever ids, frames and bytes, and however the stream
\* is cut into chunks: either decoder has pushed exactly the messages whose last byte has
\* arrived, in order and as they were written, and when the transport ends inside a message
\* its flush says so, unless exactly a Netty header had arrived.
THEOREM DecodersLoseNothing == FSpec => []FramesExact
<1>1. FrameInv => FramesExact
  BY FrameStands
<1>2. QED
  BY <1>1, FrameAlways, PTL

\* A decoder never holds more than has arrived, and nothing arrives that was not written; the
\* count of missing frames does not fall below zero.
THEOREM FramesTypeCorrect == FSpec => []FTypeOK
<1>1. FrameInv => FTypeOK
  BY FrameStands
<1>2. QED
  BY <1>1, FrameAlways, PTL

----------------------------------------------------------------------------
(* The parts side by side.                                                 *)

PartsInv == PoolInv /\ MInv /\ StatelessInv /\ HSwitches /\ SInv /\ FrameInv

\* A step of one part is a stutter of the others.
LEMMA PartsMove ==
  [ServicesNext]_servicesVars =>
    /\ [PNext]_poolVars /\ [MNext]_chainVars /\ [HNext]_statelessVars
    /\ [SNext]_serverVars /\ [FNext]_frameVars
  BY DEF ServicesNext, InPool, InChain, InStateless, InServer, InFrames, servicesVars

LEMMA PartsStart == ServicesInit => PartsInv
  BY PoolStart, MInvInitially, StatelessStart, SwitchesStart, InitSInv, FrameInit DEF ServicesInit, PartsInv

LEMMA PartsStep == PartsInv /\ [ServicesNext]_servicesVars => PartsInv'
<1> SUFFICES ASSUME PartsInv, [ServicesNext]_servicesVars PROVE PartsInv'
  OBVIOUS
<1>1. PoolInv'
  BY PartsMove, PoolStep DEF PartsInv
<1>2. MInv'
  BY PartsMove, MInvStep DEF PartsInv
<1>3. StatelessInv' /\ HSwitches'
  BY PartsMove, StatelessStep, SwitchesKept DEF PartsInv
<1>4. SInv'
  BY PartsMove, NextSInv DEF PartsInv
<1>5. FrameInv'
  BY PartsMove, FrameStep DEF PartsInv
<1>6. QED
  BY <1>1, <1>2, <1>3, <1>4, <1>5 DEF PartsInv

\* The parts of a service keep their types, for any channels, calls, policies, chains,
\* requests and messages: no pending count falls below zero, no decoder holds more than has
\* arrived.
THEOREM ServicesTypeCorrect == ServicesSpec => []ServicesTypeOK
<1>1. PartsInv => ServicesTypeOK
  BY StatelessTypes, FrameStands DEF PartsInv, PoolInv, MInv, SInv, ServicesTypeOK
<1>2. QED
  BY <1>1, PartsStart, PartsStep, PTL DEF ServicesSpec
=============================================================================
