--------------------------- MODULE ClientChannel ---------------------------
(***************************************************************************)
(* The stateful (multiplexing) client channel of lib/avsc-rpc: one         *)
(* persistent duplex stream shared by all calls, a handshake before the    *)
(* first request, a registry that correlates responses with calls by a     *)
(* small message id, per-call timeouts, and the destroy/drain protocol.    *)
(*                                                                         *)
(* JavaScript runs to completion, so an action is one synchronous section: *)
(* a stream event, a timer, a call into the channel by its user, or one    *)
(* entry of the process.nextTick queue (a microtask queue in Bare).  The   *)
(* queue is first-in first-out and is empty before any timer fires;        *)
(* streamx raises stream events from microtasks too, so they may fall      *)
(* between two of the channel's own ticks.                                 *)
(*                                                                         *)
(* The peer is left open here: any handshake answer, any response to any   *)
(* message id, an end of the stream, may arrive at any moment.             *)
(* RpcConnection closes the system with the server's channel.              *)
(*                                                                         *)
(* An operator named Mut... is no part of the model: it is a faulty variant *)
(* of the operator after it, put in its place to see that a property can    *)
(* fail.                                                                    *)
(***************************************************************************)
EXTENDS Naturals, Sequences, FiniteSets

CONSTANTS
  Calls,          \* the calls the user may make, each at most once
  NoCall,         \* no call
  OneWayCalls,    \* calls of one-way messages: no response is expected
  UntimedCalls,   \* calls with timeout 0: no timer is armed for them
  BadCalls,       \* calls whose request does not serialize
  IdMask,         \* message ids are 0..IdMask (0xFFFF in the code)
  MaxBacklog,     \* bound: the peer is silent while this much is queued
  NoPing,         \* the noPing option: the channel starts connected
  ConnectTimeout  \* whether the channel's own timeout is non-zero

ASSUME CallsAssumption ==
  /\ IsFiniteSet(Calls)
  /\ NoCall \notin Calls
  /\ OneWayCalls \subseteq Calls
  /\ UntimedCalls \subseteq Calls
  /\ BadCalls \subseteq Calls
ASSUME OptionsAssumption ==
  /\ IdMask \in Nat
  /\ MaxBacklog \in Nat
  /\ NoPing \in BOOLEAN
  /\ ConnectTimeout \in BOOLEAN

VARIABLES
  status,      \* how far each call has got
  outcome,     \* what each call's callback was or will be given
  answer,      \* the call whose response was decoded for this call
  idOf,        \* the message id the registry gave the call
  cbs,         \* registry: the call whose callback is stored under an id
  lastId,      \* registry: the last id given out
  timers,      \* the calls whose timeout is armed
  ready,       \* calls queued for the '_ready' event, oldest first
  pending,     \* the channel's count of in-flight messages
  draining,    \* destroy was called
  destroyed,   \* '_eot' was handled
  connected,   \* the handshake succeeded
  connTimer,   \* the connection timeout is armed
  listening,   \* the listener on the readable's 'data' event
  ticks,       \* the process.nextTick queue
  completing,  \* the call whose callback is on the stack
  duplicated,  \* 'duplicate handler call' was emitted on the client
  threw,       \* a tick threw: the exception is uncaught
  out,         \* messages written and not yet taken by the transport
  finished     \* the writable was ended, and not by the channel

callVars == <<status, outcome, answer>>
registryVars == <<idOf, cbs, lastId, timers>>
channelVars == <<ready, pending, draining, destroyed, connected, connTimer, listening>>
loopVars == <<ticks, completing, duplicated, threw>>
transportVars == <<out, finished>>
vars == <<callVars, registryVars, channelVars, loopVars, transportVars>>

Ids == 0..IdMask
Statuses == {"new", "queued", "starting", "sent", "settled", "done"}
Outcomes == {"none", "response", "sentOnly", "undecodable", "invalid",
             "timeout", "interrupted", "destroyed"}
Tasks == [task : {"ping", "retry", "start", "reply", "oneway", "settle"},
          call : Calls \cup {NoCall}, of : Calls \cup {NoCall}]
Messages == [type : {"handshake"}, full : BOOLEAN, id : {0}, call : {NoCall}]
              \cup [type : {"request"}, full : {FALSE}, id : Ids, call : Calls]

\* Every variable keeps its type; pending never falls below zero and an id never
\* leaves the range of the mask.
TypeOK ==
  /\ status \in [Calls -> Statuses]
  /\ outcome \in [Calls -> Outcomes]
  /\ answer \in [Calls -> Calls \cup {NoCall}]
  /\ idOf \in [Calls -> Ids]
  /\ cbs \in [Ids -> Calls \cup {NoCall}]
  /\ lastId \in Ids
  /\ timers \subseteq Calls
  /\ ready \in Seq(Calls)
  /\ pending \in Nat
  /\ draining \in BOOLEAN /\ destroyed \in BOOLEAN
  /\ connected \in BOOLEAN /\ connTimer \in BOOLEAN
  /\ listening \in {"ping", "message", "none"}
  /\ ticks \in Seq(Tasks)
  /\ completing \in Calls \cup {NoCall}
  /\ duplicated \in BOOLEAN /\ threw \in BOOLEAN
  /\ out \in Seq(Messages)
  /\ finished \in BOOLEAN

Task(t, c, d) == [task |-> t, call |-> c, of |-> d]
Tick(t, c) == Task(t, c, NoCall)
TicksFor(t, s) == [i \in 1..Len(s) |-> Tick(t, s[i])]
Handshake(full) == [type |-> "handshake", full |-> full, id |-> 0, call |-> NoCall]
Request(c, id) == [type |-> "request", full |-> FALSE, id |-> id, call |-> c]

Members(s) == {s[i] : i \in 1..Len(s)}

\* Nothing else of the channel is on the JavaScript stack.
StackEmpty == completing = NoCall

Init ==
  /\ status = [c \in Calls |-> "new"]
  /\ outcome = [c \in Calls |-> "none"]
  /\ answer = [c \in Calls |-> NoCall]
  /\ idOf = [c \in Calls |-> 0]
  /\ cbs = [i \in Ids |-> NoCall]
  /\ lastId = 0
  /\ timers = {}
  /\ ready = <<>>
  /\ pending = 0
  /\ draining = FALSE
  /\ destroyed = FALSE
  /\ connected = NoPing
  /\ connTimer = (~NoPing /\ ConnectTimeout)
  /\ listening = (IF NoPing THEN "message" ELSE "ping")
  /\ ticks = (IF NoPing THEN <<>> ELSE <<Tick("ping", NoCall)>>)
  /\ completing = NoCall
  /\ duplicated = FALSE
  /\ threw = FALSE
  /\ out = <<>>
  /\ finished = FALSE

\* A stream that has finished drops what is written to it.
Write(m) == out' = IF finished THEN out ELSE Append(out, m)

----------------------------------------------------------------------------
(* Settling a call: the function handed to the registry decodes the        *)
(* response and resumes the middleware chain, which lets a call through    *)
(* once and schedules its completion.                                      *)

\* The outcome of a response of call d delivered to the callback of call c.
Decoded(c, d) == IF c \in OneWayCalls THEN "sentOnly"
                 ELSE IF d = NoCall THEN "undecodable"
                 ELSE "response"

\* The chain goes on for a call only once.
NotYetSettled(c) == status[c] \in {"starting", "sent"}

\* rest is the nextTick queue without the tick now running, if any.
Settle(c, kind, d, rest) ==
  IF NotYetSettled(c)
  THEN /\ status' = [status EXCEPT ![c] = "settled"]
       /\ outcome' = [outcome EXCEPT ![c] = kind]
       /\ answer' = [answer EXCEPT ![c] = d]
       /\ ticks' = Append(rest, Tick("settle", c))
       /\ UNCHANGED duplicated
  ELSE /\ duplicated' = TRUE
       /\ ticks' = rest
       /\ UNCHANGED callVars

\* The closure the registry stored for a call looks its id up before it runs:
\* nothing there means it has run already.
MutAlreadyRun(c) == FALSE
AlreadyRun(c) == cbs[idOf[c]] = NoCall

RunCallback(c, kind, d, rest) ==
  IF AlreadyRun(c)
  THEN /\ ticks' = rest
       /\ UNCHANGED <<callVars, cbs, timers, duplicated>>
  ELSE /\ cbs' = [cbs EXCEPT ![idOf[c]] = NoCall]
       /\ timers' = timers \ {c}
       /\ Settle(c, kind, d, rest)

----------------------------------------------------------------------------
(* destroy(noWait).                                                        *)

\* The calls in the registry, and their order by message id (the order of
\* Object.keys).
Registered == {cbs[i] : i \in Ids} \ {NoCall}
ById(S) == {s \in [1..Cardinality(S) -> S] :
              \A i, j \in DOMAIN s : i < j => idOf[s[i]] < idOf[s[j]]}

\* registry.clear() interrupts them, unless the caller is ready to wait.
MutInterrupted(noWait) == Registered
Interrupted(noWait) == IF noWait THEN Registered ELSE {}

\* '_eot' is handled once, when nothing is pending or the caller does not wait.
Ends(noWait) == ~destroyed /\ (noWait \/ pending = 0)

\* The queued calls '_ready' lets go when the channel ends unconnected.
MutReleased(noWait) == <<>>
Released(noWait) == IF Ends(noWait) /\ ~connected THEN ready ELSE <<>>

Destroy(noWait) ==
  LET interrupted == Interrupted(noWait)
      released == Released(noWait)
  IN \E order \in ById(interrupted) :
       /\ draining' = TRUE
       /\ destroyed' = (destroyed \/ Ends(noWait))
       /\ connTimer' = (connTimer /\ ~Ends(noWait))
       /\ listening' = (IF Ends(noWait) THEN "none" ELSE listening)
       /\ cbs' = [i \in Ids |-> IF noWait THEN NoCall ELSE cbs[i]]
       /\ timers' = timers \ interrupted
       /\ status' = [c \in Calls |-> IF c \in interrupted THEN "settled"
                                     ELSE IF c \in Members(released) THEN "starting"
                                     ELSE status[c]]
       /\ outcome' = [c \in Calls |-> IF c \in interrupted THEN "interrupted"
                                      ELSE outcome[c]]
       /\ ticks' = ticks \o TicksFor("settle", order) \o TicksFor("start", released)
       /\ pending' = pending + Len(released)
       /\ ready' = (IF released = <<>> THEN ready ELSE <<>>)
       /\ UNCHANGED <<answer, idOf, lastId, duplicated>>

----------------------------------------------------------------------------
(* Calls into the channel by its user, from any code of theirs: their own  *)
(* tasks, or the callback that is on the stack.                            *)

\* _emit: a call waits for the handshake unless the channel is draining.
MutEmitsNow == TRUE
EmitsNow == connected \/ draining

Call(c) ==
  /\ status[c] = "new"
  /\ IF EmitsNow
     THEN /\ status' = [status EXCEPT ![c] = "starting"]
          /\ pending' = pending + 1
          /\ ticks' = Append(ticks, Tick("start", c))
          /\ UNCHANGED ready
     ELSE /\ status' = [status EXCEPT ![c] = "queued"]
          /\ ready' = Append(ready, c)
          /\ UNCHANGED <<pending, ticks>>
  /\ UNCHANGED <<outcome, answer, registryVars, draining, destroyed, connected,
                 connTimer, listening, completing, duplicated, threw, transportVars>>

UserDestroys(noWait) ==
  /\ Destroy(noWait)
  /\ UNCHANGED <<connected, completing, threw, transportVars>>

----------------------------------------------------------------------------
(* The nextTick queue.                                                     *)

\* ping(retry), from the constructor or after a handshake without a match.
RunPing(t) ==
  /\ t.task \in {"ping", "retry"}
  /\ ticks' = Tail(ticks)
  /\ IF destroyed THEN UNCHANGED out ELSE Write(Handshake(t.task = "retry"))
  /\ UNCHANGED <<callVars, registryVars, channelVars, completing, duplicated,
                 threw, finished>>

MutUnmaskedId == lastId + 1
NextId == (lastId + 1) % (IdMask + 1)

MutTimed(c) == FALSE
Timed(c) == c \notin UntimedCalls

MutUnsendable(c) == c \in BadCalls
Unsendable(c) == destroyed \/ c \in BadCalls

\* The transition phase of a call: refused on a destroyed channel or if it does
\* not serialize, otherwise registered under the next id and written.
RunStart(t) ==
  LET c == t.call
      id == NextId
  IN /\ t.task = "start"
     /\ IF Unsendable(c)
        THEN /\ Settle(c, IF destroyed THEN "destroyed" ELSE "invalid", NoCall, Tail(ticks))
             /\ UNCHANGED <<registryVars, out>>
        ELSE /\ status' = [status EXCEPT ![c] = "sent"]
             /\ lastId' = id
             /\ idOf' = [idOf EXCEPT ![c] = id]
             /\ cbs' = [cbs EXCEPT ![id] = c]
             /\ timers' = (IF Timed(c) THEN timers \cup {c} ELSE timers)
             /\ Write(Request(c, id))
             /\ ticks' = (IF c \in OneWayCalls
                          THEN Append(Tail(ticks), Tick("oneway", c))
                          ELSE Tail(ticks))
             /\ UNCHANGED <<outcome, answer, duplicated>>
     /\ UNCHANGED <<channelVars, completing, threw, finished>>

\* The callback of c, bound when the response arrived.
RunReply(t) ==
  /\ t.task = "reply"
  /\ RunCallback(t.call, Decoded(t.call, t.of), t.of, Tail(ticks))
  /\ UNCHANGED <<idOf, lastId, channelVars, completing, threw, transportVars>>

\* A one-way call is settled by the tick after its request was written: the
\* callback under its id is called without looking whether there is one.
RunOneWay(t) ==
  LET d == cbs[idOf[t.call]]
  IN /\ t.task = "oneway"
     /\ IF d = NoCall
        THEN /\ threw' = TRUE
             /\ ticks' = Tail(ticks)
             /\ UNCHANGED <<callVars, cbs, timers, duplicated>>
        ELSE /\ RunCallback(d, Decoded(d, NoCall), NoCall, Tail(ticks))
             /\ UNCHANGED threw
     /\ UNCHANGED <<idOf, lastId, channelVars, completing, transportVars>>

MutLeft == IF destroyed THEN pending ELSE pending - 1
Left == pending - 1

\* onCompletion up to the user's callback, which it calls.
RunSettle(t) ==
  /\ t.task = "settle"
  /\ pending' = Left
  /\ status' = [status EXCEPT ![t.call] = "done"]
  /\ completing' = t.call
  /\ ticks' = Tail(ticks)
  /\ UNCHANGED <<outcome, answer, registryVars, ready, draining, destroyed, connected,
                 connTimer, listening, duplicated, threw, transportVars>>

\* The user's callback has returned: the rest of onCompletion.
MutDrainedOut == FALSE
DrainedOut == draining /\ ~destroyed /\ pending = 0

CallbackReturns ==
  /\ completing # NoCall
  /\ completing' = NoCall
  /\ IF DrainedOut
     THEN Destroy(FALSE)
     ELSE UNCHANGED <<callVars, registryVars, ready, pending, draining, destroyed,
                      connTimer, listening, ticks, duplicated>>
  /\ UNCHANGED <<connected, threw, transportVars>>

RunTick ==
  /\ StackEmpty
  /\ ticks # <<>>
  /\ LET t == Head(ticks)
     IN RunPing(t) \/ RunStart(t) \/ RunReply(t) \/ RunOneWay(t) \/ RunSettle(t)

----------------------------------------------------------------------------
(* Timers fire only when the nextTick queue is empty.                      *)

TimersMayFire == StackEmpty /\ ticks = <<>>

\* The timeout of call c, which is not armed again whatever it finds.
CallTimesOut(c) ==
  /\ TimersMayFire
  /\ c \in timers
  /\ IF AlreadyRun(c)
     THEN /\ timers' = timers \ {c}
          /\ UNCHANGED <<callVars, cbs, ticks, duplicated>>
     ELSE RunCallback(c, "timeout", NoCall, ticks)
  /\ UNCHANGED <<idOf, lastId, channelVars, completing, threw, transportVars>>

ConnectTimesOut ==
  /\ TimersMayFire
  /\ connTimer
  /\ Destroy(TRUE)
  /\ UNCHANGED <<connected, completing, threw, transportVars>>

----------------------------------------------------------------------------
(* Events of the stream.                                                   *)

\* onPing, the 'data' listener until the handshake has succeeded.
OnPing(match) ==
  /\ StackEmpty
  /\ listening = "ping"
  /\ \/ /\ match = "NONE"
        /\ ticks' = Append(ticks, Tick("retry", NoCall))
        /\ UNCHANGED <<callVars, registryVars, channelVars, duplicated>>
     \/ /\ match = "MATCH"
        /\ connTimer' = FALSE
        /\ listening' = "message"
        /\ connected' = TRUE
        /\ pending' = pending + Len(ready)
        /\ ready' = <<>>
        /\ ticks' = ticks \o TicksFor("start", ready)
        /\ status' = [c \in Calls |-> IF c \in Members(ready) THEN "starting"
                                      ELSE status[c]]
        /\ UNCHANGED <<outcome, answer, registryVars, draining, destroyed,
                       duplicated>>
     \/ /\ match = "CORRUPT"
        /\ Destroy(TRUE)
        /\ UNCHANGED connected
  /\ UNCHANGED <<completing, threw, transportVars>>

\* The user destroys the channel from the 'handshake' event (nothing is in
\* flight before the handshake, so it ends at once), and onPing goes on: it
\* installs onMessage on a channel that has ended.
OnPingDestroyed(match) ==
  /\ StackEmpty
  /\ listening = "ping"
  /\ draining' = TRUE
  /\ destroyed' = TRUE
  /\ connTimer' = FALSE
  /\ pending' = pending + Len(ready)
  /\ ready' = <<>>
  /\ status' = [c \in Calls |-> IF c \in Members(ready) THEN "starting" ELSE status[c]]
  /\ \/ /\ match = "NONE"
        /\ listening' = "none"
        /\ ticks' = Append(ticks \o TicksFor("start", ready), Tick("retry", NoCall))
        /\ UNCHANGED connected
     \/ /\ match = "MATCH"
        /\ listening' = "message"
        /\ ticks' = ticks \o TicksFor("start", ready)
        /\ connected' = TRUE
  /\ UNCHANGED <<outcome, answer, registryVars, completing, duplicated, threw,
                 transportVars>>

\* onMessage: the callback found under the id runs in a tick of its own.
OnMessage(id, d) ==
  /\ StackEmpty
  /\ listening = "message"
  /\ cbs[id] # NoCall
  /\ ticks' = Append(ticks, Task("reply", cbs[id], d))
  /\ UNCHANGED <<callVars, registryVars, channelVars, completing, duplicated,
                 threw, transportVars>>

\* The readable's 'end': the peer will send nothing more.
OnEnd ==
  /\ StackEmpty
  /\ ~destroyed
  /\ Destroy(TRUE)
  /\ UNCHANGED <<connected, completing, threw, transportVars>>

\* The writable's 'finish', when something other than the channel ended it.
OnFinish ==
  /\ StackEmpty
  /\ ~destroyed /\ ~finished
  /\ Destroy(FALSE)
  /\ finished' = TRUE
  /\ UNCHANGED <<connected, completing, threw, out>>

\* The transport takes the oldest message written.
Take ==
  /\ out # <<>>
  /\ out' = Tail(out)
  /\ UNCHANGED <<callVars, registryVars, channelVars, loopVars, finished>>

----------------------------------------------------------------------------
(* The channel against an arbitrary peer, which holds back while           *)
(* MaxBacklog ticks and messages are waiting, and refuses a handshake only *)
(* once it was delivered.                                                  *)

Room == Len(ticks) + Len(out) < MaxBacklog

PingDelivered ==
  /\ \A i \in 1..Len(ticks) : ticks[i].task \notin {"ping", "retry"}
  /\ \A i \in 1..Len(out) : out[i].type # "handshake"

User == \/ \E c \in Calls : Call(c)
        \/ \E noWait \in BOOLEAN : UserDestroys(noWait)

Timer == \/ \E c \in Calls : CallTimesOut(c)
         \/ ConnectTimesOut

Peer == \/ /\ Room
           /\ \/ \E match \in {"MATCH", "CORRUPT"} : OnPing(match)
              \/ PingDelivered /\ OnPing("NONE")
              \/ \E match \in {"MATCH", "NONE"} : OnPingDestroyed(match)
              \/ \E id \in Ids, d \in Calls \cup {NoCall} : OnMessage(id, d)
        \/ OnEnd
        \/ OnFinish
        \/ Take

Next == ~threw /\ (User \/ RunTick \/ CallbackReturns \/ Timer \/ Peer)

Spec == Init /\ [][Next]_vars

----------------------------------------------------------------------------
(* Properties.                                                             *)

InFlight == {c \in Calls : status[c] \in {"starting", "sent", "settled"}}

\* The pending counter is exactly the number of calls emitted and not yet
\* called back, through middleware errors, timeouts, late responses, clears of
\* the registry and calls made from callbacks.  A drained channel ends when it
\* is zero, so a count too high keeps it open for ever and one too low ends it
\* under a call.
PendingExact == pending = Cardinality(InFlight)

\* Every request on the wire can still be answered: its callback is stored under
\* its own id and, unless it asked for no timeout, its timer is armed.  Once the channel
\* has ended no call waits for a response and no callback is left in the registry: each
\* has been interrupted.
SentIsReachable ==
  /\ \A c \in Calls : status[c] = "sent" =>
       /\ cbs[idOf[c]] = c
       /\ c \in timers \/ c \in UntimedCalls
  /\ destroyed => /\ Registered = {}
                  /\ \A c \in Calls : status[c] \notin {"queued", "sent"}

\* The registry runs the function of a call at most once, so that the middleware
\* chain never reports a duplicate handler call to the client.
CallbackRunsOnce == ~duplicated

\* No request is written before the handshake has succeeded: the server would
\* read it as a handshake.
RequestsAfterHandshake ==
  \A i \in 1..Len(out) : out[i].type = "request" => connected

\* Nothing is written to the stream once the channel has ended it: not a call
\* that was starting, not a handshake retry that was queued.
NoWriteAfterEot == [][destroyed => Len(out') <= Len(out)]_vars

\* What is written on the stream, and when: requests between the handshake and the end.
WritesInTurn ==
  [][RequestsAfterHandshake' /\ (destroyed => Len(out') <= Len(out))]_vars

\* A call has one outcome: when its timeout, its response, a second response and
\* the end of the channel race, the first to settle it stays.
OutcomeFinal ==
  [][\A c \in Calls : outcome[c] # "none" =>
       outcome'[c] = outcome[c] /\ answer'[c] = answer[c]]_vars

\* A channel asked to drain eventually ends.
DrainEnds == draining ~> destroyed

----------------------------------------------------------------------------
(* What the comments and the documentation say, and the code does not do.  *)

\* "16 [bits], therefore supports ~64k concurrent messages": as long as fewer
\* calls are outstanding than there are ids, a further one takes no callback away
\* from a call that waits.  The registry gives out the next id without looking
\* whether a call still holds it.
Outstanding == {c \in Calls : status[c] = "sent"}
IdsServeConcurrentCalls ==
  [][Cardinality(Outstanding) <= IdMask =>
       \A c \in Outstanding : status'[c] = "sent" /\ cbs[idOf[c]] = c => cbs'[idOf[c]] = c]_vars

\* "Clear the callback": there is a callback to clear in the tick after a one-way
\* request was written.  A destroy(true) in between has removed it.
OneWayCallbackFound == ~threw

=============================================================================
