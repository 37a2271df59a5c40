-------------------------- MODULE StatelessChannel --------------------------
(***************************************************************************)
(* The stateless channels of lib/avsc-rpc: each call of the client has a   *)
(* pair of streams of its own (an HTTP exchange), at whose other end the   *)
(* server makes a channel for this one request.  Every request carries a   *)
(* handshake; if the server does not know the client's protocol it answers *)
(* NONE and the request is sent again, with the protocol.                  *)
(*                                                                         *)
(* Ping is the call the client's constructor makes.  It passes no          *)
(* middleware, so that it completes at once where other calls complete in  *)
(* a later tick.  Ids do not come round here; ClientChannel is about that. *)
(***************************************************************************)
EXTENDS Naturals, Sequences, SequencesExt

CONSTANTS
  Ping, HCalls,    \* the ping, and the calls the user may make, each once
  UnsendableCalls, \* calls whose request does not serialize
  Undecodable,     \* calls whose request the server cannot decode
  SameProtocol,    \* the server knows the client's protocol from the start
  CanTranslate     \* the two protocols are compatible

ASSUME StatelessAssumption ==
  /\ Ping \notin HCalls
  /\ UnsendableCalls \subseteq HCalls /\ Undecodable \subseteq HCalls
  /\ SameProtocol \in BOOLEAN /\ CanTranslate \in BOOLEAN

VARIABLES
  hstatus,    \* how far each call has got
  houtcome,   \* what it was or will be called back with
  hregistry,  \* the calls with a callback in the registry, by id
  htimers,    \* those whose timeout is armed
  hticks,     \* the client's nextTick queue
  hpending, hdraining, hdestroyed,
  ex,         \* the exchange of each call, at both ends
  hknown,     \* the server's cache holds the client's protocol
  received    \* how often the server has received each call

clientVars == <<hstatus, houtcome, hregistry, htimers, hticks, hpending, hdraining, hdestroyed>>
statelessVars == <<clientVars, ex, hknown, received>>

AllCalls == HCalls \cup {Ping}
NoExchange == [at |-> "none", full |-> FALSE, refused |-> FALSE,
               writable |-> FALSE, draining |-> FALSE, gone |-> FALSE]

HTypeOK ==
  /\ hstatus \in [AllCalls -> {"new", "starting", "sent", "settled", "done"}]
  /\ houtcome \in [AllCalls -> {"none", "response", "failed", "timeout", "interrupted",
                                "destroyed", "invalid"}]
  /\ hregistry \in Seq(AllCalls)
  /\ htimers \subseteq AllCalls
  /\ hticks \in Seq({"start", "emit", "settle"} \X AllCalls)
  /\ hpending \in Nat
  /\ hdraining \in BOOLEAN /\ hdestroyed \in BOOLEAN
  /\ ex \in [AllCalls ->
       [at : {"none", "request", "handling", "answering", "answered", "over"},
        full : BOOLEAN, refused : BOOLEAN, writable : BOOLEAN, draining : BOOLEAN, gone : BOOLEAN]]
  /\ hknown \in BOOLEAN
  /\ received \in [AllCalls -> 0..2]

HInit ==
  /\ hstatus = [c \in AllCalls |-> IF c = Ping THEN "starting" ELSE "new"]
  /\ houtcome = [c \in AllCalls |-> "none"]
  /\ hregistry = <<>> /\ htimers = {}
  /\ hticks = << <<"start", Ping>> >>
  /\ hpending = 1
  /\ hdraining = FALSE /\ hdestroyed = FALSE
  /\ ex = [c \in AllCalls |-> NoExchange]
  /\ hknown = SameProtocol
  /\ received = [c \in AllCalls |-> 0]

serverEnd == <<ex, hknown, received>>

----------------------------------------------------------------------------
(* Settling calls at the client.                                           *)

SettleTicks(s) == [i \in DOMAIN s |-> <<"settle", s[i]>>]
Others == RemoveFirst(hregistry, Ping)

\* The calls of S are given outcome kind.  The ping, if it is among them, is done at
\* once; the others are when their tick has run.
Given(S, kind) ==
  /\ hstatus' = [c \in AllCalls |-> IF c \notin S THEN hstatus[c]
                                    ELSE IF c = Ping THEN "done" ELSE "settled"]
  /\ houtcome' = [c \in AllCalls |-> IF c \in S THEN kind ELSE houtcome[c]]

\* destroy(true) when ping, or no call, has just been taken out of the registry.
Interrupt(pings, rest) ==
  /\ hregistry' = <<>> /\ htimers' = {}
  /\ hticks' = rest \o SettleTicks(Others)
  /\ hpending' = hpending - pings
  /\ hdraining' = TRUE /\ hdestroyed' = TRUE

\* A failed ping destroys the channel, with its error as the reason.
PingFailed(kind, rest) ==
  /\ Interrupt(1, rest)
  /\ hstatus' = [c \in AllCalls |-> IF c = Ping THEN "done"
                                    ELSE IF Contains(Others, c) THEN "settled" ELSE hstatus[c]]
  /\ houtcome' = [c \in AllCalls |-> IF c = Ping THEN kind
                                     ELSE IF Contains(Others, c) THEN "interrupted"
                                     ELSE houtcome[c]]

\* A channel that drains ends when its last call has completed.
LastOne == hdraining /\ ~hdestroyed /\ hpending = 1

\* Call c is resumed with outcome kind; rest is the queue without the running tick.
Resume(c, kind, rest) ==
  IF c # Ping
  THEN /\ Given({c}, kind)
       /\ hticks' = Append(rest, <<"settle", c>>)
       /\ hregistry' = RemoveFirst(hregistry, c)
       /\ htimers' = htimers \ {c}
       /\ UNCHANGED <<hpending, hdraining, hdestroyed>>
  ELSE IF kind # "response"
  THEN PingFailed(kind, rest)
  ELSE /\ Given({Ping}, kind)
       /\ hticks' = rest
       /\ hregistry' = Others
       /\ htimers' = htimers \ {Ping}
       /\ hpending' = hpending - 1
       /\ hdestroyed' = (hdestroyed \/ LastOne)
       /\ UNCHANGED hdraining

\* The callback of c that was taken from the registry when c was sent: it does
\* nothing once it has run.
MutHCallback(c, kind, rest) == Resume(c, kind, rest)
HCallback(c, kind, rest) ==
  IF Contains(hregistry, c)
  THEN Resume(c, kind, rest)
  ELSE hticks' = rest /\ UNCHANGED <<hstatus, houtcome, hregistry, htimers, hpending, hdraining, hdestroyed>>

----------------------------------------------------------------------------
(* The client.                                                             *)

HCall(c) ==
  /\ c \in HCalls /\ hstatus[c] = "new"
  /\ hstatus' = [hstatus EXCEPT ![c] = "starting"]
  /\ hpending' = hpending + 1
  /\ hticks' = Append(hticks, <<"start", c>>)
  /\ UNCHANGED <<houtcome, hregistry, htimers, hdraining, hdestroyed, serverEnd>>

\* The walk through the registry meets the ping first, whose failure destroys the
\* channel from within and empties the registry.  If there was another call, the walk
\* then raises an exception, as its callback is gone; the state is the same.
HDestroy(noWait) ==
  /\ IF noWait
     THEN /\ IF Contains(hregistry, Ping)
             THEN PingFailed("interrupted", hticks)
             ELSE Interrupt(0, hticks) /\ Given(ToSet(hregistry), "interrupted")
     ELSE /\ hdraining' = TRUE
          /\ hdestroyed' = (hdestroyed \/ hpending = 0)
          /\ UNCHANGED <<hstatus, houtcome, hregistry, htimers, hticks, hpending>>
  /\ UNCHANGED serverEnd

Running(kind, c) == hticks # <<>> /\ Head(hticks) = <<kind, c>>

HStart(c) ==
  /\ Running("start", c)
  /\ IF hdestroyed
     THEN Resume(c, "destroyed", Tail(hticks))
     ELSE IF c \in UnsendableCalls
     THEN Resume(c, "invalid", Tail(hticks))
     ELSE /\ hstatus' = [hstatus EXCEPT ![c] = "sent"]
          /\ hregistry' = Append(hregistry, c)
          /\ htimers' = htimers \cup {c}
          /\ hticks' = Append(Tail(hticks), <<"emit", c>>)
          /\ UNCHANGED <<houtcome, hpending, hdraining, hdestroyed>>
  /\ UNCHANGED serverEnd

\* A pair of streams is made and the request written, unless the channel has been
\* destroyed; or there is no stream.
Emits == ~hdestroyed

HEmit(c) ==
  /\ Running("emit", c)
  /\ \/ /\ Emits
        /\ ex' = [ex EXCEPT ![c] = [NoExchange EXCEPT !.at = "request", !.full = ex[c].refused]]
        /\ hticks' = Tail(hticks)
        /\ UNCHANGED <<hstatus, houtcome, hregistry, htimers, hpending, hdraining, hdestroyed>>
     \/ /\ Emits
        /\ HCallback(c, "failed", Tail(hticks))
        /\ UNCHANGED ex
     \/ /\ ~Emits
        /\ hticks' = Tail(hticks)
        /\ UNCHANGED <<hstatus, houtcome, hregistry, htimers, hpending, hdraining, hdestroyed, ex>>
  /\ UNCHANGED <<hknown, received>>

HSettle(c) ==
  /\ Running("settle", c)
  /\ hstatus' = [hstatus EXCEPT ![c] = "done"]
  /\ hticks' = Tail(hticks)
  /\ hpending' = hpending - 1
  /\ hdestroyed' = (hdestroyed \/ LastOne)
  /\ UNCHANGED <<houtcome, hregistry, htimers, hdraining, serverEnd>>

HTimeout(c) ==
  /\ hticks = <<>>
  /\ c \in htimers
  /\ HCallback(c, "timeout", hticks)
  /\ UNCHANGED serverEnd

\* The answer is read: a refused request is sent again, even if its call has timed
\* out, unless the server's protocol cannot be translated.
HRead(c) ==
  /\ ex[c].at = "answered"
  /\ ex' = [ex EXCEPT ![c].at = "over"]
  /\ IF ~ex[c].refused
     THEN HCallback(c, "response", hticks)
     ELSE IF ~CanTranslate
     THEN HCallback(c, "failed", hticks)
     ELSE /\ hticks' = Append(hticks, <<"emit", c>>)
          /\ UNCHANGED <<hstatus, houtcome, hregistry, htimers, hpending, hdraining, hdestroyed>>
  /\ UNCHANGED <<hknown, received>>

\* The streams fail, with an error to the client or silently.
HExchangeFails(c) ==
  /\ ex[c].at \notin {"none", "over"}
  /\ ex' = [ex EXCEPT ![c] = [NoExchange EXCEPT !.at = "over"]]
  /\ \/ HCallback(c, "failed", hticks)
     \/ UNCHANGED clientVars
  /\ UNCHANGED <<hknown, received>>

----------------------------------------------------------------------------
(* The server's channel of an exchange.                                    *)

\* done: the answer is written once there is a stream for it.
Answered(e) ==
  IF e.gone THEN [NoExchange EXCEPT !.at = "over"]
  ELSE IF e.writable THEN [NoExchange EXCEPT !.at = "answered", !.refused = e.refused]
  ELSE [e EXCEPT !.at = "answering"]

Accepted(c) == hknown \/ (ex[c].full /\ CanTranslate)

HReceive(c) ==
  /\ ex[c].at = "request"
  /\ hknown' = Accepted(c)
  /\ IF Accepted(c)
     THEN /\ received' = [received EXCEPT ![c] = @ + 1]
          /\ ex' = [ex EXCEPT ![c] = IF c = Ping \/ c \in Undecodable
                                     THEN Answered(@) ELSE [@ EXCEPT !.at = "handling"]]
     ELSE /\ ex' = [ex EXCEPT ![c] = Answered([@ EXCEPT !.refused = TRUE])]
          /\ UNCHANGED received
  /\ UNCHANGED clientVars

\* The handler has called back; a channel that drains ends after that.
HHandled(c) ==
  /\ ex[c].at = "handling"
  /\ ex' = [ex EXCEPT ![c] =
               LET e == Answered(@)
               IN IF e.at = "answering" THEN [e EXCEPT !.gone = e.draining] ELSE e]
  /\ UNCHANGED <<clientVars, hknown, received>>

\* The stream for the answer is there, now or later.
HWritable(c) ==
  /\ ex[c].at \in {"request", "handling", "answering"} /\ ~ex[c].writable
  /\ ex' = [ex EXCEPT ![c] = LET e == [@ EXCEPT !.writable = TRUE]
                             IN IF e.at = "answering" THEN Answered(e) ELSE e]
  /\ UNCHANGED <<clientVars, hknown, received>>

\* The client has ended its side: the channel drains, and ends if no handler runs;
\* an answer that waits for its stream is dropped.
HEnd(c) ==
  /\ ex[c].at \in {"handling", "answering"} /\ ~ex[c].draining
  /\ ex' = [ex EXCEPT ![c] = [@ EXCEPT !.draining = TRUE, !.gone = ex[c].gone \/ ex[c].at = "answering"]]
  /\ UNCHANGED <<clientVars, hknown, received>>

HNext ==
  \/ \E noWait \in BOOLEAN : HDestroy(noWait)
  \/ \E c \in AllCalls :
       \/ HCall(c) \/ HStart(c) \/ HEmit(c) \/ HSettle(c) \/ HTimeout(c) \/ HRead(c)
       \/ HExchangeFails(c) \/ HReceive(c) \/ HHandled(c) \/ HWritable(c) \/ HEnd(c)

HSpec == HInit /\ [][HNext]_statelessVars

RunHTick == \E c \in AllCalls : HStart(c) \/ HEmit(c) \/ HSettle(c)

\* The client runs its ticks and, in the timer phase after it, its due timers.
\* Nothing is assumed of the server or of the streams.
HFairness ==
  WF_statelessVars(RunHTick) /\ \A c \in AllCalls : SF_statelessVars(HTimeout(c))

----------------------------------------------------------------------------
(* Properties.                                                             *)

PhaseOf(c) == CASE hstatus[c] = "new" -> "idle"
                [] hstatus[c] = "done" -> "finished"
                [] OTHER -> "waiting"

\* A request the server received twice gives none of the results the caller is promised.
ResultOf(c) ==
  CASE received[c] > 1 -> "executed twice"
    [] houtcome[c] = "none" -> "none"
    [] houtcome[c] = "response" -> "ok"
    [] houtcome[c] \in {"invalid", "destroyed"} -> "unsent"
    [] OTHER -> "lost"

Contract == INSTANCE RpcCalls WITH
  Calls <- HCalls, OneWayCalls <- {},
  phase <- [c \in HCalls |-> PhaseOf(c)],
  result <- [c \in HCalls |-> ResultOf(c)],
  taken <- {c \in HCalls : received[c] > 0}

\* Stateless channels keep the promise of RpcCalls too: a request that is sent again
\* after a refusal is received once, also when its call has timed out meanwhile, no
\* callback runs twice, and every call is called back.
StatelessKeepsPromise == Contract!FairSpec

\* A channel asked to drain ends, if its user makes no call for ever: the count of
\* calls comes down whichever way they and the ping complete.
StatelessDrainEnds == hdraining ~> hdestroyed
=============================================================================
