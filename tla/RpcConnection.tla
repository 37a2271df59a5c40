---------------------------- MODULE RpcConnection ----------------------------
(***************************************************************************)
(* A client channel and a server channel at the two ends of one duplex      *)
(* stream: a TCP connection between the spl command and the spl server.     *)
(* The stream keeps the order of messages in each direction and loses none  *)
(* until it breaks; a broken stream is silent, it raises no 'end' (streamx  *)
(* destroys the codecs piped to it).                                        *)
(***************************************************************************)
EXTENDS ClientChannel

CONSTANTS
  UnhandledCalls, MangledCalls, KnownClient, Compatible,  \* see ServerChannel
  ClientDestroys,  \* the arguments the client's user may give destroy()
  ServerDestroys,  \* the arguments the server's user and listeners may give destroy()
  MayFinish,       \* the client's side of the stream may be ended by others
  MayBreak         \* the stream may break

ASSUME ConnAssumption ==
  /\ UnhandledCalls \subseteq Calls
  /\ MangledCalls \subseteq Calls
  /\ {KnownClient, Compatible, MayFinish, MayBreak} \subseteq BOOLEAN
  /\ ClientDestroys \subseteq BOOLEAN
  /\ ServerDestroys \subseteq BOOLEAN

VARIABLES
  slistening, spending, sdraining, sdestroyed, known, request, requestId, sfirst,
  sticks, sout, sforced, smidway, scaught,   \* see ServerChannel
  broken                     \* the stream is broken

Server == INSTANCE ServerChannel WITH MaxOut <- MaxBacklog

serverSide == <<slistening, spending, sdraining, sdestroyed, known, request, requestId,
                sfirst, sticks, sout, sforced, smidway, scaught>>
connVars == <<vars, serverSide, broken>>

\* Both ends keep their types when they talk to each other.
ConnTypeOK == TypeOK /\ Server!STypeOK /\ broken \in BOOLEAN

ConnInit == Init /\ Server!SInit /\ broken = FALSE

----------------------------------------------------------------------------

\* The client's process: its user, its ticks and its timers.
ClientSteps ==
  /\ ~threw
  /\ \/ \E c \in Calls : Call(c)
     \/ \E noWait \in ClientDestroys : UserDestroys(noWait)
     \/ RunTick
     \/ CallbackReturns
     \/ \E c \in Calls : CallTimesOut(c)
     \/ ConnectTimesOut
     \/ MayFinish /\ OnFinish
  /\ UNCHANGED <<serverSide, broken>>

\* What the listeners of the server's events may call destroy with.
ListenersDestroy == SUBSET ServerDestroys

\* The server's ticks.
ServerCompletes == \E destroys \in ListenersDestroy : Server!RunCompletion(destroys)

\* The server's process: its handlers, its ticks and its user.
ServerSteps ==
  /\ \/ \E c \in Calls : Server!HandlerAnswers(c)
     \/ ServerCompletes
     \/ \E noWait \in ServerDestroys : Server!SDestroy(noWait)
  /\ UNCHANGED <<vars, broken>>

\* The server's end of the stream hands over the client's oldest message; it
\* is lost if nobody listens.  What comes behind this client's handshakes is a ping.
DeliverToServer ==
  /\ ~broken
  /\ out # <<>>
  /\ out' = Tail(out)
  /\ LET m == Head(out)
     IN \/ \E destroys \in ListenersDestroy :
             Server!OnHandshake(m.type = "handshake", m.full, destroys)
        \/ /\ m.type = "request"
           /\ \E throws \in BOOLEAN, destroys \in ListenersDestroy :
                Server!OnRequest(m.call, m.id, throws, destroys)
        \/ slistening = "none" /\ UNCHANGED serverSide
  /\ UNCHANGED <<callVars, registryVars, channelVars, loopVars, finished, broken>>

\* The client's end hands over the server's oldest message; a response whose
\* callback is gone is ignored.
DeliverToClient ==
  /\ ~broken /\ ~threw
  /\ sout # <<>>
  /\ LET m == Head(sout)
     IN \/ m.type = "handshake" /\ OnPing(m.match)
        \/ m.type = "reply" /\ OnMessage(m.id, m.call)
        \/ /\ listening = "none" \/ (m.type = "reply" /\ cbs[m.id] = NoCall)
           /\ UNCHANGED vars
  /\ Server!STake
  /\ UNCHANGED broken

\* The end of a direction is seen once everything written before was read.
ServerSeesEnd ==
  /\ ~broken
  /\ destroyed \/ finished
  /\ out = <<>>
  /\ Server!SOnEnd
  /\ UNCHANGED <<vars, broken>>

ClientSeesEnd ==
  /\ ~broken /\ ~threw
  /\ sdestroyed
  /\ sout = <<>>
  /\ OnEnd
  /\ UNCHANGED <<serverSide, broken>>

Break ==
  /\ MayBreak
  /\ ~broken
  /\ broken' = TRUE
  /\ UNCHANGED <<vars, serverSide>>

ConnNext == \/ ClientSteps \/ ServerSteps
            \/ DeliverToServer \/ DeliverToClient
            \/ ServerSeesEnd \/ ClientSeesEnd \/ Break

ConnSpec == ConnInit /\ [][ConnNext]_connVars

\* Each process runs its ticks and its due timers, and the stream delivers.  A due
\* timer is run in the next timer phase even if microtasks keep coming, hence
\* strong fairness for timers.
ConnFairness ==
  /\ WF_connVars(RunTick /\ ClientSteps)
  /\ WF_connVars(CallbackReturns /\ ClientSteps)
  /\ \A c \in Calls : SF_connVars(CallTimesOut(c) /\ ClientSteps)
  /\ SF_connVars(ConnectTimesOut /\ ClientSteps)
  /\ WF_connVars(ServerCompletes /\ ServerSteps)
  /\ WF_connVars(DeliverToServer)
  /\ WF_connVars(DeliverToClient)
  /\ WF_connVars(ServerSeesEnd)
  /\ WF_connVars(ClientSeesEnd)

\* Nothing is assumed of the handlers: they may never call back.
ConnFairSpec == ConnSpec /\ ConnFairness

\* Every handler that is to call back does.
ConnHandlersSpec ==
  ConnFairSpec /\ \A c \in Calls : WF_connVars(Server!HandlerAnswers(c) /\ ServerSteps)

----------------------------------------------------------------------------
(* The abstract calls this connection provides.                            *)

PhaseOf(c) == CASE status[c] = "new" -> "idle"
                [] status[c] = "done" -> "finished"
                [] OTHER -> "waiting"

\* A response of another call is none of the results the caller is promised.
ResultOf(c) ==
  CASE outcome[c] = "none" -> "none"
    [] outcome[c] = "sentOnly" -> "ok"
    [] outcome[c] = "response" -> IF answer[c] = c THEN "ok" ELSE "mixed up"
    [] outcome[c] \in {"invalid", "destroyed"} -> "unsent"
    [] OTHER -> "lost"

Contract == INSTANCE RpcCalls WITH
  phase <- [c \in Calls |-> PhaseOf(c)],
  result <- [c \in Calls |-> ResultOf(c)],
  taken <- {c \in Calls : request[c] # "unseen"}

----------------------------------------------------------------------------
(* Properties.                                                             *)

\* The connection implements the calls it promises: no callback runs twice, none
\* is given the response of another call, no request is handled twice, none is
\* handled after its caller was told it was not sent.  And every call is called
\* back, even over a stream that breaks or to handlers that never answer.
KeepsPromise == Contract!FairSpec

\* Nothing is left pending on the server but one-way messages whose handlers threw.
ThrownHoldIt == Server!Thrown # {} /\ Server!Handled = Server!Thrown

\* Without a timer anywhere, the ends of the stream still release every caller:
\* if handlers call back and the stream does not break, every call completes, and once
\* the client's channel has ended the server's drains and ends too, unless it waits for
\* one-way messages whose handlers threw, and only for those.
CompletesWithoutTimers ==
  /\ \A c \in Calls : (status[c] # "new") ~> (status[c] = "done")
  /\ destroyed ~> (sdraining /\ (sdestroyed \/ ThrownHoldIt))

\* When the client drains and nothing else ends the connection, no call that was
\* emitted is cut off: each gets the server's response.
DrainLosesNothing ==
  \A c \in Calls : outcome[c] \notin {"interrupted", "timeout"}

=============================================================================
