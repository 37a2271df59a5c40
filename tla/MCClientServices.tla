-------------------------- MODULE MCClientServices --------------------------
(* The parts of an RPC service that can be checked alone, for TLC.  They share no   *)
(* state, so that they are checked side by side: part says which of them moves.     *)
EXTENDS ClientPool, MiddlewareChain, StatelessChannel, ServerChannel, FrameCodecs

CONSTANTS d1, d2, d3, k1, k2, k3, e1, c1, c2, c3, c4, Parts

VARIABLE part

servicesVars == <<part, poolVars, chainVars, statelessVars, serverVars, frameVars>>

\* Messages whose lengths, ids and bytes look like one another.
MCTraffic ==
  {<<[id |-> 1, payload |-> <<<<0>>>>], [id |-> 256, payload |-> <<<<0, 0, 0, 1>>, <<1>>>>],
     [id |-> 0, payload |-> <<<<2, 0>>>>]>>,
   <<[id |-> 65535, payload |-> <<<<0>>, <<0, 0, 0, 0>>>>], [id |-> 3, payload |-> <<<<7>>>>]>>}

ServicesInit ==
  /\ part \in Parts
  /\ PInit /\ MInit /\ HInit /\ SInit /\ FInit
  \* What a part chooses at the start matters only where it moves.
  /\ part # "frames" => ~netty /\ messages = CHOOSE m \in Traffic : TRUE

InPool(action) ==
  part = "pool" /\ action /\ UNCHANGED <<part, chainVars, statelessVars, serverVars, frameVars>>
InChain(action) ==
  part = "chain" /\ action /\ UNCHANGED <<part, poolVars, statelessVars, serverVars, frameVars>>
InStateless(action) ==
  part = "stateless" /\ action /\ UNCHANGED <<part, poolVars, chainVars, serverVars, frameVars>>
InServer(action) ==
  part = "server" /\ action /\ UNCHANGED <<part, poolVars, chainVars, statelessVars, frameVars>>
InFrames(action) ==
  part = "frames" /\ action /\ UNCHANGED <<part, poolVars, chainVars, statelessVars, serverVars>>

ServicesNext ==
  InPool(PNext) \/ InChain(MNext) \/ InStateless(HNext) \/ InServer(SNext) \/ InFrames(FNext)

\* The fairness of each part, where it moves.
ServicesFairness ==
  /\ WF_servicesVars(InPool(Flush))
  /\ \A c \in PoolCalls : WF_servicesVars(InPool(CallBack(c)))
  /\ WF_servicesVars(InStateless(RunHTick))
  /\ \A c \in AllCalls : SF_servicesVars(InStateless(HTimeout(c)))
  /\ WF_servicesVars(InServer(Completes))
  /\ \A c \in Calls : WF_servicesVars(InServer(HandlerAnswers(c)))

ServicesSpec == ServicesInit /\ [][ServicesNext]_servicesVars /\ ServicesFairness

\* The parts keep their types.
ServicesTypeOK == PTypeOK /\ MTypeOK /\ HTypeOK /\ STypeOK /\ FTypeOK

\* No part keeps anybody waiting: calls that were kept for a channel leave, and draining
\* channels end, stateful and stateless, once their calls have (a stateful one not if the
\* handler of a one-way message threw).
NothingWaits == KeptCallsLeave /\ SDrainEnds /\ StatelessDrainEnds
=============================================================================
