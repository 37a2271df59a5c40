----------------------------- MODULE ClientPool -----------------------------
(***************************************************************************)
(* The client object of lib/avsc-rpc: it shares its calls among the        *)
(* channels that are active, keeps calls made before the first channel if  *)
(* it was asked to, and destroys all channels together.                    *)
(*                                                                         *)
(* Of a channel only what the client can see is kept: whether it drains or *)
(* has ended, and that it ends when it drains and its last call is called  *)
(* back (PendingExact of ClientChannel is what that rests on).             *)
(***************************************************************************)
EXTENDS Naturals, Sequences, SequencesExt

CONSTANTS
  Channels,     \* the channels the user may create, each once
  PoolCalls,    \* the calls the user may make, each once
  NoChannel,    \* no channel
  BuffersCalls, \* the buffering option
  HasPolicy     \* the channelPolicy option, which may return no channel

ASSUME PoolAssumption ==
  /\ NoChannel \notin Channels
  /\ BuffersCalls \in BOOLEAN /\ HasPolicy \in BOOLEAN

VARIABLES
  active,     \* the channels in use, oldest first
  chan,       \* what became of each channel
  buffering,  \* calls are kept while there is no channel
  listeners,  \* the calls kept, as listeners of the 'channel' event, oldest first
  flushing,   \* the listeners the 'channel' event in progress still runs
  via,        \* the channel each call was given to
  allAsked,   \* destroyChannels was called after the last channel was created
  fate        \* how far each call has got

poolVars == <<active, chan, buffering, listeners, flushing, via, fate, allAsked>>

PTypeOK ==
  /\ active \in Seq(Channels)
  /\ chan \in [Channels -> {"none", "open", "draining", "ended"}]
  /\ buffering \in BOOLEAN
  /\ listeners \in Seq(PoolCalls) /\ flushing \in Seq(PoolCalls)
  /\ allAsked \in BOOLEAN
  /\ via \in [PoolCalls -> Channels \cup {NoChannel}]
  /\ fate \in [PoolCalls -> {"new", "kept", "refused", "skipped", "given", "done"}]

PInit ==
  /\ active = <<>>
  /\ chan = [k \in Channels |-> "none"]
  /\ buffering = BuffersCalls
  /\ listeners = <<>> /\ flushing = <<>>
  /\ allAsked = FALSE
  /\ via = [c \in PoolCalls |-> NoChannel]
  /\ fate = [c \in PoolCalls |-> "new"]

PendingOn(k, f) == {c \in PoolCalls : via[c] = k /\ f[c] = "given"}

----------------------------------------------------------------------------
(* _emitMessage$.                                                          *)

\* The channels a call may be given to: any active one.
Candidates == ToSet(active)

\* With one channel the policy is not asked.
MaySkip == HasPolicy /\ Len(active) > 1

Place(c) ==
  \/ /\ active # <<>>
     /\ \E k \in Candidates : via' = [via EXCEPT ![c] = k]
     /\ fate' = [fate EXCEPT ![c] = "given"]
     /\ UNCHANGED listeners
  \/ /\ MaySkip
     /\ fate' = [fate EXCEPT ![c] = "skipped"]
     /\ UNCHANGED <<via, listeners>>
  \/ /\ active = <<>>
     /\ IF buffering
        THEN /\ listeners' = Append(listeners, c)
             /\ fate' = [fate EXCEPT ![c] = "kept"]
        ELSE /\ fate' = [fate EXCEPT ![c] = "refused"]
             /\ UNCHANGED listeners
     /\ UNCHANGED via

EmitMessage(c) ==
  /\ fate[c] = "new"
  /\ Place(c)
  /\ UNCHANGED <<active, chan, buffering, flushing, allAsked>>

\* The 'channel' event re-emits the calls that were kept; other listeners of
\* the user's may run in between.
Flush ==
  /\ flushing # <<>>
  /\ Place(Head(flushing))
  /\ flushing' = Tail(flushing)
  /\ UNCHANGED <<active, chan, buffering, allAsked>>

----------------------------------------------------------------------------
(* Channels.                                                               *)

StillBuffering == FALSE

CreateChannel(k) ==
  /\ chan[k] = "none"
  /\ chan' = [chan EXCEPT ![k] = "open"]
  /\ active' = Append(active, k)
  /\ buffering' = StillBuffering
  /\ flushing' = flushing \o listeners
  /\ listeners' = <<>>
  /\ allAsked' = FALSE
  /\ UNCHANGED <<via, fate>>

\* Where destroy(noWait) leaves channel k.
After(k, noWait) == IF noWait \/ PendingOn(k, fate) = {} THEN "ended" ELSE "draining"

\* A channel leaves the active ones as soon as it drains.
MutWithout(k) == IF PendingOn(k, fate) = {} THEN RemoveFirst(active, k) ELSE active
Without(k) == RemoveFirst(active, k)

\* The user destroys a channel, or the end of its stream does.
DestroyChannel(k, noWait) ==
  /\ chan[k] \in {"open", "draining"}
  /\ chan' = [chan EXCEPT ![k] = After(k, noWait)]
  /\ active' = Without(k)
  /\ UNCHANGED <<buffering, listeners, flushing, via, fate, allAsked>>

\* destroyChannels walks the active channels by position while each leaves the
\* array, so that every other one is passed over.
Walked == {active[i] : i \in {j \in DOMAIN active : j % 2 = 1}}
\* The others stay.
PassedOver == [i \in 1..Len(active) \div 2 |-> active[2 * i]]

DestroyChannels(noWait) ==
  /\ allAsked' = TRUE
  /\ chan' = [k \in Channels |-> IF k \in Walked THEN After(k, noWait) ELSE chan[k]]
  /\ active' = PassedOver
  /\ UNCHANGED <<buffering, listeners, flushing, via, fate>>

\* A call is called back: by its channel, which ends if it drains and this was its
\* last, or with the error that there is no channel.
LastOn(c) == PendingOn(via[c], [fate EXCEPT ![c] = "done"]) = {}

CallBack(c) ==
  /\ fate[c] \in {"given", "refused"} /\ flushing = <<>>
  /\ fate' = [fate EXCEPT ![c] = "done"]
  /\ chan' = [k \in Channels |->
                IF fate[c] = "given" /\ k = via[c] /\ chan[k] = "draining" /\ LastOn(c)
                THEN "ended" ELSE chan[k]]
  /\ UNCHANGED <<active, buffering, listeners, flushing, via, allAsked>>

PNext ==
  \/ \E c \in PoolCalls : EmitMessage(c) \/ CallBack(c)
  \/ Flush
  \/ \E k \in Channels : CreateChannel(k) \/ \E noWait \in BOOLEAN : DestroyChannel(k, noWait)
  \/ \E noWait \in BOOLEAN : DestroyChannels(noWait)

PSpec == PInit /\ [][PNext]_poolVars

\* Channels call back (CompletesWithoutTimers, KeepsPromise of RpcConnection), and
\* an event goes through its listeners.
PFairness == WF_poolVars(Flush) /\ \A c \in PoolCalls : WF_poolVars(CallBack(c))

----------------------------------------------------------------------------
(* Properties.                                                             *)

\* A call is only given to a channel that takes calls: the active channels are those
\* that do not drain, each once.
ActiveExact ==
  /\ ToSet(active) = {k \in Channels : chan[k] = "open"}
  /\ IsInjective(active)

\* A call made before the first channel is given to a channel, or refused, as soon
\* as there was one: it is not kept for ever, even if that channel was destroyed by
\* another listener of the event.
KeptCallsLeave ==
  \A c \in PoolCalls :
    (fate[c] = "kept" /\ \E k \in Channels : chan[k] # "none") ~> (fate[c] = "done" \/ fate[c] = "skipped")

\* "Destroy all active channels.": none is active afterwards, until another is created.
DestroysAll == allAsked => active = <<>>
=============================================================================
