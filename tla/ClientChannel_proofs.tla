------------------------ MODULE ClientChannel_proofs ------------------------
(***************************************************************************)
(* Proofs about the stateful client channel, for every set of calls, every *)
(* id mask and every option.  The invariant Inv below is what a step needs  *)
(* to know of the tick queue, the registry and the '_ready' queue to keep   *)
(* the pending count exact.                                                 *)
(***************************************************************************)
EXTENDS ClientChannel, TLAPS, SequenceTheorems, FunctionTheorems, FiniteSetTheorems

----------------------------------------------------------------------------
(* The inductive invariant.                                                *)

\* Two ticks of which only one may be queued: a call starts once and completes
\* once.
Twins(t, u) == t.task = u.task /\ t.call = u.call /\ t.task \in {"start", "settle"}

NoTwins(q) == \A i, j \in 1..Len(q) : i # j => ~Twins(q[i], q[j])

\* What a queued tick says of its call, whose status is given by st.
TickFits(t, st) ==
  /\ t.task \notin {"ping", "retry"} => t.call \in Calls
  /\ t.task = "start" => st[t.call] = "starting"
  /\ t.task \in {"reply", "oneway"} => st[t.call] \in {"sent", "settled", "done"}
  /\ t.task = "settle" => st[t.call] = "settled"

TicksFit == NoTwins(ticks) /\ \A t \in Members(ticks) : TickFits(t, status)

\* A call in the registry waits for its response, under its own id.
RegistryFits ==
  \A i \in Ids : cbs[i] # NoCall => status[cbs[i]] = "sent" /\ idOf[cbs[i]] = i

TimersFit == \A c \in timers : status[c] \in {"sent", "settled", "done"}

Distinct(s) == \A i, j \in 1..Len(s) : i # j => s[i] # s[j]

ReadyFits == Distinct(ready) /\ \A c \in Members(ready) : status[c] = "queued"

OutcomesFit == \A c \in Calls : outcome[c] # "none" => status[c] \in {"settled", "done"}

\* Before the handshake nothing is in flight, or the channel has ended.
Unconnected == ~connected /\ ~destroyed => ~draining /\ pending = 0

Inv ==
  /\ TypeOK
  /\ PendingExact
  /\ TicksFit
  /\ RegistryFits
  /\ TimersFit
  /\ ReadyFits
  /\ OutcomesFit
  /\ Unconnected
  /\ RequestsAfterHandshake

----------------------------------------------------------------------------
(* Queues.                                                                 *)

LEMMA AppendMembers ==
  ASSUME NEW S, NEW s \in Seq(S), NEW e \in S
  PROVE  /\ Append(s, e) \in Seq(S)
         /\ Members(Append(s, e)) = Members(s) \cup {e}
  BY DEF Members

LEMMA MembersType ==
  ASSUME NEW S, NEW s \in Seq(S)
  PROVE  Members(s) \subseteq S
  BY ElementOfSeq DEF Members

LEMMA DisjointUnion ==
  ASSUME NEW S, NEW T, IsFiniteSet(S), IsFiniteSet(T), S \cap T = {}
  PROVE  Cardinality(S \cup T) = Cardinality(S) + Cardinality(T)
<1>1. /\ Cardinality(S \cup T) = Cardinality(S) + Cardinality(T) - Cardinality(S \cap T)
      /\ Cardinality(S) \in Nat /\ Cardinality(T) \in Nat
  BY FS_Union, FS_CardinalityType
<1>2. Cardinality(S \cap T) = 0
  BY FS_EmptySet
<1>3. QED
  BY <1>1, <1>2

LEMMA TailMembers ==
  ASSUME NEW S, NEW s \in Seq(S), s # <<>>
  PROVE  /\ Tail(s) \in Seq(S) /\ Head(s) \in S
         /\ Members(s) = {Head(s)} \cup Members(Tail(s))
<1>1. /\ Tail(s) \in Seq(S) /\ Head(s) \in S /\ Len(Tail(s)) = Len(s) - 1
      /\ \A i \in 1..Len(Tail(s)) : Tail(s)[i] = s[i + 1]
      /\ Head(s) = s[1] /\ Len(s) \in Nat /\ Len(s) > 0
  BY HeadTailProperties, EmptySeq
<1>2. ASSUME NEW i \in 1..Len(s)
      PROVE  s[i] \in {Head(s)} \cup {Tail(s)[j] : j \in 1..Len(Tail(s))}
  <2>1. CASE i = 1
    BY <1>1, <2>1
  <2>2. CASE i # 1
    <3>1. i - 1 \in 1..Len(Tail(s)) /\ s[i] = Tail(s)[i - 1]
      BY <1>1, <2>2
    <3>2. QED
      BY <3>1
  <2>3. QED
    BY <2>1, <2>2
<1>3. ASSUME NEW j \in 1..Len(Tail(s))
      PROVE  Tail(s)[j] \in {s[i] : i \in 1..Len(s)}
  BY <1>1
<1>4. Head(s) \in {s[i] : i \in 1..Len(s)}
  BY <1>1
<1>5. QED
  BY <1>1, <1>2, <1>3, <1>4 DEF Members

LEMMA ConcatMembers ==
  ASSUME NEW S, NEW s \in Seq(S), NEW t \in Seq(S)
  PROVE  /\ s \o t \in Seq(S)
         /\ Members(s \o t) = Members(s) \cup Members(t)
<1>1. /\ s \o t \in Seq(S) /\ Len(s \o t) = Len(s) + Len(t)
      /\ Len(s) \in Nat /\ Len(t) \in Nat
      /\ \A i \in 1..Len(s) + Len(t) :
           (s \o t)[i] = IF i <= Len(s) THEN s[i] ELSE t[i - Len(s)]
  BY ConcatProperties, LenProperties
<1>2. \A i \in 1..Len(s) : i \in 1..Len(s \o t) /\ (s \o t)[i] = s[i]
  BY <1>1
<1>3. \A i \in 1..Len(t) : i + Len(s) \in 1..Len(s \o t) /\ (s \o t)[i + Len(s)] = t[i]
  BY <1>1
<1>4. \A i \in 1..Len(s \o t) : i \in 1..Len(s) \/ i - Len(s) \in 1..Len(t)
  BY <1>1
<1>5. \A i \in 1..Len(s \o t) : (s \o t)[i] \in Members(s) \cup Members(t)
  BY <1>1, <1>4 DEF Members
<1>6. Members(s) \cup Members(t) \subseteq Members(s \o t)
  BY <1>2, <1>3 DEF Members
<1>7. QED
  BY <1>1, <1>5, <1>6 DEF Members

\* A sequence without repetition has as many members as entries.
LEMMA DistinctCount ==
  ASSUME NEW S, NEW s \in Seq(S), Distinct(s)
  PROVE  IsFiniteSet(Members(s)) /\ Cardinality(Members(s)) = Len(s)
<1>1. Len(s) \in Nat /\ s \in [1..Len(s) -> S]
  BY LenProperties
<1>2. s \in Bijection(1..Len(s), Members(s))
  BY <1>1 DEF Bijection, Injection, Surjection, IsInjective, Distinct, Members
<1>3. IsFiniteSet(1..Len(s)) /\ Cardinality(1..Len(s)) = Len(s)
  BY <1>1, FS_Interval
<1>4. QED
  BY <1>2, <1>3, FS_Bijection DEF ExistsBijection

----------------------------------------------------------------------------
(* The tick queue.                                                         *)

LEMMA AppendTick ==
  ASSUME NEW q \in Seq(Tasks), NEW t \in Tasks, NoTwins(q),
         \A u \in Members(q) : ~Twins(u, t)
  PROVE  NoTwins(Append(q, t))
<1>1. /\ Len(q) \in Nat /\ Len(Append(q, t)) = Len(q) + 1
      /\ \A i \in 1..Len(q) : Append(q, t)[i] = q[i]
      /\ Append(q, t)[Len(q) + 1] = t
  OBVIOUS
<1>2. \A i \in 1..Len(q) : ~Twins(q[i], t) /\ ~Twins(t, q[i])
  BY DEF Members, Twins
<1>3. ASSUME NEW i \in 1..Len(Append(q, t)), NEW j \in 1..Len(Append(q, t)), i # j
      PROVE  ~Twins(Append(q, t)[i], Append(q, t)[j])
  <2>1. CASE i \in 1..Len(q) /\ j \in 1..Len(q)
    BY <1>1, <1>3, <2>1 DEF NoTwins
  <2>2. CASE i = Len(q) + 1 /\ j \in 1..Len(q)
    BY <1>1, <1>2, <2>2
  <2>3. CASE i \in 1..Len(q) /\ j = Len(q) + 1
    BY <1>1, <1>2, <2>3
  <2>4. QED
    BY <1>1, <1>3, <2>1, <2>2, <2>3
<1>4. QED
  BY <1>3 DEF NoTwins

LEMMA TailTicks ==
  ASSUME NEW q \in Seq(Tasks), q # <<>>, NoTwins(q)
  PROVE  /\ NoTwins(Tail(q))
         /\ \A u \in Members(Tail(q)) : ~Twins(u, Head(q))
<1>1. /\ Len(Tail(q)) = Len(q) - 1
      /\ \A i \in 1..Len(Tail(q)) : Tail(q)[i] = q[i + 1]
      /\ Head(q) = q[1] /\ Len(q) \in Nat /\ Len(q) > 0
  BY HeadTailProperties, EmptySeq
<1>2. \A i \in 1..Len(Tail(q)) : i + 1 \in 1..Len(q) /\ i + 1 # 1
  BY <1>1
<1>3. NoTwins(Tail(q))
  BY <1>1, <1>2 DEF NoTwins
<1>4. \A i \in 1..Len(Tail(q)) : ~Twins(Tail(q)[i], Head(q))
  BY <1>1, <1>2 DEF NoTwins
<1>5. QED
  BY <1>3, <1>4 DEF Members

LEMMA ConcatTicks ==
  ASSUME NEW q \in Seq(Tasks), NEW r \in Seq(Tasks), NoTwins(q), NoTwins(r),
         \A t \in Members(q), u \in Members(r) : ~Twins(t, u)
  PROVE  NoTwins(q \o r)
<1>1. /\ Len(q \o r) = Len(q) + Len(r) /\ Len(q) \in Nat /\ Len(r) \in Nat
      /\ \A i \in 1..Len(q) + Len(r) :
           (q \o r)[i] = IF i <= Len(q) THEN q[i] ELSE r[i - Len(q)]
  BY ConcatProperties, LenProperties
<1>2. \A i \in 1..Len(q), j \in 1..Len(r) : ~Twins(q[i], r[j]) /\ ~Twins(r[j], q[i])
  BY DEF Members, Twins
<1>3. ASSUME NEW i \in 1..Len(q \o r), NEW j \in 1..Len(q \o r), i # j
      PROVE  ~Twins((q \o r)[i], (q \o r)[j])
  <2>1. CASE i <= Len(q) /\ j <= Len(q)
    BY <1>1, <1>3, <2>1 DEF NoTwins
  <2>2. CASE i <= Len(q) /\ j > Len(q)
    <3>1. i \in 1..Len(q) /\ j - Len(q) \in 1..Len(r)
      BY <1>1, <2>2
    <3>2. QED
      BY <1>1, <1>2, <2>2, <3>1
  <2>3. CASE i > Len(q) /\ j <= Len(q)
    <3>1. i - Len(q) \in 1..Len(r) /\ j \in 1..Len(q)
      BY <1>1, <2>3
    <3>2. QED
      BY <1>1, <1>2, <2>3, <3>1
  <2>4. CASE i > Len(q) /\ j > Len(q)
    <3>1. i - Len(q) \in 1..Len(r) /\ j - Len(q) \in 1..Len(r) /\ i - Len(q) # j - Len(q)
      BY <1>1, <1>3, <2>4
    <3>2. (q \o r)[i] = r[i - Len(q)] /\ (q \o r)[j] = r[j - Len(q)]
      BY <1>1, <2>4
    <3>3. ~Twins(r[i - Len(q)], r[j - Len(q)])
      BY <3>1 DEF NoTwins
    <3>4. QED
      BY <3>2, <3>3
  <2>5. QED
    BY <1>1, <2>1, <2>2, <2>3, <2>4
<1>4. QED
  BY <1>3 DEF NoTwins

LEMMA TicksForCalls ==
  ASSUME NEW s \in Seq(Calls), NEW k \in {"start", "settle"}, Distinct(s)
  PROVE  /\ TicksFor(k, s) \in Seq(Tasks)
         /\ Members(TicksFor(k, s)) = {Tick(k, c) : c \in Members(s)}
         /\ NoTwins(TicksFor(k, s))
<1> DEFINE f == TicksFor(k, s)
<1>1. Len(s) \in Nat /\ \A i \in 1..Len(s) : s[i] \in Calls /\ Tick(k, s[i]) \in Tasks
  BY ElementOfSeq, LenProperties DEF Tick, Task, Tasks
<1>2. f \in [1..Len(s) -> Tasks]
  BY <1>1 DEF TicksFor
<1>3. f \in Seq(Tasks) /\ Len(f) = Len(s) /\ \A i \in 1..Len(s) : f[i] = Tick(k, s[i])
  BY <1>1, <1>2 DEF TicksFor
<1>4. Members(f) = {Tick(k, c) : c \in Members(s)}
  BY <1>3 DEF Members
<1>5. NoTwins(f)
  <2>1. ASSUME NEW i \in 1..Len(s), NEW j \in 1..Len(s), i # j
        PROVE  ~Twins(f[i], f[j])
    <3>1. f[i].call = s[i] /\ f[j].call = s[j]
      <4>1. f[i] = Tick(k, s[i]) /\ f[j] = Tick(k, s[j])
        BY <1>3
      <4>2. \A c : Tick(k, c).call = c
        BY DEF Tick, Task
      <4>3. QED
        BY <4>1, <4>2
    <3>2. s[i] # s[j]
      BY <2>1 DEF Distinct
    <3>3. QED
      BY <3>1, <3>2 DEF Twins
  <2>2. QED
    BY <1>3, <2>1 DEF NoTwins
<1>6. QED
  BY <1>3, <1>4, <1>5


----------------------------------------------------------------------------
(* Messages, tasks and counts.                                             *)

LEMMA TickTypes ==
  /\ \A c \in Calls : /\ Tick("start", c) \in Tasks
                      /\ Tick("settle", c) \in Tasks
                      /\ Tick("oneway", c) \in Tasks
  /\ \A c \in Calls, d \in Calls \cup {NoCall} : Task("reply", c, d) \in Tasks
  /\ Tick("ping", NoCall) \in Tasks /\ Tick("retry", NoCall) \in Tasks
  BY DEF Tick, Task, Tasks

LEMMA MessageTypes ==
  /\ \A full \in BOOLEAN : Handshake(full) \in Messages
  /\ \A c \in Calls, id \in Ids : Request(c, id) \in Messages
  BY DEF Handshake, Request, Messages

LEMMA FlightFinite ==
  IsFiniteSet(InFlight) /\ Cardinality(InFlight) \in Nat
<1>1. InFlight \in SUBSET Calls
  BY DEF InFlight
<1>2. QED
  BY <1>1, CallsAssumption, FS_Subset, FS_CardinalityType

----------------------------------------------------------------------------
(* Settling a call.                                                        *)

\* A callback taken from the registry or from a tick, whose tick is no longer
\* queued, keeps the invariant.
LEMMA RunCallbackStep ==
  ASSUME Inv,
         NEW c \in Calls, status[c] \in {"sent", "settled", "done"},
         NEW kind \in Outcomes \ {"none"}, NEW d \in Calls \cup {NoCall},
         NEW rest \in Seq(Tasks), NoTwins(rest), Members(rest) \subseteq Members(ticks),
         RunCallback(c, kind, d, rest),
         UNCHANGED <<idOf, lastId, channelVars, completing, transportVars>>,
         threw' \in BOOLEAN
  PROVE  Inv'
<1> USE DEF Inv, channelVars, transportVars
<1>1. CASE AlreadyRun(c) \/ ~NotYetSettled(c)
  <2>1. /\ ticks' = rest /\ UNCHANGED callVars
        /\ duplicated' \in BOOLEAN
        /\ timers' \subseteq timers
        /\ cbs' \in [Ids -> Calls \cup {NoCall}]
        /\ \A i \in Ids : cbs'[i] = cbs[i] \/ cbs'[i] = NoCall
    BY <1>1 DEF RunCallback, Settle, TypeOK
  <2>2. TypeOK'
    BY <2>1 DEF TypeOK, callVars
  <2>3. PendingExact'
    BY <2>1 DEF PendingExact, InFlight, callVars
  <2>4. TicksFit'
    BY <2>1 DEF TicksFit, callVars, TickFits
  <2>5. RegistryFits' /\ TimersFit' /\ ReadyFits' /\ OutcomesFit'
    BY <2>1 DEF RegistryFits, TimersFit, ReadyFits, OutcomesFit, callVars
  <2>6. Unconnected' /\ RequestsAfterHandshake'
    BY DEF Unconnected, RequestsAfterHandshake
  <2>7. QED
    BY <2>2, <2>3, <2>4, <2>5, <2>6
<1>2. CASE ~AlreadyRun(c) /\ NotYetSettled(c)
  <2> DEFINE t == Tick("settle", c)
  <2>1. /\ status[c] = "sent"
        /\ status' = [status EXCEPT ![c] = "settled"]
        /\ outcome' = [outcome EXCEPT ![c] = kind]
        /\ answer' = [answer EXCEPT ![c] = d]
        /\ ticks' = Append(rest, t)
        /\ cbs' = [cbs EXCEPT ![idOf[c]] = NoCall]
        /\ timers' = timers \ {c}
        /\ duplicated' = duplicated
    BY <1>2 DEF RunCallback, Settle, NotYetSettled, TypeOK
  <2>2. t \in Tasks /\ ticks' \in Seq(Tasks) /\ Members(ticks') = Members(rest) \cup {t}
    BY <2>1, TickTypes, AppendMembers
  <2>3. TypeOK'
    BY <2>1, <2>2 DEF TypeOK, Statuses
  <2>4. PendingExact'
    <3>1. InFlight' = InFlight
      BY <2>1 DEF InFlight, TypeOK
    <3>2. QED
      BY <3>1 DEF PendingExact
  <2>5. TicksFit'
    <3>1. \A u \in Members(rest) : TickFits(u, status)
      BY DEF TicksFit
    <3>2. t.task = "settle" /\ t.call = c
      BY DEF Tick, Task
    <3>3. \A u \in Members(rest) : ~Twins(u, t)
      BY <2>1, <3>1, <3>2 DEF TickFits, Twins
    <3>4. NoTwins(ticks')
      BY <2>1, <2>2, <3>3, AppendTick
    <3>5. \A u \in Members(rest) : TickFits(u, status')
      BY <2>1, <3>1 DEF TickFits, TypeOK
    <3>6. TickFits(t, status')
      BY <2>1, <3>2 DEF TickFits, TypeOK
    <3>7. QED
      BY <2>2, <3>4, <3>5, <3>6 DEF TicksFit
  <2>6. RegistryFits'
    BY <2>1 DEF RegistryFits, TypeOK
  <2>7. TimersFit' /\ ReadyFits' /\ OutcomesFit'
    <3>1. Members(ready) \subseteq Calls
      BY DEF TypeOK, Members
    <3>2. QED
      BY <2>1, <3>1 DEF TimersFit, ReadyFits, OutcomesFit, TypeOK
  <2>8. Unconnected' /\ RequestsAfterHandshake'
    BY DEF Unconnected, RequestsAfterHandshake
  <2>9. QED
    BY <2>3, <2>4, <2>5, <2>6, <2>7, <2>8
<1>3. QED
  BY <1>1, <1>2

----------------------------------------------------------------------------
(* Destroying the channel.                                                 *)

\* The order in which registry.clear() interrupts calls names each once.
LEMMA OrderOfRegistered ==
  ASSUME Inv, NEW S \in SUBSET Registered, NEW order \in ById(S)
  PROVE  order \in Seq(Calls) /\ Distinct(order) /\ Members(order) \subseteq S
<1>1. S \subseteq Calls
  BY DEF Inv, TypeOK, Registered
<1>2. IsFiniteSet(S) /\ Cardinality(S) \in Nat
  BY <1>1, CallsAssumption, FS_Subset, FS_CardinalityType
<1>3. /\ order \in [1..Cardinality(S) -> S]
      /\ \A i, j \in DOMAIN order : i < j => idOf[order[i]] < idOf[order[j]]
  BY DEF ById
<1>4. order \in Seq(Calls) /\ Len(order) = Cardinality(S)
  BY <1>1, <1>2, <1>3
<1>5. \A i \in 1..Len(order) : order[i] \in S /\ idOf[order[i]] \in Nat
  <2>1. \A i \in 1..Len(order) : order[i] \in S
    BY <1>2, <1>3, <1>4
  <2>2. \A c \in Calls : idOf[c] \in Nat
    BY OptionsAssumption DEF Inv, TypeOK, Ids
  <2>3. QED
    BY <1>1, <2>1, <2>2
<1>6. Distinct(order)
  <2>1. ASSUME NEW i \in 1..Len(order), NEW j \in 1..Len(order), i # j
        PROVE  order[i] # order[j]
    <3>1. i < j \/ j < i
      BY <1>2, <1>4, <2>1
    <3>2. idOf[order[i]] # idOf[order[j]]
      BY <1>3, <1>4, <1>5, <3>1
    <3>3. QED
      BY <3>2
  <2>2. QED
    BY <2>1 DEF Distinct
<1>7. QED
  BY <1>4, <1>5, <1>6 DEF Members

LEMMA RegisteredSent ==
  ASSUME Inv, NEW c \in Registered
  PROVE  c \in Calls /\ status[c] = "sent"
  BY DEF Inv, TypeOK, RegistryFits, Registered

\* What destroy() lets go of the '_ready' queue.
LEMMA ReleasedCalls ==
  ASSUME Inv, NEW noWait
  PROVE  /\ Released(noWait) = ready \/ Released(noWait) = <<>>
         /\ Released(noWait) \in Seq(Calls)
         /\ Distinct(Released(noWait))
         /\ \A c \in Members(Released(noWait)) : c \in Calls /\ status[c] = "queued"
<1>1. CASE Released(noWait) = ready
  BY <1>1 DEF Inv, TypeOK, ReadyFits, Members
<1>2. CASE Released(noWait) = <<>>
  BY <1>2 DEF Distinct, Members
<1>3. QED
  BY <1>1, <1>2 DEF Released

LEMMA DestroyStep ==
  ASSUME Inv, NEW noWait \in BOOLEAN, Destroy(noWait),
         UNCHANGED <<connected, threw, out>>,
         completing' \in Calls \cup {NoCall}, finished' \in BOOLEAN
  PROVE  Inv'
<1> DEFINE interrupted == Interrupted(noWait)
           released == Released(noWait)
<1>1. PICK order \in ById(interrupted) :
        /\ draining' = TRUE
        /\ destroyed' = (destroyed \/ Ends(noWait))
        /\ connTimer' = (connTimer /\ ~Ends(noWait))
        /\ listening' = (IF Ends(noWait) THEN "none" ELSE listening)
        /\ cbs' = [i \in Ids |-> IF noWait THEN NoCall ELSE cbs[i]]
        /\ timers' = timers \ interrupted
        /\ status' = [c \in Calls |-> IF c \in interrupted THEN "settled"
                                      ELSE IF c \in Members(released) THEN "starting"
                                      ELSE status[c]]
        /\ outcome' = [c \in Calls |-> IF c \in interrupted THEN "interrupted"
                                       ELSE outcome[c]]
        /\ ticks' = ticks \o TicksFor("settle", order) \o TicksFor("start", released)
        /\ pending' = pending + Len(released)
        /\ ready' = (IF released = <<>> THEN ready ELSE <<>>)
        /\ UNCHANGED <<answer, idOf, lastId, duplicated>>
  BY DEF Destroy
<1>2. interrupted \in SUBSET Registered /\ interrupted \subseteq Calls
  BY RegisteredSent DEF Interrupted
<1>3. order \in Seq(Calls) /\ Distinct(order) /\ Members(order) \subseteq interrupted
  BY <1>1, <1>2, OrderOfRegistered
<1>4. /\ released = ready \/ released = <<>>
      /\ released \in Seq(Calls) /\ Distinct(released)
      /\ Members(released) \subseteq Calls
      /\ \A c \in Members(released) : status[c] = "queued"
  BY ReleasedCalls
<1>5. \A c \in interrupted : c \in Calls /\ status[c] = "sent"
  BY <1>2, RegisteredSent
<1>6. Ends(noWait) \in BOOLEAN
  BY DEF Ends, Inv, TypeOK
<1> HIDE DEF interrupted, released
<1> DEFINE S == TicksFor("settle", order)
           R == TicksFor("start", released)
<1>7. /\ S \in Seq(Tasks) /\ NoTwins(S) /\ Members(S) = {Tick("settle", c) : c \in Members(order)}
      /\ R \in Seq(Tasks) /\ NoTwins(R) /\ Members(R) = {Tick("start", c) : c \in Members(released)}
  BY <1>3, <1>4, TicksForCalls
<1> HIDE DEF S, R
<1>8. /\ ticks' = (ticks \o S) \o R /\ ticks \in Seq(Tasks)
      /\ ticks \o S \in Seq(Tasks) /\ Members(ticks \o S) = Members(ticks) \cup Members(S)
      /\ ticks' \in Seq(Tasks)
      /\ Members(ticks') = Members(ticks) \cup Members(S) \cup Members(R)
  <2>1. ticks \in Seq(Tasks) /\ ticks' = (ticks \o S) \o R
    BY <1>1 DEF S, R, Inv, TypeOK
  <2>2. ticks \o S \in Seq(Tasks) /\ Members(ticks \o S) = Members(ticks) \cup Members(S)
    BY <1>7, <2>1, ConcatMembers
  <2> DEFINE Q == ticks \o S
  <2> HIDE DEF Q
  <2>3. Q \o R \in Seq(Tasks) /\ Members(Q \o R) = Members(Q) \cup Members(R)
    <3>1. Q \in Seq(Tasks) /\ R \in Seq(Tasks)
      BY <1>7, <2>2 DEF Q
    <3>2. QED
      BY <3>1, ConcatMembers
  <2>4. QED
    BY <2>1, <2>2, <2>3 DEF Q
<1>9. TypeOK'
  <2>1. pending + Len(released) \in Nat
    BY <1>4, LenProperties DEF Inv, TypeOK
  <2>2. QED
    BY <1>1, <1>2, <1>4, <1>6, <1>8, <2>1 DEF Inv, TypeOK, Statuses, Outcomes
<1>10. PendingExact'
  <2>1. InFlight' = InFlight \cup Members(released)
    BY <1>1, <1>4, <1>5 DEF InFlight, Inv, TypeOK
  <2>2. InFlight \cap Members(released) = {}
    BY <1>4 DEF InFlight
  <2>3. IsFiniteSet(Members(released)) /\ Cardinality(Members(released)) = Len(released)
    BY <1>4, DistinctCount
  <2>4. Cardinality(InFlight \cup Members(released))
          = Cardinality(InFlight) + Cardinality(Members(released))
    BY <2>2, <2>3, FlightFinite, DisjointUnion
  <2>5. QED
    BY <1>1, <2>1, <2>3, <2>4 DEF PendingExact, Inv
<1>11. TicksFit'
  <2>1. NoTwins(ticks) /\ \A u \in Members(ticks) : TickFits(u, status)
    BY DEF Inv, TicksFit
  <2>2. \A c : /\ Tick("settle", c).task = "settle" /\ Tick("settle", c).call = c
               /\ Tick("start", c).task = "start" /\ Tick("start", c).call = c
    BY DEF Tick, Task
  <2>3. \A u \in Members(S) : u.task = "settle" /\ u.call \in interrupted
    BY <1>3, <1>7, <2>2
  <2>4. \A u \in Members(R) : u.task = "start" /\ u.call \in Members(released)
    BY <1>7, <2>2
  <2>5. \A u \in Members(ticks), v \in Members(S) : ~Twins(u, v)
    BY <1>5, <2>1, <2>3 DEF Twins, TickFits
  <2>6. NoTwins(ticks \o S)
    BY <1>7, <1>8, <2>1, <2>5, ConcatTicks
  <2>7. \A u \in Members(ticks \o S), v \in Members(R) : ~Twins(u, v)
    BY <1>4, <1>8, <2>1, <2>3, <2>4 DEF Twins, TickFits
  <2>8. NoTwins(ticks')
    BY <1>7, <1>8, <2>6, <2>7, ConcatTicks
  <2>9. \A u \in Members(ticks) : TickFits(u, status')
    BY <1>1, <1>4, <1>5, <2>1 DEF TickFits
  <2>10. \A u \in Members(S) : TickFits(u, status')
    BY <1>1, <1>2, <2>3 DEF TickFits
  <2>11. \A u \in Members(R) : TickFits(u, status')
    BY <1>1, <1>4, <1>5, <2>4 DEF TickFits
  <2>12. QED
    BY <1>8, <2>8, <2>9, <2>10, <2>11 DEF TicksFit
<1>12. RegistryFits'
  <2>1. CASE noWait
    BY <1>1, <2>1 DEF RegistryFits
  <2>2. CASE ~noWait
    <3>1. cbs' = cbs /\ interrupted = {}
      BY <1>1, <2>2 DEF Inv, TypeOK, interrupted, Interrupted
    <3>2. QED
      BY <1>1, <1>4, <3>1 DEF Inv, TypeOK, RegistryFits
  <2>3. QED
    BY <2>1, <2>2
<1>13. TimersFit' /\ OutcomesFit'
  BY <1>1, <1>4 DEF Inv, TypeOK, TimersFit, OutcomesFit
<1>14. ReadyFits'
  <2>1. CASE released = <<>>
    <3>1. Members(released) = {} /\ Members(ready) \subseteq Calls
      BY <2>1 DEF Members, Inv, TypeOK
    <3>2. QED
      BY <1>1, <1>5, <2>1, <3>1 DEF Inv, ReadyFits
  <2>2. CASE released # <<>>
    BY <1>1, <2>2 DEF ReadyFits, Distinct, Members
  <2>3. QED
    BY <2>1, <2>2
<1>15. Unconnected'
  <2>1. ~connected /\ ~destroyed => Ends(noWait)
    BY DEF Inv, Unconnected, Ends
  <2>2. QED
    BY <1>1, <2>1 DEF Unconnected
<1>16. RequestsAfterHandshake'
  BY DEF Inv, RequestsAfterHandshake
<1>17. QED
  BY <1>9, <1>10, <1>11, <1>12, <1>13, <1>14, <1>15, <1>16 DEF Inv

----------------------------------------------------------------------------
(* The user's calls and the handshake.                                     *)

LEMMA CallStep ==
  ASSUME Inv, NEW c \in Calls, Call(c)
  PROVE  Inv'
<1> USE DEF Inv
<1>1. /\ status[c] = "new"
      /\ UNCHANGED <<outcome, answer, idOf, cbs, lastId, timers, draining, destroyed,
                     connected, connTimer, listening, completing, duplicated, threw,
                     out, finished>>
  BY DEF Call, registryVars, transportVars
<1>2. CASE EmitsNow
  <2> DEFINE t == Tick("start", c)
  <2>1. /\ status' = [status EXCEPT ![c] = "starting"]
        /\ pending' = pending + 1 /\ ticks' = Append(ticks, t) /\ ready' = ready
    BY <1>2 DEF Call
  <2>2. t \in Tasks /\ ticks' \in Seq(Tasks) /\ Members(ticks') = Members(ticks) \cup {t}
    BY <2>1, TickTypes, AppendMembers DEF TypeOK
  <2>3. TypeOK'
    BY <1>1, <2>1, <2>2 DEF TypeOK, Statuses
  <2>4. PendingExact'
    <3>1. InFlight' = InFlight \cup {c} /\ c \notin InFlight
      BY <1>1, <2>1 DEF InFlight, TypeOK
    <3>2. QED
      BY <2>1, <3>1, FlightFinite, FS_AddElement DEF PendingExact
  <2>5. TicksFit'
    <3>1. t.task = "start" /\ t.call = c
      BY DEF Tick, Task
    <3>2. \A u \in Members(ticks) : ~Twins(u, t)
      BY <1>1, <3>1 DEF TicksFit, TickFits, Twins
    <3>3. NoTwins(ticks')
      BY <2>1, <2>2, <3>2, AppendTick DEF TicksFit, TypeOK
    <3>4. \A u \in Members(ticks) : TickFits(u, status')
      BY <1>1, <2>1 DEF TicksFit, TickFits, TypeOK
    <3>5. TickFits(t, status')
      BY <2>1, <3>1 DEF TickFits, TypeOK
    <3>6. QED
      BY <2>2, <3>3, <3>4, <3>5 DEF TicksFit
  <2>6. RegistryFits' /\ TimersFit' /\ ReadyFits' /\ OutcomesFit'
    BY <1>1, <2>1 DEF RegistryFits, TimersFit, ReadyFits, OutcomesFit, TypeOK, Members
  <2>7. Unconnected' /\ RequestsAfterHandshake'
    BY <1>1, <1>2 DEF Unconnected, RequestsAfterHandshake, EmitsNow
  <2>8. QED
    BY <2>3, <2>4, <2>5, <2>6, <2>7
<1>3. CASE ~EmitsNow
  <2>1. /\ status' = [status EXCEPT ![c] = "queued"]
        /\ ready' = Append(ready, c) /\ UNCHANGED <<pending, ticks>>
    BY <1>3 DEF Call
  <2>2. ready' \in Seq(Calls) /\ Members(ready') = Members(ready) \cup {c}
    BY <2>1, AppendMembers DEF TypeOK
  <2>3. TypeOK'
    BY <1>1, <2>1, <2>2 DEF TypeOK, Statuses
  <2>4. PendingExact'
    <3>1. InFlight' = InFlight
      BY <1>1, <2>1 DEF InFlight, TypeOK
    <3>2. QED
      BY <2>1, <3>1 DEF PendingExact
  <2>5. TicksFit'
    BY <1>1, <2>1 DEF TicksFit, TickFits, TypeOK
  <2>6. ReadyFits'
    <3>1. \A d \in Members(ready) : d \in Calls /\ status[d] = "queued" /\ d # c
      BY <1>1 DEF ReadyFits, Members, TypeOK
    <3>2. /\ ready \in Seq(Calls) /\ Distinct(ready) /\ Len(ready) \in Nat
          /\ Len(ready') = Len(ready) + 1
          /\ \A i \in 1..Len(ready) : ready'[i] = ready[i] /\ ready[i] # c
          /\ ready'[Len(ready) + 1] = c
      BY <2>1, <3>1 DEF ReadyFits, TypeOK, Members
    <3>3. Distinct(ready')
      BY <3>2 DEF Distinct
    <3>4. QED
      BY <2>1, <2>2, <3>1, <3>3 DEF ReadyFits, TypeOK
  <2>7. RegistryFits' /\ TimersFit' /\ OutcomesFit'
    BY <1>1, <2>1 DEF RegistryFits, TimersFit, OutcomesFit, TypeOK
  <2>8. Unconnected' /\ RequestsAfterHandshake'
    BY <1>1, <2>1 DEF Unconnected, RequestsAfterHandshake
  <2>9. QED
    BY <2>3, <2>4, <2>5, <2>6, <2>7, <2>8
<1>4. QED
  BY <1>2, <1>3

\* Every queued call starts: what the handshake does, or the end of the channel.
LEMMA QueuedCallsStart ==
  ASSUME Inv, NEW q, q = ticks \o TicksFor("start", ready),
         status' = [c \in Calls |-> IF c \in Members(ready) THEN "starting" ELSE status[c]],
         pending' = pending + Len(ready), ready' = <<>>,
         UNCHANGED <<outcome, idOf, cbs, timers>>
  PROVE  /\ q \in Seq(Tasks) /\ NoTwins(q)
         /\ \A u \in Members(q) : TickFits(u, status')
         /\ status' \in [Calls -> Statuses] /\ pending' \in Nat
         /\ PendingExact' /\ RegistryFits' /\ TimersFit' /\ ReadyFits' /\ OutcomesFit'
<1> USE DEF Inv
<1> DEFINE R == TicksFor("start", ready)
<1>1. /\ ready \in Seq(Calls) /\ Distinct(ready) /\ Members(ready) \subseteq Calls
      /\ \A c \in Members(ready) : status[c] = "queued"
  BY DEF TypeOK, ReadyFits, Members
<1>2. R \in Seq(Tasks) /\ NoTwins(R) /\ Members(R) = {Tick("start", c) : c \in Members(ready)}
  BY <1>1, TicksForCalls
<1> HIDE DEF R
<1>3. \A u \in Members(R) : u.task = "start" /\ u.call \in Members(ready)
  BY <1>2 DEF Tick, Task
<1>4. NoTwins(ticks) /\ ticks \in Seq(Tasks) /\ \A u \in Members(ticks) : TickFits(u, status)
  BY DEF TicksFit, TypeOK
<1>5. q \in Seq(Tasks) /\ Members(q) = Members(ticks) \cup Members(R)
  BY <1>2, <1>4, ConcatMembers DEF R
<1>6. NoTwins(q)
  <2>1. \A u \in Members(ticks), v \in Members(R) : ~Twins(u, v)
    BY <1>1, <1>3, <1>4 DEF Twins, TickFits
  <2>2. QED
    BY <1>2, <1>4, <2>1, ConcatTicks DEF R
<1>7. \A u \in Members(q) : TickFits(u, status')
  BY <1>1, <1>3, <1>4, <1>5 DEF TickFits, TypeOK
<1>8. PendingExact'
  <2>1. InFlight' = InFlight \cup Members(ready)
    BY <1>1 DEF InFlight, TypeOK
  <2>2. InFlight \cap Members(ready) = {}
    BY <1>1 DEF InFlight
  <2>3. IsFiniteSet(Members(ready)) /\ Cardinality(Members(ready)) = Len(ready)
    BY <1>1, DistinctCount
  <2>4. Cardinality(InFlight \cup Members(ready))
          = Cardinality(InFlight) + Cardinality(Members(ready))
    BY <2>2, <2>3, FlightFinite, DisjointUnion
  <2>5. QED
    BY <2>1, <2>3, <2>4 DEF PendingExact
<1>9. RegistryFits' /\ TimersFit' /\ OutcomesFit'
  BY <1>1 DEF RegistryFits, TimersFit, OutcomesFit, TypeOK
<1>10. ReadyFits'
  BY DEF ReadyFits, Distinct, Members
<1>11. status' \in [Calls -> Statuses] /\ pending' \in Nat
  BY <1>1, LenProperties DEF TypeOK, Statuses
<1>12. QED
  BY <1>5, <1>6, <1>7, <1>8, <1>9, <1>10, <1>11

\* A handshake retry is queued.
LEMMA AppendRetry ==
  ASSUME NEW q \in Seq(Tasks), NoTwins(q), NEW st, \A u \in Members(q) : TickFits(u, st)
  PROVE  LET r == Append(q, Tick("retry", NoCall))
         IN  r \in Seq(Tasks) /\ NoTwins(r) /\ \A u \in Members(r) : TickFits(u, st)
<1> DEFINE t == Tick("retry", NoCall)
<1>1. t \in Tasks /\ t.task = "retry"
  BY TickTypes DEF Tick, Task
<1>2. Append(q, t) \in Seq(Tasks) /\ Members(Append(q, t)) = Members(q) \cup {t}
  BY <1>1, AppendMembers
<1>3. \A u \in Members(q) : ~Twins(u, t)
  BY <1>1 DEF Twins
<1>4. NoTwins(Append(q, t))
  BY <1>1, <1>3, AppendTick
<1>5. TickFits(t, st)
  BY <1>1 DEF TickFits
<1>6. QED
  BY <1>2, <1>4, <1>5

LEMMA OnPingStep ==
  ASSUME Inv, NEW match, OnPing(match)
  PROVE  Inv'
<1>1. UNCHANGED <<completing, threw, out, finished>>
  BY DEF OnPing, transportVars
<1>2. CASE ticks' = Append(ticks, Tick("retry", NoCall))
           /\ UNCHANGED <<callVars, registryVars, channelVars, duplicated>>
  <2>1. ticks' \in Seq(Tasks) /\ NoTwins(ticks') /\ \A u \in Members(ticks') : TickFits(u, status)
    BY <1>2, AppendRetry DEF Inv, TypeOK, TicksFit
  <2>2. UNCHANGED <<status, outcome, answer, idOf, cbs, lastId, timers, ready, pending, draining,
                    destroyed, connected, connTimer, listening, duplicated>>
    BY <1>2 DEF callVars, registryVars, channelVars
  <2>3. TypeOK' /\ TicksFit'
    BY <1>1, <2>1, <2>2 DEF Inv, TypeOK, TicksFit
  <2>4. QED
    BY <1>1, <2>2, <2>3 DEF Inv, PendingExact, InFlight, RegistryFits, TimersFit, ReadyFits,
                            OutcomesFit, Unconnected, RequestsAfterHandshake
<1>3. CASE /\ connTimer' = FALSE /\ listening' = "message" /\ connected' = TRUE
           /\ pending' = pending + Len(ready) /\ ready' = <<>>
           /\ ticks' = ticks \o TicksFor("start", ready)
           /\ status' = [c \in Calls |-> IF c \in Members(ready) THEN "starting" ELSE status[c]]
           /\ UNCHANGED <<outcome, answer, registryVars, draining, destroyed, duplicated>>
  <2>1. UNCHANGED <<idOf, cbs, lastId, timers>>
    BY <1>3 DEF registryVars
  <2>2. /\ ticks' \in Seq(Tasks) /\ NoTwins(ticks')
        /\ \A u \in Members(ticks') : TickFits(u, status')
        /\ status' \in [Calls -> Statuses] /\ pending' \in Nat
        /\ PendingExact' /\ RegistryFits' /\ TimersFit' /\ ReadyFits' /\ OutcomesFit'
    BY <1>3, <2>1, QueuedCallsStart
  <2>3. TicksFit'
    BY <2>2 DEF TicksFit
  <2>4. /\ connTimer' = FALSE /\ listening' = "message" /\ connected' = TRUE
        /\ UNCHANGED <<outcome, answer, draining, destroyed, duplicated>>
        /\ ready' \in Seq(Calls)
    BY <1>3, EmptySeq
  <2>5. TypeOK'
    BY <1>1, <2>1, <2>2, <2>4 DEF Inv, TypeOK
  <2>6. Unconnected' /\ RequestsAfterHandshake'
    BY <2>4 DEF Unconnected, RequestsAfterHandshake
  <2>7. QED
    BY <2>2, <2>3, <2>5, <2>6 DEF Inv
<1>4. CASE Destroy(TRUE) /\ UNCHANGED connected
  BY <1>1, <1>4, DestroyStep DEF Inv, TypeOK
<1>5. QED
  BY <1>2, <1>3, <1>4 DEF OnPing

LEMMA OnPingDestroyedStep ==
  ASSUME Inv, NEW match, OnPingDestroyed(match)
  PROVE  Inv'
<1> DEFINE q == ticks \o TicksFor("start", ready)
<1>1. /\ draining' = TRUE /\ destroyed' = TRUE /\ connTimer' = FALSE
      /\ pending' = pending + Len(ready) /\ ready' = <<>>
      /\ status' = [c \in Calls |-> IF c \in Members(ready) THEN "starting" ELSE status[c]]
      /\ UNCHANGED <<outcome, answer, idOf, cbs, lastId, timers, completing, duplicated, threw,
                     out, finished>>
      /\ \/ /\ listening' = "none" /\ ticks' = Append(q, Tick("retry", NoCall))
            /\ connected' = connected
         \/ /\ listening' = "message" /\ ticks' = q /\ connected' = TRUE
  BY DEF OnPingDestroyed, registryVars, transportVars
<1>2. /\ q \in Seq(Tasks) /\ NoTwins(q) /\ \A u \in Members(q) : TickFits(u, status')
      /\ status' \in [Calls -> Statuses] /\ pending' \in Nat
      /\ PendingExact' /\ RegistryFits' /\ TimersFit' /\ ReadyFits' /\ OutcomesFit'
  BY <1>1, QueuedCallsStart
<1> HIDE DEF q
<1>3. ticks' \in Seq(Tasks) /\ NoTwins(ticks') /\ \A u \in Members(ticks') : TickFits(u, status')
  BY <1>1, <1>2, AppendRetry
<1>4. TypeOK' /\ TicksFit'
  <2>1. /\ draining' = TRUE /\ destroyed' = TRUE /\ connTimer' = FALSE /\ ready' \in Seq(Calls)
        /\ listening' \in {"none", "message"} /\ connected' \in BOOLEAN
        /\ UNCHANGED <<outcome, answer, idOf, cbs, lastId, timers, completing, duplicated, threw,
                       out, finished>>
    BY <1>1, EmptySeq DEF Inv, TypeOK
  <2>2. TypeOK'
    BY <1>2, <1>3, <2>1 DEF Inv, TypeOK
  <2>3. QED
    BY <1>3, <2>2 DEF TicksFit
<1>5. Unconnected' /\ RequestsAfterHandshake'
  BY <1>1 DEF Inv, Unconnected, RequestsAfterHandshake
<1>6. QED
  BY <1>2, <1>4, <1>5 DEF Inv

----------------------------------------------------------------------------
(* The ticks.                                                              *)

\* What the queue holds once its first tick has been taken.
LEMMA TakeTick ==
  ASSUME Inv, ticks # <<>>
  PROVE  /\ Head(ticks) \in Tasks /\ TickFits(Head(ticks), status)
         /\ Tail(ticks) \in Seq(Tasks) /\ NoTwins(Tail(ticks))
         /\ Members(Tail(ticks)) \subseteq Members(ticks)
         /\ \A u \in Members(Tail(ticks)) : TickFits(u, status) /\ ~Twins(u, Head(ticks))
<1>1. ticks \in Seq(Tasks) /\ NoTwins(ticks) /\ \A u \in Members(ticks) : TickFits(u, status)
  BY DEF Inv, TypeOK, TicksFit
<1>2. /\ Tail(ticks) \in Seq(Tasks) /\ Head(ticks) \in Tasks
      /\ Members(ticks) = {Head(ticks)} \cup Members(Tail(ticks))
  BY <1>1, TailMembers
<1>3. NoTwins(Tail(ticks)) /\ \A u \in Members(Tail(ticks)) : ~Twins(u, Head(ticks))
  BY <1>1, TailTicks
<1>4. QED
  BY <1>1, <1>2, <1>3

LEMMA RunPingStep ==
  ASSUME Inv, ticks # <<>>, RunPing(Head(ticks))
  PROVE  Inv'
<1>1. /\ ticks' = Tail(ticks)
      /\ UNCHANGED <<status, outcome, answer, idOf, cbs, lastId, timers, ready, pending, draining,
                     destroyed, connected, connTimer, listening, completing, duplicated, threw,
                     finished>>
  BY DEF RunPing, callVars, registryVars, channelVars
<1>2. /\ ticks' \in Seq(Tasks) /\ NoTwins(ticks') /\ \A u \in Members(ticks') : TickFits(u, status)
  BY <1>1, TakeTick
<1>3. /\ out' \in Seq(Messages)
      /\ Members(out') \subseteq Members(out) \cup {Handshake(full) : full \in BOOLEAN}
  <2>1. PICK full \in BOOLEAN : out' = out \/ out' = Append(out, Handshake(full))
    BY DEF RunPing, Write
  <2>2. Handshake(full) \in Messages /\ out \in Seq(Messages)
    BY MessageTypes DEF Inv, TypeOK
  <2>3. /\ Append(out, Handshake(full)) \in Seq(Messages)
        /\ Members(Append(out, Handshake(full))) = Members(out) \cup {Handshake(full)}
    BY <2>2, AppendMembers
  <2>4. QED
    BY <2>1, <2>2, <2>3
<1>4. TypeOK' /\ TicksFit'
  BY <1>1, <1>2, <1>3 DEF Inv, TypeOK, TicksFit
<1>5. RequestsAfterHandshake'
  <2>1. \A full : Handshake(full).type = "handshake"
    BY DEF Handshake
  <2>2. \A m \in Members(out) : m.type = "request" => connected
    BY DEF Inv, RequestsAfterHandshake, Members
  <2>3. \A i \in 1..Len(out') : out'[i] \in Members(out')
    BY DEF Members
  <2>4. QED
    BY <1>1, <1>3, <2>1, <2>2, <2>3 DEF RequestsAfterHandshake
<1>6. QED
  BY <1>1, <1>4, <1>5 DEF Inv, PendingExact, InFlight, RegistryFits, TimersFit, ReadyFits,
                          OutcomesFit, Unconnected

\* A call in flight makes the pending count positive.
LEMMA InFlightCounts ==
  ASSUME Inv, NEW c \in InFlight
  PROVE  pending > 0
<1>1. IsFiniteSet(InFlight) /\ Cardinality(InFlight) \in Nat
  BY FlightFinite
<1>2. Cardinality(InFlight) # 0
  BY <1>1, FS_EmptySet
<1>3. QED
  BY <1>1, <1>2 DEF Inv, PendingExact

LEMMA RunStartStep ==
  ASSUME Inv, ticks # <<>>, RunStart(Head(ticks))
  PROVE  Inv'
<1> DEFINE c == Head(ticks).call
           id == NextId
<1>1. c \in Calls /\ status[c] = "starting" /\ Head(ticks).task = "start"
  BY TakeTick DEF RunStart, TickFits
<1>2. \A u \in Members(Tail(ticks)) :
        /\ TickFits(u, status)
        /\ u.task = "start" => u.call # c
  BY <1>1, TakeTick DEF Twins
<1>3. \A u \in Members(Tail(ticks)) : u.task \notin {"ping", "retry"} => u.call # c
  <2>1. \A u \in Members(Tail(ticks)) :
          u.task \in {"ping", "retry", "start", "reply", "oneway", "settle"}
    <3>1. Members(Tail(ticks)) \subseteq Tasks
      BY TakeTick, MembersType
    <3>2. QED
      BY <3>1 DEF Tasks
  <2>2. QED
    BY <1>1, <1>2, <2>1 DEF TickFits
<1>4. UNCHANGED <<ready, pending, draining, destroyed, connected, connTimer, listening,
                  completing, threw, finished>>
  BY DEF RunStart, channelVars
<1>5. c \in InFlight
  BY <1>1 DEF InFlight
<1>6. CASE Unsendable(c)
  <2> DEFINE t == Tick("settle", c)
  <2>1. PICK kind \in Outcomes \ {"none"} :
          /\ status' = [status EXCEPT ![c] = "settled"]
          /\ outcome' = [outcome EXCEPT ![c] = kind]
          /\ answer' = [answer EXCEPT ![c] = NoCall]
          /\ ticks' = Append(Tail(ticks), t)
          /\ UNCHANGED <<duplicated, idOf, cbs, lastId, timers, out>>
    BY <1>1, <1>6 DEF RunStart, Settle, NotYetSettled, registryVars, Outcomes
  <2>2. /\ t \in Tasks /\ t.task = "settle" /\ t.call = c
        /\ ticks' \in Seq(Tasks) /\ Members(ticks') = Members(Tail(ticks)) \cup {t}
    <3>1. t \in Tasks /\ t.task = "settle" /\ t.call = c
      BY <1>1, TickTypes DEF Tick, Task
    <3> HIDE DEF t
    <3>2. Tail(ticks) \in Seq(Tasks)
      BY TakeTick
    <3>3. QED
      BY <2>1, <3>1, <3>2, AppendMembers
  <2>3. TypeOK'
    BY <1>1, <1>4, <2>1, <2>2 DEF Inv, TypeOK, Statuses
  <2>4. PendingExact'
    <3>1. InFlight' = InFlight
      BY <1>1, <2>1 DEF InFlight, Inv, TypeOK
    <3>2. QED
      BY <1>4, <3>1 DEF Inv, PendingExact
  <2>5. TicksFit'
    <3>1. \A u \in Members(Tail(ticks)) : ~Twins(u, t)
      BY <1>3, <2>2 DEF Twins
    <3>2. NoTwins(ticks')
      BY <2>1, <2>2, <3>1, TakeTick, AppendTick
    <3>3. \A u \in Members(Tail(ticks)) : TickFits(u, status')
      BY <1>1, <1>2, <1>3, <2>1 DEF TickFits, Inv, TypeOK
    <3>4. TickFits(t, status')
      BY <1>1, <2>1, <2>2 DEF TickFits, Inv, TypeOK
    <3>5. QED
      BY <2>2, <3>2, <3>3, <3>4 DEF TicksFit
  <2>6. RegistryFits' /\ TimersFit' /\ ReadyFits' /\ OutcomesFit'
    <3>1. Members(ready) \subseteq Calls
      BY DEF Inv, TypeOK, Members
    <3>2. QED
      BY <1>1, <1>4, <2>1, <3>1 DEF Inv, RegistryFits, TimersFit, ReadyFits, OutcomesFit, TypeOK
  <2>7. Unconnected' /\ RequestsAfterHandshake'
    BY <1>4, <2>1 DEF Inv, Unconnected, RequestsAfterHandshake
  <2>8. QED
    BY <2>3, <2>4, <2>5, <2>6, <2>7 DEF Inv
<1>7. CASE ~Unsendable(c)
  <2> DEFINE t == Tick("oneway", c)
             m == Request(c, id)
  <2>1. /\ status' = [status EXCEPT ![c] = "sent"]
        /\ lastId' = id
        /\ idOf' = [idOf EXCEPT ![c] = id]
        /\ cbs' = [cbs EXCEPT ![id] = c]
        /\ timers' \subseteq timers \cup {c}
        /\ out' = out \/ out' = Append(out, m)
        /\ ticks' = Tail(ticks) \/ ticks' = Append(Tail(ticks), t)
        /\ UNCHANGED <<outcome, answer, duplicated>>
    BY <1>7 DEF RunStart, Write
  <2>2. id \in Ids /\ m \in Messages
    <3>1. id \in Ids
      BY OptionsAssumption DEF Inv, TypeOK, NextId, Ids
    <3>2. QED
      BY <1>1, <3>1, MessageTypes
  <2>3. /\ t \in Tasks /\ t.task = "oneway" /\ t.call = c
        /\ ticks' \in Seq(Tasks) /\ Members(ticks') \subseteq Members(Tail(ticks)) \cup {t}
    <3>1. t \in Tasks /\ t.task = "oneway" /\ t.call = c
      BY <1>1, TickTypes DEF Tick, Task
    <3> HIDE DEF t
    <3>2. Tail(ticks) \in Seq(Tasks)
      BY TakeTick
    <3>3. /\ Append(Tail(ticks), t) \in Seq(Tasks)
          /\ Members(Append(Tail(ticks), t)) = Members(Tail(ticks)) \cup {t}
      <4> DEFINE q == Tail(ticks)
      <4>1. q \in Seq(Tasks)
        BY <3>2
      <4> HIDE DEF q
      <4>2. Append(q, t) \in Seq(Tasks) /\ Members(Append(q, t)) = Members(q) \cup {t}
        BY <3>1, <4>1, AppendMembers
      <4>3. QED
        BY <4>2 DEF q
    <3>4. CASE ticks' = Tail(ticks)
      BY <3>1, <3>2, <3>4
    <3>5. CASE ticks' = Append(Tail(ticks), t)
      BY <3>1, <3>3, <3>5
    <3>6. QED
      BY <2>1, <3>4, <3>5
  <2>4. out' \in Seq(Messages)
    <3>1. Append(out, m) \in Seq(Messages) /\ out \in Seq(Messages)
      BY <2>2, AppendMembers DEF Inv, TypeOK
    <3>2. QED
      BY <2>1, <3>1
  <2> HIDE DEF id, m, t
  <2>5. TypeOK'
    BY <1>1, <1>4, <2>1, <2>2, <2>3, <2>4 DEF Inv, TypeOK, Statuses
  <2>6. PendingExact'
    <3>1. InFlight' = InFlight
      BY <1>1, <2>1 DEF InFlight, Inv, TypeOK
    <3>2. QED
      BY <1>4, <3>1 DEF Inv, PendingExact
  <2>7. TicksFit'
    <3>1. \A u \in Members(Tail(ticks)) : ~Twins(u, t)
      BY <1>3, <2>3 DEF Twins
    <3>2. NoTwins(ticks')
      BY <2>1, <2>3, <3>1, TakeTick, AppendTick
    <3>3. \A u \in Members(Tail(ticks)) : TickFits(u, status')
      BY <1>1, <1>2, <1>3, <2>1 DEF TickFits, Inv, TypeOK
    <3>4. TickFits(t, status')
      BY <1>1, <2>1, <2>3 DEF TickFits, Inv, TypeOK
    <3>5. QED
      BY <2>3, <3>2, <3>3, <3>4 DEF TicksFit
  <2>8. RegistryFits'
    BY <1>1, <2>1, <2>2 DEF Inv, RegistryFits, TypeOK
  <2>9. TimersFit' /\ ReadyFits' /\ OutcomesFit'
    <3>1. Members(ready) \subseteq Calls
      BY DEF Inv, TypeOK, Members
    <3>2. QED
      BY <1>1, <1>4, <2>1, <3>1 DEF Inv, TimersFit, ReadyFits, OutcomesFit, TypeOK
  <2>10. Unconnected'
    BY <1>4 DEF Inv, Unconnected
  <2>11. RequestsAfterHandshake'
    <3>1. connected
      BY <1>5, <1>7, InFlightCounts DEF Inv, TypeOK, Unconnected, Unsendable
    <3>2. QED
      BY <1>4, <3>1 DEF RequestsAfterHandshake
  <2>12. QED
    BY <2>5, <2>6, <2>7, <2>8, <2>9, <2>10, <2>11 DEF Inv
<1>8. QED
  BY <1>6, <1>7

LEMMA RunReplyStep ==
  ASSUME Inv, ticks # <<>>, RunReply(Head(ticks))
  PROVE  Inv'
<1> DEFINE t == Head(ticks)
<1>1. t \in Tasks /\ t.task = "reply" /\ t.call \in Calls
      /\ status[t.call] \in {"sent", "settled", "done"}
  BY TakeTick DEF RunReply, TickFits
<1>2. t.of \in Calls \cup {NoCall} /\ Decoded(t.call, t.of) \in Outcomes \ {"none"}
  BY <1>1 DEF Tasks, Decoded, Outcomes
<1>3. /\ RunCallback(t.call, Decoded(t.call, t.of), t.of, Tail(ticks))
      /\ UNCHANGED <<idOf, lastId, channelVars, completing, transportVars, threw>>
  BY DEF RunReply
<1>4. threw' \in BOOLEAN
  BY <1>3 DEF Inv, TypeOK
<1>5. QED
  BY <1>1, <1>2, <1>3, <1>4, TakeTick, RunCallbackStep

LEMMA RunOneWayStep ==
  ASSUME Inv, ticks # <<>>, RunOneWay(Head(ticks))
  PROVE  Inv'
<1> DEFINE d == cbs[idOf[Head(ticks).call]]
<1>1. Head(ticks).call \in Calls /\ d \in Calls \cup {NoCall}
  BY TakeTick DEF RunOneWay, TickFits, Inv, TypeOK
<1>2. CASE d = NoCall
  <2>1. /\ ticks' = Tail(ticks) /\ threw' = TRUE
        /\ UNCHANGED <<status, outcome, answer, idOf, cbs, lastId, timers, ready, pending,
                       draining, destroyed, connected, connTimer, listening, completing,
                       duplicated, out, finished>>
    BY <1>2 DEF RunOneWay, callVars, channelVars, transportVars
  <2>2. /\ ticks' \in Seq(Tasks) /\ NoTwins(ticks')
        /\ \A u \in Members(ticks') : TickFits(u, status)
    BY <2>1, TakeTick
  <2>3. TypeOK' /\ TicksFit'
    BY <2>1, <2>2 DEF Inv, TypeOK, TicksFit
  <2>4. QED
    BY <2>1, <2>3 DEF Inv, PendingExact, InFlight, RegistryFits, TimersFit, ReadyFits,
                      OutcomesFit, Unconnected, RequestsAfterHandshake
<1>3. CASE d # NoCall
  <2>1. /\ RunCallback(d, Decoded(d, NoCall), NoCall, Tail(ticks))
        /\ UNCHANGED <<idOf, lastId, channelVars, completing, transportVars, threw>>
    BY <1>3 DEF RunOneWay
  <2>2. d \in Calls /\ status[d] = "sent"
    BY <1>1, <1>3 DEF Inv, TypeOK, RegistryFits
  <2>3. Decoded(d, NoCall) \in Outcomes \ {"none"} /\ threw' \in BOOLEAN
    BY <2>1 DEF Decoded, Outcomes, Inv, TypeOK
  <2>4. QED
    BY <2>1, <2>2, <2>3, TakeTick, RunCallbackStep
<1>4. QED
  BY <1>2, <1>3

LEMMA RunSettleStep ==
  ASSUME Inv, ticks # <<>>, RunSettle(Head(ticks))
  PROVE  Inv'
<1> DEFINE c == Head(ticks).call
<1>1. c \in Calls /\ status[c] = "settled" /\ Head(ticks).task = "settle"
  BY TakeTick DEF RunSettle, TickFits
<1>2. /\ pending' = pending - 1 /\ status' = [status EXCEPT ![c] = "done"]
      /\ completing' = c /\ ticks' = Tail(ticks)
      /\ UNCHANGED <<outcome, answer, idOf, cbs, lastId, timers, ready, draining, destroyed,
                     connected, connTimer, listening, duplicated, threw, out, finished>>
  BY DEF RunSettle, Left, registryVars, transportVars
<1>3. c \in InFlight
  BY <1>1 DEF InFlight
<1>4. pending > 0
  BY <1>3, InFlightCounts
<1>5. /\ ticks' \in Seq(Tasks) /\ NoTwins(ticks')
      /\ \A u \in Members(ticks') : TickFits(u, status) /\ ~Twins(u, Head(ticks))
  BY <1>2, TakeTick
<1>6. TypeOK'
  BY <1>1, <1>2, <1>4, <1>5 DEF Inv, TypeOK, Statuses
<1>7. PendingExact'
  <2>1. InFlight' = InFlight \ {c}
    BY <1>1, <1>2 DEF InFlight, Inv, TypeOK
  <2>2. QED
    BY <1>2, <1>3, <2>1, FlightFinite, FS_RemoveElement DEF Inv, PendingExact
<1>8. TicksFit'
  <2>1. ASSUME NEW u \in Members(ticks')
        PROVE  TickFits(u, status')
    <3>1. TickFits(u, status) /\ ~Twins(u, Head(ticks))
      BY <1>5
    <3>2. QED
      BY <1>1, <1>2, <3>1 DEF TickFits, Twins, Inv, TypeOK
  <2>2. QED
    BY <1>5, <2>1 DEF TicksFit
<1>9. RegistryFits' /\ TimersFit' /\ ReadyFits' /\ OutcomesFit'
  <2>1. Members(ready) \subseteq Calls
    BY DEF Inv, TypeOK, Members
  <2>2. QED
    BY <1>1, <1>2, <2>1 DEF Inv, RegistryFits, TimersFit, ReadyFits, OutcomesFit, TypeOK
<1>10. Unconnected' /\ RequestsAfterHandshake'
  BY <1>2, <1>4 DEF Inv, Unconnected, RequestsAfterHandshake
<1>11. QED
  BY <1>6, <1>7, <1>8, <1>9, <1>10 DEF Inv

LEMMA CallbackReturnsStep ==
  ASSUME Inv, CallbackReturns
  PROVE  Inv'
<1>1. completing' = NoCall /\ UNCHANGED <<connected, threw, out, finished>>
  BY DEF CallbackReturns, transportVars
<1>2. CASE DrainedOut
  BY <1>1, <1>2, DestroyStep DEF CallbackReturns, Inv, TypeOK
<1>3. CASE ~DrainedOut
  <2>1. UNCHANGED <<status, outcome, answer, idOf, cbs, lastId, timers, ready, pending, draining,
                    destroyed, connTimer, listening, ticks, duplicated>>
    BY <1>3 DEF CallbackReturns, callVars, registryVars
  <2>2. TypeOK'
    BY <1>1, <2>1 DEF Inv, TypeOK
  <2>3. QED
    BY <1>1, <2>1, <2>2 DEF Inv, PendingExact, InFlight, TicksFit, RegistryFits, TimersFit,
                            ReadyFits, OutcomesFit, Unconnected, RequestsAfterHandshake
<1>4. QED
  BY <1>2, <1>3

LEMMA RunTickStep ==
  ASSUME Inv, RunTick
  PROVE  Inv'
  BY RunPingStep, RunStartStep, RunReplyStep, RunOneWayStep, RunSettleStep DEF RunTick

----------------------------------------------------------------------------
(* Timers and the stream.                                                  *)

LEMMA CallTimesOutStep ==
  ASSUME Inv, NEW c \in Calls, CallTimesOut(c)
  PROVE  Inv'
<1>1. /\ UNCHANGED <<idOf, lastId, channelVars, completing, threw, transportVars>>
      /\ threw' \in BOOLEAN
      /\ ticks \in Seq(Tasks) /\ NoTwins(ticks)
      /\ status[c] \in {"sent", "settled", "done"}
  BY DEF CallTimesOut, Inv, TypeOK, TicksFit, TimersFit
<1>2. CASE AlreadyRun(c)
  <2>1. /\ timers' = timers \ {c}
        /\ UNCHANGED <<status, outcome, answer, cbs, ticks, duplicated, idOf, lastId, ready,
                       pending, draining, destroyed, connected, connTimer, listening,
                       completing, threw, out, finished>>
    BY <1>1, <1>2 DEF CallTimesOut, callVars, channelVars, transportVars
  <2>2. TypeOK'
    BY <2>1 DEF Inv, TypeOK
  <2>3. QED
    BY <2>1, <2>2 DEF Inv, PendingExact, InFlight, TicksFit, RegistryFits, TimersFit, ReadyFits,
                      OutcomesFit, Unconnected, RequestsAfterHandshake
<1>3. CASE ~AlreadyRun(c)
  <2>1. RunCallback(c, "timeout", NoCall, ticks)
    BY <1>3 DEF CallTimesOut
  <2>2. "timeout" \in Outcomes \ {"none"}
    BY DEF Outcomes
  <2>3. QED
    BY <1>1, <2>1, <2>2, RunCallbackStep
<1>4. QED
  BY <1>2, <1>3

LEMMA OnMessageStep ==
  ASSUME Inv, NEW id \in Ids, NEW d \in Calls \cup {NoCall}, OnMessage(id, d)
  PROVE  Inv'
<1> DEFINE t == Task("reply", cbs[id], d)
<1>1. /\ ticks' = Append(ticks, t) /\ cbs[id] # NoCall
      /\ UNCHANGED <<status, outcome, answer, idOf, cbs, lastId, timers, ready, pending, draining,
                     destroyed, connected, connTimer, listening, completing, duplicated, threw,
                     out, finished>>
  BY DEF OnMessage, callVars, registryVars, channelVars, transportVars
<1>2. cbs[id] \in Calls /\ status[cbs[id]] = "sent"
  BY <1>1 DEF Inv, TypeOK, RegistryFits
<1>3. t \in Tasks /\ t.task = "reply" /\ t.call = cbs[id]
  BY <1>2, TickTypes DEF Task
<1>4. ticks' \in Seq(Tasks) /\ Members(ticks') = Members(ticks) \cup {t}
  BY <1>1, <1>3, AppendMembers DEF Inv, TypeOK
<1>5. NoTwins(ticks')
  <2>1. \A u \in Members(ticks) : ~Twins(u, t)
    BY <1>3 DEF Twins
  <2>2. QED
    BY <1>1, <1>3, <2>1, AppendTick DEF Inv, TypeOK, TicksFit
<1>6. TickFits(t, status)
  BY <1>2, <1>3 DEF TickFits
<1>7. TypeOK' /\ TicksFit'
  BY <1>1, <1>4, <1>5, <1>6 DEF Inv, TypeOK, TicksFit
<1>8. QED
  BY <1>1, <1>7 DEF Inv, PendingExact, InFlight, RegistryFits, TimersFit, ReadyFits, OutcomesFit,
                    Unconnected, RequestsAfterHandshake

LEMMA TakeStep ==
  ASSUME Inv, Take
  PROVE  Inv'
<1>1. /\ out # <<>> /\ out' = Tail(out)
      /\ UNCHANGED <<status, outcome, answer, idOf, cbs, lastId, timers, ready, pending, draining,
                     destroyed, connected, connTimer, listening, ticks, completing, duplicated,
                     threw, finished>>
  BY DEF Take, callVars, registryVars, channelVars, loopVars
<1>2. out' \in Seq(Messages) /\ Members(out') \subseteq Members(out)
  BY <1>1, TailMembers DEF Inv, TypeOK
<1>3. TypeOK'
  BY <1>1, <1>2 DEF Inv, TypeOK
<1>4. RequestsAfterHandshake'
  <2>1. \A m \in Members(out) : m.type = "request" => connected
    BY DEF Inv, RequestsAfterHandshake, Members
  <2>2. \A i \in 1..Len(out') : out'[i] \in Members(out')
    BY DEF Members
  <2>3. QED
    BY <1>1, <1>2, <2>1, <2>2 DEF RequestsAfterHandshake
<1>5. QED
  BY <1>1, <1>3, <1>4 DEF Inv, PendingExact, InFlight, TicksFit, RegistryFits, TimersFit,
                          ReadyFits, OutcomesFit, Unconnected

----------------------------------------------------------------------------
(* The theorems.                                                           *)

LEMMA InitInv ==
  ASSUME Init
  PROVE  Inv
<1>1. \A t : Tick(t, NoCall).task = t
  BY DEF Tick, Task
<1>2. \A q : q = <<>> \/ (\E t \in Tasks : q = <<t>>) => NoTwins(q)
  BY DEF NoTwins
<1>3. ticks \in Seq(Tasks) /\ NoTwins(ticks) /\ \A u \in Members(ticks) : u.task = "ping"
  BY <1>1, <1>2, TickTypes DEF Init, Members
<1>4. TypeOK
  <2>1. 0 \in Ids
    BY OptionsAssumption DEF Ids
  <2>2. /\ <<>> \in Seq(Calls) /\ <<>> \in Seq(Messages) /\ timers \subseteq Calls
        /\ connected \in BOOLEAN /\ connTimer \in BOOLEAN
        /\ listening \in {"ping", "message", "none"}
    BY OptionsAssumption DEF Init
  <2>3. QED
    BY <1>3, <2>1, <2>2 DEF Init, TypeOK, Statuses, Outcomes
<1>5. PendingExact
  BY FS_EmptySet DEF Init, PendingExact, InFlight
<1>6. TicksFit
  BY <1>3 DEF TicksFit, TickFits
<1>7. QED
  BY <1>4, <1>5, <1>6 DEF Init, Inv, RegistryFits, TimersFit, ReadyFits, Distinct, Members,
                          OutcomesFit, Unconnected, RequestsAfterHandshake

LEMMA NextInv ==
  ASSUME Inv, [Next]_vars
  PROVE  Inv'
<1>1. CASE UNCHANGED vars
  BY <1>1 DEF vars, callVars, registryVars, channelVars, loopVars, transportVars, Inv, TypeOK,
              PendingExact, InFlight, TicksFit, RegistryFits, TimersFit, ReadyFits, OutcomesFit,
              Unconnected, RequestsAfterHandshake
<1>2. ASSUME NEW noWait \in BOOLEAN, UserDestroys(noWait)
      PROVE  Inv'
  BY <1>2, DestroyStep DEF UserDestroys, transportVars, Inv, TypeOK
<1>3. CASE ConnectTimesOut
  BY <1>3, DestroyStep DEF ConnectTimesOut, transportVars, Inv, TypeOK
<1>4. CASE OnEnd
  BY <1>4, DestroyStep DEF OnEnd, transportVars, Inv, TypeOK
<1>5. CASE OnFinish
  BY <1>5, DestroyStep DEF OnFinish, Inv, TypeOK
<1>6. CASE User
  BY <1>2, <1>6, CallStep DEF User
<1>7. CASE Timer
  BY <1>3, <1>7, CallTimesOutStep DEF Timer
<1>8. CASE Peer
  BY <1>4, <1>5, <1>8, OnPingStep, OnPingDestroyedStep, OnMessageStep, TakeStep DEF Peer
<1>9. QED
  BY <1>1, <1>6, <1>7, <1>8, RunTickStep, CallbackReturnsStep DEF Next

THEOREM InvHolds == Spec => []Inv
<1>1. Init => Inv
  BY InitInv
<1>2. Inv /\ [Next]_vars => Inv'
  BY NextInv
<1>3. QED
  BY <1>1, <1>2, PTL DEF Spec

\* Whatever the peer and the user do, the state of the channel keeps its type;
\* in particular the pending count never falls below zero.
THEOREM TypeCorrect == Spec => []TypeOK
<1>1. Inv => TypeOK
  BY DEF Inv
<1>2. QED
  BY <1>1, InvHolds, PTL

\* The pending count is the number of calls in flight, for every number of calls
\* and of message ids, ids given out twice included.
THEOREM PendingIsExact == Spec => []PendingExact
<1>1. Inv => PendingExact
  BY DEF Inv
<1>2. QED
  BY <1>1, InvHolds, PTL

\* No request is on the wire of a channel that is not connected.
THEOREM HandshakeComesFirst == Spec => []RequestsAfterHandshake
<1>1. Inv => RequestsAfterHandshake
  BY DEF Inv
<1>2. QED
  BY <1>1, InvHolds, PTL

----------------------------------------------------------------------------
(* What a step never does.                                                 *)

KeepsOutcomes ==
  \A c \in Calls : outcome[c] # "none" => outcome'[c] = outcome[c] /\ answer'[c] = answer[c]

\* A call whose outcome is known is settled, and the chain does not go on again.
LEMMA SettleKeepsOutcomes ==
  ASSUME Inv, NEW c \in Calls, NEW kind, NEW d, NEW rest, Settle(c, kind, d, rest)
  PROVE  KeepsOutcomes
<1>1. CASE NotYetSettled(c)
  BY <1>1 DEF Settle, NotYetSettled, KeepsOutcomes, Inv, TypeOK, OutcomesFit
<1>2. CASE ~NotYetSettled(c)
  BY <1>2 DEF Settle, KeepsOutcomes, callVars
<1>3. QED
  BY <1>1, <1>2

LEMMA RunCallbackKeepsOutcomes ==
  ASSUME Inv, NEW c \in Calls, NEW kind, NEW d, NEW rest, RunCallback(c, kind, d, rest)
  PROVE  KeepsOutcomes
<1>1. CASE AlreadyRun(c)
  BY <1>1 DEF RunCallback, KeepsOutcomes, callVars
<1>2. CASE ~AlreadyRun(c)
  BY <1>2, SettleKeepsOutcomes DEF RunCallback
<1>3. QED
  BY <1>1, <1>2

LEMMA DestroyKeepsOutcomes ==
  ASSUME Inv, NEW noWait, Destroy(noWait)
  PROVE  KeepsOutcomes
<1>1. \A c \in Interrupted(noWait) : c \in Calls /\ outcome[c] = "none"
  BY RegisteredSent DEF Interrupted, Inv, OutcomesFit
<1>2. /\ outcome' = [c \in Calls |-> IF c \in Interrupted(noWait) THEN "interrupted"
                                     ELSE outcome[c]]
      /\ answer' = answer
  BY DEF Destroy
<1>3. QED
  BY <1>1, <1>2 DEF KeepsOutcomes

\* A call has one outcome for ever, whatever races for it: for every number of
\* calls, and however often an id is given out again.
THEOREM OutcomesAreFinal == Spec => OutcomeFinal
<1>1. ASSUME Inv, Next
      PROVE  KeepsOutcomes
  <2>1. CASE RunTick
    <3>1. Head(ticks).task \notin {"ping", "retry"} => Head(ticks).call \in Calls
      BY <1>1, <2>1, TakeTick DEF RunTick, TickFits
    <3>2. CASE RunPing(Head(ticks)) \/ RunSettle(Head(ticks))
      BY <3>2 DEF RunPing, RunSettle, KeepsOutcomes, callVars
    <3>3. CASE RunStart(Head(ticks))
      BY <1>1, <3>1, <3>3, SettleKeepsOutcomes DEF RunStart, KeepsOutcomes
    <3>4. CASE RunReply(Head(ticks))
      BY <1>1, <3>1, <3>4, RunCallbackKeepsOutcomes DEF RunReply
    <3>5. CASE RunOneWay(Head(ticks))
      <4>1. cbs[idOf[Head(ticks).call]] \in Calls \cup {NoCall}
        BY <1>1, <3>1, <3>5 DEF RunOneWay, Inv, TypeOK
      <4>2. QED
        BY <1>1, <3>5, <4>1, RunCallbackKeepsOutcomes DEF RunOneWay, KeepsOutcomes, callVars
    <3>6. QED
      BY <2>1, <3>2, <3>3, <3>4, <3>5 DEF RunTick
  <2>2. CASE \E c \in Calls : CallTimesOut(c)
    BY <1>1, <2>2, RunCallbackKeepsOutcomes DEF CallTimesOut, KeepsOutcomes, callVars
  <2>3. CASE \E noWait : Destroy(noWait)
    BY <1>1, <2>3, DestroyKeepsOutcomes
  <2>4. CASE UNCHANGED <<outcome, answer>>
    BY <2>4 DEF KeepsOutcomes
  <2>5. QED
    BY <1>1, <2>1, <2>2, <2>3, <2>4
       DEF Next, User, Timer, Peer, Call, UserDestroys, CallbackReturns, ConnectTimesOut, OnPing,
           OnPingDestroyed, OnMessage, OnEnd, OnFinish, Take, callVars
<1>2. Inv /\ [Next]_vars => [KeepsOutcomes]_vars
  BY <1>1
<1>3. QED
  BY <1>2, InvHolds, PTL DEF Spec, OutcomeFinal, KeepsOutcomes

\* The channel writes nothing once it has ended its stream.
THEOREM SilentAfterEnd == Spec => NoWriteAfterEot
<1>1. ASSUME Inv, Next, destroyed
      PROVE  Len(out') <= Len(out)
  <2>1. Len(out) \in Nat
    BY <1>1, LenProperties DEF Inv, TypeOK
  <2>2. CASE Take
    BY <1>1, <2>2, HeadTailProperties DEF Take, Inv, TypeOK
  <2>3. CASE out' = out
    BY <2>1, <2>3
  <2>4. CASE RunTick
    <3>1. out' = out
      BY <1>1, <2>4 DEF RunTick, RunPing, RunStart, RunReply, RunOneWay, RunSettle, Unsendable,
                        transportVars
    <3>2. QED
      BY <2>1, <3>1
  <2>5. QED
    BY <1>1, <2>2, <2>3, <2>4
       DEF Next, User, Timer, Peer, Call, UserDestroys, CallbackReturns, ConnectTimesOut, OnPing,
           OnPingDestroyed, OnMessage, OnEnd, OnFinish, CallTimesOut, transportVars
<1>2. Inv /\ [Next]_vars => [destroyed => Len(out') <= Len(out)]_vars
  BY <1>1
<1>3. QED
  BY <1>2, InvHolds, PTL DEF Spec, NoWriteAfterEot

\* Requests are written between the handshake and the end of the stream only, whatever
\* ticks, retries and callbacks are still under way (WritesInTurn).
THEOREM WritesAreInTurn == Spec => WritesInTurn
BY HandshakeComesFirst, SilentAfterEnd, PTL DEF WritesInTurn, NoWriteAfterEot

----------------------------------------------------------------------------
(* Ids that do not come round.                                             *)

\* There is an id for every call that can be sent.  The registry gives an id out
\* without looking whether a call still holds it, so that what follows needs this.
IdsSuffice == Cardinality(Calls \ BadCalls) <= IdMask + 1

\* The calls that were given an id: those on the wire, and those that left it.
Given == {c \in Calls :
            \/ status[c] = "sent"
            \/ outcome[c] \in {"response", "sentOnly", "undecodable", "timeout", "interrupted"}}

IdsApart == \A c, d \in Given : idOf[c] = idOf[d] => c = d

\* The ids are given out in turn, until every call that can be sent has one.
IdsCounted ==
  /\ Given \subseteq Calls \ BadCalls
  /\ \/ lastId = Cardinality(Given) /\ \A c \in Given : idOf[c] \in 1..lastId
     \/ Cardinality(Given) = IdMask + 1

TicksGiven == \A t \in Members(ticks) : t.task \in {"reply", "oneway"} => t.call \in Given

TimersGiven == timers \subseteq Given

\* What has to do with ids.
IdsFit == IdsApart /\ IdsCounted /\ TicksGiven /\ TimersGiven

\* A call waits in the '_ready' queue for the handshake or the end, and for nothing else.
QueueKept ==
  /\ \A c \in Calls : status[c] = "queued" => c \in Members(ready)
  /\ connected \/ destroyed => ready = <<>>
  /\ destroyed => draining
  /\ listening = "ping" => ~connected /\ ~destroyed

SentInv == IdsFit /\ QueueKept /\ SentIsReachable /\ CallbackRunsOnce

\* A step that sends nothing.
LEMMA NothingGiven ==
  ASSUME IdsFit, Given' = Given, UNCHANGED <<idOf, lastId>>, timers' \subseteq timers,
         \A t \in Members(ticks') : t.task \in {"reply", "oneway"} => t.call \in Given
  PROVE  IdsFit'
<1>1. IdsApart'
  BY DEF IdsFit, IdsApart
<1>2. IdsCounted'
  BY DEF IdsFit, IdsCounted
<1>3. TicksGiven' /\ TimersGiven'
  BY DEF IdsFit, TicksGiven, TimersGiven
<1>4. QED
  BY <1>1, <1>2, <1>3 DEF IdsFit

\* A call that was given an id and whose callback is called is the one its id finds.
LEMMA FoundItself ==
  ASSUME Inv, SentInv, NEW c \in Given, ~AlreadyRun(c)
  PROVE  status[c] = "sent" /\ cbs[idOf[c]] = c
<1> DEFINE e == cbs[idOf[c]]
<1>1. c \in Calls /\ idOf[c] \in Ids
  BY DEF Given, Inv, TypeOK
<1>2. e # NoCall /\ e \in Calls
  BY <1>1 DEF AlreadyRun, Inv, TypeOK
<1>3. status[e] = "sent" /\ idOf[e] = idOf[c]
  BY <1>1, <1>2 DEF Inv, RegistryFits
<1>4. e \in Given
  BY <1>2, <1>3 DEF Given
<1>5. e = c
  BY <1>3, <1>4 DEF SentInv, IdsFit, IdsApart
<1>6. QED
  BY <1>3, <1>5

\* The outcomes of a call that was sent.
GivenOutcomes == {"response", "sentOnly", "undecodable", "timeout", "interrupted"}

\* The callback of a call that was sent finds the call waiting, or nothing to do.
LEMMA RunCallbackSent ==
  ASSUME Inv, SentInv, NEW c \in Given, NEW kind \in GivenOutcomes, NEW d, NEW rest,
         Members(rest) \subseteq Members(ticks), rest \in Seq(Tasks),
         RunCallback(c, kind, d, rest), UNCHANGED <<idOf, lastId, channelVars>>
  PROVE  SentInv'
<1>1. c \in Calls /\ UNCHANGED <<idOf, lastId, ready, draining, destroyed, connected, listening>>
  BY DEF Given, channelVars
<1>2. CASE AlreadyRun(c)
  <2>1. ticks' = rest /\ UNCHANGED <<status, outcome, cbs, timers, duplicated>>
    BY <1>2 DEF RunCallback, callVars
  <2>2. Given' = Given
    BY <2>1 DEF Given
  <2>3. IdsFit'
    BY <1>1, <2>1, <2>2, NothingGiven DEF SentInv, IdsFit, TicksGiven
  <2>4. QED
    BY <1>1, <2>1, <2>3 DEF SentInv, QueueKept, SentIsReachable, Registered, CallbackRunsOnce
<1>3. CASE ~AlreadyRun(c)
  <2>1. status[c] = "sent" /\ cbs[idOf[c]] = c
    BY <1>3, FoundItself
  <2>2. /\ status' = [status EXCEPT ![c] = "settled"]
        /\ outcome' = [outcome EXCEPT ![c] = kind]
        /\ ticks' = Append(rest, Tick("settle", c))
        /\ cbs' = [cbs EXCEPT ![idOf[c]] = NoCall]
        /\ timers' = timers \ {c}
        /\ duplicated' = duplicated
    BY <1>3, <2>1 DEF RunCallback, Settle, NotYetSettled
  <2>3. /\ status \in [Calls -> Statuses] /\ outcome \in [Calls -> Outcomes]
        /\ cbs \in [Ids -> Calls \cup {NoCall}] /\ idOf \in [Calls -> Ids]
    BY DEF Inv, TypeOK
  <2>4. Given' = Given
    BY <1>1, <2>1, <2>2, <2>3 DEF Given, GivenOutcomes
  <2>5. Members(ticks') = Members(rest) \cup {Tick("settle", c)}
    BY <1>1, <2>2, AppendMembers, TickTypes
  <2>6. IdsFit'
    BY <1>1, <2>2, <2>4, <2>5, NothingGiven DEF SentInv, IdsFit, TicksGiven, Tick, Task
  <2>7. QueueKept'
    BY <1>1, <2>2, <2>3 DEF SentInv, QueueKept
  <2>8. SentIsReachable'
    <3>1. ASSUME NEW e \in Calls, status'[e] = "sent"
          PROVE  cbs'[idOf'[e]] = e /\ (e \in timers' \/ e \in UntimedCalls)
      <4>1. e # c /\ status[e] = "sent"
        BY <1>1, <2>2, <2>3, <3>1
      <4>2. idOf[e] # idOf[c]
        BY <4>1 DEF Given, SentInv, IdsFit, IdsApart
      <4>3. cbs[idOf[e]] = e /\ (e \in timers \/ e \in UntimedCalls)
        BY <4>1 DEF SentInv, SentIsReachable
      <4>4. QED
        BY <1>1, <2>2, <2>3, <4>1, <4>2, <4>3
    <3>2. Registered' \subseteq Registered
      BY <2>2, <2>3 DEF Registered
    <3>3. \A e \in Calls : status'[e] \in {"queued", "sent"} => status[e] \in {"queued", "sent"}
      BY <1>1, <2>2, <2>3
    <3>4. QED
      BY <1>1, <3>1, <3>2, <3>3 DEF SentInv, SentIsReachable
  <2>9. QED
    BY <2>2, <2>6, <2>7, <2>8 DEF SentInv, CallbackRunsOnce
<1>4. QED
  BY <1>2, <1>3

\* Nobody waits on a channel without calls in flight.
LEMMA NothingPending ==
  ASSUME Inv, pending = 0
  PROVE  Registered = {} /\ \A c \in Calls : status[c] # "sent"
<1>1. \A c \in Calls : status[c] # "sent"
  BY InFlightCounts DEF InFlight
<1>2. QED
  BY <1>1, RegisteredSent

\* What destroy() does to the calls: some that were sent are interrupted, some that were
\* queued start, and nothing happens to the others.
LEMMA DestroyEffect ==
  ASSUME Inv, NEW noWait \in BOOLEAN, Destroy(noWait)
  PROVE  /\ \A t \in Members(ticks') : t \in Members(ticks) \/ t.task \in {"settle", "start"}
         /\ Given' = Given
         /\ \E S, R \in SUBSET Calls :
              /\ \A c \in S : status[c] = "sent"
              /\ \A c \in R : status[c] = "queued"
              /\ status' = [c \in Calls |-> IF c \in S THEN "settled"
                                            ELSE IF c \in R THEN "starting"
                                            ELSE status[c]]
              /\ outcome' = [c \in Calls |-> IF c \in S THEN "interrupted" ELSE outcome[c]]
              /\ UNCHANGED <<answer, idOf>>
<1> DEFINE interrupted == Interrupted(noWait)
           released == Released(noWait)
<1>1. PICK order \in ById(interrupted) :
        /\ status' = [c \in Calls |-> IF c \in interrupted THEN "settled"
                                      ELSE IF c \in Members(released) THEN "starting"
                                      ELSE status[c]]
        /\ outcome' = [c \in Calls |-> IF c \in interrupted THEN "interrupted"
                                       ELSE outcome[c]]
        /\ ticks' = ticks \o TicksFor("settle", order) \o TicksFor("start", released)
        /\ UNCHANGED <<answer, idOf>>
  BY DEF Destroy
<1>2. interrupted \in SUBSET Registered /\ \A c \in interrupted : c \in Calls /\ status[c] = "sent"
  BY RegisteredSent DEF Interrupted
<1>3. /\ released \in Seq(Calls) /\ Distinct(released)
      /\ \A c \in Members(released) : c \in Calls /\ status[c] = "queued"
  BY ReleasedCalls
<1>4. order \in Seq(Calls) /\ Distinct(order)
  BY <1>1, <1>2, OrderOfRegistered
<1> HIDE DEF interrupted, released
<1>5. \A t \in Members(ticks') : t \in Members(ticks) \/ t.task \in {"settle", "start"}
  <2> DEFINE S == TicksFor("settle", order)
             R == TicksFor("start", released)
  <2>1. /\ S \in Seq(Tasks) /\ Members(S) = {Tick("settle", c) : c \in Members(order)}
        /\ R \in Seq(Tasks) /\ Members(R) = {Tick("start", c) : c \in Members(released)}
    BY <1>3, <1>4, TicksForCalls
  <2>2. ticks \in Seq(Tasks) /\ ticks' = (ticks \o S) \o R
    BY <1>1 DEF Inv, TypeOK
  <2> HIDE DEF S, R
  <2>3. ticks \o S \in Seq(Tasks) /\ Members(ticks \o S) = Members(ticks) \cup Members(S)
    BY <2>1, <2>2, ConcatMembers
  <2> DEFINE Q == ticks \o S
  <2> HIDE DEF Q
  <2>4. Q \in Seq(Tasks)
    BY <2>3 DEF Q
  <2>5. Members(Q \o R) = Members(Q) \cup Members(R)
    BY <2>1, <2>4, ConcatMembers
  <2>6. QED
    BY <2>1, <2>2, <2>3, <2>5 DEF Q, Tick, Task
<1>6. Given' = Given
  BY <1>1, <1>2, <1>3 DEF Given, Inv, TypeOK, OutcomesFit
<1>7. interrupted \in SUBSET Calls /\ Members(released) \in SUBSET Calls
  BY <1>2, <1>3
<1>8. QED
  BY <1>1, <1>2, <1>3, <1>5, <1>6, <1>7

\* destroy() leaves nobody waiting, if it ends the channel.
LEMMA DestroySent ==
  ASSUME Inv, SentInv, NEW noWait \in BOOLEAN, Destroy(noWait), UNCHANGED connected
  PROVE  SentInv'
<1> DEFINE interrupted == Interrupted(noWait)
           released == Released(noWait)
<1>1. PICK order \in ById(interrupted) :
        /\ draining' = TRUE
        /\ destroyed' = (destroyed \/ Ends(noWait))
        /\ listening' = (IF Ends(noWait) THEN "none" ELSE listening)
        /\ cbs' = [i \in Ids |-> IF noWait THEN NoCall ELSE cbs[i]]
        /\ timers' = timers \ interrupted
        /\ status' = [c \in Calls |-> IF c \in interrupted THEN "settled"
                                      ELSE IF c \in Members(released) THEN "starting"
                                      ELSE status[c]]
        /\ outcome' = [c \in Calls |-> IF c \in interrupted THEN "interrupted"
                                       ELSE outcome[c]]
        /\ ready' = (IF released = <<>> THEN ready ELSE <<>>)
        /\ UNCHANGED <<idOf, lastId, duplicated>>
  BY DEF Destroy
<1>2. interrupted \in SUBSET Registered /\ \A c \in interrupted : c \in Calls /\ status[c] = "sent"
  BY RegisteredSent DEF Interrupted
<1>3. /\ released = ready \/ released = <<>>
      /\ released \in Seq(Calls) /\ Distinct(released)
      /\ \A c \in Members(released) : c \in Calls /\ status[c] = "queued"
  BY ReleasedCalls
<1>4. released = (IF Ends(noWait) /\ ~connected THEN ready ELSE <<>>)
  BY DEF Released
<1> HIDE DEF interrupted, released
<1>5. \A t \in Members(ticks') : t \in Members(ticks) \/ t.task \in {"settle", "start"}
  BY DestroyEffect
<1>6. Given' = Given
  BY DestroyEffect
<1>7. IdsFit'
  BY <1>1, <1>5, <1>6, NothingGiven DEF SentInv, IdsFit, TicksGiven
<1>8. Ends(noWait) => Registered' = {} /\ \A c \in Calls : status'[c] # "sent"
  <2>1. CASE noWait
    <3>1. \A c \in Calls : status[c] = "sent" => c \in interrupted
      <4>1. \A c \in Calls : status[c] = "sent" => cbs[idOf[c]] = c /\ idOf[c] \in Ids /\ c # NoCall
        BY CallsAssumption DEF SentInv, SentIsReachable, Inv, TypeOK
      <4>2. QED
        BY <2>1, <4>1 DEF interrupted, Interrupted, Registered
    <3>2. QED
      BY <1>1, <2>1, <3>1 DEF Registered
  <2>2. CASE ~noWait
    <3>1. Ends(noWait) => Registered = {} /\ \A c \in Calls : status[c] # "sent"
      BY <2>2, NothingPending DEF Ends
    <3>2. cbs' = cbs
      BY <1>1, <2>2 DEF Inv, TypeOK
    <3>3. QED
      BY <1>1, <3>1, <3>2 DEF Registered
  <2>3. QED
    BY <2>1, <2>2
<1>9. Ends(noWait) => ready' = <<>> /\ \A c \in Calls : status'[c] # "queued"
  <2>1. \A c \in Calls : status[c] = "queued" => c \in Members(ready)
    BY DEF SentInv, QueueKept
  <2>2. CASE connected
    <3>1. ready = <<>> /\ Members(ready) = {}
      BY <2>2 DEF SentInv, QueueKept, Members
    <3>2. QED
      BY <1>1, <2>1, <3>1
  <2>3. CASE ~connected
    BY <1>1, <1>4, <2>1, <2>3
  <2>4. QED
    BY <2>2, <2>3
<1>10. QueueKept'
  <2>1. ASSUME NEW c \in Calls, status'[c] = "queued"
        PROVE  c \in Members(ready')
    <3>1. status[c] = "queued" /\ c \notin Members(released)
      BY <1>1, <2>1
    <3>2. released = <<>>
      BY <1>3, <3>1 DEF SentInv, QueueKept
    <3>3. QED
      BY <1>1, <3>1, <3>2 DEF SentInv, QueueKept
  <2>2. connected' \/ destroyed' => ready' = <<>>
    BY <1>1, <1>9 DEF SentInv, QueueKept
  <2>3. QED
    BY <1>1, <2>1, <2>2 DEF SentInv, QueueKept
<1>11. SentIsReachable'
  <2>1. ASSUME NEW c \in Calls, status'[c] = "sent"
        PROVE  cbs'[idOf'[c]] = c /\ (c \in timers' \/ c \in UntimedCalls)
    <3>1. status[c] = "sent" /\ c \notin interrupted /\ idOf[c] \in Ids
      BY <1>1, <2>1 DEF Inv, TypeOK
    <3>2. cbs[idOf[c]] = c /\ (c \in timers \/ c \in UntimedCalls)
      BY <3>1 DEF SentInv, SentIsReachable
    <3>3. ~noWait
      BY <3>1, <3>2, CallsAssumption DEF interrupted, Interrupted, Registered
    <3>4. QED
      BY <1>1, <3>1, <3>2, <3>3
  <2>2. destroyed' => Registered' = {} /\ \A c \in Calls : status'[c] \notin {"queued", "sent"}
    <3>1. CASE Ends(noWait)
      BY <1>8, <1>9, <3>1
    <3>2. CASE ~Ends(noWait) /\ destroyed
      <4>1. Registered' \subseteq Registered
        BY <1>1 DEF Registered
      <4>2. \A c \in Calls : status'[c] \in {"queued", "sent"} => status[c] = status'[c]
        BY <1>1
      <4>3. QED
        BY <3>2, <4>1, <4>2 DEF SentInv, SentIsReachable
    <3>3. QED
      BY <1>1, <3>1, <3>2
  <2>3. QED
    BY <2>1, <2>2 DEF SentIsReachable
<1>12. QED
  BY <1>1, <1>7, <1>10, <1>11 DEF SentInv, CallbackRunsOnce

\* A step that changes nothing of a call that was sent, nor of the registry.
LEMMA QuietSent ==
  ASSUME Inv, SentInv, UNCHANGED <<outcome, idOf, lastId, cbs, timers, duplicated>>,
         \A c \in Calls : status'[c] = "sent" <=> status[c] = "sent",
         \A t \in Members(ticks') : t.task \in {"reply", "oneway"} => t.call \in Given,
         QueueKept', destroyed' => Registered = {} /\ \A c \in Calls : status'[c] \notin {"queued", "sent"}
  PROVE  SentInv'
<1>1. Given' = Given
  BY DEF Given
<1>2. IdsFit'
  BY <1>1, NothingGiven DEF SentInv
<1>3. SentIsReachable'
  BY DEF SentInv, SentIsReachable, Registered
<1>4. QED
  BY <1>2, <1>3 DEF SentInv, CallbackRunsOnce

LEMMA CallSent ==
  ASSUME Inv, SentInv, NEW c \in Calls, Call(c)
  PROVE  SentInv'
<1>1. /\ status[c] = "new"
      /\ UNCHANGED <<outcome, idOf, cbs, lastId, timers, draining, destroyed, connected, listening,
                     duplicated>>
  BY DEF Call, registryVars
<1>2. CASE EmitsNow
  <2>1. /\ status' = [status EXCEPT ![c] = "starting"] /\ ready' = ready
        /\ ticks' = Append(ticks, Tick("start", c))
    BY <1>2 DEF Call
  <2>2. Members(ticks') = Members(ticks) \cup {Tick("start", c)}
    BY <2>1, TickTypes, AppendMembers DEF Inv, TypeOK
  <2>3. \A t \in Members(ticks') : t.task \in {"reply", "oneway"} => t.call \in Given
    BY <2>2 DEF SentInv, IdsFit, TicksGiven, Tick, Task
  <2>4. \A d \in Calls : /\ status'[d] = "sent" <=> status[d] = "sent"
                         /\ status'[d] = "queued" => status[d] = "queued"
    BY <1>1, <2>1 DEF Inv, TypeOK
  <2>5. QueueKept'
    BY <1>1, <2>1, <2>4 DEF SentInv, QueueKept
  <2>6. QED
    BY <1>1, <2>3, <2>4, <2>5, QuietSent DEF SentInv, SentIsReachable
<1>3. CASE ~EmitsNow
  <2>1. /\ status' = [status EXCEPT ![c] = "queued"] /\ ready' = Append(ready, c) /\ ticks' = ticks
    BY <1>3 DEF Call
  <2>2. Members(ready') = Members(ready) \cup {c}
    BY <2>1, AppendMembers DEF Inv, TypeOK
  <2>3. ~connected /\ ~destroyed
    BY <1>3 DEF EmitsNow, SentInv, QueueKept
  <2>4. \A d \in Calls : /\ status'[d] = "sent" <=> status[d] = "sent"
                         /\ status'[d] = "queued" => status[d] = "queued" \/ d = c
    BY <1>1, <2>1 DEF Inv, TypeOK
  <2>5. QueueKept'
    BY <1>1, <2>2, <2>3, <2>4 DEF SentInv, QueueKept
  <2>6. QED
    BY <1>1, <2>1, <2>3, <2>4, <2>5, QuietSent DEF SentInv, IdsFit, TicksGiven
<1>4. QED
  BY <1>2, <1>3

\* The calls of the '_ready' queue start all together.
LEMMA ReadySent ==
  ASSUME Inv, SentInv,
         status' = [c \in Calls |-> IF c \in Members(ready) THEN "starting" ELSE status[c]],
         ready' = <<>>
  PROVE  /\ \A t \in Members(TicksFor("start", ready)) : t.task = "start"
         /\ TicksFor("start", ready) \in Seq(Tasks)
         /\ \A c \in Calls : (status'[c] = "sent" <=> status[c] = "sent") /\ status'[c] # "queued"
<1>1. ready \in Seq(Calls) /\ Distinct(ready) /\ \A c \in Members(ready) : status[c] = "queued"
  BY DEF Inv, TypeOK, ReadyFits
<1>2. /\ TicksFor("start", ready) \in Seq(Tasks)
      /\ Members(TicksFor("start", ready)) = {Tick("start", c) : c \in Members(ready)}
  BY <1>1, TicksForCalls
<1>3. QED
  BY <1>1, <1>2 DEF SentInv, QueueKept, Tick, Task

LEMMA OnPingSent ==
  ASSUME Inv, SentInv, NEW match, OnPing(match)
  PROVE  SentInv'
<1>1. ~connected /\ ~destroyed /\ UNCHANGED <<completing, threw>> /\ listening = "ping"
  BY DEF OnPing, SentInv, QueueKept
<1>2. CASE ticks' = Append(ticks, Tick("retry", NoCall))
           /\ UNCHANGED <<callVars, registryVars, channelVars, duplicated>>
  <2>1. UNCHANGED <<status, outcome, idOf, cbs, lastId, timers, ready, draining, destroyed,
                    connected, listening, duplicated>>
    BY <1>2 DEF callVars, registryVars, channelVars
  <2>2. Members(ticks') = Members(ticks) \cup {Tick("retry", NoCall)}
    BY <1>2, TickTypes, AppendMembers DEF Inv, TypeOK
  <2>3. \A t \in Members(ticks') : t.task \in {"reply", "oneway"} => t.call \in Given
    BY <2>2 DEF SentInv, IdsFit, TicksGiven, Tick, Task
  <2>4. QueueKept'
    BY <2>1 DEF SentInv, QueueKept
  <2>5. QED
    BY <1>1, <2>1, <2>3, <2>4, QuietSent
<1>3. CASE /\ listening' = "message" /\ connected' = TRUE /\ ready' = <<>>
           /\ ticks' = ticks \o TicksFor("start", ready)
           /\ status' = [c \in Calls |-> IF c \in Members(ready) THEN "starting" ELSE status[c]]
           /\ UNCHANGED <<outcome, registryVars, draining, destroyed, duplicated>>
  <2>1. /\ \A t \in Members(TicksFor("start", ready)) : t.task = "start"
        /\ TicksFor("start", ready) \in Seq(Tasks)
        /\ \A c \in Calls : (status'[c] = "sent" <=> status[c] = "sent") /\ status'[c] # "queued"
    BY <1>3, ReadySent
  <2>2. Members(ticks') = Members(ticks) \cup Members(TicksFor("start", ready))
    BY <1>3, <2>1, ConcatMembers DEF Inv, TypeOK
  <2>3. \A t \in Members(ticks') : t.task \in {"reply", "oneway"} => t.call \in Given
    BY <2>1, <2>2 DEF SentInv, IdsFit, TicksGiven
  <2>4. QueueKept'
    BY <1>1, <1>3, <2>1 DEF QueueKept
  <2>5. UNCHANGED <<idOf, cbs, lastId, timers, destroyed>>
    BY <1>3 DEF registryVars
  <2>6. QED
    BY <1>1, <1>3, <2>1, <2>3, <2>4, <2>5, QuietSent
<1>4. CASE Destroy(TRUE) /\ UNCHANGED connected
  BY <1>4, DestroySent
<1>5. QED
  BY <1>2, <1>3, <1>4 DEF OnPing

LEMMA OnPingDestroyedSent ==
  ASSUME Inv, SentInv, NEW match, OnPingDestroyed(match)
  PROVE  SentInv'
<1> DEFINE q == ticks \o TicksFor("start", ready)
<1>1. /\ draining' = TRUE /\ destroyed' = TRUE /\ ready' = <<>> /\ listening = "ping"
      /\ status' = [c \in Calls |-> IF c \in Members(ready) THEN "starting" ELSE status[c]]
      /\ UNCHANGED <<outcome, idOf, cbs, lastId, timers, duplicated>>
      /\ ticks' = Append(q, Tick("retry", NoCall)) \/ ticks' = q
      /\ listening' \in {"none", "message"}
  BY DEF OnPingDestroyed, registryVars
<1>2. ~connected /\ ~destroyed /\ pending = 0
  BY <1>1 DEF Inv, Unconnected, SentInv, QueueKept
<1>3. /\ \A t \in Members(TicksFor("start", ready)) : t.task = "start"
      /\ TicksFor("start", ready) \in Seq(Tasks)
      /\ \A c \in Calls : (status'[c] = "sent" <=> status[c] = "sent") /\ status'[c] # "queued"
  BY <1>1, ReadySent
<1>4. q \in Seq(Tasks) /\ Members(q) = Members(ticks) \cup Members(TicksFor("start", ready))
  BY <1>3, ConcatMembers DEF Inv, TypeOK
<1> HIDE DEF q
<1>5. Members(ticks') \subseteq Members(q) \cup {Tick("retry", NoCall)}
  <2>1. Members(Append(q, Tick("retry", NoCall))) = Members(q) \cup {Tick("retry", NoCall)}
    BY <1>4, TickTypes, AppendMembers
  <2>2. QED
    BY <1>1, <2>1
<1>6. \A t \in Members(ticks') : t.task \in {"reply", "oneway"} => t.call \in Given
  BY <1>3, <1>4, <1>5 DEF SentInv, IdsFit, TicksGiven, Tick, Task
<1>7. QueueKept'
  BY <1>1, <1>3 DEF QueueKept
<1>8. Registered = {} /\ \A c \in Calls : status[c] # "sent"
  BY <1>2, NothingPending
<1>9. QED
  BY <1>1, <1>3, <1>6, <1>7, <1>8, QuietSent

LEMMA RunPingSent ==
  ASSUME Inv, SentInv, ticks # <<>>, RunPing(Head(ticks))
  PROVE  SentInv'
<1>1. /\ ticks' = Tail(ticks)
      /\ UNCHANGED <<status, outcome, idOf, cbs, lastId, timers, ready, draining, destroyed,
                     connected, listening, duplicated>>
  BY DEF RunPing, callVars, registryVars, channelVars
<1>2. \A t \in Members(ticks') : t.task \in {"reply", "oneway"} => t.call \in Given
  BY <1>1, TakeTick DEF SentInv, IdsFit, TicksGiven
<1>3. QueueKept'
  BY <1>1 DEF SentInv, QueueKept
<1>4. QED
  BY <1>1, <1>2, <1>3, QuietSent DEF SentInv, SentIsReachable

\* As long as the ids suffice, the next one is nobody's.
LEMMA NextIdIsFree ==
  ASSUME IdsSuffice, Inv, SentInv, NEW c \in Calls \ BadCalls, c \notin Given
  PROVE  /\ NextId \in Ids
         /\ \A d \in Given : idOf[d] # NextId
         /\ Cardinality(Given \cup {c}) = Cardinality(Given) + 1
         /\ \/ NextId = Cardinality(Given) + 1 /\ \A d \in Given : idOf[d] \in 1..NextId
            \/ Cardinality(Given) + 1 = IdMask + 1
<1> DEFINE n == Cardinality(Given)
           sendable == Calls \ BadCalls
<1>1. Given \in SUBSET Calls /\ Given \cup {c} \in SUBSET sendable
  BY DEF Given, SentInv, IdsFit, IdsCounted
<1>2. IsFiniteSet(Given) /\ IsFiniteSet(sendable) /\ n \in Nat
  BY <1>1, CallsAssumption, FS_Subset, FS_CardinalityType
<1>3. Cardinality(Given \cup {c}) = n + 1
  BY <1>2, FS_AddElement
<1>4. Cardinality(Given \cup {c}) <= Cardinality(sendable) /\ Cardinality(sendable) \in Nat
  BY <1>1, <1>2, FS_Subset, FS_CardinalityType
<1> HIDE DEF n
<1>5. n <= IdMask /\ IdMask \in Nat
  BY <1>2, <1>3, <1>4, OptionsAssumption DEF IdsSuffice
<1>6. lastId = n /\ \A d \in Given : idOf[d] \in 1..n
  BY <1>2, <1>5 DEF SentInv, IdsFit, IdsCounted, n
<1>7. CASE n < IdMask
  <2>1. NextId = n + 1
    BY <1>2, <1>5, <1>6, <1>7 DEF NextId
  <2>2. QED
    BY <1>2, <1>3, <1>5, <1>6, <1>7, <2>1 DEF Ids, n
<1>8. CASE n = IdMask
  <2>1. (IdMask + 1) % (IdMask + 1) = 0
    BY <1>5
  <2>2. NextId = 0
    BY <1>6, <1>8, <2>1 DEF NextId
  <2>3. QED
    BY <1>2, <1>3, <1>5, <1>6, <1>8, <2>2 DEF Ids, n
<1>9. QED
  BY <1>2, <1>5, <1>7, <1>8

\* A request is sent: the call gets an id of its own.
LEMMA RunStartSent ==
  ASSUME IdsSuffice, Inv, SentInv, ticks # <<>>, RunStart(Head(ticks))
  PROVE  SentInv'
<1> DEFINE c == Head(ticks).call
           id == NextId
<1>1. c \in Calls /\ status[c] = "starting" /\ outcome[c] = "none"
  <2>1. c \in Calls /\ status[c] = "starting"
    BY TakeTick DEF RunStart, TickFits
  <2>2. QED
    BY <2>1 DEF Inv, OutcomesFit
<1>2. c \notin Given
  BY <1>1 DEF Given
<1>3. UNCHANGED <<ready, draining, destroyed, connected, listening>>
  BY DEF RunStart, channelVars
<1>4. Tail(ticks) \in Seq(Tasks) /\ Members(Tail(ticks)) \subseteq Members(ticks)
  BY TakeTick
<1>5. \A t \in Members(Tail(ticks)) : t.task \in {"reply", "oneway"} => t.call \in Given
  BY <1>4 DEF SentInv, IdsFit, TicksGiven
<1>6. /\ status \in [Calls -> Statuses] /\ outcome \in [Calls -> Outcomes]
      /\ cbs \in [Ids -> Calls \cup {NoCall}] /\ idOf \in [Calls -> Ids]
  BY DEF Inv, TypeOK
<1>7. CASE Unsendable(c)
  <2>1. PICK kind \in {"invalid", "destroyed"} :
          /\ status' = [status EXCEPT ![c] = "settled"]
          /\ outcome' = [outcome EXCEPT ![c] = kind]
          /\ ticks' = Append(Tail(ticks), Tick("settle", c))
          /\ UNCHANGED <<duplicated, idOf, cbs, lastId, timers>>
    BY <1>1, <1>7 DEF RunStart, Settle, NotYetSettled, registryVars
  <2>2. Given' = Given
    BY <1>1, <1>6, <2>1 DEF Given
  <2> HIDE DEF c
  <2>3. Members(ticks') = Members(Tail(ticks)) \cup {Tick("settle", c)}
    <3> DEFINE q == Tail(ticks)
               t == Tick("settle", c)
    <3>1. q \in Seq(Tasks) /\ t \in Tasks
      BY <1>1, <1>4, TickTypes
    <3> HIDE DEF q, t
    <3>2. Members(Append(q, t)) = Members(q) \cup {t}
      BY <3>1, AppendMembers
    <3>3. QED
      BY <2>1, <3>2 DEF q, t
  <2>4. \A t \in Members(ticks') : t.task \in {"reply", "oneway"} => t.call \in Given
    BY <1>5, <2>3 DEF Tick, Task
  <2>5. IdsFit'
    BY <2>1, <2>2, <2>4, NothingGiven DEF SentInv
  <2>6. \A d \in Calls : status'[d] \in {"sent", "queued"} => status[d] = status'[d]
    BY <1>1, <1>6, <2>1
  <2>7. QueueKept' /\ SentIsReachable'
    BY <1>3, <2>1, <2>6 DEF SentInv, QueueKept, SentIsReachable, Registered
  <2>8. QED
    BY <2>1, <2>5, <2>7 DEF SentInv, CallbackRunsOnce
<1>8. CASE ~Unsendable(c)
  <2>1. /\ status' = [status EXCEPT ![c] = "sent"]
        /\ lastId' = id
        /\ idOf' = [idOf EXCEPT ![c] = id]
        /\ cbs' = [cbs EXCEPT ![id] = c]
        /\ timers' = (IF Timed(c) THEN timers \cup {c} ELSE timers)
        /\ ticks' = Tail(ticks) \/ ticks' = Append(Tail(ticks), Tick("oneway", c))
        /\ UNCHANGED <<outcome, duplicated>>
    BY <1>8 DEF RunStart
  <2>2. ~destroyed /\ c \in Calls \ BadCalls
    BY <1>1, <1>8 DEF Unsendable
  <2>3. /\ id \in Ids
        /\ \A d \in Given : idOf[d] # id
        /\ Cardinality(Given \cup {c}) = Cardinality(Given) + 1
        /\ \/ id = Cardinality(Given) + 1 /\ \A d \in Given : idOf[d] \in 1..id
           \/ Cardinality(Given) + 1 = IdMask + 1
    BY <1>2, <2>2, NextIdIsFree
  <2> HIDE DEF c, id
  <2>4. Given' = Given \cup {c}
    BY <1>1, <1>6, <2>1 DEF Given
  <2>5. \A d \in Calls : idOf'[d] = IF d = c THEN id ELSE idOf[d]
    BY <1>1, <1>6, <2>1
  <2>6. Given \subseteq Calls \ BadCalls
    BY DEF SentInv, IdsFit, IdsCounted
  <2>7. IdsApart'
    <3>1. \A d \in Given : idOf'[d] = idOf[d]
      BY <1>2, <2>5, <2>6
    <3>2. idOf'[c] = id
      BY <1>1, <2>5
    <3>3. QED
      BY <2>3, <2>4, <3>1, <3>2 DEF SentInv, IdsFit, IdsApart
  <2>8. IdsCounted'
    <3>1. CASE id = Cardinality(Given) + 1 /\ \A d \in Given : idOf[d] \in 1..id
      <4>1. lastId' = Cardinality(Given') /\ id \in 1..id
        <5>1. Given \in SUBSET Calls
          BY <2>6
        <5>2. Cardinality(Given) \in Nat
          BY <5>1, CallsAssumption, FS_Subset, FS_CardinalityType
        <5>3. QED
          BY <2>1, <2>3, <2>4, <3>1, <5>2
      <4>2. \A d \in Given' : idOf'[d] \in 1..lastId'
        <5>1. \A d \in Given' : idOf'[d] = id \/ (d \in Given /\ idOf'[d] = idOf[d])
          BY <1>1, <2>4, <2>5, <2>6
        <5>2. QED
          BY <2>1, <3>1, <4>1, <5>1
      <4>3. QED
        BY <2>2, <2>4, <2>6, <4>1, <4>2 DEF IdsCounted
    <3>2. CASE Cardinality(Given) + 1 = IdMask + 1
      BY <2>2, <2>3, <2>4, <2>6, <3>2 DEF IdsCounted
    <3>3. QED
      BY <2>3, <3>1, <3>2
  <2>9. TicksGiven'
    <3>1. Members(Append(Tail(ticks), Tick("oneway", c)))
            = Members(Tail(ticks)) \cup {Tick("oneway", c)}
      <4> DEFINE q == Tail(ticks)
                 t == Tick("oneway", c)
      <4>1. q \in Seq(Tasks) /\ t \in Tasks
        BY <1>1, <1>4, TickTypes
      <4> HIDE DEF q, t
      <4>2. Members(Append(q, t)) = Members(q) \cup {t}
        BY <4>1, AppendMembers
      <4>3. QED
        BY <4>2 DEF q, t
    <3>2. Tick("oneway", c).call = c
      BY DEF Tick, Task
    <3>3. Members(ticks') \subseteq Members(Tail(ticks)) \cup {Tick("oneway", c)}
      BY <2>1, <3>1
    <3>4. QED
      BY <1>5, <2>4, <3>2, <3>3 DEF TicksGiven
  <2>10. TimersGiven'
    BY <2>1, <2>4 DEF SentInv, IdsFit, TimersGiven
  <2>11. QueueKept'
    BY <1>1, <1>3, <1>6, <2>1 DEF SentInv, QueueKept
  <2>12. SentIsReachable'
    <3>1. ASSUME NEW e \in Calls, status'[e] = "sent"
          PROVE  cbs'[idOf'[e]] = e /\ (e \in timers' \/ e \in UntimedCalls)
      <4>1. CASE e = c
        BY <1>1, <1>6, <2>1, <2>3, <4>1 DEF Timed
      <4>2. CASE e # c
        <5>1. status[e] = "sent"
          BY <1>1, <1>6, <2>1, <3>1, <4>2
        <5>2. e \in Given
          BY <5>1 DEF Given
        <5>3. cbs[idOf[e]] = e /\ (e \in timers \/ e \in UntimedCalls) /\ idOf[e] # id
          BY <2>3, <5>1, <5>2 DEF SentInv, SentIsReachable
        <5>4. QED
          BY <1>1, <1>6, <2>1, <2>3, <4>2, <5>3
      <4>3. QED
        BY <4>1, <4>2
    <3>2. ~destroyed'
      BY <1>3, <2>2
    <3>3. QED
      BY <3>1, <3>2 DEF SentIsReachable
  <2>13. QED
    BY <2>1, <2>7, <2>8, <2>9, <2>10, <2>11, <2>12 DEF SentInv, IdsFit, CallbackRunsOnce
<1>9. QED
  BY <1>7, <1>8

LEMMA RunReplySent ==
  ASSUME Inv, SentInv, ticks # <<>>, RunReply(Head(ticks))
  PROVE  SentInv'
<1> DEFINE t == Head(ticks)
<1>1. t \in Members(ticks) /\ t.task = "reply" /\ Tail(ticks) \in Seq(Tasks)
      /\ Members(Tail(ticks)) \subseteq Members(ticks)
  BY TakeTick, TailMembers DEF RunReply, Inv, TypeOK
<1>2. t.call \in Given /\ Decoded(t.call, t.of) \in GivenOutcomes
  BY <1>1 DEF SentInv, IdsFit, TicksGiven, Decoded, GivenOutcomes
<1>3. /\ RunCallback(t.call, Decoded(t.call, t.of), t.of, Tail(ticks))
      /\ UNCHANGED <<idOf, lastId, channelVars>>
  BY DEF RunReply
<1>4. QED
  BY <1>1, <1>2, <1>3, RunCallbackSent

LEMMA RunOneWaySent ==
  ASSUME Inv, SentInv, ticks # <<>>, RunOneWay(Head(ticks))
  PROVE  SentInv'
<1> DEFINE d == cbs[idOf[Head(ticks).call]]
<1>1. d \in Calls \cup {NoCall}
  BY TakeTick DEF RunOneWay, TickFits, Inv, TypeOK
<1>2. Tail(ticks) \in Seq(Tasks) /\ Members(Tail(ticks)) \subseteq Members(ticks)
  BY TakeTick
<1>3. CASE d = NoCall
  <2>1. /\ ticks' = Tail(ticks)
        /\ UNCHANGED <<status, outcome, idOf, cbs, lastId, timers, ready, draining, destroyed,
                       connected, listening, duplicated>>
    BY <1>3 DEF RunOneWay, callVars, channelVars
  <2>2. \A t \in Members(ticks') : t.task \in {"reply", "oneway"} => t.call \in Given
    BY <1>2, <2>1 DEF SentInv, IdsFit, TicksGiven
  <2>3. QueueKept'
    BY <2>1 DEF SentInv, QueueKept
  <2>4. QED
    BY <2>1, <2>2, <2>3, QuietSent DEF SentInv, SentIsReachable
<1>4. CASE d # NoCall
  <2>1. /\ RunCallback(d, Decoded(d, NoCall), NoCall, Tail(ticks))
        /\ UNCHANGED <<idOf, lastId, channelVars>>
    BY <1>4 DEF RunOneWay
  <2>2. d \in Given
    <3>1. idOf[Head(ticks).call] \in Ids
      BY TakeTick DEF RunOneWay, TickFits, Inv, TypeOK
    <3>2. status[d] = "sent"
      BY <1>4, <3>1 DEF Inv, RegistryFits
    <3>3. QED
      BY <1>1, <1>4, <3>2 DEF Given
  <2>3. Decoded(d, NoCall) \in GivenOutcomes
    BY DEF Decoded, GivenOutcomes
  <2>4. QED
    BY <1>2, <2>1, <2>2, <2>3, RunCallbackSent
<1>5. QED
  BY <1>3, <1>4

LEMMA RunSettleSent ==
  ASSUME Inv, SentInv, ticks # <<>>, RunSettle(Head(ticks))
  PROVE  SentInv'
<1> DEFINE c == Head(ticks).call
<1>1. c \in Calls /\ status[c] = "settled"
  BY TakeTick DEF RunSettle, TickFits
<1>2. /\ status' = [status EXCEPT ![c] = "done"] /\ ticks' = Tail(ticks)
      /\ UNCHANGED <<outcome, idOf, cbs, lastId, timers, ready, draining, destroyed, connected,
                     listening, duplicated>>
  BY DEF RunSettle, registryVars
<1>3. \A t \in Members(ticks') : t.task \in {"reply", "oneway"} => t.call \in Given
  BY <1>2, TakeTick DEF SentInv, IdsFit, TicksGiven
<1>4. \A d \in Calls : /\ status'[d] = "sent" <=> status[d] = "sent"
                       /\ status'[d] = "queued" <=> status[d] = "queued"
  BY <1>1, <1>2 DEF Inv, TypeOK
<1>5. QueueKept'
  BY <1>2, <1>4 DEF SentInv, QueueKept
<1>6. QED
  BY <1>2, <1>3, <1>4, <1>5, QuietSent DEF SentInv, SentIsReachable

LEMMA RunTickSent ==
  ASSUME IdsSuffice, Inv, SentInv, RunTick
  PROVE  SentInv'
  BY RunPingSent, RunStartSent, RunReplySent, RunOneWaySent, RunSettleSent DEF RunTick

\* A step that changes nothing a call waits for.
LEMMA IdleSent ==
  ASSUME Inv, SentInv, UNCHANGED <<status, outcome, idOf, lastId, cbs, timers, ready, draining,
                                   destroyed, connected, listening, ticks, duplicated>>
  PROVE  SentInv'
<1>1. QueueKept'
  BY DEF SentInv, QueueKept
<1>2. QED
  BY <1>1, QuietSent DEF SentInv, SentIsReachable, IdsFit, TicksGiven

LEMMA CallbackReturnsSent ==
  ASSUME Inv, SentInv, CallbackReturns
  PROVE  SentInv'
<1>1. CASE DrainedOut
  BY <1>1, DestroySent DEF CallbackReturns
<1>2. CASE ~DrainedOut
  BY <1>2, IdleSent DEF CallbackReturns, callVars, registryVars
<1>3. QED
  BY <1>1, <1>2

LEMMA CallTimesOutSent ==
  ASSUME Inv, SentInv, NEW c \in Calls, CallTimesOut(c)
  PROVE  SentInv'
<1>1. c \in Given /\ ticks = <<>> /\ ticks \in Seq(Tasks)
  BY DEF CallTimesOut, TimersMayFire, SentInv, IdsFit, TimersGiven, Inv, TypeOK
<1>2. UNCHANGED <<idOf, lastId, channelVars>>
  BY DEF CallTimesOut
<1>3. CASE AlreadyRun(c)
  <2>1. /\ timers' = timers \ {c}
        /\ UNCHANGED <<status, outcome, cbs, ticks, duplicated, idOf, lastId, ready, draining,
                       destroyed, connected, listening>>
    BY <1>2, <1>3 DEF CallTimesOut, callVars, channelVars
  <2>2. Given' = Given
    BY <2>1 DEF Given
  <2>3. IdsFit'
    BY <2>1, <2>2, NothingGiven DEF SentInv, IdsFit, TicksGiven
  <2>4. status[c] # "sent"
    BY <1>1, <1>3, CallsAssumption DEF AlreadyRun, SentInv, SentIsReachable, Given
  <2>5. QED
    BY <2>1, <2>3, <2>4 DEF SentInv, QueueKept, SentIsReachable, Registered, CallbackRunsOnce
<1>4. CASE ~AlreadyRun(c)
  BY <1>1, <1>2, <1>4, RunCallbackSent DEF CallTimesOut, GivenOutcomes
<1>5. QED
  BY <1>3, <1>4

LEMMA OnMessageSent ==
  ASSUME Inv, SentInv, NEW id \in Ids, NEW d \in Calls \cup {NoCall}, OnMessage(id, d)
  PROVE  SentInv'
<1> DEFINE t == Task("reply", cbs[id], d)
<1>1. /\ ticks' = Append(ticks, t) /\ cbs[id] # NoCall
      /\ UNCHANGED <<status, outcome, idOf, cbs, lastId, timers, ready, draining, destroyed,
                     connected, listening, duplicated>>
  BY DEF OnMessage, callVars, registryVars, channelVars
<1>2. cbs[id] \in Calls /\ status[cbs[id]] = "sent"
  BY <1>1 DEF Inv, TypeOK, RegistryFits
<1>3. Members(ticks') = Members(ticks) \cup {t}
  BY <1>1, <1>2, TickTypes, AppendMembers DEF Inv, TypeOK
<1>4. \A u \in Members(ticks') : u.task \in {"reply", "oneway"} => u.call \in Given
  BY <1>2, <1>3 DEF SentInv, IdsFit, TicksGiven, Task, Given
<1>5. QueueKept'
  BY <1>1 DEF SentInv, QueueKept
<1>6. QED
  BY <1>1, <1>4, <1>5, QuietSent DEF SentInv, SentIsReachable

LEMMA InitSent ==
  ASSUME Init
  PROVE  SentInv
<1>1. Given = {} /\ timers = {}
  BY DEF Init, Given
<1>2. \A t \in Members(ticks) : t.task = "ping"
  BY DEF Init, Members, Tick, Task
<1>3. IdsFit
  BY <1>1, <1>2, FS_EmptySet DEF Init, IdsFit, IdsApart, IdsCounted, TicksGiven, TimersGiven
<1>4. QueueKept /\ CallbackRunsOnce /\ SentIsReachable
  BY DEF Init, QueueKept, CallbackRunsOnce, SentIsReachable
<1>5. QED
  BY <1>3, <1>4 DEF SentInv

LEMMA NextSent ==
  ASSUME IdsSuffice, Inv, SentInv, [Next]_vars
  PROVE  SentInv'
<1>1. CASE UNCHANGED vars
  BY <1>1, IdleSent DEF vars, callVars, registryVars, channelVars, loopVars
<1>2. CASE Take
  BY <1>2, IdleSent DEF Take, callVars, registryVars, channelVars, loopVars
<1>3. CASE User
  BY <1>3, DestroySent, CallSent DEF User, UserDestroys
<1>4. CASE Timer
  BY <1>4, DestroySent, CallTimesOutSent DEF Timer, ConnectTimesOut
<1>5. CASE OnEnd \/ OnFinish
  BY <1>5, DestroySent DEF OnEnd, OnFinish
<1>6. CASE Peer
  BY <1>2, <1>5, <1>6, OnPingSent, OnPingDestroyedSent, OnMessageSent DEF Peer
<1>7. QED
  BY <1>1, <1>3, <1>4, <1>6, RunTickSent, CallbackReturnsSent DEF Next

LEMMA SentInvHolds ==
  ASSUME IdsSuffice
  PROVE  Spec => []SentInv
<1>1. Init => SentInv
  BY InitSent
<1>2. Inv /\ SentInv /\ [Next]_vars => SentInv'
  BY NextSent
<1>3. QED
  BY <1>1, <1>2, InvHolds, PTL DEF Spec

\* With an id for every call that can be sent, a request on the wire can always be
\* answered, and nobody waits on a channel that has ended (nextId and the registry's
\* callbacks; destroy and clear).
THEOREM SentCallsAreReachable ==
  ASSUME IdsSuffice
  PROVE  Spec => []SentIsReachable
<1>1. SentInv => SentIsReachable
  BY DEF SentInv
<1>2. QED
  BY <1>1, SentInvHolds, PTL

\* With an id for every call that can be sent, the function the registry holds for a call
\* runs once, whichever of its response, a second response, its timeout, its one-way tick
\* and the end of the channel come (the registry's look at the id before it runs).
THEOREM CallbacksRunOnce ==
  ASSUME IdsSuffice
  PROVE  Spec => []CallbackRunsOnce
<1>1. SentInv => CallbackRunsOnce
  BY DEF SentInv
<1>2. QED
  BY <1>1, SentInvHolds, PTL

=============================================================================
