---------------------------- MODULE ManagedWorker ----------------------------
(* Managed code (poc phase-5-managed-code): the manager puts roles and a registry   *)
(* on its drive and then serves it; a worker reads in the registry which roles are   *)
(* its own, pulls them and starts them; the client resolves one worker by name and   *)
(* calls a role there over the first connection it gets to it.  The drive, the       *)
(* swarm and the channels of a connection are external.                             *)
EXTENDS Naturals, Sequences, FiniteSets, SequencesExt

CONSTANTS
  Workers,      \* the names in assignments.json
  RoleFiles,    \* the files of ./roles, in the order they are put
  Assignments,  \* of every worker, the roles it is to run, in order
  Target,       \* the worker the client is to call
  Service,      \* the role it calls there
  Manager,      \* the manager as a peer
  Registry,     \* /registry.json
  MaxEnds,   \* bounds the processes that end
  MaxLosses,    \* bounds the connections of each peer that break
  NoLink        \* no connection, or no channel

ASSUME ManagedAssumption ==
  /\ Target \in Workers /\ Manager \notin Workers
  /\ RoleFiles \in Seq(ToSet(RoleFiles))
  /\ \A w \in Workers : Assignments[w] \in Seq(ToSet(RoleFiles))
  /\ {MaxEnds, MaxLosses} \subseteq Nat

Puts == Append(RoleFiles, Registry)
ClientPeers == {Manager, Target}

VARIABLES
  manager,   \* "down", "seeding" or "serving"
  seeded,   \* the files on the drive
  nextPut,      \* the file put nextPut
  worker,    \* where each worker is: "down", "finding", "pulling", "settled", "fatal"
  running,   \* the roles each worker has started
  client,    \* where the client is: "down", "finding", "targeting", "fatal"
  links,     \* the roles that accept a channel on the client's connection to a peer
  channel,   \* the channel the client calls over: the peer, and whether it is open
  replied,  \* a call of the client has been answered
  late,     \* history: the roles that started at the target after the connection came
  ended,   \* processes ended so far
  losses     \* connections of each peer broken so far

managedVars ==
  <<manager, seeded, nextPut, worker, running, client, links, channel, replied, late, ended, losses>>
peerVars == <<worker, running, client, links, channel, replied, late, ended, losses>>

ManagedInit ==
  /\ manager = "down" /\ seeded = {} /\ nextPut = 1
  /\ worker = [w \in Workers |-> "down"] /\ running = [w \in Workers |-> <<>>]
  /\ client = "down"
  /\ links = [p \in ClientPeers |-> NoLink] /\ channel = NoLink /\ replied = FALSE
  /\ late = {}
  /\ ended = 0 /\ losses = [p \in ClientPeers |-> 0]

ManagerStarts ==
  /\ manager = "down"
  /\ manager' = "seeding" /\ nextPut' = 1
  /\ UNCHANGED <<seeded, peerVars>>

\* Mutant: the manager joins before it has put the registry.
MutAfterSeed == IF nextPut >= Len(RoleFiles) THEN "serving" ELSE "seeding"

\* The manager joins the swarm when the last file is there.
AfterSeed == IF nextPut = Len(Puts) THEN "serving" ELSE "seeding"

SeedFile ==
  /\ manager = "seeding"
  /\ seeded' = seeded \union {Puts[nextPut]}
  /\ manager' = AfterSeed
  /\ nextPut' = IF nextPut = Len(Puts) THEN nextPut ELSE nextPut + 1
  /\ UNCHANGED peerVars

WorkerStarts(w) ==
  /\ worker[w] = "down"
  /\ worker' = [worker EXCEPT ![w] = "finding"]
  /\ UNCHANGED <<manager, seeded, nextPut, running, client, links, channel, replied, late, ended, losses>>

\* drive.update waits for the manager; the registry is read once.
SelfAssign(w) ==
  /\ worker[w] = "finding" /\ manager = "serving"
  /\ worker' = [worker EXCEPT ![w] =
       IF Registry \notin seeded THEN "fatal"
       ELSE IF Assignments[w] = <<>> THEN "settled" ELSE "pulling"]
  /\ UNCHANGED <<manager, seeded, nextPut, running, client, links, channel, replied, late, ended, losses>>

\* The client's connection to p is gone, and a channel on it.
Unlinked(p) ==
  /\ links' = [links EXCEPT ![p] = NoLink]
  /\ channel' = IF channel # NoLink /\ channel.peer = p THEN [channel EXCEPT !.open = FALSE] ELSE channel
  /\ late' = IF p = Target THEN {} ELSE late

\* The process of a worker is gone, and with it its roles and connections.
Gone(w, how) ==
  /\ worker' = [worker EXCEPT ![w] = how]
  /\ running' = [running EXCEPT ![w] = <<>>]
  /\ IF w = Target THEN Unlinked(w) ELSE UNCHANGED <<links, channel, late>>

\* One role is pulled and started; the get waits for the manager.
StartRole(w) ==
  LET role == Assignments[w][Len(running[w]) + 1]
  IN /\ worker[w] = "pulling" /\ manager = "serving"
     /\ \/ /\ role \notin seeded
           /\ Gone(w, "fatal")
        \/ /\ role \in seeded
           /\ running' = [running EXCEPT ![w] = Append(@, role)]
           /\ worker' = [worker EXCEPT ![w] =
                IF Len(running'[w]) = Len(Assignments[w]) THEN "settled" ELSE "pulling"]
           /\ late' = IF w = Target /\ links[Target] # NoLink THEN late \union {role} ELSE late
           /\ UNCHANGED <<links, channel>>
     /\ UNCHANGED <<manager, seeded, nextPut, client, replied, ended, losses>>

ClientStarts ==
  /\ client = "down"
  /\ client' = "finding"
  /\ UNCHANGED <<manager, seeded, nextPut, worker, running, links, channel, replied, late, ended, losses>>

\* The client knows the key of its target once it has read the registry.
Resolve ==
  /\ client = "finding" /\ links[Manager] # NoLink
  /\ client' = IF Registry \in seeded THEN "targeting" ELSE "fatal"
  /\ UNCHANGED <<manager, seeded, nextPut, worker, running, links, channel, replied, late, ended, losses>>

\* Mutant: the worker listens before it has a role to offer.
MutReachable(p) ==
  IF p = Manager THEN manager = "serving" ELSE worker[p] \in {"pulling", "settled"}

\* A peer that can be reached: the manager serves its drive, a worker listens since
\* its first role has joined the swarm.
Reachable(p) == IF p = Manager THEN manager = "serving" ELSE running[p] # <<>>

\* The client looks for the manager from the start, for its target once it is known.
Sought(p) == client = "targeting" \/ (client = "finding" /\ p = Manager)

\* Mutant: the first connection of all is the one that is called over.
MutChosen(p) == client = "targeting" /\ channel = NoLink

\* The first connection to the target is the one that is called over.
Chosen(p) == client = "targeting" /\ channel = NoLink /\ p = Target

\* A worker offers on a connection the roles that run when it arrives; a channel no
\* role accepts is closed.
Connect(p) ==
  LET roles == IF p = Manager THEN {} ELSE ToSet(running[p])
  IN /\ links[p] = NoLink /\ Sought(p) /\ Reachable(p)
     /\ links' = [links EXCEPT ![p] = roles]
     /\ channel' = IF Chosen(p) THEN [peer |-> p, open |-> Service \in roles] ELSE channel
     /\ UNCHANGED <<manager, seeded, nextPut, worker, running, client, replied, late, ended, losses>>

Lose(p) ==
  /\ links[p] # NoLink /\ losses[p] < MaxLosses
  /\ losses' = [losses EXCEPT ![p] = @ + 1]
  /\ Unlinked(p)
  /\ UNCHANGED <<manager, seeded, nextPut, worker, running, client, replied, ended>>

\* A call every three seconds; over a closed channel it is buffered for ever.
Call ==
  /\ client = "targeting" /\ channel # NoLink /\ channel.open
  /\ replied' = TRUE
  /\ UNCHANGED <<manager, seeded, nextPut, worker, running, client, links, channel, late, ended, losses>>

\* A process ends wherever it is; what is on the drive stays.
ManagerEnds ==
  /\ manager # "down" /\ ended < MaxEnds
  /\ ended' = ended + 1
  /\ manager' = "down"
  /\ Unlinked(Manager)
  /\ UNCHANGED <<seeded, nextPut, worker, running, client, replied, losses>>

WorkerEnds(w) ==
  /\ worker[w] \notin {"down", "fatal"} /\ ended < MaxEnds
  /\ ended' = ended + 1
  /\ Gone(w, "down")
  /\ UNCHANGED <<manager, seeded, nextPut, client, replied, losses>>

\* What is under way goes on: every process is started once or again, what it awaits
\* comes, joinPeer tries again for ever, and the client calls at intervals.
ManagedProgress ==
  \/ ManagerStarts \/ SeedFile
  \/ \E w \in Workers : WorkerStarts(w) \/ SelfAssign(w) \/ StartRole(w)
  \/ ClientStarts \/ Resolve \/ Call
  \/ \E p \in ClientPeers : Connect(p)

ManagedFaults ==
  \/ ManagerEnds
  \/ \E w \in Workers : WorkerEnds(w)
  \/ \E p \in ClientPeers : Lose(p)

ManagedNext == ManagedProgress \/ ManagedFaults

ManagedSpec == ManagedInit /\ [][ManagedNext]_managedVars /\ WF_managedVars(ManagedProgress)

\* The state keeps its types.
ManagedTypeOK ==
  /\ manager \in {"down", "seeding", "serving"}
  /\ seeded \subseteq ToSet(Puts) /\ nextPut \in 1 .. Len(Puts)
  /\ worker \in [Workers -> {"down", "finding", "pulling", "settled", "fatal"}]
  /\ running \in [Workers -> Seq(ToSet(RoleFiles))]
  /\ \A w \in Workers : IsPrefix(running[w], Assignments[w])
  /\ client \in {"down", "finding", "targeting", "fatal"}
  /\ links \in [ClientPeers -> (SUBSET ToSet(RoleFiles)) \union {NoLink}]
  /\ channel = NoLink \/ channel \in [peer : ClientPeers, open : BOOLEAN]
  /\ replied \in BOOLEAN /\ late \subseteq ToSet(RoleFiles)
  /\ ended \in 0 .. MaxEnds /\ losses \in [ClientPeers -> 0 .. MaxLosses]

\* Nobody who finds the manager gives up for want of the registry or of a role it
\* assigns, wherever the seeding was interrupted (manager.js puts all before it joins;
\* worker.js and client.js exit for good when a get finds nothing).
NobodyGivesUp == client # "fatal" /\ \A w \in Workers : worker[w] # "fatal"

\* On a connection to the target some role is offered, and every role that runs there
\* is, save those that started after the connection came: the handler of a connection
\* pairs what runs at that moment (worker.js:93) and is not called again.
EveryRoleOffered ==
  links[Target] # NoLink =>
    links[Target] # {} /\ ToSet(running[Target]) = links[Target] \union late

\* What the registry promises: everyone finds there what is assigned, and what a worker
\* has started before a connection is offered on it.
RolesServed == NobodyGivesUp /\ EveryRoleOffered

\* A client that was started is answered by its target in the end, whatever becomes of its
\* connection to the manager, unless a process ends, the connection to the target breaks or
\* came before the service ran there (client.js keeps its first channel, on a connection it
\* tells by the key; a channel nobody accepts is not opened again).
TargetAnswers ==
  (client # "down") ~> (replied \/ ended > 0 \/ losses[Target] > 0 \/ Service \in late)
=============================================================================
