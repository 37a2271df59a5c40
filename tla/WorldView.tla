----------------------------- MODULE WorldView -----------------------------
(* The world view of a swarm node (phase-7-swarm-app/ui/worldview.js): its status  *)
(* and its peers, put on its own drive at start and every UPDATE_INTERVAL.  An      *)
(* update that takes longer than the interval overlaps the next one.  The log of    *)
(* runs is left out.                                                               *)
EXTENDS Naturals, FiniteSets

CONSTANTS
  Peers,            \* the nodes that may connect
  Updates,          \* slots for the updates under way, which bound them
  MaxConnections,   \* bounds the changes of swarm.connections
  MaxFailures,      \* bounds the puts that fail
  NoUpdate          \* a slot without update

ASSUME WorldAssumption ==
  /\ IsFiniteSet(Peers)
  /\ {MaxConnections, MaxFailures} \subseteq Nat

VARIABLES
  connections,  \* swarm.connections
  timer,        \* the interval is set
  updates,      \* the updates under way: what each has seen, what it puts next
  status,       \* the number of peers /status.json holds
  peersFile,    \* the peers /peers.json holds
  started,      \* the node has called start, and then stop
  moves,        \* changes of the connections so far
  failures      \* puts that failed so far

worldVars == <<connections, timer, updates, status, peersFile, started, moves, failures>>

WInit ==
  /\ connections = {}
  /\ timer = FALSE
  /\ updates = [u \in Updates |-> NoUpdate]
  /\ status = 0 /\ peersFile = {}
  /\ started = "no"
  /\ moves = 0 /\ failures = 0

\* updateStatus up to its first await: the connections are read once, here.
UpdateStatus(u) ==
  /\ updates[u] = NoUpdate
  /\ updates' = [updates EXCEPT ![u] = [peers |-> connections, next |-> "status"]]

Start ==
  /\ started = "no"
  /\ started' = "yes"
  /\ timer' = TRUE
  /\ \E u \in Updates : UpdateStatus(u)
  /\ UNCHANGED <<connections, status, peersFile, moves, failures>>

\* The interval fires, whether or not the last update is through.
Interval ==
  /\ timer
  /\ \E u \in Updates : UpdateStatus(u)
  /\ UNCHANGED <<connections, timer, status, peersFile, started, moves, failures>>

PutStatus(u) ==
  /\ updates[u] # NoUpdate /\ updates[u].next = "status"
  /\ status' = Cardinality(updates[u].peers)
  /\ updates' = [updates EXCEPT ![u].next = "peers"]
  /\ UNCHANGED <<connections, timer, peersFile, started, moves, failures>>

PutPeers(u) ==
  /\ updates[u] # NoUpdate /\ updates[u].next = "peers"
  /\ peersFile' = updates[u].peers
  /\ updates' = [updates EXCEPT ![u] = NoUpdate]
  /\ UNCHANGED <<connections, timer, status, started, moves, failures>>

\* Mutant: nothing catches the error of an update, and the node's
\* interval ends with it.
MutPutFails(u) ==
  /\ updates[u] # NoUpdate
  /\ failures < MaxFailures
  /\ failures' = failures + 1
  /\ updates' = [updates EXCEPT ![u] = NoUpdate]
  /\ timer' = FALSE
  /\ UNCHANGED <<connections, status, peersFile, started, moves>>

\* A put that fails ends its update; the error is swallowed.
PutFails(u) ==
  /\ updates[u] # NoUpdate
  /\ failures < MaxFailures
  /\ failures' = failures + 1
  /\ updates' = [updates EXCEPT ![u] = NoUpdate]
  /\ UNCHANGED <<connections, timer, status, peersFile, started, moves>>

\* What is under way goes on.
Stop ==
  /\ started = "yes"
  /\ started' = "stopped"
  /\ timer' = FALSE
  /\ UNCHANGED <<connections, updates, status, peersFile, moves, failures>>

\* A peer connects or leaves.
Connection(p) ==
  /\ moves < MaxConnections
  /\ moves' = moves + 1
  /\ connections' = IF p \in connections THEN connections \ {p} ELSE connections \union {p}
  /\ UNCHANGED <<timer, updates, status, peersFile, started, failures>>

WNext ==
  \/ Start \/ Interval \/ Stop
  \/ \E u \in Updates : PutStatus(u) \/ PutPeers(u) \/ PutFails(u)
  \/ \E p \in Peers : Connection(p)

\* The interval fires again and again, and every put of the drive ends.
WSpec ==
  /\ WInit /\ [][WNext]_worldVars
  /\ WF_worldVars(Interval)
  /\ \A u \in Updates : WF_worldVars(PutStatus(u) \/ PutPeers(u))

----------------------------------------------------------------------------
\* The state is well typed.
WTypeOK ==
  /\ connections \subseteq Peers /\ peersFile \subseteq Peers
  /\ timer \in BOOLEAN
  /\ updates \in [Updates -> [peers : SUBSET Peers, next : {"status", "peers"}] \union {NoUpdate}]
  /\ status \in 0 .. Cardinality(Peers)
  /\ started \in {"no", "yes", "stopped"}
  /\ moves \in 0 .. MaxConnections /\ failures \in 0 .. MaxFailures

\* Once the connections stay as they are, both files come to show them and go on
\* showing them while the node runs, whichever of the overlapping updates wrote last
\* in between and whichever failed.
WorldViewCatchesUp ==
  <>[](started = "yes" => status = Cardinality(connections) /\ peersFile = connections)
=============================================================================
