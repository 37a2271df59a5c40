----------------------------- MODULE SwarmSeed -----------------------------
(* The seed node (phase-7-swarm-app/seed and ui/http.js): on its first run it puts  *)
(* the content on its drive, then it serves, and keeps in memory the list of nodes  *)
(* that have registered.  The drive survives a crash, the list does not.            *)
EXTENDS Naturals, Sequences, SequencesExt

CONSTANTS
  Files,       \* the content in the order it is put; its head is /README.md
  SeedNode,    \* the seed's own entry in the list
  Nodes,       \* the entries peers register: records of a name and a url
  Posts,       \* slots for the registrations under way
  MaxPosts,    \* bounds the registrations
  MaxCrashes,  \* bounds the times the process ends
  NoPost,      \* a slot without registration
  NoUrl        \* the url of a name that is not registered

Names == {n.name : n \in Nodes \union {SeedNode}}
Content == {Files[i] : i \in 1 .. Len(Files)}

ASSUME SeedAssumption ==
  /\ Files \in Seq(Content) \ {<<>>}
  /\ \A n \in Nodes \union {SeedNode} : n = [name |-> n.name, url |-> n.url] /\ n.url # NoUrl
  /\ NoPost \notin Nodes
  /\ {MaxPosts, MaxCrashes} \subseteq Nat

VARIABLES
  main,        \* where main is: "down", "booting", "seeding", "ready" or "serving"
  onDrive,        \* the files on the content drive
  next,         \* the file seedContent puts next
  nodes,        \* the list of the registered nodes; the seed has a url of its own
  posts,        \* the registrations whose body is being read
  latest,       \* history: of every name, the url it registered last
  interrupted,  \* history: a crash has met the seeding
  received,     \* registrations received so far
  crashes       \* times the process ended so far

seedVars == <<main, onDrive, next, nodes, posts, latest, interrupted, received, crashes>>

SeedInit ==
  /\ main = "down" /\ onDrive = {} /\ next = 1
  /\ nodes = <<>> /\ latest = [n \in Names |-> NoUrl] /\ posts = [r \in Posts |-> NoPost]
  /\ interrupted = FALSE /\ received = 0 /\ crashes = 0

\* main up to its first look at the drive.
Boot ==
  /\ main = "down"
  /\ main' = "booting"
  /\ UNCHANGED <<onDrive, next, nodes, posts, latest, interrupted, received, crashes>>

\* /README.md is the mark that there is nothing to seed.
AfterCheck == IF Head(Files) \in onDrive THEN "ready" ELSE "seeding"

CheckDrive ==
  /\ main = "booting"
  /\ main' = AfterCheck
  /\ next' = 1
  /\ UNCHANGED <<onDrive, nodes, posts, latest, interrupted, received, crashes>>

\* One file after the other; main goes on when the last one is there.
AfterPut == IF next = Len(Files) THEN "ready" ELSE "seeding"

PutFile ==
  /\ main = "seeding"
  /\ onDrive' = onDrive \union {Files[next]}
  /\ main' = AfterPut
  /\ next' = IF next = Len(Files) THEN next ELSE next + 1
  /\ UNCHANGED <<nodes, posts, latest, interrupted, received, crashes>>

\* The server starts with the seed's own entry.
StartServer ==
  /\ main = "ready"
  /\ main' = "serving"
  /\ nodes' = <<SeedNode>>
  /\ latest' = [latest EXCEPT ![SeedNode.name] = SeedNode.url]
  /\ UNCHANGED <<onDrive, next, posts, interrupted, received, crashes>>

\* The process ends, by a signal or a crash, wherever it is; what is in memory goes.
Crash ==
  /\ main # "down" /\ crashes < MaxCrashes
  /\ crashes' = crashes + 1
  /\ main' = "down"
  /\ interrupted' = (interrupted \/ (main = "seeding" /\ onDrive # {}))
  /\ nodes' = <<>> /\ latest' = [n \in Names |-> NoUrl] /\ posts' = [r \in Posts |-> NoPost]
  /\ UNCHANGED <<onDrive, next, received>>

----------------------------------------------------------------------------
\* POST /api/register.

\* The request arrives, and its body is read.
Receive(r, n) ==
  /\ main = "serving" /\ posts[r] = NoPost /\ received < MaxPosts
  /\ received' = received + 1
  /\ posts' = [posts EXCEPT ![r] = n]
  /\ UNCHANGED <<main, onDrive, next, nodes, latest, interrupted, crashes>>

\* The first entry of the same name goes, and the new one is appended.
IndexOfName(name) == SelectInSeq(nodes, LAMBDA old : old.name = name)

\* Mutant: findIndex is taken for a truth value: -1 removes the last entry of the list.
MutWithEntry(n) ==
  Append(IF nodes = <<>> THEN nodes
         ELSE IF IndexOfName(n.name) = 0 THEN Front(nodes)
         ELSE RemoveAt(nodes, IndexOfName(n.name)), n)

WithEntry(n) ==
  Append(IF IndexOfName(n.name) = 0 THEN nodes ELSE RemoveAt(nodes, IndexOfName(n.name)), n)

\* The body is there: the list is searched and changed without an await in between.
Register(r) ==
  /\ posts[r] # NoPost
  /\ nodes' = WithEntry(posts[r])
  /\ latest' = [latest EXCEPT ![posts[r].name] = posts[r].url]
  /\ posts' = [posts EXCEPT ![r] = NoPost]
  /\ UNCHANGED <<main, onDrive, next, interrupted, received, crashes>>

\* The body cannot be read or parsed.
RegisterFails(r) ==
  /\ posts[r] # NoPost
  /\ posts' = [posts EXCEPT ![r] = NoPost]
  /\ UNCHANGED <<main, onDrive, next, nodes, latest, interrupted, received, crashes>>

SeedNext ==
  \/ Boot \/ CheckDrive \/ PutFile \/ StartServer \/ Crash
  \/ \E r \in Posts : Register(r) \/ RegisterFails(r) \/ \E n \in Nodes : Receive(r, n)

SeedSpec == SeedInit /\ [][SeedNext]_seedVars
----------------------------------------------------------------------------
\* The state is well typed.
SeedTypeOK ==
  /\ main \in {"down", "booting", "seeding", "ready", "serving"}
  /\ onDrive \subseteq Content
  /\ next \in 1 .. Len(Files)
  /\ ToSet(nodes) \subseteq Nodes \union {SeedNode}
  /\ posts \in [Posts -> Nodes \union {NoPost}]
  /\ latest \in [Names -> {n.url : n \in Nodes \union {SeedNode}} \union {NoUrl}]
  /\ interrupted \in BOOLEAN
  /\ received \in 0 .. MaxPosts /\ crashes \in 0 .. MaxCrashes

\* The list holds one entry for every name that registered since the seed started,
\* with the url it registered last, and nothing else: registrations whose bodies are
\* read together do not undo one another.
RegistryExact ==
  /\ \A i, j \in 1 .. Len(nodes) : nodes[i].name = nodes[j].name => i = j
  /\ ToSet(nodes) =
       {[name |-> name, url |-> latest[name]] : name \in {n \in Names : latest[n] # NoUrl}}

\* A seed that serves has all of its content on the drive, through any number of restarts,
\* unless the process once ended between the first file and the last.
SeededUnlessInterrupted == main = "serving" /\ ~interrupted => Content \subseteq onDrive

\* What a node can rely on: who has registered, and that the content is there.
SeedServes == RegistryExact /\ SeededUnlessInterrupted
=============================================================================
