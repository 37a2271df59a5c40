---------------------------- MODULE MCApplications ----------------------------
(* The applications of the repository, for TLC: the parts of a node of the swarm     *)
(* application and of its seed, managed code, and of mycelium the subtrees of a       *)
(* repository and the lenses on its files.  They share no state, so that they are     *)
(* checked side by side: part says which of them moves.                              *)
EXTENDS FuseMount, WorldView, SwarmSeed, ManagedWorker, GitSubtrees, XPath

CONSTANTS
  Parts,   \* the parts that are checked
  readme, registry, app, seed, peer1, peer2, url1, url2,
  echo, reverse, a, b,
  top, meta, page, note, word

VARIABLE part

applicationVars ==
  <<part, fuseVars, worldVars, seedVars, managedVars, subtreeVars, xpathVars>>

\* The content in the order it is put, and what the peers register.
MCFiles == <<readme, registry, app>>
MCSeedNode == [name |-> seed, url |-> url1]
MCNodes == [name : {peer1, peer2}, url : {url1, url2}] \union {[name |-> seed, url |-> url2]}

\* The files of ./roles.  The target is to run both, the one that is called second, the
\* other worker one; assignments.json gives each worker one, worker.js takes any number.
MCRoleFiles == <<echo, reverse>>
MCAssignments == [w \in Workers |-> IF w = Target THEN <<reverse, echo>> ELSE <<echo>>]

\* A subtree and one inside it; positions outside, in the outer and in the inner one.
MCDirs == {<<top>>, <<top, meta>>}
MCPositions == {<<>>, <<top>>, <<top, meta>>}

\* One ordinary and one underscored name; the local root is itself underscored.
MCNames == {top, meta}
MCMetaNames == {meta}
MCRoots == {<<meta>>}

\* A document with one field of each name, and a file that is no document.
MCContents == {page, note}
MCInside == [c \in MCContents |->
  IF c = page THEN <<top>> :> Leaf(word) @@ <<meta>> :> Leaf(word) ELSE [p \in {} |-> page]]

ApplicationsInit ==
  /\ part \in Parts
  /\ FInit /\ WInit /\ SeedInit /\ ManagedInit /\ GInit /\ XInit
  \* The drive of a new node is empty.
  /\ \A p \in Paths : ~drive[p].there

InFuse(action) ==
  part = "fuse" /\ action /\ UNCHANGED <<part, worldVars, seedVars, managedVars, subtreeVars, xpathVars>>
InWorld(action) ==
  part = "world" /\ action /\ UNCHANGED <<part, fuseVars, seedVars, managedVars, subtreeVars, xpathVars>>
InSeed(action) ==
  part = "seed" /\ action /\ UNCHANGED <<part, fuseVars, worldVars, managedVars, subtreeVars, xpathVars>>
InManaged(action) ==
  part = "managed" /\ action /\ UNCHANGED <<part, fuseVars, worldVars, seedVars, subtreeVars, xpathVars>>
InSubtrees(action) ==
  part = "subtrees" /\ action /\ UNCHANGED <<part, fuseVars, worldVars, seedVars, managedVars, xpathVars>>
InXPath(action) ==
  part = "xpath" /\ action /\ UNCHANGED <<part, fuseVars, worldVars, seedVars, managedVars, subtreeVars>>

ApplicationsNext ==
  \/ InFuse(FNext) \/ InWorld(WNext) \/ InSeed(SeedNext)
  \/ InManaged(ManagedNext) \/ InSubtrees(GNext) \/ InXPath(XNext)

\* The interval of the world view fires again and again, and every put of it ends; the
\* processes of managed code go on.
ApplicationsFairness ==
  /\ WF_worldVars(InWorld(Interval))
  /\ \A u \in Updates : WF_worldVars(InWorld(PutStatus(u) \/ PutPeers(u)))
  /\ WF_managedVars(InManaged(ManagedProgress))

ApplicationsSpec == ApplicationsInit /\ [][ApplicationsNext]_applicationVars /\ ApplicationsFairness

\* The parts keep their types.
ApplicationsTypeOK == FTypeOK /\ WTypeOK /\ SeedTypeOK /\ ManagedTypeOK /\ GTypeOK /\ XTypeOK

\* The lenses agree on what is there: what was put is read back, what is listed can be
\* opened, every file is in one of data and metadata, and what is changed through one is
\* not seen through the other (each lens's put, get and filter decide on their own).
LensesAgree ==
  /\ [](part = "xpath" => PutIsRead /\ ListedCanBeOpened /\ EachFileInOneLens)
  /\ LensesKeepApart
=============================================================================
