--------------------------- MODULE Mycelium_proofs ---------------------------
(***************************************************************************)
(* Proofs about mycelium: the registry of subtrees, for any repositories,  *)
(* directories, remotes and length of .gittrees; the lenses on the files,  *)
(* for any names, local roots, depths and contents.                        *)
(***************************************************************************)
EXTENDS GitSubtrees, XPath, TLAPS, SequenceTheorems

----------------------------------------------------------------------------
(* The registry of subtrees.                                             *)

\* What the module caches is what the file holds, if nobody else writes it and one
\* repository is asked about.
CacheExact == SoleWriter => \A r \in Repos : gitCache # NoCache => gitCache = gittrees[r]

\* A remote that has been fetched from points somewhere.
FetchedFromSomewhere ==
  (adding # NoAdd /\ adding.call = "import") => remotes[adding.repo][adding.entry.remote] # NoRemote

\* What has just been imported is a subtree, whatever was registered for it before.
ImportedIsSubtree == Importing => <<adding.repo, adding.entry.prefix>> \notin byHand

\* The inductive invariant of the registry; that of the cache needs no more.
RegistryInv == GTypeOK /\ FetchedFromSomewhere /\ ImportedIsSubtree /\ RegistryAgrees

\* The positions of the lines of a longer registry.
LEMMA AppendedLine ==
  ASSUME NEW s \in Seq(Lines), NEW e \in Lines
  PROVE  /\ Append(s, e) \in Seq(Lines)
         /\ \A p : (\E i \in DOMAIN Append(s, e) : Append(s, e)[i].prefix = p)
                     <=> (\E i \in DOMAIN s : s[i].prefix = p) \/ e.prefix = p
<1>1. Append(s, e) \in Seq(Lines) /\ Len(Append(s, e)) = Len(s) + 1
  OBVIOUS
<1>2. /\ DOMAIN s = 1..Len(s)
      /\ DOMAIN Append(s, e) = 1..(Len(s) + 1)
      /\ \A i \in 1..Len(s) : Append(s, e)[i] = s[i]
      /\ Append(s, e)[Len(s) + 1] = e
  OBVIOUS
<1>3. Len(s) \in Nat
  OBVIOUS
<1> QED
  BY <1>1, <1>2, <1>3

\* load changes neither the file nor, when the cache is exact, what it says.
LEMMA LoadIsExact ==
  ASSUME SoleWriter, CacheExact, NEW r \in Repos
  PROVE  Load(r) = gittrees[r]
BY DEF Load, CacheExact

\* At the start nothing is registered and nothing is there.
LEMMA RegistryInit == GInit => RegistryInv
<1> SUFFICES ASSUME GInit PROVE RegistryInv
  OBVIOUS
<1>1. GTypeOK
  BY DEF GInit, GTypeOK
<1>2. FetchedFromSomewhere
  BY DEF GInit, FetchedFromSomewhere
<1>3. RegistryAgrees /\ ImportedIsSubtree
  BY DEF GInit, RegistryAgrees, ImportedIsSubtree, Registered, Importing
<1> QED
  BY <1>1, <1>2, <1>3 DEF RegistryInv

\* A line that is added keeps registry and repository in agreement: that of an add
\* follows its subtree; for one that is added by hand, byHand says if there is one.
LEMMA RegisterStep ==
  ASSUME RegistryInv, NEW r \in Repos, NEW e \in Lines, AddLine(r, e),
         UNCHANGED <<remotes, trees, acted>>, adding' = NoAdd,
         \/ Free /\ Named(r, e, trees[r][e.prefix])
         \/ Importing /\ adding.repo = r /\ adding.entry = e /\ UNCHANGED byHand
  PROVE  RegistryInv'
<1>1. gittrees[r] \in Seq(Lines) /\ e.prefix \in Dirs
  BY DEF RegistryInv, GTypeOK, Lines
<1>5. \A p : (\E i \in DOMAIN Append(gittrees[r], e) : Append(gittrees[r], e)[i].prefix = p)
               <=> (\E i \in DOMAIN gittrees[r] : gittrees[r][i].prefix = p) \/ e.prefix = p
  BY <1>1, AppendedLine
<1>2. GTypeOK'
  <2>1. gittrees' \in [Repos -> Seq(Lines)]
    BY <1>1, AppendedLine DEF RegistryInv, GTypeOK, AddLine
  <2>2. orphans' \subseteq Repos \X Dirs /\ gitCache' = NoCache
    BY DEF RegistryInv, GTypeOK, AddLine
  <2>3. byHand' \subseteq Repos \X Dirs
    BY <1>1 DEF RegistryInv, GTypeOK, Named
  <2> QED
    BY <2>1, <2>2, <2>3 DEF RegistryInv, GTypeOK
<1>3. FetchedFromSomewhere' /\ ~Importing'
  BY DEF FetchedFromSomewhere, Importing
<1>4. ASSUME NEW q \in Repos, NEW p \in Dirs
      PROVE  (trees[q][p] # NoTree)'
               <=> (Registered(q, p) /\ <<q, p>> \notin byHand)' \/ <<q, p>> \in orphans'
  <2>1. trees[q][p] # NoTree <=>
          \/ Registered(q, p) /\ <<q, p>> \notin byHand
          \/ <<q, p>> \in orphans
          \/ Importing /\ adding.repo = q /\ adding.entry.prefix = p
    BY DEF RegistryInv, RegistryAgrees
  <2>2. CASE q = r /\ p = e.prefix
    <3>1. gittrees'[q] = Append(gittrees[r], e) /\ <<q, p>> \notin orphans'
      BY <2>2 DEF RegistryInv, GTypeOK, AddLine
    <3>2. Registered(q, p)'
      BY <2>2, <3>1, <1>5 DEF Registered
    <3>3. CASE Free /\ Named(r, e, trees[r][e.prefix])
      BY <2>2, <3>1, <3>2, <3>3 DEF Named
    <3>4. CASE Importing /\ adding.repo = r /\ adding.entry = e /\ UNCHANGED byHand
      BY <2>1, <2>2, <3>1, <3>2, <3>4 DEF RegistryInv, ImportedIsSubtree
    <3> QED
      BY <3>3, <3>4
  <2>3. CASE ~(q = r /\ p = e.prefix)
    <3>1. Registered(q, p)' <=> Registered(q, p)
      <4>1. CASE q = r
        <5>1. gittrees'[q] = Append(gittrees[r], e)
          BY <4>1 DEF RegistryInv, GTypeOK, AddLine
        <5> QED
          BY <2>3, <4>1, <5>1, <1>5 DEF Registered
      <4>2. CASE q # r
        BY <4>2 DEF RegistryInv, GTypeOK, AddLine, Registered
      <4> QED
        BY <4>1, <4>2
    <3>2. <<q, p>> \in orphans' <=> <<q, p>> \in orphans
      BY <2>3 DEF AddLine
    <3>3. <<q, p>> \in byHand' <=> <<q, p>> \in byHand
      BY <2>3 DEF Named
    <3>4. ~(Importing /\ adding.repo = q /\ adding.entry.prefix = p)
      BY <2>3 DEF Free, Importing
    <3> QED
      BY <2>1, <3>1, <3>2, <3>3, <3>4
  <2> QED
    BY <2>2, <2>3
<1> QED
  BY <1>2, <1>3, <1>4 DEF RegistryInv, RegistryAgrees, ImportedIsSubtree

\* The steps that change neither file nor repository, add or orphans.
LEMMA ReadingStep ==
  ASSUME RegistryInv, UNCHANGED <<gittrees, remotes, trees, adding, orphans, byHand>>,
         gitCache' \in Seq(Lines) \union {NoCache},
         acted' # NoCommand => acted'.repo \in Repos
  PROVE  RegistryInv'
<1>1. GTypeOK'
  BY DEF RegistryInv, GTypeOK
<1>2. FetchedFromSomewhere'
  BY DEF RegistryInv, FetchedFromSomewhere
<1>3. RegistryAgrees' /\ ImportedIsSubtree'
  BY DEF RegistryInv, RegistryAgrees, ImportedIsSubtree, Registered, Importing
<1> QED
  BY <1>1, <1>2, <1>3 DEF RegistryInv

\* The steps of an add before it registers, which change neither file nor orphans.
LEMMA CallStep ==
  ASSUME RegistryInv, UNCHANGED <<gittrees, trees, gitCache, acted, orphans, byHand>>, ~Importing,
         remotes' \in [Repos -> [Remotes -> Urls \union {NoRemote}]],
         adding' \in [repo : Repos, entry : Lines, url : Urls \union {NoRemote},
                      call : {"remote", "fetch", "import"}] \union {NoAdd},
         FetchedFromSomewhere'
  PROVE  RegistryInv'
<1>1. GTypeOK'
  BY DEF RegistryInv, GTypeOK, Adds
<1>2. ~Importing'
  BY DEF Importing
<1>3. RegistryAgrees'
  BY <1>2 DEF RegistryInv, RegistryAgrees, Registered, Importing
<1> QED
  BY <1>1, <1>2, <1>3 DEF RegistryInv, ImportedIsSubtree

\* What load and find return.
LEMMA LoadType ==
  ASSUME GTypeOK, NEW r \in Repos
  PROVE  Load(r) \in Seq(Lines)
BY DEF GTypeOK, Load

\* Every step keeps registry and repository in agreement, whoever writes.
LEMMA RegistryNext == RegistryInv /\ [GNext]_subtreeVars => RegistryInv'
<1> SUFFICES ASSUME RegistryInv, [GNext]_subtreeVars PROVE RegistryInv'
  OBVIOUS
<1>0. ASSUME NEW r \in Repos, NEW e \in Lines
      PROVE  \A p : (\E i \in DOMAIN Append(gittrees[r], e) : Append(gittrees[r], e)[i].prefix = p)
                      <=> (\E i \in DOMAIN gittrees[r] : gittrees[r][i].prefix = p) \/ e.prefix = p
  <2>1. gittrees[r] \in Seq(Lines)
    BY DEF RegistryInv, GTypeOK
  <2> QED
    BY <2>1, AppendedLine
<1> USE SubtreesAssumption DEF SubtreesAssumption, Adds
<1>1. ASSUME NEW r \in Repos, ReadRegistry(r) PROVE RegistryInv'
  <2>1. gitCache' \in Seq(Lines) \union {NoCache}
    BY <1>1, LoadType DEF ReadRegistry, RegistryInv
  <2> QED
    BY <1>1, <2>1, ReadingStep DEF ReadRegistry, RegistryInv, GTypeOK
<1>2. ASSUME NEW r \in Repos, NEW p, ActOn(r, p), gitCache' = Load(r),
             UNCHANGED <<gittrees, remotes, trees, adding, orphans, byHand>>
      PROVE  RegistryInv'
  <2>1. gitCache' \in Seq(Lines) \union {NoCache}
    BY <1>2, LoadType DEF RegistryInv
  <2>2. acted' # NoCommand => acted'.repo \in Repos
    BY <1>2 DEF ActOn
  <2> QED
    BY <1>2, <2>1, <2>2, ReadingStep
<1>3. ASSUME NEW r \in Repos, NEW l \in Positions, ActInside(r, l) PROVE RegistryInv'
  BY <1>2, <1>3 DEF ActInside
<1>4. ASSUME NEW r \in Repos, NEW l \in Positions, NEW p \in Dirs, ActOnArgument(r, l, p)
      PROVE  RegistryInv'
  BY <1>2, <1>4 DEF ActOnArgument
<1>5. ASSUME NEW r \in Repos, NEW l \in Positions, PullRepo(r, l) PROVE RegistryInv'
  <2>1. gitCache' \in Seq(Lines) \union {NoCache}
    BY <1>5, LoadType DEF PullRepo, RegistryInv, GTypeOK
  <2>2. CASE UNCHANGED <<gittrees, trees, orphans, byHand>>
    BY <1>5, <2>1, <2>2, ReadingStep DEF PullRepo, RegistryInv, GTypeOK
  <2>3. ASSUME NEW e \in Lines, NEW u \in Urls \union {NoTree}, Named(r, e, u),
               gittrees' = [gittrees EXCEPT ![r] = Append(@, e)],
               trees' = [trees EXCEPT ![r][e.prefix] = u],
               orphans' = orphans \ {<<r, e.prefix>>}
        PROVE  RegistryInv'
    <3>1. Free /\ UNCHANGED <<remotes, adding, acted>>
      BY <1>5 DEF PullRepo
    <3>2. gittrees[r] \in Seq(Lines) /\ e.prefix \in Dirs
      BY DEF RegistryInv, GTypeOK, Lines
    <3>3. GTypeOK'
      <4>1. gittrees' \in [Repos -> Seq(Lines)]
        BY <2>3, <3>2, AppendedLine DEF RegistryInv, GTypeOK
      <4>2. trees' \in [Repos -> [Dirs -> Urls \union {NoTree}]]
        BY <2>3, <3>2 DEF RegistryInv, GTypeOK
      <4>3. orphans' \subseteq Repos \X Dirs /\ byHand' \subseteq Repos \X Dirs
        BY <2>3, <3>2 DEF RegistryInv, GTypeOK, Named
      <4> QED
        BY <2>1, <3>1, <4>1, <4>2, <4>3 DEF RegistryInv, GTypeOK
    <3>4. FetchedFromSomewhere'
      BY <3>1 DEF RegistryInv, FetchedFromSomewhere, Free
    <3>5. RegistryAgrees' /\ ImportedIsSubtree'
      <4>1. ~Importing /\ ~Importing'
        BY <3>1 DEF Free, Importing
      <4>2. ASSUME NEW q \in Repos, NEW p \in Dirs
            PROVE  (trees[q][p] # NoTree)' <=>
                     (Registered(q, p) /\ <<q, p>> \notin byHand)' \/ <<q, p>> \in orphans'
        <5>1. trees[q][p] # NoTree <=>
                (Registered(q, p) /\ <<q, p>> \notin byHand) \/ <<q, p>> \in orphans
          BY <4>1 DEF RegistryInv, RegistryAgrees
        <5>2. CASE q = r /\ p = e.prefix
          <6>1. gittrees'[q] = Append(gittrees[r], e)
            BY <2>3, <5>2 DEF RegistryInv, GTypeOK
          <6>2. Registered(q, p)'
            BY <5>2, <6>1, <1>0 DEF Registered
          <6>3. trees'[q][p] = u /\ <<q, p>> \notin orphans'
            BY <2>3, <3>2, <5>2 DEF RegistryInv, GTypeOK
          <6>4. <<q, p>> \in byHand' <=> u = NoTree
            BY <2>3, <5>2 DEF Named
          <6> QED
            BY <6>2, <6>3, <6>4
        <5>3. CASE ~(q = r /\ p = e.prefix)
          <6>1. Registered(q, p)' <=> Registered(q, p)
            <7>1. CASE q = r
              <8>1. gittrees'[q] = Append(gittrees[r], e)
                BY <2>3, <7>1 DEF RegistryInv, GTypeOK
              <8> QED
                BY <5>3, <7>1, <8>1, <1>0 DEF Registered
            <7>2. CASE q # r
              BY <2>3, <7>2 DEF RegistryInv, GTypeOK, Registered
            <7> QED
              BY <7>1, <7>2
          <6>2. trees'[q][p] = trees[q][p]
            BY <2>3, <3>2, <5>3 DEF RegistryInv, GTypeOK
          <6>3. <<q, p>> \in orphans' <=> <<q, p>> \in orphans
            BY <2>3, <5>3
          <6>4. <<q, p>> \in byHand' <=> <<q, p>> \in byHand
            BY <2>3, <5>3 DEF Named
          <6> QED
            BY <5>1, <6>1, <6>2, <6>3, <6>4
        <5> QED
          BY <5>2, <5>3
      <4> QED
        BY <4>1, <4>2 DEF RegistryAgrees, ImportedIsSubtree
    <3> QED
      BY <3>3, <3>4, <3>5 DEF RegistryInv
  <2>4. \A e \in Lines : trees[r][e.prefix] \in Urls \union {NoTree}
    BY DEF RegistryInv, GTypeOK, Lines
  <2> QED
    BY <1>5, <2>2, <2>3, <2>4 DEF PullRepo
<1>6. ASSUME NEW r \in Repos, NEW e \in Lines, RegisterOnly(r, e) PROVE RegistryInv'
  BY <1>6, RegisterStep DEF RegisterOnly, Free
<1>7. ASSUME NEW r \in Repos, NEW e \in Lines, NEW u \in Urls \union {NoRemote}, AddCalled(r, e, u)
      PROVE  RegistryInv'
  <2>1. adding' \in [repo : Repos, entry : Lines, url : Urls \union {NoRemote},
                     call : {"remote", "fetch", "import"}]
    BY <1>7 DEF AddCalled
  <2>2. FetchedFromSomewhere' /\ ~Importing
    BY <1>7 DEF AddCalled, FetchedFromSomewhere, Free, Importing
  <2> QED
    BY <1>7, <2>1, <2>2, CallStep DEF AddCalled, RegistryInv, GTypeOK
<1>8. CASE AddRemote
  <2>1. adding \in [repo : Repos, entry : Lines, url : Urls \union {NoRemote}, call : {"remote"}]
    BY <1>8 DEF AddRemote, RegistryInv, GTypeOK
  <2>2. /\ adding' \in [repo : Repos, entry : Lines, url : Urls \union {NoRemote}, call : {"fetch"}]
        /\ adding'.call = "fetch"
    BY <1>8, <2>1 DEF AddRemote
  <2>3. remotes' \in [Repos -> [Remotes -> Urls \union {NoRemote}]]
    BY <1>8, <2>1 DEF AddRemote, RegistryInv, GTypeOK, Lines
  <2>4. FetchedFromSomewhere' /\ ~Importing
    BY <1>8, <2>2 DEF AddRemote, FetchedFromSomewhere, Importing
  <2> QED
    BY <1>8, <2>2, <2>3, <2>4, CallStep DEF AddRemote
<1>9. CASE Fetch
  <2>1. adding \in [repo : Repos, entry : Lines, url : Urls \union {NoRemote}, call : {"fetch"}]
    BY <1>9 DEF Fetch, RegistryInv, GTypeOK
  <2>2. ~Importing
    BY <1>9 DEF Fetch, Importing
  <2>3. CASE AddFails
    BY <2>2, <2>3, CallStep DEF AddFails, FetchedFromSomewhere, RegistryInv, GTypeOK
  <2>4. CASE ~AddFails
    <3>1. /\ adding' \in [repo : Repos, entry : Lines, url : Urls \union {NoRemote},
                          call : {"import"}]
          /\ adding'.repo = adding.repo /\ adding'.entry = adding.entry
          /\ UNCHANGED <<gittrees, remotes, trees, gitCache, acted, orphans, byHand>>
      BY <1>9, <2>1, <2>4 DEF Fetch
    <3>2. FetchedFromSomewhere'
      BY <1>9, <2>4, <3>1 DEF Fetch, FetchedFromSomewhere
    <3> QED
      BY <2>2, <3>1, <3>2, CallStep DEF RegistryInv, GTypeOK
  <2> QED
    BY <2>3, <2>4
<1>10. CASE Import
  <2>1. adding \in [repo : Repos, entry : Lines, url : Urls \union {NoRemote}, call : {"import"}]
    BY <1>10 DEF Import, RegistryInv, GTypeOK
  <2>2. ~Importing
    BY <1>10 DEF Import, Importing
  <2>3. CASE AddFails
    BY <2>2, <2>3, CallStep DEF AddFails, FetchedFromSomewhere, RegistryInv, GTypeOK
  <2>4. CASE ~AddFails
    <3> DEFINE r == adding.repo
               d == adding.entry.prefix
               u == remotes[r][adding.entry.remote]
    <3>1. r \in Repos /\ d \in Dirs /\ adding.entry.remote \in Remotes
      BY <2>1 DEF Lines
    <3>2. u \in Urls
      BY <1>10, <3>1 DEF Import, RegistryInv, GTypeOK, FetchedFromSomewhere
    <3>3. /\ trees' = [trees EXCEPT ![r][d] = u]
          /\ adding' = [adding EXCEPT !.call = "register"]
          /\ UNCHANGED <<gittrees, remotes, gitCache, acted, orphans>>
      BY <1>10, <2>4 DEF Import
    <3>8. trees'[r][d] = u /\ byHand' = byHand \ {<<r, d>>}
      <4>1. trees'[r][d] = u
        BY <3>1, <3>3 DEF RegistryInv, GTypeOK
      <4>2. Named(r, adding.entry, u)
        BY <1>10, <2>4, <4>1 DEF Import
      <4> QED
        BY <3>2, <4>1, <4>2 DEF Named
    <3>4. /\ adding' \in [repo : Repos, entry : Lines, url : Urls \union {NoRemote},
                          call : {"register"}]
          /\ adding'.repo = r /\ adding'.entry.prefix = d
      BY <2>1, <3>3
    <3>5. GTypeOK'
      <4>1. trees' \in [Repos -> [Dirs -> Urls \union {NoTree}]]
        BY <3>1, <3>2, <3>3 DEF RegistryInv, GTypeOK
      <4>2. byHand' \subseteq Repos \X Dirs
        BY <3>8 DEF RegistryInv, GTypeOK
      <4> QED
        BY <3>3, <3>4, <4>1, <4>2 DEF RegistryInv, GTypeOK
    <3>6. FetchedFromSomewhere'
      BY <3>4 DEF FetchedFromSomewhere
    <3>7. RegistryAgrees' /\ ImportedIsSubtree'
      <4>1. Importing' /\ ImportedIsSubtree'
        <5>1. <<adding'.repo, adding'.entry.prefix>> \notin byHand'
          BY <3>4, <3>8
        <5> QED
          BY <3>4, <5>1, SubtreesAssumption DEF Importing, ImportedIsSubtree, SubtreesAssumption, Adds
      <4>2. ASSUME NEW q \in Repos, NEW p \in Dirs
            PROVE  (trees[q][p] # NoTree)' <=>
                     \/ (Registered(q, p) /\ <<q, p>> \notin byHand)'
                     \/ <<q, p>> \in orphans'
                     \/ (r = q /\ d = p)
        <5>1. trees[q][p] # NoTree <=>
                (Registered(q, p) /\ <<q, p>> \notin byHand) \/ <<q, p>> \in orphans
          BY <2>2 DEF RegistryInv, RegistryAgrees
        <5>2. /\ Registered(q, p)' <=> Registered(q, p)
              /\ <<q, p>> \in orphans' <=> <<q, p>> \in orphans
          BY <3>3 DEF Registered
        <5>3. CASE q = r /\ p = d
          BY <3>2, <3>8, <5>3
        <5>4. CASE ~(q = r /\ p = d)
          <6>1. trees'[q][p] = trees[q][p] /\ (<<q, p>> \in byHand' <=> <<q, p>> \in byHand)
            BY <3>1, <3>3, <3>8, <5>4 DEF RegistryInv, GTypeOK
          <6> QED
            BY <5>1, <5>2, <5>4, <6>1
        <5> QED
          BY <5>3, <5>4
      <4> QED
        BY <3>4, <4>1, <4>2 DEF RegistryAgrees
    <3> QED
      BY <3>5, <3>6, <3>7 DEF RegistryInv
  <2> QED
    BY <2>3, <2>4
<1>11. CASE RegisterAdded
  <2>1. adding \in [repo : Repos, entry : Lines, url : Urls \union {NoRemote}, call : {"register"}]
    BY <1>11 DEF RegisterAdded, Importing, RegistryInv, GTypeOK
  <2>2. trees[adding.repo][adding.entry.prefix] # NoTree
    BY <1>11, <2>1 DEF RegisterAdded, RegistryInv, RegistryAgrees, Lines
  <2> QED
    BY <1>11, <2>1, <2>2, RegisterStep DEF RegisterAdded
<1>12. CASE Restart
  <2>1. /\ adding' = NoAdd /\ gitCache' = NoCache
        /\ UNCHANGED <<gittrees, remotes, trees, acted, byHand>>
    BY <1>12 DEF Restart
  <2>2. Importing => adding.repo \in Repos /\ adding.entry.prefix \in Dirs
    BY DEF RegistryInv, GTypeOK, Importing, Lines
  <2>3. GTypeOK'
    <3>1. orphans' \subseteq Repos \X Dirs
      BY <1>12, <2>2 DEF Restart, RegistryInv, GTypeOK
    <3> QED
      BY <2>1, <3>1 DEF RegistryInv, GTypeOK
  <2>4. FetchedFromSomewhere' /\ ~Importing'
    BY <2>1 DEF FetchedFromSomewhere, Importing
  <2>5. RegistryAgrees'
    <3>1. ASSUME NEW q \in Repos, NEW p \in Dirs
          PROVE  <<q, p>> \in orphans' <=>
                   \/ <<q, p>> \in orphans
                   \/ Importing /\ adding.repo = q /\ adding.entry.prefix = p
      BY <1>12 DEF Restart
    <3>2. ASSUME NEW q \in Repos, NEW p \in Dirs
          PROVE  (trees[q][p] # NoTree)' <=>
                   (Registered(q, p) /\ <<q, p>> \notin byHand)' \/ <<q, p>> \in orphans'
      BY <2>1, <3>1 DEF RegistryInv, RegistryAgrees, Registered
    <3> QED
      BY <2>4, <3>2 DEF RegistryAgrees
  <2> QED
    BY <2>3, <2>4, <2>5 DEF RegistryInv, ImportedIsSubtree
<1>13. CASE UNCHANGED subtreeVars
  BY <1>13, ReadingStep DEF subtreeVars, RegistryInv, GTypeOK
<1> QED
  BY <1>1, <1>3, <1>4, <1>5, <1>6, <1>7, <1>8, <1>9, <1>10, <1>11, <1>12, <1>13 DEF GNext

\* The cache stays what the file holds, and so a pull or push what the file says.
LEMMA CacheNext ==
  ASSUME SoleWriter, CacheExact, ActsOnRegistry, RegistryInv, [GNext]_subtreeVars
  PROVE  CacheExact' /\ ActsOnRegistry'
<1> USE SubtreesAssumption DEF SubtreesAssumption
<1>1. ASSUME NEW r \in Repos, UNCHANGED gittrees, gitCache' = Load(r), UNCHANGED acted
      PROVE  CacheExact' /\ ActsOnRegistry'
  <2>1. gitCache' = gittrees[r]
    BY <1>1, LoadIsExact
  <2> QED
    BY <1>1, <2>1 DEF CacheExact, ActsOnRegistry
<1>2. ASSUME NEW r \in Repos, UNCHANGED gittrees, gitCache' = Load(r), NEW p, ActOn(r, p)
      PROVE  CacheExact' /\ ActsOnRegistry'
  <2>1. Load(r) = gittrees[r]
    BY LoadIsExact
  <2>2. acted'.found = acted'.registered
    BY <1>2, <2>1 DEF ActOn
  <2> QED
    BY <1>2, <2>1, <2>2 DEF CacheExact, ActsOnRegistry
<1>3. ASSUME gitCache' = NoCache, UNCHANGED acted
      PROVE  CacheExact' /\ ActsOnRegistry'
  BY <1>3 DEF CacheExact, ActsOnRegistry
<1>4. ASSUME UNCHANGED <<gittrees, gitCache, acted>>
      PROVE  CacheExact' /\ ActsOnRegistry'
  BY <1>4 DEF CacheExact, ActsOnRegistry
<1>5. ASSUME NEW r \in Repos, ReadRegistry(r) PROVE CacheExact' /\ ActsOnRegistry'
  BY <1>1, <1>5 DEF ReadRegistry
<1>6. ASSUME NEW r \in Repos, NEW l \in Positions, ActInside(r, l)
      PROVE  CacheExact' /\ ActsOnRegistry'
  BY <1>2, <1>6 DEF ActInside
<1>7. ASSUME NEW r \in Repos, NEW l \in Positions, NEW p \in Dirs, ActOnArgument(r, l, p)
      PROVE  CacheExact' /\ ActsOnRegistry'
  BY <1>2, <1>7 DEF ActOnArgument
<1>8. ASSUME NEW r \in Repos, NEW l \in Positions, PullRepo(r, l)
      PROVE  CacheExact' /\ ActsOnRegistry'
  <2>1. UNCHANGED <<gittrees, acted>>
    BY <1>8 DEF PullRepo
  <2> QED
    BY <1>1, <1>4, <1>8, <2>1 DEF PullRepo
<1>9. ASSUME NEW r \in Repos, NEW e \in Lines, RegisterOnly(r, e)
      PROVE  CacheExact' /\ ActsOnRegistry'
  BY <1>3, <1>9 DEF RegisterOnly, AddLine
<1>10. ASSUME NEW r \in Repos, NEW e \in Lines, NEW u \in Urls \union {NoRemote}, AddCalled(r, e, u)
       PROVE  CacheExact' /\ ActsOnRegistry'
  BY <1>4, <1>10 DEF AddCalled
<1>11. CASE AddRemote \/ Fetch \/ Import
  BY <1>4, <1>11 DEF AddRemote, Fetch, Import, AddFails
<1>12. CASE RegisterAdded \/ Restart
  BY <1>3, <1>12 DEF RegisterAdded, AddLine, Restart
<1>13. CASE UNCHANGED subtreeVars
  BY <1>4, <1>13 DEF subtreeVars
<1> QED
  BY <1>5, <1>6, <1>7, <1>8, <1>9, <1>10, <1>11, <1>12, <1>13 DEF GNext

\* The types of the registry's state, and the agreement of registry and repository,
\* hold in every state.
THEOREM RegistryInvHolds == GSpec => []RegistryInv
<1>1. RegistryInv /\ [GNext]_subtreeVars => RegistryInv'
  BY RegistryNext
<1> QED
  BY <1>1, RegistryInit, PTL DEF GSpec

\* Registry and repository agree: every subtree that is there is named in .gittrees,
\* save an add between its two halves and what a crash there has left, and every line
\* names one that is there, save what was registered for no subtree, by hand or by
\* others; for any repositories and whoever writes.
THEOREM RegistryMatchesRepository == GSpec => []RegistryAgrees
<1>1. RegistryInv => RegistryAgrees
  BY DEF RegistryInv
<1> QED
  BY <1>1, RegistryInvHolds, PTL

\* Every pull and push of a subtree acts on what .gittrees says, if the server's own
\* subtree commands alone write it and one repository is asked about.
THEOREM CommandsFollowRegistry ==
  ASSUME SoleWriter
  PROVE  GSpec => []ActsOnRegistry
<1>1. GInit => CacheExact /\ ActsOnRegistry
  BY DEF GInit, CacheExact, ActsOnRegistry
<1>2. RegistryInv /\ CacheExact /\ ActsOnRegistry /\ [GNext]_subtreeVars
        => (CacheExact /\ ActsOnRegistry)'
  BY CacheNext
<1> QED
  BY <1>1, <1>2, RegistryInvHolds, PTL DEF GSpec

----------------------------------------------------------------------------
(* Lenses.                                                                 *)

\* What the answers of a get are: a branch, a leaf or nothing.
LEMMA KeysAreSequences ==
  /\ Keys \subseteq Seq(NodeNames)
  /\ \A key \in Keys : Len(key) <= MaxKey
  /\ \A local \in Locals : local \in Seq(NodeNames)
<1>1. ASSUME NEW key \in Keys PROVE key \in Seq(NodeNames) /\ Len(key) <= MaxKey
  <2>1. PICK m \in 0..MaxKey : key \in [1..m -> NodeNames]
    BY <1>1 DEF Keys, BoundedSeq, SeqOf
  <2>2. MaxKey \in Nat /\ m \in Nat
    BY XPathAssumption
  <2>3. key \in Seq(NodeNames) /\ Len(key) = m
    BY <2>1, <2>2
  <2>4. QED
    BY <2>2, <2>3
<1>2. QED
  BY <1>1, XPathAssumption

\* The files of a tree: what is there and is no directory.
IsFile(t, path) == path \in DOMAIN t /\ t[path] # Directory

LEMMA MetaNameIsSegment ==
  ASSUME NEW key \in Seq(NodeNames), IsMetaName(key)
  PROVE  HasMetaSegment(key)
<1>1. key # <<>> /\ key[Len(key)] \in MetaNames
  BY DEF IsMetaName, Last
<1>2. Len(key) \in DOMAIN key
  BY <1>1
<1>3. QED
  BY <1>1, <1>2 DEF HasMetaSegment

\* What a lens shows of a file: the data lens those without an underscored name in the key,
\* the metadata lens the others.
LEMMA FileIsSeen ==
  ASSUME NEW key \in Seq(NodeNames), NEW lens \in Lenses
  PROVE  SeesFile(lens, key) <=> \/ lens = "raw"
                                 \/ lens = "data" /\ ~HasMetaSegment(key)
                                 \/ lens = "metadata" /\ HasMetaSegment(key)
<1>1. CASE lens = "raw"
  BY <1>1 DEF SeesFile
<1>2. CASE lens = "data"
  BY <1>2 DEF SeesFile
<1>3. CASE lens = "metadata"
  BY <1>3, MetaNameIsSegment DEF SeesFile
<1>4. QED
  BY <1>1, <1>2, <1>3 DEF Lenses

\* The answer of a plain get.
LEMMA PlainGet ==
  ASSUME NEW t, NEW lens \in Lenses, NEW local, NEW key \in Seq(NodeNames), NEW variant
  PROVE  /\ IsFile(t, local \o key) /\ SeesFile(lens, key) =>
              Get(t, lens, variant, local, key) = Leaf(t[local \o key])
         /\ IsFile(t, local \o key) /\ ~SeesFile(lens, key) =>
              Get(t, lens, variant, local, key) = NotFound
         /\ local \o key \in DOMAIN t /\ ~IsFile(t, local \o key) =>
              Get(t, lens, variant, local, key) =
                IF lens = "data" /\ HasMetaSegment(key) THEN NotFound
                ELSE Branch(Filtered(lens, key, ChildNames(t, local \o key)))
         /\ local \o key \notin DOMAIN t =>
              Get(t, lens, "uri", local, key) = NotFound
<1> DEFINE path == local \o key
<1>1. CASE lens = "data" /\ HasMetaSegment(key)
  <2>1. ~SeesFile(lens, key)
    BY <1>1, FileIsSeen
  <2>2. \A v : Get(t, lens, v, local, key) = NotFound
    BY Zenon, <1>1 DEF Get
  <2>3. QED
    BY <1>1, <2>1, <2>2
<1>2. CASE ~(lens = "data" /\ HasMetaSegment(key))
  <2>1. CASE path \in DOMAIN t /\ t[path] = Directory
    <3>1. Get(t, lens, variant, local, key) = Branch(Filtered(lens, key, ChildNames(t, path)))
      BY Zenon, <1>2, <2>1 DEF Get, ResolvePath
    <3>2. QED
      BY <1>2, <2>1, <3>1 DEF IsFile
  <2>2. CASE IsFile(t, path)
    <3>1. Get(t, lens, variant, local, key) = (IF SeesFile(lens, key) THEN Leaf(t[path]) ELSE NotFound)
      BY Zenon, <1>2, <2>2 DEF Get, ResolvePath, IsFile
    <3>2. QED
      BY <2>2, <3>1 DEF IsFile
  <2>3. CASE path \notin DOMAIN t
    <3>1. Get(t, lens, "uri", local, key) = NotFound
      BY Zenon, <1>2, <2>3 DEF Get, ResolvePath
    <3>2. QED
      BY <2>3, <3>1 DEF IsFile
  <2>4. QED
    BY <2>1, <2>2, <2>3 DEF IsFile
<1>3. QED
  BY <1>1, <1>2

\* The files a lens shows from a local root.
LEMMA FilesShown ==
  ASSUME NEW t, \A p \in DOMAIN t : t[p] \in Contents \cup {Directory},
         NEW lens \in Lenses, NEW local
  PROVE  SeenFiles(t, lens, local) =
           {<<k, Leaf(t[local \o k])>> :
              k \in {q \in Keys : IsFile(t, local \o q) /\ SeesFile(lens, q)}}
<1> DEFINE shown(k) == Get(t, lens, "uri", local, k)
           files == {q \in Keys : IsFile(t, local \o q) /\ SeesFile(lens, q)}
<1>1. \A k \in files : shown(k) = Leaf(t[local \o k])
  BY PlainGet, KeysAreSequences
<1>2. ASSUME NEW k \in files
      PROVE  shown(k) # NotFound /\ shown(k).kind = "leaf"
  <2>1. t[local \o k] \in Contents
    BY DEF IsFile
  <2>2. Leaf(t[local \o k]) # NotFound /\ Leaf(t[local \o k]).kind = "leaf"
    BY <2>1, XPathAssumption DEF Leaf
  <2>3. QED
    BY <1>1, <2>2
<1>3. ASSUME NEW k \in Keys, k \notin files
      PROVE  ~(shown(k) # NotFound /\ shown(k).kind = "leaf")
  <2>1. k \in Seq(NodeNames)
    BY KeysAreSequences
  <2>2. CASE IsFile(t, local \o k)
    BY <1>3, <2>1, <2>2, PlainGet
  <2>3. CASE local \o k \notin DOMAIN t
    BY <2>1, <2>3, PlainGet
  <2>4. CASE local \o k \in DOMAIN t /\ ~IsFile(t, local \o k)
    <3>1. shown(k) = NotFound \/ shown(k) = Branch(Filtered(lens, k, ChildNames(t, local \o k)))
      BY <2>1, <2>4, PlainGet
    <3>2. \A names : Branch(names).kind = "branch"
      BY DEF Branch
    <3>3. QED
      BY <3>1, <3>2
  <2>5. QED
    BY <2>2, <2>3, <2>4
<1>4. files = {q \in Keys : shown(q) # NotFound /\ shown(q).kind = "leaf"}
  BY <1>2, <1>3
<1>5. SeenFiles(t, lens, local) = {<<k, shown(k)>> : k \in files}
  BY <1>4 DEF SeenFiles
<1>6. QED
  BY <1>1, <1>5

\* Writing a file changes no other file.
LEMMA OthersStay ==
  ASSUME NEW t, NEW path \in Seq(NodeNames), ~Blocked(t, path), NEW c, NEW p, p # path
  PROVE  /\ IsFile(Written(t, path, c), p) <=> IsFile(t, p)
         /\ IsFile(t, p) => Written(t, path, c)[p] = t[p]
<1> DEFINE above == {SubSeq(path, 1, n) : n \in 0..(Len(path) - 1)}
<1>1. Written(t, path, c) = [q \in DOMAIN t \cup above \cup {path} |->
             IF q = path THEN c ELSE IF q \in above THEN Directory ELSE t[q]]
  BY Zenon DEF Written
<1>2. \A q \in above : ~IsFile(t, q)
  BY DEF Blocked, IsFile
<1> HIDE DEF above
<1>3. CASE p \in above
  BY <1>1, <1>2, <1>3 DEF IsFile
<1>4. CASE p \notin above
  BY <1>1, <1>4 DEF IsFile
<1>5. QED
  BY <1>3, <1>4

\* Removing a node removes what is below it and nothing else.
LEMMA RestStays ==
  ASSUME NEW t, NEW path, NEW p
  PROVE  /\ IsFile(Without(t, path), p) <=> IsFile(t, p) /\ ~IsPrefix(path, p)
         /\ IsFile(Without(t, path), p) => Without(t, path)[p] = t[p]
  BY DEF IsFile, Without

\* A key below another goes through all of its names.
LEMMA KeyBelow ==
  ASSUME NEW local \in Seq(NodeNames), NEW key \in Seq(NodeNames), NEW q \in Seq(NodeNames),
         IsPrefix(local \o key, local \o q)
  PROVE  HasMetaSegment(key) => HasMetaSegment(q)
<1> DEFINE a1 == local \o key
           b1 == local \o q
<1>1. /\ a1 \in Seq(NodeNames) /\ b1 \in Seq(NodeNames)
      /\ Len(a1) = Len(local) + Len(key) /\ Len(b1) = Len(local) + Len(q)
      /\ \A i \in 1..Len(key) : a1[Len(local) + i] = key[i]
      /\ \A i \in 1..Len(q) : b1[Len(local) + i] = q[i]
      /\ Len(local) \in Nat /\ Len(key) \in Nat /\ Len(q) \in Nat
  BY ConcatProperties
<1>2. Len(a1) <= Len(b1) /\ SubSeq(a1, 1, Len(a1)) = SubSeq(b1, 1, Len(a1))
  BY DEF IsPrefix
<1> HIDE DEF a1, b1
<1>3. \A i \in 1..Len(a1) : a1[i] = b1[i]
  <2>1. \A i \in 1..Len(a1) : SubSeq(a1, 1, Len(a1))[i] = a1[i]
    BY <1>1
  <2>2. \A i \in 1..Len(a1) : SubSeq(b1, 1, Len(a1))[i] = b1[i]
    BY <1>1, <1>2
  <2>3. QED
    BY <1>2, <2>1, <2>2
<1>4. ASSUME NEW i \in 1..Len(key) PROVE i \in 1..Len(q) /\ q[i] = key[i]
  <2>1. i \in 1..Len(q) /\ Len(local) + i \in 1..Len(a1)
    BY <1>1, <1>2
  <2>2. QED
    BY <1>1, <1>3, <2>1
<1>5. DOMAIN key = 1..Len(key) /\ DOMAIN q = 1..Len(q)
  OBVIOUS
<1>6. QED
  BY <1>4, <1>5 DEF HasMetaSegment

\* Only one key leads from a local root to a path.
LEMMA KeyIsUnique ==
  ASSUME NEW local \in Seq(NodeNames), NEW key \in Seq(NodeNames), NEW q \in Seq(NodeNames),
         local \o key = local \o q
  PROVE  key = q
<1>1. Len(local) + Len(key) = Len(local) + Len(q) /\ Len(key) \in Nat /\ Len(q) \in Nat
      /\ Len(local) \in Nat
  BY ConcatProperties
<1>2. /\ \A i \in 1..Len(key) : (local \o key)[Len(local) + i] = key[i]
      /\ \A i \in 1..Len(q) : (local \o q)[Len(local) + i] = q[i]
  BY <1>1, ConcatProperties
<1>3. Len(key) = Len(q) /\ \A i \in 1..Len(key) : key[i] = q[i]
  BY <1>1, <1>2
<1>4. QED
  BY <1>3, SeqEqual

\* What the answers and the listings are made of.
TreeInv == DOMAIN tree \subseteq Seq(NodeNames) /\ XTypeOK

\* Appending a name to a key, and what that does to its underscored segments.
LEMMA KeyAppended ==
  ASSUME NEW local \in Seq(NodeNames), NEW key \in Seq(NodeNames), NEW n \in NodeNames
  PROVE  /\ Append(key, n) \in Seq(NodeNames)
         /\ local \o Append(key, n) = Append(local \o key, n)
         /\ HasMetaSegment(Append(key, n)) <=> HasMetaSegment(key) \/ n \in MetaNames
<1>1. /\ Append(key, n) \in Seq(NodeNames)
      /\ Len(Append(key, n)) = Len(key) + 1
      /\ Append(key, n)[Len(key) + 1] = n
      /\ \A i \in 1..Len(key) : Append(key, n)[i] = key[i]
  OBVIOUS
<1>2. local \o Append(key, n) = Append(local \o key, n)
  OBVIOUS
<1>3. DOMAIN key = 1..Len(key) /\ DOMAIN Append(key, n) = 1..(Len(key) + 1) /\ Len(key) \in Nat
  BY <1>1
<1>4. HasMetaSegment(Append(key, n)) <=> HasMetaSegment(key) \/ n \in MetaNames
  <2> DEFINE longer == Append(key, n)
  <2>1. ASSUME NEW i \in DOMAIN longer, longer[i] \in MetaNames
        PROVE  HasMetaSegment(key) \/ n \in MetaNames
    <3>1. CASE i = Len(key) + 1
      BY <1>1, <2>1, <3>1
    <3>2. CASE i \in 1..Len(key)
      BY <1>1, <1>3, <2>1, <3>2 DEF HasMetaSegment
    <3>3. QED
      BY <1>3, <2>1, <3>1, <3>2
  <2>2. ASSUME NEW i \in DOMAIN key, key[i] \in MetaNames
        PROVE  HasMetaSegment(longer)
    <3>1. i \in DOMAIN longer /\ longer[i] = key[i]
      BY <1>1, <1>3
    <3>2. QED
      BY <2>2, <3>1 DEF HasMetaSegment
  <2>3. ASSUME n \in MetaNames PROVE HasMetaSegment(longer)
    <3>1. Len(key) + 1 \in DOMAIN longer /\ longer[Len(key) + 1] = n
      BY <1>1, <1>3
    <3>2. QED
      BY <2>3, <3>1 DEF HasMetaSegment
  <2>4. QED
    BY <2>1, <2>2, <2>3 DEF HasMetaSegment
<1>5. QED
  BY <1>1, <1>2, <1>4

\* A lens opens what it lists.
LEMMA ListedIsOpened == TreeInv => ListedCanBeOpened
<1> SUFFICES ASSUME TreeInv,
                    NEW lens \in Lenses, NEW local \in Locals, NEW key \in Keys,
                    Get(tree, lens, "uri", local, key) # NotFound,
                    Get(tree, lens, "uri", local, key).kind = "branch",
                    NEW n \in Get(tree, lens, "uri", local, key).names
             PROVE  Get(tree, lens, "uri", local, Append(key, n)) # NotFound
  BY DEF ListedCanBeOpened
<1> DEFINE path == local \o key
           child == Append(key, n)
<1>1. local \in Seq(NodeNames) /\ key \in Seq(NodeNames)
  BY KeysAreSequences
<1>2. \A p \in DOMAIN tree : tree[p] \in Contents \cup {Directory}
  BY DEF TreeInv, XTypeOK
<1>3. path \in DOMAIN tree /\ ~IsFile(tree, path)
  <2>1. ASSUME IsFile(tree, path) PROVE FALSE
    <3>1. Get(tree, lens, "uri", local, key) = Leaf(tree[path])
      BY <1>1, <2>1, PlainGet
    <3>2. QED
      BY <3>1 DEF Leaf
  <2>2. path \in DOMAIN tree
    BY <1>1, PlainGet
  <2>3. QED
    BY <2>1, <2>2
<1>4. /\ ~(lens = "data" /\ HasMetaSegment(key))
      /\ Get(tree, lens, "uri", local, key) = Branch(Filtered(lens, key, ChildNames(tree, path)))
  BY <1>1, <1>3, PlainGet
<1>5. n \in Filtered(lens, key, ChildNames(tree, path))
  BY <1>4 DEF Branch
<1>6. /\ n \in ChildNames(tree, path)
      /\ lens = "data" => n \notin MetaNames
      /\ lens = "metadata" => HasMetaSegment(key) \/ n \in MetaNames
  BY <1>5 DEF Filtered, Lenses
<1>7. n \in NodeNames /\ Append(path, n) \in DOMAIN tree
  BY <1>6 DEF ChildNames
<1>8. /\ child \in Seq(NodeNames)
      /\ local \o child \in DOMAIN tree
      /\ HasMetaSegment(child) <=> HasMetaSegment(key) \/ n \in MetaNames
  BY <1>1, <1>7, KeyAppended
<1> SUFFICES Get(tree, lens, "uri", local, child) # NotFound
  OBVIOUS
<1> HIDE DEF child
<1>9. SeesFile(lens, child) /\ ~(lens = "data" /\ HasMetaSegment(child))
  BY <1>4, <1>6, <1>8, FileIsSeen DEF Lenses
<1>10. CASE IsFile(tree, local \o child)
  <2>1. Get(tree, lens, "uri", local, child) = Leaf(tree[local \o child])
    BY <1>8, <1>9, <1>10, PlainGet
  <2>2. tree[local \o child] \in Contents
    BY <1>2, <1>10 DEF IsFile
  <2>3. QED
    BY <2>1, <2>2, XPathAssumption
<1>11. CASE ~IsFile(tree, local \o child)
  <2> DEFINE names == Filtered(lens, child, ChildNames(tree, local \o child))
  <2>1. Get(tree, lens, "uri", local, child) = Branch(names)
    BY <1>8, <1>9, <1>11, PlainGet
  <2>2. names \in SUBSET NodeNames
    BY DEF Filtered, ChildNames, Lenses
  <2>3. NotFound # Branch(names)
    BY <2>2, XPathAssumption
  <2>4. QED
    BY <2>1, <2>3
<1>12. QED
  BY <1>10, <1>11

\* Every file is in one lens of data and metadata.
LEMMA OneLens == TreeInv => EachFileInOneLens
<1> SUFFICES ASSUME TreeInv, NEW local \in Locals
             PROVE  LET data == SeenFiles(tree, "data", local)
                        metadata == SeenFiles(tree, "metadata", local)
                    IN  /\ data \intersect metadata = {}
                        /\ data \union metadata = SeenFiles(tree, "raw", local)
  BY DEF EachFileInOneLens
<1> DEFINE here == {q \in Keys : IsFile(tree, local \o q)}
           seen(k) == <<k, Leaf(tree[local \o k])>>
<1>1. \A p \in DOMAIN tree : tree[p] \in Contents \cup {Directory}
  BY DEF TreeInv, XTypeOK
<1>2. \A lens \in Lenses :
        SeenFiles(tree, lens, local) = {seen(k) : k \in {q \in here : SeesFile(lens, q)}}
  <2>1. SUFFICES ASSUME NEW lens \in Lenses
                 PROVE  SeenFiles(tree, lens, local)
                          = {seen(k) : k \in {q \in here : SeesFile(lens, q)}}
    OBVIOUS
  <2>2. {q \in here : SeesFile(lens, q)}
          = {q \in Keys : IsFile(tree, local \o q) /\ SeesFile(lens, q)}
    OBVIOUS
  <2>3. SeenFiles(tree, lens, local) =
           {<<k, Leaf(tree[local \o k])>> :
              k \in {q \in Keys : IsFile(tree, local \o q) /\ SeesFile(lens, q)}}
    BY <1>1, FilesShown
  <2>4. QED
    BY <2>2, <2>3
<1>3. \A k \in here : /\ SeesFile("raw", k)
                      /\ SeesFile("data", k) <=> ~SeesFile("metadata", k)
  BY KeysAreSequences, FileIsSeen DEF Lenses
<1>4. "raw" \in Lenses /\ "data" \in Lenses /\ "metadata" \in Lenses
  BY DEF Lenses
<1>5. \A k1, k2 : seen(k1) = seen(k2) => k1 = k2
  OBVIOUS
<1> HIDE DEF here, seen
<1>6. QED
  BY <1>2, <1>3, <1>4, <1>5

\* A lens whose files a change does not touch shows the same.
LEMMA SameFilesShown ==
  ASSUME NEW t, \A p \in DOMAIN t : t[p] \in Contents \cup {Directory},
         NEW u, \A p \in DOMAIN u : u[p] \in Contents \cup {Directory},
         NEW lens \in Lenses, NEW local,
         \A k \in Keys : SeesFile(lens, k) =>
            /\ IsFile(u, local \o k) <=> IsFile(t, local \o k)
            /\ IsFile(t, local \o k) => u[local \o k] = t[local \o k]
  PROVE  SeenFiles(u, lens, local) = SeenFiles(t, lens, local)
<1> DEFINE of(x) == {q \in Keys : IsFile(x, local \o q) /\ SeesFile(lens, q)}
<1>1. SeenFiles(t, lens, local) = {<<k, Leaf(t[local \o k])>> : k \in of(t)}
  BY FilesShown
<1>2. SeenFiles(u, lens, local) = {<<k, Leaf(u[local \o k])>> : k \in of(u)}
  BY FilesShown
<1>3. of(u) = of(t) /\ \A k \in of(t) : u[local \o k] = t[local \o k]
  OBVIOUS
<1> HIDE DEF of
<1>4. QED
  BY <1>1, <1>2, <1>3

\* The names above a name above a node are above the node.
LEMMA AboveAbove ==
  ASSUME NEW path \in Seq(NodeNames), NEW m \in 0..Len(path), NEW n \in 0..m
  PROVE  /\ SubSeq(path, 1, m) \in Seq(NodeNames)
         /\ Len(SubSeq(path, 1, m)) = m
         /\ SubSeq(SubSeq(path, 1, m), 1, n) = SubSeq(path, 1, n)
<1> DEFINE upper == SubSeq(path, 1, m)
<1>1. /\ upper \in Seq(NodeNames) /\ Len(upper) = m
      /\ \A i \in 1..m : upper[i] = path[i]
      /\ Len(path) \in Nat /\ m \in Nat /\ n \in Nat /\ n <= m /\ m <= Len(path)
  OBVIOUS
<1> SUFFICES SubSeq(upper, 1, n) = SubSeq(path, 1, n)
  BY <1>1
<1> HIDE DEF upper
<1>2. /\ SubSeq(upper, 1, n) \in Seq(NodeNames) /\ Len(SubSeq(upper, 1, n)) = n
      /\ \A i \in 1..n : SubSeq(upper, 1, n)[i] = upper[i]
  BY <1>1
<1>3. /\ SubSeq(path, 1, n) \in Seq(NodeNames) /\ Len(SubSeq(path, 1, n)) = n
      /\ \A i \in 1..n : SubSeq(path, 1, n)[i] = path[i]
  BY <1>1
<1>4. \A i \in 1..n : SubSeq(upper, 1, n)[i] = SubSeq(path, 1, n)[i]
  BY <1>1, <1>2, <1>3
<1>5. QED
  BY <1>2, <1>3, <1>4, SeqEqual

\* A tree: its nodes are paths, and what is above a node is there and is a directory.
Tree(t) ==
  /\ DOMAIN t \subseteq Seq(NodeNames)
  /\ \A p \in DOMAIN t : t[p] \in Contents \cup {Directory}
  /\ \A p \in DOMAIN t : \A n \in 0..(Len(p) - 1) : ~IsFile(t, SubSeq(p, 1, n))
  /\ \A p \in DOMAIN t : \A n \in 0..Len(p) : SubSeq(p, 1, n) \in DOMAIN t

LEMMA TreeIsTree == TreeInv <=> Tree(tree)
  BY DEF TreeInv, XTypeOK, Tree, Blocked, IsFile

\* Writing a file leaves a tree.
LEMMA WrittenIsTree ==
  ASSUME NEW t, Tree(t), NEW path \in Seq(NodeNames), NEW c \in Contents,
         ~Blocked(t, path), ~(path \in DOMAIN t /\ t[path] = Directory)
  PROVE  Tree(Written(t, path, c))
<1> DEFINE above == {SubSeq(path, 1, n) : n \in 0..(Len(path) - 1)}
           w == [q \in DOMAIN t \cup above \cup {path} |->
                   IF q = path THEN c ELSE IF q \in above THEN Directory ELSE t[q]]
<1>1. Written(t, path, c) = w
  BY Zenon DEF Written
<1>2. Len(path) \in Nat /\ path = SubSeq(path, 1, Len(path))
  <2>1. /\ SubSeq(path, 1, Len(path)) \in Seq(NodeNames)
        /\ Len(SubSeq(path, 1, Len(path))) = Len(path)
        /\ \A i \in 1..Len(path) : SubSeq(path, 1, Len(path))[i] = path[i]
    OBVIOUS
  <2>2. QED
    BY <2>1, SeqEqual
<1>3. \A q \in above : q \in Seq(NodeNames) /\ Len(q) < Len(path) /\ q # path
  <2>1. SUFFICES ASSUME NEW m \in 0..(Len(path) - 1)
                 PROVE  /\ SubSeq(path, 1, m) \in Seq(NodeNames)
                        /\ Len(SubSeq(path, 1, m)) < Len(path)
                        /\ SubSeq(path, 1, m) # path
    OBVIOUS
  <2>2. m \in 0..Len(path) /\ 0 \in 0..m /\ m < Len(path)
    BY <1>2
  <2>3. SubSeq(path, 1, m) \in Seq(NodeNames) /\ Len(SubSeq(path, 1, m)) = m
    BY <2>2, AboveAbove
  <2>4. QED
    BY <2>2, <2>3
<1>4. \A q \in above : ~IsFile(t, q)
  BY DEF Blocked, IsFile
<1>5. \A q \in above \cup {path} : \E m \in 0..Len(path) : q = SubSeq(path, 1, m)
  <2>1. 0..(Len(path) - 1) \subseteq 0..Len(path) /\ Len(path) \in 0..Len(path)
    BY <1>2
  <2>2. \A q \in above : \E m \in 0..Len(path) : q = SubSeq(path, 1, m)
    BY <2>1
  <2>3. \E m \in 0..Len(path) : path = SubSeq(path, 1, m)
    BY Zenon, <1>2, <2>1
  <2>4. QED
    BY <2>2, <2>3
<1>6. \A m \in 0..(Len(path) - 1) : SubSeq(path, 1, m) \in above
  OBVIOUS
<1> HIDE DEF above
<1>7. /\ DOMAIN w = DOMAIN t \cup above \cup {path}
      /\ w[path] = c
      /\ \A q \in above : w[q] = Directory
      /\ \A q \in DOMAIN t \ (above \cup {path}) : w[q] = t[q]
  BY <1>3
<1> HIDE DEF w
<1>8. DOMAIN w \subseteq Seq(NodeNames)
  BY <1>3, <1>7 DEF Tree
<1>9. \A p \in DOMAIN w : w[p] \in Contents \cup {Directory}
  BY <1>7 DEF Tree
<1>10. ASSUME NEW p \in DOMAIN w, NEW n \in 0..(Len(p) - 1)
       PROVE  SubSeq(p, 1, n) \in DOMAIN w /\ ~IsFile(w, SubSeq(p, 1, n))
  <2>1. CASE p \in above \cup {path}
    <3>1. PICK m \in 0..Len(path) : p = SubSeq(path, 1, m)
      BY <1>5, <2>1
    <3>2. n \in 0..m /\ n \in 0..(Len(path) - 1)
      <4>1. 0 \in 0..m /\ Len(p) = m
        BY <3>1, <1>2, AboveAbove
      <4>2. QED
        BY <4>1, <1>2
    <3>3. SubSeq(p, 1, n) = SubSeq(path, 1, n)
      BY <3>1, <3>2, AboveAbove
    <3>4. SubSeq(p, 1, n) \in above
      BY <1>6, <3>2, <3>3
    <3>5. QED
      BY <1>7, <3>4 DEF IsFile
  <2>2. CASE p \in DOMAIN t
    <3>1. p \in Seq(NodeNames) /\ n \in 0..Len(p)
      BY <2>2 DEF Tree
    <3>2. SubSeq(p, 1, n) \in DOMAIN t /\ ~IsFile(t, SubSeq(p, 1, n))
      BY <2>2, <3>1 DEF Tree
    <3>3. SubSeq(p, 1, n) # path
      BY <3>2 DEF IsFile
    <3>4. QED
      BY <1>7, <3>2, <3>3 DEF IsFile
  <2>3. QED
    BY <1>7, <2>1, <2>2
<1>11. ASSUME NEW p \in DOMAIN w, NEW n \in 0..Len(p)
       PROVE  SubSeq(p, 1, n) \in DOMAIN w
  <2>1. p \in Seq(NodeNames) /\ Len(p) \in Nat
    BY <1>8
  <2>2. CASE n \in 0..(Len(p) - 1)
    BY <1>10, <2>2
  <2>3. CASE n = Len(p)
    <3>1. /\ SubSeq(p, 1, Len(p)) \in Seq(NodeNames)
          /\ Len(SubSeq(p, 1, Len(p))) = Len(p)
          /\ \A i \in 1..Len(p) : SubSeq(p, 1, Len(p))[i] = p[i]
      BY <2>1
    <3>2. SubSeq(p, 1, Len(p)) = p
      BY <2>1, <3>1, SeqEqual
    <3>3. QED
      BY <2>3, <3>2
  <2>4. QED
    BY <2>1, <2>2, <2>3
<1>12. QED
  BY <1>1, <1>8, <1>9, <1>10, <1>11 DEF Tree

\* Removing a node with what is below it leaves a tree.
LEMMA WithoutIsTree ==
  ASSUME NEW t, Tree(t), NEW path \in Seq(NodeNames)
  PROVE  Tree(Without(t, path))
<1> DEFINE w == Without(t, path)
<1>1. /\ DOMAIN w = {q \in DOMAIN t : ~IsPrefix(path, q)}
      /\ \A q \in DOMAIN w : w[q] = t[q]
  BY DEF Without
<1> HIDE DEF w
<1>2. ASSUME NEW p \in DOMAIN w, NEW n \in 0..Len(p)
      PROVE  SubSeq(p, 1, n) \in DOMAIN w
  <2> DEFINE q == SubSeq(p, 1, n)
  <2>1. p \in Seq(NodeNames) /\ q \in DOMAIN t /\ ~IsPrefix(path, p) /\ Len(p) \in Nat
    BY <1>1 DEF Tree
  <2>2. SUFFICES ASSUME IsPrefix(path, q) PROVE FALSE
    BY <1>1, <2>1
  <2>3. 0 \in 0..n /\ n \in 0..Len(p)
    BY <2>1
  <2>4. q \in Seq(NodeNames) /\ Len(q) = n
    BY <2>1, <2>3, AboveAbove
  <2>5. Len(path) <= n /\ SubSeq(path, 1, Len(path)) = SubSeq(q, 1, Len(path)) /\ Len(path) \in Nat
    BY <2>2, <2>4 DEF IsPrefix
  <2>6. SubSeq(q, 1, Len(path)) = SubSeq(p, 1, Len(path))
    <3>1. Len(path) \in 0..n
      BY <2>3, <2>5
    <3>2. QED
      BY <2>1, <2>3, <3>1, AboveAbove
  <2>7. IsPrefix(path, p)
    BY <2>1, <2>3, <2>5, <2>6 DEF IsPrefix
  <2>8. QED
    BY <2>1, <2>7
<1>3. ASSUME NEW p \in DOMAIN w, NEW n \in 0..(Len(p) - 1)
      PROVE  ~IsFile(w, SubSeq(p, 1, n))
  <2>1. p \in DOMAIN t /\ ~IsFile(t, SubSeq(p, 1, n))
    BY <1>1 DEF Tree
  <2>2. QED
    BY <1>1, <2>1 DEF IsFile
<1>4. QED
  BY <1>1, <1>2, <1>3 DEF Tree, w

LEMMA TreeInvInit == XInit => TreeInv
<1> SUFFICES ASSUME XInit PROVE Tree(tree)
  BY TreeIsTree
<1>1. DOMAIN tree = {<<>>} /\ tree[<<>>] = Directory
  BY DEF XInit
<1>2. \A n \in 0..Len(<<>>) : SubSeq(<<>>, 1, n) = <<>>
  OBVIOUS
<1>3. <<>> \in Seq(NodeNames) /\ 0..(Len(<<>>) - 1) = {}
  OBVIOUS
<1>4. QED
  BY <1>1, <1>2, <1>3 DEF Tree

LEMMA PathOfKey ==
  ASSUME NEW local \in Locals, NEW key \in Keys
  PROVE  local \in Seq(NodeNames) /\ key \in Seq(NodeNames) /\ local \o key \in Seq(NodeNames)
<1>1. local \in Seq(NodeNames) /\ key \in Seq(NodeNames)
  BY KeysAreSequences
<1>2. QED
  BY <1>1, ConcatProperties

\* What a put does: it changes nothing, or it writes a file the lens shows.
LEMMA PutOutcome ==
  ASSUME NEW lens \in Lenses, NEW local \in Locals, NEW key \in Keys, NEW c \in Contents,
         PutNode(lens, local, key, c)
  PROVE  \/ tree' = tree /\ answer' = Refused
         \/ /\ SeesFile(lens, key)
            /\ ~Blocked(tree, local \o key)
            /\ ~(local \o key \in DOMAIN tree /\ tree[local \o key] = Directory)
            /\ tree' = Written(tree, local \o key, c)
  BY Zenon, PutNode(lens, local, key, c) DEF PutNode, Accepts, ResolvePath

LEMMA RemoveOutcome ==
  ASSUME NEW lens \in Lenses, NEW local \in Locals, NEW key \in Keys,
         RemoveNode(lens, local, key)
  PROVE  \/ tree' = tree
         \/ SeesFile(lens, key) /\ tree' = Without(tree, local \o key)
  BY Zenon, RemoveNode(lens, local, key) DEF RemoveNode, Accepts, ResolvePath

LEMMA TreeStep == TreeInv /\ [XNext]_xpathVars => TreeInv'
<1> SUFFICES ASSUME Tree(tree), [XNext]_xpathVars PROVE Tree(tree')
  BY TreeIsTree DEF TreeInv, XTypeOK, Tree, Blocked, IsFile
<1>1. CASE UNCHANGED xpathVars
  BY <1>1 DEF xpathVars
<1>2. ASSUME NEW lens \in Lenses, NEW local \in Locals, NEW key \in Keys,
             NEW v \in Variants, GetNode(lens, v, local, key)
      PROVE  Tree(tree')
  BY <1>2 DEF GetNode
<1>3. ASSUME NEW lens \in Lenses, NEW local \in Locals, NEW key \in Keys,
             NEW c \in Contents, PutNode(lens, local, key, c)
      PROVE  Tree(tree')
  BY <1>3, PutOutcome, PathOfKey, WrittenIsTree
<1>4. ASSUME NEW lens \in Lenses, NEW local \in Locals, NEW key \in Keys,
             RemoveNode(lens, local, key)
      PROVE  Tree(tree')
  BY <1>4, RemoveOutcome, PathOfKey, WithoutIsTree
<1>5. QED
  BY <1>1, <1>2, <1>3, <1>4 DEF XNext

\* What was written is shown, through the lens that accepted it.
LEMMA WrittenIsShown ==
  ASSUME NEW t, NEW lens \in Lenses, NEW local \in Locals, NEW key \in Keys, NEW c \in Contents,
         SeesFile(lens, key), NEW v
  PROVE  Get(Written(t, local \o key, c), lens, v, local, key) = Leaf(c)
<1> DEFINE w == Written(t, local \o key, c)
<1>1. local \o key \in DOMAIN w /\ w[local \o key] = c
  BY DEF Written
<1>2. c # Directory
  BY XPathAssumption
<1>3. IsFile(w, local \o key)
  BY <1>1, <1>2 DEF IsFile
<1> HIDE DEF w
<1>4. Get(w, lens, v, local, key) = Leaf(w[local \o key])
  BY <1>3, PathOfKey, PlainGet
<1>5. Get(w, lens, v, local, key) = Leaf(c)
  BY <1>1, <1>4
<1>6. QED
  BY <1>5 DEF w

LEMMA PutReadStep ==
  ASSUME PutIsRead, [XNext]_xpathVars
  PROVE  PutIsRead'
<1>1. CASE UNCHANGED xpathVars
  BY <1>1 DEF xpathVars, PutIsRead
<1>2. ASSUME NEW lens \in Lenses, NEW local \in Locals, NEW key \in Keys,
             NEW v \in Variants, GetNode(lens, v, local, key)
      PROVE  PutIsRead'
  <2>1. request'.op = "get"
    BY <1>2 DEF GetNode, Asked
  <2>2. QED
    BY <2>1 DEF PutIsRead
<1>3. ASSUME NEW lens \in Lenses, NEW local \in Locals, NEW key \in Keys,
             NEW c \in Contents, PutNode(lens, local, key, c)
      PROVE  PutIsRead'
  <2>1. request' = [op |-> "put", lens |-> lens, local |-> local, key |-> key, content |-> c]
    BY Zenon, <1>3 DEF PutNode, Asked
  <2>2. /\ request'.lens = lens /\ request'.local = local /\ request'.key = key
        /\ request'.content = c
    BY <2>1
  <2>3. CASE answer' = Refused
    BY <2>3, XPathAssumption DEF PutIsRead
  <2>4. CASE SeesFile(lens, key) /\ tree' = Written(tree, local \o key, c)
    <3>1. \A v \in Variants : Get(tree', lens, v, local, key) = Leaf(c)
      BY <2>4, WrittenIsShown
    <3>2. QED
      BY <2>2, <3>1 DEF PutIsRead
  <2>5. QED
    BY <1>3, <2>3, <2>4, PutOutcome
<1>4. ASSUME NEW lens \in Lenses, NEW local \in Locals, NEW key \in Keys,
             RemoveNode(lens, local, key)
      PROVE  PutIsRead'
  <2>1. request'.op = "remove"
    BY <1>4 DEF RemoveNode, Asked
  <2>2. QED
    BY <2>1 DEF PutIsRead
<1>5. QED
  BY <1>1, <1>2, <1>3, <1>4 DEF XNext

\* The lenses data and metadata have no key in common.
LEMMA KeysApart ==
  ASSUME NEW key \in Keys
  PROVE  SeesFile("data", key) <=> ~SeesFile("metadata", key)
<1>1. key \in Seq(NodeNames) /\ "data" \in Lenses /\ "metadata" \in Lenses
  BY KeysAreSequences DEF Lenses
<1>2. QED
  BY <1>1, FileIsSeen

\* A put through a lens changes no file of the keys that lens does not accept.
LEMMA PutKeepsOthers ==
  ASSUME TreeInv, TreeInv', NEW lens \in Lenses, NEW other \in Lenses,
         NEW local \in Locals, NEW key \in Keys, NEW c \in Contents,
         PutNode(lens, local, key, c),
         \A k \in Keys : SeesFile(lens, k) => ~SeesFile(other, k)
  PROVE  SeenFiles(tree', other, local) = SeenFiles(tree, other, local)
<1>1. CASE tree' = tree
  BY <1>1
<1>2. CASE tree' # tree
  <2>1. /\ SeesFile(lens, key)
        /\ ~Blocked(tree, local \o key)
        /\ tree' = Written(tree, local \o key, c)
    BY <1>2, PutOutcome
  <2>2. ASSUME NEW k \in Keys, SeesFile(other, k)
        PROVE  /\ IsFile(tree', local \o k) <=> IsFile(tree, local \o k)
               /\ IsFile(tree, local \o k) => tree'[local \o k] = tree[local \o k]
    <3>1. local \o k # local \o key
      BY <2>1, <2>2, PathOfKey, KeyIsUnique
    <3>2. QED
      BY <2>1, <3>1, PathOfKey, OthersStay
  <2>3. /\ \A p \in DOMAIN tree : tree[p] \in Contents \cup {Directory}
        /\ \A p \in DOMAIN tree' : tree'[p] \in Contents \cup {Directory}
    BY DEF TreeInv, XTypeOK
  <2>4. QED
    BY <2>2, <2>3, SameFilesShown
<1>3. QED
  BY <1>1, <1>2

\* Nor does a remove through the metadata lens: below an underscored name every key has one.
LEMMA RemoveKeepsData ==
  ASSUME TreeInv, TreeInv', NEW local \in Locals, NEW key \in Keys,
         RemoveNode("metadata", local, key)
  PROVE  SeenFiles(tree', "data", local) = SeenFiles(tree, "data", local)
<1>1. CASE tree' = tree
  BY <1>1
<1>2. CASE tree' # tree
  <2>1. SeesFile("metadata", key) /\ tree' = Without(tree, local \o key)
    BY <1>2, RemoveOutcome DEF Lenses
  <2>2. HasMetaSegment(key)
    BY <2>1, PathOfKey, FileIsSeen DEF Lenses
  <2>3. ASSUME NEW k \in Keys, SeesFile("data", k)
        PROVE  /\ IsFile(tree', local \o k) <=> IsFile(tree, local \o k)
               /\ IsFile(tree, local \o k) => tree'[local \o k] = tree[local \o k]
    <3>1. ~HasMetaSegment(k)
      BY <2>3, PathOfKey, FileIsSeen DEF Lenses
    <3>2. ~IsPrefix(local \o key, local \o k)
      BY <2>2, <3>1, PathOfKey, KeyBelow
    <3>3. QED
      BY <2>1, <3>2, RestStays
  <2>4. /\ \A p \in DOMAIN tree : tree[p] \in Contents \cup {Directory}
        /\ \A p \in DOMAIN tree' : tree'[p] \in Contents \cup {Directory}
    BY DEF TreeInv, XTypeOK
  <2>5. "data" \in Lenses
    BY DEF Lenses
  <2>6. QED
    BY <2>3, <2>4, <2>5, SameFilesShown
<1>3. QED
  BY <1>1, <1>2

\* A step keeps the lenses apart.
LensesApart ==
  /\ (tree' # tree /\ request'.lens = "metadata") =>
       SeenFiles(tree', "data", request'.local) = SeenFiles(tree, "data", request'.local)
  /\ (tree' # tree /\ request'.lens = "data" /\ request'.op = "put") =>
       SeenFiles(tree', "metadata", request'.local)
         = SeenFiles(tree, "metadata", request'.local)

LEMMA ApartStep ==
  ASSUME TreeInv, XNext
  PROVE  LensesApart
<1>1. TreeInv'
  BY TreeStep
<1>2. "data" \in Lenses /\ "metadata" \in Lenses
  BY DEF Lenses
<1>3. ASSUME NEW lens \in Lenses, NEW local \in Locals, NEW key \in Keys,
             NEW v \in Variants, GetNode(lens, v, local, key)
      PROVE  LensesApart
  BY <1>3 DEF GetNode, LensesApart
<1>4. ASSUME NEW lens \in Lenses, NEW local \in Locals, NEW key \in Keys,
             NEW c \in Contents, PutNode(lens, local, key, c)
      PROVE  LensesApart
  <2>1. request' = [op |-> "put", lens |-> lens, local |-> local, key |-> key, content |-> c]
    BY Zenon, <1>4 DEF PutNode, Asked
  <2>2. request'.lens = lens /\ request'.local = local
    BY <2>1
  <2>3. lens = "metadata" => SeenFiles(tree', "data", local) = SeenFiles(tree, "data", local)
    BY <1>1, <1>2, <1>4, KeysApart, PutKeepsOthers
  <2>4. lens = "data" => SeenFiles(tree', "metadata", local) = SeenFiles(tree, "metadata", local)
    BY <1>1, <1>2, <1>4, KeysApart, PutKeepsOthers
  <2>5. QED
    BY <2>2, <2>3, <2>4 DEF LensesApart
<1>5. ASSUME NEW lens \in Lenses, NEW local \in Locals, NEW key \in Keys,
             RemoveNode(lens, local, key)
      PROVE  LensesApart
  <2>1. request' = [op |-> "remove", lens |-> lens, local |-> local, key |-> key,
                    content |-> NotFound]
    BY Zenon, <1>5 DEF RemoveNode, Asked
  <2>2. request'.lens = lens /\ request'.local = local /\ request'.op = "remove"
    BY <2>1
  <2>3. lens = "metadata" => SeenFiles(tree', "data", local) = SeenFiles(tree, "data", local)
    BY <1>1, <1>5, RemoveKeepsData
  <2>4. QED
    BY <2>2, <2>3 DEF LensesApart
<1>6. QED
  BY <1>3, <1>4, <1>5 DEF XNext

\* A lens shows what was put through it, opens what it lists, and every file is in one of
\* data and metadata: the checks in put, in get and in the filters, written one by one
\* (metadata/put/index.js:18, metadata/get/index.js:40, data/uri/helpers.js:9), agree for
\* any names, local roots, depths and contents.
THEOREM LensesShowTheTree == XSpec => [](PutIsRead /\ ListedCanBeOpened /\ EachFileInOneLens)
<1>1. XInit => TreeInv /\ PutIsRead
  <2>1. XInit => PutIsRead
    BY DEF XInit, PutIsRead
  <2>2. QED
    BY <2>1, TreeInvInit
<1>2. TreeInv /\ PutIsRead /\ [XNext]_xpathVars => (TreeInv /\ PutIsRead)'
  BY TreeStep, PutReadStep
<1>3. TreeInv /\ PutIsRead => PutIsRead /\ ListedCanBeOpened /\ EachFileInOneLens
  BY ListedIsOpened, OneLens
<1>4. QED
  BY <1>1, <1>2, <1>3, PTL DEF XSpec

\* What is changed through the metadata lens is not seen through data, and what is put
\* through data is not seen through metadata: of a node that is removed everything below
\* goes (metadata/remove/index.js), and below an underscored name all keys are metadata.
THEOREM LensesStayApart == XSpec => LensesKeepApart
<1>1. TreeInv /\ [XNext]_xpathVars => TreeInv'
  BY TreeStep
<1>2. TreeInv /\ [XNext]_xpathVars => [LensesApart]_xpathVars
  BY ApartStep
<1>3. XSpec => [][LensesApart]_xpathVars
  BY <1>1, <1>2, TreeInvInit, PTL DEF XSpec
<1>4. QED
  BY <1>3 DEF LensesKeepApart, LensesApart
=============================================================================
