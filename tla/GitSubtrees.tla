----------------------------- MODULE GitSubtrees -----------------------------
(* Subtrees of git repositories: the registry .gittrees of each repository, the   *)
(* cache the server keeps of it (src/lib/git/subtrees.js, reality.js), and the     *)
(* handlers that use them (src/spl/mycelium/git).                                 *)
(*                                                                                *)
(* git is called synchronously: a handler runs to its end, one exec after the      *)
(* other, and only the end of the process or another program comes in between.    *)
(* An add is split at its git calls, because a crash between them leaves a part    *)
(* of it done.  A branch is not told apart from the remote it belongs to.         *)
EXTENDS SequencesExt

CONSTANTS
  Repos,        \* repositories one server is asked about
  Dirs,         \* directories that may be subtrees, as sequences of path segments
  Positions,    \* positions in a repository a command is given from
  Remotes,      \* names of remotes
  Urls,         \* where remotes may point
  SoleWriter,   \* whether the server's own subtree commands alone change .gittrees
  MaxEntries,   \* bound: length of .gittrees
  NoRemote, NoTree, NoCache, NoEntry, NoAdd, NoCommand

\* A line of .gittrees.
Lines == [prefix : Dirs, remote : Remotes]

\* An add, and the git call it is about to make.
Adds == [repo : Repos, entry : Lines, url : Urls \union {NoRemote},
         call : {"remote", "fetch", "import", "register"}]

\* SoleWriter also says that the server is asked about one repository only.
SubtreesAssumption ==
  /\ MaxEntries \in Nat
  /\ SoleWriter \in BOOLEAN
  /\ SoleWriter => \A r1, r2 \in Repos : r1 = r2
  /\ NoRemote \notin Urls
  /\ NoTree \notin Urls
  /\ NoAdd \notin Adds

ASSUME SubtreesAssumption

VARIABLES
  gittrees,  \* of each repository: the lines of .gittrees
  remotes,   \* of each repository: where each remote points
  trees,     \* of each repository: the url each subtree was imported from
  gitCache,     \* the module's cache of .gittrees, of whatever repository
  adding,    \* the add under way, with the git call it is about to make
  acted,     \* history: the last pull or push, what it found and what the file said
  orphans,   \* history: the imports that a crash kept from being registered
  byHand     \* history: the lines registered for what is no subtree

subtreeVars == <<gittrees, remotes, trees, gitCache, adding, acted, orphans, byHand>>

\* find: the first line for a prefix.
Find(entries, prefix) ==
  LET of == {i \in DOMAIN entries : entries[i].prefix = prefix}
  IN  IF of = {} THEN NoEntry ELSE entries[CHOOSE i \in of : \A j \in of : i <= j]

\* Some line names the prefix.
Registered(repo, prefix) == \E i \in DOMAIN gittrees[repo] : gittrees[repo][i].prefix = prefix

\* load: the cache, whatever it was read from, or the file.
Load(repo) == IF gitCache = NoCache THEN gittrees[repo] ELSE gitCache

\* detectReality: the first line whose prefix is the position or above it.
Reality(entries, local) ==
  LET above == {i \in DOMAIN entries : IsPrefix(entries[i].prefix, local)}
  IN  IF above = {} THEN NoEntry ELSE entries[CHOOSE i \in above : \A j \in above : i <= j]

GInit ==
  /\ gittrees = [r \in Repos |-> <<>>]
  /\ remotes = [r \in Repos |-> [n \in Remotes |-> NoRemote]]
  /\ trees = [r \in Repos |-> [p \in Dirs |-> NoTree]]
  /\ gitCache = NoCache
  /\ adding = NoAdd
  /\ acted = NoCommand
  /\ orphans = {}
  /\ byHand = {}

\* The process runs handlers one at a time.
Free == adding = NoAdd

\* The subtree has been imported and is not registered yet.
Importing == adding # NoAdd /\ adding.call = "register"

\* status, log and diff below the root, and subtree.list: they read the registry.
ReadRegistry(repo) ==
  /\ Free
  /\ gitCache' = Load(repo)
  /\ UNCHANGED <<gittrees, remotes, trees, adding, acted, orphans, byHand>>

\* Act on the prefix: pull and push look it up and give git the remote found.
ActOn(repo, prefix) ==
  acted' = [repo |-> repo, prefix |-> prefix, found |-> Find(Load(repo), prefix),
            registered |-> Find(gittrees[repo], prefix)]

\* git.pull, git.push, subtree.pull and subtree.push from inside a subtree.
ActInside(repo, local) ==
  /\ Free
  /\ Reality(Load(repo), local) # NoEntry
  /\ ActOn(repo, Reality(Load(repo), local).prefix)
  /\ gitCache' = Load(repo)
  /\ UNCHANGED <<gittrees, remotes, trees, adding, orphans, byHand>>

\* subtree.pull and subtree.push from elsewhere: the prefix is the argument.
ActOnArgument(repo, local, prefix) ==
  /\ Free
  /\ Reality(Load(repo), local) = NoEntry
  /\ ActOn(repo, prefix)
  /\ gitCache' = Load(repo)
  /\ UNCHANGED <<gittrees, remotes, trees, adding, orphans, byHand>>

\* A line is there for what may be a subtree, imported from url, or none.
Named(repo, entry, url) ==
  byHand' = IF url = NoTree THEN byHand \union {<<repo, entry.prefix>>}
            ELSE byHand \ {<<repo, entry.prefix>>}

\* git.pull outside every subtree: git merges what others have committed, which may
\* be a line of .gittrees, with its subtree or without.  The cache stays, and from the
\* root it is not even looked at.
PullRepo(repo, local) ==
  /\ Free
  /\ \/ local = <<>> /\ UNCHANGED gitCache
     \/ local # <<>> /\ Reality(Load(repo), local) = NoEntry /\ gitCache' = Load(repo)
  /\ \/ UNCHANGED <<gittrees, trees, orphans, byHand>>
     \/ /\ ~SoleWriter
        /\ Len(gittrees[repo]) < MaxEntries
        /\ \E e \in Lines : \E u \in Urls \union {trees[repo][e.prefix]} :
             /\ ~Registered(repo, e.prefix)
             /\ gittrees' = [gittrees EXCEPT ![repo] = Append(@, e)]
             /\ trees' = [trees EXCEPT ![repo][e.prefix] = u]
             /\ orphans' = orphans \ {<<repo, e.prefix>>}
             /\ Named(repo, e, u)
  /\ UNCHANGED <<remotes, adding, acted>>

\* Register without dropping the cache.
MutAddLine(repo, entry) ==
  /\ gittrees' = [gittrees EXCEPT ![repo] = Append(@, entry)]
  /\ orphans' = orphans \ {<<repo, entry.prefix>>}
  /\ UNCHANGED gitCache

\* register appends a line, also if there is one for the prefix, and drops the cache.
AddLine(repo, entry) ==
  /\ gittrees' = [gittrees EXCEPT ![repo] = Append(@, entry)]
  /\ orphans' = orphans \ {<<repo, entry.prefix>>}
  /\ gitCache' = NoCache

\* subtree.register: its documentation means it for files that are in the tree already;
\* nobody looks whether they are.
RegisterOnly(repo, entry) ==
  /\ Free
  /\ Len(gittrees[repo]) < MaxEntries
  /\ AddLine(repo, entry)
  /\ Named(repo, entry, trees[repo][entry.prefix])
  /\ UNCHANGED <<remotes, trees, adding, acted>>

\* subtree.add with or without a url: remote add comes first if there is one.
AddCalled(repo, entry, url) ==
  /\ Free
  /\ Len(gittrees[repo]) < MaxEntries
  /\ adding' = [repo |-> repo, entry |-> entry, url |-> url,
                call |-> IF url = NoRemote THEN "fetch" ELSE "remote"]
  /\ UNCHANGED <<gittrees, remotes, trees, gitCache, acted, orphans, byHand>>

\* The add ends with an error; what it has done so far stays.
AddFails ==
  /\ adding' = NoAdd
  /\ UNCHANGED <<gittrees, remotes, trees, gitCache, acted, orphans, byHand>>

\* git remote add: a remote of that name stays as it is, wherever it points.
AddRemote ==
  /\ adding # NoAdd
  /\ adding.call = "remote"
  /\ remotes' = IF remotes[adding.repo][adding.entry.remote] = NoRemote
                THEN [remotes EXCEPT ![adding.repo][adding.entry.remote] = adding.url]
                ELSE remotes
  /\ adding' = [adding EXCEPT !.call = "fetch"]
  /\ UNCHANGED <<gittrees, trees, gitCache, acted, orphans, byHand>>

\* git fetch: fails for a remote nobody has added, and for many other reasons.
Fetch ==
  /\ adding # NoAdd
  /\ adding.call = "fetch"
  /\ \/ AddFails
     \/ /\ remotes[adding.repo][adding.entry.remote] # NoRemote
        /\ adding' = [adding EXCEPT !.call = "import"]
        /\ UNCHANGED <<gittrees, remotes, trees, gitCache, acted, orphans, byHand>>

\* A subtree add whose failure is not looked at.
MutImport ==
  /\ adding # NoAdd
  /\ adding.call = "import"
  /\ adding' = [adding EXCEPT !.call = "register"]
  /\ UNCHANGED <<gittrees, remotes, trees, gitCache, acted, orphans, byHand>>

\* git subtree add: fails if the directory is there, and for many other reasons.
\* Then the entry is registered: the process may end before that.
Import ==
  /\ adding # NoAdd
  /\ adding.call = "import"
  /\ \/ AddFails
     \/ /\ \A d \in Dirs : IsPrefix(adding.entry.prefix, d) => trees[adding.repo][d] = NoTree
        /\ trees' = [trees EXCEPT ![adding.repo][adding.entry.prefix] =
                       remotes[adding.repo][adding.entry.remote]]
        /\ Named(adding.repo, adding.entry, trees'[adding.repo][adding.entry.prefix])
        /\ adding' = [adding EXCEPT !.call = "register"]
        /\ UNCHANGED <<gittrees, remotes, gitCache, acted, orphans>>

RegisterAdded ==
  /\ Importing
  /\ AddLine(adding.repo, adding.entry)
  /\ adding' = NoAdd
  /\ UNCHANGED <<remotes, trees, acted, byHand>>

\* The server ends, in the middle of whatever it does, and is started again.
Restart ==
  /\ gitCache' = NoCache
  /\ adding' = NoAdd
  /\ orphans' = IF Importing THEN orphans \union {<<adding.repo, adding.entry.prefix>>}
                ELSE orphans
  /\ UNCHANGED <<gittrees, remotes, trees, acted, byHand>>

GNext ==
  \/ \E r \in Repos :
       \/ ReadRegistry(r)
       \/ \E l \in Positions : ActInside(r, l) \/ PullRepo(r, l)
       \/ \E l \in Positions, p \in Dirs : ActOnArgument(r, l, p)
       \/ \E e \in Lines : RegisterOnly(r, e)
       \/ \E e \in Lines, u \in Urls \union {NoRemote} : AddCalled(r, e, u)
  \/ AddRemote \/ Fetch \/ Import \/ RegisterAdded
  \/ Restart

GSpec == GInit /\ [][GNext]_subtreeVars
-----------------------------------------------------------------------------
\* The variables have their types.
GTypeOK ==
  /\ gittrees \in [Repos -> Seq(Lines)]
  /\ remotes \in [Repos -> [Remotes -> Urls \union {NoRemote}]]
  /\ trees \in [Repos -> [Dirs -> Urls \union {NoTree}]]
  /\ gitCache \in Seq(Lines) \union {NoCache}
  /\ adding \in Adds \union {NoAdd}
  /\ acted # NoCommand => acted.repo \in Repos
  /\ orphans \subseteq Repos \X Dirs
  /\ byHand \subseteq Repos \X Dirs

\* A pull or push acts on what .gittrees says of its prefix at that moment: on the
\* remote of its first line, or not at all if there is none.  That is what the cache
\* (subtrees.js:9-11) and its reset (subtrees.js:40) have to keep between them.
ActsOnRegistry == acted # NoCommand => acted.found = acted.registered

\* The registry and the repository agree: a subtree is there if and only if a line
\* names it, save while an add is between importing and registering, save what a crash
\* there has left over, until it is registered by hand, and save lines that were
\* registered by hand for what is no subtree, until it is imported (subtrees.js:36-92).
\* No step of any command, and no crash, makes the two differ in another way.
RegistryAgrees ==
  \A r \in Repos, p \in Dirs :
    trees[r][p] # NoTree <=>
      \/ Registered(r, p) /\ <<r, p>> \notin byHand
      \/ <<r, p>> \in orphans
      \/ Importing /\ adding.repo = r /\ adding.entry.prefix = p
=============================================================================
