-------------------------------- MODULE XPath --------------------------------
(* The nodes of the fabric, which are files and directories, seen and changed      *)
(* through three lenses: raw, data and metadata (src/spl/mycelium/xpath).  Each     *)
(* lens has get, put and remove, in a plain variant (uri) and in one that also      *)
(* navigates into files.                                                           *)
(*                                                                                 *)
(* A handler runs to its end synchronously: a request is one action.  A path is a   *)
(* sequence of names, counted from the repository; a key is counted from the local  *)
(* root of its request.  Keys go forward: "." and ".." are not modelled.            *)
EXTENDS SequencesExt

CONSTANTS
  NodeNames,       \* names of files and directories, and of fields inside documents
  MetaNames,   \* those that start with an underscore
  Locals,      \* local roots a request may come from
  MaxKey,      \* bound: number of segments of a key
  Contents,    \* what a file may hold
  Inside,      \* of each content: its parts, by path; none if it is no document
  Directory, NotFound, Refused, Completed, NoRequest

\* What a get shows: the names in a directory, or what a file holds.
Branch(names) == [kind |-> "branch", names |-> names]
Leaf(value) == [kind |-> "leaf", value |-> value]

\* Inside[c] is a function from paths to [kind : {"branch"}, names] or {"leaf"}, value].
ASSUME XPathAssumption ==
  /\ MetaNames \subseteq NodeNames
  /\ Locals \subseteq Seq(NodeNames)
  /\ MaxKey \in Nat
  /\ Directory \notin Contents
  /\ \A c \in Contents : NotFound # Leaf(c)
  /\ \A names \in SUBSET NodeNames : NotFound # Branch(names)
  /\ Refused # Completed

Keys == BoundedSeq(NodeNames, MaxKey)
Lenses == {"raw", "data", "metadata"}
Variants == {"uri", "schema"}

VARIABLES
  tree,      \* the repository: of each path that exists, its content or Directory
  request,   \* the last request
  answer     \* what it was answered

xpathVars == <<tree, request, answer>>

\* A segment of the key starts with an underscore.
HasMetaSegment(key) == \E i \in DOMAIN key : key[i] \in MetaNames

\* The last one does.
IsMetaName(key) == key # <<>> /\ Last(key) \in MetaNames

ResolvePath(local, key) == local \o key

\* The entries of a directory.
ChildNames(t, path) == {n \in NodeNames : Append(path, n) \in DOMAIN t}

\* The data lens without filterData.
MutFiltered(lens, key, names) ==
  CASE lens \in {"raw", "data"} -> names
    [] lens = "metadata" -> IF HasMetaSegment(key) THEN names ELSE names \intersect MetaNames

\* filterData, filterMeta: what a lens lists of a directory.
Filtered(lens, key, names) ==
  CASE lens = "raw" -> names
    [] lens = "data" -> names \ MetaNames
    [] lens = "metadata" -> IF HasMetaSegment(key) THEN names ELSE names \intersect MetaNames

\* The metadata lens looking only at the last segment, as isMetaName alone does.
MutSeesFile(lens, key) ==
  CASE lens = "raw" -> TRUE
    [] lens = "data" -> ~HasMetaSegment(key)
    [] lens = "metadata" -> IsMetaName(key)

\* A file at this key, seen through the lens.
SeesFile(lens, key) ==
  CASE lens = "raw" -> TRUE
    [] lens = "data" -> ~HasMetaSegment(key)
    [] lens = "metadata" -> HasMetaSegment(key) \/ IsMetaName(key)

\* The check left out of the metadata lens.
MutAccepts(lens, key) == lens = "data" => ~HasMetaSegment(key)

\* put and remove are for these keys.
Accepts(lens, key) == SeesFile(lens, key)

\* findBoundary: where the key leaves the directories and goes on inside a file.
Boundary(t, local, key) ==
  {i \in 1..(Len(key) - 1) :
     LET file == local \o SubSeq(key, 1, i)
     IN  file \in DOMAIN t /\ t[file] # Directory}

\* Into-file navigation: decodeFile, navigateObject and inFileNode.
InFile(t, lens, local, key) ==
  LET at(i) == SubSeq(key, 1, i)
      rest(i) == SubSeq(key, i + 1, Len(key))
      seen == {i \in Boundary(t, local, key) :
                 /\ SeesFile(lens, at(i))
                 /\ rest(i) \in DOMAIN Inside[t[local \o at(i)]]}
  IN  IF seen = {} THEN NotFound
      ELSE LET i == CHOOSE i \in seen : TRUE IN Inside[t[local \o at(i)]][rest(i)]

\* The answer of get.
Get(t, lens, variant, local, key) ==
  LET path == ResolvePath(local, key)
  IN  IF lens = "data" /\ HasMetaSegment(key) THEN NotFound
      ELSE CASE path \in DOMAIN t /\ t[path] = Directory ->
                  Branch(Filtered(lens, key, ChildNames(t, path)))
             [] path \in DOMAIN t /\ t[path] # Directory ->
                  IF SeesFile(lens, key) THEN Leaf(t[path]) ELSE NotFound
             [] OTHER ->
                  IF variant = "schema" THEN InFile(t, lens, local, key) ELSE NotFound

\* Whether mkdir of the parents fails: one of them is a file.
Blocked(t, path) ==
  \E n \in 0..(Len(path) - 1) :
    SubSeq(path, 1, n) \in DOMAIN t /\ t[SubSeq(path, 1, n)] # Directory

\* The tree once a file has been written, with the directories above it.
Written(t, path, content) ==
  LET above == {SubSeq(path, 1, n) : n \in 0..(Len(path) - 1)}
  IN  [p \in DOMAIN t \union above \union {path} |->
         IF p = path THEN content ELSE IF p \in above THEN Directory ELSE t[p]]

\* The node alone removed.
MutWithout(t, path) == [p \in DOMAIN t \ {path} |-> t[p]]

\* The tree without a node and everything below it.
Without(t, path) == [p \in {q \in DOMAIN t : ~IsPrefix(path, q)} |-> t[p]]

XInit == tree = [p \in {<<>>} |-> Directory] /\ request = NoRequest /\ answer = NoRequest

Asked(op, lens, local, key, content) ==
  request' = [op |-> op, lens |-> lens, local |-> local, key |-> key, content |-> content]

GetNode(lens, variant, local, key) ==
  /\ Asked("get", lens, local, key, NotFound)
  /\ answer' = Get(tree, lens, variant, local, key)
  /\ UNCHANGED tree

\* put: refused by the lens, failed by the file system, or written.
PutNode(lens, local, key, content) ==
  LET path == ResolvePath(local, key)
  IN  /\ Asked("put", lens, local, key, content)
      /\ \/ /\ \/ ~Accepts(lens, key)
               \/ Blocked(tree, path)
               \/ path \in DOMAIN tree /\ tree[path] = Directory
            /\ answer' = Refused
            /\ UNCHANGED tree
         \/ /\ Accepts(lens, key)
            /\ ~Blocked(tree, path)
            /\ ~(path \in DOMAIN tree /\ tree[path] = Directory)
            /\ tree' = Written(tree, path, content)
            /\ answer' = Completed

\* remove: of a file, or of a directory with everything in it.
RemoveNode(lens, local, key) ==
  LET path == ResolvePath(local, key)
  IN  /\ Asked("remove", lens, local, key, NotFound)
      /\ \/ /\ ~Accepts(lens, key) \/ path \notin DOMAIN tree
            /\ answer' = Refused
            /\ UNCHANGED tree
         \/ /\ Accepts(lens, key)
            /\ path \in DOMAIN tree
            /\ tree' = Without(tree, path)
            /\ answer' = Completed

XNext ==
  \E lens \in Lenses, local \in Locals, key \in Keys :
    \/ \E v \in Variants : GetNode(lens, v, local, key)
    \/ \E c \in Contents : PutNode(lens, local, key, c)
    \/ RemoveNode(lens, local, key)

XSpec == XInit /\ [][XNext]_xpathVars
-----------------------------------------------------------------------------
\* What the files are that a lens shows from a local root, and what they hold.
SeenFiles(t, lens, local) ==
  LET shown(k) == Get(t, lens, "uri", local, k)
  IN  {<<k, shown(k)>> : k \in {q \in Keys : shown(q) # NotFound /\ shown(q).kind = "leaf"}}

\* The tree is one: what is above a node exists and is a directory.
XTypeOK ==
  /\ \A p \in DOMAIN tree : tree[p] \in Contents \union {Directory}
  /\ \A p \in DOMAIN tree : ~Blocked(tree, p)
  /\ \A p \in DOMAIN tree : \A n \in 0..Len(p) : SubSeq(p, 1, n) \in DOMAIN tree

\* A put that completed is read back through the lens it came by, in either variant:
\* what put accepts and what get shows are decided separately (metadata/put/index.js:18,
\* metadata/get/index.js:40).
PutIsRead ==
  (request # NoRequest /\ answer = Completed) =>
    (request.op = "put" =>
       \A v \in Variants :
         Get(tree, request.lens, v, request.local, request.key) = Leaf(request.content))

\* What a lens lists in a directory it also opens (data/uri/helpers.js:9,
\* metadata/uri/helpers.js:15 against the checks in the gets).
ListedCanBeOpened ==
  \A lens \in Lenses, local \in Locals, key \in Keys :
    LET shown == Get(tree, lens, "uri", local, key)
    IN  (shown # NotFound /\ Len(key) < MaxKey) =>
          (shown.kind = "branch" =>
             \A n \in shown.names : Get(tree, lens, "uri", local, Append(key, n)) # NotFound)

\* Every file is in exactly one of the lenses data and metadata.
EachFileInOneLens ==
  \A local \in Locals :
    LET data == SeenFiles(tree, "data", local)
        metadata == SeenFiles(tree, "metadata", local)
    IN  /\ data \intersect metadata = {}
        /\ data \union metadata = SeenFiles(tree, "raw", local)

\* A request through the metadata lens changes no file the data lens shows, and a put
\* through the data lens none the metadata lens shows (a remove does: see README).
LensesKeepApart ==
  [][/\ (tree' # tree /\ request'.lens = "metadata") =>
          SeenFiles(tree', "data", request'.local) = SeenFiles(tree, "data", request'.local)
     /\ (tree' # tree /\ request'.lens = "data" /\ request'.op = "put") =>
          SeenFiles(tree', "metadata", request'.local)
            = SeenFiles(tree, "metadata", request'.local)]_xpathVars
=============================================================================
