----------------------------- MODULE FuseMount -----------------------------
(* The file system mount of a drive (phase-7-swarm-app/fuse/mount.js): descriptors *)
(* whose writes are buffered until release, and the listing of the drive that is   *)
(* cached for CACHE_TTL.  The drive is shared with the node's process, which also  *)
(* writes to it.  What a file holds is abstracted to the number of its changes.    *)
(* Overlaid paths are answered from the container's files and are left out.        *)
EXTENDS Integers, FiniteSets

CONSTANTS
  Paths,        \* the files of the drive
  Requests,     \* slots for the requests of the kernel that wait for the drive
  CacheTTL,     \* how long a listing is served
  MaxFd,        \* bounds the descriptors opened
  MaxChanges,   \* bounds the changes of the drive
  MaxTime,      \* bounds the clock
  NoEntries,    \* the cache's entries when it is empty
  Idle          \* a slot without request

ASSUME FuseAssumption ==
  /\ CacheTTL \in Nat \ {0}
  /\ MaxFd \in Nat /\ MaxChanges \in Nat /\ MaxTime \in Nat

VARIABLES
  drive,      \* of every path, the number of its last change and whether it is there
  changes,    \* the changes of the drive so far
  openFiles,  \* the open descriptors: path, whether it has a buffer, whether it is dirty
  nextFd,     \* the next descriptor, counted from 0
  cache,      \* the last listing; asOf is when the drive was read, racing names the
              \* paths whose change was answered while the listing was under way
  requests,   \* the requests under way
  answered,   \* history: of every path, its last change that was answered
  now         \* the clock

fuseVars == <<drive, changes, openFiles, nextFd, cache, requests, answered, now>>

Empty == [entries |-> NoEntries, time |-> 0, asOf |-> 0, racing |-> {}]

FInit ==
  /\ drive \in [Paths -> [rev : {0}, there : BOOLEAN]]
  /\ changes = 0
  /\ openFiles = <<>>
  /\ nextFd = 0
  /\ cache = Empty
  /\ requests = [r \in Requests |-> Idle]
  /\ answered = [p \in Paths |-> 0]
  /\ now = 0

Listings == {r \in Requests : requests[r] # Idle /\ requests[r].op = "list"}
Changes == {r \in Requests : requests[r] # Idle /\ requests[r].op # "list"}

\* The drive takes a change.
Change(p, there) ==
  /\ changes < MaxChanges
  /\ changes' = changes + 1
  /\ drive' = [drive EXCEPT ![p] = [rev |-> changes + 1, there |-> there]]

----------------------------------------------------------------------------
\* readdir and getattr.

\* The cached listing is served, and the drive not read.
Fresh == cache.entries # NoEntries /\ now - cache.time < CacheTTL

\* The clock is read before the drive is.
BeginListing(r) ==
  /\ requests[r] = Idle
  /\ ~Fresh
  /\ requests' = [requests EXCEPT ![r] =
       [op |-> "list", time |-> now, entries |-> NoEntries, asOf |-> now, racing |-> {}]]
  /\ UNCHANGED <<drive, changes, openFiles, nextFd, cache, answered, now>>

\* drive.list reads the drive as it is at one moment.
ListDrive(r) ==
  /\ r \in Listings /\ requests[r].entries = NoEntries
  /\ requests' = [requests EXCEPT ![r].entries = drive, ![r].asOf = now]
  /\ UNCHANGED <<drive, changes, openFiles, nextFd, cache, answered, now>>

\* Mutant: the time of a listing is read when it is stored.
MutListed(r) == [entries |-> requests[r].entries, time |-> now,
                 asOf |-> requests[r].asOf, racing |-> requests[r].racing]

\* The listing replaces what the cache holds by now, whatever happened since.
Listed(r) == [entries |-> requests[r].entries, time |-> requests[r].time,
              asOf |-> requests[r].asOf, racing |-> requests[r].racing]

EndListing(r) ==
  /\ r \in Listings /\ requests[r].entries # NoEntries
  /\ cache' = Listed(r)
  /\ requests' = [requests EXCEPT ![r] = Idle]
  /\ UNCHANGED <<drive, changes, openFiles, nextFd, answered, now>>

\* The request is answered with an error, and the cache left as it is.
ListingFails(r) ==
  /\ r \in Listings
  /\ requests' = [requests EXCEPT ![r] = Idle]
  /\ UNCHANGED <<drive, changes, openFiles, nextFd, cache, answered, now>>

----------------------------------------------------------------------------
\* Descriptors.

OpenAs(file) ==
  /\ nextFd < MaxFd
  /\ openFiles' = [fd \in DOMAIN openFiles \union {nextFd} |->
                     IF fd = nextFd THEN file ELSE openFiles[fd]]
  /\ nextFd' = nextFd + 1
  /\ UNCHANGED <<drive, changes, requests, answered, now>>

Open(p) ==
  /\ OpenAs([path |-> p, buf |-> FALSE, dirty |-> FALSE])
  /\ UNCHANGED cache

Create(p) ==
  /\ OpenAs([path |-> p, buf |-> TRUE, dirty |-> TRUE])
  /\ cache' = Empty

Releasing(fd) == \E r \in Changes : requests[r].op = "put" /\ requests[r].fd = fd

\* write and ftruncate: both make the buffer if there is none, and dirty it.  The
\* kernel does not write to a descriptor it has released.
Write(fd) ==
  /\ ~Releasing(fd)
  /\ openFiles' = [openFiles EXCEPT ![fd].buf = TRUE, ![fd].dirty = TRUE]
  /\ UNCHANGED <<drive, changes, nextFd, cache, requests, answered, now>>

Mknod ==
  /\ cache' = Empty
  /\ UNCHANGED <<drive, changes, openFiles, nextFd, requests, answered, now>>

\* Mutant: closing a descriptor closes those of the same file with it.
MutClosed(fd) == [d \in {d \in DOMAIN openFiles : openFiles[d].path # openFiles[fd].path} |->
                    openFiles[d]]

Closed(fd) == [d \in DOMAIN openFiles \ {fd} |-> openFiles[d]]

\* A dirty descriptor is closed once its buffer is on the drive, any other at once.
Release(r, fd) ==
  /\ requests[r] = Idle /\ ~Releasing(fd)
  /\ IF openFiles[fd].dirty /\ openFiles[fd].buf
       THEN /\ requests' = [requests EXCEPT ![r] =
                 [op |-> "put", path |-> openFiles[fd].path, fd |-> fd, rev |-> 0]]
            /\ UNCHANGED <<openFiles, cache>>
       ELSE /\ openFiles' = Closed(fd)
            /\ UNCHANGED <<requests, cache>>
  /\ UNCHANGED <<drive, changes, nextFd, answered, now>>

Unlink(r, p) ==
  /\ requests[r] = Idle
  /\ requests' = [requests EXCEPT ![r] = [op |-> "del", path |-> p, rev |-> 0]]
  /\ UNCHANGED <<drive, changes, openFiles, nextFd, cache, answered, now>>

\* The drive takes the change; the handler has yet to hear of it.
Commit(r) ==
  /\ r \in Changes /\ requests[r].rev = 0
  /\ Change(requests[r].path, requests[r].op = "put")
  /\ requests' = [requests EXCEPT ![r].rev = changes + 1]
  /\ UNCHANGED <<openFiles, nextFd, cache, answered, now>>

\* What the kernel has been told of: listings that began before are marked.
Answer(r) ==
  LET p == requests[r].path IN
  /\ answered' = [answered EXCEPT ![p] = IF requests[r].rev > @ THEN requests[r].rev ELSE @]
  /\ requests' = [q \in Requests |->
       IF q = r THEN Idle
       ELSE IF q \in Listings THEN [requests[q] EXCEPT !.racing = @ \union {p}]
       ELSE requests[q]]

\* Mutant: the cache is emptied before the drive is asked, and not after.
MutComplete(r) ==
  /\ r \in Changes /\ requests[r].rev > 0
  /\ openFiles' = IF requests[r].op = "put" THEN Closed(requests[r].fd) ELSE openFiles
  /\ Answer(r)
  /\ UNCHANGED <<drive, changes, nextFd, cache, now>>

\* The await of drive.put or drive.del returns: the cache is emptied, the descriptor
\* of a release closed, and the kernel answered.
Complete(r) ==
  /\ r \in Changes /\ requests[r].rev > 0
  /\ cache' = Empty
  /\ openFiles' = IF requests[r].op = "put" THEN Closed(requests[r].fd) ELSE openFiles
  /\ Answer(r)
  /\ UNCHANGED <<drive, changes, nextFd, now>>

\* The drive refuses, as a replica that is not writable does: what was buffered is
\* dropped with the descriptor.
ChangeFails(r) ==
  /\ r \in Changes /\ requests[r].rev = 0
  /\ openFiles' = IF requests[r].op = "put" THEN Closed(requests[r].fd) ELSE openFiles
  /\ requests' = [requests EXCEPT ![r] = Idle]
  /\ UNCHANGED <<drive, changes, nextFd, cache, answered, now>>

----------------------------------------------------------------------------
\* The node's process writes to the drive it shares with the mount.
NodePuts(p) ==
  /\ Change(p, TRUE)
  /\ UNCHANGED <<openFiles, nextFd, cache, requests, answered, now>>

Tick ==
  /\ now < MaxTime
  /\ now' = now + 1
  /\ UNCHANGED <<drive, changes, openFiles, nextFd, cache, requests, answered>>

FNext ==
  \/ \E r \in Requests : \/ BeginListing(r) \/ ListDrive(r) \/ EndListing(r) \/ ListingFails(r)
                         \/ Commit(r) \/ Complete(r) \/ ChangeFails(r)
                         \/ \E fd \in DOMAIN openFiles : Release(r, fd)
                         \/ \E p \in Paths : Unlink(r, p)
  \/ \E p \in Paths : Open(p) \/ Create(p) \/ NodePuts(p)
  \/ \E fd \in DOMAIN openFiles : Write(fd)
  \/ Mknod
  \/ Tick

FSpec == FInit /\ [][FNext]_fuseVars

----------------------------------------------------------------------------
\* What a listing holds, and the requests that wait for the drive.
Entries == [Paths -> [rev : 0 .. MaxChanges, there : BOOLEAN]]
Listing == [op : {"list"}, time : 0 .. MaxTime, entries : Entries \union {NoEntries},
            asOf : 0 .. MaxTime, racing : SUBSET Paths]
Put == [op : {"put"}, path : Paths, fd : DOMAIN openFiles, rev : 0 .. MaxChanges]
Del == [op : {"del"}, path : Paths, rev : 0 .. MaxChanges]

\* The state is well typed; a release under way is of a descriptor that is open.
FTypeOK ==
  /\ drive \in Entries
  /\ changes \in 0 .. MaxChanges
  /\ nextFd \in 0 .. MaxFd
  /\ DOMAIN openFiles \subseteq 0 .. nextFd - 1
  /\ \A fd \in DOMAIN openFiles :
       openFiles[fd] \in [path : Paths, buf : BOOLEAN, dirty : BOOLEAN]
  /\ cache \in [entries : Entries \union {NoEntries}, time : 0 .. MaxTime,
                asOf : 0 .. MaxTime, racing : SUBSET Paths]
  /\ requests \in [Requests -> Listing \union Put \union Del \union {Idle}]
  /\ answered \in [Paths -> 0 .. MaxChanges]
  /\ now \in 0 .. MaxTime

\* A listing that is served from the cache was read from the drive less than
\* CACHE_TTL ago, however long the reading took and in whatever order the listings
\* that were under way together were stored: the clock is read before the drive.
FreshListing == Fresh => now - cache.asOf < CacheTTL

\* A cached listing shows every change through the mount whose request has been
\* answered, save those answered while the listing was under way: release and
\* unlink empty the cache after the drive has the change, not before.
ClosedFileIsListed ==
  cache.entries # NoEntries =>
    \A p \in Paths \ cache.racing : cache.entries[p].rev >= answered[p]
=============================================================================
