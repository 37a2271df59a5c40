------------------------- MODULE Applications_proofs -------------------------
(***************************************************************************)
(* Proofs about the applications: the mount of a swarm node, for any       *)
(* numbers of paths, requests, descriptors and changes; its world view,    *)
(* for any peers; the seed node, for any content, any peers and any number *)
(* of crashes; managed code, for any workers, roles and assignments; and   *)
(* all of them beside mycelium's subtrees and lenses.                      *)
(***************************************************************************)
EXTENDS MCApplications, Mycelium_proofs, SequenceLemmas, FiniteSetTheorems, WellFoundedInduction

----------------------------------------------------------------------------
(* The mount: what its cache promises.                                   *)

\* Only one release of a descriptor is under way.
DescriptorsFit ==
  \A r, q \in Changes :
    /\ requests[r].op = "put" /\ requests[q].op = "put"
    /\ requests[r].fd = requests[q].fd
    => r = q

\* The clock is read before the drive, and both before now.
ClocksFit ==
  /\ \A r \in Listings : requests[r].time <= requests[r].asOf /\ requests[r].asOf <= now
  /\ cache.entries # NoEntries => cache.time <= cache.asOf

\* Nothing is answered that the drive does not have.
RevisionsFit ==
  /\ \A p \in Paths : answered[p] <= drive[p].rev /\ drive[p].rev <= changes
  /\ \A r \in Changes : requests[r].rev <= drive[requests[r].path].rev

\* A listing that has read the drive shows what was answered, save what is answered
\* while it is under way.
ListingsFit ==
  \A r \in Listings :
    requests[r].entries # NoEntries =>
      \A p \in Paths \ requests[r].racing : requests[r].entries[p].rev >= answered[p]

FInv ==
  FTypeOK /\ DescriptorsFit /\ ClocksFit /\ RevisionsFit /\ ListingsFit /\ ClosedFileIsListed

----------------------------------------------------------------------------
\* The initial states satisfy the invariant.
LEMMA InitFits == FInit => FInv
<1> SUFFICES ASSUME FInit PROVE FInv
  OBVIOUS
<1> USE FuseAssumption
<1>1. FTypeOK
  BY DEF FInit, Empty, FTypeOK, Entries
<1>2. Listings = {} /\ Changes = {} /\ cache.entries = NoEntries
  BY DEF FInit, Empty, Listings, Changes
<1>3. RevisionsFit
  BY <1>2 DEF FInit, RevisionsFit
<1> QED
  BY <1>1, <1>2, <1>3 DEF FInv, DescriptorsFit, ClocksFit, ListingsFit, ClosedFileIsListed

\* A listing begins.
LEMMA BeginListingFits ==
  ASSUME FInv, NEW r \in Requests, BeginListing(r)
  PROVE  FInv'
<1> USE FuseAssumption
<1>1. FTypeOK'
  BY DEF FInv, FTypeOK, Listing, Put, BeginListing
<1>2. DescriptorsFit'
  BY DEF FInv, Changes, DescriptorsFit, BeginListing
<1>3. ClocksFit'
  BY DEF FInv, FTypeOK, Listings, ClocksFit, BeginListing
<1>4. RevisionsFit'
  BY DEF FInv, Changes, RevisionsFit, BeginListing
<1>5. ListingsFit'
  BY DEF FInv, Listings, ListingsFit, BeginListing
<1>6. ClosedFileIsListed'
  BY DEF FInv, ClosedFileIsListed, BeginListing
<1> QED
  BY <1>1, <1>2, <1>3, <1>4, <1>5, <1>6 DEF FInv

\* A listing reads the drive.
LEMMA ListDriveFits ==
  ASSUME FInv, NEW r \in Requests, ListDrive(r)
  PROVE  FInv'
<1> USE FuseAssumption
<1>1. FTypeOK'
  <2>1. requests[r] \in Listing
    BY DEF FInv, FTypeOK, Put, Del, Listings, ListDrive
  <2>2. [requests[r] EXCEPT !.entries = drive, !.asOf = now] \in Listing
    BY <2>1 DEF FInv, FTypeOK, Listing
  <2>3. requests' = [requests EXCEPT ![r] = [requests[r] EXCEPT !.entries = drive, !.asOf = now]]
    BY DEF ListDrive
  <2>4. requests' \in [Requests -> Listing \union Put \union Del \union {Idle}]
    BY <2>2, <2>3 DEF FInv, FTypeOK
  <2> QED
    BY <2>4 DEF FInv, FTypeOK, Put, ListDrive
<1>2. DescriptorsFit'
  BY DEF FInv, FTypeOK, Listings, Changes, DescriptorsFit, ListDrive
<1>3. ClocksFit'
  BY DEF FInv, FTypeOK, Listing, Put, Del, Listings, ClocksFit, ListDrive
<1>4. RevisionsFit'
  BY DEF FInv, FTypeOK, Listings, Changes, RevisionsFit, ListDrive
<1>5. ListingsFit'
  BY DEF FInv, FTypeOK, Listings, ListingsFit, RevisionsFit, ListDrive
<1>6. ClosedFileIsListed'
  BY DEF FInv, ClosedFileIsListed, ListDrive
<1> QED
  BY <1>1, <1>2, <1>3, <1>4, <1>5, <1>6 DEF FInv

\* A listing is stored.
LEMMA EndListingFits ==
  ASSUME FInv, NEW r \in Requests, EndListing(r)
  PROVE  FInv'
<1> USE FuseAssumption
<1>1. FTypeOK'
  BY DEF FInv, FTypeOK, Listing, Put, Del, Listings, EndListing, Listed
<1>2. DescriptorsFit'
  BY DEF FInv, Changes, DescriptorsFit, EndListing
<1>3. ClocksFit'
  BY DEF FInv, Listings, ClocksFit, EndListing, Listed
<1>4. RevisionsFit'
  BY DEF FInv, Changes, RevisionsFit, EndListing
<1>5. ListingsFit'
  BY DEF FInv, Listings, ListingsFit, EndListing
<1>6. ClosedFileIsListed'
  BY DEF FInv, ListingsFit, ClosedFileIsListed, EndListing, Listed
<1> QED
  BY <1>1, <1>2, <1>3, <1>4, <1>5, <1>6 DEF FInv

\* A listing fails.
LEMMA ListingFailsFits ==
  ASSUME FInv, NEW r \in Requests, ListingFails(r)
  PROVE  FInv'
<1> USE FuseAssumption
<1>1. FTypeOK'
  BY DEF FInv, FTypeOK, Put, ListingFails
<1>2. DescriptorsFit'
  BY DEF FInv, Changes, DescriptorsFit, ListingFails
<1>3. ClocksFit'
  BY DEF FInv, Listings, ClocksFit, ListingFails
<1>4. RevisionsFit'
  BY DEF FInv, Changes, RevisionsFit, ListingFails
<1>5. ListingsFit'
  BY DEF FInv, Listings, ListingsFit, ListingFails
<1>6. ClosedFileIsListed'
  BY DEF FInv, ClosedFileIsListed, ListingFails
<1> QED
  BY <1>1, <1>2, <1>3, <1>4, <1>5, <1>6 DEF FInv

\* A file is opened.
LEMMA OpenFits ==
  ASSUME FInv, NEW p \in Paths, Open(p)
  PROVE  FInv'
<1> USE FuseAssumption
<1>1. FTypeOK'
  BY DEF FInv, FTypeOK, Put, Open, OpenAs
<1>2. DescriptorsFit'
  BY DEF FInv, Changes, DescriptorsFit, Open, OpenAs
<1>3. ClocksFit'
  BY DEF FInv, Listings, ClocksFit, Open, OpenAs
<1>4. RevisionsFit'
  BY DEF FInv, Changes, RevisionsFit, Open, OpenAs
<1>5. ListingsFit'
  BY DEF FInv, Listings, ListingsFit, Open, OpenAs
<1>6. ClosedFileIsListed'
  BY DEF FInv, ClosedFileIsListed, Open, OpenAs
<1> QED
  BY <1>1, <1>2, <1>3, <1>4, <1>5, <1>6 DEF FInv

\* A file is created.
LEMMA CreateFits ==
  ASSUME FInv, NEW p \in Paths, Create(p)
  PROVE  FInv'
<1> USE FuseAssumption
<1>1. FTypeOK'
  BY DEF FInv, FTypeOK, Put, Create, OpenAs, Empty
<1>2. DescriptorsFit'
  BY DEF FInv, Changes, DescriptorsFit, Create, OpenAs
<1>3. ClocksFit'
  BY DEF FInv, Listings, ClocksFit, Create, OpenAs, Empty
<1>4. RevisionsFit'
  BY DEF FInv, Changes, RevisionsFit, Create, OpenAs
<1>5. ListingsFit'
  BY DEF FInv, Listings, ListingsFit, Create, OpenAs
<1>6. ClosedFileIsListed'
  BY DEF ClosedFileIsListed, Create, Empty
<1> QED
  BY <1>1, <1>2, <1>3, <1>4, <1>5, <1>6 DEF FInv

\* A descriptor is written to.
LEMMA WriteFits ==
  ASSUME FInv, NEW fd \in DOMAIN openFiles, Write(fd)
  PROVE  FInv'
<1> USE FuseAssumption
<1>1. FTypeOK'
  BY DEF FInv, FTypeOK, Put, Write
<1>2. DescriptorsFit'
  BY DEF FInv, Changes, DescriptorsFit, Write
<1>3. ClocksFit'
  BY DEF FInv, Listings, ClocksFit, Write
<1>4. RevisionsFit'
  BY DEF FInv, Changes, RevisionsFit, Write
<1>5. ListingsFit'
  BY DEF FInv, Listings, ListingsFit, Write
<1>6. ClosedFileIsListed'
  BY DEF FInv, ClosedFileIsListed, Write
<1> QED
  BY <1>1, <1>2, <1>3, <1>4, <1>5, <1>6 DEF FInv

\* The cache is emptied.
LEMMA MknodFits ==
  ASSUME FInv, Mknod
  PROVE  FInv'
<1> USE FuseAssumption
<1>1. FTypeOK'
  BY DEF FInv, FTypeOK, Put, Mknod, Empty
<1>2. DescriptorsFit'
  BY DEF FInv, Changes, DescriptorsFit, Mknod
<1>3. ClocksFit'
  BY DEF FInv, Listings, ClocksFit, Mknod, Empty
<1>4. RevisionsFit'
  BY DEF FInv, Changes, RevisionsFit, Mknod
<1>5. ListingsFit'
  BY DEF FInv, Listings, ListingsFit, Mknod
<1>6. ClosedFileIsListed'
  BY DEF ClosedFileIsListed, Mknod, Empty
<1> QED
  BY <1>1, <1>2, <1>3, <1>4, <1>5, <1>6 DEF FInv

\* A descriptor is released.
LEMMA ReleaseFits ==
  ASSUME FInv, NEW r \in Requests, NEW fd \in DOMAIN openFiles, Release(r, fd)
  PROVE  FInv'
<1> USE FuseAssumption
<1>1. FTypeOK'
  BY DEF FInv, FTypeOK, Put, Changes, Release, Releasing, Closed
<1>2. DescriptorsFit'
  BY DEF FInv, FTypeOK, Changes, DescriptorsFit, Release, Releasing
<1>3. ClocksFit'
  BY DEF FInv, FTypeOK, Listing, Listings, ClocksFit, Release
<1>4. RevisionsFit'
  <2>1. ASSUME NEW q \in Changes' PROVE requests'[q].rev <= drive'[requests'[q].path].rev
    <3>1. CASE q = r /\ openFiles[fd].dirty /\ openFiles[fd].buf
      <4>1. requests'[q].rev = 0 /\ requests'[q].path = openFiles[fd].path
        BY <3>1 DEF FInv, FTypeOK, Release
      <4>2. openFiles[fd].path \in Paths
        BY DEF FInv, FTypeOK
      <4>3. drive'[openFiles[fd].path].rev \in Nat
        BY <4>2 DEF FInv, FTypeOK, Entries, Release
      <4> QED
        BY <4>1, <4>3
    <3>2. CASE ~(q = r /\ openFiles[fd].dirty /\ openFiles[fd].buf)
      <4>1. q \in Changes /\ requests'[q] = requests[q] /\ drive' = drive
        BY <3>2, <2>1 DEF FInv, FTypeOK, Changes, Release
      <4> QED
        BY <4>1 DEF FInv, RevisionsFit
    <3> QED
      BY <3>1, <3>2
  <2> QED
    BY <2>1 DEF FInv, RevisionsFit, Release
<1>5. ListingsFit'
  BY DEF FInv, FTypeOK, Listings, ListingsFit, Release
<1>6. ClosedFileIsListed'
  BY DEF FInv, ClosedFileIsListed, Release
<1> QED
  BY <1>1, <1>2, <1>3, <1>4, <1>5, <1>6 DEF FInv

\* A file is unlinked.
LEMMA UnlinkFits ==
  ASSUME FInv, NEW r \in Requests, NEW p \in Paths, Unlink(r, p)
  PROVE  FInv'
<1> USE FuseAssumption
<1>1. FTypeOK'
  BY DEF FInv, FTypeOK, Put, Del, Unlink
<1>2. DescriptorsFit'
  BY DEF FInv, Changes, DescriptorsFit, Unlink
<1>3. ClocksFit'
  BY DEF FInv, Listings, ClocksFit, Unlink
<1>4. RevisionsFit'
  BY DEF FInv, FTypeOK, Entries, Changes, RevisionsFit, Unlink
<1>5. ListingsFit'
  BY DEF FInv, Listings, ListingsFit, Unlink
<1>6. ClosedFileIsListed'
  BY DEF FInv, ClosedFileIsListed, Unlink
<1> QED
  BY <1>1, <1>2, <1>3, <1>4, <1>5, <1>6 DEF FInv

\* The drive takes a change of the mount.
LEMMA CommitFits ==
  ASSUME FInv, NEW r \in Requests, Commit(r)
  PROVE  FInv'
<1> USE FuseAssumption
<1>1. FTypeOK'
  BY DEF FInv, FTypeOK, Entries, Listing, Put, Del, Changes, Commit, Change
<1>2. DescriptorsFit'
  BY DEF FInv, Changes, DescriptorsFit, Commit
<1>3. ClocksFit'
  BY DEF FInv, Listings, Changes, ClocksFit, Commit
<1>4. RevisionsFit'
  BY DEF FInv, FTypeOK, Entries, Listing, Put, Del, Changes, RevisionsFit, Commit, Change
<1>5. ListingsFit'
  BY DEF FInv, Listings, Changes, ListingsFit, Commit
<1>6. ClosedFileIsListed'
  BY DEF FInv, ClosedFileIsListed, Commit
<1> QED
  BY <1>1, <1>2, <1>3, <1>4, <1>5, <1>6 DEF FInv

\* A change is answered.
LEMMA CompleteFits ==
  ASSUME FInv, NEW r \in Requests, Complete(r)
  PROVE  FInv'
<1> USE FuseAssumption
<1>1. FTypeOK'
  <2>0. requests[r].path \in Paths /\ requests[r].rev \in 0 .. MaxChanges
    BY DEF FInv, FTypeOK, Listing, Put, Del, Changes, Complete
  <2>1. ASSUME NEW q \in Requests
        PROVE  requests'[q] \in Listing \union Put' \union Del \union {Idle}
    <3>1. CASE q = r
      BY <3>1 DEF Complete, Answer
    <3>2. CASE q # r /\ q \in Listings
      <4>1. requests[q] \in Listing
        BY <3>2 DEF FInv, FTypeOK, Put, Del, Listings
      <4>2. requests'[q] = [requests[q] EXCEPT !.racing = @ \union {requests[r].path}]
        BY <3>2 DEF Complete, Answer
      <4> QED
        BY <2>0, <4>1, <4>2 DEF Listing
    <3>3. CASE q # r /\ q \in Changes
      <4>1. requests'[q] = requests[q] /\ requests[q] \in Put \union Del
        BY <3>3 DEF FInv, FTypeOK, Listing, Listings, Changes, Complete, Answer
      <4>2. ASSUME requests[q] \in Put PROVE requests[q].fd \in DOMAIN openFiles'
        BY <4>2, <3>3 DEF FInv, DescriptorsFit, Put, Complete, Closed
      <4> QED
        BY <4>1, <4>2 DEF Put
    <3>4. CASE q # r /\ requests[q] = Idle
      BY <3>4 DEF Listings, Complete, Answer
    <3> QED
      BY <3>1, <3>2, <3>3, <3>4 DEF Listings, Changes
  <2>2. requests' \in [Requests -> Listing \union Put' \union Del \union {Idle}]
    BY <2>1 DEF Complete, Answer
  <2>3. answered' \in [Paths -> 0 .. MaxChanges]
    BY <2>0 DEF FInv, FTypeOK, Complete, Answer
  <2>4. DOMAIN openFiles' \subseteq DOMAIN openFiles
        /\ \A fd \in DOMAIN openFiles' : openFiles'[fd] = openFiles[fd]
    BY DEF Complete, Closed
  <2> QED
    BY <2>2, <2>3, <2>4 DEF FInv, FTypeOK, Listing, Del, Entries, Complete, Empty
<1>2. DescriptorsFit'
  BY DEF FInv, Listings, Changes, DescriptorsFit, Complete, Answer
<1>3. ClocksFit'
  BY DEF FInv, Listings, ClocksFit, Complete, Answer, Empty
<1>4. RevisionsFit'
  BY DEF FInv, Listings, Changes, RevisionsFit, Complete, Answer
<1>5. ListingsFit'
  BY DEF FInv, Listings, ListingsFit, Complete, Answer
<1>6. ClosedFileIsListed'
  BY DEF ClosedFileIsListed, Complete, Empty
<1> QED
  BY <1>1, <1>2, <1>3, <1>4, <1>5, <1>6 DEF FInv

\* The drive refuses a change.
LEMMA ChangeFailsFits ==
  ASSUME FInv, NEW r \in Requests, ChangeFails(r)
  PROVE  FInv'
<1> USE FuseAssumption
<1>1. FTypeOK'
  <2>1. ASSUME NEW q \in Requests
        PROVE  requests'[q] \in Listing \union Put' \union Del \union {Idle}
    <3>1. CASE q = r
      BY <3>1 DEF FInv, FTypeOK, ChangeFails
    <3>2. CASE q # r /\ q \in Listings
      BY <3>2 DEF FInv, FTypeOK, Put, Listings, ChangeFails
    <3>3. CASE q # r /\ q \in Changes
      <4>1. requests'[q] = requests[q] /\ requests[q] \in Put \union Del
        BY <3>3 DEF FInv, FTypeOK, Listing, Changes, ChangeFails
      <4>2. ASSUME requests[q] \in Put PROVE requests[q].fd \in DOMAIN openFiles'
        BY <4>2, <3>3 DEF FInv, DescriptorsFit, Put, ChangeFails, Closed
      <4> QED
        BY <4>1, <4>2 DEF Put
    <3>4. CASE q # r /\ requests[q] = Idle
      BY <3>4 DEF ChangeFails
    <3> QED
      BY <3>1, <3>2, <3>3, <3>4 DEF Listings, Changes
  <2>2. requests' \in [Requests -> Listing \union Put' \union Del \union {Idle}]
    BY <2>1 DEF FInv, FTypeOK, ChangeFails
  <2> QED
    BY <2>2 DEF FInv, FTypeOK, ChangeFails, Closed
<1>2. DescriptorsFit'
  BY DEF FInv, Changes, DescriptorsFit, ChangeFails
<1>3. ClocksFit'
  BY DEF FInv, Listings, ClocksFit, ChangeFails
<1>4. RevisionsFit'
  BY DEF FInv, Changes, RevisionsFit, ChangeFails
<1>5. ListingsFit'
  BY DEF FInv, Listings, ListingsFit, ChangeFails
<1>6. ClosedFileIsListed'
  BY DEF FInv, ClosedFileIsListed, ChangeFails
<1> QED
  BY <1>1, <1>2, <1>3, <1>4, <1>5, <1>6 DEF FInv

\* The drive takes a change of the node.
LEMMA NodePutsFits ==
  ASSUME FInv, NEW p \in Paths, NodePuts(p)
  PROVE  FInv'
<1> USE FuseAssumption
<1>1. FTypeOK'
  BY DEF FInv, FTypeOK, Entries, Put, NodePuts, Change
<1>2. DescriptorsFit'
  BY DEF FInv, Changes, DescriptorsFit, NodePuts
<1>3. ClocksFit'
  BY DEF FInv, Listings, ClocksFit, NodePuts
<1>4. RevisionsFit'
  BY DEF FInv, FTypeOK, Entries, Listing, Put, Del, Changes, RevisionsFit, NodePuts, Change
<1>5. ListingsFit'
  BY DEF FInv, Listings, ListingsFit, NodePuts
<1>6. ClosedFileIsListed'
  BY DEF FInv, ClosedFileIsListed, NodePuts
<1> QED
  BY <1>1, <1>2, <1>3, <1>4, <1>5, <1>6 DEF FInv

\* Time passes.
LEMMA TickFits ==
  ASSUME FInv, Tick
  PROVE  FInv'
<1> USE FuseAssumption
<1>1. FTypeOK'
  BY DEF FInv, FTypeOK, Put, Tick
<1>2. DescriptorsFit'
  BY DEF FInv, Changes, DescriptorsFit, Tick
<1>3. ClocksFit'
  BY DEF FInv, FTypeOK, Listing, Put, Del, Listings, ClocksFit, Tick
<1>4. RevisionsFit'
  BY DEF FInv, Changes, RevisionsFit, Tick
<1>5. ListingsFit'
  BY DEF FInv, Listings, ListingsFit, Tick
<1>6. ClosedFileIsListed'
  BY DEF FInv, ClosedFileIsListed, Tick
<1> QED
  BY <1>1, <1>2, <1>3, <1>4, <1>5, <1>6 DEF FInv

----------------------------------------------------------------------------
\* Every step keeps the invariant.
LEMMA StepFits == FInv /\ [FNext]_fuseVars => FInv'
<1> SUFFICES ASSUME FInv, [FNext]_fuseVars PROVE FInv'
  OBVIOUS
<1>1. ASSUME NEW r \in Requests, BeginListing(r) PROVE FInv'
  BY <1>1, BeginListingFits
<1>2. ASSUME NEW r \in Requests, ListDrive(r) PROVE FInv'
  BY <1>2, ListDriveFits
<1>3. ASSUME NEW r \in Requests, EndListing(r) PROVE FInv'
  BY <1>3, EndListingFits
<1>4. ASSUME NEW r \in Requests, ListingFails(r) PROVE FInv'
  BY <1>4, ListingFailsFits
<1>5. ASSUME NEW r \in Requests, Commit(r) PROVE FInv'
  BY <1>5, CommitFits
<1>6. ASSUME NEW r \in Requests, Complete(r) PROVE FInv'
  BY <1>6, CompleteFits
<1>7. ASSUME NEW r \in Requests, ChangeFails(r) PROVE FInv'
  BY <1>7, ChangeFailsFits
<1>8. ASSUME NEW r \in Requests, NEW fd \in DOMAIN openFiles, Release(r, fd) PROVE FInv'
  BY <1>8, ReleaseFits
<1>9. ASSUME NEW r \in Requests, NEW p \in Paths, Unlink(r, p) PROVE FInv'
  BY <1>9, UnlinkFits
<1>10. ASSUME NEW p \in Paths, Open(p) PROVE FInv'
  BY <1>10, OpenFits
<1>11. ASSUME NEW p \in Paths, Create(p) PROVE FInv'
  BY <1>11, CreateFits
<1>12. ASSUME NEW p \in Paths, NodePuts(p) PROVE FInv'
  BY <1>12, NodePutsFits
<1>13. ASSUME NEW fd \in DOMAIN openFiles, Write(fd) PROVE FInv'
  BY <1>13, WriteFits
<1>14. CASE Mknod
  BY <1>14, MknodFits
<1>15. CASE Tick
  BY <1>15, TickFits
<1>16. CASE UNCHANGED fuseVars
  BY <1>16 DEF FInv, FTypeOK, Put, Listings, Changes, DescriptorsFit, ClocksFit, RevisionsFit, ListingsFit, ClosedFileIsListed, fuseVars
<1> QED
  BY <1>1, <1>2, <1>3, <1>4, <1>5, <1>6, <1>7, <1>8, <1>9, <1>10, <1>11, <1>12, <1>13, <1>14, <1>15, <1>16 DEF FNext

\* The invariant holds in every state the mount reaches.
THEOREM FuseInvariant == FSpec => []FInv
BY InitFits, StepFits, PTL DEF FSpec

\* The state of the mount is always well typed, and every release that waits for the
\* drive is of a descriptor that is still open.
THEOREM FuseTypeCorrect == FSpec => []FTypeOK
<1>1. FInv => FTypeOK
  BY DEF FInv
<1> QED
  BY <1>1, FuseInvariant, PTL

\* refreshCache never serves a listing of the drive that is CACHE_TTL old or older,
\* whatever the number of listings under way together.
THEOREM ListingsAreFresh == FSpec => []FreshListing
<1>1. FInv => FreshListing
  BY FuseAssumption DEF FInv, FTypeOK, ClocksFit, FreshListing, Fresh
<1> QED
  BY <1>1, FuseInvariant, PTL

\* What release and unlink have answered is in every listing the cache holds, save for
\* listings that were under way at the time.
THEOREM ClosedIsListed == FSpec => []ClosedFileIsListed
<1>1. FInv => ClosedFileIsListed
  BY DEF FInv
<1> QED
  BY <1>1, FuseInvariant, PTL

----------------------------------------------------------------------------
(* The world view.                                                         *)

LEMMA ConnectionsCount ==
  ASSUME NEW S \in SUBSET Peers
  PROVE  Cardinality(S) \in 0..Cardinality(Peers)
<1>1. Cardinality(S) <= Cardinality(Peers) /\ Cardinality(Peers) \in Nat /\ Cardinality(S) \in Nat
  BY WorldAssumption, FS_Subset, FS_CardinalityType
<1>2. QED
  BY <1>1

LEMMA WorldStep ==
  ASSUME WTypeOK, [WNext]_worldVars
  PROVE  WTypeOK'
<1> DEFINE Seen == [peers : SUBSET Peers, next : {"status", "peers"}]
<1>1. ASSUME NEW u \in Updates, UpdateStatus(u)
      PROVE  updates' \in [Updates -> Seen \cup {NoUpdate}]
  BY <1>1 DEF UpdateStatus, WTypeOK
<1>2. CASE Start \/ Interval
  BY <1>1, <1>2 DEF Start, Interval, WTypeOK
<1>3. ASSUME NEW u \in Updates, PutStatus(u) PROVE WTypeOK'
  <2>1. PICK v \in Seen : v = updates[u]
    BY <1>3 DEF PutStatus, WTypeOK
  <2>2. status' = Cardinality(v.peers) /\ v.peers \in SUBSET Peers
    BY <1>3, <2>1 DEF PutStatus
  <2>3. status' \in 0..Cardinality(Peers)
    BY <2>2, ConnectionsCount
  <2>4. updates' = [updates EXCEPT ![u] = [v EXCEPT !.next = "peers"]]
    BY <1>3, <2>1 DEF PutStatus
  <2>5. [v EXCEPT !.next = "peers"] \in Seen
    BY <2>1
  <2>6. QED
    BY <1>3, <2>3, <2>4, <2>5 DEF PutStatus, WTypeOK
<1>4. ASSUME NEW u \in Updates, PutPeers(u) PROVE WTypeOK'
  <2>1. updates[u].peers \subseteq Peers
    BY <1>4 DEF PutPeers, WTypeOK
  <2>2. QED
    BY <1>4, <2>1 DEF PutPeers, WTypeOK
<1>5. ASSUME NEW u \in Updates, PutFails(u) PROVE WTypeOK'
  BY <1>5, WorldAssumption DEF PutFails, WTypeOK
<1>6. CASE Stop
  BY <1>6 DEF Stop, WTypeOK
<1>7. ASSUME NEW p \in Peers, Connection(p) PROVE WTypeOK'
  BY <1>7, WorldAssumption DEF Connection, WTypeOK
<1>8. CASE UNCHANGED worldVars
  BY <1>8 DEF worldVars, WTypeOK
<1>9. QED
  BY <1>2, <1>3, <1>4, <1>5, <1>6, <1>7, <1>8 DEF WNext

LEMMA WorldInit == WInit => WTypeOK
<1> SUFFICES ASSUME WInit PROVE WTypeOK
  OBVIOUS
<1>1. 0 \in 0..Cardinality(Peers) /\ 0 \in 0..MaxConnections /\ 0 \in 0..MaxFailures
  BY WorldAssumption, FS_CardinalityType
<1>2. updates \in [Updates -> [peers : SUBSET Peers, next : {"status", "peers"}] \union {NoUpdate}]
  BY DEF WInit
<1>3. /\ connections \subseteq Peers /\ peersFile \subseteq Peers /\ timer \in BOOLEAN
      /\ started \in {"no", "yes", "stopped"}
  BY DEF WInit
<1>4. status \in 0..Cardinality(Peers) /\ moves \in 0..MaxConnections /\ failures \in 0..MaxFailures
  BY <1>1 DEF WInit
<1>5. QED
  BY <1>2, <1>3, <1>4 DEF WTypeOK

----------------------------------------------------------------------------
(* The seed's list: finding and removing by name.                        *)

ListEntries == Nodes \union {SeedNode}

NamesApart(s) == \A i, j \in 1..Len(s) : s[i].name = s[j].name => i = j

LEMMA FoundByName ==
  ASSUME nodes \in Seq(ListEntries), NEW name
  PROVE  IF IndexOfName(name) = 0 THEN \A i \in 1..Len(nodes) : nodes[i].name # name
         ELSE IndexOfName(name) \in 1..Len(nodes) /\ nodes[IndexOfName(name)].name = name
<1> DEFINE I == {i \in 1..Len(nodes) : nodes[i].name = name}
<1>1. IndexOfName(name) = (IF I # {} THEN Min(I) ELSE 0)
  BY DEF IndexOfName, SelectInSeq
<1>2. I # {} => Min(I) \in I
  <2>1. I \in SUBSET Nat
    OBVIOUS
  <2> HIDE DEF I
  <2>2. QED
    BY <2>1, LeastOf
<1>3. QED
  BY <1>1, <1>2

\* The entries that stay when one of a name is registered.
Others(n) == {m \in ToSet(nodes) : m.name # n.name}

LEMMA EntryReplaced ==
  ASSUME nodes \in Seq(ListEntries), NamesApart(nodes), NEW n \in ListEntries
  PROVE  /\ WithEntry(n) \in Seq(ListEntries) /\ NamesApart(WithEntry(n))
         /\ ToSet(WithEntry(n)) = Others(n) \cup {n}
<1> DEFINE i == IndexOfName(n.name)
           rest == IF i = 0 THEN nodes ELSE RemoveAt(nodes, i)
<1>1. rest \in Seq(ListEntries) /\ NamesApart(rest) /\ ToSet(rest) = Others(n)
  <2>1. CASE i = 0
    <3>1. \A j \in 1..Len(nodes) : nodes[j].name # n.name
      BY <2>1, FoundByName
    <3>2. QED
      BY <2>1, <3>1 DEF Others, ToSet
  <2>2. CASE i # 0
    <3>1. i \in 1..Len(nodes) /\ nodes[i].name = n.name
      BY <2>2, FoundByName
    <3> DEFINE at(j) == IF j < i THEN j ELSE j + 1
    <3>2. /\ rest \in Seq(ListEntries) /\ Len(rest) = Len(nodes) - 1
          /\ \A j \in 1..Len(nodes) - 1 : rest[j] = nodes[at(j)]
      BY <2>2, <3>1, Removed
    <3>3. Len(nodes) \in Nat /\ i \in Nat
      BY <3>1
    <3> HIDE DEF rest, i
    <3>4. /\ \A j \in 1..Len(nodes) - 1 : at(j) \in 1..Len(nodes) /\ at(j) # i
          /\ \A j, k \in 1..Len(nodes) - 1 : at(j) = at(k) => j = k
      BY <3>1, <3>3
    <3>5. \A k \in 1..Len(nodes) : k # i => \E j \in 1..Len(nodes) - 1 : at(j) = k
      <4>1. ASSUME NEW k \in 1..Len(nodes), k # i
            PROVE  \E j \in 1..Len(nodes) - 1 : at(j) = k
        <5>1. k < i => at(k) = k /\ k \in 1..Len(nodes) - 1
          BY <3>1, <3>3
        <5>2. k > i => at(k - 1) = k /\ k - 1 \in 1..Len(nodes) - 1
          BY <3>1, <3>3
        <5>3. QED
          BY <3>3, <4>1, <5>1, <5>2
      <4>2. QED
        BY <4>1
    <3> HIDE DEF at
    <3>6. NamesApart(rest)
      BY <3>2, <3>4 DEF NamesApart
    <3>7. ToSet(rest) \subseteq Others(n)
      <4>1. ASSUME NEW j \in 1..Len(nodes) - 1 PROVE rest[j] \in Others(n)
        <5>1. rest[j] = nodes[at(j)] /\ at(j) \in 1..Len(nodes) /\ at(j) # i
          BY <3>2, <3>4
        <5>2. nodes[at(j)].name # n.name
          BY <3>1, <5>1 DEF NamesApart
        <5>3. nodes[at(j)] \in ToSet(nodes)
          BY <5>1 DEF ToSet
        <5>4. QED
          BY <5>1, <5>2, <5>3 DEF Others
      <4>2. QED
        BY <3>2, <4>1 DEF ToSet
    <3>8. Others(n) \subseteq ToSet(rest)
      <4>1. ASSUME NEW m \in Others(n) PROVE m \in ToSet(rest)
        <5>1. PICK k \in 1..Len(nodes) : m = nodes[k] /\ k # i
          BY <3>1, <4>1 DEF Others, ToSet
        <5>2. PICK j \in 1..Len(nodes) - 1 : at(j) = k
          BY <3>5, <5>1
        <5>3. QED
          BY <3>2, <5>1, <5>2 DEF ToSet
      <4>2. QED
        BY <4>1
    <3>9. QED
      BY <3>2, <3>6, <3>7, <3>8
  <2>3. QED
    BY <2>1, <2>2
<1>2. WithEntry(n) = Append(rest, n)
  BY DEF WithEntry
<1> HIDE DEF rest
<1>3. /\ Append(rest, n) \in Seq(ListEntries) /\ Len(Append(rest, n)) = Len(rest) + 1
      /\ Append(rest, n)[Len(rest) + 1] = n
      /\ \A j \in 1..Len(rest) : Append(rest, n)[j] = rest[j]
      /\ Len(rest) \in Nat
  BY <1>1
<1>4. \A j \in 1..Len(rest) : rest[j].name # n.name
  BY <1>1 DEF ToSet, Others
<1> DEFINE w == Append(rest, n)
<1> HIDE DEF w
<1>5. /\ w \in Seq(ListEntries) /\ Len(w) = Len(rest) + 1 /\ w[Len(rest) + 1] = n
      /\ \A j \in 1..Len(rest) : w[j] = rest[j]
  BY <1>3 DEF w
<1>6. NamesApart(w)
  BY <1>1, <1>3, <1>4, <1>5 DEF NamesApart
<1>7. ToSet(w) = ToSet(rest) \cup {n}
  <2>1. ToSet(rest) \subseteq ToSet(w) /\ n \in ToSet(w)
    BY <1>3, <1>5 DEF ToSet
  <2>2. ToSet(w) \subseteq ToSet(rest) \cup {n}
    BY <1>3, <1>5 DEF ToSet
  <2>3. QED
    BY <2>1, <2>2
<1>8. QED
  BY <1>1, <1>2, <1>5, <1>6, <1>7 DEF w
----------------------------------------------------------------------------
(* The seed: what its drive holds.                                         *)

\* Without an interruption the drive is empty or complete, save while it is being seeded.
Whole == onDrive = {} \/ Content \subseteq onDrive

SeedInv ==
  /\ main \in {"down", "booting", "seeding", "ready", "serving"}
  /\ next \in 1..Len(Files)
  /\ interrupted \in BOOLEAN
  /\ ~interrupted =>
       /\ main \in {"down", "booting"} => Whole
       /\ main = "seeding" => \A i \in 1..Len(Files) : i < next => Files[i] \in onDrive
       /\ main \in {"ready", "serving"} => Content \subseteq onDrive

LEMMA SomeFiles == Len(Files) \in Nat \ {0} /\ Head(Files) = Files[1]
<1>1. Files \in Seq(Content) /\ Files # <<>>
  BY SeedAssumption
<1>2. QED
  BY <1>1, LenProperties, EmptySeq, HeadTailProperties

----------------------------------------------------------------------------
(* Its steps.                                                              *)

LEMMA CheckKeeps == ASSUME SeedInv, CheckDrive PROVE SeedInv'
<1>1. /\ main = "booting" /\ main' = AfterCheck /\ next' = 1 /\ UNCHANGED <<onDrive, interrupted>>
  BY DEF CheckDrive
<1>2. CASE Head(Files) \in onDrive
  <2>1. main' = "ready"
    BY <1>1, <1>2 DEF AfterCheck
  <2>2. ~interrupted => Content \subseteq onDrive
    BY <1>1, <1>2 DEF SeedInv, Whole
  <2>3. QED
    BY <1>1, <2>1, <2>2, SomeFiles DEF SeedInv
<1>3. CASE Head(Files) \notin onDrive
  <2>1. main' = "seeding"
    BY <1>1, <1>3 DEF AfterCheck
  <2>2. QED
    BY <1>1, <2>1, SomeFiles DEF SeedInv
<1>4. QED
  BY <1>2, <1>3

LEMMA PutKeeps == ASSUME SeedInv, PutFile PROVE SeedInv'
<1>1. /\ main = "seeding" /\ onDrive' = onDrive \cup {Files[next]} /\ main' = AfterPut
      /\ next' = (IF next = Len(Files) THEN next ELSE next + 1) /\ UNCHANGED interrupted
  BY DEF PutFile
<1>2. next \in 1..Len(Files) /\ Len(Files) \in Nat
  BY SomeFiles DEF SeedInv
<1>3. ~interrupted => \A i \in 1..Len(Files) : i <= next => Files[i] \in onDrive'
  BY <1>1, <1>2 DEF SeedInv
<1>4. CASE next = Len(Files)
  <2>1. main' = "ready" /\ next' = next
    BY <1>1, <1>4 DEF AfterPut
  <2>2. ~interrupted => Content \subseteq onDrive'
    BY <1>2, <1>3, <1>4 DEF Content
  <2>3. QED
    BY <1>1, <2>1, <2>2 DEF SeedInv, Content
<1>5. CASE next # Len(Files)
  <2>1. main' = "seeding" /\ next' = next + 1 /\ next' \in 1..Len(Files)
    BY <1>1, <1>2, <1>5 DEF AfterPut
  <2>2. QED
    BY <1>1, <1>2, <1>3, <2>1 DEF SeedInv
<1>6. QED
  BY <1>4, <1>5

LEMMA CrashKeeps == ASSUME SeedInv, Crash PROVE SeedInv'
<1>1. /\ main' = "down" /\ UNCHANGED <<onDrive, next>>
      /\ interrupted' = (interrupted \/ (main = "seeding" /\ onDrive # {}))
      /\ main # "down"
  BY DEF Crash
<1>2. ASSUME ~interrupted', main \in {"booting", "seeding", "ready", "serving"} PROVE Whole'
  BY <1>1, <1>2 DEF SeedInv, Whole, Content
<1>3. QED
  BY <1>1, <1>2 DEF SeedInv, Whole

----------------------------------------------------------------------------
(* What it serves, and its list of nodes.                                  *)

LEMMA SeedInvStep == SeedInv /\ [SeedNext]_seedVars => SeedInv'
<1> SUFFICES ASSUME SeedInv, [SeedNext]_seedVars PROVE SeedInv'
  OBVIOUS
<1>1. CASE Boot
  <2>1. main = "down" /\ main' = "booting" /\ UNCHANGED <<onDrive, next, interrupted>>
    BY <1>1 DEF Boot
  <2>2. QED
    BY <2>1 DEF SeedInv, Whole
<1>2. CASE CheckDrive \/ PutFile \/ Crash
  BY <1>2, CheckKeeps, PutKeeps, CrashKeeps
<1>3. CASE StartServer
  BY <1>3 DEF StartServer, SeedInv, Whole
<1>4. ASSUME NEW r \in Posts,
             Register(r) \/ RegisterFails(r) \/ \E n \in Nodes : Receive(r, n)
      PROVE  SeedInv'
  <2>1. UNCHANGED <<main, onDrive, next, interrupted>>
    BY <1>4 DEF Register, RegisterFails, Receive
  <2>2. QED
    BY <2>1 DEF SeedInv, Whole
<1>5. CASE UNCHANGED seedVars
  BY <1>5 DEF seedVars, SeedInv, Whole
<1>6. QED
  BY <1>1, <1>2, <1>3, <1>4, <1>5 DEF SeedNext

\* A seed that serves has its whole content on the drive, through any number of restarts,
\* unless its process once ended between the first file and the last.
THEOREM ServesWholeContent == SeedSpec => []SeededUnlessInterrupted
<1>1. SeedInit => SeedInv
  <2>1. 1 \in 1..Len(Files)
    BY SomeFiles
  <2>2. SeedInit => main = "down" /\ next = 1 /\ onDrive = {} /\ interrupted = FALSE
    BY DEF SeedInit
  <2>3. QED
    BY <2>1, <2>2 DEF SeedInv, Whole
<1>2. SeedInv => SeededUnlessInterrupted
  BY DEF SeedInv, SeededUnlessInterrupted
<1>3. QED
  BY <1>1, <1>2, SeedInvStep, PTL DEF SeedSpec
\* What the list holds: an entry for every name that is registered.
RegisteredNodes == {[name |-> m, url |-> latest[m]] : m \in {n \in Names : latest[n] # NoUrl}}

\* Only a seed that serves has a list, and registrations under way.
ListInv ==
  /\ SeedTypeOK
  /\ nodes \in Seq(ListEntries) /\ NamesApart(nodes)
  /\ ToSet(nodes) = RegisteredNodes
  /\ main # "serving" =>
       /\ nodes = <<>> /\ \A n \in Names : latest[n] = NoUrl
       /\ \A r \in Posts : posts[r] = NoPost

LEMMA EmptyList ==
  ASSUME nodes' = <<>>, latest' = [n \in Names |-> NoUrl]
  PROVE  /\ nodes' \in Seq(ListEntries) /\ NamesApart(nodes)' /\ ToSet(nodes') = RegisteredNodes'
         /\ ToSet(nodes') = {} /\ \A n \in Names : latest'[n] = NoUrl
  BY DEF NamesApart, RegisteredNodes, ToSet

LEMMA EntriesAreRecords ==
  \A n \in ListEntries : /\ n = [name |-> n.name, url |-> n.url] /\ n.url # NoUrl
                     /\ n.name \in Names
  BY SeedAssumption DEF ListEntries, Names

\* An entry that takes the place of the one of its name.
LEMMA ListChanged ==
  ASSUME ListInv, NEW n \in ListEntries, nodes' \in Seq(ListEntries), NamesApart(nodes)',
         ToSet(nodes') = Others(n) \cup {n},
         latest' = [latest EXCEPT ![n.name] = n.url], main' = "serving",
         posts' \in [Posts -> Nodes \cup {NoPost}],
         UNCHANGED <<onDrive, next, interrupted, received, crashes>>
  PROVE  ListInv'
<1>1. n = [name |-> n.name, url |-> n.url] /\ n.url # NoUrl /\ n.name \in Names
  BY EntriesAreRecords
<1>2. /\ latest'[n.name] = n.url /\ \A m \in Names \ {n.name} : latest'[m] = latest[m]
      /\ latest' \in [Names -> {e.url : e \in ListEntries} \cup {NoUrl}]
  BY <1>1 DEF ListInv, SeedTypeOK, ListEntries
<1>3. ToSet(nodes') = RegisteredNodes'
  <2> DEFINE kept == {m \in Names \ {n.name} : latest[m] # NoUrl}
  <2>1. RegisteredNodes' = {[name |-> m, url |-> latest[m]] : m \in kept} \cup {n}
    BY <1>1, <1>2 DEF RegisteredNodes
  <2>2. Others(n) = {[name |-> m, url |-> latest[m]] : m \in kept}
    BY DEF Others, ListInv, RegisteredNodes
  <2>3. QED
    BY <2>1, <2>2
<1>4. ToSet(nodes') \subseteq ListEntries
  BY EntriesAreRecords DEF ToSet
<1>5. SeedTypeOK'
  BY <1>2, <1>4 DEF ListInv, SeedTypeOK, ListEntries
<1>6. QED
  BY <1>3, <1>5 DEF ListInv

LEMMA RegisterLists ==
  ASSUME ListInv, NEW r \in Posts, Register(r)
  PROVE  ListInv'
<1>1. main = "serving" /\ main' = main /\ posts[r] \in Nodes
  BY DEF Register, ListInv, SeedTypeOK
<1>2. PICK n \in ListEntries : n = posts[r]
  BY <1>1 DEF ListEntries
<1>3. nodes' = WithEntry(n) /\ latest' = [latest EXCEPT ![n.name] = n.url]
      /\ posts' \in [Posts -> Nodes \cup {NoPost}]
      /\ UNCHANGED <<onDrive, next, interrupted, received, crashes>>
  BY <1>2 DEF Register, ListInv, SeedTypeOK
<1>4. /\ nodes' \in Seq(ListEntries) /\ NamesApart(nodes')
      /\ ToSet(nodes') = Others(n) \cup {n}
  BY <1>3, EntryReplaced DEF ListInv
<1>5. QED
  BY <1>1, <1>3, <1>4, ListChanged DEF NamesApart

LEMMA StartLists ==
  ASSUME ListInv, StartServer
  PROVE  ListInv'
<1>1. /\ nodes' = <<SeedNode>> /\ latest' = [latest EXCEPT ![SeedNode.name] = SeedNode.url]
      /\ main' = "serving" /\ UNCHANGED <<onDrive, next, posts, interrupted, received, crashes>>
      /\ nodes = <<>>
  BY DEF StartServer, ListInv
<1>2. SeedNode \in ListEntries
  BY DEF ListEntries
<1>3. nodes' \in Seq(ListEntries) /\ NamesApart(nodes)' /\ ToSet(nodes') = Others(SeedNode) \cup {SeedNode}
  BY <1>1, <1>2 DEF NamesApart, ToSet, Others
<1>4. QED
  BY <1>1, <1>2, <1>3, ListChanged DEF ListInv, SeedTypeOK

LEMMA ListStep == ListInv /\ [SeedNext]_seedVars => ListInv'
<1> SUFFICES ASSUME ListInv, [SeedNext]_seedVars PROVE ListInv'
  OBVIOUS
<1> DEFINE Same == UNCHANGED <<nodes, latest>>
<1>1. ASSUME Same, SeedTypeOK',
             main' # "serving" => main # "serving" /\ posts' = posts
      PROVE  ListInv'
  BY <1>1 DEF ListInv, NamesApart, RegisteredNodes
<1>2. CASE Boot \/ UNCHANGED seedVars
  BY <1>1, <1>2 DEF Boot, seedVars, ListInv, SeedTypeOK
<1>3. CASE CheckDrive
  <2>1. SeedTypeOK' /\ Same /\ main # "serving" /\ posts' = posts
    BY <1>3, SomeFiles DEF CheckDrive, AfterCheck, ListInv, SeedTypeOK
  <2>2. QED
    BY <1>1, <2>1
<1>4. CASE PutFile
  <2>1. next \in 1..Len(Files) /\ Len(Files) \in Nat
    BY SomeFiles DEF ListInv, SeedTypeOK
  <2>2. next' \in 1..Len(Files) /\ onDrive' \subseteq Content
    BY <1>4, <2>1 DEF PutFile, Content, ListInv, SeedTypeOK
  <2>3. SeedTypeOK' /\ Same /\ main # "serving" /\ posts' = posts
    BY <1>4, <2>2 DEF PutFile, AfterPut, ListInv, SeedTypeOK
  <2>4. QED
    BY <1>1, <2>3
<1>5. CASE StartServer
  BY <1>5, StartLists
<1>6. CASE Crash
  <2>1. nodes' = <<>> /\ latest' = [n \in Names |-> NoUrl] /\ posts' = [r \in Posts |-> NoPost]
    BY <1>6 DEF Crash
  <2>2. crashes' \in 0..MaxCrashes
    BY <1>6, SeedAssumption DEF Crash, ListInv, SeedTypeOK
  <2>3. SeedTypeOK'
    BY <1>6, <2>1, <2>2, EmptyList DEF Crash, ListInv, SeedTypeOK
  <2>4. QED
    BY <2>1, <2>3, EmptyList DEF ListInv
<1>7. ASSUME NEW r \in Posts, Register(r) PROVE ListInv'
  BY <1>7, RegisterLists
<1>8. ASSUME NEW r \in Posts, RegisterFails(r) PROVE ListInv'
  <2>1. SeedTypeOK' /\ Same /\ main = "serving" /\ main' = main
    BY <1>8 DEF RegisterFails, ListInv, SeedTypeOK
  <2>2. QED
    BY <1>1, <2>1
<1>9. ASSUME NEW r \in Posts, NEW n \in Nodes, Receive(r, n) PROVE ListInv'
  <2>1. received' \in 0..MaxPosts
    BY <1>9, SeedAssumption DEF Receive, ListInv, SeedTypeOK
  <2>2. SeedTypeOK' /\ Same /\ main = "serving" /\ main' = main
    BY <1>9, <2>1 DEF Receive, ListInv, SeedTypeOK
  <2>3. QED
    BY <1>1, <2>2
<1>10. QED
  BY <1>2, <1>3, <1>4, <1>5, <1>6, <1>7, <1>8, <1>9 DEF SeedNext

LEMMA ListInvInit == SeedInit => ListInv
<1> SUFFICES ASSUME SeedInit PROVE ListInv
  OBVIOUS
<1>1. /\ nodes \in Seq(ListEntries) /\ NamesApart(nodes) /\ ToSet(nodes) = {} /\ RegisteredNodes = {}
      /\ latest \in [Names -> {e.url : e \in Nodes \cup {SeedNode}} \cup {NoUrl}]
  BY DEF SeedInit, NamesApart, ToSet, RegisteredNodes
<1>2. 1 \in 1..Len(Files) /\ 0 \in 0..MaxPosts /\ 0 \in 0..MaxCrashes
  BY SomeFiles, SeedAssumption
<1>3. SeedTypeOK
  BY <1>1, <1>2 DEF SeedInit, SeedTypeOK
<1>4. QED
  BY <1>1, <1>3 DEF SeedInit, ListInv

LEMMA ListInvHolds == SeedSpec => []ListInv
BY ListInvInit, ListStep, PTL DEF SeedSpec

\* The seed's state has its types, its list of nodes among them: for any content, names,
\* urls, requests at once and crashes.
THEOREM SeedTypeCorrect == SeedSpec => []SeedTypeOK
<1>1. ListInv => SeedTypeOK
  BY DEF ListInv
<1>2. QED
  BY <1>1, ListInvHolds, PTL

\* While it serves, the seed has the whole content on its drive, save what a crash between
\* two puts has left out for good, and its list holds exactly the last url every name has
\* registered since it started, one entry a name, however the requests interleave.
THEOREM SeedServesNodes == SeedSpec => []SeedServes
<1>1. ListInv => RegistryExact
  BY DEF ListInv, RegistryExact, NamesApart, RegisteredNodes
<1>2. QED
  BY <1>1, ListInvHolds, ServesWholeContent, PTL DEF SeedServes

----------------------------------------------------------------------------
(* Managed code.                                                           *)

\* The manager joins with everything on its drive, and puts one file after the other.
DriveFits ==
  /\ manager \in {"down", "seeding", "serving"}
  /\ seeded \subseteq ToSet(Puts) /\ nextPut \in 1..Len(Puts)
  /\ manager = "seeding" => \A i \in 1..Len(Puts) : i < nextPut => Puts[i] \in seeded
  /\ manager = "serving" => ToSet(Puts) \subseteq seeded

\* Nobody is connected to a manager that has not joined.
ManagerFits == links[Manager] # NoLink => manager = "serving"

\* What a worker runs is the beginning of what it was assigned, and all of it once settled.
RolesFit ==
  \A w \in Workers :
    /\ Len(running[w]) <= Len(Assignments[w])
    /\ \A i \in 1..Len(running[w]) : running[w][i] = Assignments[w][i]
    /\ worker[w] = "down" => running[w] = <<>>
    /\ worker[w] = "finding" => running[w] = <<>>
    /\ worker[w] = "pulling" => Len(running[w]) < Len(Assignments[w])
    /\ worker[w] = "settled" => running[w] = Assignments[w]

\* The types of what is not on the drive.
PeersTyped ==
  /\ worker \in [Workers -> {"down", "finding", "pulling", "settled", "fatal"}]
  /\ running \in [Workers -> Seq(ToSet(RoleFiles))]
  /\ client \in {"down", "finding", "targeting", "fatal"}
  /\ links \in [ClientPeers -> (SUBSET ToSet(RoleFiles)) \cup {NoLink}]
  /\ channel = NoLink \/ channel \in [peer : ClientPeers, open : BOOLEAN]
  /\ replied \in BOOLEAN /\ late \subseteq ToSet(RoleFiles)
  /\ ended \in 0..MaxEnds /\ losses \in [ClientPeers -> 0..MaxLosses]

ManagedInv == DriveFits /\ PeersTyped /\ NobodyGivesUp /\ ManagerFits /\ RolesFit

\* The sequence of puts ends in the registry.
LEMMA PutsEnd ==
  /\ Puts \in Seq(ToSet(Puts)) /\ Len(Puts) \in Nat \ {0}
  /\ Registry \in ToSet(Puts) /\ ToSet(RoleFiles) \subseteq ToSet(Puts)
<1>1. RoleFiles \in Seq(ToSet(RoleFiles))
  BY ManagedAssumption
<1> DEFINE S == ToSet(RoleFiles) \cup {Registry}
<1>2. RoleFiles \in Seq(S)
  BY <1>1
<1>3. /\ Puts \in Seq(S) /\ Len(Puts) = Len(RoleFiles) + 1
      /\ Puts[Len(RoleFiles) + 1] = Registry
      /\ \A i \in 1..Len(RoleFiles) : Puts[i] = RoleFiles[i]
      /\ Len(RoleFiles) \in Nat
  BY <1>2 DEF Puts
<1>4. DOMAIN Puts = 1..Len(Puts) /\ DOMAIN RoleFiles = 1..Len(RoleFiles)
  BY <1>1, <1>3
<1>5. Registry \in ToSet(Puts) /\ ToSet(RoleFiles) \subseteq ToSet(Puts)
  BY <1>3, <1>4 DEF ToSet
<1>6. Puts \in Seq(ToSet(Puts))
  BY <1>3, <1>4 DEF ToSet
<1>7. QED
  BY <1>3, <1>5, <1>6

\* What is on the drive stays there.
LEMMA DriveStep ==
  ASSUME ManagedInv, [ManagedNext]_managedVars
  PROVE  DriveFits' /\ seeded \subseteq seeded'
<1>1. CASE UNCHANGED <<manager, seeded, nextPut>>
  BY <1>1 DEF ManagedInv, DriveFits
<1>2. CASE ManagerStarts
  BY <1>2, PutsEnd DEF ManagerStarts, ManagedInv, DriveFits
<1>3. CASE ManagerEnds
  BY <1>3 DEF ManagerEnds, ManagedInv, DriveFits
<1>4. CASE SeedFile
  <2>1. /\ manager = "seeding" /\ nextPut \in 1..Len(Puts) /\ Len(Puts) \in Nat
        /\ seeded' = seeded \cup {Puts[nextPut]} /\ manager' = AfterSeed
        /\ nextPut' = (IF nextPut = Len(Puts) THEN nextPut ELSE nextPut + 1)
        /\ \A i \in 1..Len(Puts) : i < nextPut => Puts[i] \in seeded
        /\ ToSet(Puts) = {Puts[i] : i \in 1..Len(Puts)}
    BY <1>4, PutsEnd DEF SeedFile, ManagedInv, DriveFits, ToSet
  <2>2. /\ \A i \in 1..Len(Puts) : i <= nextPut => Puts[i] \in seeded'
        /\ seeded' \subseteq ToSet(Puts)
    BY <2>1 DEF ManagedInv, DriveFits
  <2>3. CASE nextPut = Len(Puts)
    BY <2>1, <2>2, <2>3 DEF AfterSeed, DriveFits
  <2>4. CASE nextPut # Len(Puts)
    <3>1. manager' = "seeding" /\ nextPut' = nextPut + 1 /\ nextPut' \in 1..Len(Puts)
      BY <2>1, <2>4 DEF AfterSeed
    <3>2. QED
      BY <2>1, <2>2, <3>1 DEF DriveFits
  <2>5. QED
    BY <2>3, <2>4
<1>5. QED
  BY <1>1, <1>2, <1>3, <1>4
  DEF ManagedNext, ManagedProgress, ManagedFaults, managedVars, WorkerStarts, SelfAssign,
      StartRole, ClientStarts, Resolve, Call, Connect, WorkerEnds, Lose

\* A connection is gone.
LEMMA UnlinkedStep ==
  ASSUME PeersTyped, NEW p \in ClientPeers, Unlinked(p)
  PROVE  /\ links' \in [ClientPeers -> (SUBSET ToSet(RoleFiles)) \cup {NoLink}]
         /\ channel' = NoLink \/ channel' \in [peer : ClientPeers, open : BOOLEAN]
         /\ links'[p] = NoLink /\ \A q \in ClientPeers \ {p} : links'[q] = links[q]
         /\ late' = IF p = Target THEN {} ELSE late
<1>1. /\ links' = [links EXCEPT ![p] = NoLink]
      /\ late' = IF p = Target THEN {} ELSE late
  BY DEF Unlinked
<1>2. CASE channel # NoLink /\ channel.peer = p
  <2>1. channel' = [channel EXCEPT !.open = FALSE]
    BY <1>2 DEF Unlinked
  <2>2. QED
    BY <1>1, <1>2, <2>1 DEF PeersTyped
<1>3. CASE ~(channel # NoLink /\ channel.peer = p)
  BY <1>1, <1>3 DEF Unlinked, PeersTyped
<1>4. QED
  BY <1>2, <1>3

\* The process of a worker is gone.
LEMMA GoneStep ==
  ASSUME ManagedInv, NEW w \in Workers, Gone(w, "down")
  PROVE  /\ worker' \in [Workers -> {"down", "finding", "pulling", "settled", "fatal"}]
         /\ running' \in [Workers -> Seq(ToSet(RoleFiles))]
         /\ worker'[w] = "down" /\ running'[w] = <<>>
         /\ \A v \in Workers \ {w} : worker'[v] = worker[v] /\ running'[v] = running[v]
         /\ links' \in [ClientPeers -> (SUBSET ToSet(RoleFiles)) \cup {NoLink}]
         /\ channel' = NoLink \/ channel' \in [peer : ClientPeers, open : BOOLEAN]
         /\ w = Target => links'[Target] = NoLink /\ late' = {}
         /\ w # Target => late' = late
         /\ \A p \in ClientPeers : links'[p] = links[p] \/ links'[p] = NoLink
<1>1. /\ worker' = [worker EXCEPT ![w] = "down"] /\ running' = [running EXCEPT ![w] = <<>>]
      /\ IF w = Target THEN Unlinked(w) ELSE UNCHANGED <<links, channel, late>>
  BY DEF Gone
<1>2. <<>> \in Seq(ToSet(RoleFiles))
  OBVIOUS
<1>3. CASE w = Target
  <2>1. w \in ClientPeers
    BY <1>3 DEF ClientPeers
  <2>2. QED
    BY <1>1, <1>2, <1>3, <2>1, UnlinkedStep DEF ManagedInv, PeersTyped
<1>4. CASE w # Target
  BY <1>1, <1>2, <1>4 DEF ManagedInv, PeersTyped
<1>5. QED
  BY <1>3, <1>4

\* What is left to show of a step.
PeersFit == PeersTyped /\ NobodyGivesUp /\ ManagerFits /\ RolesFit

LEMMA ManagerIsNoWorker ==
  Manager \in ClientPeers /\ Target \in ClientPeers /\ Target \in Workers /\ Manager # Target
  BY ManagedAssumption DEF ClientPeers

LEMMA ManagerSteps ==
  ASSUME ManagedInv, ManagerStarts \/ SeedFile \/ ManagerEnds
  PROVE  PeersFit'
<1>1. CASE ManagerStarts \/ SeedFile
  <2>1. /\ links[Manager] = NoLink
        /\ UNCHANGED <<worker, running, client, links, channel, replied, late, ended, losses>>
    BY <1>1 DEF ManagerStarts, SeedFile, peerVars, ManagedInv, ManagerFits
  <2>2. QED
    BY <2>1 DEF ManagedInv, PeersFit, PeersTyped, NobodyGivesUp, ManagerFits, RolesFit
<1>2. CASE ManagerEnds
  <2>1. UNCHANGED <<worker, running, client, replied, losses>> /\ Unlinked(Manager)
        /\ ended' \in 0..MaxEnds
    BY <1>2, ManagedAssumption DEF ManagerEnds, ManagedInv, PeersTyped
  <2>2. PeersTyped' /\ links'[Manager] = NoLink
    BY <2>1, UnlinkedStep, ManagerIsNoWorker DEF ManagedInv, PeersTyped
  <2>3. QED
    BY <2>1, <2>2 DEF ManagedInv, PeersFit, NobodyGivesUp, ManagerFits, RolesFit
<1>3. QED
  BY <1>1, <1>2

LEMMA ClientStep ==
  ASSUME ManagedInv, ClientStarts \/ Resolve \/ Call
  PROVE  PeersFit'
<1>1. UNCHANGED <<manager, worker, running, links, channel, late, ended, losses>>
      /\ client' \in {"down", "finding", "targeting"} /\ replied' \in BOOLEAN
  <2>1. CASE ClientStarts
    BY <2>1 DEF ClientStarts, ManagedInv, PeersTyped
  <2>2. CASE Resolve
    <3>1. Registry \in seeded
      BY <2>2, PutsEnd DEF Resolve, ManagedInv, ManagerFits, DriveFits
    <3>2. QED
      BY <2>2, <3>1 DEF Resolve, ManagedInv, PeersTyped
  <2>3. CASE Call
    BY <2>3 DEF Call, ManagedInv, PeersTyped, NobodyGivesUp
  <2>4. QED
    BY <2>1, <2>2, <2>3
<1>2. QED
  BY <1>1 DEF ManagedInv, PeersFit, PeersTyped, NobodyGivesUp, ManagerFits, RolesFit

LEMMA ConnectStep ==
  ASSUME ManagedInv, NEW p \in ClientPeers, Connect(p)
  PROVE  /\ PeersFit'
         /\ links' = [links EXCEPT ![p] = IF p = Manager THEN {} ELSE ToSet(running[p])]
<1> DEFINE roles == IF p = Manager THEN {} ELSE ToSet(running[p])
<1>1. /\ UNCHANGED <<manager, worker, running, client, replied, late, ended, losses>>
      /\ links' = [links EXCEPT ![p] = roles] /\ Reachable(p)
      /\ channel' = channel \/ channel' = [peer |-> p, open |-> Service \in roles]
  BY DEF Connect
<1>2. roles \in SUBSET ToSet(RoleFiles)
  <2>1. CASE p = Manager
    BY <2>1
  <2>2. CASE p # Manager
    <3>1. running[p] \in Seq(ToSet(RoleFiles))
      BY <2>2, ManagerIsNoWorker DEF ClientPeers, ManagedInv, PeersTyped
    <3>2. QED
      BY <2>2, <3>1 DEF ToSet
  <2>3. QED
    BY <2>1, <2>2
<1> HIDE DEF roles
<1>3. PeersTyped'
  <2>1. links' \in [ClientPeers -> (SUBSET ToSet(RoleFiles)) \cup {NoLink}]
    BY <1>1, <1>2 DEF ManagedInv, PeersTyped
  <2>2. channel' = NoLink \/ channel' \in [peer : ClientPeers, open : BOOLEAN]
    <3>1. [peer |-> p, open |-> Service \in roles] \in [peer : ClientPeers, open : BOOLEAN]
      OBVIOUS
    <3>2. QED
      BY <1>1, <3>1 DEF ManagedInv, PeersTyped
  <2>3. QED
    BY <1>1, <2>1, <2>2 DEF ManagedInv, PeersTyped
<1>4. ManagerFits'
  <2>1. CASE p = Manager
    BY <1>1, <2>1 DEF Reachable, ManagerFits
  <2>2. CASE p # Manager
    BY <1>1, <2>2, ManagerIsNoWorker DEF ManagedInv, ManagerFits, PeersTyped
  <2>3. QED
    BY <2>1, <2>2
<1>5. QED
  BY <1>1, <1>3, <1>4 DEF ManagedInv, PeersFit, NobodyGivesUp, RolesFit, roles

LEMMA LoseStep ==
  ASSUME ManagedInv, NEW p \in ClientPeers, Lose(p)
  PROVE  PeersFit'
<1>1. UNCHANGED <<manager, worker, running, client, replied, ended>> /\ Unlinked(p)
      /\ losses' \in [ClientPeers -> 0..MaxLosses]
  BY ManagedAssumption DEF Lose, ManagedInv, PeersTyped
<1>2. PeersTyped' /\ links'[p] = NoLink /\ \A q \in ClientPeers \ {p} : links'[q] = links[q]
  BY <1>1, UnlinkedStep DEF ManagedInv, PeersTyped
<1>3. ManagerFits'
  BY <1>1, <1>2, ManagerIsNoWorker DEF ManagedInv, ManagerFits
<1>4. QED
  BY <1>1, <1>2, <1>3 DEF ManagedInv, PeersFit, NobodyGivesUp, RolesFit

LEMMA WorkerStartsStep ==
  ASSUME ManagedInv, NEW w \in Workers, WorkerStarts(w) \/ SelfAssign(w)
  PROVE  PeersFit'
<1>1. /\ UNCHANGED <<manager, running, client, links, channel, replied, late, ended, losses>>
      /\ \E s \in {"finding", "settled", "pulling"} :
           /\ worker' = [worker EXCEPT ![w] = s]
           /\ s = "settled" => Assignments[w] = <<>>
           /\ s = "pulling" => Assignments[w] # <<>>
      /\ running[w] = <<>>
  <2>1. CASE WorkerStarts(w)
    BY <2>1 DEF WorkerStarts, ManagedInv, RolesFit
  <2>2. CASE SelfAssign(w)
    <3>1. Registry \in seeded /\ worker[w] = "finding"
      BY <2>2, PutsEnd DEF SelfAssign, ManagedInv, DriveFits
    <3>2. QED
      BY <2>2, <3>1 DEF SelfAssign, ManagedInv, RolesFit
  <2>3. QED
    BY <2>1, <2>2
<1>2. Assignments[w] # <<>> => Len(Assignments[w]) > 0
  BY ManagedAssumption
<1>3. RolesFit'
  BY <1>1, <1>2 DEF ManagedInv, PeersTyped, RolesFit
<1>4. QED
  BY <1>1, <1>3 DEF ManagedInv, PeersFit, PeersTyped, NobodyGivesUp, ManagerFits

LEMMA StartRoleStep ==
  ASSUME ManagedInv, NEW w \in Workers, StartRole(w)
  PROVE  /\ PeersFit' /\ UNCHANGED links
         /\ \E role \in ToSet(RoleFiles) :
              /\ running'[w] = Append(running[w], role)
              /\ late' = IF w = Target /\ links[Target] # NoLink THEN late \union {role} ELSE late
         /\ \A v \in Workers \ {w} : running'[v] = running[v]
<1> DEFINE n == Len(running[w])
           role == Assignments[w][n + 1]
<1>1. /\ running[w] \in Seq(ToSet(RoleFiles)) /\ Assignments[w] \in Seq(ToSet(RoleFiles))
      /\ n \in Nat /\ Len(Assignments[w]) \in Nat /\ n < Len(Assignments[w])
      /\ \A i \in 1..n : running[w][i] = Assignments[w][i]
  BY ManagedAssumption DEF StartRole, ManagedInv, PeersTyped, RolesFit
<1>2. role \in ToSet(RoleFiles) /\ role \in seeded
  BY <1>1, PutsEnd DEF StartRole, ManagedInv, DriveFits
<1>3. /\ running' = [running EXCEPT ![w] = Append(@, role)]
      /\ worker' = [worker EXCEPT ![w] =
           IF Len(running'[w]) = Len(Assignments[w]) THEN "settled" ELSE "pulling"]
      /\ late' = IF w = Target /\ links[Target] # NoLink THEN late \union {role} ELSE late
      /\ UNCHANGED <<manager, client, links, channel, replied, ended, losses>>
  BY <1>2 DEF StartRole
<1> HIDE DEF n, role
<1> DEFINE r == Append(running[w], role)
<1>4. /\ r \in Seq(ToSet(RoleFiles)) /\ Len(r) = n + 1 /\ r # <<>>
      /\ \A i \in 1..n + 1 : r[i] = Assignments[w][i]
  <2>1. /\ r \in Seq(ToSet(RoleFiles)) /\ Len(r) = Len(running[w]) + 1
        /\ \A i \in 1..Len(running[w]) : r[i] = running[w][i]
        /\ r[Len(running[w]) + 1] = role
    BY <1>1, <1>2
  <2> HIDE DEF r
  <2>2. /\ n = Len(running[w]) /\ role = Assignments[w][n + 1]
    BY DEF n, role
  <2>3. \A i \in 1..n + 1 : r[i] = Assignments[w][i]
    BY <1>1, <2>1, <2>2
  <2>4. QED
    BY <1>1, <2>1, <2>2, <2>3
<1>5. Len(r) = Len(Assignments[w]) => r = Assignments[w]
  BY <1>1, <1>4, SeqEqual
<1> HIDE DEF r
<1>6. /\ running' \in [Workers -> Seq(ToSet(RoleFiles))] /\ running'[w] = r
      /\ \A v \in Workers \ {w} : running'[v] = running[v] /\ worker'[v] = worker[v]
      /\ worker' \in [Workers -> {"down", "finding", "pulling", "settled", "fatal"}]
      /\ worker'[w] = (IF Len(r) = Len(Assignments[w]) THEN "settled" ELSE "pulling")
  BY <1>3, <1>4 DEF ManagedInv, PeersTyped, r
<1>7. RolesFit'
  <2>1. ASSUME NEW v \in Workers
        PROVE  /\ Len(running'[v]) <= Len(Assignments[v])
               /\ \A i \in 1..Len(running'[v]) : running'[v][i] = Assignments[v][i]
               /\ worker'[v] = "down" => running'[v] = <<>>
               /\ worker'[v] = "finding" => running'[v] = <<>>
               /\ worker'[v] = "pulling" => Len(running'[v]) < Len(Assignments[v])
               /\ worker'[v] = "settled" => running'[v] = Assignments[v]
    <3>1. CASE v = w
      BY <1>1, <1>4, <1>5, <1>6, <3>1
    <3>2. CASE v # w
      <4>1. running'[v] = running[v] /\ worker'[v] = worker[v]
        BY <1>6, <3>2
      <4>2. /\ Len(running[v]) <= Len(Assignments[v])
            /\ \A i \in 1..Len(running[v]) : running[v][i] = Assignments[v][i]
            /\ worker[v] = "down" => running[v] = <<>>
            /\ worker[v] = "finding" => running[v] = <<>>
            /\ worker[v] = "pulling" => Len(running[v]) < Len(Assignments[v])
            /\ worker[v] = "settled" => running[v] = Assignments[v]
        BY DEF ManagedInv, RolesFit
      <4>3. QED
        BY <4>1, <4>2
    <3>3. QED
      BY <3>1, <3>2
  <2>2. QED
    BY <2>1 DEF RolesFit
<1>8. PeersTyped' /\ NobodyGivesUp' /\ ManagerFits'
  <2>1. late' \subseteq ToSet(RoleFiles)
    BY <1>2, <1>3 DEF ManagedInv, PeersTyped
  <2>2. QED
    BY <1>3, <1>6, <2>1 DEF ManagedInv, PeersTyped, NobodyGivesUp, ManagerFits
<1>9. QED
  BY <1>2, <1>3, <1>6, <1>7, <1>8 DEF PeersFit, r

LEMMA WorkerEndsStep ==
  ASSUME ManagedInv, NEW w \in Workers, WorkerEnds(w)
  PROVE  PeersFit'
<1>1. UNCHANGED <<manager, client, replied, losses>> /\ Gone(w, "down") /\ ended' \in 0..MaxEnds
  BY ManagedAssumption DEF WorkerEnds, ManagedInv, PeersTyped
<1>2. PeersTyped' /\ NobodyGivesUp' /\ ManagerFits'
  BY <1>1, GoneStep, ManagerIsNoWorker
  DEF ManagedInv, PeersTyped, NobodyGivesUp, ManagerFits
<1>3. RolesFit'
  <2>1. Len(<<>>) = 0 /\ Len(Assignments[w]) \in Nat
    BY ManagedAssumption
  <2>2. /\ worker'[w] = "down" /\ running'[w] = <<>>
        /\ \A v \in Workers \ {w} : worker'[v] = worker[v] /\ running'[v] = running[v]
    BY <1>1, GoneStep
  <2>3. QED
    BY <2>1, <2>2 DEF ManagedInv, RolesFit
<1>4. QED
  BY <1>2, <1>3 DEF PeersFit

LEMMA ManagedStep ==
  ASSUME ManagedInv, [ManagedNext]_managedVars
  PROVE  ManagedInv'
<1>1. PeersFit'
  <2>1. CASE UNCHANGED managedVars
    BY <2>1 DEF managedVars, ManagedInv, PeersFit, PeersTyped, NobodyGivesUp, ManagerFits, RolesFit
  <2>2. QED
    BY <2>1, ManagerSteps, ClientStep, ConnectStep, LoseStep, WorkerStartsStep, StartRoleStep,
       WorkerEndsStep DEF ManagedNext, ManagedProgress, ManagedFaults
<1>2. QED
  BY <1>1, DriveStep DEF PeersFit, ManagedInv

LEMMA ManagedInvInit == ManagedInit => ManagedInv
<1> SUFFICES ASSUME ManagedInit PROVE ManagedInv
  OBVIOUS
<1>1. 1 \in 1..Len(Puts) /\ 0 \in 0..MaxEnds /\ 0 \in 0..MaxLosses
  BY PutsEnd, ManagedAssumption
<1>2. PeersTyped
  <2>1. running \in [Workers -> Seq(ToSet(RoleFiles))]
    BY DEF ManagedInit
  <2>2. QED
    BY <1>1, <2>1 DEF ManagedInit, PeersTyped
<1>3. \A w \in Workers : Len(running[w]) = 0 /\ Len(Assignments[w]) \in Nat
  BY ManagedAssumption DEF ManagedInit
<1>4. RolesFit
  BY <1>3 DEF ManagedInit, RolesFit
<1>5. QED
  BY <1>1, <1>2, <1>4, ManagerIsNoWorker
  DEF ManagedInit, ManagedInv, DriveFits, NobodyGivesUp, ManagerFits

LEMMA ManagedInvHolds == ManagedSpec => []ManagedInv
BY ManagedInvInit, ManagedStep, PTL DEF ManagedSpec

\* Wherever the seeding was interrupted, nobody who finds the manager gives up for want of
\* the registry or of a role it assigns, for any workers, roles and assignments.
THEOREM EveryoneFindsTheirRoles == ManagedSpec => []NobodyGivesUp
<1>1. ManagedInv => NobodyGivesUp
  BY DEF ManagedInv
<1>2. QED
  BY <1>1, ManagedInvHolds, PTL

LEMMA ManagedTyped == ManagedInv => ManagedTypeOK
<1> SUFFICES ASSUME ManagedInv PROVE ManagedTypeOK
  OBVIOUS
<1>1. ASSUME NEW w \in Workers PROVE IsPrefix(running[w], Assignments[w])
  <2> DEFINE s == running[w]
             t == Assignments[w]
             u == SubSeq(t, 1, Len(s))
  <2>1. /\ s \in Seq(ToSet(RoleFiles)) /\ t \in Seq(ToSet(RoleFiles))
        /\ Len(s) <= Len(t) /\ \A i \in 1..Len(s) : s[i] = t[i]
        /\ Len(s) \in Nat /\ Len(t) \in Nat
    BY ManagedAssumption DEF ManagedInv, PeersTyped, RolesFit
  <2> HIDE DEF s, t
  <2>2. u \in Seq(ToSet(RoleFiles)) /\ Len(u) = Len(s) /\ \A i \in 1..Len(s) : u[i] = t[i]
    BY <2>1
  <2>3. u = s
    BY <2>1, <2>2, SeqEqual
  <2>4. SubSeq(s, 1, Len(s)) = s
    BY <2>1, SubSeqFull
  <2>5. QED
    BY <2>1, <2>3, <2>4 DEF IsPrefix, s, t
<1>2. QED
  BY <1>1 DEF ManagedInv, DriveFits, PeersTyped, ManagedTypeOK

\* The state of manager, workers and client has its types, for any workers and roles.
THEOREM ManagedTypeCorrect == ManagedSpec => []ManagedTypeOK
BY ManagedTyped, ManagedInvHolds, PTL

\* On a connection to the target some role is offered, and all that ran when it came; what
\* has started since is late.  Nothing is late where there is no connection.
TargetOffers ==
  IF links[Target] = NoLink THEN late = {}
  ELSE links[Target] # {} /\ ToSet(running[Target]) = links[Target] \union late

LEMMA AppendedRole ==
  ASSUME NEW S, NEW s \in Seq(S), NEW e \in S
  PROVE  ToSet(Append(s, e)) = ToSet(s) \union {e}
<1>1. /\ DOMAIN Append(s, e) = 1..Len(s) + 1 /\ DOMAIN s = 1..Len(s) /\ Len(s) \in Nat
      /\ \A i \in 1..Len(s) : Append(s, e)[i] = s[i]
      /\ Append(s, e)[Len(s) + 1] = e
  OBVIOUS
<1>2. QED
  BY <1>1 DEF ToSet

LEMMA TargetStep ==
  ASSUME ManagedInv, TargetOffers, [ManagedNext]_managedVars
  PROVE  TargetOffers'
<1>1. CASE UNCHANGED <<links, late>> /\ running'[Target] = running[Target]
  BY <1>1 DEF TargetOffers
<1>2. CASE links'[Target] = NoLink /\ late' = {}
  BY <1>2 DEF TargetOffers
<1>3. CASE UNCHANGED <<running, late>> /\ links'[Target] = links[Target]
  BY <1>3 DEF TargetOffers
<1>4. ASSUME NEW p \in ClientPeers, Connect(p) PROVE TargetOffers'
  <2>1. /\ UNCHANGED <<running, late>> /\ Reachable(p) /\ p \in {Manager, Target}
        /\ links[p] = NoLink
        /\ links' = [links EXCEPT ![p] = IF p = Manager THEN {} ELSE ToSet(running[p])]
    BY <1>4, ConnectStep DEF Connect, ClientPeers
  <2>2. CASE p = Manager
    BY <1>3, <2>1, <2>2, ManagerIsNoWorker DEF ManagedInv, PeersTyped
  <2>3. CASE p = Target
    <3>1. /\ running[Target] # <<>> /\ links'[Target] = ToSet(running[Target])
          /\ late = {} /\ UNCHANGED <<running, late>>
      BY <2>1, <2>3, ManagerIsNoWorker DEF Reachable, ManagedInv, PeersTyped, TargetOffers
    <3>2. running[Target] \in Seq(ToSet(RoleFiles))
      BY ManagerIsNoWorker DEF ManagedInv, PeersTyped
    <3>3. ToSet(running[Target]) # {}
      <4>1. 1 \in DOMAIN running[Target]
        BY <3>1, <3>2
      <4>2. QED
        BY <4>1 DEF ToSet
    <3>4. QED
      BY <1>2, <3>1, <3>3 DEF TargetOffers
  <2>4. QED
    BY <2>1, <2>2, <2>3
<1>5. ASSUME NEW p \in ClientPeers, Unlinked(p), UNCHANGED running PROVE TargetOffers'
  <2>1. /\ links'[p] = NoLink /\ \A q \in ClientPeers \ {p} : links'[q] = links[q]
        /\ late' = IF p = Target THEN {} ELSE late
    BY <1>5, UnlinkedStep DEF ManagedInv
  <2>2. QED
    BY <1>2, <1>3, <1>5, <2>1, ManagerIsNoWorker
<1>6. ASSUME NEW w \in Workers, StartRole(w) PROVE TargetOffers'
  <2>1. CASE w # Target
    <3>1. UNCHANGED <<links, late>> /\ running'[Target] = running[Target]
      BY <1>6, <2>1, ManagerIsNoWorker, StartRoleStep
    <3>2. QED
      BY <1>1, <3>1
  <2>2. CASE w = Target
    <3>1. PICK role \in ToSet(RoleFiles) :
            /\ running'[Target] = Append(running[Target], role)
            /\ late' = IF links[Target] # NoLink THEN late \union {role} ELSE late
      BY <1>6, <2>2, StartRoleStep
    <3>2. ToSet(running'[Target]) = ToSet(running[Target]) \union {role} /\ UNCHANGED links
      BY <1>6, <3>1, AppendedRole, ManagerIsNoWorker, StartRoleStep DEF ManagedInv, PeersTyped
    <3>3. CASE links[Target] = NoLink
      BY <3>1, <3>2, <3>3 DEF TargetOffers
    <3>4. CASE links[Target] # NoLink
      <4>1. /\ links[Target] # {} /\ ToSet(running[Target]) = links[Target] \union late
            /\ late' = late \union {role}
        BY <3>1, <3>4 DEF TargetOffers
      <4>2. QED
        BY <3>2, <3>4, <4>1 DEF TargetOffers
    <3>5. QED
      BY <3>3, <3>4
  <2>3. QED
    BY <2>1, <2>2
<1>7. ASSUME NEW w \in Workers, WorkerEnds(w) PROVE TargetOffers'
  <2>1. Gone(w, "down")
    BY <1>7 DEF WorkerEnds
  <2>2. CASE w = Target
    BY <1>2, <2>1, <2>2, GoneStep
  <2>3. CASE w # Target
    <3>1. running'[Target] = running[Target] /\ UNCHANGED <<links, late>>
      BY <2>1, <2>3, ManagerIsNoWorker, GoneStep DEF Gone
    <3>2. QED
      BY <1>1, <3>1
  <2>4. QED
    BY <2>2, <2>3
<1>8. QED
  BY <1>1, <1>4, <1>5, <1>6, <1>7, ManagerIsNoWorker
  DEF ManagedNext, ManagedProgress, ManagedFaults, managedVars, peerVars, ManagerStarts, SeedFile,
      ManagerEnds, WorkerStarts, SelfAssign, ClientStarts, Resolve, Call, Lose

\* Everyone finds what is assigned, and on every connection to the target all the roles are
\* offered that ran there when it came, at least one of them and whatever their number; only
\* what started later is not.
THEOREM RolesAreServed == ManagedSpec => []RolesServed
<1>1. ManagedInit => TargetOffers
  BY ManagerIsNoWorker DEF ManagedInit, TargetOffers
<1>2. ManagedInv /\ TargetOffers /\ [ManagedNext]_managedVars => TargetOffers'
  BY TargetStep
<1>3. ManagedInv /\ TargetOffers => RolesServed
  BY DEF ManagedInv, TargetOffers, RolesServed, EveryRoleOffered
<1>4. QED
  BY <1>1, <1>2, <1>3, ManagedInvHolds, PTL DEF ManagedSpec

----------------------------------------------------------------------------
(* The applications side by side.                                          *)

\* The invariants of the parts.
PartsInv == FInv /\ WTypeOK /\ ListInv /\ ManagedInv /\ RegistryInv /\ TreeInv

LEMMA PartsMove ==
  [ApplicationsNext]_applicationVars =>
    /\ [FNext]_fuseVars /\ [WNext]_worldVars /\ [SeedNext]_seedVars
    /\ [ManagedNext]_managedVars /\ [GNext]_subtreeVars /\ [XNext]_xpathVars
BY DEF ApplicationsNext, InFuse, InWorld, InSeed, InManaged, InSubtrees, InXPath, applicationVars

LEMMA PartsInvStep == PartsInv /\ [ApplicationsNext]_applicationVars => PartsInv'
<1> SUFFICES ASSUME PartsInv, [ApplicationsNext]_applicationVars PROVE PartsInv'
  OBVIOUS
<1>1. FInv'
  BY PartsMove, StepFits DEF PartsInv
<1>2. WTypeOK'
  BY PartsMove, WorldStep DEF PartsInv
<1>3. ListInv'
  BY PartsMove, ListStep DEF PartsInv
<1>4. ManagedInv'
  BY PartsMove, ManagedStep DEF PartsInv
<1>5. RegistryInv'
  BY PartsMove, RegistryNext DEF PartsInv
<1>6. TreeInv'
  BY PartsMove, TreeStep DEF PartsInv
<1>7. QED
  BY <1>1, <1>2, <1>3, <1>4, <1>5, <1>6 DEF PartsInv

LEMMA PartsInvInit == ApplicationsInit => PartsInv
BY InitFits, WorldInit, ListInvInit, ManagedInvInit, RegistryInit, TreeInvInit
DEF ApplicationsInit, PartsInv

\* The parts keep their types, for any nodes, content, requests, workers, repositories,
\* names and bounds.
THEOREM ApplicationsTypeCorrect == ApplicationsSpec => []ApplicationsTypeOK
<1>1. PartsInv => ApplicationsTypeOK
  BY ManagedTyped DEF PartsInv, FInv, ListInv, RegistryInv, TreeInv, ApplicationsTypeOK
<1>2. QED
  BY <1>1, PartsInvInit, PartsInvStep, PTL DEF ApplicationsSpec

\* Beside the other parts the lenses show and change what they do alone: what was put is
\* read back, what is listed can be opened, every file is in one of data and metadata, and
\* what is changed through one is not seen through the other (src/spl/mycelium/xpath).
THEOREM LensesAgreeAlways == ApplicationsSpec => LensesAgree
<1>1. ApplicationsInit => XInit
  BY DEF ApplicationsInit
<1>2. [ApplicationsNext]_applicationVars => [XNext]_xpathVars
  BY PartsMove
<1>3. ApplicationsSpec => XSpec
  BY <1>1, <1>2, PTL DEF ApplicationsSpec, XSpec
<1>4. PutIsRead /\ ListedCanBeOpened /\ EachFileInOneLens
        => (part = "xpath" => PutIsRead /\ ListedCanBeOpened /\ EachFileInOneLens)
  OBVIOUS
<1>5. XSpec => [](part = "xpath" => PutIsRead /\ ListedCanBeOpened /\ EachFileInOneLens)
  BY <1>4, LensesShowTheTree, PTL
<1>6. QED
  BY <1>3, <1>5, LensesStayApart, PTL DEF LensesAgree
=============================================================================
