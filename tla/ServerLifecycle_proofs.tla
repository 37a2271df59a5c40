----------------------- MODULE ServerLifecycle_proofs -----------------------
(***************************************************************************)
(* Proofs about the server's life, for any number of processes and starts: *)
(* if no process is launched while another is up, a server that listens is *)
(* the one the pid file names, through restarts, commands, stale files and *)
(* crashes.  (Launches that overlap break it, which a run shows.)          *)
(***************************************************************************)
EXTENDS ServerLifecycle, TLAPS

----------------------------------------------------------------------------
(* The inductive invariant.                                                *)

Fates == {"none", "bound", "open", "failed", "closing", "closed"}

Lives(s) == s \in {"bound", "open", "failed", "closing"}

\* One process is up at a time; the others have no server and are in no section.
OneUp ==
  /\ \A p, q \in Procs : up[p] = "up" /\ up[q] = "up" => p = q
  /\ \A p \in Procs : up[p] # "up" =>
       pc[p] = "idle" /\ tcp[p] = 0 /\ \A g \in Servers : ~Lives(srv[p][g])

\* A server object that was not closed is the one that tcpServer holds, and the pid file
\* names its process: it is there to stay until that object has closed.
LiveIsRecorded ==
  /\ \A p \in Procs, g \in Servers : Lives(srv[p][g]) => tcp[p] = g /\ pidFile = p
  /\ \A p \in Procs : tcp[p] # 0 => Lives(srv[p][tcp[p]])

\* A start that goes on found no such object.
WriteIsAlone ==
  \A p \in Procs : pc[p] \in {"stale", "write"} => tcp[p] = 0

LInv == LTypeOK /\ OneUp /\ LiveIsRecorded /\ WriteIsAlone

----------------------------------------------------------------------------
(* The steps.                                                              *)

\* What a change of one server object of one process leaves.
LEMMA NestedFate ==
  ASSUME NEW f \in [Procs -> [Servers -> Fates]], NEW p \in Procs, NEW g, NEW v \in Fates
  PROVE  [f EXCEPT ![p][g] = v] \in [Procs -> [Servers -> Fates]]
<1>1. [f[p] EXCEPT ![g] = v] \in [Servers -> Fates]
  OBVIOUS
<1>2. [f EXCEPT ![p][g] = v] = [f EXCEPT ![p] = [f[p] EXCEPT ![g] = v]]
  OBVIOUS
<1>3. QED
  BY <1>1, <1>2

LEMMA NestedCallback ==
  ASSUME NEW f \in [Procs -> [Servers -> Callbacks]], NEW p \in Procs, NEW g,
         NEW v \in Callbacks
  PROVE  [f EXCEPT ![p][g] = v] \in [Procs -> [Servers -> Callbacks]]
<1>1. [f[p] EXCEPT ![g] = v] \in [Servers -> Callbacks]
  OBVIOUS
<1>2. [f EXCEPT ![p][g] = v] = [f EXCEPT ![p] = [f[p] EXCEPT ![g] = v]]
  OBVIOUS
<1>3. QED
  BY <1>1, <1>2

\* What a change of the set of one process leaves.
LEMMA SetOfOne ==
  ASSUME NEW S, NEW f \in [Procs -> SUBSET S], NEW p \in Procs, NEW T \in SUBSET S
  PROVE  [f EXCEPT ![p] = T] \in [Procs -> SUBSET S]
OBVIOUS

\* stop keeps the invariant, whatever its callback and the events to come.
LEMMA StopKeeps ==
  ASSUME LInv, NEW p \in Procs, up[p] = "up", NEW callback \in Callbacks,
         NEW heard \in SUBSET Commands, Stop(p, callback, heard),
         todo' \in [Procs -> SUBSET Commands], cmdFiles' \subseteq Commands,
         restarts' \in 0..MaxStarts
  PROVE  LInv'
<1> USE DEF Commands, Callbacks
<1>1. LTypeOK'
  <2>1. state' \in [Procs -> {"stopped", "starting", "running", "stopping"}]
    BY DEF LInv, LTypeOK, Stop, Stopped
  <2>2. /\ watching' \in [Procs -> BOOLEAN]
        /\ events' \in [Procs -> SUBSET Commands]
        /\ pidFile' \in Procs \cup {NoProc}
    BY DEF LInv, LTypeOK, Stop
  <2>3. AfterCallback(p, callback) \in {"idle", "scan", "exit", "check"} /\ BackFrom(p) \in {"idle", "scan"}
    BY DEF AfterCallback, BackFrom
  <2>4. pc' \in [Procs -> {"idle", "check", "stale", "write", "scan", "exit"}]
    BY <2>3 DEF LInv, LTypeOK, Stop
  <2>5. srv' \in [Procs -> [Servers -> Fates]] /\ onClose' \in [Procs -> [Servers -> Callbacks]]
    <3>1. CASE Active(p) /\ tcp[p] # 0
      <4>1. tcp[p] \in Servers
        BY <3>1 DEF LInv, LTypeOK, Servers
      <4>2. /\ srv \in [Procs -> [Servers -> Fates]] /\ srv' = [srv EXCEPT ![p][tcp[p]] = "closing"]
            /\ onClose \in [Procs -> [Servers -> Callbacks]]
            /\ onClose' = [onClose EXCEPT ![p][tcp[p]] = callback]
        BY <3>1 DEF LInv, LTypeOK, Stop, Fates
      <4>3. "closing" \in Fates
        BY DEF Fates
      <4>4. [srv EXCEPT ![p][tcp[p]] = "closing"] \in [Procs -> [Servers -> Fates]]
        BY <4>2, <4>3, NestedFate
      <4>5. [onClose EXCEPT ![p][tcp[p]] = callback] \in [Procs -> [Servers -> Callbacks]]
        BY <4>2, NestedCallback
      <4>6. QED
        BY <4>2, <4>4, <4>5
    <3>2. CASE ~(Active(p) /\ tcp[p] # 0)
      BY <3>2 DEF LInv, LTypeOK, Stop, Fates
    <3>3. QED
      BY <3>1, <3>2
  <2>7. QED
    BY <2>1, <2>2, <2>4, <2>5 DEF LInv, LTypeOK, Stop, Fates
<1>2. CASE Active(p) /\ tcp[p] # 0
  <2>1. /\ tcp[p] \in Servers /\ Lives(srv[p][tcp[p]])
    BY <1>2 DEF LInv, LTypeOK, LiveIsRecorded, Servers
  <2>2. /\ srv' = [srv EXCEPT ![p][tcp[p]] = "closing"]
        /\ UNCHANGED <<up, tcp, pidFile>>
        /\ pc' = [pc EXCEPT ![p] = BackFrom(p)] /\ BackFrom(p) \notin {"stale", "write"}
    BY <1>2 DEF Stop, StopsAtOnce, BackFrom
  <2>3. \A q \in Procs, g \in Servers : Lives(srv'[q][g]) <=> Lives(srv[q][g])
    BY <2>1, <2>2 DEF LInv, LTypeOK, Lives
  <2>4. OneUp' /\ LiveIsRecorded' /\ WriteIsAlone'
    <3>1. OneUp'
      BY <2>2, <2>3 DEF LInv, LTypeOK, OneUp
    <3>2. LiveIsRecorded'
      <4>1. \A q \in Procs : tcp[q] # 0 => tcp[q] \in Servers
        BY DEF LInv, LTypeOK, Servers
      <4>2. QED
        BY <2>2, <2>3, <4>1 DEF LInv, LiveIsRecorded
    <3>3. WriteIsAlone'
      BY <2>2 DEF LInv, LTypeOK, WriteIsAlone
    <3>4. QED
      BY <3>1, <3>2, <3>3
  <2>5. QED
    BY <1>1, <2>4 DEF LInv
<1>3. CASE ~(Active(p) /\ tcp[p] # 0)
  <2>1. /\ UNCHANGED <<up, srv, tcp>>
        /\ pc' = [pc EXCEPT ![p] = AfterCallback(p, callback)]
        /\ AfterCallback(p, callback) \notin {"stale", "write"}
        /\ pidFile' = pidFile \/ tcp[p] = 0
    BY <1>3 DEF Stop, StopsAtOnce, AfterCallback, BackFrom
  <2>2. OneUp'
    BY <2>1 DEF LInv, LTypeOK, OneUp
  <2>3. LiveIsRecorded'
    <3>1. \A q \in Procs, g \in Servers : Lives(srv[q][g]) => q = p /\ g # 0
      BY DEF LInv, OneUp, Servers
    <3>2. QED
      BY <2>1, <3>1 DEF LInv, LiveIsRecorded
  <2>4. WriteIsAlone'
    BY <2>1 DEF LInv, LTypeOK, WriteIsAlone
  <2>5. QED
    BY <1>1, <2>2, <2>3, <2>4 DEF LInv
<1>4. QED
  BY <1>2, <1>3

\* The checks of a start.
LEMMA CheckKeeps ==
  ASSUME LInv, NEW p \in Procs, up[p] = "up", CheckStart(p), restarts' \in 0..MaxStarts
  PROVE  LInv'
<1> DEFINE there == IF Active(p) \/ Alive(pidFile) THEN BackFrom(p)
                    ELSE IF pidFile # NoProc THEN "stale" ELSE "write"
<1>1. there \in {"idle", "scan", "stale", "write"}
  BY DEF BackFrom
<1>2. pc' = [pc EXCEPT ![p] = there] /\ UNCHANGED <<up, srv, tcp, pidFile>>
  BY DEF CheckStart, tcpVars
<1>3. LTypeOK'
  BY <1>1, <1>2 DEF LInv, LTypeOK, CheckStart, tcpVars, watchVars
<1>4. OneUp' /\ LiveIsRecorded'
  BY <1>2 DEF LInv, LTypeOK, OneUp, LiveIsRecorded
<1>5. there \in {"stale", "write"} => tcp[p] = 0
  <2>1. SUFFICES ASSUME tcp[p] # 0 PROVE Alive(pidFile)
    BY DEF BackFrom
  <2>2. tcp[p] \in Servers /\ pidFile = p
    BY <2>1 DEF LInv, LTypeOK, LiveIsRecorded, Servers
  <2>3. QED
    BY <2>2 DEF Alive
<1>6. WriteIsAlone'
  BY <1>2, <1>5 DEF LInv, LTypeOK, WriteIsAlone
<1>7. QED
  BY <1>3, <1>4, <1>6 DEF LInv

\* The end of a process.
LEMMA GoneKeeps ==
  ASSUME LInv, NEW p \in Procs, up[p] = "up", Gone(p), pidFile' \in {pidFile, NoProc}
  PROVE  LInv'
<1>1. LTypeOK'
  <2>1. [g \in Servers |-> "closed"] \in [Servers -> Fates]
    BY DEF Fates
  <2>2. /\ srv \in [Procs -> [Servers -> Fates]]
        /\ srv' = [srv EXCEPT ![p] = [g \in Servers |-> "closed"]]
    BY DEF LInv, LTypeOK, Gone, Fates
  <2>3. srv' \in [Procs -> [Servers -> Fates]]
    BY <2>1, <2>2
  <2>4. /\ up' \in [Procs -> {"unborn", "up", "dead"}]
        /\ state' \in [Procs -> {"stopped", "starting", "running", "stopping"}]
        /\ pc' \in [Procs -> {"idle", "check", "stale", "write", "scan", "exit"}]
        /\ pidFile' \in Procs \cup {NoProc}
    BY DEF LInv, LTypeOK, Gone
  <2>5. /\ scanning' \in [Procs -> BOOLEAN] /\ watching' \in [Procs -> BOOLEAN]
        /\ leaked' \in [Procs -> BOOLEAN]
    BY DEF LInv, LTypeOK, Gone
  <2>6. /\ todo' \in [Procs -> SUBSET Commands] /\ conns' \in [Procs -> SUBSET Servers]
        /\ events' \in [Procs -> SUBSET Commands]
    BY DEF LInv, LTypeOK, Gone
  <2>7. tcp' \in [Procs -> 0..MaxStarts]
    BY LifecycleAssumption DEF LInv, LTypeOK, Gone
  <2>8. QED
    BY <2>3, <2>4, <2>5, <2>6, <2>7 DEF LInv, LTypeOK, Gone, Fates
<1>2. \A q \in Procs, g \in Servers : ~Lives(srv'[q][g])
  BY DEF LInv, LTypeOK, OneUp, Gone, Lives
<1>3. \A q \in Procs : tcp'[q] = 0
  BY DEF LInv, LTypeOK, OneUp, Gone
<1>4. \A q \in Procs : up'[q] # "up" /\ pc'[q] = "idle"
  BY DEF LInv, LTypeOK, OneUp, Gone
<1>5. QED
  BY <1>1, <1>2, <1>3, <1>4 DEF LInv, OneUp, LiveIsRecorded, WriteIsAlone

\* With no server object in hand, no process has one.
LEMMA NothingLives ==
  ASSUME LInv, NEW p \in Procs, up[p] = "up", tcp[p] = 0
  PROVE  \A q \in Procs, g \in Servers : ~Lives(srv[q][g]) /\ tcp[q] = 0
<1>1. \A q \in Procs : q # p => tcp[q] = 0 /\ \A g \in Servers : ~Lives(srv[q][g])
  BY DEF LInv, OneUp
<1>2. \A g \in Servers : ~Lives(srv[p][g])
  BY DEF LInv, LiveIsRecorded, Servers
<1>3. QED
  BY <1>1, <1>2

\* A stale pid file is removed: by a process that has no server, so it names no other's.
LEMMA StaleKeeps == ASSUME LInv, NEW p \in Procs, StaleRemoved(p) PROVE LInv'
<1>1. /\ up[p] = "up" /\ tcp[p] = 0 /\ pc' = [pc EXCEPT ![p] = "write"] /\ pidFile' = NoProc
      /\ UNCHANGED <<up, srv, tcp>>
  BY DEF LInv, WriteIsAlone, StaleRemoved, tcpVars
<1>2. LTypeOK'
  BY DEF LInv, LTypeOK, StaleRemoved, tcpVars, watchVars
<1>3. OneUp' /\ WriteIsAlone'
  BY <1>1 DEF LInv, LTypeOK, OneUp, WriteIsAlone
<1>4. LiveIsRecorded'
  BY <1>1, NothingLives DEF LInv, LTypeOK, LiveIsRecorded, Servers
<1>5. QED
  BY <1>2, <1>3, <1>4 DEF LInv

\* The pid file is written and a server object is created, the only one there is.
LEMMA ListenKeeps == ASSUME LInv, NEW p \in Procs, Listen(p) PROVE LInv'
<1>1. up[p] = "up" /\ tcp[p] = 0
  BY DEF LInv, WriteIsAlone, Listen
<1>2. PICK g \in Servers, outcome \in {"bound", "failed"} :
        tcp' = [tcp EXCEPT ![p] = g] /\ srv' = [srv EXCEPT ![p][g] = outcome]
  BY DEF Listen
<1>3. /\ pc' = [pc EXCEPT ![p] = BackFrom(p)] /\ pidFile' = p /\ up' = up
      /\ BackFrom(p) \in {"idle", "scan"}
  BY DEF Listen, BackFrom
<1>4. LTypeOK'
  <2>1. tcp' \in [Procs -> 0..MaxStarts]
    BY <1>2, LifecycleAssumption DEF LInv, LTypeOK, Servers
  <2>2. outcome \in Fates /\ srv \in [Procs -> [Servers -> Fates]]
    BY DEF LInv, LTypeOK, Fates
  <2>3. srv' \in [Procs -> [Servers -> Fates]]
    BY <1>2, <2>2, NestedFate
  <2>4. /\ state' \in [Procs -> {"stopped", "starting", "running", "stopping"}]
        /\ pc' \in [Procs -> {"idle", "check", "stale", "write", "scan", "exit"}]
        /\ exitHook' \in [Procs -> BOOLEAN]
    BY <1>3 DEF LInv, LTypeOK, Listen
  <2>5. QED
    BY <1>3, <2>1, <2>3, <2>4 DEF LInv, LTypeOK, Listen, watchVars, Fates
<1>5. \A q \in Procs, h \in Servers : srv'[q][h] = IF q = p /\ h = g THEN outcome ELSE srv[q][h]
  BY <1>2 DEF LInv, LTypeOK
<1>6. /\ \A q \in Procs, h \in Servers : Lives(srv'[q][h]) <=> q = p /\ h = g
      /\ \A q \in Procs : tcp'[q] = IF q = p THEN g ELSE 0
  BY <1>1, <1>2, <1>5, NothingLives DEF LInv, LTypeOK, Lives
<1>7. OneUp'
  BY <1>1, <1>3, <1>6 DEF LInv, LTypeOK, OneUp
<1>8. LiveIsRecorded'
  BY <1>3, <1>6 DEF LiveIsRecorded
<1>9. WriteIsAlone'
  BY <1>1, <1>3, <1>6 DEF LInv, LTypeOK, OneUp, WriteIsAlone
<1>10. QED
  BY <1>4, <1>7, <1>8, <1>9 DEF LInv

\* A server object that was bound is open.
LEMMA OnListeningKeeps ==
  ASSUME LInv, NEW p \in Procs, NEW g \in Servers, OnListening(p, g)
  PROVE  LInv'
<1>1. /\ up[p] = "up" /\ srv[p][g] = "bound" /\ srv' = [srv EXCEPT ![p][g] = "open"]
      /\ pc' = [pc EXCEPT ![p] = "scan"] /\ UNCHANGED <<up, tcp, pidFile>>
  BY DEF OnListening
<1>2. LTypeOK'
  <2>1. "open" \in Fates /\ srv \in [Procs -> [Servers -> Fates]]
    BY DEF LInv, LTypeOK, Fates
  <2>2. srv' \in [Procs -> [Servers -> Fates]]
    BY <1>1, <2>1, NestedFate
  <2>3. /\ state' \in [Procs -> {"stopped", "starting", "running", "stopping"}]
        /\ pc' \in [Procs -> {"idle", "check", "stale", "write", "scan", "exit"}]
        /\ scanning' \in [Procs -> BOOLEAN]
        /\ todo' \in [Procs -> SUBSET Commands]
    BY DEF LInv, LTypeOK, OnListening, Found
  <2>4. QED
    BY <2>2, <2>3 DEF LInv, LTypeOK, OnListening, watchVars, Fates
<1>3. \A q \in Procs, h \in Servers : Lives(srv'[q][h]) <=> Lives(srv[q][h])
  BY <1>1 DEF LInv, LTypeOK, Lives
<1>4. OneUp' /\ WriteIsAlone'
  BY <1>1, <1>3 DEF LInv, LTypeOK, OneUp, WriteIsAlone
<1>5. LiveIsRecorded'
  <2>1. \A q \in Procs : tcp[q] # 0 => tcp[q] \in Servers
    BY DEF LInv, LTypeOK, Servers
  <2>2. QED
    BY <1>1, <1>3, <2>1 DEF LInv, LiveIsRecorded
<1>6. QED
  BY <1>2, <1>4, <1>5 DEF LInv

\* The server object in hand has closed, and none is left.
LEMMA OnClosedKeeps ==
  ASSUME LInv, NEW p \in Procs, NEW g \in Servers, OnClosed(p, g)
  PROVE  LInv'
<1> DEFINE back == AfterCallback(p, onClose[p][g])
<1>1. /\ up[p] = "up" /\ srv[p][g] = "closing" /\ srv' = [srv EXCEPT ![p][g] = "closed"]
      /\ tcp' = [tcp EXCEPT ![p] = 0] /\ pc' = [pc EXCEPT ![p] = back] /\ pidFile' = NoProc
      /\ up' = up
  BY DEF OnClosed, AtRest
<1>2. back \in {"idle", "scan", "exit", "check"}
  BY DEF AfterCallback, BackFrom
<1>3. LTypeOK'
  <2>1. "closed" \in Fates /\ srv \in [Procs -> [Servers -> Fates]]
    BY DEF LInv, LTypeOK, Fates
  <2>2. srv' \in [Procs -> [Servers -> Fates]]
    BY <1>1, <2>1, NestedFate
  <2>3. /\ state' \in [Procs -> {"stopped", "starting", "running", "stopping"}]
        /\ pc' \in [Procs -> {"idle", "check", "stale", "write", "scan", "exit"}]
        /\ tcp' \in [Procs -> 0..MaxStarts]
    BY <1>1, <1>2, LifecycleAssumption DEF LInv, LTypeOK, OnClosed
  <2>4. QED
    BY <1>1, <2>2, <2>3 DEF LInv, LTypeOK, OnClosed, watchVars, Fates
<1>4. \A q \in Procs, h \in Servers : ~Lives(srv'[q][h])
  <2>1. \A q \in Procs, h \in Servers : Lives(srv[q][h]) => q = p /\ h = g
    BY <1>1 DEF LInv, OneUp, LiveIsRecorded, Lives
  <2>2. QED
    BY <1>1, <2>1 DEF LInv, LTypeOK, Lives
<1>5. \A q \in Procs : tcp'[q] = 0
  BY <1>1 DEF LInv, LTypeOK, OneUp
<1>6. OneUp'
  BY <1>1, <1>4, <1>5 DEF LInv, LTypeOK, OneUp
<1>7. LiveIsRecorded' /\ WriteIsAlone'
  BY <1>4, <1>5 DEF LiveIsRecorded, WriteIsAlone
<1>8. QED
  BY <1>3, <1>6, <1>7 DEF LInv

\* The steps that touch no server object, no section of the code and not the pid file.
LEMMA WatchKeeps == ASSUME LInv, NEW p \in Procs, Watch(p) PROVE LInv'
<1>1. up[p] = "up" /\ pc' = [pc EXCEPT ![p] = "idle"] /\ UNCHANGED <<up, srv, tcp, pidFile>>
  BY DEF Watch, tcpVars
<1>2. LTypeOK'
  BY DEF LInv, LTypeOK, Watch, tcpVars
<1>3. OneUp' /\ LiveIsRecorded' /\ WriteIsAlone'
  BY <1>1 DEF LInv, LTypeOK, OneUp, LiveIsRecorded, WriteIsAlone
<1>4. QED
  BY <1>2, <1>3 DEF LInv

LEMMA OthersKeep ==
  ASSUME LInv, UNCHANGED <<up, pc, srv, tcp, pidFile>>, LTypeOK'
  PROVE  LInv'
BY DEF LInv, OneUp, LiveIsRecorded, WriteIsAlone

\* A process is launched when none is up: it has no server yet.
LEMMA LaunchKeeps == ASSUME LInv, ~Overlap, NEW p \in Procs, Launch(p) PROVE LInv'
<1>1. /\ \A q \in Procs : up[q] # "up"
      /\ up' = [up EXCEPT ![p] = "up"] /\ pc' = [pc EXCEPT ![p] = "check"]
      /\ UNCHANGED <<srv, tcp, pidFile>>
  BY DEF Launch, tcpVars
<1>2. LTypeOK'
  BY DEF LInv, LTypeOK, Launch, tcpVars, watchVars
<1>3. OneUp' /\ LiveIsRecorded' /\ WriteIsAlone'
  BY <1>1 DEF LInv, LTypeOK, OneUp, LiveIsRecorded, WriteIsAlone
<1>4. QED
  BY <1>2, <1>3 DEF LInv

----------------------------------------------------------------------------
(* Every action, and the theorems.                                         *)

LEMMA RunsKeeps == ASSUME LInv, NEW p \in Procs, Runs(p) PROVE LInv'
<1> USE DEF Commands, Callbacks
<1>0. restarts \in 0..MaxStarts /\ events[p] \subseteq Commands
  BY DEF LInv, LTypeOK
<1>1. CASE StartCalled(p)
  BY <1>0, <1>1, CheckKeeps DEF StartCalled
<1>2. CASE StaleRemoved(p) \/ Listen(p) \/ Watch(p)
  BY <1>2, StaleKeeps, ListenKeeps, WatchKeeps
<1>3. ASSUME NEW g \in Servers, OnListening(p, g) \/ OnClosed(p, g) PROVE LInv'
  BY <1>3, OnListeningKeeps, OnClosedKeeps
<1>4. ASSUME NEW g \in Servers, OnError(p, g) PROVE LInv'
  <2>1. up[p] = "up" /\ Stop(p, "none", events[p]) /\ UNCHANGED <<todo, cmdFiles, restarts>>
    BY <1>4 DEF OnError, AtRest
  <2>2. QED
    BY <1>0, <2>1, StopKeeps DEF LInv, LTypeOK
<1>5. ASSUME NEW c \in Commands, ScanCommand(p, c) PROVE LInv'
  <2>1. /\ up[p] = "up" /\ Stop(p, CallbackOf(c), events[p]) /\ UNCHANGED restarts
        /\ cmdFiles' = cmdFiles \ {c} /\ todo' = [todo EXCEPT ![p] = @ \ {c}]
    BY <1>5 DEF ScanCommand
  <2>2. cmdFiles' \subseteq Commands /\ todo' \in [Procs -> SUBSET Commands]
    BY <2>1 DEF LInv, LTypeOK
  <2>3. CallbackOf(c) \in Callbacks
    BY DEF CallbackOf
  <2>4. QED
    BY <1>0, <2>1, <2>2, <2>3, StopKeeps
<1>6. ASSUME NEW c \in Commands, OnCommand(p, c) PROVE LInv'
  <2>1. CASE c \in cmdFiles
    <3>1. /\ up[p] = "up" /\ Stop(p, CallbackOf(c), events[p] \ {c})
          /\ UNCHANGED <<todo, restarts>> /\ cmdFiles' = cmdFiles \ {c}
      BY <1>6, <2>1 DEF OnCommand, AtRest
    <3>2. cmdFiles' \subseteq Commands /\ todo' \in [Procs -> SUBSET Commands]
      BY <3>1 DEF LInv, LTypeOK
    <3>3. CallbackOf(c) \in Callbacks /\ events[p] \ {c} \in SUBSET Commands
      BY <1>0 DEF CallbackOf
    <3>4. QED
      BY <1>0, <3>1, <3>2, <3>3, StopKeeps
  <2>2. CASE c \notin cmdFiles
    <3>0. events' \in [Procs -> SUBSET Commands]
      <4>1. /\ events \in [Procs -> SUBSET Commands] /\ events[p] \ {c} \in SUBSET Commands
            /\ events' = [events EXCEPT ![p] = events[p] \ {c}]
        BY <1>6, <2>2 DEF LInv, LTypeOK, OnCommand
      <4>2. QED
        BY <4>1, SetOfOne
    <3>1. /\ UNCHANGED <<up, state, pc, scanning, stored, exitHook, tcp, srv, onClose, conns>>
          /\ UNCHANGED <<watching, leaked, pidFile, cmdFiles, todo, restarts>>
      BY <1>6, <2>2 DEF OnCommand, tcpVars
    <3>2. LTypeOK'
      BY <3>0, <3>1 DEF LInv, LTypeOK
    <3>3. QED
      BY <3>1, <3>2, OthersKeep
  <2>3. QED
    BY <2>1, <2>2
<1>7. CASE Exit(p)
  BY <1>7, GoneKeeps DEF Exit
<1>8. QED
  BY <1>1, <1>2, <1>3, <1>4, <1>5, <1>6, <1>7 DEF Runs

LEMMA UserKeeps == ASSUME LInv, NEW p \in Procs, UserCalls(p) PROVE LInv'
<1> USE DEF Commands, Callbacks
<1>0. up[p] = "up" /\ restarts \in 0..MaxStarts /\ events[p] \in SUBSET Commands
  BY DEF LInv, LTypeOK, UserCalls, AtRest
<1>1. restarts > 0 => restarts - 1 \in 0..MaxStarts
  BY <1>0, LifecycleAssumption
<1>2. CASE restarts > 0 /\ restarts' = restarts - 1 /\ CheckStart(p)
  BY <1>0, <1>1, <1>2, CheckKeeps
<1>3. CASE UNCHANGED <<todo, cmdFiles, restarts>> /\ Stop(p, "none", events[p])
  BY <1>0, <1>3, StopKeeps DEF LInv, LTypeOK
<1>4. CASE /\ restarts > 0 /\ restarts' = restarts - 1
           /\ UNCHANGED <<todo, cmdFiles>> /\ Stop(p, "start", events[p])
  BY <1>0, <1>1, <1>4, StopKeeps DEF LInv, LTypeOK
<1>5. QED
  BY <1>2, <1>3, <1>4 DEF UserCalls

LEMMA ConnectionsKeep ==
  ASSUME LInv, NEW p \in Procs, NEW g \in Servers, Connect(p, g) \/ Disconnect(p, g)
  PROVE  LInv'
<1>1. UNCHANGED <<procVars, tcp, srv, onClose, watchVars, pidFile, cmdFiles, restarts>>
  BY DEF Connect, Disconnect
<1>2. conns' \in [Procs -> SUBSET Servers]
  <2>1. PICK T \in {conns[p] \cup {g}, conns[p] \ {g}} : conns' = [conns EXCEPT ![p] = T]
    BY DEF Connect, Disconnect
  <2>2. conns \in [Procs -> SUBSET Servers] /\ T \in SUBSET Servers
    BY DEF LInv, LTypeOK
  <2>3. QED
    BY <2>1, <2>2, SetOfOne
<1>3. LTypeOK'
  BY <1>1, <1>2 DEF LInv, LTypeOK, procVars, watchVars
<1>4. QED
  BY <1>1, <1>3, OthersKeep DEF procVars

LEMMA DropKeeps == ASSUME LInv, NEW c \in Commands, Drop(c) PROVE LInv'
<1>1. UNCHANGED <<procVars, tcpVars, watching, leaked, pidFile>>
  BY DEF Drop
<1>2. cmdFiles' \subseteq Commands /\ restarts' \in 0..MaxStarts
  <2>1. restarts \in 0..MaxStarts /\ (restarts' = restarts \/ (restarts > 0 /\ restarts' = restarts - 1))
    BY DEF LInv, LTypeOK, Drop
  <2>2. restarts' \in 0..MaxStarts
    BY <2>1, LifecycleAssumption
  <2>3. QED
    BY <2>2 DEF LInv, LTypeOK, Drop
<1>3. events' \in [Procs -> SUBSET Commands]
  BY DEF LInv, LTypeOK, Drop
<1>4. LTypeOK'
  BY <1>1, <1>2, <1>3 DEF LInv, LTypeOK, procVars, tcpVars
<1>5. QED
  BY <1>1, <1>4, OthersKeep DEF procVars, tcpVars

\* The invariant holds initially and every step keeps it.
LEMMA LInvInitially == LInit => LInv
BY LifecycleAssumption
   DEF LInit, LInv, LTypeOK, OneUp, LiveIsRecorded, WriteIsAlone, Lives, Servers, Callbacks

LEMMA LInvStep == LInv /\ ~Overlap /\ [LNext]_lifeVars => LInv'
<1> SUFFICES ASSUME LInv, ~Overlap, [LNext]_lifeVars PROVE LInv'
  OBVIOUS
<1>1. ASSUME NEW p \in Procs, Runs(p) \/ Launch(p) \/ UserCalls(p) PROVE LInv'
  BY <1>1, RunsKeeps, LaunchKeeps, UserKeeps
<1>2. ASSUME NEW p \in Procs, Crash(p) PROVE LInv'
  BY <1>2, GoneKeeps DEF Crash
<1>3. ASSUME NEW p \in Procs, NEW g \in Servers, Connect(p, g) \/ Disconnect(p, g) PROVE LInv'
  BY <1>3, ConnectionsKeep
<1>4. ASSUME NEW c \in Commands, Drop(c) PROVE LInv'
  BY <1>4, DropKeeps
<1>5. CASE UNCHANGED lifeVars
  <2>1. LTypeOK'
    BY <1>5 DEF LInv, LTypeOK, lifeVars, procVars, tcpVars, watchVars
  <2>2. QED
    BY <1>5, <2>1, OthersKeep DEF lifeVars, procVars, tcpVars
<1>6. QED
  BY <1>1, <1>2, <1>3, <1>4, <1>5 DEF LNext

\* As long as launches do not overlap the invariant holds: in particular one object at a
\* time, of the one process that is up, is not closed.
THEOREM LInvHolds == ASSUME ~Overlap PROVE LSpec => []LInv
<1>1. LInit => LInv
  BY LInvInitially
<1>2. LInv /\ [LNext]_lifeVars => LInv'
  BY LInvStep
<1>3. QED
  BY <1>1, <1>2, PTL DEF LSpec

\* Every variable keeps its type.
THEOREM LTypeCorrect == ASSUME ~Overlap PROVE LSpec => []LTypeOK
<1>1. LInv => LTypeOK
  BY DEF LInv
<1>2. QED
  BY <1>1, LInvHolds, PTL

\* A server that listens is recorded by the pid file, for any number of processes that
\* follow each other, of starts, commands and crashes.
THEOREM ListeningIsRecorded == ASSUME ~Overlap PROVE LSpec => []ServerIsRecorded
<1>1. LInv => ServerIsRecorded
  BY DEF LInv, LiveIsRecorded, ServerIsRecorded, Lives
<1>2. QED
  BY <1>1, LInvHolds, PTL
=============================================================================
