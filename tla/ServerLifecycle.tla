-------------------------- MODULE ServerLifecycle --------------------------
(***************************************************************************)
(* lib/rpc-server: start, stop and restart of a TCP server, the pid file   *)
(* that records which process serves, and the command files that ask it to *)
(* shut down or restart.  Several processes share the server directory and *)
(* the port.                                                               *)
(*                                                                         *)
(* A process runs its JavaScript to completion, but the file system is     *)
(* shared: an action ends where the code has read or changed it, and other *)
(* processes may act before the next one.  pc is where a process is inside *)
(* such a section.  Each start creates a server object, numbered from 1.   *)
(* Mut... operators are faulty variants of the operator after them, used   *)
(* to see that a property can fail.                                        *)
(***************************************************************************)
EXTENDS Naturals, FiniteSets

CONSTANTS
  Procs,          \* process ids; an id is used once
  NoProc,         \* no pid file
  MaxStarts,      \* bound: server objects a process creates
  Overlap,        \* a process may be launched while another is up
  DropsInWindow,  \* a command may be dropped between the scan and the watch
  UserStops       \* the program itself calls stop, start and restart

ASSUME LifecycleAssumption ==
  /\ IsFiniteSet(Procs) /\ NoProc \notin Procs
  /\ MaxStarts \in Nat \ {0}
  /\ Overlap \in BOOLEAN /\ DropsInWindow \in BOOLEAN /\ UserStops \in BOOLEAN

VARIABLES
  up,         \* "unborn", "up" or "dead"
  state,      \* the module's state variable
  pc,         \* where the process is in a synchronous section
  scanning,   \* startWatcher is scanning the command files
  todo,       \* the command files it has read and not yet processed
  stored,     \* storedOpts is set
  exitHook,   \* the exit handler is registered
  tcp,        \* tcpServer: the number of a server object, 0 for null
  srv,        \* what became of each server object
  onClose,    \* what the callback of its close() will do
  conns,      \* the server objects with an open connection
  watching,   \* cmdWatcher is set
  leaked,     \* a watcher is open that no variable holds
  events,     \* watch events not yet delivered
  pidFile,    \* the process the pid file names
  cmdFiles,   \* the command files in the directory
  restarts    \* bound: the further starts that may still be asked for

procVars == <<up, state, pc, scanning, todo, stored, exitHook>>
tcpVars == <<tcp, srv, onClose, conns>>
watchVars == <<watching, leaked, events>>
lifeVars == <<procVars, tcpVars, watchVars, pidFile, cmdFiles, restarts>>

Commands == {"shutdown", "restart"}
Servers == 1..MaxStarts
Callbacks == {"none", "exit", "start"}

\* Every variable keeps its type.
LTypeOK ==
  /\ up \in [Procs -> {"unborn", "up", "dead"}]
  /\ state \in [Procs -> {"stopped", "starting", "running", "stopping"}]
  /\ pc \in [Procs -> {"idle", "check", "stale", "write", "scan", "exit"}]
  /\ scanning \in [Procs -> BOOLEAN]
  /\ todo \in [Procs -> SUBSET Commands]
  /\ stored \in [Procs -> BOOLEAN]
  /\ exitHook \in [Procs -> BOOLEAN]
  /\ tcp \in [Procs -> 0..MaxStarts]
  /\ srv \in [Procs -> [Servers -> {"none", "bound", "open", "failed", "closing", "closed"}]]
  /\ onClose \in [Procs -> [Servers -> Callbacks]]
  /\ conns \in [Procs -> SUBSET Servers]
  /\ watching \in [Procs -> BOOLEAN]
  /\ leaked \in [Procs -> BOOLEAN]
  /\ events \in [Procs -> SUBSET Commands]
  /\ pidFile \in Procs \cup {NoProc}
  /\ cmdFiles \subseteq Commands
  /\ restarts \in 0..MaxStarts

LInit ==
  /\ up = [p \in Procs |-> "unborn"]
  /\ state = [p \in Procs |-> "stopped"]
  /\ pc = [p \in Procs |-> "idle"]
  /\ scanning = [p \in Procs |-> FALSE]
  /\ todo = [p \in Procs |-> {}]
  /\ stored = [p \in Procs |-> FALSE]
  /\ exitHook = [p \in Procs |-> FALSE]
  /\ tcp = [p \in Procs |-> 0]
  /\ srv = [p \in Procs |-> [g \in Servers |-> "none"]]
  /\ onClose = [p \in Procs |-> [g \in Servers |-> "none"]]
  /\ conns = [p \in Procs |-> {}]
  /\ watching = [p \in Procs |-> FALSE]
  /\ leaked = [p \in Procs |-> FALSE]
  /\ events = [p \in Procs |-> {}]
  /\ pidFile = NoProc
  /\ cmdFiles = {}
  /\ restarts = MaxStarts - 1

\* The process may take up an event: the 'listening' event, a microtask, comes first.
AtRest(p) == up[p] = "up" /\ pc[p] = "idle" /\ \A g \in Servers : srv[p][g] # "bound"

\* Where a section goes on when a call it made returns.
BackFrom(p) == IF scanning[p] THEN "scan" ELSE "idle"

\* Where it goes on when a call has the given callback to run.
MutAfterCallback(p, callback) == IF callback = "exit" THEN "exit" ELSE BackFrom(p)
AfterCallback(p, callback) ==
  CASE callback = "exit"  -> "exit"
    [] callback = "start" -> "check"
    [] OTHER              -> BackFrom(p)

----------------------------------------------------------------------------
(* start                                                                   *)

\* No process listens; a program that is no spl server may still hold the port.
PortFree == \A p \in Procs, g \in Servers : srv[p][g] \notin {"bound", "open"}

\* pid.alive: a process by that number exists.
MutAlive(q) == q \in Procs /\ up[q] = "up" /\ state[q] # "stopping"
Alive(q) == q \in Procs /\ up[q] = "up"

Active(p) == state[p] \in {"running", "starting"}

\* The checks of start; a refused start only calls back.
CheckStart(p) ==
  /\ stored' = [stored EXCEPT ![p] = stored[p] \/ ~Active(p)]
  /\ pc' = [pc EXCEPT ![p] = IF Active(p) \/ Alive(pidFile) THEN BackFrom(p)
                             ELSE IF pidFile # NoProc THEN "stale"
                             ELSE "write"]
  /\ UNCHANGED <<up, state, scanning, todo, exitHook, tcpVars, watchVars, pidFile, cmdFiles>>

\* The pid file of a dead process is unlinked, whatever it says by now.
StaleRemoved(p) ==
  /\ up[p] = "up" /\ pc[p] = "stale"
  /\ pidFile' = NoProc
  /\ pc' = [pc EXCEPT ![p] = "write"]
  /\ UNCHANGED <<up, state, scanning, todo, stored, exitHook, tcpVars, watchVars, cmdFiles,
                 restarts>>

\* The rest of start: the pid file is written and a new server listens, or fails to.
Listen(p) ==
  /\ up[p] = "up" /\ pc[p] = "write"
  /\ \E g \in Servers :
       /\ srv[p][g] = "none" /\ \A h \in Servers : srv[p][h] = "none" => g <= h
       /\ tcp' = [tcp EXCEPT ![p] = g]
       /\ \E outcome \in {"bound", "failed"} :
            /\ outcome = "bound" => PortFree
            /\ srv' = [srv EXCEPT ![p][g] = outcome]
  /\ state' = [state EXCEPT ![p] = "starting"]
  /\ pidFile' = p
  /\ exitHook' = [exitHook EXCEPT ![p] = TRUE]
  /\ pc' = [pc EXCEPT ![p] = BackFrom(p)]
  /\ UNCHANGED <<up, scanning, todo, stored, onClose, conns, watchVars, cmdFiles, restarts>>

\* What scanExisting reads of the directory.
MutFound == {}
Found == cmdFiles

\* The server listens: the command files that are there are read.
OnListening(p, g) ==
  /\ up[p] = "up" /\ pc[p] = "idle" /\ srv[p][g] = "bound"
  /\ srv' = [srv EXCEPT ![p][g] = "open"]
  /\ state' = [state EXCEPT ![p] = "running"]
  /\ scanning' = [scanning EXCEPT ![p] = TRUE]
  /\ todo' = [todo EXCEPT ![p] = Found]
  /\ pc' = [pc EXCEPT ![p] = "scan"]
  /\ UNCHANGED <<up, stored, exitHook, tcp, onClose, conns, watchVars, pidFile, cmdFiles,
                 restarts>>

----------------------------------------------------------------------------
(* stop                                                                    *)

\* No server is left to close: the rest of stop runs at once.
StopsAtOnce(p) == Active(p) /\ tcp[p] = 0

Stopped(p) == IF Active(p) THEN IF tcp[p] = 0 THEN "stopped" ELSE "stopping"
              ELSE state[p]

\* stop(callback) when the watch events in heard are still to come.  It only calls back if the
\* server is not running: not even one that is being stopped is waited for.
Stop(p, callback, heard) ==
  /\ state' = [state EXCEPT ![p] = Stopped(p)]
  /\ watching' = [watching EXCEPT ![p] = watching[p] /\ ~Active(p)]
  /\ events' = [events EXCEPT ![p] = IF Active(p) /\ ~leaked[p] THEN {} ELSE heard]
  /\ pidFile' = (IF StopsAtOnce(p) THEN NoProc ELSE pidFile)
  /\ IF Active(p) /\ tcp[p] # 0
     THEN /\ srv' = [srv EXCEPT ![p][tcp[p]] = "closing"]
          /\ onClose' = [onClose EXCEPT ![p][tcp[p]] = callback]
          /\ pc' = [pc EXCEPT ![p] = BackFrom(p)]
     ELSE /\ pc' = [pc EXCEPT ![p] = AfterCallback(p, callback)]
          /\ UNCHANGED <<srv, onClose>>
  /\ UNCHANGED <<up, scanning, stored, exitHook, tcp, conns, leaked>>

\* The server has closed and its connections have ended: the callback of close().
OnClosed(p, g) ==
  /\ AtRest(p) /\ srv[p][g] = "closing" /\ g \notin conns[p]
  /\ srv' = [srv EXCEPT ![p][g] = "closed"]
  /\ tcp' = [tcp EXCEPT ![p] = 0]
  /\ pidFile' = NoProc
  /\ state' = [state EXCEPT ![p] = "stopped"]
  /\ pc' = [pc EXCEPT ![p] = AfterCallback(p, onClose[p][g])]
  /\ UNCHANGED <<up, scanning, todo, stored, exitHook, onClose, conns, watchVars, cmdFiles,
                 restarts>>

\* listen failed: the 'error' handler stops, and the start is never called back.
OnError(p, g) ==
  /\ AtRest(p) /\ srv[p][g] = "failed"
  /\ Stop(p, "none", events[p])
  /\ UNCHANGED <<todo, cmdFiles, restarts>>

----------------------------------------------------------------------------
(* Commands                                                                *)

\* The handler of a command: both stop, and then exit or start again.
MutCallbackOf(command) == command
CallbackOf(command) == IF command = "shutdown" THEN "exit" ELSE "start"

\* scanExisting processes one of the files it has read.
ScanCommand(p, c) ==
  /\ up[p] = "up" /\ pc[p] = "scan"
  /\ c \in todo[p]
  /\ cmdFiles' = cmdFiles \ {c}
  /\ todo' = [todo EXCEPT ![p] = @ \ {c}]
  /\ Stop(p, CallbackOf(c), events[p])
  /\ UNCHANGED restarts

\* The scan is over and the directory is watched.  The watcher is kept even if a
\* scanned command has stopped the server.
Watch(p) ==
  /\ up[p] = "up" /\ pc[p] = "scan" /\ todo[p] = {}
  /\ watching' = [watching EXCEPT ![p] = TRUE]
  /\ leaked' = [leaked EXCEPT ![p] = leaked[p] \/ watching[p]]
  /\ scanning' = [scanning EXCEPT ![p] = FALSE]
  /\ pc' = [pc EXCEPT ![p] = "idle"]
  /\ UNCHANGED <<up, state, todo, stored, exitHook, tcpVars, events, pidFile, cmdFiles,
                 restarts>>

Hears(p) == watching[p] \/ leaked[p]

\* A command is sent: a file is created, unless it is there already.
Drop(c) ==
  /\ c \notin cmdFiles
  /\ DropsInWindow \/ \A p \in Procs : pc[p] # "scan"
  /\ IF c = "restart" THEN restarts > 0 /\ restarts' = restarts - 1 ELSE UNCHANGED restarts
  /\ cmdFiles' = cmdFiles \cup {c}
  /\ events' = [p \in Procs |-> IF Hears(p) /\ up[p] = "up" THEN events[p] \cup {c}
                                ELSE events[p]]
  /\ UNCHANGED <<procVars, tcpVars, watching, leaked, pidFile>>

\* The watcher of p reports it; a file that is gone was processed by another.
OnCommand(p, c) ==
  /\ AtRest(p) /\ c \in events[p]
  /\ IF c \in cmdFiles
     THEN /\ cmdFiles' = cmdFiles \ {c}
          /\ Stop(p, CallbackOf(c), events[p] \ {c})
     ELSE /\ events' = [events EXCEPT ![p] = @ \ {c}]
          /\ UNCHANGED <<up, state, pc, scanning, stored, exitHook, tcpVars, watching, leaked,
                         pidFile, cmdFiles>>
  /\ UNCHANGED <<todo, restarts>>

----------------------------------------------------------------------------
(* The life of a process, and the program that uses the module.            *)

\* bin/spl-server starts the server as soon as it is launched.
Launch(p) ==
  /\ up[p] = "unborn"
  /\ Overlap \/ \A q \in Procs : up[q] # "up"
  /\ up' = [up EXCEPT ![p] = "up"]
  /\ pc' = [pc EXCEPT ![p] = "check"]
  /\ UNCHANGED <<state, scanning, todo, stored, exitHook, tcpVars, watchVars, pidFile, cmdFiles,
                 restarts>>

StartCalled(p) == up[p] = "up" /\ pc[p] = "check" /\ CheckStart(p) /\ UNCHANGED restarts

UserCalls(p) ==
  /\ UserStops /\ AtRest(p)
  /\ \/ restarts > 0 /\ restarts' = restarts - 1 /\ CheckStart(p)
     \/ UNCHANGED <<todo, cmdFiles, restarts>> /\ Stop(p, "none", events[p])
     \/ /\ restarts > 0 /\ restarts' = restarts - 1
        /\ UNCHANGED <<todo, cmdFiles>>
        /\ Stop(p, "start", events[p])

Gone(p) ==
  /\ up' = [up EXCEPT ![p] = "dead"]
  /\ state' = [state EXCEPT ![p] = "stopped"]
  /\ pc' = [pc EXCEPT ![p] = "idle"]
  /\ scanning' = [scanning EXCEPT ![p] = FALSE]
  /\ todo' = [todo EXCEPT ![p] = {}]
  /\ srv' = [srv EXCEPT ![p] = [g \in Servers |-> "closed"]]
  /\ tcp' = [tcp EXCEPT ![p] = 0]
  /\ conns' = [conns EXCEPT ![p] = {}]
  /\ watching' = [watching EXCEPT ![p] = FALSE]
  /\ leaked' = [leaked EXCEPT ![p] = FALSE]
  /\ events' = [events EXCEPT ![p] = {}]
  /\ UNCHANGED <<stored, exitHook, onClose, cmdFiles, restarts>>

\* Nothing keeps the process alive any more.
Quiet(p) == /\ AtRest(p) /\ ~Hears(p)
            /\ \A g \in Servers : srv[p][g] \in {"none", "closed"}

\* Bare.exit, or the natural end: the exit handler removes the pid file,
\* whatever it says by now.
Exit(p) ==
  /\ up[p] = "up" /\ (pc[p] = "exit" \/ Quiet(p))
  /\ pidFile' = (IF exitHook[p] /\ stored[p] THEN NoProc ELSE pidFile)
  /\ Gone(p)

\* The process is killed: no handler runs and the pid file stays.
Crash(p) ==
  /\ up[p] = "up"
  /\ Gone(p)
  /\ UNCHANGED pidFile

Connect(p, g) ==
  /\ up[p] = "up" /\ srv[p][g] = "open" /\ g \notin conns[p]
  /\ conns' = [conns EXCEPT ![p] = @ \cup {g}]
  /\ UNCHANGED <<procVars, tcp, srv, onClose, watchVars, pidFile, cmdFiles, restarts>>

Disconnect(p, g) ==
  /\ g \in conns[p]
  /\ conns' = [conns EXCEPT ![p] = @ \ {g}]
  /\ UNCHANGED <<procVars, tcp, srv, onClose, watchVars, pidFile, cmdFiles, restarts>>

\* What the process does by itself.
Runs(p) ==
  \/ StartCalled(p) \/ StaleRemoved(p) \/ Listen(p)
  \/ \E g \in Servers : OnListening(p, g) \/ OnClosed(p, g) \/ OnError(p, g)
  \/ \E c \in Commands : ScanCommand(p, c) \/ OnCommand(p, c)
  \/ Watch(p) \/ Exit(p)

LNext ==
  \/ \E p \in Procs :
       \/ Runs(p) \/ Launch(p) \/ UserCalls(p) \/ Crash(p)
       \/ \E g \in Servers : Connect(p, g) \/ Disconnect(p, g)
  \/ \E c \in Commands : Drop(c)

LSpec == LInit /\ [][LNext]_lifeVars

\* A process runs, and clients do not stay connected for ever.
LFairSpec ==
  /\ LSpec
  /\ \A p \in Procs : WF_lifeVars(Runs(p))
  /\ \A p \in Procs, g \in Servers : WF_lifeVars(Disconnect(p, g))

----------------------------------------------------------------------------
(* Properties.                                                             *)

\* A server that listens is recorded: the pid file names its process, through
\* restarts, stale files and crashes.  Without it the next start is not refused
\* and the server cannot be found.
ServerIsRecorded ==
  \A p \in Procs, g \in Servers : srv[p][g] \in {"bound", "open"} => pidFile = p

\* A server asked to stop stops, once its clients have left; and a restart, once begun,
\* does not leave it stopped: it runs again, unless it cannot listen or its process ends.
RestartComesBack ==
  /\ \A p \in Procs : state[p] = "stopping" ~> state[p] # "stopping"
  /\ \A p \in Procs, g \in Servers :
       (srv[p][g] = "closing" /\ onClose[p][g] = "start")
         ~> (state[p] = "running" \/ up[p] = "dead" \/ \E h \in Servers : h > g /\ srv[p][h] = "failed")

\* A command file that is there while a server runs is eventually acted on.
CommandsObeyed ==
  \A c \in Commands, p \in Procs :
    (c \in cmdFiles /\ state[p] = "running") ~> (c \notin cmdFiles \/ up[p] = "dead")
=============================================================================
