--------------------------- MODULE PluginManager ---------------------------
(***************************************************************************)
(* The plugin manager (plugin/manager.go) with the watchers and the        *)
(* cleanup job it starts, the health checker (plugin/health.go), the       *)
(* connector registry it feeds (connector/registry.go).                    *)
(*                                                                         *)
(* Plugins are the .so files 1..NumPlugins in the order WalkDir lists      *)
(* them; the version of a file is its modification time.  plugin.Open is   *)
(* Go's: a path that has been opened once keeps its code.  A call that     *)
(* holds Manager.mu from its first line to its last is one step.           *)
(***************************************************************************)
EXTENDS Integers

CONSTANTS
    NumPlugins,
    NoFactory,       \* the plugins that export no NewConnector
    MaxTime,         \* bound on the times a file is written
    MaxStarts,       \* bound on the calls of Start
    CriticalErrors   \* errors beyond which a plugin is unhealthy: 100

Plugins == 1..NumPlugins
Watchers == 1..MaxStarts

ASSUME PluginManagerAssumption ==
    /\ NumPlugins \in Nat \ {0} /\ MaxTime \in Nat /\ MaxStarts \in Nat
    /\ NoFactory \subseteq Plugins
    /\ CriticalErrors \in Nat

VARIABLES
    clock, file,      \* time, and the time of the last write of each file
    opened,           \* the version that plugin.Open has loaded, 0 for none
    plugins,          \* Manager.plugins
    held,             \* Manager.mu is held between two steps
    starting,         \* the file Start loads next, 0 when it is not running
    starts,
    watcher,          \* the goroutines of watchDirectory
    current,          \* the one whose entry Manager.watchers has
    stopping,         \* where Stop is
    shutdown,         \* shutdownCh is closed
    health,           \* HealthChecker: running, stopCh closed
    checking,         \* the plugin whose check holds HealthChecker.mu, or 0
    healthy,          \* what the last check of each plugin found
    panicked

files == <<clock, file>>
loaded == <<opened, plugins>>
startVars == <<starting, starts>>
watchVars == <<watcher, current>>
stopVars == <<stopping, shutdown>>
healthVars == <<health, checking, healthy>>
managerVars == <<files, loaded, held, startVars, watchVars, stopVars,
                 healthVars, panicked>>

Absent == [status |-> "absent", factory |-> 0, errors |-> 0, used |-> "never"]

ManagerInit ==
    /\ clock = 1 /\ file = [p \in Plugins |-> 1]
    /\ opened = [p \in Plugins |-> 0]
    /\ plugins = [p \in Plugins |-> Absent]
    /\ held = FALSE
    /\ starting = 0 /\ starts = 0
    /\ watcher = [w \in Watchers |-> [at |-> "none", next |-> 1, last |-> 0, stop |-> FALSE]]
    /\ current = 0
    /\ stopping = "no" /\ shutdown = FALSE
    /\ health = [running |-> FALSE, stop |-> FALSE]
    /\ checking = 0 /\ healthy = [p \in Plugins |-> FALSE]
    /\ panicked = FALSE

-----------------------------------------------------------------------------
(* Loading, under Manager.mu                                               *)

\* The version of p the process has once plugin.Open has returned it.
Open(p) == IF opened[p] = 0 THEN file[p] ELSE opened[p]

\* The registry's factories: nothing unregisters one.
Registered == {p \in Plugins \ NoFactory : opened[p] # 0}

\* loadPluginUnsafe.  A file may be refused, by plugin.Open or for its symbols,
\* as long as it never was accepted.
Load(p, info) ==
    \/ /\ opened' = [opened EXCEPT ![p] = Open(p)]
       /\ plugins' = [plugins EXCEPT ![p] = [info EXCEPT
              !.status = "active", !.factory = IF p \in NoFactory THEN 0 ELSE Open(p)]]
    \/ /\ opened[p] = 0
       /\ plugins' = [plugins EXCEPT ![p] = [info EXCEPT
              !.status = "error", !.factory = 0,
              !.errors = IF @ > CriticalErrors THEN @ ELSE @ + 1]]
       /\ UNCHANGED opened

\* LoadPlugin: an active plugin is refused, any other is loaded anew.
LoadOrRefuse(p) ==
    IF plugins[p].status = "active" THEN UNCHANGED loaded ELSE Load(p, Absent)

\* What a call that holds the lock throughout leaves alone.
Locked ==
    /\ ~panicked /\ ~held
    /\ UNCHANGED <<files, held, startVars, watchVars, stopVars, healthVars, panicked>>

LoadPlugin(p) == LoadOrRefuse(p) /\ Locked

UnloadPlugin(p) ==
    /\ plugins[p].status # "absent"
    /\ plugins' = [plugins EXCEPT ![p] = Absent]
    /\ UNCHANGED opened /\ Locked

ReloadPlugin(p) ==
    /\ plugins[p].status # "absent"
    /\ Load(p, plugins[p])
    /\ Locked

\* GetConnectorFactory.  Registry.Create and the other calls of the registry
\* build a connector from it, and so does ensureConnector, and leave nothing
\* behind in the manager.
UseFactory(p) ==
    /\ plugins[p].status = "active" /\ plugins[p].factory # 0
    /\ plugins' = [plugins EXCEPT ![p].used = "recent"]
    /\ UNCHANGED opened /\ Locked

\* cleanupUnusedPlugins.  The scheduler does not wait for a job it has
\* started: one may still come when it has been stopped.
Cleanup ==
    /\ starts > 0
    /\ plugins' = [p \in Plugins |->
           IF plugins[p].used = "old" /\ plugins[p].status # "active" THEN Absent
           ELSE plugins[p]]
    /\ UNCHANGED opened /\ Locked

-----------------------------------------------------------------------------
(* The environment: files are written, and hours pass without a use        *)

WriteFile(p) ==
    /\ clock < MaxTime
    /\ clock' = clock + 1 /\ file' = [file EXCEPT ![p] = clock + 1]
    /\ UNCHANGED <<loaded, held, startVars, watchVars, stopVars, healthVars,
                   panicked>>

GoUnused(p) ==
    /\ plugins[p].used = "recent"
    /\ plugins' = [plugins EXCEPT ![p].used = "old"]
    /\ UNCHANGED <<files, opened, held, startVars, watchVars, stopVars,
                   healthVars, panicked>>

-----------------------------------------------------------------------------
(* Start: one load after the other, then the goroutines                    *)

Start ==
    /\ ~panicked /\ starting = 0 /\ starts < MaxStarts
    /\ starting' = 1 /\ starts' = starts + 1
    /\ UNCHANGED <<files, loaded, held, watchVars, stopVars, healthVars, panicked>>

StartLoad ==
    /\ ~panicked /\ starting \in Plugins /\ ~held
    /\ LoadOrRefuse(starting)
    /\ starting' = starting + 1
    /\ UNCHANGED <<files, held, starts, watchVars, stopVars, healthVars, panicked>>

\* A second Start replaces the entry in Manager.watchers, but not the
\* goroutine that has the old one.  The health checker's loop only removes
\* resolved issues, and nothing resolves one.
StartRest ==
    /\ ~panicked /\ starting = NumPlugins + 1
    /\ starting' = 0
    /\ watcher' = [watcher EXCEPT ![starts].at = "wait"]
    /\ current' = starts
    /\ health' = [health EXCEPT !.running = TRUE]
    /\ UNCHANGED <<files, loaded, held, starts, stopVars, checking, healthy,
                   panicked>>

-----------------------------------------------------------------------------
(* watchDirectory                                                          *)

Watch(w) ==
    /\ ~panicked
    /\ UNCHANGED <<files, held, startVars, current, stopVars, healthVars, panicked>>

Tick(w) ==
    /\ watcher[w].at = "wait"
    /\ watcher' = [watcher EXCEPT ![w].at = "walk"]
    /\ UNCHANGED loaded /\ Watch(w)

\* checkDirectoryChanges: one LastModified serves all the files of the walk.
CheckFile(w) ==
    LET p == watcher[w].next
        changed == file[p] > watcher[w].last
    IN  /\ watcher[w].at = "walk"
        /\ IF changed THEN ~held /\ LoadOrRefuse(p) ELSE UNCHANGED loaded
        /\ watcher' = [watcher EXCEPT ![w] =
               [@ EXCEPT !.last = IF changed THEN file[p] ELSE @,
                         !.next = (p % NumPlugins) + 1,
                         !.at = IF p = NumPlugins THEN "wait" ELSE @]]
        /\ Watch(w)

\* A mutant: a watcher that looks at its own channel alone.
EndWatcherByStopCh(w) ==
    /\ watcher[w].at = "wait" /\ watcher[w].stop
    /\ watcher' = [watcher EXCEPT ![w].at = "ended"]
    /\ UNCHANGED loaded /\ Watch(w)

EndWatcher(w) ==
    /\ watcher[w].at = "wait" /\ (watcher[w].stop \/ shutdown)
    /\ watcher' = [watcher EXCEPT ![w].at = "ended"]
    /\ UNCHANGED loaded /\ Watch(w)

-----------------------------------------------------------------------------
(* Stop                                                                    *)

\* A second Stop closes a closed channel.
StopBegin ==
    /\ ~panicked
    /\ IF shutdown THEN panicked' = TRUE /\ UNCHANGED stopVars
       ELSE shutdown' = TRUE /\ stopping' = "watchers" /\ UNCHANGED panicked
    /\ UNCHANGED <<files, loaded, held, startVars, watchVars, healthVars>>

\* A mutant: the lock is kept for the rest of the call.
StopWatchersKeepingMu ==
    /\ ~panicked /\ stopping = "watchers" /\ ~held
    /\ stopping' = "health" /\ held' = TRUE
    /\ watcher' = [w \in Watchers |-> [watcher[w] EXCEPT !.stop = @ \/ w = current]]
    /\ current' = 0
    /\ UNCHANGED <<files, loaded, startVars, shutdown, healthVars, panicked>>

StopWatchers ==
    /\ ~panicked /\ stopping = "watchers" /\ ~held
    /\ stopping' = "health"
    /\ watcher' = [w \in Watchers |-> [watcher[w] EXCEPT !.stop = @ \/ w = current]]
    /\ current' = 0
    /\ UNCHANGED <<files, loaded, held, startVars, shutdown, healthVars, panicked>>

\* HealthChecker.Stop
StopHealth ==
    /\ ~panicked /\ stopping = "health" /\ checking = 0
    /\ stopping' = "unload"
    /\ health' = [running |-> FALSE, stop |-> health.stop \/ health.running]
    /\ UNCHANGED <<files, loaded, held, startVars, watchVars, shutdown, checking,
                   healthy, panicked>>

StopUnload ==
    /\ ~panicked /\ stopping = "unload"
    /\ plugins' = [p \in Plugins |-> Absent]
    /\ stopping' = "no" /\ held' = FALSE
    /\ UNCHANGED <<files, opened, startVars, watchVars, shutdown, healthVars,
                   panicked>>

-----------------------------------------------------------------------------
(* CheckPluginHealth takes its own lock first, Manager.mu (in GetPlugin)    *)
(* after.                                                                  *)

CheckHealth(p) ==
    /\ ~panicked /\ checking = 0
    /\ checking' = p
    /\ UNCHANGED <<files, loaded, held, startVars, watchVars, stopVars, health,
                   healthy, panicked>>

ReadHealth ==
    /\ ~panicked /\ checking # 0 /\ ~held
    /\ healthy' = [healthy EXCEPT ![checking] =
           plugins[checking].status = "active" /\ plugins[checking].errors <= CriticalErrors]
    /\ checking' = 0
    /\ UNCHANGED <<files, loaded, held, startVars, watchVars, stopVars, health,
                   panicked>>

-----------------------------------------------------------------------------
ManagerNext ==
    \/ \E p \in Plugins : LoadPlugin(p) \/ UnloadPlugin(p) \/ ReloadPlugin(p)
    \/ \E p \in Plugins : UseFactory(p)
    \/ Cleanup
    \/ \E p \in Plugins : WriteFile(p) \/ GoUnused(p)
    \/ Start \/ StartLoad \/ StartRest
    \/ \E w \in Watchers : Tick(w) \/ CheckFile(w) \/ EndWatcher(w)
    \/ StopBegin \/ StopWatchers \/ StopHealth \/ StopUnload
    \/ (\E p \in Plugins : CheckHealth(p)) \/ ReadHealth
=============================================================================
