------------------------------ MODULE Plugins ------------------------------
(***************************************************************************)
(* The plugin service behind plugin/api.go: the manager and the sandbox.   *)
(* An endpoint calls one or the other, and they share no state, so that    *)
(* the behaviours of either are those with the other at rest: part says    *)
(* which of them a behaviour is about.                                     *)
(***************************************************************************)
EXTENDS PluginManager, Sandbox

VARIABLE part

vars == <<part, managerVars, sandboxVars>>

Init == part \in {"manager", "sandbox"} /\ ManagerInit /\ SandboxInit

ManagerStep(action) == part = "manager" /\ action /\ UNCHANGED <<part, sandboxVars>>
SandboxStep(action) == part = "sandbox" /\ action /\ UNCHANGED <<part, managerVars>>

Next == ManagerStep(ManagerNext) \/ SandboxStep(SandboxNext)

Spec == Init /\ [][Next]_vars

(* Goroutines of the manager that can go on do; a mutex is granted in the  *)
(* end; and a select with several ready cases takes one at random, so that *)
(* none is passed over for ever.                                           *)
FairSpec ==
    /\ Spec
    /\ WF_vars(ManagerStep(StartLoad)) /\ WF_vars(ManagerStep(StartRest))
    /\ WF_vars(ManagerStep(StopWatchers)) /\ SF_vars(ManagerStep(StopHealth))
    /\ WF_vars(ManagerStep(StopUnload)) /\ WF_vars(ManagerStep(ReadHealth))
    /\ \A w \in Watchers : /\ WF_vars(ManagerStep(CheckFile(w)))
                           /\ SF_vars(ManagerStep(EndWatcher(w)))

-----------------------------------------------------------------------------
(* Properties                                                              *)

\* Start, Stop and a health check return, or the process has panicked: the
\* health checker takes its own lock and then the manager's, and Stop takes
\* both, but never the second with the first.
PluginCallsReturn ==
    /\ starting # 0 ~> starting = 0 \/ panicked
    /\ stopping # "no" ~> stopping = "no" \/ panicked
    /\ checking # 0 ~> checking = 0 \/ panicked

\* Every watcher goroutine ends once the manager has been stopped, those
\* whose entry a second Start has overwritten included.
WatchersEnd ==
    \A w \in Watchers :
        shutdown /\ watcher[w].at # "none" ~> watcher[w].at = "ended" \/ panicked

\* A plugin the watcher has reloaded has the code of its file: what
\* docs/plugin-system.md calls the hot reload.
ReloadedIsCurrent ==
    \A p \in Plugins : plugins[p].factory # 0 /\ (\A w \in Watchers : watcher[w].at = "wait")
        => plugins[p].factory = file[p]

\* A process restarted over the API runs on: nobody stops it, and it does not
\* exit by itself.
RestartedIsLeftAlive ==
    \A p \in Pids : p = entry /\ status[p] = "running" => p \notin killed

\* Once Stop has returned, no plugin is loaded.
StoppedIsEmpty ==
    shutdown /\ stopping = "no" /\ starting = 0 => \A p \in Plugins : plugins[p] = Absent
=============================================================================
