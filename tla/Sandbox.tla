------------------------------ MODULE Sandbox ------------------------------
(***************************************************************************)
(* The plugin sandbox (plugin/sandbox.go) and the endpoint that restarts a *)
(* plugin's process (handleRestartPlugin in plugin/api.go), for one plugin *)
(* name.  Nothing in the sandbox takes a lock: Callers are the goroutines  *)
(* that call it, and a call is as many steps as others can fall between.   *)
(* The monitors of resources, which only log, are left out, and so is the  *)
(* end of the agent itself, by which the Go runtime may answer a race on   *)
(* the map.                                                                *)
(***************************************************************************)
EXTENDS Integers

CONSTANTS Callers, MaxPid     \* MaxPid bounds the processes ever started

Pids == 1..MaxPid

ASSUME SandboxAssumption == MaxPid \in Nat

VARIABLES
    entry,    \* the process Sandbox.processes has, 0 for none
    status,   \* the Status of each SandboxedProcess
    started,  \* the number of processes started
    alive,    \* those the operating system runs
    killed,   \* those sent SIGKILL, by StopPlugin or for their context
    waited,   \* those with a goroutine of StopPlugin in Command.Wait
    watched,  \* those with a monitorProcess goroutine
    caller,   \* [at, pid, restart]: the call each caller is in
    alone     \* history: callers whose call no other has overlapped so far

sandboxVars == <<entry, status, started, alive, killed, waited, watched, caller, alone>>

NoCall == [at |-> "idle", pid |-> 0, restart |-> FALSE]

SandboxInit ==
    /\ entry = 0 /\ started = 0
    /\ status = [p \in Pids |-> "none"]
    /\ alive = {} /\ killed = {} /\ waited = {} /\ watched = {}
    /\ caller = [c \in Callers |-> NoCall] /\ alone = {}

-----------------------------------------------------------------------------
\* A call begins: it is alone if there is no other, and no other is any more.
Enter(c, at, pid, restart) ==
    /\ caller[c].at = "idle"
    /\ caller' = [caller EXCEPT ![c] = [at |-> at, pid |-> pid, restart |-> restart]]
    /\ alone' = IF \A d \in Callers \ {c} : caller[d].at = "idle" THEN {c} ELSE {}

GoesTo(c, at, pid) ==
    /\ caller' = [caller EXCEPT ![c].at = at, ![c].pid = pid]
    /\ UNCHANGED alone

Return(c) == caller' = [caller EXCEPT ![c] = NoCall] /\ alone' = alone \ {c}

(* StartPlugin refuses a plugin that is running, and no other.             *)
NotRunning == entry # 0 => status[entry] # "running"

\* A mutant: StartPlugin without its check.
StartPluginUnchecked(c) ==
    /\ Enter(c, "start", 0, FALSE)
    /\ UNCHANGED <<entry, status, started, alive, killed, waited, watched>>

StartPlugin(c) ==
    /\ NotRunning
    /\ Enter(c, "start", 0, FALSE)
    /\ UNCHANGED <<entry, status, started, alive, killed, waited, watched>>

\* The process is started, and put into the table over what is there.
Launch(c) ==
    LET p == started + 1 IN
    /\ caller[c].at = "start" /\ p \in Pids
    /\ started' = p /\ entry' = p
    /\ status' = [status EXCEPT ![p] = "starting"]
    /\ alive' = alive \cup {p}
    /\ GoesTo(c, "launched", p)
    /\ UNCHANGED <<killed, waited, watched>>

\* The configuration of the process, or its start, fails.
StartFails(c) ==
    /\ caller[c].at = "start"
    /\ Return(c)
    /\ UNCHANGED <<entry, status, started, alive, killed, waited, watched>>

(* The end of StartPlugin, whatever has become of the process meanwhile.   *)
(* One that is restarted is bound to the context of the request, which is  *)
(* cancelled when the handler returns: exec kills the process then.        *)
Launched(c) ==
    LET p == caller[c].pid IN
    /\ caller[c].at = "launched"
    /\ status' = [status EXCEPT ![p] = "running"]
    /\ watched' = watched \cup {p}
    /\ killed' = IF caller[c].restart THEN killed \cup {p} ELSE killed
    /\ Return(c)
    /\ UNCHANGED <<entry, started, alive, waited>>

(* StopPlugin up to its wait: SIGTERM, which the process may ignore, and a *)
(* goroutine that waits for the exit.                                      *)
TakesOn == /\ entry # 0
           /\ status' = [status EXCEPT ![entry] = "stopped"]
           /\ waited' = waited \cup {entry}
           /\ UNCHANGED <<entry, started, alive, killed, watched>>

StopPlugin(c) == TakesOn /\ Enter(c, "wait", entry, FALSE)

RestartPlugin(c) ==
    /\ entry # 0
    /\ status' = [status EXCEPT ![entry] = "restarting"]
    /\ Enter(c, "restart", entry, TRUE)
    /\ UNCHANGED <<entry, started, alive, killed, waited, watched>>

\* RestartPlugin calls StopPlugin with the name: it stops whatever has that
\* by now, and that there is nothing to stop is only logged.
RestartStops(c) ==
    /\ caller[c].at = "restart"
    /\ \/ TakesOn /\ GoesTo(c, "wait", entry)
       \/ /\ entry = 0 /\ GoesTo(c, "again", 0)
          /\ UNCHANGED <<entry, status, started, alive, killed, waited, watched>>

\* The rest of StopPlugin removes whatever entry the name has by now.
Deletes(c) ==
    /\ caller[c].at = "wait"
    /\ entry' = 0
    /\ IF caller[c].restart THEN GoesTo(c, "again", 0) ELSE Return(c)
    /\ UNCHANGED <<status, started, alive, waited, watched>>

\* Wait has seen the exit, or failed because another Wait has.
WaitReturns(c) == caller[c].pid \notin alive /\ Deletes(c) /\ UNCHANGED killed

\* Ten seconds: the process is killed, and nothing waits for that.
WaitTimesOut(c) == Deletes(c) /\ killed' = killed \cup {caller[c].pid}

RestartStarts(c) ==
    /\ caller[c].at = "again"
    /\ IF NotRunning THEN GoesTo(c, "start", 0) ELSE Return(c)
    /\ UNCHANGED <<entry, status, started, alive, killed, waited, watched>>

\* Processes also end by themselves.  Nobody waits for one that does: its
\* status remains "running".
Exits(p) ==
    /\ p \in alive
    /\ alive' = alive \ {p}
    /\ UNCHANGED <<entry, status, started, killed, waited, watched, caller, alone>>

\* monitorProcess ends when it reads that the process is stopped, or, at a
\* tick, that Wait has seen it exit.
MonitorEnds(p) ==
    /\ p \in watched
    /\ \/ status[p] = "stopped" /\ UNCHANGED status
       \/ p \in waited \ alive /\ status' = [status EXCEPT ![p] = "error"]
    /\ watched' = watched \ {p}
    /\ UNCHANGED <<entry, started, alive, killed, waited, caller, alone>>

SandboxNext ==
    \/ \E c \in Callers : StartPlugin(c) \/ StopPlugin(c) \/ RestartPlugin(c)
    \/ \E c \in Callers : Launch(c) \/ StartFails(c) \/ Launched(c)
    \/ \E c \in Callers : RestartStops(c) \/ RestartStarts(c)
    \/ \E c \in Callers : WaitReturns(c) \/ WaitTimesOut(c)
    \/ \E p \in Pids : Exits(p) \/ MonitorEnds(p)

SandboxSpec == SandboxInit /\ [][SandboxNext]_sandboxVars

-----------------------------------------------------------------------------
(* Properties                                                              *)

\* Processes that run on with nobody to end them: not in the table, not
\* killed, and no StopPlugin waits for them.
WaitedFor == {caller[c].pid : c \in {d \in Callers : caller[d].at = "wait"}}
Orphans == alive \ ({entry} \cup killed \cup WaitedFor)

\* Whoever calls the sandbox at the same time, a process that some StopPlugin
\* took on never becomes an orphan: its status may be overwritten and its
\* entry replaced, but it is waited for until it is dead or has been killed.
\* One that nobody stopped becomes an orphan only by a step of a call that
\* another call has overlapped.
OrphansNeedOverlap ==
    /\ [](waited \cap Orphans = {})
    /\ [][Orphans' \subseteq Orphans \/ \E c \in Callers \ alone : caller'[c] # caller[c]]_sandboxVars
=============================================================================
