------------------------------- MODULE Engine -------------------------------
(***************************************************************************)
(* The life of the process: boot, the runtime tasks, the pair refresh that *)
(* restarts the WebSocket managers, the operator's /restart, which runs    *)
(* inside one of the tasks it restarts, and the shutdown a signal starts   *)
(* beside all of them (src/main.py, src/bootstrap.py).                     *)
(*                                                                         *)
(* A cancelled task ends when it runs next.  start_websockets never gives  *)
(* way to another task, stop() of a manager does.                          *)
(***************************************************************************)
EXTENDS Integers, Sequences, FiniteSets

CONSTANTS
    Loops,      \* the tasks of launch_runtime_tasks
    RefreshTask,\* the task of _pair_refresh_loop
    PollTask,   \* the task of poll_commands, in which commands are handled
    Managers,   \* the three WebSocket managers
    HistoryMax  \* bound of the signals archived

ASSUME EngineAssumption ==
    /\ IsFiniteSet(Loops) /\ {RefreshTask, PollTask} \subseteq Loops
    /\ IsFiniteSet(Managers) /\ "liq" \in Managers
    /\ HistoryMax \in Nat

VARIABLES
    booted,     \* has boot() launched the tasks?
    task,       \* each runtime task: "none", "running", "cancelled" or "ended"
    sockets,    \* the managers with open connections
    changing,   \* the managers the refresh loop still has to stop, or {}
    restart,    \* _restart_tasks: "no", "gathering", "stopping" or "restarted"
    down,       \* shutdown(): "no", "stopping", "gathering" or "done"
    toStop,     \* the managers shutdown still has to stop
    saved,      \* did shutdown save the snapshot?
    earlySignal,\* history: the signal came before the tasks were launched
    archived,   \* signals _remove_and_archive has put into _signal_history
    listed      \* those of them in the list the command handler holds

enVars == <<booted, task, sockets, changing, restart, down, toStop, saved,
            earlySignal, archived, listed>>
histories == <<archived, listed>>

EnInit ==
    /\ booted = FALSE
    /\ task = [l \in Loops |-> "none"]
    /\ sockets = {}
    /\ changing = {}
    /\ restart = "no"
    /\ down = "no"
    /\ toStop = {}
    /\ saved = FALSE
    /\ earlySignal = FALSE
    /\ archived = 0
    /\ listed = 0

Running(l) == task[l] = "running"
Cancelled(S) == [l \in Loops |-> IF l \in S /\ Running(l) THEN "cancelled" ELSE task[l]]

(* The data is there: the sockets are opened and the tasks launched, even  *)
(* when a signal has come meanwhile.                                       *)
BootLaunches ==
    /\ ~ booted
    /\ booted' = TRUE
    /\ sockets' = Managers
    /\ task' = [l \in Loops |-> "running"]
    /\ UNCHANGED <<changing, restart, down, toStop, saved, earlySignal, histories>>

TaskEnds(l) ==
    /\ task[l] = "cancelled"
    /\ ~ (l = PollTask /\ restart \in {"gathering", "stopping"})
    /\ task' = [task EXCEPT ![l] = "ended"]
    /\ changing' = IF l = RefreshTask THEN {} ELSE changing
    /\ UNCHANGED <<booted, sockets, restart, down, toStop, saved, earlySignal, histories>>

-----------------------------------------------------------------------------
(* The pair refresh: a changed universe restarts the managers              *)

UniverseChanged ==
    /\ Running(RefreshTask)
    /\ changing = {}
    /\ changing' = Managers
    /\ UNCHANGED <<booted, task, sockets, restart, down, toStop, saved, earlySignal, histories>>

RefreshGoesOnFaulty == task[RefreshTask] \in {"running", "cancelled"}

(* A cancelled refresh loop breaks at its next step.                       *)
RefreshGoesOn == Running(RefreshTask)

(* One manager after the other is stopped; the last stop is followed by    *)
(* the start of all.                                                       *)
RefreshStops(m) ==
    /\ RefreshGoesOn
    /\ m \in changing
    /\ changing' = changing \ {m}
    /\ sockets' = IF changing' = {} THEN Managers ELSE sockets \ {m}
    /\ UNCHANGED <<booted, task, restart, down, toStop, saved, earlySignal, histories>>

-----------------------------------------------------------------------------
(* /restart                                                                *)

(* _restart_tasks cancels every runtime task, the one it runs in included, *)
(* and waits for them.                                                     *)
RestartRequested ==
    /\ Running(PollTask)
    /\ restart = "no"
    /\ restart' = "gathering"
    /\ task' = Cancelled(Loops)
    /\ UNCHANGED <<booted, sockets, changing, down, toStop, saved, earlySignal, histories>>

(* All of them are done: the kline managers are stopped and everything is  *)
(* started again.                                                          *)
RestartGathered ==
    /\ restart = "gathering"
    /\ \A l \in Loops : task[l] = "ended"
    /\ restart' = "stopping"
    /\ sockets' = sockets \cap {"liq"}
    /\ UNCHANGED <<booted, task, changing, down, toStop, saved, earlySignal, histories>>

RestartLaunches ==
    /\ restart = "stopping"
    /\ restart' = "restarted"
    /\ sockets' = Managers
    /\ task' = [l \in Loops |-> "running"]
    /\ UNCHANGED <<booted, changing, down, toStop, saved, earlySignal, histories>>

-----------------------------------------------------------------------------
(* The shutdown, a task of its own; a second signal is ignored             *)

Terminated ==
    /\ down = "no"
    /\ down' = "stopping"
    /\ task' = Cancelled(Loops)
    /\ toStop' = Managers
    /\ earlySignal' = ~ booted
    /\ UNCHANGED <<booted, sockets, changing, restart, saved, histories>>

ShutdownStops(m) ==
    /\ down = "stopping"
    /\ m \in toStop
    /\ toStop' = toStop \ {m}
    /\ sockets' = sockets \ {m}
    /\ UNCHANGED <<booted, task, changing, restart, down, saved, earlySignal, histories>>

ShutdownSaves ==
    /\ down = "stopping"
    /\ toStop = {}
    /\ down' = "gathering"
    /\ saved' = TRUE
    /\ UNCHANGED <<booted, task, sockets, changing, restart, toStop, earlySignal, histories>>

(* gather over the tasks that were there when the signal came.             *)
ShutdownDone ==
    /\ down = "gathering"
    /\ earlySignal \/ \A l \in Loops : task[l] = "ended"
    /\ down' = "done"
    /\ UNCHANGED <<booted, task, sockets, changing, restart, toStop, saved, earlySignal, histories>>

-----------------------------------------------------------------------------
(* _remove_and_archive appends to the list and then replaces it by a copy, *)
(* which the command handler, made with the first list, never sees.        *)
Archives ==
    /\ \E l \in Loops : Running(l)
    /\ archived < HistoryMax
    /\ archived' = archived + 1
    /\ listed' = IF archived = 0 THEN 1 ELSE listed
    /\ UNCHANGED <<booted, task, sockets, changing, restart, down, toStop, saved, earlySignal>>

EnNext ==
    \/ BootLaunches \/ UniverseChanged
    \/ RestartRequested
    \/ Terminated \/ ShutdownSaves \/ ShutdownDone \/ Archives
    \/ \E l \in Loops : TaskEnds(l)
    \/ \E m \in Managers : RefreshStops(m) \/ ShutdownStops(m)

EnSpec == EnInit /\ [][EnNext]_enVars

(* With the rest of _restart_tasks, which no behaviour reaches.            *)
RestartNext == EnNext \/ RestartGathered \/ RestartLaunches

(* The event loop lets every task run that can.                            *)
EnFairness ==
    /\ \A l \in Loops : WF_enVars(TaskEnds(l))
    /\ \A m \in Managers : WF_enVars(RefreshStops(m)) /\ WF_enVars(ShutdownStops(m))
    /\ WF_enVars(ShutdownSaves) /\ WF_enVars(ShutdownDone)

EnFairSpec == EnSpec /\ EnFairness

RestartSpec ==
    /\ EnInit /\ [][RestartNext]_enVars
    /\ EnFairness /\ WF_enVars(RestartGathered) /\ WF_enVars(RestartLaunches)

-----------------------------------------------------------------------------
EnTypeOK ==
    /\ booted \in BOOLEAN /\ saved \in BOOLEAN /\ earlySignal \in BOOLEAN
    /\ task \in [Loops -> {"none", "running", "cancelled", "ended"}]
    /\ sockets \subseteq Managers /\ changing \subseteq Managers /\ toStop \subseteq Managers
    /\ restart \in {"no", "gathering", "stopping", "restarted"}
    /\ down \in {"no", "stopping", "gathering", "done"}
    /\ archived \in 0..HistoryMax /\ listed \in 0..archived

(* Once a shutdown that found the tasks running is done, nothing of the    *)
(* engine is left: no task runs, no socket is open and the candles are     *)
(* saved, wherever the refresh loop or a restart was when the signal came. *)
QuietAfterShutdown ==
    down = "done" /\ ~ earlySignal =>
        /\ \A l \in Loops : ~ Running(l)
        /\ sockets = {}
        /\ saved

(* A shutdown comes to its end, unless a restart hangs.                    *)
ShutdownEnds ==
    down = "stopping" /\ restart = "no" ~> down = "done" \/ restart # "no"

(* "Restart all engine tasks", "Cancel and restart all async tasks": a     *)
(* requested restart ends with new tasks, unless the process is stopped.   *)
RestartCompletes ==
    restart = "gathering" ~> restart = "restarted" \/ down # "no"

(* "Show last 10 completed signals", "Remove a signal from active tracking *)
(* and archive it in history": /history lists the archived signals.        *)
HistoryListed == listed = archived
=============================================================================
